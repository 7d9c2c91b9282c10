--------------------------- MODULE CudaRun_proofs ---------------------------
(***************************************************************************)
(* Theorems about CudaRun, for any number of processes and maps, any extents *)
(* and stencils, and whether MPI copies messages or not, of programs that    *)
(* fulfil the four conditions below.                                        *)
(*                                                                         *)
(* What a run keeps true is said by operators with the job and the part of  *)
(* the state that they are about as arguments: the steps of a process are   *)
(* then lemmas about the state of this process.                             *)
(***************************************************************************)
EXTENDS CudaRun, CudaGrid_proofs, FiniteSetTheorems, TLAPS

\* Every part is as wide as the halos that the neighbours want of it, which is
\* what the test in LoadNeighbor is for (grid_mpi.cc:996), whose disjunction
\* always holds.
WidthsFit ==
  \A jb \in Jobs, d \in Axis :
    Most(BwWidth(jb, d), FwWidth(jb, d)) <= jb.size[d] \div jb.procs[d]

\* If points off the axes are read, the stencil reaches in both directions of a
\* dimension or in none.
TwoWay ==
  \A jb \in Jobs : Diagonal(jb) => \A d \in Axis : FwWidth(jb, d) > 0 <=> BwWidth(jb, d) > 0

\* The halos are loaded in one stage, as in the code that the translator makes.
OneStage == \A jb \in Jobs : ~jb.staged

\* The part of the domain of a process.
Part(j, p) == LocalDomain(Domain(j.lo, j.hi), j.offset[p], j.extent[p])

\* A process whose boundary has kernels of its own has no point of the domain, or
\* enough of them for the faces, which do not overlap if they have streams.
DomainsWide ==
  \A jb \in Jobs : Enabled(jb) =>
    \A p \in Procs(jb) :
      /\ Wide(Part(Prepared(jb), p), Width(jb))
      /\ jb.streams => Wide(Part(Prepared(jb), p), 2 * Width(jb))

Conditions == WidthsFit /\ TwoWay /\ OneStage /\ DomainsWide

-----------------------------------------------------------------------------
(* The least and the greatest value of a function on a finite set.          *)

LEMMA LeastValue ==
  ASSUME NEW S, IsFiniteSet(S), S # {}, NEW f \in [S -> Int]
  PROVE  \E m \in S : \A n \in S : f[m] <= f[n]
<1> DEFINE Bounded(U) == \E m \in U : \A n \in U : f[m] <= f[n]
           Bad == {U \in SUBSET S : U # {} /\ ~Bounded(U)}
           Sizes == {Cardinality(U) : U \in Bad}
<1> SUFFICES ASSUME S \in Bad PROVE FALSE
  OBVIOUS
<1>1. \A U \in Bad : IsFiniteSet(U) /\ Cardinality(U) \in Nat
  BY FS_Subset, FS_CardinalityType
<1>2. PICK U \in Bad : \A V \in Bad : Cardinality(U) <= Cardinality(V)
  <2>1. Sizes \in SUBSET Nat /\ Sizes # {}
    BY <1>1
  <2> HIDE DEF Bad
  <2>2. PICK n \in Sizes : \A k \in Sizes : n <= k
    BY <2>1, LeastNatural
  <2> QED BY <2>2
<1>3. PICK x \in U : TRUE
  OBVIOUS
<1>4. IsFiniteSet(U \ {x}) /\ Cardinality(U \ {x}) = Cardinality(U) - 1 /\ Cardinality(U) \in Nat
  BY <1>1, FS_RemoveElement
<1>5. U \ {x} \notin Bad
  <2>1. ~(Cardinality(U) <= Cardinality(U \ {x}))
    BY <1>4
  <2> QED BY ONLY <1>2, <2>1
<1>6. CASE U \ {x} = {}
  <2>1. \A n \in U : n = x
    BY <1>6
  <2> QED BY <1>3, <2>1
<1>7. CASE U \ {x} # {}
  <2>1. PICK m \in U \ {x} : \A n \in U \ {x} : f[m] <= f[n]
    BY <1>5, <1>7
  <2>2. f[x] \in Int /\ f[m] \in Int /\ \A n \in U : n = x \/ n \in U \ {x}
    OBVIOUS
  <2>3. CASE f[m] <= f[x]
    BY <2>1, <2>2, <2>3
  <2>4. CASE f[x] <= f[m]
    <3>1. ASSUME NEW n \in U PROVE f[x] <= f[n]
      <4>1. f[n] \in Int
        OBVIOUS
      <4> QED BY <2>1, <2>2, <2>4, <4>1
    <3> QED BY <3>1
  <2> QED BY <2>2, <2>3, <2>4
<1> QED BY <1>6, <1>7

LEMMA MinMax ==
  ASSUME NEW S, IsFiniteSet(S), S # {}, NEW f \in [S -> Int]
  PROVE  LET V == {f[n] : n \in S}
         IN  /\ Min(V) \in V /\ \A n \in S : Min(V) <= f[n]
             /\ Max(V) \in V /\ \A n \in S : Max(V) >= f[n]
<1> DEFINE V == {f[n] : n \in S}
           g == [n \in S |-> -f[n]]
<1>1. \E m \in V : \A n \in V : m <= n
  <2>1. PICK m \in S : \A n \in S : f[m] <= f[n]
    BY LeastValue
  <2> QED BY <2>1
<1>2. \E m \in V : \A n \in V : m >= n
  <2>1. g \in [S -> Int]
    OBVIOUS
  <2> HIDE DEF g
  <2>2. PICK m \in S : \A n \in S : g[m] <= g[n]
    BY <2>1, LeastValue
  <2>3. ASSUME NEW n \in S PROVE f[m] >= f[n]
    <3>1. g[m] <= g[n] /\ f[m] \in Int /\ f[n] \in Int
      BY <2>2
    <3>2. g[m] = -f[m] /\ g[n] = -f[n]
      BY DEF g
    <3> QED BY ONLY <3>1, <3>2
  <2> QED BY <2>3
<1> QED BY <1>1, <1>2 DEF Min, Max

\* The least number of a set of them.
LEMMA LeastOf ==
  ASSUME NEW T \in SUBSET Nat, T # {}
  PROVE  Min(T) \in T /\ \A n \in T : Min(T) <= n
<1>1. \E m \in T : \A n \in T : m <= n
  BY LeastNatural
<1> QED BY <1>1 DEF Min

-----------------------------------------------------------------------------
(* The job.                                                                 *)

Known(j) == j \in {Prepared(jb) : jb \in Jobs}

All(j)         == DOMAIN j.offset
Next_(j, p, d) == [p EXCEPT ![d] = (@ + 1) % j.procs[d]]
Prev_(j, p, d) == [p EXCEPT ![d] = (@ + j.procs[d] - 1) % j.procs[d]]
From(j, p, d, fw) == IF fw THEN Next_(j, p, d) ELSE Prev_(j, p, d)
To(j, p, d, fw)   == IF fw THEN Prev_(j, p, d) ELSE Next_(j, p, d)

WidthIn(j, d, fw) == IF fw THEN j.fw[d] ELSE j.bw[d]

\* The widths are those of the furthest offsets.
LEMMA WidthFacts ==
  ASSUME NEW jb \in Jobs, NEW d \in Axis
  PROVE  /\ FwWidth(jb, d) \in Nat /\ BwWidth(jb, d) \in Nat
         /\ \A o \in jb.stencil :
              o[d] \in Int /\ o[d] <= FwWidth(jb, d) /\ -BwWidth(jb, d) <= o[d]
<1>1. jb.stencil \subseteq [Axis -> Int] /\ jb.stencil # {} /\ IsFiniteSet(jb.stencil)
  BY CudaRunAssumption DEF Job
<1> DEFINE f == [o \in jb.stencil |-> o[d]]
<1>2. f \in [jb.stencil -> Int] /\ \A o \in jb.stencil : f[o] = o[d]
  BY <1>1
<1>3. {o[d] : o \in jb.stencil} = {f[o] : o \in jb.stencil}
  BY <1>2
<1> HIDE DEF f
<1> DEFINE V == {f[o] : o \in jb.stencil}
<1>4. /\ Min(V) \in V /\ \A o \in jb.stencil : Min(V) <= f[o]
      /\ Max(V) \in V /\ \A o \in jb.stencil : Max(V) >= f[o]
  BY <1>1, <1>2, MinMax
<1>5. Min(V) \in Int /\ Max(V) \in Int
  BY <1>2, <1>4
<1>6. FwWidth(jb, d) = Most(Max(V), 0) /\ BwWidth(jb, d) = Most(-Min(V), 0)
  BY <1>3 DEF FwWidth, BwWidth
<1> HIDE DEF V
<1>7. FwWidth(jb, d) \in Nat /\ BwWidth(jb, d) \in Nat
  BY <1>5, <1>6 DEF Most
<1>8. ASSUME NEW o \in jb.stencil
      PROVE  o[d] \in Int /\ o[d] <= FwWidth(jb, d) /\ -BwWidth(jb, d) <= o[d]
  <2>1. Min(V) <= o[d] /\ Max(V) >= o[d] /\ o[d] \in Int
    BY <1>2, <1>4
  <2> QED BY <1>5, <1>6, <2>1 DEF Most
<1> QED BY <1>7, <1>8

\* Width is the greatest of them.
LEMMA WidthIs ==
  ASSUME NEW jb \in Jobs
  PROVE  /\ Width(jb) \in Nat
         /\ \A d \in Axis : FwWidth(jb, d) <= Width(jb) /\ BwWidth(jb, d) <= Width(jb)
<1> DEFINE S == Axis \X BOOLEAN
           f == [s \in S |-> IF s[2] THEN FwWidth(jb, s[1]) ELSE BwWidth(jb, s[1])]
<1>1. IsFiniteSet(S)
  <2>1. IsFiniteSet(Axis)
    <3>1. PICK a \in Int, b \in Int : a = 1 /\ b = 3
      OBVIOUS
    <3>2. IsFiniteSet(a .. b)
      BY FS_Interval
    <3> QED BY <3>1, <3>2 DEF Axis
  <2>2. IsFiniteSet(BOOLEAN)
    <3>1. IsFiniteSet({} \cup {TRUE})
      BY FS_EmptySet, FS_AddElement
    <3>2. IsFiniteSet(({} \cup {TRUE}) \cup {FALSE})
      BY <3>1, FS_AddElement
    <3>3. ({} \cup {TRUE}) \cup {FALSE} = BOOLEAN
      OBVIOUS
    <3> QED BY <3>2, <3>3
  <2> QED BY <2>1, <2>2, FS_Product
<1>2. S # {}
  <2>1. <<1, TRUE>> \in S
    BY Vectors
  <2> QED BY <2>1
<1>3. f \in [S -> Int]
  BY WidthFacts
<1>4. /\ \A d \in Axis : /\ <<d, TRUE>> \in S /\ f[<<d, TRUE>>] = FwWidth(jb, d)
                         /\ <<d, FALSE>> \in S /\ f[<<d, FALSE>>] = BwWidth(jb, d)
      /\ \A s \in S : /\ f[s] \in Nat
                      /\ f[s] \in {BwWidth(jb, d) : d \in Axis} \cup {FwWidth(jb, d) : d \in Axis}
  BY WidthFacts
<1>5. {BwWidth(jb, d) : d \in Axis} \cup {FwWidth(jb, d) : d \in Axis} = {f[s] : s \in S}
  <2>1. \A v \in {f[s] : s \in S} :
           v \in {BwWidth(jb, d) : d \in Axis} \cup {FwWidth(jb, d) : d \in Axis}
    BY <1>4
  <2>2. ASSUME NEW v \in {BwWidth(jb, d) : d \in Axis} \cup {FwWidth(jb, d) : d \in Axis}
        PROVE  v \in {f[s] : s \in S}
    <3>1. PICK d \in Axis : v = BwWidth(jb, d) \/ v = FwWidth(jb, d)
      BY <2>2
    <3>2. v = f[<<d, TRUE>>] \/ v = f[<<d, FALSE>>]
      BY <1>4, <3>1
    <3> QED BY <1>4, <3>2
  <2> QED BY <2>1, <2>2
<1> HIDE DEF f, S
<1>6. Max({f[s] : s \in S}) \in {f[s] : s \in S} /\ \A n \in S : Max({f[s] : s \in S}) >= f[n]
  BY <1>1, <1>2, <1>3, MinMax
<1>7. Width(jb) \in {f[s] : s \in S} /\ \A n \in S : Width(jb) >= f[n]
  BY <1>5, <1>6 DEF Width
<1>8. Width(jb) \in Nat
  BY <1>4, <1>7
<1>9. ASSUME NEW d \in Axis PROVE FwWidth(jb, d) <= Width(jb) /\ BwWidth(jb, d) <= Width(jb)
  <2>1. Width(jb) >= f[<<d, TRUE>>] /\ Width(jb) >= f[<<d, FALSE>>]
    BY <1>4, <1>7
  <2> QED BY <1>4, <1>8, <2>1, WidthFacts
<1> QED BY <1>8, <1>9

\* What the processes know of the job.
LEMMA JobTypes ==
  ASSUME NEW j, Known(j)
  PROVE  /\ j.procs \in [Axis -> Nat \ {0}] /\ j.size \in Extent /\ j.lo \in Extent /\ j.hi \in Extent
         /\ j.periodic \in BOOLEAN /\ j.regular \in BOOLEAN /\ j.diagonal \in BOOLEAN
         /\ j.stencil \in SUBSET Vector /\ j.rounds \in Nat /\ j.width \in Nat
         /\ j.bw \in Extent /\ j.fw \in Extent
         /\ \A d \in Axis, fw \in BOOLEAN : WidthIn(j, d, fw) \in Nat /\ WidthIn(j, d, fw) <= j.width
<1>1. PICK jb \in Jobs : j = Prepared(jb)
  BY DEF Known
<1>2. /\ j.procs = jb.procs /\ j.size = jb.size /\ j.lo = jb.lo /\ j.hi = jb.hi
      /\ j.periodic = jb.periodic /\ j.regular = jb.regular /\ j.diagonal = Diagonal(jb)
      /\ j.stencil = jb.stencil /\ j.rounds = jb.rounds /\ j.width = Width(jb)
      /\ j.bw = [d \in Axis |-> BwWidth(jb, d)] /\ j.fw = [d \in Axis |-> FwWidth(jb, d)]
  BY <1>1 DEF Prepared
<1>3. /\ jb.procs \in [Axis -> Nat \ {0}] /\ jb.size \in [Axis -> Nat]
      /\ jb.lo \in [Axis -> Nat] /\ jb.hi \in [Axis -> Nat]
      /\ jb.periodic \in BOOLEAN /\ jb.regular \in BOOLEAN /\ jb.stencil \in SUBSET [Axis -> Int]
      /\ jb.rounds \in Nat
  BY CudaRunAssumption DEF Job
<1>4. Width(jb) \in Nat /\ \A d \in Axis : FwWidth(jb, d) <= Width(jb) /\ BwWidth(jb, d) <= Width(jb)
  BY WidthIs
<1>5. j.bw \in Extent /\ j.fw \in Extent
  BY <1>2, WidthFacts DEF Extent
<1>6. Diagonal(jb) \in BOOLEAN
  BY DEF Diagonal
<1>7. \A d \in Axis : j.fw[d] = FwWidth(jb, d) /\ j.bw[d] = BwWidth(jb, d)
  BY <1>2
<1>8. ASSUME NEW d \in Axis, NEW fw \in BOOLEAN
      PROVE  WidthIn(j, d, fw) \in Nat /\ WidthIn(j, d, fw) <= j.width
  BY <1>2, <1>4, <1>7, WidthFacts DEF WidthIn
<1> QED BY <1>2, <1>3, <1>4, <1>5, <1>6, <1>8 DEF Vector, Extent

LEMMA JobStencil ==
  ASSUME NEW j, Known(j), NEW o \in j.stencil
  PROVE  /\ o \in Vector
         /\ \A d \in Axis : o[d] \in Int /\ -j.bw[d] <= o[d] /\ o[d] <= j.fw[d]
         /\ ~j.diagonal => \A d, e \in Axis : d # e => o[d] = 0 \/ o[e] = 0
<1>1. PICK jb \in Jobs : j = Prepared(jb)
  BY DEF Known
<1>2. /\ j.diagonal = Diagonal(jb) /\ j.stencil = jb.stencil
      /\ j.bw = [d \in Axis |-> BwWidth(jb, d)] /\ j.fw = [d \in Axis |-> FwWidth(jb, d)]
  BY <1>1 DEF Prepared
<1>3. o \in Vector
  BY JobTypes
<1>4. \A d \in Axis : o[d] \in Int /\ -j.bw[d] <= o[d] /\ o[d] <= j.fw[d]
  BY <1>2, WidthFacts
<1>5. ~j.diagonal => \A d, e \in Axis : d # e => o[d] = 0 \/ o[e] = 0
  BY <1>2 DEF Diagonal
<1> QED BY <1>3, <1>4, <1>5

LEMMA TwoSided ==
  ASSUME NEW j, Known(j), TwoWay, j.diagonal, NEW d \in Axis
  PROVE  j.fw[d] > 0 <=> j.bw[d] > 0
BY DEF Known, Prepared, TwoWay

-----------------------------------------------------------------------------
(* The parts of a dimension of extent s of n processes.                     *)

LEMMA Multiples ==
  ASSUME NEW k \in Nat, NEW q \in Nat
  PROVE  (k + 1) * q = k * q + q /\ k * q \in Nat /\ (q = 0 => k * q = 0)
  OBVIOUS

LEMMA Begins ==
  ASSUME NEW s \in Nat, NEW n \in Nat \ {0}
  PROVE  /\ PartOffset(s, n, 0) = 0 /\ PartOffset(s, n, n) = s
         /\ \A k \in 0 .. n - 1 :
              /\ PartOffset(s, n, k) \in Nat /\ PartSize(s, n, k) \in Nat
              /\ PartOffset(s, n, k + 1) = PartOffset(s, n, k) + PartSize(s, n, k)
              /\ PartSize(s, n, k) >= s \div n
              /\ PartOffset(s, n, k + 1) <= s
<1> DEFINE q == s \div n
           r == s % n
<1>1. q \in Nat /\ r \in 0 .. n - 1 /\ s = n * q + r
  BY Division
<1> HIDE DEF q, r
<1>2. \A k : PartOffset(s, n, k) = k * q + Most(k - (n - r), 0)
  BY DEF PartOffset, q, r
<1>3. \A k : PartSize(s, n, k) = q + (IF n - k <= r THEN 1 ELSE 0)
  BY DEF PartSize, q, r
<1>4. PartOffset(s, n, 0) = 0
  <2>1. 0 * q = 0
    BY <1>1
  <2> QED BY <1>1, <1>2, <2>1 DEF Most
<1>5. PartOffset(s, n, n) = s
  BY <1>1, <1>2 DEF Most
<1>6. ASSUME NEW k \in 0 .. n - 1
      PROVE  /\ PartOffset(s, n, k) \in Nat /\ PartSize(s, n, k) \in Nat
             /\ PartOffset(s, n, k + 1) = PartOffset(s, n, k) + PartSize(s, n, k)
             /\ PartSize(s, n, k) >= q
             /\ PartOffset(s, n, k + 1) <= s
  <2>1. (k + 1) * q = k * q + q /\ k * q \in Nat
    BY <1>1, Multiples
  <2>2. PartOffset(s, n, k) = k * q + Most(k - (n - r), 0)
    BY <1>2
  <2>3. PartOffset(s, n, k + 1) = k * q + q + Most(k + 1 - (n - r), 0)
    <3>1. PartOffset(s, n, k + 1) = (k + 1) * q + Most(k + 1 - (n - r), 0)
      BY DEF PartOffset, q, r
    <3> QED BY <2>1, <3>1
  <2>4. PartSize(s, n, k) = q + (IF n - k <= r THEN 1 ELSE 0)
    BY <1>3
  <2>5. PICK kq \in Nat : kq = k * q
    BY <2>1
  <2>6. kq + q <= n * q
    <3>1. PICK c \in Nat : c = n - (k + 1)
      OBVIOUS
    <3>2. n * q = (k + 1) * q + c * q
      <4>1. n = (k + 1) + c
        BY <3>1
      <4> QED BY <1>1, <3>1, <4>1
    <3>3. c * q \in Nat
      BY <1>1, <3>1
    <3> QED BY <1>1, <2>1, <2>5, <3>2, <3>3
  <2>7. PICK nq \in Nat : nq = n * q
    BY <1>1
  <2>8. PartOffset(s, n, k + 1) <= s
    BY <1>1, <2>3, <2>5, <2>6, <2>7 DEF Most
  <2> QED BY <1>1, <2>2, <2>3, <2>4, <2>5, <2>8 DEF Most
<1> QED BY <1>4, <1>5, <1>6 DEF q

\* The processes of a job.
LEMMA ProcsFacts ==
  ASSUME NEW j, Known(j), NEW p
  PROVE  p \in All(j) <=> p \in Vector /\ \A d \in Axis : 0 <= p[d] /\ p[d] < j.procs[d]
<1>1. PICK jb \in Jobs : j = Prepared(jb)
  BY DEF Known
<1>2. All(j) = Block(Origin, j.procs)
  BY <1>1 DEF All, Prepared, Procs
<1>3. j.procs \in Vector /\ Origin \in Vector /\ \A d \in Axis : Origin[d] = 0
  BY JobTypes, Vectors DEF Vector
<1> QED BY <1>2, <1>3, BlockIs

\* Their parts.
LEMMA PartFacts ==
  ASSUME NEW j, Known(j), WidthsFit, NEW p \in All(j)
  PROVE  /\ j.offset[p] \in Extent /\ j.extent[p] \in Extent
         /\ \A d \in Axis :
              /\ j.offset[p][d] \in Nat /\ j.extent[p][d] \in Nat
              /\ p[d] \in 0 .. j.procs[d] - 1
              /\ j.offset[p][d] = PartOffset(j.size[d], j.procs[d], p[d])
              /\ j.offset[p][d] + j.extent[p][d] = PartOffset(j.size[d], j.procs[d], p[d] + 1)
              /\ j.offset[p][d] + j.extent[p][d] <= j.size[d]
              /\ \A fw \in BOOLEAN : WidthIn(j, d, fw) <= j.extent[p][d]
              /\ \A q \in All(j) : p[d] = q[d] =>
                   j.offset[p][d] = j.offset[q][d] /\ j.extent[p][d] = j.extent[q][d]
<1>1. PICK jb \in Jobs : j = Prepared(jb)
  BY DEF Known
<1>2. /\ j.procs = jb.procs /\ j.size = jb.size /\ All(j) = Procs(jb)
      /\ j.bw = [d \in Axis |-> BwWidth(jb, d)] /\ j.fw = [d \in Axis |-> FwWidth(jb, d)]
      /\ j.offset = [q \in Procs(jb) |-> [d \in Axis |-> PartOffset(jb.size[d], jb.procs[d], q[d])]]
      /\ j.extent = [q \in Procs(jb) |-> [d \in Axis |-> PartSize(jb.size[d], jb.procs[d], q[d])]]
  BY <1>1 DEF Prepared, All
<1>3. j.procs \in [Axis -> Nat \ {0}] /\ j.size \in Extent
  BY JobTypes
<1>4. ASSUME NEW d \in Axis
      PROVE  /\ j.offset[p][d] \in Nat /\ j.extent[p][d] \in Nat
             /\ p[d] \in 0 .. j.procs[d] - 1
             /\ j.offset[p][d] = PartOffset(j.size[d], j.procs[d], p[d])
             /\ j.offset[p][d] + j.extent[p][d] = PartOffset(j.size[d], j.procs[d], p[d] + 1)
             /\ j.offset[p][d] + j.extent[p][d] <= j.size[d]
             /\ j.extent[p][d] >= j.size[d] \div j.procs[d]
  <2>1. PICK n \in Nat \ {0} : n = j.procs[d]
    BY <1>3
  <2>2. PICK s \in Nat : s = j.size[d]
    BY <1>3 DEF Extent
  <2>3. p[d] \in 0 .. n - 1
    BY <1>3, <2>1, ProcsFacts DEF Vector
  <2>4. PICK k \in 0 .. n - 1 : k = p[d]
    BY <2>3
  <2>5. /\ PartOffset(s, n, k) \in Nat /\ PartSize(s, n, k) \in Nat
        /\ PartOffset(s, n, k + 1) = PartOffset(s, n, k) + PartSize(s, n, k)
        /\ PartSize(s, n, k) >= s \div n
        /\ PartOffset(s, n, k + 1) <= s
    BY Begins
  <2>6. j.offset[p][d] = PartOffset(s, n, k) /\ j.extent[p][d] = PartSize(s, n, k)
    BY <1>2, <2>1, <2>2, <2>4
  <2> QED BY <2>1, <2>2, <2>3, <2>4, <2>5, <2>6
<1>5. j.offset[p] \in Extent /\ j.extent[p] \in Extent
  <2>1. /\ j.offset[p] = [d \in Axis |-> PartOffset(jb.size[d], jb.procs[d], p[d])]
        /\ j.extent[p] = [d \in Axis |-> PartSize(jb.size[d], jb.procs[d], p[d])]
    BY <1>2
  <2>2. \A d \in Axis : /\ PartOffset(jb.size[d], jb.procs[d], p[d]) \in Nat
                        /\ PartSize(jb.size[d], jb.procs[d], p[d]) \in Nat
    BY <1>4, <2>1
  <2> QED BY <2>1, <2>2 DEF Extent
<1>6. ASSUME NEW d \in Axis, NEW fw \in BOOLEAN PROVE WidthIn(j, d, fw) <= j.extent[p][d]
  <2>1. Most(j.bw[d], j.fw[d]) <= j.size[d] \div j.procs[d]
    BY <1>2 DEF WidthsFit
  <2>2. PICK z \in Nat : z = j.size[d] \div j.procs[d]
    BY <1>3, Division DEF Extent
  <2>3. j.bw[d] \in Nat /\ j.fw[d] \in Nat /\ j.extent[p][d] \in Nat /\ j.extent[p][d] >= z
    BY <1>4, <2>2, JobTypes DEF Extent
  <2> QED BY <2>1, <2>2, <2>3 DEF WidthIn, Most
<1>7. ASSUME NEW d \in Axis, NEW q \in All(j), p[d] = q[d]
      PROVE  j.offset[p][d] = j.offset[q][d] /\ j.extent[p][d] = j.extent[q][d]
  BY <1>2, <1>7
<1> QED BY <1>4, <1>5, <1>6, <1>7

-----------------------------------------------------------------------------
(* The neighbours.                                                          *)

LEMMA NextIndex ==
  ASSUME NEW n \in Nat \ {0}, NEW k \in 0 .. n - 1
  PROVE  (k + 1) % n = IF k = n - 1 THEN 0 ELSE k + 1
<1>1. CASE k = n - 1
  <2>1. n % n = 0
    OBVIOUS
  <2>2. k + 1 = n
    BY <1>1
  <2> QED BY <1>1, <2>1, <2>2
<1>2. CASE k # n - 1
  <2>1. k + 1 \in 0 .. n - 1
    BY <1>2
  <2>2. \A i \in 0 .. n - 1 : i % n = i
    OBVIOUS
  <2> QED BY <1>2, <2>1, <2>2
<1> QED BY <1>1, <1>2

LEMMA PrevIndex ==
  ASSUME NEW n \in Nat \ {0}, NEW k \in 0 .. n - 1
  PROVE  (k + n - 1) % n = IF k = 0 THEN n - 1 ELSE k - 1
<1>1. CASE k = 0
  <2>1. \A i \in 0 .. n - 1 : i % n = i
    OBVIOUS
  <2>2. k + n - 1 = n - 1 /\ n - 1 \in 0 .. n - 1
    BY <1>1
  <2> QED BY <1>1, <2>1, <2>2
<1>2. CASE k # 0
  <2>1. PICK i \in Int, a \in 0 .. n - 1 : i = k + n - 1 /\ a = k - 1
    BY <1>2
  <2>2. i = n * 1 + a
    BY <2>1
  <2>3. i % n = a
    BY <2>2, Divided
  <2> QED BY <1>2, <2>1, <2>3
<1> QED BY <1>1, <1>2

\* The peers of a process differ from it in one index, and are inverse.
LEMMA PeerFacts ==
  ASSUME NEW j, Known(j), NEW p \in All(j), NEW d \in Axis
  PROVE  /\ Next_(j, p, d) \in All(j) /\ Prev_(j, p, d) \in All(j)
         /\ Next_(j, p, d)[d] = IF p[d] = j.procs[d] - 1 THEN 0 ELSE p[d] + 1
         /\ Prev_(j, p, d)[d] = IF p[d] = 0 THEN j.procs[d] - 1 ELSE p[d] - 1
         /\ \A e \in Axis \ {d} : Next_(j, p, d)[e] = p[e] /\ Prev_(j, p, d)[e] = p[e]
         /\ Prev_(j, Next_(j, p, d), d) = p /\ Next_(j, Prev_(j, p, d), d) = p
<1>1. /\ j.procs \in [Axis -> Nat \ {0}]
      /\ \A q : q \in All(j) <=> q \in Vector /\ \A e \in Axis : 0 <= q[e] /\ q[e] < j.procs[e]
  BY JobTypes, ProcsFacts
<1>0. \A q \in All(j) : q \in [Axis -> Int]
  BY <1>1 DEF Vector
<1>2. ASSUME NEW q \in All(j)
      PROVE  /\ Next_(j, q, d) = [q EXCEPT ![d] = IF q[d] = j.procs[d] - 1 THEN 0 ELSE q[d] + 1]
             /\ Next_(j, q, d) \in All(j)
  <2>1. q[d] \in 0 .. j.procs[d] - 1 /\ j.procs[d] \in Nat \ {0}
    BY <1>0, <1>1
  <2>2. (q[d] + 1) % j.procs[d] = IF q[d] = j.procs[d] - 1 THEN 0 ELSE q[d] + 1
    BY <2>1, NextIndex
  <2>3. Next_(j, q, d) = [q EXCEPT ![d] = IF q[d] = j.procs[d] - 1 THEN 0 ELSE q[d] + 1]
    BY <2>2 DEF Next_
  <2>4. PICK x \in Int : x = IF q[d] = j.procs[d] - 1 THEN 0 ELSE q[d] + 1
    BY <2>1
  <2>5. 0 <= x /\ x < j.procs[d]
    BY <2>1, <2>4
  <2>6. [q EXCEPT ![d] = x] \in All(j)
    BY <1>0, <1>1, <2>5 DEF Vector
  <2> QED BY <2>3, <2>4, <2>6
<1>3. ASSUME NEW q \in All(j)
      PROVE  /\ Prev_(j, q, d) = [q EXCEPT ![d] = IF q[d] = 0 THEN j.procs[d] - 1 ELSE q[d] - 1]
             /\ Prev_(j, q, d) \in All(j)
  <2>1. q[d] \in 0 .. j.procs[d] - 1 /\ j.procs[d] \in Nat \ {0}
    BY <1>0, <1>1
  <2>r. (q[d] + j.procs[d] - 1) % j.procs[d] = IF q[d] = 0 THEN j.procs[d] - 1 ELSE q[d] - 1
    BY <2>1, PrevIndex
  <2>2. Prev_(j, q, d) = [q EXCEPT ![d] = IF q[d] = 0 THEN j.procs[d] - 1 ELSE q[d] - 1]
    BY <2>r DEF Prev_
  <2>3. PICK x \in Int : x = IF q[d] = 0 THEN j.procs[d] - 1 ELSE q[d] - 1
    BY <2>1
  <2>4. 0 <= x /\ x < j.procs[d]
    BY <2>1, <2>3
  <2>5. [q EXCEPT ![d] = x] \in All(j)
    BY <1>0, <1>1, <2>4 DEF Vector
  <2> QED BY <2>2, <2>3, <2>5
<1>4. p \in [Axis -> Int] /\ p[d] \in 0 .. j.procs[d] - 1 /\ j.procs[d] \in Nat \ {0}
  BY <1>0, <1>1
<1>5. PICK f \in All(j) : f = Next_(j, p, d)
  BY <1>2
<1>6. PICK b \in All(j) : b = Prev_(j, p, d)
  BY <1>3
<1>7. /\ f[d] = IF p[d] = j.procs[d] - 1 THEN 0 ELSE p[d] + 1
      /\ \A e \in Axis \ {d} : f[e] = p[e]
  BY <1>2, <1>4, <1>5
<1>8. /\ b[d] = IF p[d] = 0 THEN j.procs[d] - 1 ELSE p[d] - 1
      /\ \A e \in Axis \ {d} : b[e] = p[e]
  BY <1>3, <1>4, <1>6
<1>9. Prev_(j, f, d) = p
  <2>1. PICK q \in All(j) : q = Prev_(j, f, d)
    BY <1>3
  <2>2. /\ q[d] = IF f[d] = 0 THEN j.procs[d] - 1 ELSE f[d] - 1
        /\ \A e \in Axis \ {d} : q[e] = f[e]
    BY <1>0, <1>3, <2>1
  <2>3. \A e \in Axis : q[e] = p[e]
    BY <1>4, <1>7, <2>2
  <2>4. q \in [Axis -> Int]
    BY <1>0
  <2> QED BY <1>4, <2>1, <2>3, <2>4
<1>10. Next_(j, b, d) = p
  <2>1. PICK q \in All(j) : q = Next_(j, b, d)
    BY <1>2
  <2>2. /\ q[d] = IF b[d] = j.procs[d] - 1 THEN 0 ELSE b[d] + 1
        /\ \A e \in Axis \ {d} : q[e] = b[e]
    BY <1>0, <1>2, <2>1
  <2>3. \A e \in Axis : q[e] = p[e]
    BY <1>4, <1>8, <2>2
  <2>4. q \in [Axis -> Int]
    BY <1>0
  <2> QED BY <1>4, <2>1, <2>3, <2>4
<1> QED BY <1>5, <1>6, <1>7, <1>8, <1>9, <1>10

\* q begins where p ends, around the end of a periodic grid too.
Follows(j, p, q, d) ==
  \/ j.offset[q][d] = j.offset[p][d] + j.extent[p][d]
  \/ /\ j.periodic /\ j.offset[q][d] = 0
     /\ j.offset[p][d] + j.extent[p][d] = j.size[d]

\* Neighbours with points see each other.
LEMMA Neighbours ==
  ASSUME NEW j, Known(j), WidthsFit, NEW p \in All(j), NEW d \in Axis,
         NEW fw \in BOOLEAN, WidthIn(j, d, fw) > 0
  PROVE  /\ HasFw(j, p, d) => HasBw(j, Next_(j, p, d), d) /\ Follows(j, p, Next_(j, p, d), d)
         /\ HasBw(j, p, d) => HasFw(j, Prev_(j, p, d), d) /\ Follows(j, Prev_(j, p, d), p, d)
<1>1. PICK n \in Nat \ {0} : n = j.procs[d]
  BY JobTypes
<1>2. PICK s \in Nat : s = j.size[d]
  BY JobTypes DEF Extent
<1>3. PICK off : off = [k \in 0 .. n |-> PartOffset(s, n, k)]
  OBVIOUS
<1>4. off[0] = 0 /\ off[n] = s
  BY <1>3, Begins
<1>5. \A q \in All(j) :
        /\ j.offset[q][d] \in Nat /\ j.extent[q][d] \in Nat /\ j.extent[q][d] > 0
        /\ q[d] \in 0 .. n - 1 /\ j.offset[q][d] = off[q[d]]
        /\ j.offset[q][d] + j.extent[q][d] = off[q[d] + 1]
        /\ j.offset[q][d] + j.extent[q][d] <= s
  <2>1. SUFFICES ASSUME NEW q \in All(j)
                 PROVE /\ j.offset[q][d] \in Nat /\ j.extent[q][d] \in Nat /\ j.extent[q][d] > 0
                       /\ q[d] \in 0 .. n - 1 /\ j.offset[q][d] = off[q[d]]
                       /\ j.offset[q][d] + j.extent[q][d] = off[q[d] + 1]
                       /\ j.offset[q][d] + j.extent[q][d] <= s
    OBVIOUS
  <2>2. /\ j.offset[q][d] \in Nat /\ j.extent[q][d] \in Nat
        /\ q[d] \in 0 .. n - 1
        /\ j.offset[q][d] = PartOffset(s, n, q[d])
        /\ j.offset[q][d] + j.extent[q][d] = PartOffset(s, n, q[d] + 1)
        /\ j.offset[q][d] + j.extent[q][d] <= s
        /\ WidthIn(j, d, fw) <= j.extent[q][d]
    BY <1>1, <1>2, PartFacts
  <2>3. WidthIn(j, d, fw) \in Nat
    BY JobTypes
  <2>4. q[d] \in 0 .. n /\ q[d] + 1 \in 0 .. n
    BY <2>2
  <2> QED BY <1>3, <2>2, <2>3, <2>4
<1>6. ASSUME HasFw(j, p, d) PROVE HasBw(j, Next_(j, p, d), d) /\ Follows(j, p, Next_(j, p, d), d)
  <2>1. PICK q \in All(j) : q = Next_(j, p, d)
    BY PeerFacts
  <2>2. q[d] = IF p[d] = n - 1 THEN 0 ELSE p[d] + 1
    BY <1>1, <2>1, PeerFacts
  <2>3. j.periodic \/ off[p[d] + 1] # s
    BY <1>2, <1>5, <1>6 DEF HasFw
  <2>4. CASE p[d] = n - 1
    <3>1. p[d] + 1 = n /\ q[d] = 0 /\ j.periodic
      BY <1>1, <1>4, <2>2, <2>3, <2>4
    <3>2. j.offset[q][d] = 0 /\ j.offset[p][d] + j.extent[p][d] = j.size[d]
      BY <1>2, <1>4, <1>5, <3>1
    <3> QED BY <2>1, <3>1, <3>2 DEF HasBw, Follows
  <2>5. CASE p[d] # n - 1
    <3>1. q[d] = p[d] + 1
      BY <2>2, <2>5
    <3>2. j.offset[q][d] = j.offset[p][d] + j.extent[p][d]
      BY <1>5, <3>1
    <3>3. j.offset[q][d] # 0
      BY <1>5, <3>2
    <3> QED BY <2>1, <3>2, <3>3 DEF HasBw, Follows
  <2> QED BY <2>4, <2>5
<1>7. ASSUME HasBw(j, p, d) PROVE HasFw(j, Prev_(j, p, d), d) /\ Follows(j, Prev_(j, p, d), p, d)
  <2>1. PICK q \in All(j) : q = Prev_(j, p, d)
    BY PeerFacts
  <2>2. q[d] = IF p[d] = 0 THEN n - 1 ELSE p[d] - 1
    BY <1>1, <2>1, PeerFacts
  <2>3. j.periodic \/ off[p[d]] # 0
    BY <1>5, <1>7 DEF HasBw
  <2>4. CASE p[d] = 0
    <3>1. q[d] + 1 = n /\ j.periodic
      BY <1>1, <1>4, <2>2, <2>3, <2>4
    <3>2. j.offset[p][d] = 0 /\ j.offset[q][d] + j.extent[q][d] = j.size[d]
      <4>1. j.offset[p][d] = off[p[d]] /\ j.offset[q][d] + j.extent[q][d] = off[q[d] + 1]
        BY <1>5
      <4> QED BY <1>2, <1>4, <2>4, <3>1, <4>1
    <3> QED BY <2>1, <3>1, <3>2 DEF HasFw, Follows
  <2>5. CASE p[d] # 0
    <3>1. q[d] + 1 = p[d]
      BY <1>5, <2>2, <2>5
    <3>2. j.offset[p][d] = j.offset[q][d] + j.extent[q][d]
      BY <1>5, <3>1
    <3>3. j.offset[q][d] + j.extent[q][d] # j.size[d]
      <4>1. /\ j.offset[p][d] + j.extent[p][d] <= s /\ j.extent[p][d] > 0
            /\ j.offset[p][d] \in Nat /\ j.extent[p][d] \in Nat
        BY <1>5
      <4> QED BY <1>2, <3>2, <4>1
    <3> QED BY <2>1, <3>2, <3>3 DEF HasFw, Follows
  <2> QED BY <2>4, <2>5
<1> QED BY <1>6, <1>7

\* The slab that p gets from q for its halo.
Slot(j, q, p, d, fw) == Receives(j, p, d, fw) /\ q = From(j, p, d, fw)

\* What a process receives is what its peer sends.
LEMMA Slots ==
  ASSUME NEW j, Known(j), WidthsFit, NEW p \in All(j), NEW q \in All(j), NEW d \in Axis,
         NEW fw \in BOOLEAN
  PROVE  Slot(j, q, p, d, fw) <=> Sends(j, q, d, fw) /\ p = To(j, q, d, fw)
<1>1. CASE WidthIn(j, d, fw) > 0
  <2>1. /\ HasFw(j, p, d) => HasBw(j, Next_(j, p, d), d)
        /\ HasBw(j, p, d) => HasFw(j, Prev_(j, p, d), d)
        /\ HasFw(j, q, d) => HasBw(j, Next_(j, q, d), d)
        /\ HasBw(j, q, d) => HasFw(j, Prev_(j, q, d), d)
    BY <1>1, Neighbours
  <2>2. /\ Prev_(j, Next_(j, p, d), d) = p /\ Next_(j, Prev_(j, p, d), d) = p
        /\ Prev_(j, Next_(j, q, d), d) = q /\ Next_(j, Prev_(j, q, d), d) = q
    BY PeerFacts
  <2> QED BY <2>1, <2>2 DEF Slot, Receives, Sends, From, To
<1>2. CASE ~(WidthIn(j, d, fw) > 0)
  BY <1>2 DEF Slot, Receives, Sends, WidthIn
<1> QED BY <1>1, <1>2

-----------------------------------------------------------------------------
(* What the halos hold after r maps.                                        *)

\* The widths of the halos of p when they are there.
Held(j, p, d, fw) == IF Receives(j, p, d, fw) THEN WidthIn(j, d, fw) ELSE 0
Bw(j, p) == [d \in Axis |-> Held(j, p, d, FALSE)]
Fw(j, p) == [d \in Axis |-> Held(j, p, d, TRUE)]

PointOf(j, p, l) == Plus(l, j.offset[p])
WrapIn(j, x)     == [d \in Axis |-> IF j.periodic THEN x[d] % j.size[d] ELSE x[d]]
InDom(j, x)      == \A d \in Axis : j.lo[d] <= x[d] /\ x[d] < j.hi[d]
After(j, x, r)   == <<x, IF InDom(j, x) THEN r ELSE 0>>

\* What there is, after r maps, at a place given by local indices of p.
View(j, p, r) == [l \in Vector |-> After(j, WrapIn(j, PointOf(j, p, l)), r)]

HaloFrom(j, p, d, fw) ==
  HaloStart(j.extent[p], Bw(j, p), d, WidthIn(j, d, fw), fw, j.diagonal)
HaloSize(j, p, d, fw) ==
  HaloExtent(j.extent[p], Bw(j, p), Fw(j, p), d, WidthIn(j, d, fw), j.diagonal)

HaloSeq(j, p, r, d, fw) == Fill(View(j, p, r), HaloFrom(j, p, d, fw), HaloSize(j, p, d, fw))

LEMMA HeldFacts ==
  ASSUME NEW j, Known(j), WidthsFit, NEW p \in All(j)
  PROVE  /\ Bw(j, p) \in Extent /\ Fw(j, p) \in Extent
         /\ Shape(j.extent[p], Bw(j, p), Fw(j, p))
         /\ \A d \in Axis : /\ Bw(j, p)[d] = Held(j, p, d, FALSE)
                            /\ Fw(j, p)[d] = Held(j, p, d, TRUE)
                            /\ \A fw \in BOOLEAN :
                                 /\ Held(j, p, d, fw) \in Nat
                                 /\ Receives(j, p, d, fw) => WidthIn(j, d, fw) > 0
                                 /\ Held(j, p, d, fw) <= WidthIn(j, d, fw)
                                 /\ Held(j, p, d, fw) > 0 <=> Receives(j, p, d, fw)
                                 /\ \A q \in All(j) : p[d] = q[d] =>
                                      Held(j, p, d, fw) = Held(j, q, d, fw)
<1>1. \A d \in Axis, fw \in BOOLEAN :
        /\ Held(j, p, d, fw) \in Nat
        /\ Receives(j, p, d, fw) => WidthIn(j, d, fw) > 0
        /\ Held(j, p, d, fw) <= WidthIn(j, d, fw)
        /\ Held(j, p, d, fw) > 0 <=> Receives(j, p, d, fw)
  <2>1. SUFFICES ASSUME NEW d \in Axis, NEW fw \in BOOLEAN
                 PROVE  /\ Held(j, p, d, fw) \in Nat
                        /\ Receives(j, p, d, fw) => WidthIn(j, d, fw) > 0
                        /\ Held(j, p, d, fw) <= WidthIn(j, d, fw)
                        /\ Held(j, p, d, fw) > 0 <=> Receives(j, p, d, fw)
    OBVIOUS
  <2>2. WidthIn(j, d, fw) \in Nat
    BY JobTypes
  <2>3. Receives(j, p, d, fw) => WidthIn(j, d, fw) > 0
    BY DEF Receives, WidthIn
  <2> QED BY <2>2, <2>3 DEF Held
<1>2. ASSUME NEW d \in Axis, NEW fw \in BOOLEAN, NEW q \in All(j), p[d] = q[d]
      PROVE  Held(j, p, d, fw) = Held(j, q, d, fw)
  <2>1. j.offset[p][d] = j.offset[q][d] /\ j.extent[p][d] = j.extent[q][d]
    BY <1>2, PartFacts
  <2> QED BY <2>1 DEF Held, Receives, HasFw, HasBw
<1>3. Bw(j, p) \in Extent /\ Fw(j, p) \in Extent
  BY <1>1 DEF Bw, Fw, Extent
<1>4. \A d \in Axis : Bw(j, p)[d] = Held(j, p, d, FALSE) /\ Fw(j, p)[d] = Held(j, p, d, TRUE)
  BY DEF Bw, Fw
<1>5. Shape(j.extent[p], Bw(j, p), Fw(j, p))
  BY <1>3, PartFacts DEF Shape
<1> QED BY <1>1, <1>2, <1>3, <1>4, <1>5

LEMMA HaloPlaces ==
  ASSUME NEW j, Known(j), WidthsFit, NEW p \in All(j), NEW d \in Axis, NEW fw \in BOOLEAN
  PROVE  HaloFrom(j, p, d, fw) \in Vector /\ HaloSize(j, p, d, fw) \in Extent
<1>1. Shape(j.extent[p], Bw(j, p), Fw(j, p))
  BY HeldFacts
<1>2. WidthIn(j, d, fw) \in Nat /\ j.diagonal \in BOOLEAN
  BY JobTypes
<1> QED BY <1>1, <1>2, HaloTypes DEF HaloFrom, HaloSize

LEMMA Remainder ==
  ASSUME NEW z \in Nat \ {0}, NEW a \in Int
  PROVE  (a + z) % z = a % z /\ (0 <= a /\ a < z => a % z = a)
<1>1. /\ a % z \in 0 .. z - 1 /\ a \div z \in Int /\ a = z * (a \div z) + (a % z)
  OBVIOUS
<1>2. PICK q \in Int, b \in 0 .. z - 1 : q = a \div z /\ b = a % z
  BY <1>1
<1>3. PICK i \in Int : i = a + z
  OBVIOUS
<1>4. PICK t \in Int : t = q + 1
  OBVIOUS
<1>5. i = z * t + b
  <2>1. z * (q + 1) = z * q + z
    OBVIOUS
  <2> QED BY <1>1, <1>2, <1>3, <1>4, <2>1
<1>6. i % z = b
  BY <1>5, Divided
<1>7. ASSUME 0 <= a, a < z PROVE a % z = a
  <2>1. PICK c \in 0 .. z - 1 : c = a
    BY <1>7
  <2>2. a = z * 0 + c
    BY <2>1
  <2> QED BY <2>1, <2>2, Divided
<1> QED BY <1>2, <1>3, <1>6, <1>7

\* The place that is a for q is b for p.
LEMMA SamePlace ==
  ASSUME NEW j, Known(j), WidthsFit, NEW p \in All(j), NEW q \in All(j), NEW d \in Axis,
         Follows(j, p, q, d), j.extent[p][d] > 0, \A e \in Axis \ {d} : p[e] = q[e],
         NEW a \in Vector, NEW b \in Vector, b[d] = j.extent[p][d] + a[d],
         \A e \in Axis \ {d} : a[e] = b[e]
  PROVE  WrapIn(j, PointOf(j, q, a)) = WrapIn(j, PointOf(j, p, b))
<1> DEFINE x == PointOf(j, q, a)
           y == PointOf(j, p, b)
<1>1. \A e \in Axis : /\ a[e] \in Int /\ b[e] \in Int
                      /\ j.offset[p][e] \in Nat /\ j.offset[q][e] \in Nat
                      /\ j.extent[p][e] \in Nat /\ j.size[e] \in Nat
                      /\ j.offset[p][e] + j.extent[p][e] <= j.size[e]
  BY PartFacts, JobTypes DEF Vector, Extent
<1>2. \A e \in Axis : x[e] = a[e] + j.offset[q][e] /\ y[e] = b[e] + j.offset[p][e]
  BY DEF PointOf, Plus
<1>3. \A e \in Axis \ {d} : x[e] = y[e]
  <2>1. \A e \in Axis \ {d} : j.offset[p][e] = j.offset[q][e]
    BY PartFacts
  <2> QED BY <1>2, <2>1
<1>4. PICK z \in Nat \ {0} : z = j.size[d]
  BY <1>1
<1>5. PICK u \in Int : u = x[d]
  BY <1>1, <1>2
<1>6. y[d] = u \/ (j.periodic /\ y[d] = u + z)
  BY <1>1, <1>2, <1>4, <1>5 DEF Follows
<1>7. (u + z) % z = u % z
  BY Remainder
<1> HIDE DEF x, y
<1>8. \A e \in Axis : (IF j.periodic THEN x[e] % j.size[e] ELSE x[e])
                        = (IF j.periodic THEN y[e] % j.size[e] ELSE y[e])
  <2>1. SUFFICES ASSUME NEW e \in Axis
                 PROVE  (IF j.periodic THEN x[e] % j.size[e] ELSE x[e])
                        = (IF j.periodic THEN y[e] % j.size[e] ELSE y[e])
    OBVIOUS
  <2>2. CASE e = d
    BY <1>4, <1>5, <1>6, <1>7, <2>2
  <2>3. CASE e # d
    BY <1>3, <2>3
  <2> QED BY <2>2, <2>3
<1>9. WrapIn(j, x) = WrapIn(j, y)
  BY <1>8 DEF WrapIn
<1> QED BY <1>9 DEF x, y

\* The slab that q copies out is the halo of p.
LEMMA SlabIsHalo ==
  ASSUME NEW j, Known(j), WidthsFit, NEW p \in All(j), NEW q \in All(j), NEW d \in Axis,
         NEW fw \in BOOLEAN, Slot(j, q, p, d, fw), NEW r,
         NEW slab, IsFill(slab, View(j, q, r),
                          SlabStart(j.extent[q], Bw(j, q), d, WidthIn(j, d, fw), fw, j.diagonal),
                          HaloSize(j, q, d, fw))
  PROVE  slab = HaloSeq(j, p, r, d, fw)
<1> DEFINE w == WidthIn(j, d, fw)
           ss == SlabStart(j.extent[q], Bw(j, q), d, w, fw, j.diagonal)
           hs == HaloFrom(j, p, d, fw)
<1>1. w \in Nat /\ w > 0 /\ j.diagonal \in BOOLEAN
  BY HeldFacts, JobTypes DEF Slot
<1>2. \A e \in Axis \ {d} : p[e] = q[e]
  BY PeerFacts DEF Slot, From
<1>3. \A e \in Axis : /\ j.extent[p][e] \in Nat /\ j.extent[q][e] \in Nat
                      /\ Bw(j, p)[e] \in Nat /\ Bw(j, q)[e] \in Nat
                      /\ Fw(j, p)[e] \in Nat /\ Fw(j, q)[e] \in Nat
  <2>1. j.extent[p] \in Extent /\ j.extent[q] \in Extent
    BY PartFacts
  <2>2. Bw(j, p) \in Extent /\ Fw(j, p) \in Extent
    BY HeldFacts
  <2>3. Bw(j, q) \in Extent /\ Fw(j, q) \in Extent
    BY HeldFacts
  <2> QED BY ONLY <2>1, <2>2, <2>3 DEF Extent
<1>4. \A e \in Axis \ {d} : /\ j.extent[p][e] = j.extent[q][e]
                            /\ Bw(j, p)[e] = Bw(j, q)[e] /\ Fw(j, p)[e] = Fw(j, q)[e]
  <2>1. SUFFICES ASSUME NEW e \in Axis, e # d
                 PROVE  /\ j.extent[p][e] = j.extent[q][e]
                        /\ Bw(j, p)[e] = Bw(j, q)[e] /\ Fw(j, p)[e] = Fw(j, q)[e]
    OBVIOUS
  <2>2. p[e] = q[e]
    BY <1>2, <2>1
  <2>3. j.extent[p][e] = j.extent[q][e]
    BY <2>2, PartFacts
  <2>4. Bw(j, p)[e] = Held(j, p, e, FALSE) /\ Fw(j, p)[e] = Held(j, p, e, TRUE)
    BY HeldFacts
  <2>5. Bw(j, q)[e] = Held(j, q, e, FALSE) /\ Fw(j, q)[e] = Held(j, q, e, TRUE)
    BY HeldFacts
  <2>6. \A g \in BOOLEAN : Held(j, p, e, g) = Held(j, q, e, g)
    BY <2>2, HeldFacts
  <2> QED BY <2>3, <2>4, <2>5, <2>6
<1>5. PICK s : s = HaloSize(j, p, d, fw)
  OBVIOUS
<1>6. s \in Extent
  BY <1>5, HaloPlaces
<1>7. HaloSize(j, q, d, fw) = s
  BY <1>4, <1>5 DEF HaloSize, HaloExtent
<1>8. ss \in Vector /\ hs \in Vector
  <2>1. Shape(j.extent[q], Bw(j, q), Fw(j, q))
    BY HeldFacts
  <2>2. ss \in Vector
    BY <1>1, <2>1, HaloTypes
  <2> QED BY <2>2, HaloPlaces
<1>9. /\ \A e \in Axis \ {d} : ss[e] = hs[e]
      /\ ss[d] = IF fw THEN 0 ELSE j.extent[q][d] - w
      /\ hs[d] = IF fw THEN j.extent[p][d] ELSE -w
  BY <1>4 DEF SlabStart, HaloFrom, HaloStart
<1>10. IF fw THEN Follows(j, p, q, d) ELSE Follows(j, q, p, d)
  <2>1. WidthIn(j, d, fw) > 0
    BY <1>1
  <2>2. /\ HasFw(j, p, d) => Follows(j, p, Next_(j, p, d), d)
        /\ HasBw(j, p, d) => Follows(j, Prev_(j, p, d), p, d)
    BY <2>1, Neighbours
  <2> QED BY <2>2 DEF Slot, From, Receives
<1>11. j.extent[p][d] > 0 /\ j.extent[q][d] > 0
  <2>1. /\ WidthIn(j, d, fw) <= j.extent[p][d] /\ j.extent[p][d] \in Nat
        /\ WidthIn(j, d, fw) <= j.extent[q][d] /\ j.extent[q][d] \in Nat
    BY PartFacts
  <2>2. WidthIn(j, d, fw) > 0 /\ WidthIn(j, d, fw) \in Nat
    BY <1>1
  <2> QED BY <2>1, <2>2
<1> HIDE DEF ss, hs, w
<1>12. ASSUME NEW u \in Vector PROVE View(j, q, r)[Plus(ss, u)] = View(j, p, r)[Plus(hs, u)]
  <2>1. PICK a \in Vector, b \in Vector : a = Plus(ss, u) /\ b = Plus(hs, u)
    BY <1>8, Vectors
  <2>2. \A e \in Axis : a[e] = ss[e] + u[e] /\ b[e] = hs[e] + u[e]
    BY <2>1 DEF Plus
  <2>3. \A e \in Axis \ {d} : a[e] = b[e]
    BY <1>9, <2>2
  <2>4. u[d] \in Int
    BY DEF Vector
  <2>5. WrapIn(j, PointOf(j, q, a)) = WrapIn(j, PointOf(j, p, b))
    <3>1. CASE fw
      <4>1. b[d] = j.extent[p][d] + a[d]
        BY <1>3, <1>9, <2>2, <2>4, <3>1
      <4>2. Follows(j, p, q, d)
        BY <1>10, <3>1
      <4> QED BY ONLY <1>2, <1>11, <2>3, <4>1, <4>2, SamePlace, Known(j), WidthsFit, p \in All(j), q \in All(j)
    <3>2. CASE ~fw
      <4>1. a[d] = j.extent[q][d] + b[d]
        BY <1>1, <1>3, <1>9, <2>2, <2>4, <3>2
      <4>2. Follows(j, q, p, d)
        BY <1>10, <3>2
      <4>3. \A e \in Axis \ {d} : q[e] = p[e] /\ b[e] = a[e]
        BY <1>2, <2>3
      <4> QED BY ONLY <1>11, <4>1, <4>2, <4>3, SamePlace, Known(j), WidthsFit, p \in All(j), q \in All(j)
    <3> QED BY <3>1, <3>2
  <2>6. /\ View(j, q, r)[a] = After(j, WrapIn(j, PointOf(j, q, a)), r)
        /\ View(j, p, r)[b] = After(j, WrapIn(j, PointOf(j, p, b)), r)
    BY DEF View
  <2> QED BY <2>1, <2>5, <2>6
<1>13. Fill(View(j, q, r), ss, s) = Fill(View(j, p, r), hs, s)
  <2>1. \A i \in 1 .. Elements(s) : Unrank(i - 1, s) \in Vector
    BY <1>6, <1>8, FillIs
  <2>2. \A i \in 1 .. Elements(s) : View(j, q, r)[Plus(ss, Unrank(i - 1, s))]
                                      = View(j, p, r)[Plus(hs, Unrank(i - 1, s))]
    BY <1>12, <2>1
  <2> QED BY <2>2 DEF Fill
<1> QED BY <1>5, <1>7, <1>13 DEF IsFill, HaloSeq, ss, hs, w

\* The points of p itself are not wrapped.
LEMMA OwnPoint ==
  ASSUME NEW j, Known(j), WidthsFit, NEW p \in All(j), NEW l \in Vector,
         \A e \in Axis : 0 <= l[e] /\ l[e] < j.extent[p][e], NEW r
  PROVE  /\ PointOf(j, p, l) \in Vector /\ WrapIn(j, PointOf(j, p, l)) = PointOf(j, p, l)
         /\ \A e \in Axis : /\ j.offset[p][e] <= PointOf(j, p, l)[e]
                            /\ PointOf(j, p, l)[e] < j.offset[p][e] + j.extent[p][e]
                            /\ PointOf(j, p, l)[e] = l[e] + j.offset[p][e]
         /\ View(j, p, r)[l] = After(j, PointOf(j, p, l), r)
<1>1. \A e \in Axis : /\ l[e] \in Int /\ j.offset[p][e] \in Nat /\ j.extent[p][e] \in Nat
                      /\ j.size[e] \in Nat /\ j.offset[p][e] + j.extent[p][e] <= j.size[e]
  BY PartFacts, JobTypes DEF Vector, Extent
<1>2. PICK x \in Vector : x = PointOf(j, p, l)
  <2>1. j.offset[p] \in Vector
    BY PartFacts DEF Vector, Extent
  <2> QED BY <2>1, Vectors DEF PointOf
<1>3. \A e \in Axis : /\ x[e] = l[e] + j.offset[p][e] /\ 0 <= x[e] /\ x[e] < j.size[e]
                      /\ j.offset[p][e] <= x[e] /\ x[e] < j.offset[p][e] + j.extent[p][e]
  BY <1>1, <1>2 DEF PointOf, Plus
<1>4. \A e \in Axis : x[e] % j.size[e] = x[e]
  <2>1. SUFFICES ASSUME NEW e \in Axis PROVE x[e] % j.size[e] = x[e]
    OBVIOUS
  <2>2. PICK z \in Nat \ {0}, a \in Int : z = j.size[e] /\ a = x[e]
    BY <1>1, <1>3 DEF Vector
  <2> QED BY <1>3, <2>2, Remainder
<1>5. WrapIn(j, x) = x
  <2>1. x = [e \in Axis |-> x[e]]
    BY DEF Vector
  <2> QED BY <1>4, <2>1 DEF WrapIn
<1> QED BY <1>2, <1>3, <1>5 DEF View

\* What p copies out for a neighbour, when it has received the halos of the
\* dimensions behind.
HasBehind(j, p, r, d, bw, fws, peer) ==
  \A e \in Axis : e > d =>
    /\ bw[e] = Held(j, p, e, FALSE) /\ fws[e] = Held(j, p, e, TRUE)
    /\ Receives(j, p, e, FALSE) => peer[e].bw = HaloSeq(j, p, r, e, FALSE)
    /\ Receives(j, p, e, TRUE) => peer[e].fw = HaloSeq(j, p, r, e, TRUE)

Holds(j, p, r, da) ==
  \A l \in Block(Origin, j.extent[p]) : da[l] = IF InDom(j, PointOf(j, p, l)) THEN r ELSE 0

CopiedSlab(j, p, d, fw, da) ==
  LET w == WidthIn(j, d, fw)
      box == Copyout(SlabOffset(j.extent[p], d, w, fw), SlabSize(j.extent[p], d, w))
  IN  [i \in DOMAIN box |-> <<PointOf(j, p, box[i]), da[box[i]]>>]

LEMMA CopiedIs ==
  ASSUME NEW j, Known(j), WidthsFit, NEW p \in All(j), NEW d \in Axis, NEW fw \in BOOLEAN, NEW r,
         NEW da, Holds(j, p, r, da)
  PROVE  IsFill(CopiedSlab(j, p, d, fw, da), View(j, p, r),
                SlabOffset(j.extent[p], d, WidthIn(j, d, fw), fw),
                SlabSize(j.extent[p], d, WidthIn(j, d, fw)))
<1>1. PICK w \in Nat : w = WidthIn(j, d, fw)
  BY JobTypes
<1>2. PICK x \in Extent : x = j.extent[p]
  BY PartFacts
<1>3. w <= x[d]
  BY <1>1, <1>2, PartFacts
<1>4. PICK lo \in Vector : lo = SlabOffset(x, d, w, fw)
  <2>1. PICK a \in Int : a = x[d] - w
    BY DEF Extent
  <2>2. PICK v : v = SlabOffset(x, d, w, fw)
    OBVIOUS
  <2>3. v = [e \in Axis |-> IF e = d /\ ~fw THEN a ELSE 0]
    BY <2>1, <2>2 DEF SlabOffset
  <2>4. v \in Vector
    BY <2>3 DEF Vector
  <2> QED BY <2>2, <2>4
<1>5. PICK s \in Extent : s = SlabSize(x, d, w)
  BY DEF SlabSize, Extent
<1>6. PICK box : box = Copyout(lo, s)
  OBVIOUS
<1>7. /\ DOMAIN box = 1 .. Elements(s)
      /\ \A i \in 1 .. Elements(s) : box[i] = Plus(lo, Unrank(i - 1, s))
  BY <1>6 DEF Copyout
<1>8. CopiedSlab(j, p, d, fw, da)
        = [i \in 1 .. Elements(s) |-> <<PointOf(j, p, box[i]), da[box[i]]>>]
  BY <1>1, <1>2, <1>4, <1>5, <1>6, <1>7 DEF CopiedSlab
<1>9. ASSUME NEW i \in 1 .. Elements(s)
      PROVE  <<PointOf(j, p, box[i]), da[box[i]]>> = View(j, p, r)[Plus(lo, Unrank(i - 1, s))]
  <2>1. Unrank(i - 1, s) \in Block(Origin, s)
    <3>1. Elements(s) \in Nat
      BY ElementsOf
    <3>2. i - 1 \in 0 .. Elements(s) - 1
      BY <3>1
    <3>3. PICK m \in 0 .. Elements(s) - 1 : m = i - 1
      BY <3>2
    <3> QED BY <3>3, Place
  <2>2. PICK u \in Vector : u = Unrank(i - 1, s) /\ \A e \in Axis : 0 <= u[e] /\ u[e] < s[e]
    BY <2>1, BoxIs
  <2>3. PICK l \in Vector : l = Plus(lo, u)
    BY Vectors
  <2>4. \A e \in Axis : l[e] = lo[e] + u[e]
    BY <2>3 DEF Plus
  <2>5. \A e \in Axis : 0 <= l[e] /\ l[e] < x[e]
    <3>1. \A e \in Axis : /\ lo[e] = IF e = d /\ ~fw THEN x[d] - w ELSE 0
                          /\ s[e] = IF e = d THEN w ELSE x[e]
                          /\ x[e] \in Nat /\ u[e] \in Int
      BY <1>4, <1>5 DEF SlabOffset, SlabSize, Extent, Vector
    <3> QED BY <1>3, <2>2, <2>4, <3>1
  <2>6. l \in Block(Origin, j.extent[p])
    BY <1>2, <2>5, BoxIs
  <2>7. da[l] = IF InDom(j, PointOf(j, p, l)) THEN r ELSE 0
    BY <2>6 DEF Holds
  <2>8. View(j, p, r)[l] = After(j, PointOf(j, p, l), r)
    BY <1>2, <2>5, OwnPoint
  <2>9. box[i] = l
    BY <1>7, <2>2, <2>3
  <2> QED BY <2>2, <2>3, <2>7, <2>8, <2>9 DEF After
<1>10. CopiedSlab(j, p, d, fw, da) = Fill(View(j, p, r), lo, s)
  BY <1>8, <1>9 DEF Fill
<1> QED BY <1>1, <1>2, <1>4, <1>5, <1>10 DEF IsFill

LEMMA SlabOfPart ==
  ASSUME NEW j, Known(j), WidthsFit, NEW p \in All(j), NEW d \in Axis, NEW fw \in BOOLEAN, NEW r,
         NEW da, Holds(j, p, r, da),
         NEW bw \in Extent, NEW fws \in Extent, NEW peer, HasBehind(j, p, r, d, bw, fws, peer)
  PROVE  IsFill(CopyoutHalo(CopiedSlab(j, p, d, fw, da), peer, j.extent[p], bw, fws, d,
                            WidthIn(j, d, fw), fw, j.diagonal),
                View(j, p, r),
                SlabStart(j.extent[p], Bw(j, p), d, WidthIn(j, d, fw), fw, j.diagonal),
                HaloSize(j, p, d, fw))
<1>1. PICK w \in Nat : w = WidthIn(j, d, fw)
  BY JobTypes
<1>2. PICK x \in Extent : x = j.extent[p]
  BY PartFacts
<1>3. w <= x[d]
  BY <1>1, <1>2, PartFacts
<1>4. PICK F : F = View(j, p, r)
  OBVIOUS
<1>5. PICK slab : slab = CopiedSlab(j, p, d, fw, da)
  OBVIOUS
<1>6. IsFill(slab, F, SlabOffset(x, d, w, fw), SlabSize(x, d, w))
  BY <1>1, <1>2, <1>4, <1>5, CopiedIs
<1>7. PICK diag \in BOOLEAN : diag = j.diagonal
  BY JobTypes
<1>8. Shape(x, bw, fws)
  BY DEF Shape
<1>9. PICK B : B = Bw(j, p)
  OBVIOUS
<1>10. PICK W : W = Fw(j, p)
  OBVIOUS
<1>11. \A e \in Axis : e > d => bw[e] = B[e] /\ fws[e] = W[e]
  BY <1>9, <1>10, HeldFacts DEF HasBehind
<1>12. ASSUME diag PROVE FullBehind(F, peer, x, bw, fws, d)
  <2>1. SUFFICES ASSUME NEW e \in Axis, e > d
                 PROVE  /\ bw[e] > 0 => peer[e].bw = Fill(F, HaloStart(x, bw, e, bw[e], FALSE, TRUE),
                                                          HaloExtent(x, bw, fws, e, bw[e], TRUE))
                        /\ fws[e] > 0 => peer[e].fw = Fill(F, HaloStart(x, bw, e, fws[e], TRUE, TRUE),
                                                           HaloExtent(x, bw, fws, e, fws[e], TRUE))
    BY DEF FullBehind
  <2>2. /\ bw[e] = Held(j, p, e, FALSE) /\ fws[e] = Held(j, p, e, TRUE)
        /\ Receives(j, p, e, FALSE) => peer[e].bw = HaloSeq(j, p, r, e, FALSE)
        /\ Receives(j, p, e, TRUE) => peer[e].fw = HaloSeq(j, p, r, e, TRUE)
    BY <2>1 DEF HasBehind
  <2>3. d \in Int /\ e \in Int /\ \A f \in Axis : f \in Int /\ (f > e => f > d)
    BY <2>1 DEF Axis
  <2>4. \A f \in Axis : f > e => bw[f] = B[f] /\ fws[f] = W[f]
    BY <1>11, <2>3
  <2>5. ASSUME bw[e] > 0
        PROVE  peer[e].bw = Fill(F, HaloStart(x, bw, e, bw[e], FALSE, TRUE),
                                 HaloExtent(x, bw, fws, e, bw[e], TRUE))
    <3>0. Held(j, p, e, FALSE) > 0 <=> Receives(j, p, e, FALSE)
      BY HeldFacts
    <3>1. Receives(j, p, e, FALSE) /\ bw[e] = WidthIn(j, e, FALSE)
      BY ONLY <2>2, <2>5, <3>0 DEF Held
    <3>2. HaloFrom(j, p, e, FALSE) = HaloStart(x, bw, e, bw[e], FALSE, TRUE)
      BY <1>2, <1>7, <1>9, <1>12, <2>4, <3>1 DEF HaloFrom, HaloStart
    <3>3. HaloSize(j, p, e, FALSE) = HaloExtent(x, bw, fws, e, bw[e], TRUE)
      BY <1>2, <1>7, <1>9, <1>10, <1>12, <2>4, <3>1 DEF HaloSize, HaloExtent
    <3> QED BY <1>4, <2>2, <3>1, <3>2, <3>3 DEF HaloSeq
  <2>6. ASSUME fws[e] > 0
        PROVE  peer[e].fw = Fill(F, HaloStart(x, bw, e, fws[e], TRUE, TRUE),
                                 HaloExtent(x, bw, fws, e, fws[e], TRUE))
    <3>0. Held(j, p, e, TRUE) > 0 <=> Receives(j, p, e, TRUE)
      BY HeldFacts
    <3>1. Receives(j, p, e, TRUE) /\ fws[e] = WidthIn(j, e, TRUE)
      BY ONLY <2>2, <2>6, <3>0 DEF Held
    <3>2. HaloFrom(j, p, e, TRUE) = HaloStart(x, bw, e, fws[e], TRUE, TRUE)
      BY <1>2, <1>7, <1>9, <1>12, <2>4, <3>1 DEF HaloFrom, HaloStart
    <3>3. HaloSize(j, p, e, TRUE) = HaloExtent(x, bw, fws, e, fws[e], TRUE)
      BY <1>2, <1>7, <1>9, <1>10, <1>12, <2>4, <3>1 DEF HaloSize, HaloExtent
    <3> QED BY <1>4, <2>2, <3>1, <3>2, <3>3 DEF HaloSeq
  <2> QED BY <2>5, <2>6
<1>13. IsFill(CopyoutHalo(slab, peer, x, bw, fws, d, w, fw, diag), F,
              SlabStart(x, bw, d, w, fw, diag), HaloExtent(x, bw, fws, d, w, diag))
  BY <1>3, <1>6, <1>8, <1>12, SlabIs
<1>14. SlabStart(x, bw, d, w, fw, diag) = SlabStart(x, B, d, w, fw, diag)
  BY <1>11 DEF SlabStart
<1>15. HaloExtent(x, bw, fws, d, w, diag) = HaloSize(j, p, d, fw)
  BY <1>1, <1>2, <1>7, <1>9, <1>10, <1>11 DEF HaloSize, HaloExtent
<1> QED BY <1>1, <1>2, <1>4, <1>5, <1>7, <1>9, <1>13, <1>14, <1>15

-----------------------------------------------------------------------------
(* What a kernel with all halos reads.                                      *)

DevRec == [size: Extent, offset: Vector, diag: BOOLEAN, bw: Extent, fw: Extent]

\* The descriptor dev has the part of p; it has all its halos.
Places(j, p, dev) == dev \in DevRec /\ dev.size = j.extent[p] /\ dev.offset = j.offset[p]
Complete(j, p, dev) ==
  /\ dev.bw = Bw(j, p) /\ dev.fw = Fw(j, p)
  /\ \A d \in Axis, fw \in BOOLEAN : Receives(j, p, d, fw) => dev.diag = j.diagonal

InPart(j, p, x) ==
  x \in Vector /\ \A e \in Axis : j.offset[p][e] <= x[e] /\ x[e] < j.offset[p][e] + j.extent[p][e]

InSpace(j, x) == \A e \in Axis : 0 <= x[e] /\ x[e] < j.size[e]

\* A read that leaves the part, but not the grid, is as far from it as the halo
\* is wide, and there is one.
LEMMA Reach ==
  ASSUME NEW j, Known(j), WidthsFit, NEW p \in All(j), NEW x, InPart(j, p, x),
         NEW o \in j.stencil, InSpace(j, WrapIn(j, Plus(x, o))), NEW l \in Vector,
         PointOf(j, p, l) = Plus(x, o), NEW e \in Axis
  PROVE  /\ l[e] \in Int
         /\ l[e] < 0 => Receives(j, p, e, FALSE) /\ -Held(j, p, e, FALSE) <= l[e] /\ o[e] < 0
         /\ l[e] >= j.extent[p][e] =>
              /\ Receives(j, p, e, TRUE) /\ l[e] < j.extent[p][e] + Held(j, p, e, TRUE)
              /\ o[e] > 0
<1>1. /\ o[e] \in Int /\ -j.bw[e] <= o[e] /\ o[e] <= j.fw[e]
      /\ j.bw[e] \in Nat /\ j.fw[e] \in Nat
  BY JobStencil, JobTypes DEF Extent
<1>2. /\ l[e] \in Int /\ x[e] \in Int
      /\ j.offset[p][e] <= x[e] /\ x[e] < j.offset[p][e] + j.extent[p][e]
  BY DEF Vector, InPart
<1>3. /\ j.offset[p][e] \in Nat /\ j.extent[p][e] \in Nat /\ j.size[e] \in Nat
      /\ j.offset[p][e] + j.extent[p][e] <= j.size[e]
  BY PartFacts, JobTypes DEF Extent
<1>4. Plus(x, o)[e] = x[e] + o[e] /\ PointOf(j, p, l)[e] = l[e] + j.offset[p][e]
  BY DEF PointOf, Plus
<1>5. l[e] = x[e] + o[e] - j.offset[p][e]
  BY <1>1, <1>2, <1>3, <1>4
<1>6. ~j.periodic => 0 <= x[e] + o[e] /\ x[e] + o[e] < j.size[e]
  <2>1. ~j.periodic => WrapIn(j, Plus(x, o))[e] = x[e] + o[e]
    BY <1>4 DEF WrapIn
  <2> QED BY <2>1 DEF InSpace
<1>7. j.periodic \in BOOLEAN
  BY JobTypes
<1>8. ASSUME l[e] < 0
      PROVE  Receives(j, p, e, FALSE) /\ -Held(j, p, e, FALSE) <= l[e] /\ o[e] < 0
  <2>1. o[e] < 0 /\ j.bw[e] > 0 /\ -j.bw[e] <= l[e]
    BY <1>1, <1>2, <1>3, <1>5, <1>8
  <2>2. j.periodic \/ j.offset[p][e] # 0
    BY <1>1, <1>2, <1>3, <1>5, <1>6, <1>8
  <2>3. Receives(j, p, e, FALSE)
    BY <2>1, <2>2 DEF Receives, HasBw
  <2> QED BY <2>1, <2>3 DEF Held, WidthIn
<1>9. ASSUME l[e] >= j.extent[p][e]
      PROVE  Receives(j, p, e, TRUE) /\ l[e] < j.extent[p][e] + Held(j, p, e, TRUE) /\ o[e] > 0
  <2>1. o[e] > 0 /\ j.fw[e] > 0 /\ l[e] < j.extent[p][e] + j.fw[e]
    BY <1>1, <1>2, <1>3, <1>5, <1>9
  <2>2. j.periodic \/ j.offset[p][e] + j.extent[p][e] # j.size[e]
    BY <1>1, <1>2, <1>3, <1>5, <1>6, <1>9
  <2>3. Receives(j, p, e, TRUE)
    BY <2>1, <2>2 DEF Receives, HasFw
  <2> QED BY <2>1, <2>3 DEF Held, WidthIn
<1> QED BY <1>2, <1>8, <1>9

\* What Reach says of dimension e, with a complete descriptor.
Reaches(dev, o, l, e) ==
  /\ l[e] \in Int /\ o[e] \in Int /\ dev.size[e] \in Nat /\ dev.bw[e] \in Nat /\ dev.fw[e] \in Nat
  /\ -dev.bw[e] <= l[e] /\ l[e] < dev.size[e] + dev.fw[e]
  /\ o[e] = 0 => 0 <= l[e] /\ l[e] < dev.size[e]
Given(j, p, dev, l, e) ==
  /\ l[e] < 0 => Receives(j, p, e, FALSE) /\ dev.bw[e] = WidthIn(j, e, FALSE)
  /\ l[e] >= dev.size[e] => Receives(j, p, e, TRUE) /\ dev.fw[e] = WidthIn(j, e, TRUE)

LEMMA ReachDev ==
  ASSUME NEW j, Known(j), WidthsFit, NEW p \in All(j), NEW dev, Places(j, p, dev),
         Complete(j, p, dev), NEW x, InPart(j, p, x),
         NEW o \in j.stencil, InSpace(j, WrapIn(j, Plus(x, o))), NEW l \in Vector,
         PointOf(j, p, l) = Plus(x, o), NEW e \in Axis
  PROVE  Reaches(dev, o, l, e) /\ Given(j, p, dev, l, e)
<1>1. PICK b \in Nat : b = dev.bw[e] /\ b = Held(j, p, e, FALSE)
  BY HeldFacts DEF Complete
<1>2. PICK f \in Nat : f = dev.fw[e] /\ f = Held(j, p, e, TRUE)
  BY HeldFacts DEF Complete
<1>3. PICK s \in Nat : s = dev.size[e] /\ s = j.extent[p][e]
  BY PartFacts DEF Places
<1>4. PICK m \in Int : m = l[e]
  BY DEF Vector
<1>5. PICK k \in Int : k = o[e]
  BY JobStencil
<1>6. l[e] < 0 => Receives(j, p, e, FALSE) /\ -Held(j, p, e, FALSE) <= l[e] /\ o[e] < 0
  BY Reach
<1>7. l[e] >= j.extent[p][e] =>
        Receives(j, p, e, TRUE) /\ l[e] < j.extent[p][e] + Held(j, p, e, TRUE) /\ o[e] > 0
  BY Reach
<1>8. m < 0 => Receives(j, p, e, FALSE) /\ -b <= m /\ k < 0
  BY ONLY <1>1, <1>4, <1>5, <1>6, Zenon
<1>9. m >= s => Receives(j, p, e, TRUE) /\ m < s + f /\ k > 0
  BY ONLY <1>2, <1>3, <1>4, <1>5, <1>7, Zenon
<1>10. -b <= m /\ m < s + f /\ (k = 0 => 0 <= m /\ m < s)
  <2>1. m < 0 => -b <= m /\ k < 0
    BY <1>8
  <2>2. m >= s => m < s + f /\ k > 0
    BY <1>9
  <2> QED BY ONLY <2>1, <2>2, m \in Int, k \in Int, s \in Nat, b \in Nat, f \in Nat
<1>11. Reaches(dev, o, l, e)
  BY ONLY <1>1, <1>2, <1>3, <1>4, <1>5, <1>10 DEF Reaches
<1>12. Given(j, p, dev, l, e)
  <2>1. m < 0 => Receives(j, p, e, FALSE) /\ b = WidthIn(j, e, FALSE)
    BY ONLY <1>1, <1>8 DEF Held
  <2>2. m >= s => Receives(j, p, e, TRUE) /\ f = WidthIn(j, e, TRUE)
    BY ONLY <1>2, <1>9 DEF Held
  <2> QED BY ONLY <1>1, <1>2, <1>3, <1>4, <2>1, <2>2, Zenon DEF Given
<1> QED BY <1>11, <1>12

\* It is found in the halo of the first dimension in which it leaves the part.
LEMMA FoundInHalo ==
  ASSUME NEW j, Known(j), WidthsFit, NEW p \in All(j), NEW dev, Places(j, p, dev),
         Complete(j, p, dev), NEW x, InPart(j, p, x),
         NEW o \in j.stencil, InSpace(j, WrapIn(j, Plus(x, o))), NEW l \in Vector,
         PointOf(j, p, l) = Plus(x, o), NEW a, Located(dev, a, l),
         NEW d \in Axis, ~Inside(dev, l, d), \A e \in Axis : e < d => Inside(dev, l, e), NEW r
  PROVE  \E fw \in BOOLEAN : \E i \in Nat :
           /\ Receives(j, p, d, fw) /\ a = InHalo(d, fw, i)
           /\ i + 1 \in DOMAIN HaloSeq(j, p, r, d, fw)
           /\ HaloSeq(j, p, r, d, fw)[i + 1] = After(j, WrapIn(j, Plus(x, o)), r)
<1>1. Descriptor3D(dev)
  BY DEF Places, DevRec, Descriptor3D, Shape
<1>2. ASSUME NEW e \in Axis PROVE Reaches(dev, o, l, e) /\ Given(j, p, dev, l, e)
  BY ReachDev
<1>4. PICK fw \in BOOLEAN : fw <=> l[d] >= 0
  OBVIOUS
<1>r. Reaches(dev, o, l, d) /\ Given(j, p, dev, l, d) /\ ~Inside(dev, l, d)
  BY <1>2
<1>7. PICK w : w = IF fw THEN dev.fw[d] ELSE dev.bw[d]
  OBVIOUS
<1>5. /\ Receives(j, p, d, fw) /\ o[d] # 0 /\ w = WidthIn(j, d, fw)
      /\ IF fw THEN dev.size[d] <= l[d] /\ l[d] < dev.size[d] + w ELSE -w <= l[d] /\ l[d] < 0
  <2>0. o[d] # 0
    BY ONLY <1>r DEF Reaches, Inside
  <2>1. CASE fw = TRUE
    <3>1. l[d] >= 0 /\ w = dev.fw[d]
      BY <1>4, <1>7, <2>1
    <3>2. l[d] >= dev.size[d] /\ l[d] < dev.size[d] + w
      BY ONLY <1>r, <3>1 DEF Reaches, Inside
    <3>3. Receives(j, p, d, TRUE) /\ dev.fw[d] = WidthIn(j, d, TRUE)
      BY ONLY <1>r, <3>2 DEF Given
    <3>4. dev.size[d] <= l[d] /\ l[d] < dev.size[d] + w
      BY ONLY <1>r, <3>2 DEF Reaches
    <3> QED BY ONLY <2>0, <2>1, <3>1, <3>3, <3>4
  <2>2. CASE fw = FALSE
    <3>1. ~(l[d] >= 0) /\ w = dev.bw[d]
      BY <1>4, <1>7, <2>2
    <3>2. l[d] < 0 /\ -w <= l[d]
      BY ONLY <1>r, <3>1 DEF Reaches
    <3>3. Receives(j, p, d, FALSE) /\ dev.bw[d] = WidthIn(j, d, FALSE)
      BY ONLY <1>r, <3>2 DEF Given
    <3> QED BY ONLY <2>0, <2>2, <3>1, <3>2, <3>3
  <2> QED BY <2>1, <2>2
<1>6. dev.diag = j.diagonal /\ dev.diag \in BOOLEAN
  BY <1>5 DEF Complete, Places, DevRec
<1>10. \A e \in Axis \ {d} : IF e > d /\ dev.diag
                             THEN -dev.bw[e] <= l[e] /\ l[e] < dev.size[e] + dev.fw[e]
                             ELSE Inside(dev, l, e)
  <2>1. SUFFICES ASSUME NEW e \in Axis \ {d}
                 PROVE  IF e > d /\ dev.diag
                        THEN -dev.bw[e] <= l[e] /\ l[e] < dev.size[e] + dev.fw[e]
                        ELSE Inside(dev, l, e)
    OBVIOUS
  <2>r. Reaches(dev, o, l, e)
    BY <1>2
  <2>2. CASE dev.diag /\ e > d
    <3>1. -dev.bw[e] <= l[e] /\ l[e] < dev.size[e] + dev.fw[e]
      BY ONLY <2>r DEF Reaches
    <3> QED BY <2>2, <3>1
  <2>3. CASE ~dev.diag /\ e > d
    <3>1. o[e] = 0
      BY <1>5, <1>6, <2>3, JobStencil
    <3>2. Inside(dev, l, e)
      BY ONLY <2>r, <3>1 DEF Reaches, Inside
    <3> QED BY <2>3, <3>2
  <2>4. CASE e < d
    <3>1. Inside(dev, l, e) /\ ~(e > d)
      BY <2>4 DEF Axis
    <3> QED BY <3>1
  <2> QED BY <1>6, <2>2, <2>3, <2>4 DEF Axis
<1>11. PICK halo : halo = HaloSeq(j, p, r, d, fw)
  OBVIOUS
<1>12. IsFill(halo, View(j, p, r), HaloStart(dev.size, dev.bw, d, w, fw, dev.diag),
              HaloExtent(dev.size, dev.bw, dev.fw, d, w, dev.diag))
  BY <1>5, <1>6, <1>11 DEF HaloSeq, HaloFrom, HaloSize, IsFill, Places, Complete
<1>13. PICK i \in Nat : /\ HaloAt(dev, l, d, fw) = InHalo(d, fw, i)
                        /\ i + 1 \in DOMAIN halo /\ halo[i + 1] = View(j, p, r)[l]
  BY <1>1, <1>5, <1>7, <1>10, <1>12, HaloElement
<1>14. a = HaloAt(dev, l, d, fw)
  BY <1>4 DEF Located
<1>15. View(j, p, r)[l] = After(j, WrapIn(j, Plus(x, o)), r)
  BY DEF View
<1> QED BY <1>5, <1>11, <1>13, <1>14, <1>15

\* What is at address a, where the halos are peer and the grid is da.
FetchIn(j, p, peer, da, a) ==
  IF a[1] = "grid"
  THEN IF a[2] \in DOMAIN da THEN <<PointOf(j, p, a[2]), da[a[2]]>> ELSE Garbage
  ELSE LET halo == peer[a[2]][Half(a[3])]
       IN  IF a[4] + 1 \in DOMAIN halo THEN halo[a[4] + 1] ELSE Garbage

LEMMA FetchInside ==
  ASSUME NEW j, Known(j), WidthsFit, NEW p \in All(j), NEW l \in Vector,
         \A e \in Axis : 0 <= l[e] /\ l[e] < j.extent[p][e], NEW r,
         NEW da, Holds(j, p, r, da), DOMAIN da = Block(Origin, j.extent[p]), NEW peer
  PROVE  FetchIn(j, p, peer, da, InGrid(l)) = After(j, WrapIn(j, PointOf(j, p, l)), r)
<1>1. PICK a : a = InGrid(l)
  OBVIOUS
<1>2. a[1] = "grid" /\ a[2] = l
  BY <1>1 DEF InGrid
<1>3. l \in Block(Origin, j.extent[p])
  BY BoxIs, PartFacts
<1>4. da[l] = IF InDom(j, PointOf(j, p, l)) THEN r ELSE 0
  BY <1>3 DEF Holds
<1>5. FetchIn(j, p, peer, da, a) = <<PointOf(j, p, l), da[l]>>
  BY <1>2, <1>3 DEF FetchIn
<1>6. WrapIn(j, PointOf(j, p, l)) = PointOf(j, p, l)
  BY OwnPoint
<1> QED BY <1>1, <1>4, <1>5, <1>6 DEF After

LEMMA FetchInHalo ==
  ASSUME NEW j, NEW p, NEW peer, NEW da, NEW d, NEW fw \in BOOLEAN, NEW i, NEW halo,
         peer[d][Half(fw)] = halo, i + 1 \in DOMAIN halo
  PROVE  FetchIn(j, p, peer, da, InHalo(d, fw, i)) = halo[i + 1]
<1>1. PICK a : a = InHalo(d, fw, i)
  OBVIOUS
<1>2. a[1] = "halo" /\ a[2] = d /\ a[4] = i
  BY <1>1 DEF InHalo
<1>3. a[3] = fw
  BY <1>1 DEF InHalo
<1>4. Half(a[3]) = Half(fw)
  BY <1>3
<1>5. peer[a[2]][Half(a[3])] = halo
  BY <1>2, <1>4
<1>6. a[1] # "grid"
  BY <1>2
<1> QED BY <1>1, <1>2, <1>5, <1>6 DEF FetchIn

\* The halos of round r are all there.
Filled(j, p, r, peer) ==
  \A d \in Axis, fw \in BOOLEAN :
    Receives(j, p, d, fw) => peer[d][Half(fw)] = HaloSeq(j, p, r, d, fw)

LEMMA FetchFound ==
  ASSUME NEW j, Known(j), WidthsFit, NEW p \in All(j), NEW dev, Places(j, p, dev),
         Complete(j, p, dev), NEW x, InPart(j, p, x),
         NEW o \in j.stencil, InSpace(j, WrapIn(j, Plus(x, o))), NEW l \in Vector,
         PointOf(j, p, l) = Plus(x, o), NEW a, Located(dev, a, l), NEW r,
         NEW da, Holds(j, p, r, da), DOMAIN da = Block(Origin, j.extent[p]),
         NEW peer, Filled(j, p, r, peer)
  PROVE  FetchIn(j, p, peer, da, a) = After(j, WrapIn(j, Plus(x, o)), r)
<1>1. CASE \A e \in Axis : Inside(dev, l, e)
  <2>1. a = InGrid(l)
    BY <1>1 DEF Located
  <2>2. \A e \in Axis : 0 <= l[e] /\ l[e] < j.extent[p][e]
    BY <1>1 DEF Inside, Places
  <2> QED BY <2>1, <2>2, FetchInside
<1>2. CASE ~\A e \in Axis : Inside(dev, l, e)
  <2>1. \E d \in Axis : ~Inside(dev, l, d) /\ \A e \in Axis : e < d => Inside(dev, l, e)
    <3>1. /\ 1 \in Axis /\ 2 \in Axis /\ 3 \in Axis
          /\ \A e \in Axis : e = 1 \/ e = 2 \/ e = 3
      BY Vectors
    <3>2. CASE ~Inside(dev, l, 1)
      BY <3>1, <3>2
    <3>3. CASE Inside(dev, l, 1) /\ ~Inside(dev, l, 2)
      BY <3>1, <3>3
    <3>4. CASE Inside(dev, l, 1) /\ Inside(dev, l, 2)
      <4>1. ~Inside(dev, l, 3)
        BY <1>2, <3>1, <3>4
      <4> QED BY <3>1, <3>4, <4>1
    <3> QED BY <3>2, <3>3, <3>4
  <2>2. PICK d \in Axis : ~Inside(dev, l, d) /\ \A e \in Axis : e < d => Inside(dev, l, e)
    BY <2>1
  <2>3. PICK fw \in BOOLEAN, i \in Nat :
           /\ Receives(j, p, d, fw) /\ a = InHalo(d, fw, i)
           /\ i + 1 \in DOMAIN HaloSeq(j, p, r, d, fw)
           /\ HaloSeq(j, p, r, d, fw)[i + 1] = After(j, WrapIn(j, Plus(x, o)), r)
    BY <2>2, FoundInHalo
  <2>4. peer[d][Half(fw)] = HaloSeq(j, p, r, d, fw)
    BY <2>3 DEF Filled
  <2> QED BY <2>3, <2>4, FetchInHalo
<1> QED BY <1>1, <1>2

-----------------------------------------------------------------------------
(* Where the loop body does what.                                           *)

\* The exchange for dimension d follows the launch for the interior.
ExchangeAt(j, d) == (IF j.body[1].op = "launch" THEN 1 ELSE 0) + 5 * (3 - d)
SendAt(j, d, fw) == ExchangeAt(j, d) + (IF fw THEN 2 ELSE 1)
RecvAt(j, d, fw) == ExchangeAt(j, d) + (IF fw THEN 4 ELSE 3)
WaitAt(j, d)     == ExchangeAt(j, d) + 5

\* The kernels for the faces have streams of their own.
Streamed(j) == j.body[Len(j.body)].op = "sync"

IsLaunch(j, i) == i \in 1 .. Len(j.body) /\ j.body[i].op = "launch"

\* The kernels of a body, and where it launches them.
InnerCall(j, i) == i = 1 /\ j.body[i].variant = "inner" /\ j.body[i].stream = InnerStream
LastCall(j, i) ==
  /\ i = Len(j.body) /\ j.body[i].stream = DefaultStream
  /\ j.body[i].variant = "normal" \/ (j.body[i].variant = "boundary" /\ j.body[1].op = "launch")
FaceCall(j, i) ==
  /\ Streamed(j) /\ i < Len(j.body) /\ i > WaitAt(j, 1) /\ j.width > 0
  /\ j.body[i].variant = "face" /\ j.body[i].stream \in Nat /\ j.body[i].stream >= KernelStream(0)
  /\ j.body[i].face \in Axis \X BOOLEAN /\ j.body[i].of \in Nat \ {0}
  /\ j.body[i].slice \in 0 .. j.body[i].of - 1 /\ (j.body[i].face[1] # 3 \/ j.body[i].of = 1)

Exchanging(j, i) ==
  /\ j.width > 0
  /\ \E d \in Axis :
       \/ \E fw \in BOOLEAN : \/ i = SendAt(j, d, fw) /\ j.body[i] = Send(d, fw)
                              \/ i = RecvAt(j, d, fw) /\ j.body[i] = Recv(d, fw)
       \/ i = WaitAt(j, d) /\ j.body[i] = Wait(d)

\* A face of the part of a process is cut into n slices, and a kernel of the body
\* is for each of them.
Sliced(j, d, fw, n) ==
  /\ d # 3 \/ n = 1
  /\ \A s \in 0 .. n - 1 : \E i \in 1 .. Len(j.body) :
       /\ IsLaunch(j, i) /\ j.body[i].variant = "face"
       /\ j.body[i].face = <<d, fw>> /\ j.body[i].slice = s /\ j.body[i].of = n

\* The kernels between them are for all the points.
Covering(j) ==
  \/ \E i \in 1 .. Len(j.body) : IsLaunch(j, i) /\ j.body[i].variant = "normal"
  \/ /\ IsLaunch(j, 1) /\ j.body[1].variant = "inner"
     /\ \/ j.width = 0
        \/ \E i \in 1 .. Len(j.body) : IsLaunch(j, i) /\ j.body[i].variant = "boundary"
        \/ \A d \in Axis, fw \in BOOLEAN : \E n \in Nat \ {0} : Sliced(j, d, fw, n)

BodyOK(j) ==
  /\ Len(j.body) \in Nat /\ Len(j.body) >= 1
  /\ \A i \in 1 .. Len(j.body) :
       \/ Exchanging(j, i)
       \/ IsLaunch(j, i) /\ (InnerCall(j, i) \/ LastCall(j, i) \/ FaceCall(j, i))
       \/ i = Len(j.body) /\ j.body[i] = Sync
  /\ j.width > 0 =>
       /\ WaitAt(j, 1) < Len(j.body)
       /\ \A d \in Axis : /\ j.body[WaitAt(j, d)] = Wait(d)
                          /\ \A fw \in BOOLEAN : /\ j.body[SendAt(j, d, fw)] = Send(d, fw)
                                                 /\ j.body[RecvAt(j, d, fw)] = Recv(d, fw)
  /\ Covering(j)
  /\ j.stream = DefaultStream => \A i \in 1 .. Len(j.body) : IsLaunch(j, i) => LastCall(j, i)
  /\ j.stream \in {DefaultStream, CopyStream}


\* s is a sequence of n elements.
IsSeq(s, n) == n \in Nat /\ s = [i \in 1 .. n |-> s[i]]

Follow(s, n, t, m, u) ==
  /\ IsSeq(u, n + m)
  /\ \A i \in 1 .. n : u[i] = s[i]
  /\ \A i \in 1 .. m : u[n + i] = t[i]

LEMMA Join ==
  ASSUME NEW s, NEW n, NEW t, NEW m, IsSeq(s, n), IsSeq(t, m)
  PROVE  Follow(s, n, t, m, s \o t)
<1>1. PICK f : f = s
  OBVIOUS
<1>2. PICK g : g = t
  OBVIOUS
<1>3. /\ n \in Nat /\ m \in Nat
      /\ f = [i \in 1 .. n |-> f[i]] /\ g = [i \in 1 .. m |-> g[i]]
  BY <1>1, <1>2 DEF IsSeq
<1>4. PICK S : S = {f[i] : i \in 1 .. n} \cup {g[i] : i \in 1 .. m}
  OBVIOUS
<1>5. f \in [1 .. n -> S] /\ g \in [1 .. m -> S]
  BY <1>3, <1>4
<1>6. PICK h : h = [i \in 1 .. n + m |-> IF i <= n THEN f[i] ELSE g[i - n]]
  OBVIOUS
<1>7. \A i \in 1 .. n : h[i] = f[i] /\ h[i] \in S
  BY <1>3, <1>5, <1>6
<1>8. \A i \in 1 .. m : h[n + i] = g[i] /\ n + i \in 1 .. n + m
  BY <1>3, <1>5, <1>6
<1>9. h \in [1 .. n + m -> S]
  <2>1. ASSUME NEW i \in 1 .. n + m PROVE (IF i <= n THEN f[i] ELSE g[i - n]) \in S
    <3>1. CASE i <= n
      BY <1>3, <1>5, <3>1
    <3>2. CASE ~(i <= n)
      <4>1. i - n \in 1 .. m
        BY <1>3, <3>2
      <4> QED BY <1>5, <3>2, <4>1
    <3> QED BY <3>1, <3>2
  <2> QED BY <1>6, <2>1
<1>10. Joins(f, g, h)
  <2>1. n \in Nat /\ m \in Nat
    BY <1>3
  <2>2. (\A i \in 1 .. n : h[i] = f[i]) /\ \A i \in 1 .. m : h[n + i] = g[i]
    BY <1>7, <1>8
  <2> QED BY ONLY <1>5, <1>9, <2>1, <2>2, Concatenated
<1>11. h = s \o t
  BY <1>1, <1>2, <1>10 DEF Joins
<1>12. Follow(s, n, t, m, h)
  BY <1>1, <1>2, <1>3, <1>7, <1>8, <1>9 DEF Follow, IsSeq
<1> QED BY <1>11, <1>12

LEMMA SeqLen ==
  ASSUME NEW s, NEW n, IsSeq(s, n)
  PROVE  Len(s) = n /\ DOMAIN s = 1 .. n
<1>1. PICK f : f = s
  OBVIOUS
<1>2. n \in Nat /\ f = [i \in 1 .. n |-> f[i]]
  BY <1>1 DEF IsSeq
<1>3. f \in Seq({f[i] : i \in 1 .. n})
  BY <1>2
<1>4. Len(f) = n /\ DOMAIN f = 1 .. n
  BY <1>2, <1>3
<1> QED BY <1>1, <1>4

LEMMA Tuples ==
  /\ IsSeq(<< >>, 0)
  /\ \A a : IsSeq(<<a>>, 1) /\ <<a>>[1] = a
  /\ \A a, b, c, d, e : LET s == <<a, b, c, d, e>>
                        IN  /\ IsSeq(s, 5) /\ s[1] = a /\ s[2] = b /\ s[3] = c
                            /\ s[4] = d /\ s[5] = e
<1>1. IsSeq(<< >>, 0)
  BY DEF IsSeq
<1>2. ASSUME NEW a PROVE IsSeq(<<a>>, 1) /\ <<a>>[1] = a
  BY DEF IsSeq
<1>3. ASSUME NEW a, NEW b, NEW c, NEW d, NEW e
      PROVE  LET s == <<a, b, c, d, e>>
             IN  /\ IsSeq(s, 5) /\ s[1] = a /\ s[2] = b /\ s[3] = c /\ s[4] = d /\ s[5] = e
  BY DEF IsSeq
<1> QED BY <1>1, <1>2, <1>3

\* From position k on, b exchanges the halos of all dimensions.
Exchanges(b, k) ==
  \A d \in Axis : /\ b[k + 5 * (3 - d) + 1] = Send(d, FALSE)
                  /\ b[k + 5 * (3 - d) + 2] = Send(d, TRUE)
                  /\ b[k + 5 * (3 - d) + 3] = Recv(d, FALSE)
                  /\ b[k + 5 * (3 - d) + 4] = Recv(d, TRUE)
                  /\ b[k + 5 * (3 - d) + 5] = Wait(d)

LEMMA LoadIs ==
  ASSUME NEW jb \in Jobs, ~jb.staged, Width(jb) # 0
  PROVE  IsSeq(LoadNeighbor(jb), 15) /\ Exchanges(LoadNeighbor(jb), 0)
<1>1. PICK x, y, z : x = Exchange(3) /\ y = Exchange(2) /\ z = Exchange(1)
  OBVIOUS
<1>2. LoadNeighbor(jb) = (x \o y) \o z
  BY <1>1 DEF LoadNeighbor
<1>3. /\ IsSeq(x, 5) /\ x[1] = Send(3, FALSE) /\ x[2] = Send(3, TRUE) /\ x[3] = Recv(3, FALSE)
      /\ x[4] = Recv(3, TRUE) /\ x[5] = Wait(3)
  BY <1>1, Tuples DEF Exchange
<1>4. /\ IsSeq(y, 5) /\ y[1] = Send(2, FALSE) /\ y[2] = Send(2, TRUE) /\ y[3] = Recv(2, FALSE)
      /\ y[4] = Recv(2, TRUE) /\ y[5] = Wait(2)
  BY <1>1, Tuples DEF Exchange
<1>5. /\ IsSeq(z, 5) /\ z[1] = Send(1, FALSE) /\ z[2] = Send(1, TRUE) /\ z[3] = Recv(1, FALSE)
      /\ z[4] = Recv(1, TRUE) /\ z[5] = Wait(1)
  BY <1>1, Tuples DEF Exchange
<1>6. PICK u : u = x \o y
  OBVIOUS
<1>7. Follow(x, 5, y, 5, u)
  BY <1>3, <1>4, <1>6, Join
<1>8. /\ IsSeq(u, 10) /\ \A i \in 1 .. 5 : u[i] = x[i]
      /\ \A i \in 1 .. 5 : u[5 + i] = y[i]
  BY <1>7 DEF Follow
<1>9. PICK w : w = u \o z
  OBVIOUS
<1>10. Follow(u, 10, z, 5, w)
  BY <1>5, <1>8, <1>9, Join
<1>11. /\ IsSeq(w, 15) /\ \A i \in 1 .. 10 : w[i] = u[i]
       /\ \A i \in 1 .. 5 : w[10 + i] = z[i]
  BY <1>10 DEF Follow
<1>12. /\ w[1] = x[1] /\ w[2] = x[2] /\ w[3] = x[3] /\ w[4] = x[4] /\ w[5] = x[5]
       /\ w[6] = y[1] /\ w[7] = y[2] /\ w[8] = y[3] /\ w[9] = y[4] /\ w[10] = y[5]
       /\ w[11] = z[1] /\ w[12] = z[2] /\ w[13] = z[3] /\ w[14] = z[4] /\ w[15] = z[5]
  <2>1. /\ u[1] = x[1] /\ u[2] = x[2] /\ u[3] = x[3] /\ u[4] = x[4] /\ u[5] = x[5]
    BY <1>8
  <2>2. /\ u[6] = y[1] /\ u[7] = y[2] /\ u[8] = y[3] /\ u[9] = y[4] /\ u[10] = y[5]
    <3>1. /\ u[5 + 1] = y[1] /\ u[5 + 2] = y[2] /\ u[5 + 3] = y[3] /\ u[5 + 4] = y[4]
          /\ u[5 + 5] = y[5]
      BY ONLY <1>8
    <3> QED BY ONLY <3>1
  <2>3. /\ w[11] = z[1] /\ w[12] = z[2] /\ w[13] = z[3] /\ w[14] = z[4] /\ w[15] = z[5]
    <3>1. /\ w[10 + 1] = z[1] /\ w[10 + 2] = z[2] /\ w[10 + 3] = z[3] /\ w[10 + 4] = z[4]
          /\ w[10 + 5] = z[5]
      BY ONLY <1>11
    <3> QED BY ONLY <3>1
  <2>4. /\ w[1] = u[1] /\ w[2] = u[2] /\ w[3] = u[3] /\ w[4] = u[4] /\ w[5] = u[5]
        /\ w[6] = u[6] /\ w[7] = u[7] /\ w[8] = u[8] /\ w[9] = u[9] /\ w[10] = u[10]
    BY ONLY <1>11
  <2> QED BY ONLY <2>1, <2>2, <2>3, <2>4
<1>13. ASSUME NEW d \in Axis
       PROVE  /\ w[0 + 5 * (3 - d) + 1] = Send(d, FALSE) /\ w[0 + 5 * (3 - d) + 2] = Send(d, TRUE)
              /\ w[0 + 5 * (3 - d) + 3] = Recv(d, FALSE) /\ w[0 + 5 * (3 - d) + 4] = Recv(d, TRUE)
              /\ w[0 + 5 * (3 - d) + 5] = Wait(d)
  <2>1. CASE d = 3
    <3>1. /\ 0 + 5 * (3 - d) + 1 = 1 /\ 0 + 5 * (3 - d) + 2 = 2 /\ 0 + 5 * (3 - d) + 3 = 3
          /\ 0 + 5 * (3 - d) + 4 = 4 /\ 0 + 5 * (3 - d) + 5 = 5
      BY ONLY <2>1
    <3> QED BY ONLY <1>3, <1>12, <2>1, <3>1, Zenon
  <2>2. CASE d = 2
    <3>1. /\ 0 + 5 * (3 - d) + 1 = 6 /\ 0 + 5 * (3 - d) + 2 = 7 /\ 0 + 5 * (3 - d) + 3 = 8
          /\ 0 + 5 * (3 - d) + 4 = 9 /\ 0 + 5 * (3 - d) + 5 = 10
      BY ONLY <2>2
    <3> QED BY ONLY <1>4, <1>12, <2>2, <3>1, Zenon
  <2>3. CASE d = 1
    <3>1. /\ 0 + 5 * (3 - d) + 1 = 11 /\ 0 + 5 * (3 - d) + 2 = 12 /\ 0 + 5 * (3 - d) + 3 = 13
          /\ 0 + 5 * (3 - d) + 4 = 14 /\ 0 + 5 * (3 - d) + 5 = 15
      BY ONLY <2>3
    <3> QED BY ONLY <1>5, <1>12, <2>3, <3>1, Zenon
  <2>4. d = 1 \/ d = 2 \/ d = 3
    BY Vectors
  <2> QED BY ONLY <2>1, <2>2, <2>3, <2>4, Zenon
<1>14. Exchanges(w, 0)
  BY <1>13 DEF Exchanges
<1> QED BY <1>2, <1>6, <1>9, <1>11, <1>14

\* A sequence before it moves the exchanges.
LEMMA Moved ==
  ASSUME NEW b, NEW n, NEW m, NEW s, NEW u, Exchanges(b, 0), n \in {0, 1}, m \in Nat, m >= 15,
         Follow(s, n, b, m, u)
  PROVE  Exchanges(u, n)
<1>1. ASSUME NEW d \in Axis, NEW x \in 1 .. 5
      PROVE  u[n + 5 * (3 - d) + x] = b[0 + 5 * (3 - d) + x]
  <2>1. PICK i : i = 0 + 5 * (3 - d) + x
    OBVIOUS
  <2>2. PICK k : k = n + 5 * (3 - d) + x
    OBVIOUS
  <2>3. i \in 1 .. m /\ n + i = k
    BY <2>1, <2>2 DEF Axis
  <2>4. u[n + i] = b[i]
    BY <2>3 DEF Follow
  <2>5. u[k] = b[i]
    BY <2>3, <2>4
  <2> QED BY ONLY <2>1, <2>2, <2>5
<1>2. ASSUME NEW d \in Axis
      PROVE  /\ u[n + 5 * (3 - d) + 1] = b[0 + 5 * (3 - d) + 1]
             /\ u[n + 5 * (3 - d) + 2] = b[0 + 5 * (3 - d) + 2]
             /\ u[n + 5 * (3 - d) + 3] = b[0 + 5 * (3 - d) + 3]
             /\ u[n + 5 * (3 - d) + 4] = b[0 + 5 * (3 - d) + 4]
             /\ u[n + 5 * (3 - d) + 5] = b[0 + 5 * (3 - d) + 5]
  <2>1. \A x \in 1 .. 5 : u[n + 5 * (3 - d) + x] = b[0 + 5 * (3 - d) + x]
    BY <1>1
  <2>2. 1 \in 1 .. 5 /\ 2 \in 1 .. 5 /\ 3 \in 1 .. 5 /\ 4 \in 1 .. 5 /\ 5 \in 1 .. 5
    OBVIOUS
  <2> QED BY ONLY <2>1, <2>2, Zenon
<1> QED BY <1>2 DEF Exchanges

Longer(b, n, k, t, m, u) == k \in {0, 1} /\ n \in Nat /\ n >= k + 15 /\ Follow(b, n, t, m, u)

LEMMA Kept ==
  ASSUME NEW b, NEW n, NEW k, NEW m, NEW t, NEW u, Longer(b, n, k, t, m, u), Exchanges(b, k)
  PROVE  Exchanges(u, k)
<1> USE DEF Longer
<1>1. ASSUME NEW d \in Axis, NEW x \in 1 .. 5
      PROVE  u[k + 5 * (3 - d) + x] = b[k + 5 * (3 - d) + x]
  <2>1. k + 5 * (3 - d) + x \in 1 .. n
    BY DEF Axis
  <2> QED BY <2>1 DEF Follow
<1>2. ASSUME NEW d \in Axis
      PROVE  /\ u[k + 5 * (3 - d) + 1] = b[k + 5 * (3 - d) + 1]
             /\ u[k + 5 * (3 - d) + 2] = b[k + 5 * (3 - d) + 2]
             /\ u[k + 5 * (3 - d) + 3] = b[k + 5 * (3 - d) + 3]
             /\ u[k + 5 * (3 - d) + 4] = b[k + 5 * (3 - d) + 4]
             /\ u[k + 5 * (3 - d) + 5] = b[k + 5 * (3 - d) + 5]
  <2>1. \A x \in 1 .. 5 : u[k + 5 * (3 - d) + x] = b[k + 5 * (3 - d) + x]
    BY <1>1
  <2>2. 1 \in 1 .. 5 /\ 2 \in 1 .. 5 /\ 3 \in 1 .. 5 /\ 4 \in 1 .. 5 /\ 5 \in 1 .. 5
    OBVIOUS
  <2> QED BY ONLY <2>1, <2>2, Zenon
<1> QED BY <1>2 DEF Exchanges

\* c launches the kernel for a slice of a face.
IsFace(c, d, fw, s, n) ==
  c.op = "launch" /\ c.variant = "face" /\ c.face = <<d, fw>> /\ c.slice = s /\ c.of = n

AnyFace(c) ==
  /\ c.op = "launch" /\ c.variant = "face" /\ c.stream \in Nat /\ c.stream >= KernelStream(0)
  /\ c.face \in Axis \X BOOLEAN /\ c.of \in Nat \ {0} /\ c.slice \in 0 .. c.of - 1
  /\ c.face[1] # 3 \/ c.of = 1

AllFaces(f, m) ==
  \A d \in Axis, fw \in BOOLEAN : \E n \in Nat \ {0} :
    /\ d # 3 \/ n = 1
    /\ \A s \in 0 .. n - 1 : \E i \in 1 .. m : IsFace(f[i], d, fw, s, n)

LEMMA LaunchIs ==
  ASSUME NEW v, NEW st, NEW face, NEW s, NEW n
  PROVE  LET c == Launch(v, st, face, s, n)
         IN  /\ c.op = "launch" /\ c.variant = v /\ c.stream = st /\ c.face = face
             /\ c.slice = s /\ c.of = n
BY DEF Launch

LEMMA FacesAre ==
  \E m \in Nat : /\ IsSeq(FaceLaunches, m) /\ \A i \in 1 .. m : AnyFace(FaceLaunches[i])
                 /\ AllFaces(FaceLaunches, m)
<1>1. PICK X \in Nat \ {0} : X = XStreams
  BY CudaRunAssumption
<1>2. PICK x : x = [i \in 1 .. 2 * X |->
                      Launch("face", KernelStream(i - 1), <<1, i > X>>, (i - 1) % X, X)]
  OBVIOUS
<1>3. PICK y : y = [i \in 1 .. 4 |->
                      Launch("face", KernelStream(2 * X + i - 1),
                             <<2 + (i - 1) \div 2, i % 2 = 0>>, 0, 1)]
  OBVIOUS
<1>4. FaceLaunches = x \o y
  BY <1>1, <1>2, <1>3 DEF FaceLaunches
<1>5. 2 * X \in Nat /\ IsSeq(x, 2 * X) /\ IsSeq(y, 4)
  BY <1>2, <1>3 DEF IsSeq
<1>6. PICK u : u = x \o y
  OBVIOUS
<1>7. Follow(x, 2 * X, y, 4, u)
  BY <1>5, <1>6, Join
<1>8. /\ IsSeq(u, 2 * X + 4) /\ \A i \in 1 .. 2 * X : u[i] = x[i]
      /\ \A i \in 1 .. 4 : u[2 * X + i] = y[i]
  BY <1>7 DEF Follow
<1>9. ASSUME NEW i \in 1 .. 2 * X
      PROVE  AnyFace(x[i]) /\ IsFace(x[i], 1, i > X, (i - 1) % X, X)
  <2>1. PICK c : c = x[i]
    OBVIOUS
  <2>2. c = Launch("face", KernelStream(i - 1), <<1, i > X>>, (i - 1) % X, X)
    BY <1>2, <2>1
  <2>3. /\ c.op = "launch" /\ c.variant = "face" /\ c.stream = KernelStream(i - 1)
        /\ c.face = <<1, i > X>> /\ c.slice = (i - 1) % X /\ c.of = X
    BY <2>2, LaunchIs
  <2>4. KernelStream(i - 1) \in Nat /\ KernelStream(i - 1) >= KernelStream(0)
    BY DEF KernelStream
  <2>5. <<1, i > X>> \in Axis \X BOOLEAN /\ <<1, i > X>>[1] = 1
    <3>0. (i > X) \in BOOLEAN
      OBVIOUS
    <3>1. PICK fw \in BOOLEAN : fw = (i > X)
      BY ONLY <3>0, Zenon
    <3>2. 1 \in Axis
      BY Vectors
    <3>3. <<1, fw>> \in Axis \X BOOLEAN /\ <<1, fw>>[1] = 1
      BY ONLY <3>2, fw \in BOOLEAN
    <3> QED BY ONLY <3>1, <3>3, Zenon
  <2>6. (i - 1) % X \in 0 .. X - 1
    OBVIOUS
  <2>7. c.face \in Axis \X BOOLEAN /\ c.face[1] # 3
    BY ONLY <2>3, <2>5
  <2>8. c.stream \in Nat /\ c.stream >= KernelStream(0)
    BY ONLY <2>3, <2>4, Zenon
  <2>9. c.slice \in 0 .. c.of - 1 /\ c.of \in Nat \ {0}
    BY ONLY <2>3, <2>6, X \in Nat \ {0}, Zenon
  <2>10. AnyFace(c)
    BY ONLY <2>3, <2>7, <2>8, <2>9, Zenon DEF AnyFace
  <2>11. IsFace(c, 1, i > X, (i - 1) % X, X)
    BY ONLY <2>3, Zenon DEF IsFace
  <2> QED BY ONLY <2>1, <2>10, <2>11, Zenon
<1>10. ASSUME NEW i \in 1 .. 4
       PROVE  AnyFace(y[i]) /\ IsFace(y[i], 2 + (i - 1) \div 2, i % 2 = 0, 0, 1)
  <2>1. PICK c : c = y[i]
    OBVIOUS
  <2>2. c = Launch("face", KernelStream(2 * X + i - 1), <<2 + (i - 1) \div 2, i % 2 = 0>>, 0, 1)
    BY <1>3, <2>1
  <2>3. /\ c.op = "launch" /\ c.variant = "face" /\ c.stream = KernelStream(2 * X + i - 1)
        /\ c.face = <<2 + (i - 1) \div 2, i % 2 = 0>> /\ c.slice = 0 /\ c.of = 1
    BY <2>2, LaunchIs
  <2>4. KernelStream(2 * X + i - 1) \in Nat /\ KernelStream(2 * X + i - 1) >= KernelStream(0)
    BY DEF KernelStream
  <2>5. 2 + (i - 1) \div 2 \in Axis /\ (i % 2 = 0) \in BOOLEAN
    <3>1. i = 1 \/ i = 2 \/ i = 3 \/ i = 4
      OBVIOUS
    <3>2. 2 + (i - 1) \div 2 \in 1 .. 3
      BY ONLY <3>1
    <3> QED BY <3>2 DEF Axis
  <2>6. <<2 + (i - 1) \div 2, i % 2 = 0>> \in Axis \X BOOLEAN
    BY ONLY <2>5, Zenon
  <2>7. c.face \in Axis \X BOOLEAN
    BY ONLY <2>3, <2>6, Zenon
  <2>8. c.stream \in Nat /\ c.stream >= KernelStream(0)
    BY ONLY <2>3, <2>4, Zenon
  <2>9. c.slice \in 0 .. c.of - 1 /\ c.of \in Nat \ {0} /\ c.of = 1
    BY ONLY <2>3
  <2>10. AnyFace(c)
    BY ONLY <2>3, <2>7, <2>8, <2>9, Zenon DEF AnyFace
  <2>11. IsFace(c, 2 + (i - 1) \div 2, i % 2 = 0, 0, 1)
    BY ONLY <2>3, Zenon DEF IsFace
  <2> QED BY ONLY <2>1, <2>10, <2>11, Zenon
<1>11. PICK m \in Nat : m = 2 * X + 4
  OBVIOUS
<1>12. ASSUME NEW i \in 1 .. m PROVE AnyFace(u[i])
  <2>1. CASE i <= 2 * X
    <3>1. i \in 1 .. 2 * X
      BY <2>1
    <3> QED BY <1>8, <1>9, <3>1
  <2>2. CASE i > 2 * X
    <3>1. PICK k : k = i - 2 * X
      OBVIOUS
    <3>2. k \in 1 .. 4 /\ 2 * X + k = i
      BY <1>11, <2>2, <3>1
    <3>3. u[2 * X + k] = y[k]
      BY <1>8, <3>2
    <3> QED BY <1>10, <3>2, <3>3
  <2> QED BY <2>1, <2>2
<1>13. ASSUME NEW fw \in BOOLEAN, NEW s \in 0 .. X - 1
       PROVE  \E i \in 1 .. m : IsFace(u[i], 1, fw, s, X)
  <2>1. s % X = s /\ (s + X) % X = s
    BY Remainder
  <2>2. CASE fw = FALSE
    <3>1. PICK i : i = s + 1
      OBVIOUS
    <3>2. i \in 1 .. 2 * X /\ i \in 1 .. m /\ i - 1 = s /\ ~(i > X)
      BY <1>11, <3>1
    <3>3. IsFace(u[i], 1, i > X, (i - 1) % X, X)
      BY <1>8, <1>9, <3>2
    <3>4. (i > X) = fw /\ (i - 1) % X = s
      BY <2>1, <2>2, <3>2
    <3>5. IsFace(u[i], 1, fw, s, X)
      BY ONLY <3>3, <3>4, Zenon
    <3> QED BY <3>2, <3>5
  <2>3. CASE fw = TRUE
    <3>1. PICK i : i = s + X + 1
      OBVIOUS
    <3>2. i \in 1 .. 2 * X /\ i \in 1 .. m /\ i - 1 = s + X /\ i > X
      BY <1>11, <3>1
    <3>3. IsFace(u[i], 1, i > X, (i - 1) % X, X)
      BY <1>8, <1>9, <3>2
    <3>4. (i > X) = fw /\ (i - 1) % X = s
      BY <2>1, <2>3, <3>2
    <3>5. IsFace(u[i], 1, fw, s, X)
      BY ONLY <3>3, <3>4, Zenon
    <3> QED BY <3>2, <3>5
  <2> QED BY <2>2, <2>3
<1>14. ASSUME NEW d \in Axis, d # 1, NEW fw \in BOOLEAN
       PROVE  \E i \in 1 .. m : IsFace(u[i], d, fw, 0, 1)
  <2>1. d = 2 \/ d = 3
    BY <1>14, Vectors
  <2>2. PICK k : k = 2 * (d - 2) + (IF fw THEN 2 ELSE 1)
    OBVIOUS
  <2>3. k \in 1 .. 4 /\ 2 + (k - 1) \div 2 = d
    BY <2>1, <2>2
  <2>4. (k % 2 = 0) = fw
    BY <2>1, <2>2
  <2>5. PICK i : i = 2 * X + k
    OBVIOUS
  <2>6. i \in 1 .. m
    BY <1>11, <2>3, <2>5
  <2>7. u[i] = y[k]
    BY <1>8, <2>3, <2>5
  <2>8. IsFace(y[k], 2 + (k - 1) \div 2, k % 2 = 0, 0, 1)
    BY <1>10, <2>3
  <2>9. IsFace(u[i], d, fw, 0, 1)
    BY ONLY <2>3, <2>4, <2>7, <2>8, Zenon
  <2> QED BY <2>6, <2>9
<1>15. ASSUME NEW d \in Axis, NEW fw \in BOOLEAN
       PROVE  \E n \in Nat \ {0} : /\ d # 3 \/ n = 1
                                   /\ \A s \in 0 .. n - 1 : \E i \in 1 .. m : IsFace(u[i], d, fw, s, n)
  <2>1. CASE d = 1
    BY <1>13, <2>1
  <2>2. CASE d # 1
    <3>1. \A s \in 0 .. 1 - 1 : s = 0
      OBVIOUS
    <3>2. \A s \in 0 .. 1 - 1 : \E i \in 1 .. m : IsFace(u[i], d, fw, s, 1)
      BY <1>14, <2>2, <3>1
    <3> QED BY <3>2
  <2> QED BY <2>1, <2>2
<1>16. AllFaces(u, m)
  BY <1>15 DEF AllFaces
<1> QED BY <1>4, <1>6, <1>8, <1>11, <1>12, <1>16

InnerLaunch    == Launch("inner", InnerStream, Whole, 0, 1)
NormalLaunch   == Launch("normal", DefaultStream, Whole, 0, 1)
BoundaryLaunch == Launch("boundary", DefaultStream, Whole, 0, 1)

\* What there is of the body before the kernels that read halos, and these.
StartOK(jb, s, k, l) ==
  /\ k = IF Enabled(jb) THEN 1 ELSE 0
  /\ l = IF Width(jb) = 0 THEN 0 ELSE 15
  /\ IsSeq(s, k + l)
  /\ Enabled(jb) => s[1] = InnerLaunch
  /\ Width(jb) # 0 => Exchanges(s, k)

FacesThenSync(t, m) ==
  /\ \E n \in Nat : m = n + 1 /\ (\A i \in 1 .. n : AnyFace(t[i])) /\ AllFaces(t, n)
  /\ t[m] = Sync

TailOK(jb, t, m) ==
  /\ IsSeq(t, m)
  /\ ~Enabled(jb) => m = 1 /\ t[1] = NormalLaunch
  /\ Enabled(jb) /\ Width(jb) = 0 => m = 0
  /\ Enabled(jb) /\ Width(jb) # 0 /\ ~jb.streams => m = 1 /\ t[1] = BoundaryLaunch
  /\ Enabled(jb) /\ Width(jb) # 0 /\ jb.streams => FacesThenSync(t, m)

LEMMA BodyIs ==
  ASSUME NEW jb \in Jobs, ~jb.staged
  PROVE  \E s, t, k, l, m : StartOK(jb, s, k, l) /\ TailOK(jb, t, m) /\ Body(jb) = s \o t
<1>1. PICK L : L = LoadNeighbor(jb)
  OBVIOUS
<1>2. PICK l \in Nat : l = IF Width(jb) = 0 THEN 0 ELSE 15
  OBVIOUS
<1>3. IsSeq(L, l) /\ (Width(jb) # 0 => Exchanges(L, 0) /\ l = 15)
  <2>1. CASE Width(jb) = 0
    <3>1. L = << >> /\ l = 0
      BY <1>1, <1>2, <2>1 DEF LoadNeighbor
    <3> QED BY <2>1, <3>1, Tuples
  <2>2. CASE Width(jb) # 0
    BY <1>1, <1>2, <2>2, LoadIs
  <2> QED BY <2>1, <2>2
<1>4. CASE ~Enabled(jb)
  <2>1. PICK t : t = <<NormalLaunch>>
    OBVIOUS
  <2>2. Body(jb) = L \o t
    BY <1>1, <1>4, <2>1 DEF Body, NormalLaunch
  <2>3. TailOK(jb, t, 1)
    <3>1. IsSeq(t, 1) /\ t[1] = NormalLaunch
      BY <2>1, Tuples
    <3> QED BY <1>4, <3>1 DEF TailOK
  <2>4. StartOK(jb, L, 0, l)
    <3>1. 0 + l = l
      OBVIOUS
    <3> QED BY <1>2, <1>3, <1>4, <3>1 DEF StartOK
  <2> QED BY <2>2, <2>3, <2>4
<1>5. CASE Enabled(jb)
  <2>1. PICK a, s : a = <<InnerLaunch>> /\ s = a \o L
    OBVIOUS
  <2>2. IsSeq(a, 1) /\ a[1] = InnerLaunch
    BY <2>1, Tuples
  <2>3. Follow(a, 1, L, l, s)
    BY <1>3, <2>1, <2>2, Join
  <2>4. IsSeq(s, 1 + l) /\ s[1] = InnerLaunch
    <3>1. 1 \in 1 .. 1
      OBVIOUS
    <3> QED BY <2>2, <2>3, <3>1 DEF Follow
  <2>5. Width(jb) # 0 => Exchanges(s, 1)
    <3>1. SUFFICES ASSUME Width(jb) # 0 PROVE Exchanges(s, 1)
      OBVIOUS
    <3>2. Exchanges(L, 0) /\ l \in Nat /\ l >= 15 /\ 1 \in {0, 1}
      BY <1>3, <3>1
    <3> QED BY <2>3, <3>2, Moved
  <2>6. StartOK(jb, s, 1, l)
    BY <1>2, <1>5, <2>4, <2>5 DEF StartOK
  <2>7. \E t, m : TailOK(jb, t, m) /\ Body(jb) = s \o t
    <3>1. CASE Width(jb) = 0
      <4>1. Body(jb) = s \o << >>
        BY <1>1, <1>5, <2>1, <3>1 DEF Body, InnerLaunch
      <4>2. TailOK(jb, << >>, 0)
        BY <1>5, <3>1, Tuples DEF TailOK
      <4> QED BY <4>1, <4>2
    <3>2. CASE Width(jb) # 0 /\ ~jb.streams
      <4>1. PICK t : t = <<BoundaryLaunch>>
        OBVIOUS
      <4>2. Body(jb) = s \o t
        BY <1>1, <1>5, <2>1, <3>2, <4>1 DEF Body, InnerLaunch, BoundaryLaunch
      <4>3. IsSeq(t, 1) /\ t[1] = BoundaryLaunch
        BY <4>1, Tuples
      <4>4. TailOK(jb, t, 1)
        BY <1>5, <3>2, <4>3 DEF TailOK
      <4> QED BY <4>2, <4>4
    <3>3. CASE Width(jb) # 0 /\ jb.streams
      <4>1. PICK n \in Nat : /\ IsSeq(FaceLaunches, n) /\ \A i \in 1 .. n : AnyFace(FaceLaunches[i])
                             /\ AllFaces(FaceLaunches, n)
        BY FacesAre
      <4>2. PICK y, t : y = <<Sync>> /\ t = FaceLaunches \o y
        OBVIOUS
      <4>3. Body(jb) = s \o t
        BY <1>1, <1>5, <2>1, <3>3, <4>2 DEF Body, InnerLaunch
      <4>4. IsSeq(y, 1) /\ y[1] = Sync
        BY <4>2, Tuples
      <4>5. Follow(FaceLaunches, n, y, 1, t)
        BY <4>1, <4>2, <4>4, Join
      <4>6. IsSeq(t, n + 1) /\ (\A i \in 1 .. n : t[i] = FaceLaunches[i]) /\ t[n + 1] = Sync
        <5>1. 1 \in 1 .. 1
          OBVIOUS
        <5> QED BY <4>4, <4>5, <5>1 DEF Follow
      <4>7. \A i \in 1 .. n : AnyFace(t[i])
        BY <4>1, <4>6
      <4>8. AllFaces(t, n)
        <5>1. ASSUME NEW d \in Axis, NEW fw \in BOOLEAN
              PROVE  \E z \in Nat \ {0} :
                       /\ d # 3 \/ z = 1
                       /\ \A q \in 0 .. z - 1 : \E i \in 1 .. n : IsFace(t[i], d, fw, q, z)
          <6>1. PICK z \in Nat \ {0} :
                   /\ d # 3 \/ z = 1
                   /\ \A q \in 0 .. z - 1 : \E i \in 1 .. n : IsFace(FaceLaunches[i], d, fw, q, z)
            BY <4>1 DEF AllFaces
          <6>2. \A q \in 0 .. z - 1 : \E i \in 1 .. n : IsFace(t[i], d, fw, q, z)
            BY <4>6, <6>1
          <6> QED BY <6>1, <6>2
        <5> QED BY <5>1 DEF AllFaces
      <4>9. FacesThenSync(t, n + 1)
        BY <4>6, <4>7, <4>8 DEF FacesThenSync
      <4>10. TailOK(jb, t, n + 1)
        BY <1>5, <3>3, <4>6, <4>9 DEF TailOK
      <4> QED BY <4>3, <4>10
    <3> QED BY <3>1, <3>2, <3>3
  <2> QED BY <2>6, <2>7
<1> QED BY <1>4, <1>5

\* Where the exchanges are in a body of which k calls come before them.
LEMMA Positions ==
  ASSUME NEW j, NEW k, k \in {0, 1}, Exchanges(j.body, k), j.body[1].op = "launch" <=> k = 1
  PROVE  \A d \in Axis :
           /\ ExchangeAt(j, d) = k + 5 * (3 - d)
           /\ j.body[WaitAt(j, d)] = Wait(d)
           /\ \A fw \in BOOLEAN : /\ j.body[SendAt(j, d, fw)] = Send(d, fw)
                                  /\ j.body[RecvAt(j, d, fw)] = Recv(d, fw)
<1>1. SUFFICES ASSUME NEW d \in Axis
               PROVE  /\ ExchangeAt(j, d) = k + 5 * (3 - d)
                      /\ j.body[WaitAt(j, d)] = Wait(d)
                      /\ \A fw \in BOOLEAN : /\ j.body[SendAt(j, d, fw)] = Send(d, fw)
                                             /\ j.body[RecvAt(j, d, fw)] = Recv(d, fw)
  OBVIOUS
<1>2. ExchangeAt(j, d) = k + 5 * (3 - d)
  BY DEF ExchangeAt
<1>3. PICK x : x = k + 5 * (3 - d)
  OBVIOUS
<1>4. PICK b : b = j.body
  OBVIOUS
<1>5. /\ b[x + 1] = Send(d, FALSE) /\ b[x + 2] = Send(d, TRUE) /\ b[x + 3] = Recv(d, FALSE)
      /\ b[x + 4] = Recv(d, TRUE) /\ b[x + 5] = Wait(d)
  <2>1. Exchanges(b, k)
    BY <1>4
  <2>2. /\ b[k + 5 * (3 - d) + 1] = Send(d, FALSE) /\ b[k + 5 * (3 - d) + 2] = Send(d, TRUE)
        /\ b[k + 5 * (3 - d) + 3] = Recv(d, FALSE) /\ b[k + 5 * (3 - d) + 4] = Recv(d, TRUE)
        /\ b[k + 5 * (3 - d) + 5] = Wait(d)
    BY ONLY <2>1, d \in Axis, Zenon DEF Exchanges
  <2> QED BY ONLY <1>3, <2>2, Zenon
<1>6. /\ SendAt(j, d, FALSE) = x + 1 /\ SendAt(j, d, TRUE) = x + 2
      /\ RecvAt(j, d, FALSE) = x + 3 /\ RecvAt(j, d, TRUE) = x + 4 /\ WaitAt(j, d) = x + 5
  BY <1>2, <1>3, Zenon DEF SendAt, RecvAt, WaitAt
<1>7. ASSUME NEW fw \in BOOLEAN
      PROVE  b[SendAt(j, d, fw)] = Send(d, fw) /\ b[RecvAt(j, d, fw)] = Recv(d, fw)
  <2>1. CASE fw = TRUE
    BY ONLY <1>5, <1>6, <2>1, Zenon
  <2>2. CASE fw = FALSE
    BY ONLY <1>5, <1>6, <2>2, Zenon
  <2> QED BY <2>1, <2>2
<1>8. b[WaitAt(j, d)] = Wait(d)
  BY ONLY <1>5, <1>6, Zenon
<1> QED BY <1>2, <1>4, <1>7, <1>8, Zenon

\* Every call of the exchanges.
LEMMA ExchangeCalls ==
  ASSUME NEW j, NEW k, k \in {0, 1}, Exchanges(j.body, k), j.body[1].op = "launch" <=> k = 1,
         j.width > 0, NEW i \in k + 1 .. k + 15
  PROVE  Exchanging(j, i)
<1>1. \E d \in Axis : \E y \in 1 .. 5 : i = k + 5 * (3 - d) + y
  <2>1. 1 \in Axis /\ 2 \in Axis /\ 3 \in Axis
    BY Vectors
  <2>2. CASE i - k <= 5
    <3>1. i - k \in 1 .. 5 /\ i = k + 5 * (3 - 3) + (i - k)
      BY <2>2
    <3> QED BY <2>1, <3>1
  <2>3. CASE 5 < i - k /\ i - k <= 10
    <3>1. i - k - 5 \in 1 .. 5 /\ i = k + 5 * (3 - 2) + (i - k - 5)
      BY <2>3
    <3> QED BY <2>1, <3>1
  <2>4. CASE 10 < i - k
    <3>1. i - k - 10 \in 1 .. 5 /\ i = k + 5 * (3 - 1) + (i - k - 10)
      BY <2>4
    <3> QED BY <2>1, <3>1
  <2> QED BY <2>2, <2>3, <2>4
<1>2. PICK d \in Axis, y \in 1 .. 5 : i = k + 5 * (3 - d) + y
  BY <1>1
<1>3. PICK e : e = ExchangeAt(j, d)
  OBVIOUS
<1>4. i = e + y /\ e = k + 5 * (3 - d)
  BY <1>2, <1>3, Positions
<1>5. /\ j.body[WaitAt(j, d)] = Wait(d)
      /\ j.body[SendAt(j, d, FALSE)] = Send(d, FALSE) /\ j.body[SendAt(j, d, TRUE)] = Send(d, TRUE)
      /\ j.body[RecvAt(j, d, FALSE)] = Recv(d, FALSE) /\ j.body[RecvAt(j, d, TRUE)] = Recv(d, TRUE)
  BY Positions
<1>6. /\ SendAt(j, d, FALSE) = e + 1 /\ SendAt(j, d, TRUE) = e + 2
      /\ RecvAt(j, d, FALSE) = e + 3 /\ RecvAt(j, d, TRUE) = e + 4 /\ WaitAt(j, d) = e + 5
  BY <1>3, Zenon DEF SendAt, RecvAt, WaitAt
<1>7. y = 1 \/ y = 2 \/ y = 3 \/ y = 4 \/ y = 5
  BY <1>2
<1>8. \/ i = SendAt(j, d, FALSE) \/ i = SendAt(j, d, TRUE) \/ i = RecvAt(j, d, FALSE)
      \/ i = RecvAt(j, d, TRUE) \/ i = WaitAt(j, d)
  BY ONLY <1>4, <1>6, <1>7, Zenon
<1>9. TRUE \in BOOLEAN /\ FALSE \in BOOLEAN
  OBVIOUS
<1>10. j.width > 0
  OBVIOUS
<1> QED BY ONLY <1>5, <1>8, <1>9, <1>10, d \in Axis, Zenon DEF Exchanging

LEMMA CallsAre ==
  /\ \A d, fw : /\ Send(d, fw).op = "send" /\ Send(d, fw).d = d /\ Send(d, fw).fw = fw
                /\ Recv(d, fw).op = "recv" /\ Recv(d, fw).d = d /\ Recv(d, fw).fw = fw
                /\ Wait(d).op = "wait" /\ Wait(d).d = d
  /\ Sync.op = "sync"
BY DEF Send, Recv, Wait, Sync

LEMMA ExchangingOps ==
  ASSUME NEW j, NEW i, Exchanging(j, i)
  PROVE  j.body[i].op \in {"send", "recv", "wait"}
<1>1. PICK d \in Axis : \/ \E fw \in BOOLEAN : \/ i = SendAt(j, d, fw) /\ j.body[i] = Send(d, fw)
                                               \/ i = RecvAt(j, d, fw) /\ j.body[i] = Recv(d, fw)
                        \/ i = WaitAt(j, d) /\ j.body[i] = Wait(d)
  BY DEF Exchanging
<1> QED BY <1>1, CallsAre

\* What a body contains that is made of a beginning and an end.
Made(j, jb, s, t, k, l, m) ==
  /\ jb \in Jobs /\ j.body = Body(jb) /\ j.width = Width(jb) /\ Width(jb) \in Nat
  /\ StartOK(jb, s, k, l) /\ TailOK(jb, t, m) /\ Body(jb) = s \o t

Parts(j, jb, t, k, l, m) ==
  /\ k \in {0, 1} /\ l \in {0, 15} /\ m \in Nat /\ k + l + m >= 1
  /\ Len(j.body) = k + l + m
  /\ k = 1 <=> Enabled(jb)
  /\ l = 15 <=> j.width > 0
  /\ Enabled(jb) => j.body[1] = InnerLaunch
  /\ j.width > 0 => /\ Exchanges(j.body, k) /\ m >= 1
                    /\ j.body[1].op = "launch" <=> k = 1
  /\ \A i \in 1 .. m : j.body[k + l + i] = t[i]

LEMMA Composed ==
  ASSUME NEW j, NEW jb, NEW s, NEW t, NEW k, NEW l, NEW m, Made(j, jb, s, t, k, l, m)
  PROVE  Parts(j, jb, t, k, l, m)
<1>0. /\ jb \in Jobs /\ j.body = Body(jb) /\ j.width = Width(jb) /\ Width(jb) \in Nat
      /\ StartOK(jb, s, k, l) /\ TailOK(jb, t, m) /\ Body(jb) = s \o t
  BY DEF Made
<1>1. PICK b : b = s \o t
  OBVIOUS
<1>2. /\ k = (IF Enabled(jb) THEN 1 ELSE 0) /\ l = (IF Width(jb) = 0 THEN 0 ELSE 15)
      /\ IsSeq(s, k + l) /\ (Enabled(jb) => s[1] = InnerLaunch)
      /\ (Width(jb) # 0 => Exchanges(s, k)) /\ IsSeq(t, m)
  BY <1>0 DEF StartOK, TailOK
<1>3. Follow(s, k + l, t, m, b)
  BY <1>1, <1>2, Join
<1>4. IsSeq(b, k + l + m) /\ (\A i \in 1 .. k + l : b[i] = s[i])
      /\ \A i \in 1 .. m : b[k + l + i] = t[i]
  BY <1>3 DEF Follow
<1>5. Len(b) = k + l + m
  BY <1>4, SeqLen
<1>6. k \in {0, 1} /\ l \in {0, 15} /\ m \in Nat
  BY <1>2 DEF IsSeq
<1>7. (k = 1 <=> Enabled(jb)) /\ (l = 15 <=> j.width > 0)
  BY <1>0, <1>2
<1>8. Enabled(jb) => b[1] = InnerLaunch
  <2>1. SUFFICES ASSUME Enabled(jb) PROVE b[1] = InnerLaunch
    OBVIOUS
  <2>2. 1 \in 1 .. k + l
    BY <1>6, <1>7, <2>1
  <2> QED BY <1>2, <1>4, <2>1, <2>2
<1>9. ~Enabled(jb) => m = 1
  BY <1>0 DEF TailOK
<1>10. j.width > 0 => m >= 1
  <2>1. SUFFICES ASSUME Width(jb) # 0 PROVE m >= 1
    BY <1>0
  <2>2. CASE Enabled(jb) /\ jb.streams
    <3>1. FacesThenSync(t, m)
      BY <1>0, <2>1, <2>2 DEF TailOK
    <3>2. PICK n \in Nat : m = n + 1
      BY <3>1 DEF FacesThenSync
    <3> QED BY <3>2
  <2>3. CASE Enabled(jb) /\ ~jb.streams
    BY <1>0, <2>1, <2>3 DEF TailOK
  <2> QED BY <1>9, <2>2, <2>3
<1>11. k + l + m >= 1
  BY <1>6, <1>7, <1>9
<1>12. j.width > 0 => Exchanges(b, k)
  <2>1. SUFFICES ASSUME j.width > 0 PROVE Exchanges(b, k)
    OBVIOUS
  <2>2. PICK n : n = k + l
    OBVIOUS
  <2>3. n \in Nat /\ n >= k + 15
    BY <1>6, <1>7, <2>1, <2>2
  <2>4. Exchanges(s, k) /\ k \in {0, 1} /\ Follow(s, n, t, m, b)
    BY <1>0, <1>2, <1>3, <1>6, <2>1, <2>2
  <2>5. Longer(s, n, k, t, m, b)
    BY ONLY <2>3, <2>4 DEF Longer
  <2> QED BY ONLY <2>4, <2>5, Kept
<1>13. j.width > 0 => (b[1].op = "launch" <=> k = 1)
  <2>1. SUFFICES ASSUME j.width > 0 PROVE b[1].op = "launch" <=> k = 1
    OBVIOUS
  <2>2. CASE k = 1
    <3>1. b[1] = InnerLaunch
      BY <1>7, <1>8, <2>2
    <3>2. InnerLaunch.op = "launch"
      BY LaunchIs DEF InnerLaunch
    <3> QED BY <2>2, <3>1, <3>2
  <2>3. CASE k = 0
    <3>1. b[0 + 5 * (3 - 3) + 1] = Send(3, FALSE)
      BY <1>12, <2>1, <2>3, Vectors DEF Exchanges
    <3>2. 0 + 5 * (3 - 3) + 1 = 1
      OBVIOUS
    <3>3. b[1] = Send(3, FALSE)
      BY ONLY <3>1, <3>2, Zenon
    <3>4. b[1].op = "send"
      BY ONLY <3>3 DEF Send
    <3> QED BY <2>3, <3>4
  <2> QED BY <1>6, <2>2, <2>3
<1>14. b = j.body
  BY <1>0, <1>1
<1> QED BY <1>4, <1>5, <1>6, <1>7, <1>8, <1>10, <1>11, <1>12, <1>13, <1>14 DEF Parts

LEMMA EveryCall ==
  ASSUME NEW j, NEW jb, NEW s, NEW t, NEW k, NEW l, NEW m, Made(j, jb, s, t, k, l, m),
         NEW i \in 1 .. Len(j.body)
  PROVE  \/ Exchanging(j, i)
         \/ /\ IsLaunch(j, i)
            /\ \/ InnerCall(j, i) /\ Enabled(jb)
               \/ /\ LastCall(j, i)
                  /\ j.body[i].variant = "boundary" => Enabled(jb) /\ ~jb.streams
               \/ FaceCall(j, i) /\ Enabled(jb) /\ jb.streams
         \/ i = Len(j.body) /\ j.body[i] = Sync /\ Streamed(j)
<1>0. Parts(j, jb, t, k, l, m)
  BY Composed
<1>1. /\ k \in {0, 1} /\ l \in {0, 15} /\ m \in Nat /\ k + l + m >= 1
      /\ Len(j.body) = k + l + m
      /\ k = 1 <=> Enabled(jb)
      /\ l = 15 <=> j.width > 0
      /\ Enabled(jb) => j.body[1] = InnerLaunch
      /\ j.width > 0 => Exchanges(j.body, k) /\ m >= 1
      /\ \A y \in 1 .. m : j.body[k + l + y] = t[y]
      /\ TailOK(jb, t, m) /\ j.width = Width(jb)
  BY <1>0 DEF Parts, Made
<1>2. /\ InnerLaunch.op = "launch" /\ InnerLaunch.variant = "inner"
      /\ InnerLaunch.stream = InnerStream
      /\ NormalLaunch.op = "launch" /\ NormalLaunch.variant = "normal"
      /\ NormalLaunch.stream = DefaultStream
      /\ BoundaryLaunch.op = "launch" /\ BoundaryLaunch.variant = "boundary"
      /\ BoundaryLaunch.stream = DefaultStream
  BY LaunchIs DEF InnerLaunch, NormalLaunch, BoundaryLaunch
<1>3. CASE i <= k
  <2>1. i = 1 /\ k = 1
    BY <1>1, <1>3
  <2>2. j.body[i] = InnerLaunch /\ Enabled(jb)
    BY <1>1, <2>1
  <2> QED BY <1>2, <2>1, <2>2 DEF IsLaunch, InnerCall
<1>4. j.width > 0 => (j.body[1].op = "launch" <=> k = 1)
  BY <1>0 DEF Parts
<1>5. CASE k < i /\ i <= k + l
  <2>1. l = 15 /\ j.width > 0
    BY <1>1, <1>5
  <2>2. i \in k + 1 .. k + 15
    BY <1>1, <1>5, <2>1
  <2>3. Exchanging(j, i)
    BY <1>1, <1>4, <2>1, <2>2, ExchangeCalls
  <2> QED BY <2>3
<1>6. CASE k + l < i
  <2>1. PICK y : y = i - (k + l)
    OBVIOUS
  <2>2. y \in 1 .. m /\ k + l + y = i
    <3>1. PICK n : n = Len(j.body)
      OBVIOUS
    <3>2. k \in Nat /\ l \in Nat /\ m \in Nat /\ n = k + l + m /\ i \in 1 .. n
      BY <1>1, <3>1
    <3> QED BY ONLY <1>6, <2>1, <3>2
  <2>3. j.body[i] = t[y]
    BY <1>1, <2>2
  <2>4. CASE ~Enabled(jb)
    <3>1. m = 1 /\ t[1] = NormalLaunch
      BY <1>1, <2>4 DEF TailOK
    <3>2. y = 1 /\ i = Len(j.body)
      BY <1>1, <2>2, <3>1
    <3>3. LastCall(j, i) /\ IsLaunch(j, i) /\ j.body[i].variant # "boundary"
      BY <1>2, <2>3, <3>1, <3>2 DEF LastCall, IsLaunch
    <3> QED BY <3>3
  <2>5. CASE Enabled(jb) /\ ~jb.streams
    <3>1. Width(jb) # 0
      BY <1>1, <2>2, <2>5 DEF TailOK
    <3>2. m = 1 /\ t[1] = BoundaryLaunch
      BY <1>1, <2>5, <3>1 DEF TailOK
    <3>3. y = 1 /\ i = Len(j.body)
      BY <1>1, <2>2, <3>2
    <3>4. LastCall(j, i) /\ IsLaunch(j, i)
      <4>1. j.body[1].op = "launch"
        BY <1>1, <1>2, <2>5
      <4> QED BY <1>2, <2>3, <3>2, <3>3, <4>1 DEF LastCall, IsLaunch
    <3> QED BY <2>5, <3>4
  <2>6. CASE Enabled(jb) /\ jb.streams
    <3>1. Width(jb) # 0 /\ j.width > 0
      <4>1. Width(jb) \in Nat
        BY DEF Made
      <4> QED BY <1>1, <2>2, <2>6, <4>1 DEF TailOK
    <3>2. FacesThenSync(t, m)
      BY <1>1, <2>6, <3>1 DEF TailOK
    <3>3. PICK n \in Nat : m = n + 1 /\ \A x \in 1 .. n : AnyFace(t[x])
      BY <3>2 DEF FacesThenSync
    <3>4. t[m] = Sync
      BY <3>2 DEF FacesThenSync
    <3>5. j.body[Len(j.body)] = Sync
      <4>1. m \in 1 .. m
        BY <3>3
      <4> QED BY <1>1, <3>4, <4>1
    <3>6. Streamed(j)
      BY <3>5, CallsAre DEF Streamed
    <3>7. CASE y = m
      <4>1. i = Len(j.body)
        BY <1>1, <2>2, <3>7
      <4> QED BY <3>5, <3>6, <4>1
    <3>8. CASE y # m
      <4>1. y \in 1 .. n /\ i < Len(j.body)
        BY <1>1, <2>2, <3>3, <3>8
      <4>2. AnyFace(j.body[i])
        BY <2>3, <3>3, <4>1
      <4>3. i > WaitAt(j, 1)
        <5>1. ExchangeAt(j, 1) = k + 5 * (3 - 1)
          <6>1. /\ Exchanges(j.body, k) /\ (j.body[1].op = "launch" <=> k = 1)
                /\ k \in {0, 1} /\ 1 \in Axis
            BY <1>1, <1>4, <3>1, Vectors
          <6>2. \A d \in Axis : ExchangeAt(j, d) = k + 5 * (3 - d)
            BY ONLY <6>1, Positions, Zenon
          <6> QED BY ONLY <6>1, <6>2, Zenon
        <5>2. WaitAt(j, 1) = k + 15
          BY <1>1, <5>1 DEF WaitAt
        <5>3. l = 15
          BY <1>1, <3>1
        <5> QED BY <1>1, <1>6, <5>2, <5>3
      <4>4. FaceCall(j, i) /\ IsLaunch(j, i)
        BY <3>1, <3>6, <4>1, <4>2, <4>3 DEF FaceCall, AnyFace, IsLaunch
      <4> QED BY <2>6, <4>4
    <3> QED BY <3>7, <3>8
  <2> QED BY <2>4, <2>5, <2>6
<1> QED BY <1>1, <1>3, <1>5, <1>6

LEMMA BodyMade ==
  ASSUME NEW j, Known(j), OneStage
  PROVE  \E jb, s, t, k, l, m : /\ Made(j, jb, s, t, k, l, m) /\ j = Prepared(jb)
                                 /\ j.stream = IF jb.eligible THEN CopyStream ELSE DefaultStream
<1>1. PICK jb \in Jobs : j = Prepared(jb)
  BY DEF Known
<1>2. /\ j.body = Body(jb) /\ j.width = Width(jb)
      /\ j.stream = IF jb.eligible THEN CopyStream ELSE DefaultStream
  BY <1>1 DEF Prepared
<1>3. Width(jb) \in Nat
  BY WidthIs
<1>4. ~jb.staged
  BY DEF OneStage
<1>5. PICK s, t, k, l, m : StartOK(jb, s, k, l) /\ TailOK(jb, t, m) /\ Body(jb) = s \o t
  BY <1>4, BodyIs
<1>6. Made(j, jb, s, t, k, l, m)
  BY <1>2, <1>3, <1>5 DEF Made
<1> QED BY <1>1, <1>2, <1>6

LEMMA Covers ==
  ASSUME NEW j, NEW jb, NEW s, NEW t, NEW k, NEW l, NEW m, Made(j, jb, s, t, k, l, m)
  PROVE  Covering(j)
<1>1. /\ k \in {0, 1} /\ l \in {0, 15} /\ m \in Nat /\ k + l + m >= 1
      /\ Len(j.body) = k + l + m
      /\ k = 1 <=> Enabled(jb)
      /\ Enabled(jb) => j.body[1] = InnerLaunch
      /\ \A y \in 1 .. m : j.body[k + l + y] = t[y]
      /\ TailOK(jb, t, m) /\ j.width = Width(jb)
  <2>1. Parts(j, jb, t, k, l, m)
    BY Composed
  <2> QED BY <2>1 DEF Parts, Made
<1>2. /\ InnerLaunch.op = "launch" /\ InnerLaunch.variant = "inner"
      /\ NormalLaunch.op = "launch" /\ NormalLaunch.variant = "normal"
      /\ BoundaryLaunch.op = "launch" /\ BoundaryLaunch.variant = "boundary"
  BY LaunchIs DEF InnerLaunch, NormalLaunch, BoundaryLaunch
<1>3. \A y \in 1 .. m : k + l + y \in 1 .. Len(j.body)
  BY <1>1
<1>4. CASE ~Enabled(jb)
  <2>1. m = 1 /\ t[1] = NormalLaunch
    BY <1>1, <1>4 DEF TailOK
  <2>2. 1 \in 1 .. m
    BY <2>1
  <2>3. PICK i : i = k + l + 1
    OBVIOUS
  <2>4. i \in 1 .. Len(j.body) /\ j.body[i] = NormalLaunch
    BY <1>1, <1>3, <2>1, <2>2, <2>3
  <2>5. IsLaunch(j, i) /\ j.body[i].variant = "normal"
    BY <1>2, <2>4 DEF IsLaunch
  <2> QED BY <2>4, <2>5 DEF Covering
<1>5. CASE Enabled(jb)
  <2>1. IsLaunch(j, 1) /\ j.body[1].variant = "inner"
    <3>1. 1 \in 1 .. Len(j.body)
      BY <1>1
    <3> QED BY <1>1, <1>2, <1>5, <3>1 DEF IsLaunch
  <2>2. CASE Width(jb) = 0
    BY <1>1, <2>1, <2>2 DEF Covering
  <2>3. CASE Width(jb) # 0 /\ ~jb.streams
    <3>1. m = 1 /\ t[1] = BoundaryLaunch
      BY <1>1, <1>5, <2>3 DEF TailOK
    <3>2. 1 \in 1 .. m
      BY <3>1
    <3>3. PICK i : i = k + l + 1
      OBVIOUS
    <3>4. i \in 1 .. Len(j.body) /\ j.body[i] = BoundaryLaunch
      BY <1>1, <1>3, <3>1, <3>2, <3>3
    <3>5. IsLaunch(j, i) /\ j.body[i].variant = "boundary"
      BY <1>2, <3>4 DEF IsLaunch
    <3> QED BY <2>1, <3>4, <3>5 DEF Covering
  <2>4. CASE Width(jb) # 0 /\ jb.streams
    <3>1. FacesThenSync(t, m)
      BY <1>1, <1>5, <2>4 DEF TailOK
    <3>2. PICK n \in Nat : m = n + 1 /\ AllFaces(t, n)
      BY <3>1 DEF FacesThenSync
    <3>3. ASSUME NEW d \in Axis, NEW fw \in BOOLEAN
          PROVE  \E z \in Nat \ {0} : Sliced(j, d, fw, z)
      <4>1. PICK z \in Nat \ {0} :
               /\ d # 3 \/ z = 1
               /\ \A q \in 0 .. z - 1 : \E i \in 1 .. n : IsFace(t[i], d, fw, q, z)
        BY <3>2 DEF AllFaces
      <4>2. ASSUME NEW q \in 0 .. z - 1
            PROVE  \E i \in 1 .. Len(j.body) :
                        /\ IsLaunch(j, i) /\ j.body[i].variant = "face"
                        /\ j.body[i].face = <<d, fw>> /\ j.body[i].slice = q /\ j.body[i].of = z
        <5>1. PICK y \in 1 .. n : IsFace(t[y], d, fw, q, z)
          BY <4>1
        <5>2. PICK i : i = k + l + y
          OBVIOUS
        <5>3. i \in 1 .. Len(j.body) /\ j.body[i] = t[y]
          BY <1>1, <1>3, <3>2, <5>2
        <5> QED BY <5>1, <5>3 DEF IsFace, IsLaunch
      <4>3. Sliced(j, d, fw, z)
        BY <4>1, <4>2 DEF Sliced
      <4> QED BY <4>3
    <3> QED BY <2>1, <3>3 DEF Covering
  <2> QED BY <2>2, <2>3, <2>4
<1> QED BY <1>4, <1>5

LEMMA BodyFacts ==
  ASSUME NEW j, Known(j), OneStage
  PROVE  BodyOK(j)
<1>1. PICK jb, s, t, k, l, m :
         /\ Made(j, jb, s, t, k, l, m) /\ j = Prepared(jb)
         /\ j.stream = IF jb.eligible THEN CopyStream ELSE DefaultStream
  BY BodyMade
<1>2. /\ k \in {0, 1} /\ l \in {0, 15} /\ m \in Nat /\ k + l + m >= 1
      /\ Len(j.body) = k + l + m
      /\ l = 15 <=> j.width > 0
      /\ j.width > 0 => /\ Exchanges(j.body, k) /\ m >= 1
                        /\ j.body[1].op = "launch" <=> k = 1
  <2>1. Parts(j, jb, t, k, l, m)
    BY <1>1, Composed
  <2> QED BY <2>1 DEF Parts
<1>3. Len(j.body) \in Nat /\ Len(j.body) >= 1
  BY <1>2
<1>4. ASSUME NEW i \in 1 .. Len(j.body)
      PROVE  \/ Exchanging(j, i)
             \/ IsLaunch(j, i) /\ (InnerCall(j, i) \/ LastCall(j, i) \/ FaceCall(j, i))
             \/ i = Len(j.body) /\ j.body[i] = Sync
  BY <1>1, EveryCall
<1>5. ASSUME j.width > 0
      PROVE  /\ WaitAt(j, 1) < Len(j.body)
             /\ \A d \in Axis : /\ j.body[WaitAt(j, d)] = Wait(d)
                                /\ \A fw \in BOOLEAN : /\ j.body[SendAt(j, d, fw)] = Send(d, fw)
                                                       /\ j.body[RecvAt(j, d, fw)] = Recv(d, fw)
  <2>1. /\ Exchanges(j.body, k) /\ (j.body[1].op = "launch" <=> k = 1) /\ k \in {0, 1}
    BY <1>2, <1>5
  <2>2. \A d \in Axis :
           /\ ExchangeAt(j, d) = k + 5 * (3 - d)
           /\ j.body[WaitAt(j, d)] = Wait(d)
           /\ \A fw \in BOOLEAN : /\ j.body[SendAt(j, d, fw)] = Send(d, fw)
                                  /\ j.body[RecvAt(j, d, fw)] = Recv(d, fw)
    BY <2>1, Positions
  <2>3. WaitAt(j, 1) < Len(j.body)
    <3>1. ExchangeAt(j, 1) = k + 5 * (3 - 1)
      BY <2>2, Vectors
    <3> QED BY <1>2, <1>5, <3>1 DEF WaitAt
  <2> QED BY <2>2, <2>3
<1>6. Covering(j)
  BY <1>1, Covers
<1>7. j.stream \in {DefaultStream, CopyStream}
  BY <1>1
<1>8. ASSUME j.stream = DefaultStream, NEW i \in 1 .. Len(j.body), IsLaunch(j, i)
      PROVE  LastCall(j, i)
  <2>1. ~Enabled(jb)
    BY <1>1, <1>8 DEF Enabled, DefaultStream, CopyStream
  <2>2. j.body[i].op = "launch"
    BY <1>8 DEF IsLaunch
  <2>3. \/ Exchanging(j, i) \/ LastCall(j, i) \/ j.body[i] = Sync
    BY <1>1, <2>1, EveryCall
  <2>4. ~Exchanging(j, i)
    BY <2>2, ExchangingOps
  <2>5. j.body[i] # Sync
    BY <2>2, CallsAre
  <2> QED BY <2>3, <2>4, <2>5
<1> QED BY <1>3, <1>4, <1>5, <1>6, <1>7, <1>8 DEF BodyOK

\* Where a process has kernels for the boundary, its part of the domain is wide
\* enough for them.
LEMMA WideParts ==
  ASSUME NEW j, Known(j), OneStage, DomainsWide, NEW p \in All(j), NEW i, IsLaunch(j, i)
  PROVE  /\ j.body[i].variant = "inner" => InnerCall(j, i)
         /\ j.body[i].variant = "boundary" => LastCall(j, i) /\ Wide(Part(j, p), j.width)
         /\ j.body[i].variant = "face" =>
              FaceCall(j, i) /\ Wide(Part(j, p), j.width) /\ Wide(Part(j, p), 2 * j.width)
<1>1. PICK jb, s, t, k, l, m :
         /\ Made(j, jb, s, t, k, l, m) /\ j = Prepared(jb)
  BY BodyMade
<1>2. i \in 1 .. Len(j.body) /\ j.body[i].op = "launch"
  BY DEF IsLaunch
<1>3. /\ All(j) = Procs(jb) /\ j.width = Width(jb)
  BY <1>1 DEF Prepared, All
<1>4. Enabled(jb) => /\ Wide(Part(j, p), j.width)
                     /\ jb.streams => Wide(Part(j, p), 2 * j.width)
  BY <1>1, <1>3 DEF DomainsWide, Made
<1>5. \/ Exchanging(j, i)
      \/ /\ IsLaunch(j, i)
         /\ \/ InnerCall(j, i) /\ Enabled(jb)
            \/ /\ LastCall(j, i)
               /\ j.body[i].variant = "boundary" => Enabled(jb) /\ ~jb.streams
            \/ FaceCall(j, i) /\ Enabled(jb) /\ jb.streams
      \/ i = Len(j.body) /\ j.body[i] = Sync /\ Streamed(j)
  BY <1>1, <1>2, EveryCall
<1>6. ~Exchanging(j, i) /\ j.body[i] # Sync
  BY <1>2, ExchangingOps, CallsAre
<1>7. CASE InnerCall(j, i) /\ Enabled(jb)
  BY <1>7 DEF InnerCall
<1>8. CASE LastCall(j, i) /\ (j.body[i].variant = "boundary" => Enabled(jb))
  BY <1>4, <1>8 DEF LastCall
<1>9. CASE FaceCall(j, i) /\ Enabled(jb) /\ jb.streams
  BY <1>4, <1>9 DEF FaceCall
<1> QED BY <1>5, <1>6, <1>7, <1>8, <1>9

\* The order of the exchanges.
LEMMA Times ==
  ASSUME NEW j, NEW d \in Axis, NEW fw \in BOOLEAN
  PROVE  /\ SendAt(j, d, fw) \in Nat /\ RecvAt(j, d, fw) \in Nat /\ WaitAt(j, d) \in Nat
         /\ SendAt(j, d, fw) >= 1 /\ RecvAt(j, d, fw) >= 1
         /\ SendAt(j, d, FALSE) < SendAt(j, d, TRUE) /\ RecvAt(j, d, FALSE) < RecvAt(j, d, TRUE)
         /\ \A gw \in BOOLEAN : SendAt(j, d, fw) < RecvAt(j, d, gw)
         /\ RecvAt(j, d, fw) < WaitAt(j, d)
         /\ \A e \in Axis, gw \in BOOLEAN : e < d => WaitAt(j, d) < SendAt(j, e, gw)
         /\ WaitAt(j, d) <= WaitAt(j, 1)
<1>1. PICK k \in {0, 1} : k = IF j.body[1].op = "launch" THEN 1 ELSE 0
  OBVIOUS
<1>2. \A e \in Axis : ExchangeAt(j, e) = k + 5 * (3 - e)
  BY <1>1 DEF ExchangeAt
<1>3. ASSUME NEW e \in Axis
      PROVE  /\ SendAt(j, e, FALSE) = k + 5 * (3 - e) + 1 /\ SendAt(j, e, TRUE) = k + 5 * (3 - e) + 2
             /\ RecvAt(j, e, FALSE) = k + 5 * (3 - e) + 3 /\ RecvAt(j, e, TRUE) = k + 5 * (3 - e) + 4
             /\ WaitAt(j, e) = k + 5 * (3 - e) + 5
  BY <1>2, Zenon DEF SendAt, RecvAt, WaitAt
<1>4. PICK a, b, c, y, w \in Int :
        /\ a = SendAt(j, d, FALSE) /\ b = SendAt(j, d, TRUE) /\ c = RecvAt(j, d, FALSE)
        /\ y = RecvAt(j, d, TRUE) /\ w = WaitAt(j, d)
        /\ a = k + 5 * (3 - d) + 1 /\ b = k + 5 * (3 - d) + 2 /\ c = k + 5 * (3 - d) + 3
        /\ y = k + 5 * (3 - d) + 4 /\ w = k + 5 * (3 - d) + 5
  <2>1. \E a, b, c, y, w \in Int :
        /\ a = k + 5 * (3 - d) + 1 /\ b = k + 5 * (3 - d) + 2 /\ c = k + 5 * (3 - d) + 3
        /\ y = k + 5 * (3 - d) + 4 /\ w = k + 5 * (3 - d) + 5
    BY DEF Axis
  <2> QED BY <1>3, <2>1, Zenon
<1>5. /\ a \in Nat /\ b \in Nat /\ c \in Nat /\ y \in Nat /\ w \in Nat
      /\ a >= 1 /\ a < b /\ b < c /\ c < y /\ y < w
  <2>1. PICK x \in Nat : x = k + 5 * (3 - d)
    BY DEF Axis
  <2>2. a = x + 1 /\ b = x + 2 /\ c = x + 3 /\ y = x + 4 /\ w = x + 5
    BY ONLY <1>4, <2>1, Zenon
  <2> QED BY ONLY <2>2, x \in Nat
<1>8. /\ SendAt(j, d, fw) \in Nat /\ RecvAt(j, d, fw) \in Nat /\ SendAt(j, d, fw) >= 1
      /\ RecvAt(j, d, fw) >= 1 /\ RecvAt(j, d, fw) < WaitAt(j, d)
      /\ SendAt(j, d, fw) < RecvAt(j, d, FALSE) /\ SendAt(j, d, fw) < RecvAt(j, d, TRUE)
  <2>1. CASE fw = TRUE
    <3>1. SendAt(j, d, fw) = b /\ RecvAt(j, d, fw) = y
      BY ONLY <1>4, <2>1, Zenon
    <3>2. /\ b \in Nat /\ y \in Nat /\ b >= 1 /\ y >= 1 /\ y < w /\ b < c /\ b < y
      BY ONLY <1>5
    <3> QED BY ONLY <1>4, <3>1, <3>2, Zenon
  <2>2. CASE fw = FALSE
    <3>1. SendAt(j, d, fw) = a /\ RecvAt(j, d, fw) = c
      BY ONLY <1>4, <2>2, Zenon
    <3>2. /\ a \in Nat /\ c \in Nat /\ a >= 1 /\ c >= 1 /\ c < w /\ a < c /\ a < y
      BY ONLY <1>5
    <3> QED BY ONLY <1>4, <3>1, <3>2, Zenon
  <2> QED BY <2>1, <2>2
<1>9. SendAt(j, d, FALSE) < SendAt(j, d, TRUE) /\ RecvAt(j, d, FALSE) < RecvAt(j, d, TRUE)
  BY ONLY <1>4, <1>5, Zenon
<1>10. \A gw \in BOOLEAN : SendAt(j, d, fw) < RecvAt(j, d, gw)
  <2>1. \A gw \in BOOLEAN : gw = TRUE \/ gw = FALSE
    OBVIOUS
  <2> QED BY ONLY <1>8, <2>1, Zenon
<1>11. ASSUME NEW e \in Axis, NEW gw \in BOOLEAN, e < d
       PROVE  WaitAt(j, d) < SendAt(j, e, gw)
  <2>1. PICK u \in Int, v \in Int : u = k + 5 * (3 - e) + 1 /\ v = k + 5 * (3 - e) + 2
    BY DEF Axis
  <2>2. w < u /\ w < v
    BY <1>4, <1>11, <2>1 DEF Axis
  <2>3. SendAt(j, e, FALSE) = u /\ SendAt(j, e, TRUE) = v
    BY <1>3, <2>1, Zenon
  <2>4. gw = TRUE \/ gw = FALSE
    OBVIOUS
  <2> QED BY ONLY <1>4, <2>2, <2>3, <2>4, Zenon
<1>12. WaitAt(j, d) <= WaitAt(j, 1)
  <2>1. WaitAt(j, 1) = k + 5 * (3 - 1) + 5
    BY <1>3, Vectors
  <2>2. w <= k + 5 * (3 - 1) + 5
    BY <1>4 DEF Axis
  <2> QED BY ONLY <1>4, <2>1, <2>2, Zenon
<1>13. WaitAt(j, d) \in Nat
  BY ONLY <1>4, <1>5, Zenon
<1> QED BY ONLY <1>8, <1>9, <1>10, <1>11, <1>12, <1>13, Zenon

\* The calls of a body.
LEMMA CallAt ==
  ASSUME NEW j, Known(j), OneStage, NEW i \in 1 .. Len(j.body)
  PROVE  /\ j.body[i].op \in {"send", "recv", "wait", "launch", "sync"}
         /\ j.body[i].op = "send" =>
              /\ j.width > 0 /\ j.body[i].d \in Axis /\ j.body[i].fw \in BOOLEAN
              /\ i = SendAt(j, j.body[i].d, j.body[i].fw)
         /\ j.body[i].op = "recv" =>
              /\ j.width > 0 /\ j.body[i].d \in Axis /\ j.body[i].fw \in BOOLEAN
              /\ i = RecvAt(j, j.body[i].d, j.body[i].fw)
         /\ j.body[i].op = "wait" =>
              j.width > 0 /\ j.body[i].d \in Axis /\ i = WaitAt(j, j.body[i].d)
         /\ j.body[i].op = "launch" => InnerCall(j, i) \/ LastCall(j, i) \/ FaceCall(j, i)
         /\ j.body[i].op = "sync" => i = Len(j.body)
<1>1. \/ Exchanging(j, i)
      \/ IsLaunch(j, i) /\ (InnerCall(j, i) \/ LastCall(j, i) \/ FaceCall(j, i))
      \/ i = Len(j.body) /\ j.body[i] = Sync
  BY BodyFacts DEF BodyOK
<1>2. CASE IsLaunch(j, i) /\ (InnerCall(j, i) \/ LastCall(j, i) \/ FaceCall(j, i))
  BY <1>2 DEF IsLaunch
<1>3. CASE i = Len(j.body) /\ j.body[i] = Sync
  BY <1>3, CallsAre
<1>4. CASE Exchanging(j, i)
  <2>1. j.width > 0
    BY <1>4 DEF Exchanging
  <2>2. PICK d \in Axis : \/ \E fw \in BOOLEAN : \/ i = SendAt(j, d, fw) /\ j.body[i] = Send(d, fw)
                                                 \/ i = RecvAt(j, d, fw) /\ j.body[i] = Recv(d, fw)
                          \/ i = WaitAt(j, d) /\ j.body[i] = Wait(d)
    BY <1>4 DEF Exchanging
  <2>3. PICK c : c = j.body[i]
    OBVIOUS
  <2>4. CASE i = WaitAt(j, d) /\ c = Wait(d)
    <3>1. c.op = "wait" /\ c.d = d
      BY <2>4, CallsAre
    <3> QED BY <2>1, <2>3, <2>4, <3>1
  <2>5. ASSUME NEW fw \in BOOLEAN, i = SendAt(j, d, fw), c = Send(d, fw)
        PROVE  c.op = "send" /\ c.d \in Axis /\ c.fw \in BOOLEAN /\ i = SendAt(j, c.d, c.fw)
    <3>1. c.op = "send" /\ c.d = d /\ c.fw = fw
      BY <2>5, CallsAre
    <3> QED BY <2>5, <3>1
  <2>6. ASSUME NEW fw \in BOOLEAN, i = RecvAt(j, d, fw), c = Recv(d, fw)
        PROVE  c.op = "recv" /\ c.d \in Axis /\ c.fw \in BOOLEAN /\ i = RecvAt(j, c.d, c.fw)
    <3>1. c.op = "recv" /\ c.d = d /\ c.fw = fw
      BY <2>6, CallsAre
    <3> QED BY <2>6, <3>1
  <2>7. CASE \E fw \in BOOLEAN : i = SendAt(j, d, fw) /\ c = Send(d, fw)
    <3>1. c.op = "send" /\ c.d \in Axis /\ c.fw \in BOOLEAN /\ i = SendAt(j, c.d, c.fw)
      BY ONLY <2>5, <2>7
    <3> QED BY ONLY <2>1, <2>3, <3>1
  <2>8. CASE \E fw \in BOOLEAN : i = RecvAt(j, d, fw) /\ c = Recv(d, fw)
    <3>1. c.op = "recv" /\ c.d \in Axis /\ c.fw \in BOOLEAN /\ i = RecvAt(j, c.d, c.fw)
      BY ONLY <2>6, <2>8
    <3> QED BY ONLY <2>1, <2>3, <3>1
  <2> QED BY <2>2, <2>3, <2>4, <2>7, <2>8
<1> QED BY <1>1, <1>2, <1>3, <1>4

-----------------------------------------------------------------------------
(* Kernels.                                                                 *)

DomainOf(j, p, c) ==
  CASE c.variant = "inner" -> DomainShrink(Part(j, p), j.width)
    [] c.variant = "face"  -> DomainGetBoundary(Part(j, p), c.face[1], c.face[2], j.width,
                                                c.of, c.slice)
    [] OTHER -> Part(j, p)

\* The points that launch c of the loop body computes in p.
Computes(j, p, c) ==
  IF c.variant = "boundary" THEN RunBoundaryPoints(DomainOf(j, p, c), j.width)
  ELSE RunKernelPoints(DomainOf(j, p, c))

LEMMA PartIs ==
  ASSUME NEW j, Known(j), WidthsFit, NEW p \in All(j)
  PROVE  /\ IsDomain(Part(j, p))
         /\ \A x : Within(Part(j, p), x) <=> InPart(j, p, x) /\ InDom(j, x)
<1>1. /\ j.lo \in Extent /\ j.hi \in Extent
  BY JobTypes
<1>2. j.offset[p] \in Extent /\ j.extent[p] \in Extent
  BY PartFacts
<1>3. PICK lo \in Vector, hi \in Vector, off \in Vector, size \in Extent :
        lo = j.lo /\ hi = j.hi /\ off = j.offset[p] /\ size = j.extent[p]
  BY <1>1, <1>2 DEF Extent, Vector
<1>4. PICK L : L = LocalDomain(Domain(lo, hi), off, size)
  OBVIOUS
<1>5. /\ IsDomain(L)
      /\ \A x \in Vector :
           Within(L, x) <=> \A e \in Axis : /\ lo[e] <= x[e] /\ x[e] < hi[e]
                                            /\ off[e] <= x[e] /\ x[e] < off[e] + size[e]
  BY <1>4, LocalDomainIs
<1>6. L = Part(j, p)
  BY <1>3, <1>4 DEF Part
<1>7. ASSUME NEW x PROVE Within(L, x) <=> InPart(j, p, x) /\ InDom(j, x)
  <2>1. CASE x \in Vector
    BY <1>3, <1>5, <2>1 DEF InPart, InDom
  <2>2. CASE x \notin Vector
    BY <2>2 DEF Within, InPart
  <2> QED BY <2>1, <2>2
<1> QED BY <1>5, <1>6, <1>7

\* The points that the kernels compute.
LEMMA ComputesIs ==
  ASSUME NEW j, Known(j), WidthsFit, OneStage, DomainsWide, NEW p \in All(j),
         NEW i, IsLaunch(j, i), NEW x
  PROVE  /\ InnerCall(j, i) =>
              (x \in Computes(j, p, j.body[i]) <=>
                 x \in Vector /\ \A e \in Axis : /\ Part(j, p).lo[e] + j.width <= x[e]
                                                 /\ x[e] < Part(j, p).hi[e] - j.width)
         /\ j.body[i].variant = "normal" =>
              (x \in Computes(j, p, j.body[i]) <=> Within(Part(j, p), x))
         /\ j.body[i].variant = "boundary" =>
              (x \in Computes(j, p, j.body[i]) <=>
                 /\ Within(Part(j, p), x)
                 /\ ~\A e \in Axis : /\ Part(j, p).lo[e] + j.width <= x[e]
                                     /\ x[e] < Part(j, p).hi[e] - j.width)
         /\ FaceCall(j, i) /\ x \in Computes(j, p, j.body[i]) =>
              /\ Within(Part(j, p), x)
              /\ AtFace(Part(j, p), j.body[i].face[1], j.body[i].face[2], j.width, x)
<1>1. PICK L : L = Part(j, p)
  OBVIOUS
<1>2. IsDomain(L) /\ j.width \in Nat
  BY <1>1, PartIs, JobTypes
<1>3. PICK c : c = j.body[i]
  OBVIOUS
<1>4. ASSUME c.variant = "inner"
      PROVE  x \in Computes(j, p, c) <=>
               x \in Vector /\ \A e \in Axis : L.lo[e] + j.width <= x[e] /\ x[e] < L.hi[e] - j.width
  <2>1. Computes(j, p, c) = RunKernelPoints(DomainShrink(L, j.width))
    BY <1>1, <1>4 DEF Computes, DomainOf
  <2> QED BY <1>2, <2>1, InnerPoints
<1>5. ASSUME c.variant = "normal"
      PROVE  x \in Computes(j, p, c) <=> Within(L, x)
  <2>1. Computes(j, p, c) = RunKernelPoints(L)
    BY <1>1, <1>5 DEF Computes, DomainOf
  <2>2. RunKernelPoints(L) = Block(L.lo, L.hi)
    BY DEF RunKernelPoints
  <2> QED BY <1>2, <2>1, <2>2, Bounds
<1>6. ASSUME c.variant = "boundary"
      PROVE  x \in Computes(j, p, c) <=>
               /\ Within(L, x)
               /\ ~\A e \in Axis : L.lo[e] + j.width <= x[e] /\ x[e] < L.hi[e] - j.width
  <2>1. Computes(j, p, c) = RunBoundaryPoints(L, j.width)
    BY <1>1, <1>6 DEF Computes, DomainOf
  <2>2. Wide(L, j.width)
    BY <1>1, <1>3, <1>6, WideParts
  <2> QED BY <1>2, <2>1, <2>2, BoundaryPoints
<1>7. ASSUME FaceCall(j, i), x \in Computes(j, p, c)
      PROVE  Within(L, x) /\ AtFace(L, c.face[1], c.face[2], j.width, x)
  <2>1. /\ c.variant = "face" /\ c.face \in Axis \X BOOLEAN /\ c.of \in Nat \ {0}
        /\ c.slice \in 0 .. c.of - 1 /\ (c.face[1] # 3 \/ c.of = 1)
    BY <1>3, <1>7 DEF FaceCall
  <2>2. PICK d \in Axis, fw \in BOOLEAN, n \in Nat \ {0}, s \in Nat :
          d = c.face[1] /\ fw = c.face[2] /\ n = c.of /\ s = c.slice /\ s \in 0 .. n - 1
    BY <2>1
  <2>3. x \in RunKernelPoints(DomainGetBoundary(L, d, fw, j.width, n, s))
    BY <1>1, <1>7, <2>1, <2>2 DEF Computes, DomainOf
  <2>4. Wide(L, j.width)
    BY <1>1, <1>3, <2>1, WideParts
  <2>5. d # 3 \/ n = 1
    BY <2>1, <2>2
  <2>6. Within(L, x) /\ AtFace(L, d, fw, j.width, x)
    <3>1. PICK w \in Nat : w = j.width
      BY <1>2
    <3>2. x \in RunKernelPoints(DomainGetBoundary(L, d, fw, w, n, s))
      BY <2>3, <3>1
    <3>3. Wide(L, w) /\ s \in 0 .. n - 1
      BY <2>2, <2>4, <3>1
    <3>4. Within(L, x) /\ AtFace(L, d, fw, w, x)
      BY ONLY <1>2, <2>5, <3>2, <3>3, SliceIs
    <3> QED BY <3>1, <3>4
  <2> QED BY <2>2, <2>6
<1> QED BY <1>1, <1>3, <1>4, <1>5, <1>6, <1>7 DEF InnerCall

LEMMA ComputesIn ==
  ASSUME NEW j, Known(j), WidthsFit, OneStage, DomainsWide, NEW p \in All(j),
         NEW i, IsLaunch(j, i), NEW x \in Computes(j, p, j.body[i])
  PROVE  Within(Part(j, p), x) /\ InPart(j, p, x) /\ InDom(j, x)
<1>1. InnerCall(j, i) \/ LastCall(j, i) \/ FaceCall(j, i)
  BY CallAt DEF IsLaunch
<1>2. CASE InnerCall(j, i)
  <2>1. x \in Vector /\ \A e \in Axis : /\ Part(j, p).lo[e] + j.width <= x[e]
                                        /\ x[e] < Part(j, p).hi[e] - j.width
    BY <1>2, ComputesIs
  <2>2. IsDomain(Part(j, p)) /\ j.width \in Nat
    BY PartIs, JobTypes
  <2>3. \A e \in Axis : Part(j, p).lo[e] \in Int /\ Part(j, p).hi[e] \in Int
    BY <2>2, Bounds
  <2>4. \A e \in Axis : x[e] \in Int
    BY <2>1, Vectors
  <2>5. Within(Part(j, p), x)
    BY <2>1, <2>2, <2>3, <2>4 DEF Within
  <2> QED BY <2>5, PartIs
<1>3. CASE LastCall(j, i)
  <2>1. j.body[i].variant = "normal" \/ j.body[i].variant = "boundary"
    BY <1>3 DEF LastCall
  <2>2. Within(Part(j, p), x)
    BY <2>1, ComputesIs
  <2> QED BY <2>2, PartIs
<1>4. CASE FaceCall(j, i)
  <2>1. Within(Part(j, p), x)
    BY <1>4, ComputesIs
  <2> QED BY <2>1, PartIs
<1> QED BY <1>1, <1>2, <1>3, <1>4

\* Between them, the kernels of a body compute every point.
LEMMA Covered ==
  ASSUME NEW j, Known(j), WidthsFit, OneStage, DomainsWide, NEW p \in All(j),
         NEW x, Within(Part(j, p), x)
  PROVE  \E i \in 1 .. Len(j.body) : IsLaunch(j, i) /\ x \in Computes(j, p, j.body[i])
<1>1. PICK L : L = Part(j, p)
  OBVIOUS
<1>2. /\ IsDomain(L) /\ j.width \in Nat /\ Within(L, x) /\ x \in Vector
      /\ \A e \in Axis : /\ L.lo[e] \in Int /\ L.hi[e] \in Int /\ x[e] \in Int
                         /\ L.lo[e] <= x[e] /\ x[e] < L.hi[e]
  <2>1. IsDomain(L) /\ j.width \in Nat /\ Within(L, x)
    BY <1>1, PartIs, JobTypes
  <2> QED BY <2>1, Bounds DEF Within
<1>3. Covering(j)
  BY BodyFacts DEF BodyOK
<1>4. CASE \E i \in 1 .. Len(j.body) : IsLaunch(j, i) /\ j.body[i].variant = "normal"
  <2>1. PICK i \in 1 .. Len(j.body) : IsLaunch(j, i) /\ j.body[i].variant = "normal"
    BY <1>4
  <2>2. x \in Computes(j, p, j.body[i])
    BY <2>1, ComputesIs
  <2> QED BY <2>1, <2>2
<1>5. CASE /\ IsLaunch(j, 1) /\ j.body[1].variant = "inner"
           /\ \A e \in Axis : L.lo[e] + j.width <= x[e] /\ x[e] < L.hi[e] - j.width
  <2>1. InnerCall(j, 1)
    BY <1>5, WideParts
  <2>2. x \in Computes(j, p, j.body[1])
    BY <1>1, <1>2, <1>5, <2>1, ComputesIs
  <2>3. 1 \in 1 .. Len(j.body)
    BY <1>5 DEF IsLaunch
  <2> QED BY <1>5, <2>2, <2>3
<1>6. CASE /\ IsLaunch(j, 1) /\ j.body[1].variant = "inner"
           /\ ~\A e \in Axis : L.lo[e] + j.width <= x[e] /\ x[e] < L.hi[e] - j.width
           /\ \E i \in 1 .. Len(j.body) : IsLaunch(j, i) /\ j.body[i].variant = "boundary"
  <2>1. PICK i \in 1 .. Len(j.body) : IsLaunch(j, i) /\ j.body[i].variant = "boundary"
    BY <1>6
  <2>2. x \in Computes(j, p, j.body[i])
    BY <1>1, <1>2, <1>6, <2>1, ComputesIs
  <2> QED BY <2>1, <2>2
<1>7. ASSUME IsLaunch(j, 1), j.body[1].variant = "inner",
             ~\A e \in Axis : L.lo[e] + j.width <= x[e] /\ x[e] < L.hi[e] - j.width,
             \A d \in Axis, fw \in BOOLEAN : \E n \in Nat \ {0} : Sliced(j, d, fw, n)
      PROVE  \E i \in 1 .. Len(j.body) : IsLaunch(j, i) /\ x \in Computes(j, p, j.body[i])
  <2>1. PICK d \in Axis : ~(L.lo[d] + j.width <= x[d] /\ x[d] < L.hi[d] - j.width)
    BY <1>7
  <2>2. PICK fw \in BOOLEAN : AtFace(L, d, fw, j.width, x)
    <3>1. AtFace(L, d, FALSE, j.width, x) \/ AtFace(L, d, TRUE, j.width, x)
      BY <1>2, <2>1 DEF AtFace
    <3> QED BY <3>1
  <2>3. PICK n \in Nat \ {0} : Sliced(j, d, fw, n)
    BY <1>7
  <2>4. PICK i \in 1 .. Len(j.body) :
          /\ IsLaunch(j, i) /\ j.body[i].variant = "face"
          /\ j.body[i].face = <<d, fw>> /\ j.body[i].slice = 0 /\ j.body[i].of = n
    <3>1. 0 \in 0 .. n - 1
      OBVIOUS
    <3> QED BY <2>3, <3>1 DEF Sliced
  <2>5. Wide(L, j.width)
    BY <1>1, <2>4, WideParts
  <2>6. PICK s \in 0 .. n - 1 : x \in RunKernelPoints(DomainGetBoundary(L, d, fw, j.width, n, s))
    <3>1. PICK w \in Nat : w = j.width
      BY <1>2
    <3>2. IsDomain(L) /\ Wide(L, w) /\ Within(L, x) /\ AtFace(L, d, fw, w, x) /\ (d # 3 \/ n = 1)
      BY <1>2, <2>2, <2>3, <2>5, <3>1 DEF Sliced
    <3>3. \E s \in 0 .. n - 1 : x \in RunKernelPoints(DomainGetBoundary(L, d, fw, w, n, s))
      BY ONLY <3>2, FaceCovered
    <3> QED BY <3>1, <3>3
  <2>7. PICK k \in 1 .. Len(j.body) :
          /\ IsLaunch(j, k) /\ j.body[k].variant = "face"
          /\ j.body[k].face = <<d, fw>> /\ j.body[k].slice = s /\ j.body[k].of = n
    BY <2>3 DEF Sliced
  <2>8. Computes(j, p, j.body[k]) = RunKernelPoints(DomainGetBoundary(L, d, fw, j.width, n, s))
    BY <1>1, <2>7 DEF Computes, DomainOf
  <2> QED BY <2>6, <2>7, <2>8
<1>8. CASE IsLaunch(j, 1) /\ j.body[1].variant = "inner" /\ j.width = 0
  <2>1. \A e \in Axis : L.lo[e] + j.width <= x[e] /\ x[e] < L.hi[e] - j.width
    BY <1>2, <1>8
  <2> QED BY <1>5, <1>8, <2>1
<1> QED BY <1>3, <1>4, <1>5, <1>6, <1>7, <1>8 DEF Covering

-----------------------------------------------------------------------------
(* From one call to the next.                                               *)

\* A process that is at a goes on to b: between them there is nothing to do.
Step(j, p, a, b) ==
  /\ a \in Nat /\ b \in Nat /\ a < b /\ b <= Len(j.body) + 1
  /\ b <= Len(j.body) => Does(j, p, j.body[b])
  /\ \A x \in 1 .. Len(j.body) : Does(j, p, j.body[x]) => (x < b <=> x <= a)

LEMMA NextIs ==
  ASSUME NEW j, Len(j.body) \in Nat, NEW p, NEW a \in Nat, a <= Len(j.body),
         NEW b, b = Min({k \in a + 1 .. Len(j.body) + 1 :
                           k = Len(j.body) + 1 \/ Does(j, p, j.body[k])})
  PROVE  Step(j, p, a, b)
<1>1. PICK T : T = {k \in a + 1 .. Len(j.body) + 1 :
                      k = Len(j.body) + 1 \/ Does(j, p, j.body[k])}
  OBVIOUS
<1>2. T \in SUBSET Nat
  BY <1>1
<1>3. Len(j.body) + 1 \in T
  BY <1>1
<1>4. T # {}
  BY <1>3
<1>5. b = Min(T)
  BY <1>1
<1>6. Min(T) \in T /\ \A n \in T : Min(T) <= n
  BY ONLY <1>2, <1>4, LeastOf
<1>7. b \in T /\ \A n \in T : b <= n
  BY <1>5, <1>6
<1>8. b \in Nat /\ a < b /\ b <= Len(j.body) + 1 /\ (b <= Len(j.body) => Does(j, p, j.body[b]))
  <2>1. b \in a + 1 .. Len(j.body) + 1 /\ (b = Len(j.body) + 1 \/ Does(j, p, j.body[b]))
    BY ONLY <1>1, <1>7
  <2>2. b \in Int /\ a + 1 <= b /\ b <= Len(j.body) + 1
    BY <2>1
  <2> QED BY <2>1, <2>2
<1>9. ASSUME NEW x \in 1 .. Len(j.body), Does(j, p, j.body[x]) PROVE x < b <=> x <= a
  <2>1. CASE x <= a
    BY <1>8, <2>1
  <2>2. CASE x > a
    <3>1. x \in T
      BY <1>1, <1>9, <2>2
    <3> QED BY <1>7, <1>8, <2>2, <3>1
  <2> QED BY <2>1, <2>2
<1> QED BY <1>8, <1>9 DEF Step

LEMMA NextCallIs ==
  ASSUME Known(job), OneStage, NEW p, NEW a \in Nat, a <= Len(job.body)
  PROVE  Step(job, p, a, NextCall(p, a + 1))
<1>1. PICK j : j = job
  OBVIOUS
<1>2. Len(j.body) \in Nat
  BY <1>1, BodyFacts DEF BodyOK
<1>3. PICK b : b = Min({k \in a + 1 .. Len(j.body) + 1 :
                          k = Len(j.body) + 1 \/ Does(j, p, j.body[k])})
  OBVIOUS
<1>4. Step(j, p, a, b)
  BY ONLY <1>1, <1>2, <1>3, NextIs, a \in Nat, a <= Len(job.body)
<1>5. b = NextCall(p, a + 1)
  BY <1>1, <1>3 DEF NextCall
<1> QED BY <1>1, <1>4, <1>5

\* The exchanges are in the body, if there are any.
LEMMA Exchanged ==
  ASSUME NEW j, Known(j), OneStage, j.width > 0, NEW d \in Axis
  PROVE  /\ WaitAt(j, d) \in 1 .. Len(j.body) - 1
         /\ j.body[WaitAt(j, d)].op = "wait" /\ j.body[WaitAt(j, d)].d = d
         /\ \A fw \in BOOLEAN :
              /\ SendAt(j, d, fw) \in 1 .. Len(j.body) - 1
              /\ RecvAt(j, d, fw) \in 1 .. Len(j.body) - 1
              /\ j.body[SendAt(j, d, fw)].op = "send" /\ j.body[SendAt(j, d, fw)].d = d
              /\ j.body[SendAt(j, d, fw)].fw = fw
              /\ j.body[RecvAt(j, d, fw)].op = "recv" /\ j.body[RecvAt(j, d, fw)].d = d
              /\ j.body[RecvAt(j, d, fw)].fw = fw
<1>1. /\ Len(j.body) \in Nat /\ WaitAt(j, 1) < Len(j.body) /\ j.body[WaitAt(j, d)] = Wait(d)
      /\ \A fw \in BOOLEAN : /\ j.body[SendAt(j, d, fw)] = Send(d, fw)
                             /\ j.body[RecvAt(j, d, fw)] = Recv(d, fw)
  BY BodyFacts DEF BodyOK
<1>2. ASSUME NEW fw \in BOOLEAN
      PROVE  /\ SendAt(j, d, fw) \in 1 .. Len(j.body) - 1
             /\ RecvAt(j, d, fw) \in 1 .. Len(j.body) - 1
             /\ WaitAt(j, d) \in 1 .. Len(j.body) - 1
  <2>1. PICK s, r, w, l, n : /\ s = SendAt(j, d, fw) /\ r = RecvAt(j, d, fw) /\ w = WaitAt(j, d)
                             /\ l = WaitAt(j, 1) /\ n = Len(j.body)
    OBVIOUS
  <2>2. s \in Nat /\ r \in Nat /\ w \in Nat /\ s >= 1 /\ r >= 1 /\ r < w /\ w <= l
    BY <2>1, Times
  <2>3. s < r
    BY <2>1, Times
  <2>4. l \in Nat
    BY <2>1, Times, Vectors
  <2>5. n \in Nat /\ l < n
    BY <1>1, <2>1
  <2>6. s \in 1 .. n - 1 /\ r \in 1 .. n - 1 /\ w \in 1 .. n - 1
    BY ONLY <2>2, <2>3, <2>4, <2>5
  <2> QED BY <2>1, <2>6
<1>3. WaitAt(j, d) \in 1 .. Len(j.body) - 1
  <2>1. TRUE \in BOOLEAN
    OBVIOUS
  <2> QED BY <1>2, <2>1
<1>4. j.body[WaitAt(j, d)].op = "wait" /\ j.body[WaitAt(j, d)].d = d
  BY <1>1, CallsAre
<1>5. ASSUME NEW fw \in BOOLEAN
      PROVE  /\ j.body[SendAt(j, d, fw)].op = "send" /\ j.body[SendAt(j, d, fw)].d = d
             /\ j.body[SendAt(j, d, fw)].fw = fw
             /\ j.body[RecvAt(j, d, fw)].op = "recv" /\ j.body[RecvAt(j, d, fw)].d = d
             /\ j.body[RecvAt(j, d, fw)].fw = fw
  BY <1>1, CallsAre
<1> QED BY <1>2, <1>3, <1>4, <1>5

LEMMA Wanted ==
  ASSUME NEW j, Known(j), NEW p, NEW d \in Axis, NEW fw \in BOOLEAN
  PROVE  Sends(j, p, d, fw) \/ Receives(j, p, d, fw) => j.width > 0
<1>1. WidthIn(j, d, fw) \in Nat /\ WidthIn(j, d, fw) <= j.width /\ j.width \in Nat
  BY JobTypes
<1>2. Sends(j, p, d, fw) \/ Receives(j, p, d, fw) => WidthIn(j, d, fw) > 0
  BY DEF Sends, Receives, WidthIn
<1> QED BY <1>1, <1>2

\* What a process has done when it goes on.
LEMMA StepPasses ==
  ASSUME NEW j, Known(j), OneStage, NEW p, NEW a, NEW b, Step(j, p, a, b)
  PROVE  /\ \A d \in Axis, fw \in BOOLEAN :
              /\ Sends(j, p, d, fw) => (SendAt(j, d, fw) < b <=> SendAt(j, d, fw) <= a)
              /\ Receives(j, p, d, fw) => (RecvAt(j, d, fw) < b <=> RecvAt(j, d, fw) <= a)
         /\ j.width > 0 => \A d \in Axis : WaitAt(j, d) < b <=> WaitAt(j, d) <= a
         /\ \A i : IsLaunch(j, i) => (i < b <=> i <= a)
<1>1. \A x \in 1 .. Len(j.body) : Does(j, p, j.body[x]) => (x < b <=> x <= a)
  BY DEF Step
<1>2. Len(j.body) \in Nat
  BY BodyFacts DEF BodyOK
<1>3. \A x \in 1 .. Len(j.body) - 1 : x \in 1 .. Len(j.body)
  BY <1>2
<1>4. ASSUME NEW d \in Axis, NEW fw \in BOOLEAN, Sends(j, p, d, fw)
      PROVE  SendAt(j, d, fw) < b <=> SendAt(j, d, fw) <= a
  <2>1. PICK x : x = SendAt(j, d, fw)
    OBVIOUS
  <2>2. x \in 1 .. Len(j.body) - 1 /\ j.body[x].op = "send" /\ j.body[x].d = d /\ j.body[x].fw = fw
    BY <1>4, <2>1, Wanted, Exchanged
  <2>3. Does(j, p, j.body[x])
    BY <1>4, <2>2 DEF Does
  <2>4. x < b <=> x <= a
    BY ONLY <1>1, <1>3, <2>2, <2>3
  <2> QED BY <2>1, <2>4
<1>5. ASSUME NEW d \in Axis, NEW fw \in BOOLEAN, Receives(j, p, d, fw)
      PROVE  RecvAt(j, d, fw) < b <=> RecvAt(j, d, fw) <= a
  <2>1. PICK x : x = RecvAt(j, d, fw)
    OBVIOUS
  <2>2. x \in 1 .. Len(j.body) - 1 /\ j.body[x].op = "recv" /\ j.body[x].d = d /\ j.body[x].fw = fw
    BY <1>5, <2>1, Wanted, Exchanged
  <2>3. Does(j, p, j.body[x])
    BY <1>5, <2>2 DEF Does
  <2>4. x < b <=> x <= a
    BY ONLY <1>1, <1>3, <2>2, <2>3
  <2> QED BY <2>1, <2>4
<1>6. ASSUME NEW d \in Axis, j.width > 0 PROVE WaitAt(j, d) < b <=> WaitAt(j, d) <= a
  <2>1. PICK x : x = WaitAt(j, d)
    OBVIOUS
  <2>2. x \in 1 .. Len(j.body) - 1 /\ j.body[x].op = "wait"
    BY <1>6, <2>1, Exchanged
  <2>3. Does(j, p, j.body[x])
    BY <2>2 DEF Does
  <2>4. x < b <=> x <= a
    BY ONLY <1>1, <1>3, <2>2, <2>3
  <2> QED BY <2>1, <2>4
<1>7. ASSUME NEW i, IsLaunch(j, i) PROVE i < b <=> i <= a
  <2>1. i \in 1 .. Len(j.body) /\ j.body[i].op = "launch"
    BY <1>7 DEF IsLaunch
  <2>2. Does(j, p, j.body[i])
    BY <2>1 DEF Does
  <2> QED BY <1>1, <2>1, <2>2
<1> QED BY <1>4, <1>5, <1>6, <1>7

-----------------------------------------------------------------------------
(* Messages in order.                                                       *)

\* What tells one message from q to p from the others: the map before which it
\* is sent, the dimension and the direction.
Key == [round: Nat, dim: Axis, fw: BOOLEAN]
KeyOf(r, d, fw) == [round |-> r, dim |-> d, fw |-> fw]

Earlier(k, m) ==
  \/ k.round < m.round
  \/ k.round = m.round /\ (k.dim > m.dim \/ (k.dim = m.dim /\ ~k.fw /\ m.fw))

\* Message k has been sent, or received, by a host that is at operation a of
\* round r.
Sent(j, r, a, k)  == k.round < r \/ (k.round = r /\ SendAt(j, k.dim, k.fw) < a)
Taken(j, r, a, k) == k.round < r \/ (k.round = r /\ RecvAt(j, k.dim, k.fw) < a)

\* What p receives.
MessageOf(j, p, k) == Message(HaloSeq(j, p, k.round, k.dim, k.fw), <<k.round % 2, k.dim, k.fw>>)

\* The messages of f are those in W, in order.
Lists(f, W) ==
  /\ f \in Seq(Key)
  /\ \A i \in 1 .. Len(f) : f[i] \in W
  /\ \A k \in W : \E i \in 1 .. Len(f) : f[i] = k
  /\ \A i, l \in 1 .. Len(f) : i < l => Earlier(f[i], f[l])
Bodies(j, p, f) == [i \in 1 .. Len(f) |-> MessageOf(j, p, f[i])]

LEMMA KeyFacts ==
  /\ \A r \in Nat, d \in Axis, fw \in BOOLEAN :
       /\ KeyOf(r, d, fw) \in Key
       /\ KeyOf(r, d, fw).round = r /\ KeyOf(r, d, fw).dim = d /\ KeyOf(r, d, fw).fw = fw
  /\ \A k \in Key : k.round \in Nat /\ k.dim \in Axis /\ k.fw \in BOOLEAN
  /\ \A k, m \in Key : k.round = m.round /\ k.dim = m.dim /\ k.fw = m.fw => k = m
BY DEF KeyOf, Key

LEMMA Order ==
  ASSUME NEW k \in Key, NEW m \in Key
  PROVE  /\ ~Earlier(k, k)
         /\ Earlier(k, m) \/ Earlier(m, k) \/ k = m
         /\ \A n \in Key : Earlier(k, m) /\ Earlier(m, n) => Earlier(k, n)
<1>1. /\ k.round \in Int /\ k.dim \in Int /\ k.fw \in BOOLEAN
      /\ m.round \in Int /\ m.dim \in Int /\ m.fw \in BOOLEAN
  BY DEF Key, Axis
<1>2. ~Earlier(k, k)
  BY <1>1 DEF Earlier
<1>3. k.round = m.round /\ k.dim = m.dim /\ k.fw = m.fw => k = m
  BY DEF Key
<1>4. Earlier(k, m) \/ Earlier(m, k) \/ k = m
  BY <1>1, <1>3 DEF Earlier
<1>5. ASSUME NEW n \in Key, Earlier(k, m), Earlier(m, n) PROVE Earlier(k, n)
  <2>1. n.round \in Int /\ n.dim \in Int /\ n.fw \in BOOLEAN
    BY DEF Key, Axis
  <2> QED BY <1>1, <1>5, <2>1 DEF Earlier
<1> QED BY <1>2, <1>4, <1>5

LEMMA ListsEmpty == Lists(<< >>, {})
BY DEF Lists

Adds(j, p, f, W, k) ==
  /\ Lists(Append(f, k), W \cup {k})
  /\ Bodies(j, p, Append(f, k)) = Append(Bodies(j, p, f), MessageOf(j, p, k))

LEMMA ListsAppend ==
  ASSUME NEW f, NEW W \in SUBSET Key, Lists(f, W), NEW k \in Key, \A m \in W : Earlier(m, k),
         NEW j, NEW p
  PROVE  Adds(j, p, f, W, k)
<1>1. /\ f \in Seq(Key) /\ Len(f) \in Nat
      /\ \A i \in 1 .. Len(f) : f[i] \in W
      /\ \A m \in W : \E i \in 1 .. Len(f) : f[i] = m
      /\ \A i, l \in 1 .. Len(f) : i < l => Earlier(f[i], f[l])
  BY DEF Lists
<1>2. PICK g : g = Append(f, k)
  OBVIOUS
<1>3. /\ g \in Seq(Key) /\ Len(g) = Len(f) + 1 /\ g[Len(f) + 1] = k
      /\ \A i \in 1 .. Len(f) : g[i] = f[i]
  BY <1>1, <1>2
<1>4. ASSUME NEW i \in 1 .. Len(g) PROVE g[i] \in W \cup {k}
  BY <1>1, <1>3
<1>5. ASSUME NEW m \in W \cup {k} PROVE \E i \in 1 .. Len(g) : g[i] = m
  <2>1. CASE m = k
    BY <1>1, <1>3, <2>1
  <2>2. CASE m \in W
    <3>1. PICK i \in 1 .. Len(f) : f[i] = m
      BY <1>1, <2>2
    <3>2. i \in 1 .. Len(g) /\ g[i] = m
      BY <1>1, <1>3, <3>1
    <3> QED BY <3>2
  <2> QED BY <2>1, <2>2
<1>6. ASSUME NEW i \in 1 .. Len(g), NEW l \in 1 .. Len(g), i < l PROVE Earlier(g[i], g[l])
  <2>1. i \in 1 .. Len(f)
    BY <1>1, <1>3, <1>6
  <2>2. CASE l = Len(f) + 1
    BY <1>1, <1>3, <2>1, <2>2
  <2>3. CASE l \in 1 .. Len(f)
    BY <1>1, <1>3, <1>6, <2>1, <2>3
  <2> QED BY <1>1, <1>3, <2>2, <2>3
<1>7. Lists(g, W \cup {k})
  BY <1>3, <1>4, <1>5, <1>6 DEF Lists
<1>8. PICK b : b = Bodies(j, p, f)
  OBVIOUS
<1>9. b = [i \in 1 .. Len(f) |-> MessageOf(j, p, f[i])]
  BY <1>8 DEF Bodies
<1>10. b \in Seq({MessageOf(j, p, m) : m \in Key}) /\ Len(b) = Len(f)
  <2>1. \A i \in 1 .. Len(f) : MessageOf(j, p, f[i]) \in {MessageOf(j, p, m) : m \in Key}
    BY <1>1
  <2> QED BY <1>1, <1>9, <2>1
<1>11. PICK m : m = MessageOf(j, p, k)
  OBVIOUS
<1>12. Bodies(j, p, g) = Append(b, m)
  <2>1. PICK c : c = Append(b, m)
    OBVIOUS
  <2>2. c \in Seq({MessageOf(j, p, n) : n \in Key}) /\ Len(c) = Len(f) + 1 /\ c[Len(f) + 1] = m
        /\ \A i \in 1 .. Len(f) : c[i] = b[i]
    BY <1>1, <1>10, <1>11, <2>1
  <2>3. DOMAIN c = 1 .. Len(f) + 1 /\ c = [i \in DOMAIN c |-> c[i]]
    BY <1>1, <2>2
  <2>4. \A i \in 1 .. Len(f) + 1 : c[i] = MessageOf(j, p, g[i])
    BY <1>1, <1>3, <1>9, <1>11, <2>2
  <2>5. c = [i \in 1 .. Len(g) |-> MessageOf(j, p, g[i])]
    BY <1>3, <2>3, <2>4
  <2> QED BY <2>1, <2>5 DEF Bodies
<1> QED BY <1>2, <1>7, <1>8, <1>11, <1>12 DEF Adds

LEMMA ListsTail ==
  ASSUME NEW f, NEW W \in SUBSET Key, Lists(f, W), NEW j, NEW p, Bodies(j, p, f) # << >>
  PROVE  /\ f[1] \in W /\ \A m \in W : m = f[1] \/ Earlier(f[1], m)
         /\ Head(Bodies(j, p, f)) = MessageOf(j, p, f[1])
         /\ Lists(Tail(f), W \ {f[1]})
         /\ Bodies(j, p, Tail(f)) = Tail(Bodies(j, p, f))
<1>1. /\ f \in Seq(Key) /\ Len(f) \in Nat
      /\ \A i \in 1 .. Len(f) : f[i] \in W
      /\ \A m \in W : \E i \in 1 .. Len(f) : f[i] = m
      /\ \A i, l \in 1 .. Len(f) : i < l => Earlier(f[i], f[l])
  BY DEF Lists
<1>2. PICK b : b = Bodies(j, p, f)
  OBVIOUS
<1>3. b = [i \in 1 .. Len(f) |-> MessageOf(j, p, f[i])] /\ b # << >>
  BY <1>2 DEF Bodies
<1>4. b \in Seq({MessageOf(j, p, m) : m \in Key}) /\ Len(b) = Len(f)
  <2>1. \A i \in 1 .. Len(f) : MessageOf(j, p, f[i]) \in {MessageOf(j, p, m) : m \in Key}
    BY <1>1
  <2> QED BY <1>1, <1>3, <2>1
<1>5. Len(f) > 0 /\ f # << >>
  BY <1>1, <1>3, <1>4
<1>6. f[1] \in W /\ Head(b) = MessageOf(j, p, f[1])
  BY <1>1, <1>3, <1>4, <1>5
<1>7. ASSUME NEW m \in W PROVE m = f[1] \/ Earlier(f[1], m)
  <2>1. PICK i \in 1 .. Len(f) : f[i] = m
    BY <1>1
  <2>2. CASE i = 1
    BY <2>1, <2>2
  <2>3. CASE i > 1
    BY <1>1, <1>5, <2>1, <2>3
  <2> QED BY <1>1, <2>2, <2>3
<1>8. PICK g : g = Tail(f)
  OBVIOUS
<1>9. /\ g \in Seq(Key) /\ Len(g) = Len(f) - 1
      /\ \A i \in 1 .. Len(f) - 1 : g[i] = f[i + 1] /\ i + 1 \in 1 .. Len(f)
  BY <1>1, <1>5, <1>8
<1>10. ASSUME NEW i \in 1 .. Len(g) PROVE g[i] \in W \ {f[1]}
  <2>1. g[i] = f[i + 1] /\ i + 1 \in 1 .. Len(f) /\ 1 < i + 1 /\ 1 \in 1 .. Len(f)
    BY <1>1, <1>5, <1>9
  <2>2. f[i + 1] \in W /\ Earlier(f[1], f[i + 1])
    BY <1>1, <2>1
  <2>3. ~Earlier(f[1], f[1])
    BY <1>6, Order
  <2> QED BY <2>1, <2>2, <2>3
<1>11. ASSUME NEW m \in W \ {f[1]} PROVE \E i \in 1 .. Len(g) : g[i] = m
  <2>1. PICK i \in 1 .. Len(f) : f[i] = m
    BY <1>1
  <2>2. i # 1
    BY <2>1
  <2>3. i - 1 \in 1 .. Len(g) /\ i - 1 \in 1 .. Len(f) - 1 /\ (i - 1) + 1 = i
    BY <1>1, <1>9, <2>2
  <2>4. g[i - 1] = m
    BY <1>9, <2>1, <2>3
  <2> QED BY <2>3, <2>4
<1>12. ASSUME NEW i \in 1 .. Len(g), NEW l \in 1 .. Len(g), i < l PROVE Earlier(g[i], g[l])
  <2>1. /\ i + 1 \in 1 .. Len(f) /\ l + 1 \in 1 .. Len(f) /\ i + 1 < l + 1
        /\ g[i] = f[i + 1] /\ g[l] = f[l + 1]
    BY <1>9, <1>12
  <2> QED BY <1>1, <2>1
<1>13. Lists(g, W \ {f[1]})
  BY <1>9, <1>10, <1>11, <1>12 DEF Lists
<1>14. Bodies(j, p, g) = Tail(b)
  <2>1. PICK c : c = Tail(b)
    OBVIOUS
  <2>2. c \in Seq({MessageOf(j, p, n) : n \in Key}) /\ Len(c) = Len(f) - 1
        /\ \A i \in 1 .. Len(f) - 1 : c[i] = b[i + 1]
    BY <1>3, <1>4, <2>1
  <2>3. DOMAIN c = 1 .. Len(f) - 1 /\ c = [i \in DOMAIN c |-> c[i]]
    BY <2>2
  <2>4. \A i \in 1 .. Len(f) - 1 : c[i] = MessageOf(j, p, g[i])
    BY <1>3, <1>9, <2>2
  <2>5. c = [i \in 1 .. Len(g) |-> MessageOf(j, p, g[i])]
    BY <1>9, <2>3, <2>4
  <2> QED BY <2>1, <2>5 DEF Bodies
<1> QED BY <1>2, <1>6, <1>7, <1>8, <1>13, <1>14

-----------------------------------------------------------------------------
(* What is on its way.                                                      *)

\* R and A have the round of every process and its place in the body.
Way(j, q, p, R, A) ==
  {k \in Key : /\ Slot(j, q, p, k.dim, k.fw)
               /\ Sent(j, R[q], A[q], k) /\ ~Taken(j, R[p], A[p], k)}
Chan(j, p, W, c) == \E f : Lists(f, W) /\ c = Bodies(j, p, f)

\* Nothing is received that has not been sent.
Causal(j, q, p, R, A) ==
  \A k \in Key : Slot(j, q, p, k.dim, k.fw) /\ Taken(j, R[p], A[p], k) => Sent(j, R[q], A[q], k)

\* What MPI_Isend has not copied is received before the end of the exchange.
Pressed(j, q, p, R, A) ==
  ~Eager => \A k \in Way(j, q, p, R, A) : k.round = R[q] /\ A[q] <= WaitAt(j, k.dim)

Msgs(j) == {MessageOf(j, p, k) : p \in All(j), k \in Key}

NetOK(j, R, A, n) ==
  /\ n \in [All(j) -> [All(j) -> Seq(Msgs(j))]]
  /\ \A q, p \in All(j) : /\ Chan(j, p, Way(j, q, p, R, A), n[q][p])
                          /\ Causal(j, q, p, R, A) /\ Pressed(j, q, p, R, A)

\* The messages of a round are sent and received in order.
LEMMA KeyOrder ==
  ASSUME NEW j, NEW k \in Key, NEW m \in Key, k.round = m.round
  PROVE  /\ Earlier(k, m) <=> SendAt(j, k.dim, k.fw) < SendAt(j, m.dim, m.fw)
         /\ Earlier(k, m) <=> RecvAt(j, k.dim, k.fw) < RecvAt(j, m.dim, m.fw)
<1>1. /\ k.round \in Nat /\ k.dim \in 1 .. 3 /\ k.fw \in BOOLEAN
      /\ m.round \in Nat /\ m.dim \in 1 .. 3 /\ m.fw \in BOOLEAN
  BY KeyFacts DEF Axis
<1>2. PICK c \in {0, 1} : \A d : ExchangeAt(j, d) = c + 5 * (3 - d)
  BY DEF ExchangeAt
<1>3. PICK d \in 1 .. 3, e \in 1 .. 3, u \in 0 .. 1, v \in 0 .. 1 :
        /\ d = k.dim /\ e = m.dim /\ (u = 1 <=> k.fw) /\ (v = 1 <=> m.fw)
        /\ SendAt(j, k.dim, k.fw) = c + 5 * (3 - d) + 1 + u
        /\ SendAt(j, m.dim, m.fw) = c + 5 * (3 - e) + 1 + v
        /\ RecvAt(j, k.dim, k.fw) = c + 5 * (3 - d) + 3 + u
        /\ RecvAt(j, m.dim, m.fw) = c + 5 * (3 - e) + 3 + v
  <2>1. PICK u \in 0 .. 1 : /\ u = 1 <=> k.fw
                            /\ SendAt(j, k.dim, k.fw) = c + 5 * (3 - k.dim) + 1 + u
                            /\ RecvAt(j, k.dim, k.fw) = c + 5 * (3 - k.dim) + 3 + u
    <3>1. CASE k.fw = TRUE
      BY <1>1, <1>2, <3>1 DEF SendAt, RecvAt
    <3>2. CASE k.fw = FALSE
      BY <1>1, <1>2, <3>2 DEF SendAt, RecvAt
    <3> QED BY <1>1, <3>1, <3>2
  <2>2. PICK v \in 0 .. 1 : /\ v = 1 <=> m.fw
                            /\ SendAt(j, m.dim, m.fw) = c + 5 * (3 - m.dim) + 1 + v
                            /\ RecvAt(j, m.dim, m.fw) = c + 5 * (3 - m.dim) + 3 + v
    <3>1. CASE m.fw = TRUE
      BY <1>1, <1>2, <3>1 DEF SendAt, RecvAt
    <3>2. CASE m.fw = FALSE
      BY <1>1, <1>2, <3>2 DEF SendAt, RecvAt
    <3> QED BY <1>1, <3>1, <3>2
  <2> QED BY <1>1, <2>1, <2>2
<1>4. Earlier(k, m) <=> d > e \/ (d = e /\ u = 0 /\ v = 1)
  BY <1>1, <1>3 DEF Earlier
<1>5. /\ d > e \/ (d = e /\ u = 0 /\ v = 1) <=>
           c + 5 * (3 - d) + 1 + u < c + 5 * (3 - e) + 1 + v
      /\ d > e \/ (d = e /\ u = 0 /\ v = 1) <=>
           c + 5 * (3 - d) + 3 + u < c + 5 * (3 - e) + 3 + v
  BY ONLY <1>3, c \in {0, 1}
<1> QED BY <1>3, <1>4, <1>5

\* The host is at a call o of the exchange, for message k.
OpAt(j, a, o, r, k) ==
  /\ a \in 1 .. Len(j.body) /\ j.body[a].op = o
  /\ k.round = r /\ k.dim = j.body[a].d /\ k.fw = j.body[a].fw

\* The host of p goes from a to b, in the same round or into the next one.
Goes(j, p, r, a, r2, b) ==
  /\ r \in Nat
  /\ \/ r2 = r /\ a \in 1 .. Len(j.body) /\ Step(j, p, a, b)
     \/ r2 = r + 1 /\ a = Len(j.body) + 1 /\ Step(j, p, 0, b)

\* Nothing happens twice in a round.
LEMMA SentBy ==
  ASSUME NEW j, Known(j), OneStage, NEW p, NEW r, NEW a, NEW r2, NEW b, Goes(j, p, r, a, r2, b),
         NEW k \in Key, Sends(j, p, k.dim, k.fw)
  PROVE  Sent(j, r2, b, k) <=> Sent(j, r, a, k) \/ OpAt(j, a, "send", r, k)
<1>1. k.round \in Nat /\ k.dim \in Axis /\ k.fw \in BOOLEAN /\ r \in Nat
  BY KeyFacts DEF Goes
<1>2. PICK x : x = SendAt(j, k.dim, k.fw)
  OBVIOUS
<1>3. j.width > 0
  BY <1>1, Wanted
<1>4. /\ x \in 1 .. Len(j.body) - 1 /\ Len(j.body) \in Nat
      /\ j.body[x].op = "send" /\ j.body[x].d = k.dim /\ j.body[x].fw = k.fw
  <2>1. Len(j.body) \in Nat
    BY BodyFacts DEF BodyOK
  <2>2. x \in 1 .. Len(j.body) - 1
    BY <1>1, <1>2, <1>3, Exchanged
  <2>3. j.body[x].op = "send" /\ j.body[x].d = k.dim /\ j.body[x].fw = k.fw
    BY <1>1, <1>2, <1>3, Exchanged
  <2> QED BY <2>1, <2>2, <2>3
<1>5. /\ Sent(j, r2, b, k) <=> k.round < r2 \/ (k.round = r2 /\ x < b)
      /\ Sent(j, r, a, k) <=> k.round < r \/ (k.round = r /\ x < a)
  BY <1>2, Zenon DEF Sent
<1>6. CASE r2 = r /\ a \in 1 .. Len(j.body) /\ Step(j, p, a, b)
  <2>1. x < b <=> x <= a
    BY <1>1, <1>2, <1>6, StepPasses
  <2>2. OpAt(j, a, "send", r, k) <=> k.round = r /\ x = a
    <3>1. ASSUME OpAt(j, a, "send", r, k) PROVE k.round = r /\ x = a
      <4>1. a = SendAt(j, j.body[a].d, j.body[a].fw)
        BY <3>1, CallAt DEF OpAt
      <4> QED BY <1>2, <3>1, <4>1 DEF OpAt
    <3>2. ASSUME k.round = r, x = a PROVE OpAt(j, a, "send", r, k)
      BY <1>4, <1>6, <3>2 DEF OpAt
    <3> QED BY <3>1, <3>2
  <2>3. a \in Nat /\ x \in Nat /\ b \in Nat
    BY <1>4, <1>6 DEF Step
  <2> QED BY ONLY <1>1, <1>5, <1>6, <2>1, <2>2, <2>3
<1>7. CASE r2 = r + 1 /\ a = Len(j.body) + 1 /\ Step(j, p, 0, b)
  <2>1. x < b <=> x <= 0
    BY <1>1, <1>2, <1>7, StepPasses
  <2>2. ~OpAt(j, a, "send", r, k)
    BY <1>4, <1>7 DEF OpAt
  <2> QED BY ONLY <1>1, <1>4, <1>5, <1>7, <2>1, <2>2
<1> QED BY <1>6, <1>7 DEF Goes

LEMMA TakenBy ==
  ASSUME NEW j, Known(j), OneStage, NEW p, NEW r, NEW a, NEW r2, NEW b, Goes(j, p, r, a, r2, b),
         NEW k \in Key, Receives(j, p, k.dim, k.fw)
  PROVE  Taken(j, r2, b, k) <=> Taken(j, r, a, k) \/ OpAt(j, a, "recv", r, k)
<1>1. k.round \in Nat /\ k.dim \in Axis /\ k.fw \in BOOLEAN /\ r \in Nat
  BY KeyFacts DEF Goes
<1>2. PICK x : x = RecvAt(j, k.dim, k.fw)
  OBVIOUS
<1>3. j.width > 0
  BY <1>1, Wanted
<1>4. /\ x \in 1 .. Len(j.body) - 1 /\ Len(j.body) \in Nat
      /\ j.body[x].op = "recv" /\ j.body[x].d = k.dim /\ j.body[x].fw = k.fw
  <2>1. Len(j.body) \in Nat
    BY BodyFacts DEF BodyOK
  <2>2. x \in 1 .. Len(j.body) - 1
    BY <1>1, <1>2, <1>3, Exchanged
  <2>3. j.body[x].op = "recv" /\ j.body[x].d = k.dim /\ j.body[x].fw = k.fw
    BY <1>1, <1>2, <1>3, Exchanged
  <2> QED BY <2>1, <2>2, <2>3
<1>5. /\ Taken(j, r2, b, k) <=> k.round < r2 \/ (k.round = r2 /\ x < b)
      /\ Taken(j, r, a, k) <=> k.round < r \/ (k.round = r /\ x < a)
  BY <1>2, Zenon DEF Taken
<1>6. CASE r2 = r /\ a \in 1 .. Len(j.body) /\ Step(j, p, a, b)
  <2>1. x < b <=> x <= a
    BY <1>1, <1>2, <1>6, StepPasses
  <2>2. OpAt(j, a, "recv", r, k) <=> k.round = r /\ x = a
    <3>1. ASSUME OpAt(j, a, "recv", r, k) PROVE k.round = r /\ x = a
      <4>1. a = RecvAt(j, j.body[a].d, j.body[a].fw)
        BY <3>1, CallAt DEF OpAt
      <4> QED BY <1>2, <3>1, <4>1 DEF OpAt
    <3>2. ASSUME k.round = r, x = a PROVE OpAt(j, a, "recv", r, k)
      BY <1>4, <1>6, <3>2 DEF OpAt
    <3> QED BY <3>1, <3>2
  <2>3. a \in Nat /\ x \in Nat /\ b \in Nat
    BY <1>4, <1>6 DEF Step
  <2> QED BY ONLY <1>1, <1>5, <1>6, <2>1, <2>2, <2>3
<1>7. CASE r2 = r + 1 /\ a = Len(j.body) + 1 /\ Step(j, p, 0, b)
  <2>1. x < b <=> x <= 0
    BY <1>1, <1>2, <1>7, StepPasses
  <2>2. ~OpAt(j, a, "recv", r, k)
    BY <1>4, <1>7 DEF OpAt
  <2> QED BY ONLY <1>1, <1>4, <1>5, <1>7, <2>1, <2>2
<1> QED BY <1>6, <1>7 DEF Goes

\* Process p goes on, the others stay where they are.
Moves(j, p, R, A, R2, A2) ==
  /\ p \in All(j) /\ Goes(j, p, R[p], A[p], R2[p], A2[p])
  /\ \A q \in All(j) : q # p => R2[q] = R[q] /\ A2[q] = A[q]

LEMMA MovesSent ==
  ASSUME NEW j, Known(j), WidthsFit, OneStage, NEW p, NEW R, NEW A, NEW R2, NEW A2,
         Moves(j, p, R, A, R2, A2), NEW s \in All(j), NEW t \in All(j), NEW k \in Key,
         Slot(j, s, t, k.dim, k.fw)
  PROVE  /\ Sent(j, R2[s], A2[s], k) <=>
              Sent(j, R[s], A[s], k) \/ (s = p /\ OpAt(j, A[p], "send", R[p], k))
         /\ Taken(j, R2[t], A2[t], k) <=>
              Taken(j, R[t], A[t], k) \/ (t = p /\ OpAt(j, A[p], "recv", R[p], k))
<1>1. k.dim \in Axis /\ k.fw \in BOOLEAN
  BY KeyFacts
<1>2. Sends(j, s, k.dim, k.fw)
  BY <1>1, Slots
<1>3. Receives(j, t, k.dim, k.fw)
  BY DEF Slot
<1>4. Goes(j, p, R[p], A[p], R2[p], A2[p]) /\ \A q \in All(j) : q # p => R2[q] = R[q] /\ A2[q] = A[q]
  BY DEF Moves
<1>5. Sent(j, R2[s], A2[s], k) <=>
        Sent(j, R[s], A[s], k) \/ (s = p /\ OpAt(j, A[p], "send", R[p], k))
  <2>1. CASE s = p
    <3>1. PICK r, a, r2, b : r = R[p] /\ a = A[p] /\ r2 = R2[p] /\ b = A2[p]
      OBVIOUS
    <3>2. Goes(j, p, r, a, r2, b) /\ Sends(j, p, k.dim, k.fw)
      BY <1>2, <1>4, <2>1, <3>1
    <3>3. Sent(j, r2, b, k) <=> Sent(j, r, a, k) \/ OpAt(j, a, "send", r, k)
      BY <3>2, SentBy
    <3> QED BY <2>1, <3>1, <3>3
  <2>2. CASE s # p
    BY <1>4, <2>2
  <2> QED BY <2>1, <2>2
<1>6. Taken(j, R2[t], A2[t], k) <=>
        Taken(j, R[t], A[t], k) \/ (t = p /\ OpAt(j, A[p], "recv", R[p], k))
  <2>1. CASE t = p
    <3>1. PICK r, a, r2, b : r = R[p] /\ a = A[p] /\ r2 = R2[p] /\ b = A2[p]
      OBVIOUS
    <3>2. Goes(j, p, r, a, r2, b) /\ Receives(j, p, k.dim, k.fw)
      BY <1>3, <1>4, <2>1, <3>1
    <3>3. Taken(j, r2, b, k) <=> Taken(j, r, a, k) \/ OpAt(j, a, "recv", r, k)
      BY <3>2, TakenBy
    <3> QED BY <2>1, <3>1, <3>3
  <2>2. CASE t # p
    BY <1>4, <2>2
  <2> QED BY <2>1, <2>2
<1> QED BY <1>5, <1>6

\* Where the host of p goes to is not behind the end of an exchange that it has
\* not come to.
LEMMA WaitAhead ==
  ASSUME NEW j, Known(j), OneStage, NEW p, NEW r, NEW a, NEW r2, NEW b, Goes(j, p, r, a, r2, b),
         j.width > 0, NEW d \in Axis, a <= WaitAt(j, d),
         a \in 1 .. Len(j.body) => ~(j.body[a].op = "wait" /\ j.body[a].d = d)
  PROVE  r2 = r /\ b <= WaitAt(j, d)
<1>1. PICK w : w = WaitAt(j, d)
  OBVIOUS
<1>2. Len(j.body) \in Nat
  BY BodyFacts DEF BodyOK
<1>3. w \in 1 .. Len(j.body) - 1 /\ j.body[w].op = "wait" /\ j.body[w].d = d
  BY <1>1, Exchanged
<1>4. a <= w
  BY <1>1
<1>5. r2 = r /\ a \in 1 .. Len(j.body) /\ Step(j, p, a, b)
  <2>1. a # Len(j.body) + 1
    BY ONLY <1>2, <1>3, <1>4
  <2> QED BY <2>1 DEF Goes
<1>6. a # w
  BY <1>3, <1>5
<1>7. w < b <=> w <= a
  BY <1>1, <1>5, StepPasses
<1>8. b \in Nat
  BY <1>5 DEF Step
<1>9. b <= w
  BY ONLY <1>2, <1>3, <1>4, <1>5, <1>6, <1>7, <1>8
<1> QED BY <1>1, <1>5, <1>9

LEMMA WayIs ==
  ASSUME NEW j, NEW q, NEW p, NEW R, NEW A, NEW k
  PROVE  /\ k \in Way(j, q, p, R, A) <=>
              /\ k \in Key /\ Slot(j, q, p, k.dim, k.fw)
              /\ Sent(j, R[q], A[q], k) /\ ~Taken(j, R[p], A[p], k)
         /\ Way(j, q, p, R, A) \in SUBSET Key
BY DEF Way

\* The host of p does not end the exchange while something that it has sent is
\* on its way.
NotEnded(j, p, R, A) ==
  ~Eager => \A t \in All(j) : \A k \in Way(j, p, t, R, A) :
    A[p] \in 1 .. Len(j.body) => ~(j.body[A[p]].op = "wait" /\ j.body[A[p]].d = k.dim)

\* What is on its way after a step, if that is no more than before or what the
\* step itself has sent.
LEMMA StillPressed ==
  ASSUME NEW j, Known(j), WidthsFit, OneStage, NEW p, NEW R, NEW A, NEW R2, NEW A2,
         Moves(j, p, R, A, R2, A2), NEW s \in All(j), NEW t \in All(j), Pressed(j, s, t, R, A),
         NotEnded(j, p, R, A)
  PROVE  Pressed(j, s, t, R2, A2)
<1>1. SUFFICES ASSUME ~Eager, NEW k \in Way(j, s, t, R2, A2)
               PROVE  k.round = R2[s] /\ A2[s] <= WaitAt(j, k.dim)
  BY DEF Pressed
<1>2. k \in Key /\ Slot(j, s, t, k.dim, k.fw) /\ Sent(j, R2[s], A2[s], k) /\ ~Taken(j, R2[t], A2[t], k)
  BY WayIs
<1>3. k.dim \in Axis /\ k.fw \in BOOLEAN
  BY <1>2, KeyFacts
<1>4. Sends(j, s, k.dim, k.fw) /\ j.width > 0
  <2>1. Sends(j, s, k.dim, k.fw)
    BY <1>2, <1>3, Slots
  <2> QED BY <1>3, <2>1, Wanted
<1>5. /\ p \in All(j) /\ Goes(j, p, R[p], A[p], R2[p], A2[p])
      /\ \A q \in All(j) : q # p => R2[q] = R[q] /\ A2[q] = A[q]
  BY DEF Moves
<1>6. ~Taken(j, R[t], A[t], k)
  BY <1>2, MovesSent
<1>7. CASE s = p /\ OpAt(j, A[p], "send", R[p], k)
  <2>1. PICK r, a, r2, b : r = R[p] /\ a = A[p] /\ r2 = R2[p] /\ b = A2[p]
    OBVIOUS
  <2>2. Goes(j, p, r, a, r2, b) /\ OpAt(j, a, "send", r, k)
    BY <1>5, <1>7, <2>1
  <2>3. a \in 1 .. Len(j.body) /\ j.body[a].op = "send" /\ k.round = r /\ k.dim = j.body[a].d
        /\ k.fw = j.body[a].fw
    BY <2>2 DEF OpAt
  <2>4. a <= WaitAt(j, k.dim)
    <3>1. a = SendAt(j, k.dim, k.fw)
      BY <2>3, CallAt
    <3>2. PICK x, y, w : x = SendAt(j, k.dim, k.fw) /\ y = RecvAt(j, k.dim, k.fw) /\ w = WaitAt(j, k.dim)
      OBVIOUS
    <3>3. x \in Nat /\ y \in Nat /\ w \in Nat /\ x < y /\ y < w
      BY <1>3, <3>2, Times
    <3> QED BY ONLY <3>1, <3>2, <3>3
  <2>5. r2 = r /\ b <= WaitAt(j, k.dim)
    BY <1>3, <1>4, <2>2, <2>3, <2>4, WaitAhead
  <2> QED BY <1>7, <2>1, <2>3, <2>5
<1>8. CASE ~(s = p /\ OpAt(j, A[p], "send", R[p], k))
  <2>1. Sent(j, R[s], A[s], k)
    BY <1>2, <1>8, MovesSent
  <2>2. k \in Way(j, s, t, R, A)
    BY <1>2, <1>6, <2>1, WayIs
  <2>3. k.round = R[s] /\ A[s] <= WaitAt(j, k.dim)
    BY <1>1, <2>2 DEF Pressed
  <2>4. CASE s = p
    <3>1. PICK r, a, r2, b : r = R[p] /\ a = A[p] /\ r2 = R2[p] /\ b = A2[p]
      OBVIOUS
    <3>2. Goes(j, p, r, a, r2, b) /\ a <= WaitAt(j, k.dim) /\ k.round = r
      BY <1>5, <2>3, <2>4, <3>1
    <3>3. a \in 1 .. Len(j.body) => ~(j.body[a].op = "wait" /\ j.body[a].d = k.dim)
      BY <1>1, <2>2, <2>4, <3>1 DEF NotEnded
    <3>4. r2 = r /\ b <= WaitAt(j, k.dim)
      BY <1>3, <1>4, <3>2, <3>3, WaitAhead
    <3> QED BY <2>4, <3>1, <3>2, <3>4
  <2>5. CASE s # p
    BY <1>5, <2>3, <2>5
  <2> QED BY <2>4, <2>5
<1> QED BY <1>7, <1>8

\* A network of which one channel changes.
LEMMA NetUpdate ==
  ASSUME NEW P, NEW S, NEW n \in [P -> [P -> S]], NEW q \in P, NEW p \in P,
         NEW c \in S, NEW n2, n2 = [n EXCEPT ![q][p] = c]
  PROVE  /\ n2 \in [P -> [P -> S]] /\ n2[q][p] = c
         /\ \A s, t \in P : s # q \/ t # p => n2[s][t] = n[s][t]
<1>1. PICK row : row = [n[q] EXCEPT ![p] = c]
  OBVIOUS
<1>2. n[q] \in [P -> S]
  OBVIOUS
<1>3. row \in [P -> S] /\ row[p] = c /\ \A t \in P : t # p => row[t] = n[q][t]
  BY ONLY <1>1, <1>2, p \in P, c \in S
<1>4. n2 = [n EXCEPT ![q] = row]
  BY <1>1
<1>5. n2 \in [P -> [P -> S]] /\ n2[q] = row
  BY <1>3, <1>4
<1>6. \A s \in P : s # q => n2[s] = n[s]
  BY <1>4
<1>7. ASSUME NEW s \in P, NEW t \in P, s # q \/ t # p PROVE n2[s][t] = n[s][t]
  <2>1. CASE s = q
    BY <1>3, <1>5, <1>7, <2>1
  <2>2. CASE s # q
    BY <1>6, <2>2
  <2> QED BY <2>1, <2>2
<1> QED BY <1>3, <1>5, <1>7

LEMMA NetQuiet ==
  ASSUME NEW j, Known(j), WidthsFit, OneStage, NEW p, NEW R, NEW A, NEW R2, NEW A2,
         Moves(j, p, R, A, R2, A2), NEW n, NetOK(j, R, A, n), NotEnded(j, p, R, A),
         A[p] \in 1 .. Len(j.body) => j.body[A[p]].op \notin {"send", "recv"}
  PROVE  NetOK(j, R2, A2, n)
<1>1. \A k : ~OpAt(j, A[p], "send", R[p], k) /\ ~OpAt(j, A[p], "recv", R[p], k)
  BY DEF OpAt
<1>2. ASSUME NEW s \in All(j), NEW t \in All(j)
      PROVE  /\ Chan(j, t, Way(j, s, t, R2, A2), n[s][t])
             /\ Causal(j, s, t, R2, A2) /\ Pressed(j, s, t, R2, A2)
  <2>1. /\ Chan(j, t, Way(j, s, t, R, A), n[s][t])
        /\ Causal(j, s, t, R, A) /\ Pressed(j, s, t, R, A)
    BY DEF NetOK
  <2>2. ASSUME NEW k \in Key, Slot(j, s, t, k.dim, k.fw)
        PROVE  /\ Sent(j, R2[s], A2[s], k) <=> Sent(j, R[s], A[s], k)
               /\ Taken(j, R2[t], A2[t], k) <=> Taken(j, R[t], A[t], k)
    BY <1>1, <2>2, MovesSent
  <2>3. Way(j, s, t, R2, A2) = Way(j, s, t, R, A)
    BY <2>2 DEF Way
  <2>4. Causal(j, s, t, R2, A2)
    BY <2>1, <2>2 DEF Causal
  <2>5. Pressed(j, s, t, R2, A2)
    BY <2>1, StillPressed
  <2> QED BY <2>1, <2>3, <2>4, <2>5
<1> QED BY <1>2 DEF NetOK

\* The host sends message k to q.
LEMMA NetSend ==
  ASSUME NEW j, Known(j), WidthsFit, OneStage, NEW p, NEW R, NEW A, NEW R2, NEW A2,
         Moves(j, p, R, A, R2, A2), NEW n, NetOK(j, R, A, n), NotEnded(j, p, R, A),
         NEW k \in Key, OpAt(j, A[p], "send", R[p], k), NEW q \in All(j), Slot(j, p, q, k.dim, k.fw),
         NEW n2, n2 = Put(n, p, q, MessageOf(j, q, k))
  PROVE  NetOK(j, R2, A2, n2)
<1>1. /\ p \in All(j) /\ n \in [All(j) -> [All(j) -> Seq(Msgs(j))]]
      /\ \A s, t \in All(j) : /\ Chan(j, t, Way(j, s, t, R, A), n[s][t])
                              /\ Causal(j, s, t, R, A) /\ Pressed(j, s, t, R, A)
  BY DEF Moves, NetOK
<1>2. A[p] \in 1 .. Len(j.body) /\ j.body[A[p]].op = "send" /\ k.round = R[p]
      /\ k.dim = j.body[A[p]].d /\ k.fw = j.body[A[p]].fw
  BY DEF OpAt
<1>19. ASSUME NEW l \in Key
       PROVE  Sent(j, R[p], A[p], l) <=>
                \/ l.round < k.round
                \/ l.round = k.round /\ SendAt(j, l.dim, l.fw) < SendAt(j, k.dim, k.fw)
  <2>1. PICK x, a : x = SendAt(j, k.dim, k.fw) /\ a = A[p]
    OBVIOUS
  <2>2. OpAt(j, a, "send", R[p], k)
    BY <2>1
  <2>3. x = a
    BY <2>1, <2>2, CallAt DEF OpAt
  <2>4. Sent(j, R[p], a, l) <=> l.round < R[p] \/ (l.round = R[p] /\ SendAt(j, l.dim, l.fw) < a)
    BY DEF Sent
  <2>5. R[p] = k.round
    BY <1>2
  <2> QED BY ONLY <2>1, <2>3, <2>4, <2>5, Zenon
<1>3. PICK m : m = MessageOf(j, q, k)
  OBVIOUS
<1>4. m \in Msgs(j)
  BY <1>3 DEF Msgs
<1>5. PICK c : c = Append(n[p][q], m)
  OBVIOUS
<1>6. c \in Seq(Msgs(j))
  <2>1. n[p][q] \in Seq(Msgs(j))
    BY <1>1
  <2> QED BY <1>4, <1>5, <2>1
<1>7. n2 = [n EXCEPT ![p][q] = c]
  BY <1>1, <1>3, <1>5 DEF Put
<1>8. /\ n2 \in [All(j) -> [All(j) -> Seq(Msgs(j))]] /\ n2[p][q] = c
      /\ \A s, t \in All(j) : s # p \/ t # q => n2[s][t] = n[s][t]
  <2>1. PICK P, S : P = All(j) /\ S = Seq(Msgs(j))
    OBVIOUS
  <2>2. n \in [P -> [P -> S]] /\ p \in P /\ q \in P /\ c \in S
    BY <1>1, <1>6, <2>1
  <2>3. /\ n2 \in [P -> [P -> S]] /\ n2[p][q] = c
        /\ \A s, t \in P : s # p \/ t # q => n2[s][t] = n[s][t]
    BY ONLY <1>7, <2>2, NetUpdate
  <2> QED BY <2>1, <2>3
<1>9. \A m2 : ~OpAt(j, A[p], "recv", R[p], m2)
  BY <1>2 DEF OpAt
<1>10. ASSUME NEW l \in Key, OpAt(j, A[p], "send", R[p], l) PROVE l = k
  <2>1. l.round = k.round /\ l.dim = k.dim /\ l.fw = k.fw
    BY <1>2, <1>10 DEF OpAt
  <2> QED BY <2>1, KeyFacts
<1>11. ASSUME NEW t \in All(j), Slot(j, p, t, k.dim, k.fw) PROVE t = q
  <2>1. k.dim \in Axis /\ k.fw \in BOOLEAN
    BY KeyFacts
  <2>2. t = To(j, p, k.dim, k.fw)
    BY <1>1, <1>11, <2>1, Slots
  <2>3. q = To(j, p, k.dim, k.fw)
    BY <1>1, <2>1, Slots
  <2> QED BY <2>2, <2>3
<1>12. ASSUME NEW s \in All(j), NEW t \in All(j), NEW l \in Key, Slot(j, s, t, l.dim, l.fw)
       PROVE  /\ Sent(j, R2[s], A2[s], l) <=> Sent(j, R[s], A[s], l) \/ (s = p /\ l = k)
              /\ Taken(j, R2[t], A2[t], l) <=> Taken(j, R[t], A[t], l)
  BY <1>9, <1>10, <1>12, MovesSent
<1>13. Sent(j, R2[p], A2[p], k)
  BY <1>1, <1>12
<1>14. ~Sent(j, R[p], A[p], k)
  <2>1. k.round \in Nat /\ k.dim \in Axis /\ k.fw \in BOOLEAN
    BY KeyFacts
  <2>2. PICK x : x = SendAt(j, k.dim, k.fw)
    OBVIOUS
  <2>3. x \in Nat
    BY <2>1, <2>2, Times
  <2>4. ~(k.round < k.round) /\ ~(x < x)
    BY ONLY <2>1, <2>3
  <2> QED BY <1>19, <2>2, <2>4
<1>15. ASSUME NEW s \in All(j), NEW t \in All(j) PROVE Causal(j, s, t, R2, A2)
  <2>1. Causal(j, s, t, R, A)
    BY <1>1
  <2> QED BY <1>12, <2>1 DEF Causal
<1>16. ASSUME NEW s \in All(j), NEW t \in All(j) PROVE Pressed(j, s, t, R2, A2)
  <2>1. Pressed(j, s, t, R, A)
    BY <1>1
  <2> QED BY <2>1, StillPressed
<1>17. ASSUME NEW s \in All(j), NEW t \in All(j), s # p \/ t # q
       PROVE  Chan(j, t, Way(j, s, t, R2, A2), n2[s][t])
  <2>1. Way(j, s, t, R2, A2) = Way(j, s, t, R, A)
    <3>1. ASSUME NEW l \in Key, Slot(j, s, t, l.dim, l.fw) PROVE ~(s = p /\ l = k)
      BY <1>11, <1>17, <3>1
    <3> QED BY <1>12, <3>1 DEF Way
  <2> QED BY <1>1, <1>8, <1>17, <2>1
<1>18. Chan(j, q, Way(j, p, q, R2, A2), n2[p][q])
  <2>1. PICK W : W = Way(j, p, q, R, A)
    OBVIOUS
  <2>2. ~Taken(j, R[q], A[q], k)
    <3>1. Causal(j, p, q, R, A)
      BY <1>1
    <3> QED BY <1>14, <3>1 DEF Causal
  <2>3. Way(j, p, q, R2, A2) = W \cup {k}
    BY <1>1, <1>12, <1>13, <2>1, <2>2 DEF Way
  <2>4. W \in SUBSET Key
    BY <2>1, WayIs
  <2>5. ASSUME NEW l \in W PROVE Earlier(l, k)
    <3>1. l \in Key /\ Sent(j, R[p], A[p], l)
      BY <2>1, <2>5, WayIs
    <3>2. l.round \in Nat /\ k.round \in Nat
      BY <3>1, KeyFacts
    <3>3. CASE l.round < k.round
      BY <3>3 DEF Earlier
    <3>4. CASE l.round = k.round /\ SendAt(j, l.dim, l.fw) < SendAt(j, k.dim, k.fw)
      BY <3>1, <3>4, KeyOrder
    <3> QED BY <1>19, <3>1, <3>3, <3>4
  <2>6. Chan(j, q, W, n[p][q])
    BY <1>1, <2>1
  <2>7. PICK f : Lists(f, W) /\ n[p][q] = Bodies(j, q, f)
    BY <2>6 DEF Chan
  <2>8. /\ Lists(Append(f, k), W \cup {k})
        /\ Bodies(j, q, Append(f, k)) = Append(Bodies(j, q, f), MessageOf(j, q, k))
    <3>1. \A l \in W : Earlier(l, k)
      BY <2>5
    <3>2. Adds(j, q, f, W, k)
      BY ONLY <2>4, <2>7, <3>1, ListsAppend, k \in Key
    <3> QED BY <3>2 DEF Adds
  <2>9. c = Bodies(j, q, Append(f, k))
    BY <1>3, <1>5, <2>7, <2>8
  <2> QED BY <1>8, <2>3, <2>8, <2>9 DEF Chan
<1> QED BY <1>8, <1>15, <1>16, <1>17, <1>18 DEF NetOK

\* The host receives a message of q.
LEMMA NetReceive ==
  ASSUME NEW j, Known(j), WidthsFit, OneStage, NEW p, NEW R, NEW A, NEW R2, NEW A2,
         Moves(j, p, R, A, R2, A2), NEW n, NetOK(j, R, A, n), NotEnded(j, p, R, A),
         \A s \in All(j) : R[s] \in Nat /\ A[s] \in Nat,
         NEW k \in Key, OpAt(j, A[p], "recv", R[p], k), NEW q \in All(j), Slot(j, q, p, k.dim, k.fw),
         Pending(n, q, p), NEW n2, n2 = Drop(n, q, p)
  PROVE  /\ Oldest(n, q, p) = MessageOf(j, p, k)
         /\ NetOK(j, R2, A2, n2)
<1>1. /\ p \in All(j) /\ n \in [All(j) -> [All(j) -> Seq(Msgs(j))]]
      /\ \A s, t \in All(j) : /\ Chan(j, t, Way(j, s, t, R, A), n[s][t])
                              /\ Causal(j, s, t, R, A) /\ Pressed(j, s, t, R, A)
  BY DEF Moves, NetOK
<1>2. A[p] \in 1 .. Len(j.body) /\ j.body[A[p]].op = "recv" /\ k.round = R[p]
      /\ k.dim = j.body[A[p]].d /\ k.fw = j.body[A[p]].fw
  BY DEF OpAt
<1>29. ASSUME NEW l \in Key
       PROVE  Taken(j, R[p], A[p], l) <=>
                \/ l.round < k.round
                \/ l.round = k.round /\ RecvAt(j, l.dim, l.fw) < RecvAt(j, k.dim, k.fw)
  <2>1. PICK x, a : x = RecvAt(j, k.dim, k.fw) /\ a = A[p]
    OBVIOUS
  <2>2. OpAt(j, a, "recv", R[p], k)
    BY <2>1
  <2>3. x = a
    BY <2>1, <2>2, CallAt DEF OpAt
  <2>4. Taken(j, R[p], a, l) <=> l.round < R[p] \/ (l.round = R[p] /\ RecvAt(j, l.dim, l.fw) < a)
    BY DEF Taken
  <2>5. R[p] = k.round
    BY <1>2
  <2> QED BY ONLY <2>1, <2>3, <2>4, <2>5, Zenon
<1>3. PICK W : W = Way(j, q, p, R, A)
  OBVIOUS
<1>4. W \in SUBSET Key
  BY <1>3, WayIs
<1>5. Chan(j, p, W, n[q][p])
  BY <1>1, <1>3
<1>6. PICK f : Lists(f, W) /\ n[q][p] = Bodies(j, p, f)
  BY <1>5 DEF Chan
<1>7. n[q][p] # << >>
  BY DEF Pending
<1>8. /\ f[1] \in W /\ \A m \in W : m = f[1] \/ Earlier(f[1], m)
      /\ Head(Bodies(j, p, f)) = MessageOf(j, p, f[1])
      /\ Lists(Tail(f), W \ {f[1]})
      /\ Bodies(j, p, Tail(f)) = Tail(Bodies(j, p, f))
  BY <1>4, <1>6, <1>7, ListsTail
<1>9. PICK m : m = f[1]
  OBVIOUS
<1>10. m \in W /\ m \in Key /\ Sent(j, R[q], A[q], m) /\ ~Taken(j, R[p], A[p], m)
  BY <1>3, <1>8, <1>9, WayIs
<1>11. /\ m.round \in Nat /\ m.dim \in Axis /\ m.fw \in BOOLEAN
       /\ k.round \in Nat /\ k.dim \in Axis /\ k.fw \in BOOLEAN
  BY <1>10, KeyFacts
<1>12. ~Earlier(m, k)
  <2>1. SUFFICES ASSUME Earlier(m, k) PROVE FALSE
    OBVIOUS
  <2>2. CASE m.round < k.round
    BY <1>10, <1>29, <2>2
  <2>3. CASE m.round = k.round
    <3>1. RecvAt(j, m.dim, m.fw) < RecvAt(j, k.dim, k.fw)
      BY <1>10, <2>1, <2>3, KeyOrder
    <3> QED BY <1>10, <1>29, <2>3, <3>1
  <2> QED BY <1>11, <2>1, <2>2, <2>3 DEF Earlier
<1>13. Sent(j, R[q], A[q], k)
  <2>1. R[q] \in Nat /\ A[q] \in Nat
    OBVIOUS
  <2>2. CASE k.round < m.round
    BY <1>10, <1>11, <2>1, <2>2 DEF Sent
  <2>3. CASE k.round = m.round
    <3>1. k = m \/ Earlier(k, m)
      BY <1>10, <1>12, Order
    <3>2. CASE k = m
      BY <1>10, <3>2
    <3>3. CASE Earlier(k, m)
      <4>1. PICK x, y : x = SendAt(j, k.dim, k.fw) /\ y = SendAt(j, m.dim, m.fw)
        OBVIOUS
      <4>2. x \in Nat /\ y \in Nat
        BY <1>11, <4>1, Times
      <4>3. x < y
        BY <1>10, <2>3, <3>3, <4>1, KeyOrder
      <4>4. m.round < R[q] \/ (m.round = R[q] /\ y < A[q])
        BY <1>10, <4>1 DEF Sent
      <4>5. k.round < R[q] \/ (k.round = R[q] /\ x < A[q])
        BY ONLY <1>11, <2>1, <2>3, <4>2, <4>3, <4>4
      <4> QED BY <4>1, <4>5 DEF Sent
    <3> QED BY <3>1, <3>2, <3>3
  <2>4. ~(m.round < k.round)
    BY <1>12 DEF Earlier
  <2> QED BY <1>11, <2>2, <2>3, <2>4
<1>14. ~Taken(j, R[p], A[p], k)
  <2>1. PICK x : x = RecvAt(j, k.dim, k.fw)
    OBVIOUS
  <2>2. x \in Nat
    BY <1>11, <2>1, Times
  <2>3. ~(k.round < k.round) /\ ~(x < x)
    BY ONLY <1>11, <2>2
  <2> QED BY <1>29, <2>1, <2>3
<1>15. m = k
  <2>1. k \in W
    BY <1>3, <1>13, <1>14, WayIs
  <2> QED BY <1>8, <1>9, <1>12, <2>1
<1>16. Oldest(n, q, p) = MessageOf(j, p, k)
  BY <1>6, <1>8, <1>9, <1>15 DEF Oldest
<1>17. PICK c : c = Tail(n[q][p])
  OBVIOUS
<1>18. c \in Seq(Msgs(j))
  <2>1. n[q][p] \in Seq(Msgs(j))
    BY <1>1
  <2> QED BY <1>7, <1>17, <2>1
<1>19. n2 = [n EXCEPT ![q][p] = c]
  BY <1>1, <1>17 DEF Drop
<1>20. /\ n2 \in [All(j) -> [All(j) -> Seq(Msgs(j))]] /\ n2[q][p] = c
       /\ \A s, t \in All(j) : s # q \/ t # p => n2[s][t] = n[s][t]
  <2>1. PICK P, S : P = All(j) /\ S = Seq(Msgs(j))
    OBVIOUS
  <2>2. n \in [P -> [P -> S]] /\ p \in P /\ q \in P /\ c \in S
    BY <1>1, <1>18, <2>1
  <2>3. /\ n2 \in [P -> [P -> S]] /\ n2[q][p] = c
        /\ \A s, t \in P : s # q \/ t # p => n2[s][t] = n[s][t]
    BY ONLY <1>19, <2>2, NetUpdate
  <2> QED BY <2>1, <2>3
<1>21. \A l : ~OpAt(j, A[p], "send", R[p], l)
  BY <1>2 DEF OpAt
<1>22. ASSUME NEW l \in Key, OpAt(j, A[p], "recv", R[p], l) PROVE l = k
  <2>1. l.round = k.round /\ l.dim = k.dim /\ l.fw = k.fw
    BY <1>2, <1>22 DEF OpAt
  <2> QED BY <2>1, KeyFacts
<1>23. ASSUME NEW s \in All(j), NEW t \in All(j), NEW l \in Key, Slot(j, s, t, l.dim, l.fw)
       PROVE  /\ Sent(j, R2[s], A2[s], l) <=> Sent(j, R[s], A[s], l)
              /\ Taken(j, R2[t], A2[t], l) <=> Taken(j, R[t], A[t], l) \/ (t = p /\ l = k)
  BY <1>21, <1>22, <1>23, MovesSent
<1>24. ASSUME NEW s \in All(j), Slot(j, s, p, k.dim, k.fw) PROVE s = q
  BY <1>24 DEF Slot
<1>25. ASSUME NEW s \in All(j), NEW t \in All(j) PROVE Causal(j, s, t, R2, A2)
  <2>1. Causal(j, s, t, R, A)
    BY <1>1
  <2>2. SUFFICES ASSUME NEW l \in Key, Slot(j, s, t, l.dim, l.fw), Taken(j, R2[t], A2[t], l)
                 PROVE  Sent(j, R2[s], A2[s], l)
    BY DEF Causal
  <2>3. CASE Taken(j, R[t], A[t], l)
    BY <1>23, <2>1, <2>2, <2>3 DEF Causal
  <2>4. CASE t = p /\ l = k
    BY <1>13, <1>23, <1>24, <2>2, <2>4
  <2> QED BY <1>23, <2>2, <2>3, <2>4
<1>26. ASSUME NEW s \in All(j), NEW t \in All(j) PROVE Pressed(j, s, t, R2, A2)
  <2>1. Pressed(j, s, t, R, A)
    BY <1>1
  <2> QED BY <2>1, StillPressed
<1>27. ASSUME NEW s \in All(j), NEW t \in All(j), s # q \/ t # p
       PROVE  Chan(j, t, Way(j, s, t, R2, A2), n2[s][t])
  <2>1. Way(j, s, t, R2, A2) = Way(j, s, t, R, A)
    <3>1. ASSUME NEW l \in Key, Slot(j, s, t, l.dim, l.fw) PROVE ~(t = p /\ l = k)
      BY <1>24, <1>27, <3>1
    <3> QED BY <1>23, <3>1 DEF Way
  <2> QED BY <1>1, <1>20, <1>27, <2>1
<1>28. Chan(j, p, Way(j, q, p, R2, A2), n2[q][p])
  <2>1. Way(j, q, p, R2, A2) = W \ {k}
    BY <1>1, <1>3, <1>23 DEF Way
  <2>2. c = Bodies(j, p, Tail(f))
    BY <1>6, <1>8, <1>17
  <2>3. Lists(Tail(f), W \ {k})
    BY <1>8, <1>9, <1>15
  <2> QED BY <1>20, <2>1, <2>2, <2>3 DEF Chan
<1> QED BY <1>16, <1>20, <1>25, <1>26, <1>27, <1>28 DEF NetOK

-----------------------------------------------------------------------------
(* Queues.                                                                  *)

\* v is u with c at the end, or without its element i.
Grown(u, c, v) ==
  /\ IsSeq(v, Len(v)) /\ Len(v) = Len(u) + 1 /\ v[Len(u) + 1] = c
  /\ \A n \in 1 .. Len(u) : v[n] = u[n]
Shrunk(u, i, v) ==
  /\ IsSeq(v, Len(v)) /\ Len(v) = Len(u) - 1
  /\ \A n \in 1 .. Len(u) - 1 : v[n] = IF n < i THEN u[n] ELSE u[n + 1]

LEMMA GrownIs ==
  ASSUME NEW u, IsSeq(u, Len(u)), NEW c, NEW v, v = Append(u, c)
  PROVE  Grown(u, c, v)
<1>1. PICK n \in Nat : n = Len(u) /\ u = [i \in 1 .. n |-> u[i]]
  BY DEF IsSeq
<1>2. PICK S : S = {u[i] : i \in 1 .. n} \cup {c}
  OBVIOUS
<1>3. \A i \in 1 .. n : u[i] \in S
  BY <1>2
<1>4. u \in Seq(S) /\ c \in S
  BY ONLY <1>1, <1>2, <1>3
<1>5. v \in Seq(S) /\ Len(v) = n + 1 /\ v[n + 1] = c /\ \A i \in 1 .. n : v[i] = u[i]
  BY ONLY <1>1, <1>4, v = Append(u, c)
<1>6. v = [i \in 1 .. n + 1 |-> v[i]]
  BY <1>1, <1>5
<1> QED BY <1>1, <1>5, <1>6 DEF Grown, IsSeq

LEMMA ShrunkIs ==
  ASSUME NEW u, IsSeq(u, Len(u)), NEW i \in 1 .. Len(u), NEW v, v = RemoveAt(u, i)
  PROVE  Shrunk(u, i, v)
<1>1. PICK n \in Nat : n = Len(u) /\ u = [k \in 1 .. n |-> u[k]]
  BY DEF IsSeq
<1>2. PICK S : S = {u[k] : k \in 1 .. n}
  OBVIOUS
<1>3. \A k \in 1 .. n : u[k] \in S
  BY <1>2
<1>4. u \in Seq(S) /\ i \in 1 .. n
  <2>1. i \in 1 .. n
    BY <1>1
  <2>2. u \in Seq(S)
    BY ONLY <1>1, <1>2, <1>3
  <2> QED BY <2>1, <2>2
<1>5. PICK a, b : a = SubSeq(u, 1, i - 1) /\ b = SubSeq(u, i + 1, n)
  OBVIOUS
<1>6. a \in Seq(S) /\ Len(a) = i - 1 /\ \A k \in 1 .. i - 1 : a[k] = u[k]
  <2>1. i \in 1 .. n /\ n = Len(u) /\ n \in Nat
    BY ONLY <1>1, <1>4, n \in Nat
  <2>2. a \in Seq(S) /\ Len(a) = i - 1
    BY ONLY <1>4, <1>5, <2>1
  <2>3. \A k \in 1 .. i - 1 : a[k] = u[k]
    BY ONLY <1>4, <1>5, <2>1
  <2> QED BY ONLY <2>2, <2>3
<1>7. b \in Seq(S) /\ Len(b) = n - i /\ \A k \in 1 .. n - i : b[k] = u[i + k]
  BY ONLY <1>1, <1>4, <1>5
<1>8. v = a \o b
  BY <1>1, <1>5 DEF RemoveAt
<1>9. v \in Seq(S) /\ Len(v) = n - 1
  <2>1. v \in Seq(S)
    BY ONLY <1>6, <1>7, <1>8
  <2>2. Len(v) = Len(a) + Len(b)
    <3>1. a \in Seq(S) /\ b \in Seq(S)
      BY <1>6, <1>7
    <3> QED BY ONLY <1>8, <3>1
  <2>3. i \in Int /\ n \in Int
    BY ONLY <1>4, n \in Nat
  <2> QED BY ONLY <1>6, <1>7, <2>1, <2>2, <2>3
<1>10. ASSUME NEW k \in 1 .. n - 1 PROVE v[k] = IF k < i THEN u[k] ELSE u[k + 1]
  <2>1. CASE k < i
    BY ONLY <1>4, <1>6, <1>7, <1>8, <2>1, k \in 1 .. n - 1
  <2>2. CASE k >= i
    <3>1. k - (i - 1) \in 1 .. n - i /\ i + (k - (i - 1)) = k + 1
      BY ONLY <1>4, <2>2, k \in 1 .. n - 1, n \in Nat
    <3>2. v[k] = b[k - (i - 1)]
      BY ONLY <1>4, <1>6, <1>7, <1>8, <2>2, <3>1, k \in 1 .. n - 1
    <3>3. b[k - (i - 1)] = u[k + 1]
      BY ONLY <1>7, <3>1
    <3> QED BY <1>4, <2>2, <3>2, <3>3
  <2> QED BY <1>4, <2>1, <2>2
<1>11. v = [k \in 1 .. n - 1 |-> v[k]] /\ n - 1 \in Nat
  BY <1>4, <1>9
<1> QED BY <1>1, <1>9, <1>10, <1>11 DEF Shrunk, IsSeq

-----------------------------------------------------------------------------
(* What is in the queue of a process.                                       *)

\* Kernel k is that of launch c in round r.
IsKernel(j, p, k, c, r) ==
  /\ k.variant = c.variant /\ k.stream = c.stream /\ k.face = c.face
  /\ k.domain = DomainOf(j, p, c) /\ k.round = r

\* Launch i of round r has been made by a host that is at operation a of round rd.
Issued(j, rd, a, i, r) == IsLaunch(j, i) /\ r \in Nat /\ (r < rd \/ (r = rd /\ i < a))

Queued(j, p, qu, i, r) == \E n \in 1 .. Len(qu) : IsKernel(j, p, qu[n], j.body[i], r)

\* All kernels of the rounds before this one have run.
Base(qu, rd) == IF Len(qu) = 0 THEN rd ELSE qu[1].round

Launched(j, p, rd, a, qu) ==
  \A n \in 1 .. Len(qu) : \E i : /\ Issued(j, rd, a, i, qu[n].round)
                                 /\ IsKernel(j, p, qu[n], j.body[i], qu[n].round)
InOrder(qu) == \A m, n \in 1 .. Len(qu) : m <= n => qu[m].round <= qu[n].round

\* The host waits at the end of the body for the kernels that have streams of
\* their own.
Drained(j, rd, a, qu) ==
  Streamed(j) => /\ \A n \in 1 .. Len(qu) : qu[n].round = rd
                 /\ a > Len(j.body) => Len(qu) = 0

\* Otherwise kernels of an earlier round are only there if work on the default
\* stream waits for them.
Blocked(j, rd, a, qu) ==
  ~Streamed(j) /\ j.width > 0 =>
    \A n \in 1 .. Len(qu) : qu[n].round < rd \/ a > Len(j.body) =>
      \E m \in 1 .. Len(qu) : n <= m /\ qu[m].stream = DefaultStream

\* Of the rounds after the one whose kernels run, all kernels are there.
AllThere(j, p, rd, a, qu) ==
  \A i, r : Issued(j, rd, a, i, r) /\ r > Base(qu, rd) => Queued(j, p, qu, i, r)

QueueOK(j, p, rd, a, qu) ==
  /\ IsSeq(qu, Len(qu)) /\ rd \in Nat /\ a \in Nat
  /\ Launched(j, p, rd, a, qu) /\ InOrder(qu) /\ Drained(j, rd, a, qu) /\ Blocked(j, rd, a, qu)
  /\ AllThere(j, p, rd, a, qu)
  /\ rd = j.rounds => Len(qu) = 0

LEMMA QueueFacts ==
  ASSUME NEW j, NEW p, NEW rd, NEW a, NEW qu, QueueOK(j, p, rd, a, qu)
  PROVE  /\ Len(qu) \in Nat /\ DOMAIN qu = 1 .. Len(qu) /\ rd \in Nat
         /\ Base(qu, rd) \in Nat /\ Base(qu, rd) <= rd
         /\ \A n \in 1 .. Len(qu) : /\ qu[n].round \in Nat /\ qu[n].round <= rd
                                    /\ Base(qu, rd) <= qu[n].round
<1>1. IsSeq(qu, Len(qu)) /\ rd \in Nat /\ Launched(j, p, rd, a, qu) /\ InOrder(qu)
  BY DEF QueueOK
<1>2. Len(qu) \in Nat /\ DOMAIN qu = 1 .. Len(qu)
  BY <1>1 DEF IsSeq
<1>3. ASSUME NEW n \in 1 .. Len(qu) PROVE qu[n].round \in Nat /\ qu[n].round <= rd
  BY <1>1 DEF Launched, Issued
<1>4. Base(qu, rd) \in Nat /\ Base(qu, rd) <= rd
  BY <1>1, <1>2, <1>3 DEF Base
<1>5. ASSUME NEW n \in 1 .. Len(qu) PROVE Base(qu, rd) <= qu[n].round
  <2>1. 1 \in 1 .. Len(qu) /\ 1 <= n /\ Len(qu) # 0
    BY <1>2
  <2>2. qu[1].round <= qu[n].round
    BY <1>1, <2>1 DEF InOrder
  <2> QED BY <2>1, <2>2 DEF Base
<1> QED BY <1>1, <1>2, <1>3, <1>4, <1>5

\* The halos are exchanged while no kernel but the one for the interior is in
\* the queue, if what is copied waits for the kernels.
LEMMA AtExchange ==
  ASSUME NEW j, Known(j), OneStage, NEW p, NEW rd, NEW a, NEW qu, QueueOK(j, p, rd, a, qu),
         a \in 1 .. Len(j.body), j.body[a].op \in {"send", "recv"},
         \A n \in 1 .. Len(qu) : ~Ordered(qu[n].stream, j.stream)
  PROVE  /\ Base(qu, rd) = rd
         /\ \A n \in 1 .. Len(qu) : qu[n].variant = "inner" /\ qu[n].round = rd
<1>1. /\ Launched(j, p, rd, a, qu) /\ Drained(j, rd, a, qu) /\ Blocked(j, rd, a, qu) /\ rd \in Nat
      /\ a \in Nat
  BY DEF QueueOK
<1>2. j.width > 0 /\ a <= WaitAt(j, 1)
  <2>1. PICK d, fw : d = j.body[a].d /\ fw = j.body[a].fw
    OBVIOUS
  <2>2. /\ j.width > 0 /\ d \in Axis /\ fw \in BOOLEAN
        /\ a = SendAt(j, d, fw) \/ a = RecvAt(j, d, fw)
    BY <2>1, CallAt
  <2>3. PICK x, y, w, u : /\ x = SendAt(j, d, fw) /\ y = RecvAt(j, d, fw) /\ w = WaitAt(j, d)
                          /\ u = WaitAt(j, 1)
    OBVIOUS
  <2>4. x \in Nat /\ y \in Nat /\ w \in Nat /\ x < y /\ y < w /\ w <= u
    BY <2>2, <2>3, Times
  <2>5. u \in Nat
    BY <2>3, Times, Vectors
  <2>6. a = x \/ a = y
    BY <2>2, <2>3, Zenon
  <2>7. a <= u
    BY ONLY <2>4, <2>5, <2>6
  <2> QED BY <2>2, <2>3, <2>7
<1>3. \A n \in 1 .. Len(qu) : qu[n].stream # DefaultStream
  BY DEF Ordered
<1>4. ASSUME NEW n \in 1 .. Len(qu) PROVE qu[n].variant = "inner" /\ qu[n].round = rd
  <2>1. PICK i : Issued(j, rd, a, i, qu[n].round) /\ IsKernel(j, p, qu[n], j.body[i], qu[n].round)
    BY <1>1 DEF Launched
  <2>2. IsLaunch(j, i) /\ qu[n].round \in Nat /\ (qu[n].round < rd \/ (qu[n].round = rd /\ i < a))
    BY <2>1 DEF Issued
  <2>3. qu[n].variant = j.body[i].variant /\ qu[n].stream = j.body[i].stream
    BY <2>1 DEF IsKernel
  <2>4. InnerCall(j, i) \/ LastCall(j, i) \/ FaceCall(j, i)
    BY <2>2, CallAt DEF IsLaunch
  <2>5. ~LastCall(j, i)
    BY <1>3, <2>3 DEF LastCall
  <2>6. ASSUME FaceCall(j, i) PROVE FALSE
    <3>1. Streamed(j) /\ i > WaitAt(j, 1)
      BY <2>6 DEF FaceCall
    <3>2. qu[n].round = rd
      BY <1>1, <3>1 DEF Drained
    <3>3. i < a
      BY <1>1, <2>2, <3>2
    <3>4. PICK u : u = WaitAt(j, 1)
      OBVIOUS
    <3>5. u \in Nat
      BY <3>4, Times, Vectors
    <3>6. i \in Int
      <4>1. i \in 1 .. Len(j.body)
        BY <2>2 DEF IsLaunch
      <4> QED BY <4>1
    <3> QED BY <1>1, <1>2, <3>1, <3>3, <3>4, <3>5, <3>6
  <2>7. qu[n].variant = "inner"
    BY <2>3, <2>4, <2>5, <2>6 DEF InnerCall
  <2>8. qu[n].round = rd
    <3>1. CASE Streamed(j)
      BY <1>1, <3>1 DEF Drained
    <3>2. CASE ~Streamed(j)
      <4>1. ~(qu[n].round < rd)
        BY <1>1, <1>2, <1>3, <3>2 DEF Blocked
      <4> QED BY <2>2, <4>1
    <3> QED BY <3>1, <3>2
  <2> QED BY <2>7, <2>8
<1>5. Base(qu, rd) = rd
  <2>1. Len(qu) \in Nat
    BY QueueFacts
  <2>2. CASE Len(qu) = 0
    BY <2>2 DEF Base
  <2>3. CASE Len(qu) # 0
    <3>1. 1 \in 1 .. Len(qu)
      <4>1. PICK n : n = Len(qu)
        OBVIOUS
      <4>2. n \in Nat /\ n # 0
        BY <2>1, <2>3, <4>1
      <4>3. 1 \in 1 .. n
        BY ONLY <4>2
      <4> QED BY <4>1, <4>3
    <3>2. qu[1].round = rd
      BY <1>4, <3>1
    <3> QED BY <2>3, <3>2 DEF Base
  <2> QED BY <2>2, <2>3
<1> QED BY <1>4, <1>5

\* The launches that a process makes by going on.
LEMMA IssuedBy ==
  ASSUME NEW j, Known(j), OneStage, NEW p, NEW rd, NEW a, NEW rd2, NEW b,
         Goes(j, p, rd, a, rd2, b), NEW i, NEW r
  PROVE  Issued(j, rd2, b, i, r) <=> Issued(j, rd, a, i, r) \/ (IsLaunch(j, i) /\ i = a /\ r = rd)
<1>1. Len(j.body) \in Nat /\ rd \in Nat
  BY BodyFacts DEF BodyOK, Goes
<1>2. IsLaunch(j, i) => i \in 1 .. Len(j.body)
  BY DEF IsLaunch
<1>3. CASE rd2 = rd /\ a \in 1 .. Len(j.body) /\ Step(j, p, a, b)
  <2>1. IsLaunch(j, i) => (i < b <=> i <= a)
    BY <1>3, StepPasses
  <2>2. a \in Nat /\ b \in Nat
    BY <1>3 DEF Step
  <2> QED BY <1>1, <1>2, <1>3, <2>1, <2>2 DEF Issued
<1>4. CASE rd2 = rd + 1 /\ a = Len(j.body) + 1 /\ Step(j, p, 0, b)
  <2>1. IsLaunch(j, i) => (i < b <=> i <= 0)
    BY <1>4, StepPasses
  <2>2. b \in Nat
    BY <1>4 DEF Step
  <2> QED BY <1>1, <1>2, <1>4, <2>1, <2>2 DEF Issued
<1> QED BY <1>3, <1>4 DEF Goes

\* The last call of a body with exchanges.
LEMMA LastStep ==
  ASSUME NEW j, Known(j), OneStage, NEW p, NEW a \in 1 .. Len(j.body), NEW b, Step(j, p, a, b),
         b > Len(j.body), j.width > 0 \/ Streamed(j)
  PROVE  /\ a = Len(j.body) /\ j.body[a].op \in {"launch", "sync"}
         /\ Streamed(j) <=> j.body[a].op = "sync"
<1>1. PICK n : n = Len(j.body)
  OBVIOUS
<1>2. n \in Nat /\ n >= 1 /\ n \in 1 .. Len(j.body)
  BY <1>1, BodyFacts DEF BodyOK
<1>3. j.body[n].op \in {"launch", "sync"}
  <2>1. CASE Streamed(j)
    BY <1>1, <2>1 DEF Streamed
  <2>2. CASE j.width > 0
    <3>1. PICK o, d, fw : o = j.body[n].op /\ d = j.body[n].d /\ fw = j.body[n].fw
      OBVIOUS
    <3>2. o \in {"send", "recv", "wait", "launch", "sync"}
      BY <1>2, <3>1, CallAt
    <3>3. ASSUME o = "send" PROVE FALSE
      <4>1. d \in Axis /\ fw \in BOOLEAN
        BY <1>2, <3>1, <3>3, CallAt
      <4>2. PICK x : x = SendAt(j, d, fw)
        OBVIOUS
      <4>3. x \in 1 .. Len(j.body) - 1
        BY <2>2, <4>1, <4>2, Exchanged
      <4>4. x = n
        BY <1>2, <3>1, <3>3, <4>2, CallAt
      <4>5. n \in 1 .. n - 1
        BY <1>1, <4>3, <4>4, Zenon
      <4> QED BY <1>2, <4>5
    <3>4. ASSUME o = "recv" PROVE FALSE
      <4>1. d \in Axis /\ fw \in BOOLEAN
        BY <1>2, <3>1, <3>4, CallAt
      <4>2. PICK x : x = RecvAt(j, d, fw)
        OBVIOUS
      <4>3. x \in 1 .. Len(j.body) - 1
        BY <2>2, <4>1, <4>2, Exchanged
      <4>4. x = n
        BY <1>2, <3>1, <3>4, <4>2, CallAt
      <4>5. n \in 1 .. n - 1
        BY <1>1, <4>3, <4>4, Zenon
      <4> QED BY <1>2, <4>5
    <3>5. ASSUME o = "wait" PROVE FALSE
      <4>1. d \in Axis
        BY <1>2, <3>1, <3>5, CallAt
      <4>2. PICK x : x = WaitAt(j, d)
        OBVIOUS
      <4>3. x \in 1 .. Len(j.body) - 1
        BY <2>2, <4>1, <4>2, Exchanged
      <4>4. x = n
        BY <1>2, <3>1, <3>5, <4>2, CallAt
      <4>5. n \in 1 .. n - 1
        BY <1>1, <4>3, <4>4, Zenon
      <4> QED BY <1>2, <4>5
    <3> QED BY <3>1, <3>2, <3>3, <3>4, <3>5
  <2> QED BY <2>1, <2>2
<1>4. Does(j, p, j.body[n])
  BY <1>3 DEF Does
<1>5. n < b <=> n <= a
  BY <1>2, <1>4 DEF Step
<1>6. a = n
  BY <1>1, <1>2, <1>5
<1> QED BY <1>1, <1>3, <1>6 DEF Streamed

\* The host goes on without launching anything, and waits for the device at the
\* end of a body whose faces have streams.
LEMMA QueueStep ==
  ASSUME NEW j, Known(j), OneStage, NEW p, NEW rd, NEW a \in 1 .. Len(j.body), NEW b,
         Step(j, p, a, b), NEW qu, QueueOK(j, p, rd, a, qu), j.body[a].op # "launch",
         j.body[a].op = "sync" => Len(qu) = 0
  PROVE  /\ QueueOK(j, p, rd, b, qu)
         /\ \A i, r : Issued(j, rd, b, i, r) <=> Issued(j, rd, a, i, r)
<1>1. /\ IsSeq(qu, Len(qu)) /\ rd \in Nat
      /\ Launched(j, p, rd, a, qu) /\ InOrder(qu) /\ Drained(j, rd, a, qu) /\ Blocked(j, rd, a, qu)
      /\ AllThere(j, p, rd, a, qu) /\ (rd = j.rounds => Len(qu) = 0)
  BY DEF QueueOK
<1>2. b \in Nat
  BY DEF Step
<1>3. ASSUME NEW i, NEW r PROVE Issued(j, rd, b, i, r) <=> Issued(j, rd, a, i, r)
  <2>1. Goes(j, p, rd, a, rd, b)
    BY <1>1 DEF Goes
  <2>2. Issued(j, rd, b, i, r) <=> Issued(j, rd, a, i, r) \/ (IsLaunch(j, i) /\ i = a /\ r = rd)
    BY <2>1, IssuedBy
  <2> QED BY <2>2 DEF IsLaunch
<1>4. ASSUME b > Len(j.body), j.width > 0 \/ Streamed(j)
      PROVE  Streamed(j) /\ Len(qu) = 0
  BY <1>1, <1>4, LastStep
<1>5. Launched(j, p, rd, b, qu)
  BY <1>1, <1>3 DEF Launched
<1>6. Drained(j, rd, b, qu)
  BY <1>1, <1>4 DEF Drained
<1>7. Blocked(j, rd, b, qu)
  BY <1>1, <1>4 DEF Blocked
<1>8. AllThere(j, p, rd, b, qu)
  <2> SUFFICES ASSUME NEW i, NEW r, Issued(j, rd, b, i, r), r > Base(qu, rd)
               PROVE  Queued(j, p, qu, i, r)
    BY DEF AllThere
  <2>1. Issued(j, rd, a, i, r)
    BY <1>3
  <2> QED BY <1>1, <2>1 DEF AllThere
<1> QED BY <1>1, <1>2, <1>3, <1>5, <1>6, <1>7, <1>8 DEF QueueOK

\* The last launch of a body with exchanges is on the default stream.
LEMMA LastIsDefault ==
  ASSUME NEW j, Known(j), OneStage, NEW a \in 1 .. Len(j.body), j.body[a].op = "launch",
         a = Len(j.body), j.width > 0
  PROVE  j.body[a].stream = DefaultStream
<1>1. InnerCall(j, a) \/ LastCall(j, a) \/ FaceCall(j, a)
  BY CallAt
<1>2. PICK n, u : n = Len(j.body) /\ u = WaitAt(j, 1)
  OBVIOUS
<1>3. n \in Nat /\ u < n
  BY <1>2, BodyFacts DEF BodyOK
<1>4. u \in Nat
  BY <1>2, Times, Vectors
<1>5. u >= 1
  <2>1. PICK s : s = SendAt(j, 1, TRUE)
    OBVIOUS
  <2>2. s \in Nat /\ s >= 1
    BY <2>1, Times, Vectors
  <2>3. PICK t : t = RecvAt(j, 1, TRUE)
    OBVIOUS
  <2>4. t \in Nat /\ s < t
    BY <2>1, <2>3, Times, Vectors
  <2>5. t < u
    BY <1>2, <2>3, Times, Vectors
  <2> QED BY <1>4, <2>2, <2>4, <2>5
<1>6. a # 1
  BY <1>2, <1>3, <1>4, <1>5
<1>7. ~(a < n)
  BY <1>2, <1>3
<1>8. LastCall(j, a)
  BY <1>1, <1>2, <1>6, <1>7 DEF InnerCall, FaceCall
<1> QED BY <1>8 DEF LastCall

\* The host launches a kernel.
LEMMA QueueLaunch ==
  ASSUME NEW j, Known(j), OneStage, NEW p, NEW rd, NEW a \in 1 .. Len(j.body), NEW b,
         Step(j, p, a, b), NEW qu, QueueOK(j, p, rd, a, qu), j.body[a].op = "launch",
         rd < j.rounds, NEW k, IsKernel(j, p, k, j.body[a], rd),
         NEW qu2, Grown(qu, k, qu2)
  PROVE  /\ QueueOK(j, p, rd, b, qu2) /\ Base(qu2, rd) = Base(qu, rd)
         /\ \A i, r : /\ Issued(j, rd, b, i, r) => Issued(j, rd, a, i, r) \/ Queued(j, p, qu2, i, r)
                      /\ Queued(j, p, qu, i, r) => Queued(j, p, qu2, i, r)
<1>1. /\ IsSeq(qu, Len(qu)) /\ rd \in Nat
      /\ Launched(j, p, rd, a, qu) /\ InOrder(qu) /\ Drained(j, rd, a, qu) /\ Blocked(j, rd, a, qu)
      /\ AllThere(j, p, rd, a, qu)
  BY DEF QueueOK
<1>2. b \in Nat /\ a \in Nat /\ j.rounds \in Nat
  BY JobTypes DEF Step
<1>3. PICK n, m : n = Len(qu) /\ m = Len(qu2)
  OBVIOUS
<1>4. /\ n \in Nat /\ m = n + 1 /\ IsSeq(qu2, m) /\ qu2[m] = k
      /\ \A i \in 1 .. n : qu2[i] = qu[i]
  BY <1>1, <1>3 DEF Grown, IsSeq
<1>5. k.round = rd /\ k.stream = j.body[a].stream
  BY DEF IsKernel
<1>6. \A i \in 1 .. n : qu[i].round \in Nat /\ qu[i].round <= rd
  BY <1>3, QueueFacts
<1>7. ASSUME NEW i, NEW r
      PROVE  /\ Issued(j, rd, b, i, r) => Issued(j, rd, a, i, r) \/ Queued(j, p, qu2, i, r)
             /\ Queued(j, p, qu, i, r) => Queued(j, p, qu2, i, r)
             /\ Issued(j, rd, a, i, r) => Issued(j, rd, b, i, r)
             /\ Issued(j, rd, b, a, rd)
  <2>1. Goes(j, p, rd, a, rd, b)
    BY <1>1 DEF Goes
  <2>2. /\ Issued(j, rd, b, i, r) <=> Issued(j, rd, a, i, r) \/ (IsLaunch(j, i) /\ i = a /\ r = rd)
        /\ Issued(j, rd, b, a, rd) <=> Issued(j, rd, a, a, rd) \/ IsLaunch(j, a)
    BY <2>1, IssuedBy
  <2>3. Queued(j, p, qu2, a, rd)
    BY <1>3, <1>4 DEF Queued
  <2>4. Queued(j, p, qu, i, r) => Queued(j, p, qu2, i, r)
    BY <1>3, <1>4 DEF Queued
  <2>5. IsLaunch(j, a)
    BY DEF IsLaunch
  <2> QED BY <2>2, <2>3, <2>4, <2>5
<1>8. Base(qu2, rd) = Base(qu, rd)
  <2>1. CASE n = 0
    BY <1>3, <1>4, <1>5, <2>1 DEF Base
  <2>2. CASE n # 0
    <3>1. 1 \in 1 .. n /\ m # 0
      BY <1>4, <2>2
    <3>2. qu2[1] = qu[1]
      BY <1>4, <3>1
    <3> QED BY <1>3, <2>2, <3>1, <3>2 DEF Base
  <2> QED BY <2>1, <2>2
<1>9. Launched(j, p, rd, b, qu2)
  <2> SUFFICES ASSUME NEW x \in 1 .. m
               PROVE  \E i : /\ Issued(j, rd, b, i, qu2[x].round)
                             /\ IsKernel(j, p, qu2[x], j.body[i], qu2[x].round)
    BY <1>3 DEF Launched
  <2>1. CASE x = m
    BY <1>4, <1>5, <1>7, <2>1
  <2>2. CASE x # m
    <3>1. x \in 1 .. n
      BY <1>4, <2>2
    <3>2. PICK i : Issued(j, rd, a, i, qu[x].round) /\ IsKernel(j, p, qu[x], j.body[i], qu[x].round)
      BY <1>1, <1>3, <3>1 DEF Launched
    <3> QED BY <1>4, <1>7, <3>1, <3>2
  <2> QED BY <2>1, <2>2
<1>10. InOrder(qu2)
  <2> SUFFICES ASSUME NEW x \in 1 .. m, NEW y \in 1 .. m, x <= y
               PROVE  qu2[x].round <= qu2[y].round
    BY <1>3 DEF InOrder
  <2>1. CASE y = m /\ x = m
    BY <1>1, <1>4, <1>5, <2>1
  <2>2. CASE y = m /\ x # m
    <3>1. x \in 1 .. n
      BY <1>4, <2>2
    <3> QED BY <1>4, <1>5, <1>6, <2>2, <3>1
  <2>3. CASE y # m
    <3>1. x \in 1 .. n /\ y \in 1 .. n
      BY <1>4, <2>3
    <3>2. qu[x].round <= qu[y].round
      BY <1>1, <1>3, <3>1 DEF InOrder
    <3> QED BY <1>4, <3>1, <3>2
  <2> QED BY <2>1, <2>2, <2>3
<1>11. Drained(j, rd, b, qu2)
  <2> SUFFICES ASSUME Streamed(j)
               PROVE  (\A x \in 1 .. m : qu2[x].round = rd) /\ ~(b > Len(j.body))
    BY <1>3 DEF Drained
  <2>1. ASSUME NEW x \in 1 .. m PROVE qu2[x].round = rd
    <3>1. CASE x = m
      BY <1>4, <1>5, <3>1
    <3>2. CASE x # m
      <4>1. x \in 1 .. n
        BY <1>4, <3>2
      <4> QED BY <1>1, <1>3, <1>4, <4>1 DEF Drained
    <3> QED BY <3>1, <3>2
  <2>2. ~(b > Len(j.body))
    BY LastStep
  <2> QED BY <2>1, <2>2
<1>12. Blocked(j, rd, b, qu2)
  <2> SUFFICES ASSUME ~Streamed(j), j.width > 0, NEW x \in 1 .. m,
                      qu2[x].round < rd \/ b > Len(j.body)
               PROVE  \E y \in 1 .. m : x <= y /\ qu2[y].stream = DefaultStream
    BY <1>3 DEF Blocked
  <2>1. CASE b > Len(j.body)
    <3>1. a = Len(j.body)
      BY <2>1, LastStep
    <3>2. k.stream = DefaultStream
      BY <1>5, <3>1, LastIsDefault
    <3>3. m \in 1 .. m /\ x <= m
      BY <1>4
    <3> QED BY <1>4, <3>2, <3>3
  <2>2. CASE ~(b > Len(j.body))
    <3>1. x # m
      BY <1>1, <1>4, <1>5, <2>2
    <3>2. x \in 1 .. n
      BY <1>4, <3>1
    <3>3. PICK y \in 1 .. n : x <= y /\ qu[y].stream = DefaultStream
      BY <1>1, <1>3, <1>4, <2>2, <3>2 DEF Blocked
    <3>4. y \in 1 .. m /\ qu2[y].stream = DefaultStream
      BY <1>4, <3>3
    <3> QED BY <3>3, <3>4
  <2> QED BY <2>1, <2>2
<1>13. AllThere(j, p, rd, b, qu2)
  BY <1>1, <1>7, <1>8 DEF AllThere
<1>14. rd # j.rounds
  BY <1>1, <1>2
<1>15. IsSeq(qu2, Len(qu2))
  BY <1>3, <1>4
<1> QED BY <1>1, <1>2, <1>7, <1>8, <1>9, <1>10, <1>11, <1>12, <1>13, <1>14, <1>15 DEF QueueOK

\* The host goes from a in round rd to b in round z, and nothing else happens.
Rolls(j, p, rd, a, z, b, qu) ==
  /\ QueueOK(j, p, z, b, qu)
  /\ Base(qu, z) = IF Len(qu) = 0 THEN z ELSE Base(qu, rd)
  /\ \A i, r : Issued(j, z, b, i, r) <=> Issued(j, rd, a, i, r)

\* The host goes into the next round.
LEMMA QueueEnd ==
  ASSUME NEW j, Known(j), OneStage, NEW p, NEW rd, NEW a, a = Len(j.body) + 1, NEW b,
         Step(j, p, 0, b), NEW qu, QueueOK(j, p, rd, a, qu), rd < j.rounds,
         rd + 1 = j.rounds => Len(qu) = 0
  PROVE  Rolls(j, p, rd, a, rd + 1, b, qu)
<1>1. /\ IsSeq(qu, Len(qu)) /\ rd \in Nat
      /\ Launched(j, p, rd, a, qu) /\ InOrder(qu) /\ Drained(j, rd, a, qu) /\ Blocked(j, rd, a, qu)
      /\ AllThere(j, p, rd, a, qu)
  BY DEF QueueOK
<1>2. b \in Nat /\ Len(j.body) \in Nat /\ rd + 1 \in Nat /\ a > Len(j.body)
  BY <1>1, BodyFacts DEF Step, BodyOK
<1>3. ASSUME NEW i, NEW r PROVE Issued(j, rd + 1, b, i, r) <=> Issued(j, rd, a, i, r)
  <2>1. Goes(j, p, rd, a, rd + 1, b)
    BY <1>1 DEF Goes
  <2>2. /\ Issued(j, rd + 1, b, i, r)
           <=> Issued(j, rd, a, i, r) \/ (IsLaunch(j, i) /\ i = a /\ r = rd)
    BY <2>1, IssuedBy
  <2>3. IsLaunch(j, i) => i # a
    BY <1>2 DEF IsLaunch
  <2> QED BY <2>2, <2>3
<1>4. Base(qu, rd + 1) = IF Len(qu) = 0 THEN rd + 1 ELSE Base(qu, rd)
  BY DEF Base
<1>5. Launched(j, p, rd + 1, b, qu)
  BY <1>1, <1>3 DEF Launched
<1>6. Drained(j, rd + 1, b, qu)
  <2> SUFFICES ASSUME Streamed(j) PROVE Len(qu) = 0
    BY DEF Drained
  <2> QED BY <1>1, <1>2 DEF Drained
<1>7. Blocked(j, rd + 1, b, qu)
  BY <1>1, <1>2 DEF Blocked
<1>8. AllThere(j, p, rd + 1, b, qu)
  <2> SUFFICES ASSUME NEW i, NEW r, Issued(j, rd, a, i, r), r > Base(qu, rd + 1)
               PROVE  Queued(j, p, qu, i, r)
    BY <1>3 DEF AllThere
  <2>1. CASE Len(qu) = 0
    <3>1. r \in Nat /\ r <= rd
      BY <1>1 DEF Issued
    <3> QED BY <1>1, <1>4, <2>1, <3>1
  <2>2. CASE Len(qu) # 0
    BY <1>1, <1>4, <2>2 DEF AllThere
  <2> QED BY <2>1, <2>2
<1>9. QueueOK(j, p, rd + 1, b, qu)
  BY <1>1, <1>2, <1>3, <1>4, <1>5, <1>6, <1>7, <1>8 DEF QueueOK
<1> QED BY <1>9, <1>3, <1>4 DEF Rolls

LEMMA SomeLaunch ==
  ASSUME NEW j, Known(j), OneStage
  PROVE  \E c : IsLaunch(j, c)
<1>1. Covering(j)
  BY BodyFacts DEF BodyOK
<1> QED BY <1>1 DEF Covering

\* Of the kernels of a process, one of the first round in the queue runs; it is
\* the first, if the faces have no streams.
LEMMA RunsFirst ==
  ASSUME NEW j, Known(j), OneStage, NEW p, NEW rd, NEW a, NEW qu, QueueOK(j, p, rd, a, qu),
         NEW i \in 1 .. Len(qu), \A m \in 1 .. i - 1 : ~Ordered(qu[m].stream, qu[i].stream)
  PROVE  qu[i].round = Base(qu, rd) /\ (~Streamed(j) => i = 1)
<1>1. /\ IsSeq(qu, Len(qu)) /\ rd \in Nat /\ Launched(j, p, rd, a, qu) /\ Drained(j, rd, a, qu)
  BY DEF QueueOK
<1>2. PICK n : n = Len(qu)
  OBVIOUS
<1>3. n \in Nat /\ i \in 1 .. n
  BY <1>1, <1>2 DEF IsSeq
<1>4. 1 \in 1 .. n /\ n # 0
  BY <1>3
<1>5. Base(qu, rd) = qu[1].round
  BY <1>2, <1>4 DEF Base
<1>6. CASE Streamed(j)
  <2>1. qu[1].round = rd /\ qu[i].round = rd
    BY <1>1, <1>2, <1>3, <1>4, <1>6 DEF Drained
  <2> QED BY <1>5, <1>6, <2>1
<1>7. CASE ~Streamed(j)
  <2>1. ASSUME NEW x \in 1 .. n PROVE qu[x].stream \in {DefaultStream, InnerStream}
    <3>1. PICK c : Issued(j, rd, a, c, qu[x].round) /\ IsKernel(j, p, qu[x], j.body[c], qu[x].round)
      BY <1>1, <1>2 DEF Launched
    <3>2. c \in 1 .. Len(j.body) /\ j.body[c].op = "launch" /\ qu[x].stream = j.body[c].stream
      BY <3>1 DEF Issued, IsLaunch, IsKernel
    <3>3. InnerCall(j, c) \/ LastCall(j, c) \/ FaceCall(j, c)
      BY <3>2, CallAt
    <3> QED BY <1>7, <3>2, <3>3 DEF InnerCall, LastCall, FaceCall
  <2>2. Ordered(qu[1].stream, qu[i].stream)
    BY <1>3, <1>4, <2>1 DEF Ordered
  <2>3. i = 1
    <3> SUFFICES ASSUME i # 1 PROVE FALSE
      OBVIOUS
    <3>1. 1 \in 1 .. i - 1
      BY <1>3
    <3> QED BY <2>2, <3>1
  <2> QED BY <1>5, <2>3
<1> QED BY <1>6, <1>7

\* What the queue has left without kernel i.
Rest(j, p, qu, i, qu2) ==
  /\ \A n \in 1 .. Len(qu2) : \E m \in 1 .. Len(qu) : m # i /\ qu2[n] = qu[m]
  /\ \A c, r : /\ Queued(j, p, qu, c, r) /\ ~IsKernel(j, p, qu[i], j.body[c], r)
                    => Queued(j, p, qu2, c, r)
               /\ Queued(j, p, qu2, c, r) => Queued(j, p, qu, c, r)

LEMMA QueueRest ==
  ASSUME NEW j, NEW p, NEW qu, IsSeq(qu, Len(qu)), NEW i \in 1 .. Len(qu),
         NEW qu2, Shrunk(qu, i, qu2)
  PROVE  Rest(j, p, qu, i, qu2)
<1>1. PICK n, m : n = Len(qu) /\ m = Len(qu2)
  OBVIOUS
<1>2. /\ n \in Nat /\ m = n - 1 /\ i \in 1 .. n
      /\ \A x \in 1 .. m : qu2[x] = IF x < i THEN qu[x] ELSE qu[x + 1]
  BY <1>1 DEF Shrunk, IsSeq
<1>3. ASSUME NEW x \in 1 .. m PROVE \E y \in 1 .. n : y # i /\ qu2[x] = qu[y]
  <2>1. CASE x < i
    <3>1. x \in 1 .. n /\ x # i /\ qu2[x] = qu[x]
      BY <1>2, <2>1
    <3> QED BY <3>1
  <2>2. CASE ~(x < i)
    <3>1. x + 1 \in 1 .. n /\ x + 1 # i /\ qu2[x] = qu[x + 1]
      BY <1>2, <2>2
    <3> QED BY <3>1
  <2> QED BY <2>1, <2>2
<1>4. ASSUME NEW x \in 1 .. n, x # i PROVE \E y \in 1 .. m : qu2[y] = qu[x]
  <2>1. CASE x < i
    <3>1. x \in 1 .. m /\ qu2[x] = qu[x]
      BY <1>2, <2>1
    <3> QED BY <3>1
  <2>2. CASE ~(x < i)
    <3>1. x - 1 \in 1 .. m /\ ~(x - 1 < i) /\ (x - 1) + 1 = x
      BY <1>2, <1>4, <2>2
    <3>2. qu2[x - 1] = qu[x]
      BY <1>2, <3>1
    <3> QED BY <3>1, <3>2
  <2> QED BY <2>1, <2>2
<1>5. ASSUME NEW c, NEW r
      PROVE  /\ Queued(j, p, qu, c, r) /\ ~IsKernel(j, p, qu[i], j.body[c], r)
                  => Queued(j, p, qu2, c, r)
             /\ Queued(j, p, qu2, c, r) => Queued(j, p, qu, c, r)
  <2>1. ASSUME Queued(j, p, qu, c, r), ~IsKernel(j, p, qu[i], j.body[c], r)
        PROVE  Queued(j, p, qu2, c, r)
    <3>1. PICK x \in 1 .. n : IsKernel(j, p, qu[x], j.body[c], r)
      BY <1>1, <2>1 DEF Queued
    <3>2. x # i
      BY <2>1, <3>1
    <3>3. PICK y \in 1 .. m : qu2[y] = qu[x]
      BY <1>4, <3>2
    <3> QED BY <1>1, <3>1, <3>3 DEF Queued
  <2>2. ASSUME Queued(j, p, qu2, c, r) PROVE Queued(j, p, qu, c, r)
    <3>1. PICK x \in 1 .. m : IsKernel(j, p, qu2[x], j.body[c], r)
      BY <1>1, <2>2 DEF Queued
    <3>2. PICK y \in 1 .. n : qu2[x] = qu[y]
      BY <1>3
    <3> QED BY <1>1, <3>1, <3>2 DEF Queued
  <2> QED BY <2>1, <2>2
<1> QED BY <1>1, <1>3, <1>5 DEF Rest

\* All kernels of the round before have run when the queue comes to another one,
\* of which none has.
Turns(j, p, rd, a, qu2, b) ==
  /\ b \in Nat /\ Base(qu2, rd) = b + 1
  /\ \A c : /\ IsLaunch(j, c) => Issued(j, rd, a, c, b) /\ ~Queued(j, p, qu2, c, b)
            /\ Issued(j, rd, a, c, b + 1) => Queued(j, p, qu2, c, b + 1)

LEMMA QueueTurns ==
  ASSUME NEW j, Known(j), OneStage, NEW p, NEW rd, NEW a, NEW qu, QueueOK(j, p, rd, a, qu),
         NEW i \in 1 .. Len(qu), NEW b \in Nat, b = Base(qu, rd), qu[i].round = b,
         NEW qu2, Shrunk(qu, i, qu2), InOrder(qu2)
  PROVE  Base(qu2, rd) = b \/ Turns(j, p, rd, a, qu2, b)
<1>1. IsSeq(qu, Len(qu)) /\ rd \in Nat /\ AllThere(j, p, rd, a, qu)
  BY DEF QueueOK
<1>2. \A x \in 1 .. Len(qu) : qu[x].round \in Nat /\ b <= qu[x].round /\ qu[x].round <= rd
  BY QueueFacts
<1>3. PICK m : m = Len(qu2)
  OBVIOUS
<1>4. m \in Nat
  BY <1>3 DEF Shrunk, IsSeq
<1>5. \A x \in 1 .. m : qu2[x].round \in Nat /\ b <= qu2[x].round /\ qu2[x].round <= rd
  <2> TAKE x \in 1 .. m
  <2>1. Rest(j, p, qu, i, qu2)
    BY <1>1, QueueRest
  <2>2. PICK y \in 1 .. Len(qu) : qu2[x] = qu[y]
    BY <1>3, <2>1 DEF Rest
  <2> QED BY <1>2, <2>2
<1>6. b <= rd
  BY <1>2
<1>7. PICK z : z = Base(qu2, rd)
  OBVIOUS
<1>8. /\ z \in Nat /\ b <= z /\ z <= rd
      /\ \A x \in 1 .. m : z <= qu2[x].round
  <2>1. CASE m = 0
    BY <1>1, <1>3, <1>6, <1>7, <2>1 DEF Base
  <2>2. CASE m # 0
    <3>1. 1 \in 1 .. m
      BY <1>4, <2>2
    <3>2. z = qu2[1].round
      BY <1>3, <1>7, <2>2 DEF Base
    <3>3. \A x \in 1 .. m : qu2[1].round <= qu2[x].round
      BY <1>3, <3>1 DEF InOrder
    <3> QED BY <1>5, <3>1, <3>2, <3>3
  <2> QED BY <2>1, <2>2
<1> SUFFICES ASSUME z # b PROVE Turns(j, p, rd, a, qu2, b)
  BY <1>7
<1>9. b < z /\ b < rd
  BY <1>1, <1>8
<1>10. ASSUME NEW c, IsLaunch(j, c) PROVE Issued(j, rd, a, c, b) /\ ~Queued(j, p, qu2, c, b)
  <2>1. Issued(j, rd, a, c, b)
    BY <1>9, <1>10 DEF Issued
  <2>2. ASSUME NEW x \in 1 .. m, IsKernel(j, p, qu2[x], j.body[c], b) PROVE FALSE
    BY <1>8, <1>9, <2>2 DEF IsKernel
  <2> QED BY <1>3, <2>1, <2>2 DEF Queued
<1>11. ASSUME NEW c, Issued(j, rd, a, c, b + 1) PROVE Queued(j, p, qu2, c, b + 1)
  <2>1. Queued(j, p, qu, c, b + 1)
    <3>1. b + 1 > Base(qu, rd)
      OBVIOUS
    <3> QED BY <1>1, <1>11, <3>1 DEF AllThere
  <2>2. ~IsKernel(j, p, qu[i], j.body[c], b + 1)
    BY DEF IsKernel
  <2> QED BY <1>1, <2>1, <2>2, QueueRest DEF Rest
<1>12. z = b + 1
  <2> SUFFICES ASSUME z # b + 1 PROVE FALSE
    OBVIOUS
  <2>1. b + 1 < z /\ b + 1 < rd /\ b + 1 \in Nat
    BY <1>1, <1>8, <1>9
  <2>2. PICK c : IsLaunch(j, c)
    BY SomeLaunch
  <2>3. Queued(j, p, qu2, c, b + 1)
    BY <1>11, <2>1, <2>2 DEF Issued
  <2>4. PICK x \in 1 .. m : IsKernel(j, p, qu2[x], j.body[c], b + 1)
    BY <1>3, <2>3 DEF Queued
  <2> QED BY <1>8, <2>1, <2>4 DEF IsKernel
<1> QED BY <1>7, <1>10, <1>11, <1>12 DEF Turns

\* The first kernel has run.
HasRun(j, p, rd, a, qu, i, qu2) ==
  /\ QueueOK(j, p, rd, a, qu2) /\ qu[i].round = Base(qu, rd)
  /\ Base(qu2, rd) = Base(qu, rd) \/ Turns(j, p, rd, a, qu2, Base(qu, rd))

\* A kernel has run.
LEMMA QueueRun ==
  ASSUME NEW j, Known(j), OneStage, NEW p, NEW rd, NEW a, NEW qu, QueueOK(j, p, rd, a, qu),
         NEW i \in 1 .. Len(qu), \A m \in 1 .. i - 1 : ~Ordered(qu[m].stream, qu[i].stream),
         NEW qu2, Shrunk(qu, i, qu2)
  PROVE  HasRun(j, p, rd, a, qu, i, qu2)
<1>1. /\ IsSeq(qu, Len(qu)) /\ rd \in Nat /\ a \in Nat /\ Launched(j, p, rd, a, qu) /\ InOrder(qu)
      /\ Drained(j, rd, a, qu) /\ Blocked(j, rd, a, qu) /\ AllThere(j, p, rd, a, qu)
      /\ (rd = j.rounds => Len(qu) = 0)
  BY DEF QueueOK
<1>2. qu[i].round = Base(qu, rd) /\ (~Streamed(j) => i = 1)
  BY RunsFirst
<1>3. PICK n, m : n = Len(qu) /\ m = Len(qu2)
  OBVIOUS
<1>4. /\ n \in Nat /\ m = n - 1 /\ i \in 1 .. n /\ IsSeq(qu2, m)
      /\ \A x \in 1 .. m : qu2[x] = IF x < i THEN qu[x] ELSE qu[x + 1]
  BY <1>1, <1>3 DEF Shrunk, IsSeq
<1>5. m \in Nat /\ n # 0
  BY <1>4
<1>6. \A x \in 1 .. m : \E y \in 1 .. n : qu2[x] = qu[y]
  <2>1. Rest(j, p, qu, i, qu2)
    BY <1>1, QueueRest
  <2> QED BY <1>3, <2>1 DEF Rest
<1>7. Launched(j, p, rd, a, qu2)
  <2> SUFFICES ASSUME NEW x \in 1 .. m
               PROVE  \E c : /\ Issued(j, rd, a, c, qu2[x].round)
                             /\ IsKernel(j, p, qu2[x], j.body[c], qu2[x].round)
    BY <1>3 DEF Launched
  <2>1. PICK y \in 1 .. n : qu2[x] = qu[y]
    BY <1>6
  <2> QED BY <1>1, <1>3, <2>1 DEF Launched
<1>8. InOrder(qu2)
  <2> SUFFICES ASSUME NEW x \in 1 .. m, NEW y \in 1 .. m, x <= y
               PROVE  qu2[x].round <= qu2[y].round
    BY <1>3 DEF InOrder
  <2>1. PICK u, v : /\ u = (IF x < i THEN x ELSE x + 1) /\ v = (IF y < i THEN y ELSE y + 1)
    OBVIOUS
  <2>2. u \in 1 .. n /\ v \in 1 .. n /\ u <= v /\ qu2[x] = qu[u] /\ qu2[y] = qu[v]
    BY <1>4, <2>1
  <2>3. qu[u].round <= qu[v].round
    BY <1>1, <1>3, <2>2 DEF InOrder
  <2> QED BY <2>2, <2>3
<1>9. Drained(j, rd, a, qu2)
  <2> SUFFICES ASSUME Streamed(j)
               PROVE  (\A x \in 1 .. m : qu2[x].round = rd) /\ ~(a > Len(j.body))
    BY <1>3 DEF Drained
  <2>1. ASSUME NEW x \in 1 .. m PROVE qu2[x].round = rd
    <3>1. PICK y \in 1 .. n : qu2[x] = qu[y]
      BY <1>6
    <3> QED BY <1>1, <1>3, <3>1 DEF Drained
  <2> QED BY <1>1, <1>3, <1>5, <2>1 DEF Drained
<1>10. Blocked(j, rd, a, qu2)
  <2> SUFFICES ASSUME ~Streamed(j), j.width > 0, NEW x \in 1 .. m,
                      qu2[x].round < rd \/ a > Len(j.body)
               PROVE  \E y \in 1 .. m : x <= y /\ qu2[y].stream = DefaultStream
    BY <1>3 DEF Blocked
  <2>1. i = 1
    BY <1>2
  <2>2. x + 1 \in 1 .. n /\ qu2[x] = qu[x + 1]
    BY <1>4, <2>1
  <2>3. PICK y \in 1 .. n : x + 1 <= y /\ qu[y].stream = DefaultStream
    <3>1. PICK w : w = x + 1
      OBVIOUS
    <3>2. w \in 1 .. n /\ (qu[w].round < rd \/ a > Len(j.body))
      BY <2>2, <3>1
    <3>3. \E y \in 1 .. n : w <= y /\ qu[y].stream = DefaultStream
      BY <1>1, <1>3, <3>2 DEF Blocked
    <3> QED BY <3>1, <3>3
  <2>4. PICK z : z = y - 1
    OBVIOUS
  <2>5. z \in 1 .. m /\ x <= z /\ z + 1 = y /\ ~(z < i)
    BY <1>4, <2>1, <2>3, <2>4
  <2>6. qu2[z] = qu[y]
    BY <1>4, <2>5
  <2> QED BY <2>3, <2>5, <2>6
<1>11. PICK b : b = Base(qu, rd)
  OBVIOUS
<1>12. b \in Nat /\ qu[i].round = b
  BY <1>2, <1>11, QueueFacts
<1>13. Base(qu2, rd) = b \/ Turns(j, p, rd, a, qu2, b)
  BY <1>8, <1>11, <1>12, QueueTurns
<1>14. AllThere(j, p, rd, a, qu2)
  <2> SUFFICES ASSUME NEW c, NEW r, Issued(j, rd, a, c, r), r > Base(qu2, rd)
               PROVE  Queued(j, p, qu2, c, r)
    BY DEF AllThere
  <2>1. r \in Nat /\ r > b
    BY <1>12, <1>13 DEF Issued, Turns
  <2>2. Queued(j, p, qu, c, r)
    BY <1>1, <1>11, <2>1 DEF AllThere
  <2>3. ~IsKernel(j, p, qu[i], j.body[c], r)
    BY <1>12, <2>1 DEF IsKernel
  <2>4. Rest(j, p, qu, i, qu2)
    BY <1>1, QueueRest
  <2> QED BY <2>2, <2>3, <2>4 DEF Rest
<1>15. ~(rd = j.rounds)
  BY <1>1, <1>3, <1>5
<1>16. IsSeq(qu2, Len(qu2))
  BY <1>3, <1>4
<1>17. QueueOK(j, p, rd, a, qu2)
  BY <1>1, <1>2, <1>7, <1>8, <1>9, <1>10, <1>11, <1>13, <1>14, <1>15, <1>16 DEF QueueOK
<1> QED BY <1>17, <1>2, <1>12, <1>13 DEF HasRun

-----------------------------------------------------------------------------
(* What the grids of a process hold.                                        *)

Cells(j, p) == Block(Origin, j.extent[p])

\* What launch c of the map before round b + 1 computes has been written.
Written(j, p, c, b, da) ==
  \A l \in Cells(j, p) : PointOf(j, p, l) \in Computes(j, p, j.body[c]) => da[1 - (b % 2)][l] = b + 1

\* The kernels before round b have run and those in the queue have not.
DataOK(j, p, rd, a, qu, da, b) ==
  /\ da \in [0 .. 1 -> [Cells(j, p) -> Int]]
  /\ Holds(j, p, b, da[b % 2])
  /\ \A l \in Cells(j, p) : ~InDom(j, PointOf(j, p, l)) => da[0][l] = 0 /\ da[1][l] = 0
  /\ \A c : Issued(j, rd, a, c, b) => Queued(j, p, qu, c, b) \/ Written(j, p, c, b, da)

LEMMA Parity ==
  ASSUME NEW r \in Nat
  PROVE  r % 2 \in 0 .. 1 /\ (r + 1) % 2 = 1 - (r % 2) /\ 1 - (r % 2) \in 0 .. 1
OBVIOUS

LEMMA CellIs ==
  ASSUME NEW j, Known(j), WidthsFit, NEW p \in All(j), NEW l
  PROVE  l \in Cells(j, p) <=> l \in Vector /\ \A e \in Axis : 0 <= l[e] /\ l[e] < j.extent[p][e]
<1>1. j.extent[p] \in Vector
  BY PartFacts, Vectors DEF Extent, Vector
<1>2. Origin \in Vector /\ \A e \in Axis : Origin[e] = 0
  BY Vectors DEF Origin, Vector
<1> QED BY <1>1, <1>2, BlockIs DEF Cells

\* Launches are put into the queue.
LEMMA DataStays ==
  ASSUME NEW j, NEW p, NEW rd, NEW a, NEW qu, NEW da, NEW b, DataOK(j, p, rd, a, qu, da, b),
         NEW rd2, NEW a2, NEW qu2,
         \A c : /\ Issued(j, rd2, a2, c, b) => Issued(j, rd, a, c, b) \/ Queued(j, p, qu2, c, b)
                /\ Queued(j, p, qu, c, b) => Queued(j, p, qu2, c, b)
  PROVE  DataOK(j, p, rd2, a2, qu2, da, b)
<1>1. ASSUME NEW c, Issued(j, rd2, a2, c, b)
      PROVE  Queued(j, p, qu2, c, b) \/ Written(j, p, c, b, da)
  <2>1. Issued(j, rd, a, c, b) => Queued(j, p, qu, c, b) \/ Written(j, p, c, b, da)
    BY DEF DataOK
  <2> QED BY <1>1, <2>1
<1> QED BY <1>1 DEF DataOK

\* All kernels of the round have run.
LEMMA DataTurns ==
  ASSUME NEW j, Known(j), WidthsFit, OneStage, DomainsWide, NEW p \in All(j),
         NEW rd, NEW a, NEW qu, NEW da, NEW b \in Nat, DataOK(j, p, rd, a, qu, da, b),
         \A c : IsLaunch(j, c) => Issued(j, rd, a, c, b) /\ ~Queued(j, p, qu, c, b),
         NEW rd2, NEW a2, NEW qu2,
         \A c : Issued(j, rd2, a2, c, b + 1) => Queued(j, p, qu2, c, b + 1)
  PROVE  DataOK(j, p, rd2, a2, qu2, da, b + 1)
<1>1. /\ da \in [0 .. 1 -> [Cells(j, p) -> Int]]
      /\ \A l \in Cells(j, p) : ~InDom(j, PointOf(j, p, l)) => da[0][l] = 0 /\ da[1][l] = 0
      /\ \A c : Issued(j, rd, a, c, b) => Queued(j, p, qu, c, b) \/ Written(j, p, c, b, da)
  BY DEF DataOK
<1>2. (b + 1) % 2 = 1 - (b % 2) /\ 1 - (b % 2) \in 0 .. 1
  BY Parity
<1>3. ASSUME NEW l \in Cells(j, p)
      PROVE  da[1 - (b % 2)][l] = IF InDom(j, PointOf(j, p, l)) THEN b + 1 ELSE 0
  <2>1. CASE ~InDom(j, PointOf(j, p, l))
    <3>1. PICK h \in 0 .. 1 : h = 1 - (b % 2)
      BY <1>2
    <3>2. h = 0 \/ h = 1
      BY <3>1
    <3> QED BY <1>1, <2>1, <3>1, <3>2
  <2>2. CASE InDom(j, PointOf(j, p, l))
    <3>1. l \in Block(Origin, j.extent[p])
      BY DEF Cells
    <3>2. l \in Vector /\ \A e \in Axis : 0 <= l[e] /\ l[e] < j.extent[p][e]
      BY CellIs
    <3>3. PICK x : x = PointOf(j, p, l)
      OBVIOUS
    <3>4. InPart(j, p, x)
      BY <3>2, <3>3, OwnPoint DEF InPart
    <3>5. Within(Part(j, p), x)
      BY <2>2, <3>3, <3>4, PartIs
    <3>6. PICK c \in 1 .. Len(j.body) : IsLaunch(j, c) /\ x \in Computes(j, p, j.body[c])
      BY <3>5, Covered
    <3>7. Written(j, p, c, b, da)
      BY <1>1, <3>6
    <3>8. da[1 - (b % 2)][l] = b + 1
      BY <3>3, <3>6, <3>7 DEF Written
    <3> QED BY <2>2, <3>8
  <2> QED BY <2>1, <2>2
<1>4. Holds(j, p, b + 1, da[(b + 1) % 2])
  BY <1>2, <1>3 DEF Holds, Cells
<1> QED BY <1>1, <1>4 DEF DataOK

\* What kernel k computes is what the launch computes whose kernel it is.
LEMMA SameComputes ==
  ASSUME NEW j, NEW p, NEW k, NEW c, NEW d, NEW r, IsKernel(j, p, k, c, r), IsKernel(j, p, k, d, r)
  PROVE  Computes(j, p, c) = Computes(j, p, d)
BY DEF IsKernel, Computes

\* Launch c of round b writes the points that it goes through.
Writes(j, p, c, b, da, da2) ==
  da2 = [da EXCEPT ![1 - (b % 2)] =
           [l \in Cells(j, p) |-> IF PointOf(j, p, l) \in Computes(j, p, j.body[c]) THEN b + 1
                                  ELSE da[1 - (b % 2)][l]]]

\* A kernel has run.
LEMMA DataRun ==
  ASSUME NEW j, Known(j), WidthsFit, OneStage, DomainsWide, NEW p \in All(j),
         NEW rd, NEW a, NEW qu, NEW da, NEW b \in Nat, DataOK(j, p, rd, a, qu, da, b),
         NEW i, NEW qu2, Rest(j, p, qu, i, qu2), NEW c, IsLaunch(j, c),
         IsKernel(j, p, qu[i], j.body[c], b), NEW da2, Writes(j, p, c, b, da, da2)
  PROVE  DataOK(j, p, rd, a, qu2, da2, b)
<1>1. /\ da \in [0 .. 1 -> [Cells(j, p) -> Int]] /\ Holds(j, p, b, da[b % 2])
      /\ \A l \in Cells(j, p) : ~InDom(j, PointOf(j, p, l)) => da[0][l] = 0 /\ da[1][l] = 0
      /\ \A x : Issued(j, rd, a, x, b) => Queued(j, p, qu, x, b) \/ Written(j, p, x, b, da)
  BY DEF DataOK
<1>2. PICK h, g : h = 1 - (b % 2) /\ g = b % 2
  OBVIOUS
<1>3. h \in 0 .. 1 /\ g \in 0 .. 1 /\ h # g
  BY <1>2, Parity
<1>4. /\ da2 \in [0 .. 1 -> [Cells(j, p) -> Int]] /\ da2[g] = da[g]
      /\ \A l \in Cells(j, p) : da2[h][l] = IF PointOf(j, p, l) \in Computes(j, p, j.body[c])
                                             THEN b + 1 ELSE da[h][l]
  <2>1. PICK f : f = [l \in Cells(j, p) |->
                        IF PointOf(j, p, l) \in Computes(j, p, j.body[c]) THEN b + 1 ELSE da[h][l]]
    OBVIOUS
  <2>2. da[h] \in [Cells(j, p) -> Int]
    BY <1>1, <1>3
  <2>3. f \in [Cells(j, p) -> Int]
    BY <2>1, <2>2
  <2>4. da2 = [da EXCEPT ![h] = f]
    BY <1>2, <2>1 DEF Writes
  <2>5. da2 \in [0 .. 1 -> [Cells(j, p) -> Int]] /\ da2[g] = da[g] /\ da2[h] = f
    BY <1>1, <1>3, <2>3, <2>4
  <2> QED BY <2>1, <2>5
<1>5. Holds(j, p, b, da2[b % 2])
  BY <1>1, <1>2, <1>4
<1>6. ASSUME NEW l \in Cells(j, p), ~InDom(j, PointOf(j, p, l)) PROVE da2[0][l] = 0 /\ da2[1][l] = 0
  <2>1. da[h][l] = 0 /\ da[g][l] = 0
    BY <1>1, <1>3, <1>6
  <2>2. PointOf(j, p, l) \notin Computes(j, p, j.body[c])
    BY <1>6, ComputesIn
  <2>3. da2[h][l] = 0 /\ da2[g][l] = 0
    BY <1>4, <2>1, <2>2
  <2> QED BY <1>3, <2>3
<1>7. ASSUME NEW x, Issued(j, rd, a, x, b)
      PROVE  Queued(j, p, qu2, x, b) \/ Written(j, p, x, b, da2)
  <2>1. CASE IsKernel(j, p, qu[i], j.body[x], b)
    <3>1. Computes(j, p, j.body[x]) = Computes(j, p, j.body[c])
      BY <2>1, SameComputes
    <3> QED BY <1>2, <1>4, <3>1 DEF Written
  <2>2. CASE ~IsKernel(j, p, qu[i], j.body[x], b) /\ Queued(j, p, qu, x, b)
    BY <2>2 DEF Rest
  <2>3. CASE Written(j, p, x, b, da)
    BY <1>2, <1>4, <2>3 DEF Written
  <2> QED BY <1>1, <1>7, <2>1, <2>2, <2>3
<1> QED BY <1>4, <1>5, <1>6, <1>7 DEF DataOK

-----------------------------------------------------------------------------
(* What a kernel computes.                                                  *)

\* Kernel k finds what it reads in round r.
Reads(j, p, k, r, peer, da) ==
  /\ Places(j, p, k.dev)
  /\ k.variant # "inner" => Complete(j, p, k.dev) /\ Filled(j, p, r, peer)
  /\ Holds(j, p, r, da) /\ DOMAIN da = Block(Origin, j.extent[p])

LEMMA LocalPlace ==
  ASSUME NEW j, Known(j), WidthsFit, NEW p \in All(j), NEW dev, Places(j, p, dev), NEW y \in Vector
  PROVE  /\ Local(dev, y) \in Vector /\ PointOf(j, p, Local(dev, y)) = y
         /\ \A e \in Axis : Local(dev, y)[e] = y[e] - j.offset[p][e]
<1>1. dev.offset = j.offset[p] /\ j.offset[p] \in Extent
  BY PartFacts DEF Places
<1>2. j.offset[p] \in Vector
  BY <1>1 DEF Extent, Vector
<1>3. PICK l \in Vector : l = Minus(y, j.offset[p])
  BY <1>2, Vectors
<1>4. \A e \in Axis : /\ l[e] = y[e] - j.offset[p][e] /\ y[e] \in Int /\ j.offset[p][e] \in Int
                      /\ Plus(l, j.offset[p])[e] = l[e] + j.offset[p][e]
  BY <1>2, <1>3, Vectors
<1>5. PICK z \in Vector : z = Plus(l, j.offset[p])
  BY <1>2, Vectors
<1>6. Plus(l, j.offset[p]) = y
  <2>1. \A e \in Axis : z[e] = y[e]
    BY <1>4, <1>5
  <2> QED BY <1>5, <2>1, Vectors
<1> QED BY <1>1, <1>3, <1>4, <1>6 DEF Local, PointOf

\* What is read without a look for a halo is in the part.
LEMMA StaysInside ==
  ASSUME NEW j, Known(j), WidthsFit, OneStage, DomainsWide, NEW p \in All(j),
         NEW i, IsLaunch(j, i), NEW x \in Computes(j, p, j.body[i]), NEW o \in j.stencil,
         \/ j.body[i].variant = "inner"
         \/ /\ j.body[i].variant = "face"
            /\ \A e \in Axis \ {j.body[i].face[1]} : o[e] = 0
            /\ IF j.body[i].face[2] THEN o[j.body[i].face[1]] <= 0 ELSE o[j.body[i].face[1]] >= 0
  PROVE  \A e \in Axis : /\ j.offset[p][e] <= x[e] + o[e]
                         /\ x[e] + o[e] < j.offset[p][e] + j.extent[p][e]
<1>1. PICK P : P = Part(j, p)
  OBVIOUS
<1>2. IsDomain(P) /\ \A y : Within(P, y) => InPart(j, p, y)
  BY <1>1, PartIs
<1>3. Within(P, x) /\ x \in Vector
  BY <1>1, ComputesIn DEF Within
<1>4. j.width \in Nat /\ \A e \in Axis : /\ o[e] \in Int /\ -j.width <= o[e] /\ o[e] <= j.width
  <2>1. j.width \in Nat
    BY JobTypes
  <2>2. ASSUME NEW e \in Axis PROVE o[e] \in Int /\ -j.width <= o[e] /\ o[e] <= j.width
    <3>1. o[e] \in Int /\ -j.bw[e] <= o[e] /\ o[e] <= j.fw[e]
      BY JobStencil
    <3>2. WidthIn(j, e, TRUE) = j.fw[e] /\ WidthIn(j, e, FALSE) = j.bw[e]
      BY DEF WidthIn
    <3>3. \A right \in BOOLEAN : WidthIn(j, e, right) \in Nat /\ WidthIn(j, e, right) <= j.width
      BY JobTypes
    <3>4. /\ WidthIn(j, e, TRUE) \in Nat /\ WidthIn(j, e, TRUE) <= j.width
          /\ WidthIn(j, e, FALSE) \in Nat /\ WidthIn(j, e, FALSE) <= j.width
      BY ONLY <3>3
    <3>5. PICK u, v, w \in Nat : u = j.bw[e] /\ v = j.fw[e] /\ w = j.width /\ u <= w /\ v <= w
      BY ONLY <2>1, <3>2, <3>4
    <3>6. PICK n \in Int : n = o[e]
      BY ONLY <3>1
    <3>7. -w <= n /\ n <= w
      BY ONLY <3>1, <3>5, <3>6, u \in Nat, v \in Nat, w \in Nat, n \in Int
    <3> QED BY ONLY <3>5, <3>6, <3>7, n \in Int
  <2> QED BY <2>1, <2>2
<1>5. PICK y \in Vector : y = Plus(x, o)
  BY <1>3, JobStencil, Vectors
<1>6. /\ \A e \in Axis : /\ y[e] = x[e] + o[e] /\ x[e] \in Int
                         /\ P.lo[e] \in Int /\ P.hi[e] \in Int /\ P.lo[e] <= x[e] /\ x[e] < P.hi[e]
  <2>1. \A e \in Axis : y[e] = x[e] + o[e] /\ x[e] \in Int
    BY <1>3, <1>5, JobStencil, Vectors
  <2>2. \A e \in Axis : P.lo[e] \in Int /\ P.hi[e] \in Int
    BY <1>2, Vectors DEF IsDomain
  <2> QED BY <1>3, <2>1, <2>2 DEF Within
<1>7. ASSUME NEW e \in Axis PROVE P.lo[e] <= y[e] /\ y[e] < P.hi[e]
  <2>1. CASE j.body[i].variant = "inner"
    <3>1. InnerCall(j, i)
      BY <2>1, WideParts
    <3>2. P.lo[e] + j.width <= x[e] /\ x[e] < P.hi[e] - j.width
      BY <1>1, <3>1, ComputesIs
    <3> QED BY <1>4, <1>6, <3>2
  <2>2. CASE j.body[i].variant = "face"
    <3>1. FaceCall(j, i) /\ Wide(P, 2 * j.width)
      BY <1>1, <2>2, WideParts
    <3>2. PICK d, right : d = j.body[i].face[1] /\ right = j.body[i].face[2]
      OBVIOUS
    <3>3. d \in Axis /\ right \in BOOLEAN
      BY <3>1, <3>2 DEF FaceCall
    <3>4. AtFace(P, d, right, j.width, x)
      BY <1>1, <3>1, <3>2, ComputesIs
    <3>5. /\ \A u \in Axis \ {d} : o[u] = 0
          /\ IF right THEN o[d] <= 0 ELSE o[d] >= 0
      BY <2>2, <3>2
    <3>6. CASE e # d
      BY <1>6, <3>5, <3>6
    <3>7. CASE e = d
      <4>1. P.lo[d] + 2 * j.width <= P.hi[d]
        <5>1. P # Domain(Origin, Origin)
          <6> SUFFICES ASSUME P = Domain(Origin, Origin) PROVE FALSE
            OBVIOUS
          <6>1. P.lo = Origin /\ P.hi = Origin
            BY DEF Domain
          <6>2. P.lo[d] = 0 /\ P.hi[d] = 0
            BY <3>3, <6>1, Vectors
          <6> QED BY <1>6, <3>3, <6>2
        <5> QED BY <3>1, <3>3, <5>1 DEF Wide
      <4>2. IF right THEN x[d] >= P.hi[d] - j.width ELSE x[d] < P.lo[d] + j.width
        BY <3>4 DEF AtFace
      <4> QED BY <1>4, <1>6, <3>3, <3>5, <3>7, <4>1, <4>2
    <3> QED BY <3>6, <3>7
  <2>3. j.body[i].variant = "inner" \/ j.body[i].variant = "face"
    OBVIOUS
  <2> QED BY <2>1, <2>2, <2>3
<1>8. InPart(j, p, y)
  BY <1>2, <1>5, <1>7 DEF Within
<1> QED BY <1>6, <1>8 DEF InPart

\* What is read with a function that looks for halos.
LEMMA LooksFor ==
  ASSUME NEW j, Known(j), WidthsFit, NEW p \in All(j), NEW dev, Places(j, p, dev),
         Complete(j, p, dev), NEW x, InPart(j, p, x), NEW o \in j.stencil,
         NEW a, a = (IF j.regular THEN AddrRegular(dev, Plus(x, o), o)
                     ELSE AddrGeneric(dev, Plus(x, o)))
  PROVE  Located(dev, a, Local(dev, Plus(x, o)))
<1>1. /\ dev \in DevRec /\ dev.size = j.extent[p] /\ dev.offset = j.offset[p]
      /\ dev.bw = Bw(j, p) /\ dev.fw = Fw(j, p)
  BY DEF Places, Complete
<1>2. Descriptor3D(dev)
  <2>1. Shape(dev.size, dev.bw, dev.fw)
    BY <1>1, HeldFacts
  <2> QED BY <1>1, <2>1 DEF Descriptor3D, DevRec
<1>3. x \in Vector /\ o \in Vector
  BY JobStencil DEF InPart
<1>4. PICK y \in Vector : y = Plus(x, o)
  BY <1>3, Vectors
<1>5. \A e \in Axis : Inside(dev, Local(dev, x), e)
  <2> TAKE e \in Axis
  <2>1. Local(dev, x)[e] = x[e] - j.offset[p][e]
    BY <1>3, LocalPlace
  <2>2. j.offset[p][e] <= x[e] /\ x[e] < j.offset[p][e] + j.extent[p][e]
    BY DEF InPart
  <2>3. x[e] \in Int /\ j.offset[p][e] \in Nat /\ j.extent[p][e] \in Nat
    BY <1>3, Vectors, PartFacts
  <2> QED BY <1>1, <2>1, <2>2, <2>3 DEF Inside
<1>6. CASE j.regular
  <2>1. Located(dev, AddrRegular(dev, Plus(x, o), o), Local(dev, Plus(x, o)))
    BY <1>2, <1>3, <1>5, RegularLocated
  <2> QED BY <1>6, <2>1
<1>7. CASE ~j.regular
  <2>1. Located(dev, AddrGeneric(dev, y), Local(dev, y))
    BY <1>2, <1>4, GenericLocated
  <2> QED BY <1>4, <1>7, <2>1
<1> QED BY <1>6, <1>7

\* A kernel that finds what it reads computes the value of the next round.
LEMMA KernelReads ==
  ASSUME NEW j, Known(j), WidthsFit, OneStage, DomainsWide, NEW p \in All(j),
         NEW i, IsLaunch(j, i), NEW x \in Computes(j, p, j.body[i]),
         NEW k, NEW r, IsKernel(j, p, k, j.body[i], r), NEW peer, NEW da,
         Reads(j, p, k, r, peer, da), NEW o \in j.stencil,
         InSpace(j, WrapIn(j, Plus(x, o))),
         NEW a,
         \/ /\ a = AddrNoHalo(k.dev, Plus(x, o))
            /\ \/ k.variant = "inner"
               \/ /\ k.variant = "face" /\ \A e \in Axis \ {k.face[1]} : o[e] = 0
                  /\ IF k.face[2] THEN o[k.face[1]] <= 0 ELSE o[k.face[1]] >= 0
         \/ /\ k.variant # "inner"
            /\ a = (IF j.regular THEN AddrRegular(k.dev, Plus(x, o), o)
                    ELSE AddrGeneric(k.dev, Plus(x, o)))
  PROVE  FetchIn(j, p, peer, da, a) = After(j, WrapIn(j, Plus(x, o)), r)
<1>1. /\ Places(j, p, k.dev)
      /\ k.variant # "inner" => Complete(j, p, k.dev) /\ Filled(j, p, r, peer)
      /\ Holds(j, p, r, da) /\ DOMAIN da = Block(Origin, j.extent[p])
  BY DEF Reads
<1>2. k.variant = j.body[i].variant /\ k.face = j.body[i].face
  BY DEF IsKernel
<1>3. InPart(j, p, x) /\ x \in Vector
  BY ComputesIn DEF InPart
<1>4. PICK y \in Vector : y = Plus(x, o)
  BY <1>3, JobStencil, Vectors
<1>5. PICK l \in Vector : /\ l = Local(k.dev, y) /\ PointOf(j, p, l) = y
                          /\ \A e \in Axis : l[e] = y[e] - j.offset[p][e]
  BY <1>1, LocalPlace
<1>6. CASE /\ a = AddrNoHalo(k.dev, Plus(x, o))
           /\ \/ k.variant = "inner"
              \/ /\ k.variant = "face" /\ \A e \in Axis \ {k.face[1]} : o[e] = 0
                 /\ IF k.face[2] THEN o[k.face[1]] <= 0 ELSE o[k.face[1]] >= 0
  <2>1. \A e \in Axis : /\ j.offset[p][e] <= x[e] + o[e]
                        /\ x[e] + o[e] < j.offset[p][e] + j.extent[p][e]
    BY <1>2, <1>6, StaysInside
  <2>2. ASSUME NEW e \in Axis PROVE 0 <= l[e] /\ l[e] < j.extent[p][e]
    <3>1. y[e] = x[e] + o[e] /\ x[e] \in Int /\ o[e] \in Int
      BY <1>3, <1>4, JobStencil, Vectors
    <3>2. j.offset[p][e] \in Nat /\ j.extent[p][e] \in Nat
      BY PartFacts
    <3> QED BY <1>5, <2>1, <3>1, <3>2
  <2>3. FetchIn(j, p, peer, da, InGrid(l)) = After(j, WrapIn(j, PointOf(j, p, l)), r)
    BY <1>1, <2>2, FetchInside
  <2> QED BY <1>4, <1>5, <1>6, <2>3 DEF AddrNoHalo
<1>7. CASE /\ k.variant # "inner"
           /\ a = (IF j.regular THEN AddrRegular(k.dev, Plus(x, o), o)
                   ELSE AddrGeneric(k.dev, Plus(x, o)))
  <2>1. Located(k.dev, a, Local(k.dev, Plus(x, o)))
    BY <1>1, <1>3, <1>7, LooksFor
  <2>2. Located(k.dev, a, l) /\ PointOf(j, p, l) = Plus(x, o)
    BY <1>4, <1>5, <2>1
  <2> QED BY <1>1, <1>3, <1>7, <2>2, FetchFound
<1> QED BY <1>6, <1>7

\* The same of the definitions of CudaRun.
LEMMA ComputedIs ==
  ASSUME Known(job), WidthsFit, OneStage, DomainsWide, NEW p \in All(job),
         NEW i, IsLaunch(job, i), NEW x \in Computes(job, p, job.body[i]),
         NEW k, IsKernel(job, p, k, job.body[i], k.round), k.round \in Nat,
         Reads(job, p, k, k.round, grid[p][k.round % 2].peer, data[p][k.round % 2])
  PROVE  Computed(p, k, x) = k.round + 1
<1>1. PICK r \in Nat : r = k.round
  OBVIOUS
<1>2. PICK peer, da : peer = grid[p][r % 2].peer /\ da = data[p][r % 2]
  OBVIOUS
<1>3. Reads(job, p, k, r, peer, da) /\ IsKernel(job, p, k, job.body[i], r)
  BY <1>1, <1>2
<1>4. ASSUME NEW o \in job.stencil, NEW y, y = Wrapped(Plus(x, o)), InsideOf(y)
      PROVE  Fetch(p, k, Addr(k, x, o)) = Expected(y, r)
  <2>1. y = WrapIn(job, Plus(x, o)) /\ InSpace(job, WrapIn(job, Plus(x, o)))
    BY <1>4 DEF Wrapped, WrapIn, InsideOf, InSpace
  <2>2. PICK a : a = Addr(k, x, o)
    OBVIOUS
  <2>3. o \in Vector /\ \A e \in Axis : o[e] \in Int
    BY JobStencil
  <2>4. k.variant = job.body[i].variant /\ k.face = job.body[i].face
    BY DEF IsKernel
  <2>5. k.variant = "face" => k.face[1] \in Axis /\ k.face[2] \in BOOLEAN
    <3> SUFFICES ASSUME k.variant = "face" PROVE k.face[1] \in Axis /\ k.face[2] \in BOOLEAN
      OBVIOUS
    <3>1. FaceCall(job, i)
      BY <2>4, WideParts
    <3>2. k.face \in Axis \X BOOLEAN
      BY <2>4, <3>1 DEF FaceCall
    <3> QED BY <3>2
  <2>6. \/ /\ a = AddrNoHalo(k.dev, Plus(x, o))
           /\ \/ k.variant = "inner"
              \/ /\ k.variant = "face" /\ \A e \in Axis \ {k.face[1]} : o[e] = 0
                 /\ IF k.face[2] THEN o[k.face[1]] <= 0 ELSE o[k.face[1]] >= 0
        \/ /\ k.variant # "inner"
           /\ a = (IF job.regular THEN AddrRegular(k.dev, Plus(x, o), o)
                   ELSE AddrGeneric(k.dev, Plus(x, o)))
    <3>1. CASE k.variant = "inner"
      BY <2>2, <3>1 DEF Addr
    <3>2. CASE k.variant # "inner" /\ k.variant # "face"
      BY <2>2, <3>2 DEF Addr
    <3>3. CASE k.variant = "face"
      <4>1. PICK d, right : d = k.face[1] /\ right = k.face[2]
        OBVIOUS
      <4>2. o[d] \in Int /\ right \in BOOLEAN
        BY <2>3, <2>5, <3>3, <4>1
      <4>3. /\ (IF right THEN o[d] <= 0 ELSE o[d] >= 0)
                 <=> ~(IF right THEN o[d] > 0 ELSE o[d] < 0)
        BY <4>2
      <4>4. a = IF /\ job.regular /\ \A e \in Axis \ {d} : o[e] = 0
                   /\ ~(IF right THEN o[d] > 0 ELSE o[d] < 0)
                THEN AddrNoHalo(k.dev, Plus(x, o))
                ELSE IF job.regular THEN AddrRegular(k.dev, Plus(x, o), o)
                     ELSE AddrGeneric(k.dev, Plus(x, o))
        BY <2>2, <3>3, <4>1 DEF Addr
      <4> QED BY <3>3, <4>1, <4>3, <4>4
    <3> QED BY <3>1, <3>2, <3>3
  <2>7. FetchIn(job, p, peer, da, a) = After(job, WrapIn(job, Plus(x, o)), r)
    BY <1>3, <2>1, <2>6, KernelReads
  <2>8. Fetch(p, k, a) = FetchIn(job, p, peer, da, a)
    BY <1>1, <1>2 DEF Fetch, FetchIn, Content, Point, PointOf, Offset
  <2>9. Expected(y, r) = After(job, y, r)
    BY DEF Expected, After, InDomain, InDom
  <2> QED BY <2>1, <2>2, <2>7, <2>8, <2>9
<1> QED BY <1>1, <1>4 DEF Computed

-----------------------------------------------------------------------------
(* What the host knows of a grid.                                           *)

GridShape(g) ==
  /\ DOMAIN g = {"bw", "fw", "diag", "peer", "self", "dev"}
  /\ g.bw \in Extent /\ g.fw \in Extent
  /\ DOMAIN g.peer = Axis /\ \A d \in Axis : DOMAIN g.peer[d] = {"bw", "fw"}

GridOK(j, p, g) ==
  /\ GridShape(g) /\ Places(j, p, g.dev)
  /\ g.diag \in {FALSE, j.diagonal}
  /\ \A d \in Axis : /\ g.bw[d] \in {0, Held(j, p, d, FALSE)} /\ g.fw[d] \in {0, Held(j, p, d, TRUE)}
                     /\ g.dev.bw[d] \in {0, Held(j, p, d, FALSE)}
                     /\ g.dev.fw[d] \in {0, Held(j, p, d, TRUE)}

\* A halo has been received before map r.
HaloIn(j, p, r, d, fw, g) ==
  /\ (IF fw THEN g.fw[d] ELSE g.bw[d]) = Held(j, p, d, fw)
  /\ g.peer[d][Half(fw)] = HaloSeq(j, p, r, d, fw)

\* What grid g, which is read in round r, has at operation a.
Loaded(j, p, r, a, g) ==
  /\ \A d \in Axis, fw \in BOOLEAN :
       /\ Receives(j, p, d, fw) /\ RecvAt(j, d, fw) < a => HaloIn(j, p, r, d, fw, g)
       /\ Sends(j, p, d, fw) /\ SendAt(j, d, fw) < a => g.diag = j.diagonal
  /\ j.width > 0 /\ WaitAt(j, 1) < a => Complete(j, p, g.dev)

\* The host is at a call with dimension d, which it makes.
CallIs(j, a, o, d) == j.body[a].op = o /\ j.body[a].d = d

LEMMA CallOf ==
  ASSUME NEW j, Known(j), OneStage, NEW p, NEW a, NEW d \in Axis
  PROVE  /\ \A fw \in BOOLEAN :
              /\ Receives(j, p, d, fw) /\ a = RecvAt(j, d, fw) =>
                   CallIs(j, a, "recv", d) /\ j.body[a].fw = fw
              /\ Sends(j, p, d, fw) /\ a = SendAt(j, d, fw) =>
                   CallIs(j, a, "send", d) /\ j.body[a].fw = fw
         /\ j.width > 0 /\ a = WaitAt(j, d) => CallIs(j, a, "wait", d)
<1>1. ASSUME NEW fw \in BOOLEAN
      PROVE  /\ Receives(j, p, d, fw) /\ a = RecvAt(j, d, fw) =>
                  CallIs(j, a, "recv", d) /\ j.body[a].fw = fw
             /\ Sends(j, p, d, fw) /\ a = SendAt(j, d, fw) =>
                  CallIs(j, a, "send", d) /\ j.body[a].fw = fw
  <2>1. ASSUME Receives(j, p, d, fw), a = RecvAt(j, d, fw)
        PROVE  CallIs(j, a, "recv", d) /\ j.body[a].fw = fw
    <3>1. j.width > 0
      BY <2>1, Wanted
    <3>2. /\ j.body[RecvAt(j, d, fw)].op = "recv" /\ j.body[RecvAt(j, d, fw)].d = d
          /\ j.body[RecvAt(j, d, fw)].fw = fw
      BY <3>1, Exchanged
    <3> QED BY <2>1, <3>2, Zenon DEF CallIs
  <2>2. ASSUME Sends(j, p, d, fw), a = SendAt(j, d, fw)
        PROVE  CallIs(j, a, "send", d) /\ j.body[a].fw = fw
    <3>1. j.width > 0
      BY <2>2, Wanted
    <3>2. /\ j.body[SendAt(j, d, fw)].op = "send" /\ j.body[SendAt(j, d, fw)].d = d
          /\ j.body[SendAt(j, d, fw)].fw = fw
      BY <3>1, Exchanged
    <3> QED BY <2>2, <3>2, Zenon DEF CallIs
  <2> QED BY <2>1, <2>2
<1>2. ASSUME j.width > 0, a = WaitAt(j, d) PROVE CallIs(j, a, "wait", d)
  <2>1. j.body[WaitAt(j, d)].op = "wait" /\ j.body[WaitAt(j, d)].d = d
    BY <1>2, Exchanged
  <2> QED BY <1>2, <2>1, Zenon DEF CallIs
<1> QED BY <1>1, <1>2

\* What a grid that becomes f has after operation a.
LEMMA LoadedGoes ==
  ASSUME NEW j, Known(j), OneStage, NEW p, NEW r, NEW a \in 1 .. Len(j.body), NEW b,
         Step(j, p, a, b), NEW g, Loaded(j, p, r, a, g), NEW f,
         \A d \in Axis, fw \in BOOLEAN :
           IF Receives(j, p, d, fw) /\ a = RecvAt(j, d, fw) THEN HaloIn(j, p, r, d, fw, f)
           ELSE HaloIn(j, p, r, d, fw, g) => HaloIn(j, p, r, d, fw, f),
         g.diag = j.diagonal => f.diag = j.diagonal,
         j.body[a].op = "send" => f.diag = j.diagonal,
         j.body[a].op # "wait" => f.dev = g.dev,
         j.width > 0 /\ a = WaitAt(j, 1) => Complete(j, p, f.dev)
  PROVE  Loaded(j, p, r, b, f)
<1>1. ASSUME NEW d \in Axis, NEW fw \in BOOLEAN, Receives(j, p, d, fw), RecvAt(j, d, fw) < b
      PROVE  HaloIn(j, p, r, d, fw, f)
  <2>1. PICK x : x = RecvAt(j, d, fw)
    OBVIOUS
  <2>2. x \in Nat /\ x <= a
    <3>1. x \in Nat
      BY <2>1, Times
    <3>2. RecvAt(j, d, fw) <= a
      BY <1>1, StepPasses
    <3> QED BY <2>1, <3>1, <3>2
  <2>3. x < a \/ a = x
    BY <2>2
  <2> QED BY <1>1, <2>1, <2>3 DEF Loaded
<1>2. ASSUME NEW d \in Axis, NEW fw \in BOOLEAN, Sends(j, p, d, fw), SendAt(j, d, fw) < b
      PROVE  f.diag = j.diagonal
  <2>1. PICK x : x = SendAt(j, d, fw)
    OBVIOUS
  <2>2. x \in Nat /\ x <= a
    <3>1. x \in Nat
      BY <2>1, Times
    <3>2. SendAt(j, d, fw) <= a
      BY <1>2, StepPasses
    <3> QED BY <2>1, <3>1, <3>2
  <2>3. x < a \/ a = x
    BY <2>2
  <2>4. CASE x < a
    BY <1>2, <2>1, <2>4 DEF Loaded
  <2>5. CASE a = x
    BY <1>2, <2>1, <2>5, CallOf DEF CallIs
  <2> QED BY <2>3, <2>4, <2>5
<1>3. ASSUME j.width > 0, WaitAt(j, 1) < b PROVE Complete(j, p, f.dev)
  <2>1. PICK x : x = WaitAt(j, 1)
    OBVIOUS
  <2>2. x \in Nat /\ x <= a
    BY <1>3, <2>1, Times, StepPasses, Vectors
  <2>3. CASE x < a
    <3>1. PICK d : d = j.body[a].d
      OBVIOUS
    <3>2. ASSUME j.body[a].op = "wait" PROVE FALSE
      <4>1. PICK y : y = WaitAt(j, d)
        OBVIOUS
      <4>2. d \in Axis
        BY <3>1, <3>2, CallAt
      <4>3. a = y
        BY <3>1, <3>2, <4>1, CallAt, Zenon
      <4>4. y \in Nat /\ y <= x
        BY <2>1, <4>1, <4>2, Times
      <4> QED BY ONLY <2>2, <2>3, <4>3, <4>4
    <3>3. f.dev = g.dev
      BY <3>2
    <3> QED BY <1>3, <2>1, <2>3, <3>3 DEF Loaded
  <2>4. CASE ~(x < a)
    BY <1>3, <2>1, <2>2, <2>4
  <2> QED BY <2>3, <2>4
<1> QED BY <1>1, <1>2, <1>3 DEF Loaded

\* Before anything is done in a round.
LEMMA LoadedFirst ==
  ASSUME NEW j, Known(j), OneStage, NEW p, NEW r, NEW b, Step(j, p, 0, b), NEW g
  PROVE  Loaded(j, p, r, b, g)
<1>1. ASSUME NEW d \in Axis, NEW fw \in BOOLEAN, Receives(j, p, d, fw), RecvAt(j, d, fw) < b
      PROVE  FALSE
  <2>1. PICK x : x = RecvAt(j, d, fw)
    OBVIOUS
  <2>2. x \in Nat /\ x >= 1
    BY <2>1, Times
  <2>3. x <= 0
    BY <1>1, <2>1, StepPasses
  <2> QED BY <2>2, <2>3
<1>2. ASSUME NEW d \in Axis, NEW fw \in BOOLEAN, Sends(j, p, d, fw), SendAt(j, d, fw) < b
      PROVE  FALSE
  <2>1. PICK x : x = SendAt(j, d, fw)
    OBVIOUS
  <2>2. x \in Nat /\ x >= 1
    BY <2>1, Times
  <2>3. x <= 0
    BY <1>2, <2>1, StepPasses
  <2> QED BY <2>2, <2>3
<1>3. ASSUME j.width > 0, WaitAt(j, 1) < b PROVE FALSE
  <2>1. PICK x, y : x = WaitAt(j, 1) /\ y = RecvAt(j, 1, TRUE)
    OBVIOUS
  <2>2. x \in Nat /\ y \in Nat /\ y >= 1 /\ y < x
    BY <2>1, Times, Vectors
  <2>3. x <= 0
    BY <1>3, <2>1, StepPasses, Vectors
  <2> QED BY <2>2, <2>3
<1> QED BY <1>1, <1>2, <1>3 DEF Loaded

\* One field of a grid is replaced.
WithDiag(g, v, f) == f = [g EXCEPT !.diag = v]
WithDev(g, v, f)  == f = [g EXCEPT !.dev = v]

\* Before a slab is sent, it is known whether it has the corners.
LEMMA SendGrid ==
  ASSUME NEW j, Known(j), OneStage, NEW p, NEW r, NEW a \in 1 .. Len(j.body), NEW b,
         Step(j, p, a, b), j.body[a].op = "send", NEW g, GridOK(j, p, g), Loaded(j, p, r, a, g),
         NEW f, WithDiag(g, j.diagonal, f)
  PROVE  GridOK(j, p, f) /\ Loaded(j, p, r, b, f) /\ f.peer = g.peer
<1>1. GridShape(g)
  BY DEF GridOK
<1>2. /\ DOMAIN f = {"bw", "fw", "diag", "peer", "self", "dev"}
      /\ f.diag = j.diagonal /\ f.bw = g.bw /\ f.fw = g.fw /\ f.peer = g.peer /\ f.dev = g.dev
  BY <1>1 DEF GridShape, WithDiag
<1>3. GridOK(j, p, f)
  BY <1>1, <1>2 DEF GridOK, GridShape
<1>4. ASSUME NEW d \in Axis, NEW fw \in BOOLEAN
      PROVE  IF Receives(j, p, d, fw) /\ a = RecvAt(j, d, fw) THEN HaloIn(j, p, r, d, fw, f)
             ELSE HaloIn(j, p, r, d, fw, g) => HaloIn(j, p, r, d, fw, f)
  <2>1. ~(Receives(j, p, d, fw) /\ a = RecvAt(j, d, fw))
    BY CallOf DEF CallIs
  <2> QED BY <1>2, <2>1 DEF HaloIn
<1>5. ~(j.width > 0 /\ a = WaitAt(j, 1))
  BY CallOf, Vectors DEF CallIs
<1>6. Loaded(j, p, r, b, f)
  BY <1>2, <1>4, <1>5, LoadedGoes
<1> QED BY <1>2, <1>3, <1>6

\* f is g with the halo h, of width w, of dimension d.
Refilled(g, f, d, fw, w, h) ==
  /\ fw = TRUE => f = [g EXCEPT !.fw[d] = w, !.peer[d].fw = h]
  /\ fw = FALSE => f = [g EXCEPT !.bw[d] = w, !.peer[d].bw = h]

\* A halo is received.
LEMMA ReceiveGrid ==
  ASSUME NEW j, Known(j), WidthsFit, OneStage, NEW p \in All(j), NEW r,
         NEW a \in 1 .. Len(j.body), NEW b,
         Step(j, p, a, b), j.body[a].op = "recv", NEW g, GridOK(j, p, g), Loaded(j, p, r, a, g),
         NEW d \in Axis, NEW fw \in BOOLEAN, d = j.body[a].d, fw = j.body[a].fw,
         Receives(j, p, d, fw),
         NEW f, Refilled(g, f, d, fw, WidthIn(j, d, fw), HaloSeq(j, p, r, d, fw))
  PROVE  GridOK(j, p, f) /\ Loaded(j, p, r, b, f)
<1>1. GridShape(g)
  BY DEF GridOK
<1>2. PICK w : w = WidthIn(j, d, fw)
  OBVIOUS
<1>3. w \in Nat /\ w = Held(j, p, d, fw)
  BY <1>2, JobTypes DEF Held
<1>4. PICK h : h = HaloSeq(j, p, r, d, fw)
  OBVIOUS
<1>5. /\ DOMAIN f = {"bw", "fw", "diag", "peer", "self", "dev"} /\ f.diag = g.diag /\ f.dev = g.dev
      /\ f.peer = [g.peer EXCEPT ![d][Half(fw)] = h]
      /\ f.bw = IF fw THEN g.bw ELSE [g.bw EXCEPT ![d] = w]
      /\ f.fw = IF fw THEN [g.fw EXCEPT ![d] = w] ELSE g.fw
  <2>1. CASE fw = TRUE
    <3>1. f = [g EXCEPT !.fw[d] = w, !.peer[d].fw = h]
      BY <1>2, <1>4, <2>1 DEF Refilled
    <3>2. /\ DOMAIN f = {"bw", "fw", "diag", "peer", "self", "dev"} /\ f.diag = g.diag
          /\ f.dev = g.dev /\ f.bw = g.bw /\ f.fw = [g.fw EXCEPT ![d] = w]
          /\ f.peer = [g.peer EXCEPT ![d].fw = h]
      BY <1>1, <3>1 DEF GridShape
    <3>3. Half(fw) = "fw"
      BY <2>1 DEF Half
    <3>4. [g.peer EXCEPT ![d].fw = h] = [g.peer EXCEPT ![d][Half(fw)] = h]
      BY <3>3, Zenon
    <3> QED BY <2>1, <3>2, <3>4
  <2>2. CASE fw = FALSE
    <3>1. f = [g EXCEPT !.bw[d] = w, !.peer[d].bw = h]
      BY <1>2, <1>4, <2>2 DEF Refilled
    <3>2. /\ DOMAIN f = {"bw", "fw", "diag", "peer", "self", "dev"} /\ f.diag = g.diag
          /\ f.dev = g.dev /\ f.fw = g.fw /\ f.bw = [g.bw EXCEPT ![d] = w]
          /\ f.peer = [g.peer EXCEPT ![d].bw = h]
      BY <1>1, <3>1 DEF GridShape
    <3>3. Half(fw) = "bw"
      BY <2>2 DEF Half
    <3>4. [g.peer EXCEPT ![d].bw = h] = [g.peer EXCEPT ![d][Half(fw)] = h]
      BY <3>3, Zenon
    <3> QED BY <2>2, <3>2, <3>4
  <2> QED BY <2>1, <2>2
<1>6. /\ DOMAIN f.peer = Axis
      /\ \A e \in Axis : DOMAIN f.peer[e] = {"bw", "fw"}
      /\ f.peer[d][Half(fw)] = h
      /\ \A e \in Axis, gw \in BOOLEAN : e # d \/ gw # fw => f.peer[e][Half(gw)] = g.peer[e][Half(gw)]
  <2>1. DOMAIN g.peer = Axis /\ \A e \in Axis : DOMAIN g.peer[e] = {"bw", "fw"}
    BY <1>1 DEF GridShape
  <2>2. PICK v : v = [g.peer[d] EXCEPT ![Half(fw)] = h]
    OBVIOUS
  <2>3. f.peer = [g.peer EXCEPT ![d] = v]
    BY <1>5, <2>2
  <2>4. /\ DOMAIN v = {"bw", "fw"} /\ v[Half(fw)] = h
        /\ \A gw \in BOOLEAN : gw # fw => v[Half(gw)] = g.peer[d][Half(gw)]
    BY <2>1, <2>2 DEF Half
  <2> QED BY <2>1, <2>3, <2>4
<1>7. /\ f.bw \in Extent /\ f.fw \in Extent
      /\ \A e \in Axis, gw \in BOOLEAN :
           (IF gw THEN f.fw[e] ELSE f.bw[e]) =
             IF e = d /\ gw = fw THEN w ELSE (IF gw THEN g.fw[e] ELSE g.bw[e])
  <2>1. g.bw \in Extent /\ g.fw \in Extent
    BY <1>1 DEF GridShape
  <2>2. CASE fw = TRUE
    <3>1. f.bw = g.bw /\ f.fw = [g.fw EXCEPT ![d] = w]
      BY <1>5, <2>2
    <3>2. f.fw \in Extent /\ \A e \in Axis : f.fw[e] = IF e = d THEN w ELSE g.fw[e]
      BY ONLY <1>3, <2>1, <3>1, d \in Axis DEF Extent
    <3> QED BY ONLY <2>1, <2>2, <3>1, <3>2
  <2>3. CASE fw = FALSE
    <3>1. f.bw = [g.bw EXCEPT ![d] = w] /\ f.fw = g.fw
      BY <1>5, <2>3
    <3>2. f.bw \in Extent /\ \A e \in Axis : f.bw[e] = IF e = d THEN w ELSE g.bw[e]
      BY ONLY <1>3, <2>1, <3>1, d \in Axis DEF Extent
    <3> QED BY ONLY <2>1, <2>3, <3>1, <3>2
  <2> QED BY <2>2, <2>3
<1>8. GridOK(j, p, f)
  <2>1. GridShape(f)
    BY <1>5, <1>6, <1>7 DEF GridShape
  <2>2. ASSUME NEW e \in Axis
        PROVE  f.bw[e] \in {0, Held(j, p, e, FALSE)} /\ f.fw[e] \in {0, Held(j, p, e, TRUE)}
    <3>1. g.bw[e] \in {0, Held(j, p, e, FALSE)} /\ g.fw[e] \in {0, Held(j, p, e, TRUE)}
      BY DEF GridOK
    <3>2. f.fw[e] = IF e = d /\ TRUE = fw THEN w ELSE g.fw[e]
      BY <1>7
    <3>3. f.bw[e] = IF e = d /\ FALSE = fw THEN w ELSE g.bw[e]
      BY <1>7
    <3> QED BY <1>3, <3>1, <3>2, <3>3, Zenon
  <2> QED BY <1>5, <2>1, <2>2 DEF GridOK
<1>9. ASSUME NEW e \in Axis, NEW gw \in BOOLEAN
      PROVE  IF Receives(j, p, e, gw) /\ a = RecvAt(j, e, gw) THEN HaloIn(j, p, r, e, gw, f)
             ELSE HaloIn(j, p, r, e, gw, g) => HaloIn(j, p, r, e, gw, f)
  <2>1. CASE e = d /\ gw = fw
    <3>1. HaloIn(j, p, r, d, fw, f)
      BY <1>3, <1>4, <1>6, <1>7 DEF HaloIn
    <3> QED BY <2>1, <3>1
  <2>2. CASE ~(e = d /\ gw = fw)
    <3>1. ~(Receives(j, p, e, gw) /\ a = RecvAt(j, e, gw))
      <4>1. Receives(j, p, e, gw) /\ a = RecvAt(j, e, gw) =>
              CallIs(j, a, "recv", e) /\ j.body[a].fw = gw
        BY CallOf
      <4> QED BY <2>2, <4>1 DEF CallIs
    <3>2. HaloIn(j, p, r, e, gw, g) => HaloIn(j, p, r, e, gw, f)
      <4>1. f.peer[e][Half(gw)] = g.peer[e][Half(gw)]
        BY <1>6, <2>2
      <4>2. (IF gw THEN f.fw[e] ELSE f.bw[e]) = (IF gw THEN g.fw[e] ELSE g.bw[e])
        BY <1>7, <2>2
      <4> QED BY <4>1, <4>2 DEF HaloIn
    <3> QED BY <3>1, <3>2
  <2> QED BY <2>1, <2>2
<1>10. ~(j.width > 0 /\ a = WaitAt(j, 1))
  BY CallOf, Vectors DEF CallIs
<1>11. Loaded(j, p, r, b, f)
  BY <1>5, <1>9, <1>10, LoadedGoes
<1> QED BY <1>8, <1>11

\* The exchange of dimension d is before the end of the last one.
LEMMA BeforeEnd ==
  ASSUME NEW j, NEW d \in Axis, NEW fw \in BOOLEAN, NEW a \in Int, WaitAt(j, 1) <= a
  PROVE  RecvAt(j, d, fw) < a /\ SendAt(j, d, fw) < a
<1>1. PICK u, w, x, y : /\ u = WaitAt(j, 1) /\ w = WaitAt(j, d)
                        /\ x = RecvAt(j, d, fw) /\ y = SendAt(j, d, fw)
  OBVIOUS
<1>2. u \in Nat
  BY <1>1, Times, Vectors
<1>3. w \in Nat /\ x \in Nat /\ y \in Nat /\ y < x /\ x < w /\ w <= u
  BY <1>1, Times
<1> QED BY <1>1, <1>2, <1>3

DevOf(j, p, g) ==
  [size |-> j.extent[p], offset |-> j.offset[p], diag |-> g.diag, bw |-> g.bw, fw |-> g.fw]

\* The kernels get a descriptor of the grid; after the last exchange it has all
\* halos.
LEMMA WaitGrid ==
  ASSUME NEW j, Known(j), WidthsFit, TwoWay, OneStage, NEW p \in All(j), NEW r,
         NEW a \in 1 .. Len(j.body), NEW b,
         Step(j, p, a, b), j.body[a].op = "wait", NEW g, GridOK(j, p, g), Loaded(j, p, r, a, g),
         NEW dev, dev = DevOf(j, p, g), NEW f, WithDev(g, dev, f)
  PROVE  GridOK(j, p, f) /\ Loaded(j, p, r, b, f) /\ f.peer = g.peer
<1>1. GridShape(g) /\ g.bw \in Extent /\ g.fw \in Extent /\ g.diag \in {FALSE, j.diagonal}
  BY DEF GridOK, GridShape
<1>2. /\ DOMAIN f = {"bw", "fw", "diag", "peer", "self", "dev"}
      /\ f.diag = g.diag /\ f.bw = g.bw /\ f.fw = g.fw /\ f.peer = g.peer /\ f.dev = dev
  BY <1>1 DEF GridShape, WithDev
<1>3. dev.bw = g.bw /\ dev.fw = g.fw /\ dev.diag = g.diag
  BY DEF DevOf
<1>4. Places(j, p, dev)
  <2>1. j.extent[p] \in Extent /\ j.offset[p] \in Vector
    BY PartFacts DEF Extent, Vector
  <2>2. g.diag \in BOOLEAN
    BY <1>1, JobTypes
  <2> QED BY <1>1, <2>1, <2>2 DEF Places, DevRec, DevOf
<1>5. GridOK(j, p, f)
  BY <1>1, <1>2, <1>3, <1>4 DEF GridOK, GridShape
<1>6. ASSUME j.width > 0, a = WaitAt(j, 1) PROVE Complete(j, p, dev)
  <2>1. \A d \in Axis, fw \in BOOLEAN : RecvAt(j, d, fw) < a /\ SendAt(j, d, fw) < a
    <3>1. a \in Int /\ WaitAt(j, 1) <= a
      BY <1>6
    <3> QED BY <3>1, BeforeEnd
  <2>2. ASSUME NEW d \in Axis, NEW fw \in BOOLEAN
        PROVE  (IF fw THEN g.fw[d] ELSE g.bw[d]) = Held(j, p, d, fw)
    <3>1. CASE Receives(j, p, d, fw)
      BY <2>1, <3>1 DEF Loaded, HaloIn
    <3>2. CASE ~Receives(j, p, d, fw)
      <4>1. Held(j, p, d, fw) = 0
        BY <3>2 DEF Held
      <4>2. CASE fw = TRUE
        BY <4>1, <4>2 DEF GridOK
      <4>3. CASE fw = FALSE
        BY <4>1, <4>3 DEF GridOK
      <4> QED BY <4>2, <4>3
    <3> QED BY <3>1, <3>2
  <2>3. \A d \in Axis : g.bw[d] = Held(j, p, d, FALSE) /\ g.fw[d] = Held(j, p, d, TRUE)
    <3> TAKE d \in Axis
    <3>1. (IF FALSE THEN g.fw[d] ELSE g.bw[d]) = Held(j, p, d, FALSE)
      BY <2>2
    <3>2. (IF TRUE THEN g.fw[d] ELSE g.bw[d]) = Held(j, p, d, TRUE)
      BY <2>2
    <3> QED BY <3>1, <3>2
  <2>4. g.bw = Bw(j, p) /\ g.fw = Fw(j, p)
    <3>1. Bw(j, p) \in Extent /\ Fw(j, p) \in Extent
      BY HeldFacts
    <3>2. \A d \in Axis : g.bw[d] = Bw(j, p)[d] /\ g.fw[d] = Fw(j, p)[d]
      BY <2>3 DEF Bw, Fw
    <3> QED BY <1>1, <3>1, <3>2 DEF Extent
  <2>5. ASSUME NEW d \in Axis, NEW fw \in BOOLEAN, Receives(j, p, d, fw) PROVE g.diag = j.diagonal
    <3>1. CASE j.diagonal = FALSE
      BY <1>1, <3>1
    <3>2. CASE j.diagonal = TRUE
      <4>1. j.fw[d] > 0 <=> j.bw[d] > 0
        BY <3>2, TwoSided
      <4>2. Sends(j, p, d, FALSE) \/ Sends(j, p, d, TRUE)
        <5>1. CASE fw = TRUE
          BY <2>5, <4>1, <5>1 DEF Receives, Sends
        <5>2. CASE fw = FALSE
          BY <2>5, <4>1, <5>2 DEF Receives, Sends
        <5> QED BY <5>1, <5>2
      <4>3. PICK gw \in BOOLEAN : Sends(j, p, d, gw)
        BY <4>2
      <4>4. SendAt(j, d, gw) < a
        BY <2>1
      <4> QED BY <4>3, <4>4 DEF Loaded
    <3> QED BY <3>1, <3>2, JobTypes
  <2> QED BY <1>3, <2>4, <2>5 DEF Complete
<1>7. ASSUME NEW d \in Axis, NEW fw \in BOOLEAN
      PROVE  IF Receives(j, p, d, fw) /\ a = RecvAt(j, d, fw) THEN HaloIn(j, p, r, d, fw, f)
             ELSE HaloIn(j, p, r, d, fw, g) => HaloIn(j, p, r, d, fw, f)
  <2>1. ~(Receives(j, p, d, fw) /\ a = RecvAt(j, d, fw))
    BY CallOf DEF CallIs
  <2> QED BY <1>2, <2>1 DEF HaloIn
<1>8. Loaded(j, p, r, b, f)
  BY <1>2, <1>6, <1>7, LoadedGoes
<1> QED BY <1>2, <1>5, <1>8

\* Nothing happens to the grid.
LEMMA QuietGrid ==
  ASSUME NEW j, Known(j), OneStage, NEW p, NEW r, NEW a \in 1 .. Len(j.body), NEW b,
         Step(j, p, a, b), j.body[a].op \in {"launch", "sync"}, NEW g, Loaded(j, p, r, a, g)
  PROVE  Loaded(j, p, r, b, g)
<1>1. ASSUME NEW d \in Axis, NEW fw \in BOOLEAN
      PROVE  IF Receives(j, p, d, fw) /\ a = RecvAt(j, d, fw) THEN HaloIn(j, p, r, d, fw, g)
             ELSE HaloIn(j, p, r, d, fw, g) => HaloIn(j, p, r, d, fw, g)
  BY CallOf DEF CallIs
<1>2. ~(j.width > 0 /\ a = WaitAt(j, 1))
  BY CallOf, Vectors DEF CallIs
<1> QED BY <1>1, <1>2, LoadedGoes

\* A kernel that reads halos is launched when they are all there.
LEMMA AtLaunch ==
  ASSUME NEW j, Known(j), WidthsFit, OneStage, NEW p \in All(j), NEW r,
         NEW a \in 1 .. Len(j.body), IsLaunch(j, a), NEW g, GridOK(j, p, g), Loaded(j, p, r, a, g),
         j.body[a].variant # "inner"
  PROVE  Complete(j, p, g.dev) /\ Filled(j, p, r, g.peer)
<1>1. LastCall(j, a) \/ FaceCall(j, a)
  BY CallAt DEF IsLaunch, InnerCall
<1>2. CASE j.width > 0
  <2>1. PICK u : u = WaitAt(j, 1)
    OBVIOUS
  <2>2. u \in Nat
    BY <2>1, Times, Vectors
  <2>3. u < a
    <3>1. CASE LastCall(j, a)
      BY <1>2, <2>1, <3>1, BodyFacts DEF BodyOK, LastCall
    <3>2. CASE FaceCall(j, a)
      BY <2>1, <2>2, <3>2 DEF FaceCall
    <3> QED BY <1>1, <3>1, <3>2
  <2>4. Complete(j, p, g.dev)
    BY <1>2, <2>1, <2>3 DEF Loaded
  <2>5. \A d \in Axis, fw \in BOOLEAN : RecvAt(j, d, fw) < a
    BY <2>1, <2>2, <2>3, BeforeEnd
  <2>6. Filled(j, p, r, g.peer)
    BY <2>5 DEF Filled, Loaded, HaloIn
  <2> QED BY <2>4, <2>6
<1>3. CASE ~(j.width > 0)
  <2>1. \A d \in Axis, fw \in BOOLEAN : ~Receives(j, p, d, fw)
    BY <1>3, Wanted
  <2>2. \A d \in Axis, fw \in BOOLEAN : Held(j, p, d, fw) = 0
    BY <2>1 DEF Held
  <2>3. g.dev.bw \in Extent /\ g.dev.fw \in Extent
    BY DEF GridOK, Places, DevRec
  <2>4. \A d \in Axis : g.dev.bw[d] = 0 /\ g.dev.fw[d] = 0
    BY <2>2 DEF GridOK
  <2>5. Bw(j, p) \in Extent /\ Fw(j, p) \in Extent
    BY HeldFacts
  <2>6. \A d \in Axis : Bw(j, p)[d] = 0 /\ Fw(j, p)[d] = 0
    BY <2>2 DEF Bw, Fw
  <2>7. g.dev.bw = Bw(j, p) /\ g.dev.fw = Fw(j, p)
    BY <2>3, <2>4, <2>5, <2>6 DEF Extent
  <2> QED BY <2>1, <2>7 DEF Complete, Filled
<1> QED BY <1>2, <1>3

-----------------------------------------------------------------------------
(* A process.                                                               *)

\* The kernels in the queue find the halos that they read.
KernelsOK(j, p, qu, gr) ==
  \A n \in 1 .. Len(qu) :
    /\ Places(j, p, qu[n].dev)
    /\ qu[n].variant # "inner" =>
         Complete(j, p, qu[n].dev) /\ Filled(j, p, qu[n].round, gr[qu[n].round % 2].peer)

\* a is the end of the body or an operation that p has to do.
Stands(j, p, a) == a \in 1 .. Len(j.body) + 1 /\ (a <= Len(j.body) => Does(j, p, j.body[a]))

HostOK(j, p, rd, a, gr) ==
  /\ Stands(j, p, a) /\ rd \in 0 .. j.rounds
  /\ DOMAIN gr = 0 .. 1 /\ \A g \in 0 .. 1 : GridOK(j, p, gr[g])
  /\ Loaded(j, p, rd, a, gr[rd % 2])

ProcessOK(j, p, rd, a, qu, gr, da) ==
  /\ HostOK(j, p, rd, a, gr) /\ QueueOK(j, p, rd, a, qu) /\ KernelsOK(j, p, qu, gr)
  /\ DataOK(j, p, rd, a, qu, da, Base(qu, rd))

\* Grid h becomes f.
Changed(gr, gr2, h, f) ==
  DOMAIN gr2 = 0 .. 1 /\ gr2[h] = f /\ \A x \in 0 .. 1 : x # h => gr2[x] = gr[x]

LEMMA StepStands ==
  ASSUME NEW j, Len(j.body) \in Nat, NEW p, NEW a, NEW b, Step(j, p, a, b)
  PROVE  Stands(j, p, b)
BY DEF Step, Stands

\* The host goes on, with a grid f.
LEMMA HostGoes ==
  ASSUME NEW j, Known(j), OneStage, NEW p, NEW rd, NEW a, NEW b, NEW gr, HostOK(j, p, rd, a, gr),
         Step(j, p, a, b), NEW f, GridOK(j, p, f), Loaded(j, p, rd, b, f),
         NEW gr2, Changed(gr, gr2, rd % 2, f)
  PROVE  HostOK(j, p, rd, b, gr2)
<1>1. /\ rd \in 0 .. j.rounds /\ \A g \in 0 .. 1 : GridOK(j, p, gr[g])
  BY DEF HostOK
<1>2. Stands(j, p, b)
  BY BodyFacts, StepStands DEF BodyOK
<1>3. \A g \in 0 .. 1 : GridOK(j, p, gr2[g])
  <2> TAKE g \in 0 .. 1
  <2>1. CASE g = rd % 2
    BY <2>1 DEF Changed
  <2>2. CASE g # rd % 2
    BY <1>1, <2>2 DEF Changed
  <2> QED BY <2>1, <2>2
<1> QED BY <1>1, <1>2, <1>3 DEF HostOK, Changed

\* A call that launches nothing.
LEMMA ProcessCalls ==
  ASSUME NEW j, Known(j), OneStage, NEW p, NEW rd, NEW a \in 1 .. Len(j.body), NEW b,
         NEW qu, NEW gr, NEW da, ProcessOK(j, p, rd, a, qu, gr, da),
         Step(j, p, a, b), NEW f, GridOK(j, p, f), Loaded(j, p, rd, b, f),
         NEW gr2, Changed(gr, gr2, rd % 2, f),
         j.body[a].op # "launch", j.body[a].op = "sync" => Len(qu) = 0,
         \/ f.peer = gr[rd % 2].peer
         \/ /\ j.body[a].op = "recv"
            /\ \A n \in 1 .. Len(qu) : ~Ordered(qu[n].stream, j.stream)
  PROVE  ProcessOK(j, p, rd, b, qu, gr2, da)
<1>1. /\ HostOK(j, p, rd, a, gr) /\ QueueOK(j, p, rd, a, qu) /\ KernelsOK(j, p, qu, gr)
      /\ DataOK(j, p, rd, a, qu, da, Base(qu, rd))
  BY DEF ProcessOK
<1>2. HostOK(j, p, rd, b, gr2)
  BY <1>1, HostGoes
<1>3. /\ QueueOK(j, p, rd, b, qu)
      /\ \A i, r : Issued(j, rd, b, i, r) <=> Issued(j, rd, a, i, r)
  BY <1>1, QueueStep
<1>4. DataOK(j, p, rd, b, qu, da, Base(qu, rd))
  <2>1. \A c : /\ Issued(j, rd, b, c, Base(qu, rd)) =>
                    Issued(j, rd, a, c, Base(qu, rd)) \/ Queued(j, p, qu, c, Base(qu, rd))
               /\ Queued(j, p, qu, c, Base(qu, rd)) => Queued(j, p, qu, c, Base(qu, rd))
    BY <1>3
  <2> QED BY <1>1, <2>1, DataStays
<1>5. KernelsOK(j, p, qu, gr2)
  <2>1. CASE f.peer = gr[rd % 2].peer
    <3>1. \A x \in 0 .. 1 : gr2[x].peer = gr[x].peer
      BY <2>1 DEF Changed
    <3>2. \A n \in 1 .. Len(qu) : qu[n].round % 2 \in 0 .. 1
      <4> TAKE n \in 1 .. Len(qu)
      <4>1. qu[n].round \in Nat
        BY <1>1, QueueFacts
      <4> QED BY <4>1, Parity
    <3>3. \A n \in 1 .. Len(qu) : gr2[qu[n].round % 2].peer = gr[qu[n].round % 2].peer
      BY <3>1, <3>2
    <3> QED BY <1>1, <3>3 DEF KernelsOK
  <2>2. CASE /\ j.body[a].op = "recv"
             /\ \A n \in 1 .. Len(qu) : ~Ordered(qu[n].stream, j.stream)
    <3>1. \A n \in 1 .. Len(qu) : qu[n].variant = "inner"
      BY <1>1, <2>2, AtExchange
    <3> QED BY <1>1, <3>1 DEF KernelsOK
  <2> QED BY <2>1, <2>2
<1> QED BY <1>2, <1>3, <1>4, <1>5 DEF ProcessOK

\* The host launches a kernel.
LEMMA ProcessLaunches ==
  ASSUME NEW j, Known(j), WidthsFit, OneStage, NEW p \in All(j), NEW rd,
         NEW a \in 1 .. Len(j.body), NEW b,
         NEW qu, NEW gr, NEW da, ProcessOK(j, p, rd, a, qu, gr, da), rd < j.rounds,
         Step(j, p, a, b), j.body[a].op = "launch",
         NEW k, IsKernel(j, p, k, j.body[a], rd), k.dev = gr[rd % 2].dev,
         NEW qu2, Grown(qu, k, qu2)
  PROVE  ProcessOK(j, p, rd, b, qu2, gr, da)
<1>1. /\ HostOK(j, p, rd, a, gr) /\ QueueOK(j, p, rd, a, qu) /\ KernelsOK(j, p, qu, gr)
      /\ DataOK(j, p, rd, a, qu, da, Base(qu, rd))
  BY DEF ProcessOK
<1>2. PICK g : g = gr[rd % 2]
  OBVIOUS
<1>3. /\ rd \in Nat /\ GridOK(j, p, g) /\ Loaded(j, p, rd, a, g)
      /\ DOMAIN gr = 0 .. 1
  <2>1. rd \in Nat
    BY <1>1 DEF QueueOK
  <2>2. rd % 2 \in 0 .. 1
    BY <2>1, Parity
  <2> QED BY <1>1, <1>2, <2>1, <2>2 DEF HostOK
<1>4. HostOK(j, p, rd, b, gr)
  <2>1. Changed(gr, gr, rd % 2, g)
    BY <1>2, <1>3 DEF Changed
  <2>2. Loaded(j, p, rd, b, g)
    BY <1>3, QuietGrid
  <2> QED BY <1>1, <1>3, <2>1, <2>2, HostGoes
<1>5. /\ QueueOK(j, p, rd, b, qu2) /\ Base(qu2, rd) = Base(qu, rd)
      /\ \A i, r : /\ Issued(j, rd, b, i, r) => Issued(j, rd, a, i, r) \/ Queued(j, p, qu2, i, r)
                   /\ Queued(j, p, qu, i, r) => Queued(j, p, qu2, i, r)
  BY <1>1, QueueLaunch
<1>6. DataOK(j, p, rd, b, qu2, da, Base(qu2, rd))
  <2>1. PICK z : z = Base(qu, rd)
    OBVIOUS
  <2>2. \A c : /\ Issued(j, rd, b, c, z) => Issued(j, rd, a, c, z) \/ Queued(j, p, qu2, c, z)
               /\ Queued(j, p, qu, c, z) => Queued(j, p, qu2, c, z)
    BY <1>5
  <2>3. DataOK(j, p, rd, b, qu2, da, z)
    BY <1>1, <2>1, <2>2, DataStays
  <2> QED BY <1>5, <2>1, <2>3
<1>7. KernelsOK(j, p, qu2, gr)
  <2>1. PICK n, m : n = Len(qu) /\ m = Len(qu2)
    OBVIOUS
  <2>2. /\ n \in Nat /\ m = n + 1 /\ qu2[m] = k
        /\ \A i \in 1 .. n : qu2[i] = qu[i]
    BY <1>1, <2>1 DEF Grown, IsSeq, QueueOK
  <2>3. Places(j, p, k.dev) /\ (k.variant # "inner" => Complete(j, p, k.dev) /\ Filled(j, p, rd, g.peer))
    <3>1. k.variant = j.body[a].variant
      BY DEF IsKernel
    <3>2. IsLaunch(j, a)
      BY DEF IsLaunch
    <3>3. Places(j, p, k.dev)
      BY <1>2, <1>3 DEF GridOK
    <3>4. k.variant # "inner" => Complete(j, p, g.dev) /\ Filled(j, p, rd, g.peer)
      BY <1>3, <3>1, <3>2, AtLaunch
    <3> QED BY <1>2, <3>3, <3>4
  <2>4. k.round = rd
    BY DEF IsKernel
  <2> SUFFICES ASSUME NEW x \in 1 .. m
               PROVE  /\ Places(j, p, qu2[x].dev)
                      /\ qu2[x].variant # "inner" =>
                           /\ Complete(j, p, qu2[x].dev)
                           /\ Filled(j, p, qu2[x].round, gr[qu2[x].round % 2].peer)
    BY <2>1 DEF KernelsOK
  <2>5. CASE x = m
    BY <1>2, <2>2, <2>3, <2>4, <2>5
  <2>6. CASE x # m
    <3>1. x \in 1 .. n
      BY <2>2, <2>6
    <3>2. qu2[x] = qu[x]
      BY <2>2, <3>1
    <3> QED BY <1>1, <2>1, <3>1, <3>2 DEF KernelsOK
  <2> QED BY <2>5, <2>6
<1> QED BY <1>4, <1>5, <1>6, <1>7 DEF ProcessOK

\* The host goes into the next round.
LEMMA ProcessEnds ==
  ASSUME NEW j, Known(j), WidthsFit, OneStage, DomainsWide, NEW p \in All(j), NEW rd, NEW a,
         a = Len(j.body) + 1, NEW b,
         NEW qu, NEW gr, NEW da, ProcessOK(j, p, rd, a, qu, gr, da), rd < j.rounds,
         Step(j, p, 0, b), rd + 1 = j.rounds => Len(qu) = 0
  PROVE  ProcessOK(j, p, rd + 1, b, qu, gr, da)
<1>1. /\ HostOK(j, p, rd, a, gr) /\ QueueOK(j, p, rd, a, qu) /\ KernelsOK(j, p, qu, gr)
      /\ DataOK(j, p, rd, a, qu, da, Base(qu, rd))
  BY DEF ProcessOK
<1>2. /\ QueueOK(j, p, rd + 1, b, qu)
      /\ Base(qu, rd + 1) = IF Len(qu) = 0 THEN rd + 1 ELSE Base(qu, rd)
      /\ \A i, r : Issued(j, rd + 1, b, i, r) <=> Issued(j, rd, a, i, r)
  <2>1. Rolls(j, p, rd, a, rd + 1, b, qu)
    BY <1>1, QueueEnd
  <2> QED BY <2>1 DEF Rolls
<1>3. rd \in Nat /\ j.rounds \in Nat /\ Len(j.body) \in Nat
  BY <1>1, JobTypes, BodyFacts DEF QueueOK, BodyOK
<1>4. HostOK(j, p, rd + 1, b, gr)
  <2>1. Stands(j, p, b)
    BY <1>3, StepStands
  <2>2. Loaded(j, p, rd + 1, b, gr[(rd + 1) % 2])
    BY LoadedFirst
  <2>3. rd + 1 \in 0 .. j.rounds
    BY <1>3
  <2> QED BY <1>1, <2>1, <2>2, <2>3 DEF HostOK
<1>5. DataOK(j, p, rd + 1, b, qu, da, Base(qu, rd + 1))
  <2>1. CASE Len(qu) # 0
    <3>1. PICK z : z = Base(qu, rd)
      OBVIOUS
    <3>2. \A c : /\ Issued(j, rd + 1, b, c, z) => Issued(j, rd, a, c, z) \/ Queued(j, p, qu, c, z)
                 /\ Queued(j, p, qu, c, z) => Queued(j, p, qu, c, z)
      BY <1>2
    <3>3. DataOK(j, p, rd + 1, b, qu, da, z)
      BY <1>1, <3>1, <3>2, DataStays
    <3> QED BY <1>2, <2>1, <3>1, <3>3
  <2>2. CASE Len(qu) = 0
    <3>1. DataOK(j, p, rd, a, qu, da, rd)
      BY <1>1, <2>2 DEF Base
    <3>2. \A c, r : ~Queued(j, p, qu, c, r)
      BY <2>2 DEF Queued
    <3>3. \A c : IsLaunch(j, c) => Issued(j, rd, a, c, rd)
      BY <1>3 DEF IsLaunch, Issued
    <3>4. \A c : ~Issued(j, rd + 1, b, c, rd + 1)
      <4> TAKE c
      <4>1. Issued(j, rd + 1, b, c, rd + 1) <=> Issued(j, rd, a, c, rd + 1)
        BY <1>2
      <4>2. ~Issued(j, rd, a, c, rd + 1)
        BY <1>3 DEF Issued
      <4> QED BY <4>1, <4>2
    <3>5. DataOK(j, p, rd + 1, b, qu, da, rd + 1)
      BY <1>3, <3>1, <3>2, <3>3, <3>4, DataTurns
    <3> QED BY <1>2, <2>2, <3>5
  <2> QED BY <2>1, <2>2
<1> QED BY <1>1, <1>2, <1>4, <1>5 DEF ProcessOK

\* A kernel runs.
LEMMA ProcessRuns ==
  ASSUME NEW j, Known(j), WidthsFit, OneStage, DomainsWide, NEW p \in All(j), NEW rd, NEW a,
         NEW qu, NEW gr, NEW da, ProcessOK(j, p, rd, a, qu, gr, da),
         NEW i \in 1 .. Len(qu), \A m \in 1 .. i - 1 : ~Ordered(qu[m].stream, qu[i].stream),
         NEW qu2, Shrunk(qu, i, qu2), NEW b, b = qu[i].round,
         NEW c, IsLaunch(j, c), IsKernel(j, p, qu[i], j.body[c], b),
         NEW da2, Writes(j, p, c, b, da, da2)
  PROVE  ProcessOK(j, p, rd, a, qu2, gr, da2)
<1>1. /\ HostOK(j, p, rd, a, gr) /\ QueueOK(j, p, rd, a, qu) /\ KernelsOK(j, p, qu, gr)
      /\ DataOK(j, p, rd, a, qu, da, Base(qu, rd))
  BY DEF ProcessOK
<1>2. /\ QueueOK(j, p, rd, a, qu2) /\ qu[i].round = Base(qu, rd)
      /\ Base(qu2, rd) = Base(qu, rd) \/ Turns(j, p, rd, a, qu2, Base(qu, rd))
  <2>1. HasRun(j, p, rd, a, qu, i, qu2)
    BY <1>1, QueueRun
  <2> QED BY <2>1 DEF HasRun
<1>3. b = Base(qu, rd) /\ b \in Nat
  BY <1>1, <1>2, QueueFacts
<1>4. IsSeq(qu, Len(qu))
  BY <1>1 DEF QueueOK
<1>5. Rest(j, p, qu, i, qu2)
  BY <1>4, QueueRest
<1>6. DataOK(j, p, rd, a, qu, da, b)
  BY <1>1, <1>3
<1>7. DataOK(j, p, rd, a, qu2, da2, b)
  BY <1>3, <1>5, <1>6, DataRun
<1>8. DataOK(j, p, rd, a, qu2, da2, Base(qu2, rd))
  <2>1. CASE Base(qu2, rd) = b
    BY <1>7, <2>1
  <2>2. CASE Turns(j, p, rd, a, qu2, b)
    <3>1. /\ Base(qu2, rd) = b + 1
          /\ \A x : IsLaunch(j, x) => Issued(j, rd, a, x, b) /\ ~Queued(j, p, qu2, x, b)
          /\ \A x : Issued(j, rd, a, x, b + 1) => Queued(j, p, qu2, x, b + 1)
      BY <2>2 DEF Turns
    <3>2. DataOK(j, p, rd, a, qu2, da2, b + 1)
      BY <1>3, <1>7, <3>1, DataTurns
    <3> QED BY <3>1, <3>2
  <2> QED BY <1>2, <1>3, <2>1, <2>2
<1>9. KernelsOK(j, p, qu2, gr)
  <2>1. \A n \in 1 .. Len(qu2) : \E m \in 1 .. Len(qu) : qu2[n] = qu[m]
    BY <1>5 DEF Rest
  <2> QED BY <1>1, <2>1 DEF KernelsOK
<1> QED BY <1>1, <1>2, <1>8, <1>9 DEF ProcessOK

-----------------------------------------------------------------------------
(* The run.                                                                 *)

Wellformed ==
  /\ Known(job) /\ round \in [All(job) -> Nat] /\ at \in [All(job) -> Nat]
  /\ DOMAIN queue = All(job) /\ DOMAIN grid = All(job) /\ DOMAIN data = All(job)

ProcessesOK ==
  \A p \in All(job) : ProcessOK(job, p, round[p], at[p], queue[p], grid[p], data[p])

RunOK == Wellformed /\ ProcessesOK /\ NetOK(job, round, at, net)

\* Only the state of p changes, and the network.
Only(p) ==
  /\ job' = job /\ round' \in [All(job) -> Nat] /\ at' \in [All(job) -> Nat]
  /\ DOMAIN queue' = All(job) /\ DOMAIN grid' = All(job) /\ DOMAIN data' = All(job)
  /\ \A q \in All(job) : q # p =>
       /\ round'[q] = round[q] /\ at'[q] = at[q] /\ queue'[q] = queue[q]
       /\ grid'[q] = grid[q] /\ data'[q] = data[q]

LEMMA OnlyOne ==
  ASSUME RunOK, NEW p, Only(p),
         ProcessOK(job, p, round'[p], at'[p], queue'[p], grid'[p], data'[p]),
         NetOK(job, round', at', net')
  PROVE  RunOK'
<1>1. Wellformed'
  BY DEF RunOK, Wellformed, Only
<1>2. ASSUME NEW q \in All(job)
      PROVE  ProcessOK(job, q, round'[q], at'[q], queue'[q], grid'[q], data'[q])
  <2>1. CASE q = p
    BY <2>1
  <2>2. CASE q # p
    <3>1. ProcessOK(job, q, round[q], at[q], queue[q], grid[q], data[q])
      BY DEF RunOK, ProcessesOK
    <3> QED BY <2>2, <3>1 DEF Only
  <2> QED BY <2>1, <2>2
<1>3. ProcessesOK'
  BY <1>2 DEF ProcessesOK, Only
<1>4. NetOK(job, round, at, net)'
  BY DEF Only
<1> QED BY <1>1, <1>3, <1>4 DEF RunOK

\* One value of a function is replaced.
LEMMA Replaced ==
  ASSUME NEW f, NEW p \in DOMAIN f, NEW v, NEW f2, f2 = [f EXCEPT ![p] = v]
  PROVE  /\ DOMAIN f2 = DOMAIN f /\ f2[p] = v
         /\ \A q \in DOMAIN f : q # p => f2[q] = f[q]
OBVIOUS

\* The host of p is at a call o that it has to make.
LEMMA Calls ==
  ASSUME RunOK, OneStage, NEW p \in All(job), NEW o, Doing(p, o)
  PROVE  /\ ProcessOK(job, p, round[p], at[p], queue[p], grid[p], data[p])
         /\ at[p] \in 1 .. Len(job.body) /\ job.body[at[p]].op = o /\ Does(job, p, job.body[at[p]])
         /\ round[p] \in Nat /\ round[p] < job.rounds
         /\ IsSeq(queue[p], Len(queue[p]))
         /\ DOMAIN grid[p] = 0 .. 1 /\ round[p] % 2 \in 0 .. 1
         /\ GridOK(job, p, grid[p][round[p] % 2])
         /\ Loaded(job, p, round[p], at[p], grid[p][round[p] % 2])
<1>1. ProcessOK(job, p, round[p], at[p], queue[p], grid[p], data[p])
  BY DEF RunOK, ProcessesOK
<1>2. /\ HostOK(job, p, round[p], at[p], grid[p])
      /\ QueueOK(job, p, round[p], at[p], queue[p])
  BY <1>1 DEF ProcessOK
<1>3. Stands(job, p, at[p]) /\ Known(job) /\ round[p] \in Nat
  BY <1>2 DEF HostOK, RunOK, Wellformed
<1>4. /\ at[p] <= Len(job.body) /\ job.body[at[p]].op = o /\ round[p] < job.rounds
  BY DEF Doing, InRound, Next1
<1>5. at[p] \in 1 .. Len(job.body)
  <2>1. PICK a, n : a = at[p] /\ n = Len(job.body)
    OBVIOUS
  <2>2. a \in 1 .. n + 1 /\ a <= n
    BY <1>3, <1>4, <2>1 DEF Stands
  <2>3. n \in Nat
    BY <1>3, <2>1, BodyFacts DEF BodyOK
  <2> QED BY <2>1, <2>2, <2>3
<1>6. round[p] % 2 \in 0 .. 1
  BY <1>3, Parity
<1> QED BY <1>1, <1>2, <1>3, <1>4, <1>5, <1>6 DEF Stands, HostOK, QueueOK

LEMMA Advances ==
  ASSUME RunOK, OneStage, NEW p \in All(job), NEW o, Doing(p, o), Advance(p)
  PROVE  /\ round' = round /\ round' \in [All(job) -> Nat] /\ at' \in [All(job) -> Nat]
         /\ Step(job, p, at[p], at'[p]) /\ Moves(job, p, round, at, round', at')
         /\ \A q \in All(job) : q # p => at'[q] = at[q]
<1>1. Known(job) /\ round \in [All(job) -> Nat] /\ at \in [All(job) -> Nat]
  BY DEF RunOK, Wellformed
<1>2. PICK a, b : a = at[p] /\ b = NextCall(p, a + 1)
  OBVIOUS
<1>3. a \in Nat /\ a \in 1 .. Len(job.body) /\ a <= Len(job.body)
  BY <1>1, <1>2, Calls DEF Doing
<1>4. Step(job, p, a, NextCall(p, a + 1))
  BY <1>1, <1>3, NextCallIs
<1>5. Step(job, p, a, b) /\ b \in Nat
  BY <1>2, <1>4 DEF Step
<1>6. at' = [at EXCEPT ![p] = b] /\ round' = round
  BY <1>2 DEF Advance
<1>7. at' \in [All(job) -> Nat] /\ at'[p] = b /\ \A q \in All(job) : q # p => at'[q] = at[q]
  BY <1>1, <1>5, <1>6
<1>8. Goes(job, p, round[p], at[p], round'[p], at'[p])
  BY <1>1, <1>2, <1>3, <1>5, <1>6, <1>7 DEF Goes
<1>9. Moves(job, p, round, at, round', at')
  BY <1>6, <1>7, <1>8 DEF Moves
<1> QED BY <1>1, <1>2, <1>5, <1>6, <1>7, <1>9

\* Where nothing is waited for, no exchange ends.
LEMMA EndsNothing ==
  ASSUME NEW p, at[p] \in 1 .. Len(job.body) => job.body[at[p]].op # "wait"
  PROVE  NotEnded(job, p, round, at)
BY DEF NotEnded

\* cudaThreadSynchronize
LEMMA SyncKeeps ==
  ASSUME RunOK, Conditions, NEW p \in All(job), DoSync(p)
  PROVE  RunOK'
<1>1. /\ Doing(p, "sync") /\ Advance(p) /\ queue[p] = << >>
      /\ job' = job /\ net' = net /\ queue' = queue /\ grid' = grid /\ data' = data
  BY DEF DoSync
<1>2. Known(job) /\ WidthsFit /\ OneStage
  BY DEF RunOK, Wellformed, Conditions
<1>3. /\ round' = round /\ round' \in [All(job) -> Nat] /\ at' \in [All(job) -> Nat]
      /\ Step(job, p, at[p], at'[p]) /\ Moves(job, p, round, at, round', at')
      /\ \A q \in All(job) : q # p => at'[q] = at[q]
  BY <1>1, <1>2, Advances
<1>4. PICK r, a, b, g, h : r = round[p] /\ a = at[p] /\ b = at'[p] /\ h = r % 2 /\ g = grid[p][h]
  OBVIOUS
<1>5. /\ ProcessOK(job, p, r, a, queue[p], grid[p], data[p])
      /\ a \in 1 .. Len(job.body) /\ job.body[a].op = "sync"
      /\ GridOK(job, p, g) /\ Loaded(job, p, r, a, g) /\ DOMAIN grid[p] = 0 .. 1 /\ h \in 0 .. 1
  BY <1>1, <1>2, <1>4, Calls
<1>6. Loaded(job, p, r, b, g)
  BY <1>2, <1>3, <1>4, <1>5, QuietGrid
<1>7. Changed(grid[p], grid[p], h, g)
  BY <1>4, <1>5 DEF Changed
<1>8. ProcessOK(job, p, r, b, queue[p], grid[p], data[p])
  BY <1>1, <1>2, <1>3, <1>4, <1>5, <1>6, <1>7, ProcessCalls
<1>9. NetOK(job, round', at', net)
  <2>1. NotEnded(job, p, round, at)
    BY <1>4, <1>5, EndsNothing
  <2> QED BY <1>2, <1>3, <1>4, <1>5, <2>1, NetQuiet DEF RunOK
<1>10. Only(p)
  BY <1>1, <1>3 DEF Only, RunOK, Wellformed
<1> QED BY <1>1, <1>3, <1>4, <1>8, <1>9, <1>10, OnlyOne

\* A kernel is launched.
LEMMA LaunchKeeps ==
  ASSUME RunOK, Conditions, NEW p \in All(job), DoLaunch(p)
  PROVE  RunOK'
<1>1. PICK r, a, b, k : /\ r = round[p] /\ a = at[p] /\ b = at'[p]
                        /\ k = [variant |-> Next1(p).variant, stream |-> Next1(p).stream,
                                face |-> Next1(p).face, domain |-> KernelDomain(p, Next1(p)),
                                round |-> round[p], dev |-> My(p).dev]
  OBVIOUS
<1>2. /\ Doing(p, "launch") /\ Advance(p) /\ queue' = [queue EXCEPT ![p] = Append(@, k)]
      /\ job' = job /\ net' = net /\ grid' = grid /\ data' = data
  BY <1>1 DEF DoLaunch
<1>3. Known(job) /\ WidthsFit /\ OneStage
  BY DEF RunOK, Wellformed, Conditions
<1>4. /\ round' = round /\ round' \in [All(job) -> Nat] /\ at' \in [All(job) -> Nat]
      /\ Step(job, p, a, b) /\ Moves(job, p, round, at, round', at')
      /\ \A q \in All(job) : q # p => at'[q] = at[q]
  BY <1>1, <1>2, <1>3, Advances
<1>5. /\ ProcessOK(job, p, r, a, queue[p], grid[p], data[p]) /\ r < job.rounds
      /\ a \in 1 .. Len(job.body) /\ job.body[a].op = "launch" /\ IsSeq(queue[p], Len(queue[p]))
  BY <1>1, <1>2, <1>3, Calls
<1>6. IsKernel(job, p, k, job.body[a], r) /\ k.dev = grid[p][r % 2].dev
  <2>1. KernelDomain(p, job.body[a]) = DomainOf(job, p, job.body[a])
    BY DEF KernelDomain, DomainOf, Part, Size, Offset
  <2> QED BY <1>1, <2>1 DEF IsKernel, Next1, My, G
<1>7. /\ DOMAIN queue' = All(job) /\ queue'[p] = Append(queue[p], k)
      /\ \A q \in All(job) : q # p => queue'[q] = queue[q]
  BY <1>2, Replaced DEF RunOK, Wellformed
<1>8. Grown(queue[p], k, queue'[p])
  BY <1>5, <1>7, GrownIs
<1>9. ProcessOK(job, p, r, b, queue'[p], grid[p], data[p])
  BY <1>3, <1>4, <1>5, <1>6, <1>8, ProcessLaunches
<1>10. NetOK(job, round', at', net)
  <2>1. NotEnded(job, p, round, at)
    BY <1>1, <1>5, EndsNothing
  <2> QED BY <1>1, <1>3, <1>4, <1>5, <2>1, NetQuiet DEF RunOK
<1>11. Only(p)
  BY <1>2, <1>4, <1>7 DEF Only, RunOK, Wellformed
<1> QED BY <1>1, <1>2, <1>4, <1>9, <1>10, <1>11, OnlyOne

\* The host leaves the loop body.
LEMMA EndKeeps ==
  ASSUME RunOK, Conditions, NEW p \in All(job), EndBody(p)
  PROVE  RunOK'
<1>1. PICK r, a, b : r = round[p] /\ a = at[p] /\ b = NextCall(p, 1)
  OBVIOUS
<1>2. /\ r < job.rounds /\ a > Len(job.body)
      /\ (r + 1 = job.rounds => queue[p] = << >>)
      /\ round' = [round EXCEPT ![p] = r + 1] /\ at' = [at EXCEPT ![p] = b]
      /\ job' = job /\ net' = net /\ queue' = queue /\ grid' = grid /\ data' = data
  BY <1>1 DEF EndBody, InRound
<1>3. /\ Known(job) /\ WidthsFit /\ OneStage /\ DomainsWide
      /\ round \in [All(job) -> Nat] /\ at \in [All(job) -> Nat]
  BY DEF RunOK, Wellformed, Conditions
<1>4. ProcessOK(job, p, r, a, queue[p], grid[p], data[p])
  BY <1>1 DEF RunOK, ProcessesOK
<1>5. a = Len(job.body) + 1 /\ r \in Nat /\ Len(job.body) \in Nat
  <2>1. PICK n : n = Len(job.body)
    OBVIOUS
  <2>2. n \in Nat
    BY <1>3, <2>1, BodyFacts DEF BodyOK
  <2>3. a \in 1 .. n + 1 /\ a > n
    BY <1>2, <1>4, <2>1 DEF ProcessOK, HostOK, Stands
  <2> QED BY <1>1, <1>3, <2>1, <2>2, <2>3
<1>6. Step(job, p, 0, b) /\ b \in Nat
  <2>1. Step(job, p, 0, NextCall(p, 0 + 1))
    BY <1>3, <1>5, NextCallIs
  <2>2. NextCall(p, 0 + 1) = b
    BY <1>1
  <2> QED BY <2>1, <2>2 DEF Step
<1>7. r + 1 = job.rounds => Len(queue[p]) = 0
  BY <1>2
<1>8. ProcessOK(job, p, r + 1, b, queue[p], grid[p], data[p])
  BY <1>2, <1>3, <1>4, <1>5, <1>6, <1>7, ProcessEnds
<1>9. /\ round' \in [All(job) -> Nat] /\ at' \in [All(job) -> Nat]
      /\ round'[p] = r + 1 /\ at'[p] = b
      /\ \A q \in All(job) : q # p => round'[q] = round[q] /\ at'[q] = at[q]
  BY <1>2, <1>3, <1>5, <1>6
<1>10. Moves(job, p, round, at, round', at')
  BY <1>1, <1>5, <1>6, <1>9 DEF Moves, Goes
<1>11. NetOK(job, round', at', net)
  <2>1. ~(at[p] \in 1 .. Len(job.body))
    BY <1>1, <1>5
  <2>2. NotEnded(job, p, round, at)
    BY <2>1 DEF NotEnded
  <2> QED BY <1>3, <1>10, <2>1, <2>2, NetQuiet DEF RunOK
<1>12. Only(p)
  BY <1>2, <1>9 DEF Only, RunOK, Wellformed
<1> QED BY <1>2, <1>8, <1>9, <1>11, <1>12, OnlyOne

\* Grid h of p becomes f.
Regridded(gs, gs2, p, h, f) ==
  /\ DOMAIN gs2 = DOMAIN gs /\ Changed(gs[p], gs2[p], h, f)
  /\ \A q \in DOMAIN gs : q # p => gs2[q] = gs[q]

LEMMA NewGrid ==
  ASSUME NEW gs, NEW p \in DOMAIN gs, DOMAIN gs[p] = 0 .. 1, NEW h \in 0 .. 1, NEW f,
         NEW gs2, gs2 = [gs EXCEPT ![p] = [gs[p] EXCEPT ![h] = f]]
  PROVE  Regridded(gs, gs2, p, h, f)
<1>1. PICK y : y = [gs[p] EXCEPT ![h] = f]
  OBVIOUS
<1>2. gs2 = [gs EXCEPT ![p] = y]
  BY <1>1
<1>3. Changed(gs[p], y, h, f)
  BY <1>1 DEF Changed
<1> QED BY <1>2, <1>3 DEF Regridded

\* What is on its way is in the network.
LEMMA ChanHas ==
  ASSUME NEW j, NEW p, NEW W, NEW c, Chan(j, p, W, c)
  PROVE  /\ \A k \in W : \E i \in DOMAIN c : c[i] = MessageOf(j, p, k)
         /\ \A i \in DOMAIN c : \E k \in W : c[i] = MessageOf(j, p, k)
<1>1. PICK f : Lists(f, W) /\ c = Bodies(j, p, f)
  BY DEF Chan
<1>2. DOMAIN c = 1 .. Len(f) /\ \A i \in 1 .. Len(f) : c[i] = MessageOf(j, p, f[i])
  BY <1>1 DEF Bodies
<1>3. /\ \A i \in 1 .. Len(f) : f[i] \in W
      /\ \A k \in W : \E i \in 1 .. Len(f) : f[i] = k
  BY <1>1 DEF Lists
<1> QED BY <1>2, <1>3

\* The processes that p sends to and receives from.
LEMMA Targets ==
  ASSUME NEW p, NEW d, NEW fw
  PROVE  /\ Target(p, d, fw) = To(job, p, d, fw) /\ Source(p, d, fw) = From(job, p, d, fw)
         /\ WidthOf(d, fw) = WidthIn(job, d, fw)
BY DEF Target, To, Source, From, FwPeer, BwPeer, Next_, Prev_, WidthOf, WidthIn

\* What p has sent is on its way with its buffer.
LEMMA InBuffer ==
  ASSUME RunOK, WidthsFit, NEW p \in All(job), NEW t \in All(job),
         NEW k \in Way(job, p, t, round, at)
  PROVE  /\ k \in Key /\ k.dim \in Axis /\ k.fw \in BOOLEAN
         /\ t = Target(p, k.dim, k.fw) /\ Sends(job, p, k.dim, k.fw)
         /\ \E i \in DOMAIN net[p][t] :
              net[p][t][i].buffer = <<k.round % 2, k.dim, k.fw>>
<1>1. k \in Key /\ Slot(job, p, t, k.dim, k.fw)
  BY WayIs
<1>2. k.dim \in Axis /\ k.fw \in BOOLEAN
  BY <1>1, KeyFacts
<1>3. Sends(job, p, k.dim, k.fw) /\ t = To(job, p, k.dim, k.fw)
  BY <1>1, <1>2, Slots DEF RunOK, Wellformed
<1>4. Chan(job, t, Way(job, p, t, round, at), net[p][t])
  BY DEF RunOK, NetOK
<1>5. \E i \in DOMAIN net[p][t] : net[p][t][i] = MessageOf(job, t, k)
  BY <1>4, ChanHas
<1>6. MessageOf(job, t, k).buffer = <<k.round % 2, k.dim, k.fw>>
  BY DEF MessageOf, Message
<1> QED BY <1>1, <1>2, <1>3, <1>5, <1>6, Targets

\* The host waits until all that it has sent in an exchange has gone.
LEMMA WaitKeeps ==
  ASSUME RunOK, Conditions, NEW p \in All(job), DoWait(p)
  PROVE  RunOK'
<1>1. PICK r, a, b, h, g, d : /\ r = round[p] /\ a = at[p] /\ b = at'[p] /\ h = r % 2
                              /\ g = grid[p][h] /\ d = job.body[a].d
  OBVIOUS
<1>2. PICK dev, f : dev = DevOf(job, p, g) /\ f = [g EXCEPT !.dev = dev]
  OBVIOUS
<1>3. /\ Doing(p, "wait") /\ Advance(p)
      /\ (~Eager => \A fw \in BOOLEAN : \A i \in DOMAIN net[p][Target(p, d, fw)] :
                      net[p][Target(p, d, fw)][i].buffer # Buffer(p, d, fw))
      /\ job' = job /\ net' = net /\ queue' = queue /\ data' = data
  BY <1>1 DEF DoWait, Next1
<1>4. grid' = [grid EXCEPT ![p] = [grid[p] EXCEPT ![h] = f]]
  <2>1. Descriptor(p, My(p)) = dev
    BY <1>1, <1>2 DEF Descriptor, My, G, Size, Offset, DevOf
  <2>2. grid' = [grid EXCEPT ![p][G(p)].dev = dev]
    BY <2>1 DEF DoWait, Fixup
  <2>3. G(p) = h
    BY <1>1 DEF G
  <2>4. grid' = [grid EXCEPT ![p][h].dev = dev]
    BY <2>2, <2>3, Zenon
  <2> QED BY <1>1, <1>2, <2>4, Zenon
<1>5. Known(job) /\ WidthsFit /\ TwoWay /\ OneStage
  BY DEF RunOK, Wellformed, Conditions
<1>6. /\ round' = round /\ round' \in [All(job) -> Nat] /\ at' \in [All(job) -> Nat]
      /\ Step(job, p, a, b) /\ Moves(job, p, round, at, round', at')
      /\ \A q \in All(job) : q # p => at'[q] = at[q]
  BY <1>1, <1>3, <1>5, Advances
<1>7. /\ ProcessOK(job, p, r, a, queue[p], grid[p], data[p])
      /\ a \in 1 .. Len(job.body) /\ job.body[a].op = "wait"
      /\ GridOK(job, p, g) /\ Loaded(job, p, r, a, g) /\ DOMAIN grid[p] = 0 .. 1 /\ h \in 0 .. 1
  BY <1>1, <1>3, <1>5, Calls
<1>8. GridOK(job, p, f) /\ Loaded(job, p, r, b, f) /\ f.peer = g.peer
  <2>1. WithDev(g, dev, f)
    BY <1>2 DEF WithDev
  <2> QED BY <1>2, <1>5, <1>6, <1>7, <2>1, WaitGrid
<1>9. /\ DOMAIN grid' = All(job) /\ Changed(grid[p], grid'[p], h, f)
      /\ \A q \in All(job) : q # p => grid'[q] = grid[q]
  <2>1. DOMAIN grid = All(job)
    BY DEF RunOK, Wellformed
  <2>2. Regridded(grid, grid', p, h, f)
    BY <1>4, <1>7, <2>1, NewGrid
  <2> QED BY <2>1, <2>2 DEF Regridded
<1>10. ProcessOK(job, p, r, b, queue[p], grid'[p], data[p])
  BY <1>1, <1>5, <1>6, <1>7, <1>8, <1>9, ProcessCalls
<1>11. NotEnded(job, p, round, at)
  <2> SUFFICES ASSUME ~Eager, NEW t \in All(job), NEW k \in Way(job, p, t, round, at), d = k.dim
               PROVE  FALSE
    BY <1>1 DEF NotEnded
  <2>1. /\ k.fw \in BOOLEAN /\ t = Target(p, d, k.fw)
        /\ \E i \in DOMAIN net[p][t] : net[p][t][i].buffer = <<k.round % 2, d, k.fw>>
    BY <1>5, InBuffer
  <2>2. k.round = r
    BY <1>1 DEF RunOK, NetOK, Pressed
  <2>3. Buffer(p, d, k.fw) = <<k.round % 2, d, k.fw>>
    BY <1>1, <2>2 DEF Buffer, G
  <2> QED BY <1>3, <2>1, <2>3
<1>12. NetOK(job, round', at', net)
  BY <1>1, <1>5, <1>6, <1>7, <1>11, NetQuiet DEF RunOK
<1>13. Only(p)
  BY <1>3, <1>6, <1>9 DEF Only, RunOK, Wellformed
<1> QED BY <1>1, <1>3, <1>6, <1>10, <1>12, <1>13, OnlyOne

\* A buffer is filled again of which no message is on its way.
LEMMA OverwriteNone ==
  ASSUME NEW S, NEW n \in [All(job) -> [All(job) -> Seq(S)]], NEW p \in All(job), NEW u,
         ~Eager => \A q \in All(job) : \A i \in DOMAIN n[p][q] : n[p][q][i].buffer # u
  PROVE  Overwrite(n, p, u) = n
<1>1. CASE Eager
  BY <1>1 DEF Overwrite
<1>2. CASE ~Eager
  <2>1. PICK row : row = [q \in All(job) |-> [i \in DOMAIN n[p][q] |->
                            IF n[p][q][i].buffer = u THEN Spoilt(n[p][q][i]) ELSE n[p][q][i]]]
    OBVIOUS
  <2>2. ASSUME NEW q \in All(job) PROVE row[q] = n[p][q]
    <3>1. PICK c \in Seq(S) : c = n[p][q]
      OBVIOUS
    <3>2. \A i \in DOMAIN c : c[i].buffer # u
      BY <1>2, <3>1
    <3>3. row[q] = [i \in DOMAIN c |-> IF c[i].buffer = u THEN Spoilt(c[i]) ELSE c[i]]
      BY ONLY <2>1, <3>1, q \in All(job)
    <3>4. row[q] = [i \in DOMAIN c |-> c[i]]
      BY ONLY <3>2, <3>3
    <3>5. c = [i \in DOMAIN c |-> c[i]]
      OBVIOUS
    <3> QED BY ONLY <3>1, <3>4, <3>5
  <2>3. row = n[p]
    <3>1. row = [q \in All(job) |-> row[q]] /\ n[p] = [q \in All(job) |-> n[p][q]]
      BY <2>1
    <3> QED BY ONLY <2>2, <3>1
  <2>4. [n EXCEPT ![p] = n[p]] = n
    OBVIOUS
  <2> QED BY <1>2, <2>1, <2>3, <2>4 DEF Overwrite, Proc, All
<1> QED BY <1>1, <1>2

\* The work that a copy of the exchange has to wait for is not there.
LEMMA CopyFree ==
  ASSUME NEW p, IsSeq(queue[p], Len(queue[p])), CopyDone(p)
  PROVE  \A n \in 1 .. Len(queue[p]) : ~Ordered(queue[p][n].stream, job.stream)
<1>1. DOMAIN queue[p] = 1 .. Len(queue[p])
  BY SeqLen
<1> QED BY <1>1 DEF CopyDone, Kernels

\* At a call of the exchange of dimension d the halos of those behind are there.
LEMMA BehindIs ==
  ASSUME NEW j, NEW p, NEW r, NEW a, NEW g, GridOK(j, p, g), Loaded(j, p, r, a, g),
         NEW d \in Axis, NEW fw \in BOOLEAN, a = SendAt(j, d, fw) \/ a = RecvAt(j, d, fw)
  PROVE  HasBehind(j, p, r, d, g.bw, g.fw, g.peer)
<1> SUFFICES ASSUME NEW e \in Axis, e > d
             PROVE  /\ g.bw[e] = Held(j, p, e, FALSE) /\ g.fw[e] = Held(j, p, e, TRUE)
                    /\ (Receives(j, p, e, FALSE) => g.peer[e].bw = HaloSeq(j, p, r, e, FALSE))
                    /\ (Receives(j, p, e, TRUE) => g.peer[e].fw = HaloSeq(j, p, r, e, TRUE))
  BY DEF HasBehind
<1>1. \A x \in BOOLEAN : RecvAt(j, e, x) < a
  <2>1. PICK v : v = IF j.body[1].op = "launch" THEN 1 ELSE 0
    OBVIOUS
  <2>2. v \in Nat /\ d \in Int /\ e \in Int
    BY <2>1 DEF Axis
  <2>3. \E z \in 1 .. 4 : a = v + 5 * (3 - d) + z
    BY <2>1 DEF SendAt, RecvAt, ExchangeAt
  <2>4. \A x \in BOOLEAN : RecvAt(j, e, x) = v + 5 * (3 - e) + (IF x THEN 4 ELSE 3)
    BY <2>1 DEF RecvAt, ExchangeAt
  <2> QED BY <2>2, <2>3, <2>4
<1>2. \A x \in BOOLEAN : Receives(j, p, e, x) => HaloIn(j, p, r, e, x, g)
  BY <1>1 DEF Loaded
<1>3. \A x \in BOOLEAN : ~Receives(j, p, e, x) => Held(j, p, e, x) = 0
  BY DEF Held
<1>4. g.bw[e] \in {0, Held(j, p, e, FALSE)} /\ g.fw[e] \in {0, Held(j, p, e, TRUE)}
  BY DEF GridOK
<1>5. /\ (Receives(j, p, e, TRUE) =>
            g.fw[e] = Held(j, p, e, TRUE) /\ g.peer[e].fw = HaloSeq(j, p, r, e, TRUE))
      /\ (Receives(j, p, e, FALSE) =>
            g.bw[e] = Held(j, p, e, FALSE) /\ g.peer[e].bw = HaloSeq(j, p, r, e, FALSE))
  BY <1>2 DEF HaloIn, Half
<1> QED BY <1>3, <1>4, <1>5

\* What is copied out at a call of the exchange, and its message.
LEMMA CopiesOut ==
  ASSUME RunOK, Conditions, NEW p \in All(job), Doing(p, "send"), CopyDone(p),
         NEW d, d = job.body[at[p]].d, NEW fw, fw = job.body[at[p]].fw,
         NEW q, q = Target(p, d, fw), NEW k, k = KeyOf(round[p], d, fw)
  PROVE  /\ k \in Key /\ OpAt(job, at[p], "send", round[p], k)
         /\ q \in All(job) /\ Slot(job, p, q, d, fw) /\ k.dim = d /\ k.fw = fw
         /\ Message(SlabOf(p, d, fw), Buffer(p, d, fw)) = MessageOf(job, q, k)
         /\ Overwrite(net, p, Buffer(p, d, fw)) = net
<1>1. PICK r, a, h, g, da : /\ r = round[p] /\ a = at[p] /\ h = r % 2
                            /\ g = grid[p][h] /\ da = data[p][h]
  OBVIOUS
<1>2. Known(job) /\ WidthsFit /\ OneStage
  BY DEF RunOK, Wellformed, Conditions
<1>3. /\ ProcessOK(job, p, r, a, queue[p], grid[p], data[p])
      /\ a \in 1 .. Len(job.body) /\ job.body[a].op = "send" /\ Does(job, p, job.body[a])
      /\ r \in Nat /\ IsSeq(queue[p], Len(queue[p]))
      /\ GridOK(job, p, g) /\ Loaded(job, p, r, a, g)
  BY <1>1, <1>2, Calls
<1>4. d \in Axis /\ fw \in BOOLEAN /\ a = SendAt(job, d, fw) /\ Sends(job, p, d, fw)
  <2>1. d = job.body[a].d /\ fw = job.body[a].fw
    BY <1>1
  <2>2. /\ job.body[a].d \in Axis /\ job.body[a].fw \in BOOLEAN
        /\ a = SendAt(job, job.body[a].d, job.body[a].fw)
    BY <1>2, <1>3, CallAt
  <2>3. Sends(job, p, job.body[a].d, job.body[a].fw)
    BY <1>3 DEF Does
  <2> QED BY ONLY <2>1, <2>2, <2>3
<1>5. k \in Key /\ k.round = r /\ k.dim = d /\ k.fw = fw
  <2>1. k = KeyOf(r, d, fw)
    BY <1>1, ZenonT(30)
  <2>2. r \in Nat /\ d \in Axis /\ fw \in BOOLEAN
    BY <1>3, <1>4
  <2> QED BY ONLY <2>1, <2>2, KeyFacts
<1>6. OpAt(job, at[p], "send", round[p], k)
  BY <1>1, <1>3, <1>5 DEF OpAt
<1>7. q \in All(job) /\ Slot(job, p, q, d, fw)
  <2>1. q = To(job, p, d, fw)
    BY Targets
  <2>2. q \in All(job)
    BY <1>2, <1>4, <2>1, PeerFacts DEF To
  <2> QED BY <1>2, <1>4, <2>1, <2>2, Slots
<1>8. Holds(job, p, r, da)
  <2>1. QueueOK(job, p, r, a, queue[p]) /\ DataOK(job, p, r, a, queue[p], data[p], Base(queue[p], r))
    BY <1>3 DEF ProcessOK
  <2>2. \A n \in 1 .. Len(queue[p]) : ~Ordered(queue[p][n].stream, job.stream)
    BY <1>3, CopyFree
  <2>3. Base(queue[p], r) = r
    BY <1>2, <1>3, <2>1, <2>2, AtExchange, SMTT(30)
  <2> QED BY <1>1, <2>1, <2>3 DEF DataOK
<1>9. HasBehind(job, p, r, d, g.bw, g.fw, g.peer)
  BY <1>3, <1>4, BehindIs
<1>10. SlabOf(p, d, fw) = HaloSeq(job, q, r, d, fw)
  <2>1. PICK slab : slab = CopyoutHalo(CopiedSlab(job, p, d, fw, da), g.peer, job.extent[p],
                                       g.bw, g.fw, d, WidthIn(job, d, fw), fw, job.diagonal)
    BY ZenonT(30)
  <2>2. SlabOf(p, d, fw) = slab
    BY <1>1, <2>1, Targets, ZenonT(30) DEF SlabOf, CopiedSlab, My, G, Size, Content, Point, PointOf, Offset
  <2>3. g.bw \in Extent /\ g.fw \in Extent
    BY <1>3 DEF GridOK, GridShape
  <2>4. IsFill(slab, View(job, p, r),
               SlabStart(job.extent[p], Bw(job, p), d, WidthIn(job, d, fw), fw, job.diagonal),
               HaloSize(job, p, d, fw))
    BY <1>2, <1>4, <1>8, <1>9, <2>1, <2>3, SlabOfPart
  <2>5. slab = HaloSeq(job, q, r, d, fw)
    BY <1>2, <1>4, <1>7, <2>4, SlabIsHalo
  <2> QED BY <2>2, <2>5, ZenonT(30)
<1>11. Message(SlabOf(p, d, fw), Buffer(p, d, fw)) = MessageOf(job, q, k)
  BY <1>1, <1>5, <1>10 DEF MessageOf, Buffer, G
<1>12. Overwrite(net, p, Buffer(p, d, fw)) = net
  <2>1. net \in [All(job) -> [All(job) -> Seq(Msgs(job))]]
    BY DEF RunOK, NetOK
  <2>2. ASSUME ~Eager, NEW t \in All(job), NEW i \in DOMAIN net[p][t],
               net[p][t][i].buffer = Buffer(p, d, fw)
        PROVE  FALSE
    <3>1. PICK m \in Way(job, p, t, round, at) : net[p][t][i] = MessageOf(job, t, m)
      <4>1. Chan(job, t, Way(job, p, t, round, at), net[p][t])
        BY DEF RunOK, NetOK
      <4> QED BY <4>1, ChanHas
    <3>2. m.dim = d /\ m.fw = fw
      BY <2>2, <3>1 DEF MessageOf, Message, Buffer
    <3>3. m.round = r
      BY <1>1, <2>2 DEF RunOK, NetOK, Pressed
    <3>4. Sent(job, r, a, m)
      BY <1>1, WayIs, ZenonT(30)
    <3>5. r < r \/ SendAt(job, d, fw) < a
      BY ONLY <3>2, <3>3, <3>4, ZenonT(30) DEF Sent
    <3>6. r \in Int /\ a \in Int
      BY <1>3, <1>4
    <3> QED BY <1>4, <3>5, <3>6
  <2> QED BY <2>1, <2>2, OverwriteNone
<1> QED BY <1>5, <1>6, <1>7, <1>11, <1>12

\* A slab is sent.
LEMMA SendKeeps ==
  ASSUME RunOK, Conditions, NEW p \in All(job), DoSend(p)
  PROVE  RunOK'
<1>1. PICK r, a, b, h, g, d, fw, q, k :
        /\ r = round[p] /\ a = at[p] /\ b = at'[p] /\ h = r % 2 /\ g = grid[p][h]
        /\ d = job.body[a].d /\ fw = job.body[a].fw /\ q = Target(p, d, fw)
        /\ k = KeyOf(round[p], d, fw)
  OBVIOUS
<1>2. PICK f : f = [g EXCEPT !.diag = job.diagonal]
  OBVIOUS
<1>3. /\ Doing(p, "send") /\ Advance(p) /\ CopyDone(p)
      /\ job' = job /\ queue' = queue /\ data' = data
  BY DEF DoSend
<1>4. Known(job) /\ WidthsFit /\ OneStage
  BY DEF RunOK, Wellformed, Conditions
<1>5. /\ k \in Key /\ OpAt(job, at[p], "send", round[p], k)
      /\ q \in All(job) /\ Slot(job, p, q, d, fw) /\ k.dim = d /\ k.fw = fw
      /\ Message(SlabOf(p, d, fw), Buffer(p, d, fw)) = MessageOf(job, q, k)
      /\ Overwrite(net, p, Buffer(p, d, fw)) = net
  BY <1>1, <1>3, CopiesOut
<1>6. net' = Put(net, p, q, MessageOf(job, q, k))
  <2>1. net' = Put(Overwrite(net, p, Buffer(p, d, fw)), p, Target(p, d, fw),
                   Message(SlabOf(p, d, fw), Buffer(p, d, fw)))
    BY <1>1 DEF DoSend, Next1
  <2> QED BY <1>1, <1>5, <2>1
<1>7. grid' = [grid EXCEPT ![p] = [grid[p] EXCEPT ![h] = f]]
  <2>1. grid' = [grid EXCEPT ![p][G(p)].diag = job.diagonal]
    BY DEF DoSend
  <2>2. G(p) = h
    BY <1>1 DEF G
  <2>3. grid' = [grid EXCEPT ![p][h].diag = job.diagonal]
    BY <2>1, <2>2, Zenon
  <2> QED BY <1>1, <1>2, <2>3, Zenon
<1>8. /\ round' = round /\ round' \in [All(job) -> Nat] /\ at' \in [All(job) -> Nat]
      /\ Step(job, p, a, b) /\ Moves(job, p, round, at, round', at')
      /\ \A s \in All(job) : s # p => at'[s] = at[s]
  BY <1>1, <1>3, <1>4, Advances
<1>9. /\ ProcessOK(job, p, r, a, queue[p], grid[p], data[p])
      /\ a \in 1 .. Len(job.body) /\ job.body[a].op = "send"
      /\ GridOK(job, p, g) /\ Loaded(job, p, r, a, g) /\ DOMAIN grid[p] = 0 .. 1 /\ h \in 0 .. 1
  BY <1>1, <1>3, <1>4, Calls
<1>10. GridOK(job, p, f) /\ Loaded(job, p, r, b, f) /\ f.peer = g.peer
  <2>1. WithDiag(g, job.diagonal, f)
    BY <1>2 DEF WithDiag
  <2>2. Step(job, p, a, b)
    BY <1>8
  <2>3. /\ a \in 1 .. Len(job.body) /\ job.body[a].op = "send"
        /\ GridOK(job, p, g) /\ Loaded(job, p, r, a, g)
    BY <1>9
  <2> QED BY ONLY <1>4, <2>1, <2>2, <2>3, SendGrid
<1>11. /\ DOMAIN grid' = All(job) /\ Changed(grid[p], grid'[p], h, f)
       /\ \A s \in All(job) : s # p => grid'[s] = grid[s]
  <2>1. DOMAIN grid = All(job)
    BY DEF RunOK, Wellformed
  <2>2. Regridded(grid, grid', p, h, f)
    BY <1>7, <1>9, <2>1, NewGrid
  <2> QED BY <2>1, <2>2 DEF Regridded
<1>12. ProcessOK(job, p, r, b, queue[p], grid'[p], data[p])
  BY <1>1, <1>4, <1>8, <1>9, <1>10, <1>11, ProcessCalls
<1>13. NetOK(job, round', at', net')
  <2>1. NotEnded(job, p, round, at)
    BY <1>1, <1>9, EndsNothing
  <2>2. NetOK(job, round, at, net) /\ Slot(job, p, q, k.dim, k.fw)
    BY <1>5 DEF RunOK
  <2> QED BY <1>4, <1>5, <1>6, <1>8, <2>1, <2>2, NetSend
<1>14. Only(p)
  BY <1>3, <1>8, <1>11 DEF Only, RunOK, Wellformed
<1> QED BY <1>1, <1>3, <1>8, <1>12, <1>13, <1>14, OnlyOne

\* A halo is replaced.
HasRefilled(gs, gs2, p, h, d, fw, w, v) ==
  \E f : Regridded(gs, gs2, p, h, f) /\ Refilled(gs[p][h], f, d, fw, w, v)

LEMMA RefillsGrid ==
  ASSUME NEW gs, NEW p \in DOMAIN gs, DOMAIN gs[p] = 0 .. 1, NEW h \in 0 .. 1,
         NEW d, NEW fw \in BOOLEAN, NEW w, NEW v,
         NEW gs2, gs2 = [gs EXCEPT ![p][h][Half(fw)][d] = w, ![p][h].peer[d][Half(fw)] = v]
  PROVE  HasRefilled(gs, gs2, p, h, d, fw, w, v)
<1>1. CASE fw = TRUE
  <2>1. PICK f : f = [gs[p][h] EXCEPT !.fw[d] = w, !.peer[d].fw = v]
    OBVIOUS
  <2>2. Half(fw) = "fw"
    BY <1>1, Zenon DEF Half
  <2>3. gs2 = [gs EXCEPT ![p][h].fw[d] = w, ![p][h].peer[d].fw = v]
    BY <2>2, Zenon
  <2>4. gs2[p][h] = f
    BY ONLY <2>1, <2>3, p \in DOMAIN gs, DOMAIN gs[p] = 0 .. 1, h \in 0 .. 1
  <2>5. /\ DOMAIN gs2 = DOMAIN gs /\ DOMAIN gs2[p] = 0 .. 1
        /\ \A x \in 0 .. 1 : x # h => gs2[p][x] = gs[p][x]
    BY ONLY <2>3, p \in DOMAIN gs, DOMAIN gs[p] = 0 .. 1, h \in 0 .. 1
  <2>6. \A q \in DOMAIN gs : q # p => gs2[q] = gs[q]
    BY ONLY <2>3, p \in DOMAIN gs
  <2>7. Regridded(gs, gs2, p, h, f)
    BY ONLY <2>4, <2>5, <2>6 DEF Regridded, Changed
  <2>8. Refilled(gs[p][h], f, d, fw, w, v)
    BY ONLY <1>1, <2>1 DEF Refilled
  <2> QED BY ONLY <2>7, <2>8 DEF HasRefilled
<1>2. CASE fw = FALSE
  <2>1. PICK f : f = [gs[p][h] EXCEPT !.bw[d] = w, !.peer[d].bw = v]
    OBVIOUS
  <2>2. Half(fw) = "bw"
    BY <1>2, Zenon DEF Half
  <2>3. gs2 = [gs EXCEPT ![p][h].bw[d] = w, ![p][h].peer[d].bw = v]
    BY <2>2, Zenon
  <2>4. gs2[p][h] = f
    BY ONLY <2>1, <2>3, p \in DOMAIN gs, DOMAIN gs[p] = 0 .. 1, h \in 0 .. 1
  <2>5. /\ DOMAIN gs2 = DOMAIN gs /\ DOMAIN gs2[p] = 0 .. 1
        /\ \A x \in 0 .. 1 : x # h => gs2[p][x] = gs[p][x]
    BY ONLY <2>3, p \in DOMAIN gs, DOMAIN gs[p] = 0 .. 1, h \in 0 .. 1
  <2>6. \A q \in DOMAIN gs : q # p => gs2[q] = gs[q]
    BY ONLY <2>3, p \in DOMAIN gs
  <2>7. Regridded(gs, gs2, p, h, f)
    BY ONLY <2>4, <2>5, <2>6 DEF Regridded, Changed
  <2>8. Refilled(gs[p][h], f, d, fw, w, v)
    BY ONLY <1>2, <2>1 DEF Refilled
  <2> QED BY ONLY <2>7, <2>8 DEF HasRefilled
<1> QED BY ONLY <1>1, <1>2, fw \in BOOLEAN

\* The halo has room for what the neighbour sends.
LEMMA ReceivedIs ==
  ASSUME RunOK, WidthsFit, NEW p \in All(job), NEW d \in Axis, NEW fw \in BOOLEAN,
         NEW r, HasBehind(job, p, r, d, My(p).bw, My(p).fw, My(p).peer)
  PROVE  Received(p, d, fw, HaloSeq(job, p, r, d, fw)) = HaloSeq(job, p, r, d, fw)
<1>1. PICK bw, fws, w, s : /\ bw = My(p).bw /\ fws = My(p).fw /\ w = WidthIn(job, d, fw)
                           /\ s = HaloSize(job, p, d, fw)
  OBVIOUS
<1>2. \A e \in Axis : e > d => bw[e] = Bw(job, p)[e] /\ fws[e] = Fw(job, p)[e]
  BY <1>1 DEF HasBehind, Bw, Fw
<1>3. s = HaloExtent(job.extent[p], bw, fws, d, w, job.diagonal)
  BY <1>1, <1>2 DEF HaloSize, HaloExtent
<1>4. CalcHaloSize(Size(p), bw, fws, d, WidthOf(d, fw), job.diagonal) = Elements(s)
  <2>1. WidthOf(d, fw) = w /\ Size(p) = job.extent[p]
    BY <1>1, Targets DEF Size
  <2> QED BY <1>3, <2>1 DEF CalcHaloSize, HaloExtent
<1>5. PICK halo, n : halo = HaloSeq(job, p, r, d, fw) /\ n = Elements(s)
  OBVIOUS
<1>6. halo = [i \in 1 .. n |-> halo[i]] /\ DOMAIN halo = 1 .. n
  BY <1>1, <1>5 DEF HaloSeq, Fill
<1>7. Received(p, d, fw, halo) = [i \in 1 .. n |-> IF i \in DOMAIN halo THEN halo[i] ELSE Garbage]
  BY <1>1, <1>4, <1>5 DEF Received
<1> QED BY <1>5, <1>6, <1>7

\* A halo is received.
LEMMA RecvKeeps ==
  ASSUME RunOK, Conditions, NEW p \in All(job), DoRecv(p)
  PROVE  RunOK'
<1>1. PICK r, a, b, h, g, d, fw, q, k, w, v :
        /\ r = round[p] /\ a = at[p] /\ b = at'[p] /\ h = r % 2 /\ g = grid[p][h]
        /\ d = job.body[a].d /\ fw = job.body[a].fw /\ q = Source(p, d, fw)
        /\ k = KeyOf(r, d, fw) /\ w = WidthIn(job, d, fw) /\ v = HaloSeq(job, p, r, d, fw)
  BY ZenonT(30)
<1>2. /\ Doing(p, "recv") /\ Advance(p) /\ CopyDone(p) /\ Pending(net, q, p)
      /\ net' = Drop(net, q, p)
      /\ job' = job /\ queue' = queue /\ data' = data
  BY <1>1, ZenonT(30) DEF DoRecv, Next1
<1>3. Known(job) /\ WidthsFit /\ OneStage
  BY DEF RunOK, Wellformed, Conditions
<1>4. /\ ProcessOK(job, p, r, a, queue[p], grid[p], data[p])
      /\ a \in 1 .. Len(job.body) /\ job.body[a].op = "recv" /\ Does(job, p, job.body[a])
      /\ r \in Nat /\ IsSeq(queue[p], Len(queue[p]))
      /\ GridOK(job, p, g) /\ Loaded(job, p, r, a, g) /\ DOMAIN grid[p] = 0 .. 1 /\ h \in 0 .. 1
  BY <1>1, <1>2, <1>3, Calls
<1>5. d \in Axis /\ fw \in BOOLEAN /\ a = RecvAt(job, d, fw) /\ Receives(job, p, d, fw)
  <2>1. d = job.body[a].d /\ fw = job.body[a].fw
    BY <1>1
  <2>2. /\ job.body[a].d \in Axis /\ job.body[a].fw \in BOOLEAN
        /\ a = RecvAt(job, job.body[a].d, job.body[a].fw)
    BY <1>3, <1>4, CallAt
  <2>3. Receives(job, p, job.body[a].d, job.body[a].fw)
    BY <1>4 DEF Does
  <2> QED BY ONLY <2>1, <2>2, <2>3
<1>6. k \in Key /\ k.round = r /\ k.dim = d /\ k.fw = fw
  <2>1. k = KeyOf(r, d, fw)
    BY <1>1
  <2>2. r \in Nat /\ d \in Axis /\ fw \in BOOLEAN
    BY <1>4, <1>5
  <2> QED BY ONLY <2>1, <2>2, KeyFacts
<1>7. OpAt(job, at[p], "recv", round[p], k)
  BY <1>1, <1>4, <1>6 DEF OpAt
<1>8. q \in All(job) /\ Slot(job, q, p, k.dim, k.fw)
  <2>1. q = From(job, p, d, fw)
    BY <1>1, Targets
  <2>2. q \in All(job)
    BY <1>3, <1>5, <2>1, PeerFacts DEF From
  <2> QED BY <1>5, <1>6, <2>1, <2>2 DEF Slot
<1>9. /\ round' = round /\ round' \in [All(job) -> Nat] /\ at' \in [All(job) -> Nat]
      /\ Step(job, p, a, b) /\ Moves(job, p, round, at, round', at')
      /\ \A s \in All(job) : s # p => at'[s] = at[s]
  BY <1>1, <1>2, <1>3, Advances
<1>10. Oldest(net, q, p) = MessageOf(job, p, k) /\ NetOK(job, round', at', net')
  <2>1. NotEnded(job, p, round, at)
    BY <1>1, <1>4, EndsNothing
  <2>2. NetOK(job, round, at, net) /\ \A s \in All(job) : round[s] \in Nat /\ at[s] \in Nat
    BY DEF RunOK, Wellformed
  <2>3. Moves(job, p, round, at, round', at')
    BY <1>9
  <2>4. Pending(net, q, p) /\ net' = Drop(net, q, p)
    BY <1>2
  <2> QED BY ONLY <1>3, <1>6, <1>7, <1>8, <2>1, <2>2, <2>3, <2>4, NetReceive
<1>11. Received(p, d, fw, Oldest(net, q, p).slab) = v
  <2>1. Oldest(net, q, p).slab = v
    BY <1>1, <1>6, <1>10 DEF MessageOf, Message
  <2>2. My(p) = g
    BY <1>1 DEF My, G
  <2>3. HasBehind(job, p, r, d, g.bw, g.fw, g.peer)
    BY <1>4, <1>5, BehindIs
  <2>4. Received(p, d, fw, HaloSeq(job, p, r, d, fw)) = HaloSeq(job, p, r, d, fw)
    BY <1>3, <1>5, <2>2, <2>3, ReceivedIs
  <2> QED BY <1>1, <2>1, <2>4
<1>12. grid' = [grid EXCEPT ![p][h][Half(fw)][d] = w, ![p][h].peer[d][Half(fw)] = v]
  <2>1. grid' = [grid EXCEPT ![p][G(p)][Half(fw)][d] = WidthOf(d, fw),
                             ![p][G(p)].peer[d][Half(fw)] =
                               Received(p, d, fw, Oldest(net, q, p).slab)]
    BY <1>1, Zenon DEF DoRecv, Next1
  <2>2. G(p) = h /\ WidthOf(d, fw) = w
    BY <1>1, Targets DEF G
  <2> QED BY <1>11, <2>1, <2>2, Zenon
<1>13. HasRefilled(grid, grid', p, h, d, fw, w, v)
  <2>1. p \in DOMAIN grid
    BY DEF RunOK, Wellformed
  <2>2. DOMAIN grid[p] = 0 .. 1 /\ h \in 0 .. 1
    BY <1>4
  <2> QED BY <1>5, <1>12, <2>1, <2>2, RefillsGrid, Zenon
<1>14. PICK f : Regridded(grid, grid', p, h, f) /\ Refilled(grid[p][h], f, d, fw, w, v)
  BY <1>13 DEF HasRefilled
<1>15. GridOK(job, p, f) /\ Loaded(job, p, r, b, f)
  <2>1. Refilled(g, f, d, fw, WidthIn(job, d, fw), HaloSeq(job, p, r, d, fw))
    BY <1>1, <1>14
  <2>2. Step(job, p, a, b)
    BY <1>9
  <2>3. /\ a \in 1 .. Len(job.body) /\ job.body[a].op = "recv"
        /\ GridOK(job, p, g) /\ Loaded(job, p, r, a, g)
    BY <1>4
  <2>4. d = job.body[a].d /\ fw = job.body[a].fw
    BY <1>1
  <2>5. d \in Axis /\ fw \in BOOLEAN /\ Receives(job, p, d, fw)
    BY <1>5
  <2> QED BY ONLY <1>3, p \in All(job), <2>1, <2>2, <2>3, <2>4, <2>5, ReceiveGrid
<1>16. /\ DOMAIN grid' = All(job) /\ Changed(grid[p], grid'[p], h, f)
       /\ \A s \in All(job) : s # p => grid'[s] = grid[s]
  <2>1. DOMAIN grid = All(job)
    BY DEF RunOK, Wellformed
  <2> QED BY <1>14, <2>1 DEF Regridded
<1>17. \A n \in 1 .. Len(queue[p]) : ~Ordered(queue[p][n].stream, job.stream)
  BY <1>2, <1>4, CopyFree
<1>18. ProcessOK(job, p, r, b, queue[p], grid'[p], data[p])
  BY <1>1, <1>3, <1>4, <1>9, <1>15, <1>16, <1>17, ProcessCalls
<1>19. Only(p)
  BY <1>2, <1>9, <1>16 DEF Only, RunOK, Wellformed
<1> QED BY <1>1, <1>2, <1>9, <1>10, <1>18, <1>19, OnlyOne

\* Only the code of two stages copies out without sending, and the other way round.
LEMMA OneStageOnly ==
  ASSUME RunOK, OneStage, NEW p \in All(job)
  PROVE  ~DoCopyOut(p) /\ ~DoIsend(p)
<1>1. Known(job)
  BY DEF RunOK, Wellformed
<1>2. ASSUME NEW o, Doing(p, o) PROVE o \in {"send", "recv", "wait", "launch", "sync"}
  <2>1. at[p] \in 1 .. Len(job.body) /\ job.body[at[p]].op = o
    BY <1>2, Calls
  <2> QED BY <1>1, <2>1, CallAt
<1>3. ~Doing(p, "copyout")
  BY <1>2
<1>4. ~Doing(p, "isend")
  BY <1>2
<1> QED BY <1>3, <1>4 DEF DoCopyOut, DoIsend

\* A kernel writes the points that it computes.
LEMMA EmitsAt ==
  ASSUME NEW j, Known(j), WidthsFit, OneStage, DomainsWide, NEW p \in All(j),
         NEW c, IsLaunch(j, c), NEW dev, Places(j, p, dev), NEW l \in Cells(j, p)
  PROVE  InGrid(l) \in {EmitAddr(dev, x) : x \in Computes(j, p, j.body[c])}
           <=> PointOf(j, p, l) \in Computes(j, p, j.body[c])
<1>1. l \in Vector /\ \A e \in Axis : 0 <= l[e] /\ l[e] < j.extent[p][e]
  BY CellIs
<1>2. j.offset[p] \in Vector
  BY PartFacts DEF Extent, Vector
<1>3. PointOf(j, p, l) \in Vector /\ \A e \in Axis : PointOf(j, p, l)[e] = l[e] + j.offset[p][e]
  BY <1>1, <1>2, Vectors DEF PointOf
<1>4. Local(dev, PointOf(j, p, l)) = l
  <2>1. PICK y : y = PointOf(j, p, l)
    OBVIOUS
  <2>2. Local(dev, y) \in Vector /\ \A e \in Axis : Local(dev, y)[e] = y[e] - j.offset[p][e]
    BY <1>3, <2>1, LocalPlace
  <2>3. \A e \in Axis : l[e] \in Int /\ j.offset[p][e] \in Int
    BY <1>1, <1>2, Vectors
  <2>4. \A e \in Axis : Local(dev, y)[e] = l[e]
    BY <1>3, <2>1, <2>2, <2>3
  <2> QED BY <1>1, <2>1, <2>2, <2>4, Vectors
<1>5. ASSUME NEW x \in Computes(j, p, j.body[c]), InGrid(l) = EmitAddr(dev, x)
      PROVE  PointOf(j, p, l) = x
  <2>1. x \in Vector
    BY ComputesIn DEF InPart
  <2>2. l = Local(dev, x)
    BY <1>5 DEF EmitAddr, InGrid, AddrNoHalo
  <2> QED BY <2>1, <2>2, LocalPlace
<1>6. InGrid(l) = EmitAddr(dev, PointOf(j, p, l))
  BY <1>4 DEF EmitAddr, InGrid, AddrNoHalo
<1> QED BY <1>5, <1>6

\* Kernel i of the queue of p runs.
LEMMA RunKeeps ==
  ASSUME RunOK, Conditions, NEW p \in All(job), RunKernel(p)
  PROVE  RunOK'
<1>1. PICK i \in DOMAIN queue[p] :
        /\ \A m \in 1 .. i - 1 : ~Ordered(queue[p][m].stream, queue[p][i].stream)
        /\ queue' = [queue EXCEPT ![p] = RemoveAt(@, i)]
        /\ data' = [data EXCEPT ![p][1 - (queue[p][i].round % 2)] =
             [l \in DOMAIN @ |->
                IF InGrid(l) \in {EmitAddr(queue[p][i].dev, x) : x \in Points(queue[p][i])}
                THEN Computed(p, queue[p][i], Point(p, l)) ELSE @[l]]]
        /\ job' = job /\ net' = net /\ round' = round /\ at' = at /\ grid' = grid
  BY DEF RunKernel
<1>2. PICK r, a, qu, gr, da, k, b : /\ r = round[p] /\ a = at[p] /\ qu = queue[p] /\ gr = grid[p]
                                    /\ da = data[p] /\ k = qu[i] /\ b = k.round
  OBVIOUS
<1>3. Known(job) /\ WidthsFit /\ OneStage /\ DomainsWide
  BY DEF RunOK, Wellformed, Conditions
<1>4. ProcessOK(job, p, r, a, qu, gr, da)
  BY <1>2 DEF RunOK, ProcessesOK
<1>5. /\ QueueOK(job, p, r, a, qu) /\ KernelsOK(job, p, qu, gr)
      /\ DataOK(job, p, r, a, qu, da, Base(qu, r)) /\ IsSeq(qu, Len(qu))
  BY <1>4 DEF ProcessOK, QueueOK
<1>6. i \in 1 .. Len(qu)
  BY <1>2, <1>5, SeqLen, ZenonT(30)
<1>7. \A m \in 1 .. i - 1 : ~Ordered(qu[m].stream, qu[i].stream)
  BY <1>1, <1>2
<1>8. b = Base(qu, r) /\ b \in Nat
  <2>1. qu[i].round = Base(qu, r)
    BY <1>3, <1>5, <1>6, <1>7, RunsFirst
  <2>2. qu[i].round \in Nat
    BY <1>5, <1>6, QueueFacts
  <2> QED BY <1>2, <2>1, <2>2
<1>9. PICK c : IsLaunch(job, c) /\ IsKernel(job, p, k, job.body[c], b)
  BY <1>2, <1>5, <1>6 DEF QueueOK, Launched, Issued
<1>10. PICK h : h = 1 - (b % 2)
  OBVIOUS
<1>11. h \in 0 .. 1 /\ b % 2 \in 0 .. 1
  BY <1>8, <1>10, Parity
<1>12. da \in [0 .. 1 -> [Cells(job, p) -> Int]] /\ Holds(job, p, b, da[b % 2])
  BY <1>5, <1>8 DEF DataOK
<1>13. Reads(job, p, k, b, gr[b % 2].peer, da[b % 2])
  <2>1. DOMAIN da[b % 2] = Block(Origin, job.extent[p])
    BY <1>11, <1>12 DEF Cells
  <2>2. /\ Places(job, p, k.dev)
        /\ (k.variant # "inner" => Complete(job, p, k.dev) /\ Filled(job, p, b, gr[b % 2].peer))
    BY <1>2, <1>5, <1>6 DEF KernelsOK
  <2> QED BY <1>12, <2>1, <2>2 DEF Reads
<1>14. Points(k) = Computes(job, p, job.body[c])
  BY <1>9 DEF Points, Computes, IsKernel
<1>15. PICK new : new = [l \in Cells(job, p) |->
                           IF PointOf(job, p, l) \in Computes(job, p, job.body[c]) THEN b + 1
                           ELSE da[h][l]]
  OBVIOUS
<1>16. PICK old : old = [l \in Cells(job, p) |->
                           IF InGrid(l) \in {EmitAddr(k.dev, x) : x \in Points(k)}
                           THEN Computed(p, k, Point(p, l)) ELSE da[h][l]]
  OBVIOUS
<1>17. old = new
  <2> SUFFICES ASSUME NEW l \in Cells(job, p) PROVE old[l] = new[l]
    BY <1>15, <1>16
  <2>1. Places(job, p, k.dev)
    BY <1>13 DEF Reads
  <2>2. InGrid(l) \in {EmitAddr(k.dev, x) : x \in Points(k)}
          <=> PointOf(job, p, l) \in Computes(job, p, job.body[c])
    BY <1>3, <1>9, <1>14, <2>1, EmitsAt
  <2>3. CASE PointOf(job, p, l) \in Computes(job, p, job.body[c])
    <3>1. Point(p, l) = PointOf(job, p, l)
      BY DEF Point, PointOf, Offset
    <3>2. Computed(p, k, PointOf(job, p, l)) = b + 1
      <4>1. IsKernel(job, p, k, job.body[c], k.round) /\ k.round \in Nat
        BY <1>2, <1>8, <1>9
      <4>2. Reads(job, p, k, k.round, grid[p][k.round % 2].peer, data[p][k.round % 2])
        BY <1>2, <1>13
      <4>3. Computed(p, k, PointOf(job, p, l)) = k.round + 1
        BY <1>3, <1>9, <2>3, <4>1, <4>2, ComputedIs
      <4> QED BY <1>2, <4>3
    <3>3. old[l] = Computed(p, k, Point(p, l))
      BY <1>16, <2>2, <2>3
    <3>4. new[l] = b + 1
      BY <1>15, <2>3
    <3> QED BY <3>1, <3>2, <3>3, <3>4
  <2>4. CASE PointOf(job, p, l) \notin Computes(job, p, job.body[c])
    BY <1>15, <1>16, <2>2, <2>4
  <2> QED BY <2>3, <2>4
<1>18. PICK da2 : da2 = [da EXCEPT ![h] = new]
  OBVIOUS
<1>19. data' = [data EXCEPT ![p] = da2]
  <2>1. DOMAIN da[h] = Cells(job, p)
    BY <1>11, <1>12
  <2>2. data' = [data EXCEPT ![p][h] = [l \in DOMAIN da[h] |->
                   IF InGrid(l) \in {EmitAddr(k.dev, x) : x \in Points(k)}
                   THEN Computed(p, k, Point(p, l)) ELSE da[h][l]]]
    BY <1>1, <1>2, <1>10, Zenon
  <2>3. data' = [data EXCEPT ![p][h] = old]
    BY <1>16, <2>1, <2>2, Zenon
  <2> QED BY <1>2, <1>17, <1>18, <2>3, Zenon
<1>20. Writes(job, p, c, b, da, da2)
  BY <1>10, <1>15, <1>18 DEF Writes
<1>21. Shrunk(qu, i, RemoveAt(qu, i))
  BY <1>5, <1>6, ShrunkIs
<1>22. ProcessOK(job, p, r, a, RemoveAt(qu, i), gr, da2)
  <2>1. PICK qu2 : qu2 = RemoveAt(qu, i)
    OBVIOUS
  <2>2. IsKernel(job, p, qu[i], job.body[c], b) /\ b = qu[i].round /\ Shrunk(qu, i, qu2)
    BY <1>2, <1>9, <1>21, <2>1
  <2>3. ProcessOK(job, p, r, a, qu2, gr, da2)
    BY <1>3, <1>4, <1>6, <1>7, <1>9, <1>20, <2>2, ProcessRuns
  <2> QED BY <2>1, <2>3
<1>23. /\ DOMAIN queue' = All(job) /\ queue'[p] = RemoveAt(qu, i)
       /\ \A q \in All(job) : q # p => queue'[q] = queue[q]
  <2>1. queue' = [queue EXCEPT ![p] = RemoveAt(qu, i)]
    BY <1>1, <1>2, Zenon
  <2> QED BY <2>1, Replaced DEF RunOK, Wellformed
<1>24. /\ DOMAIN data' = All(job) /\ data'[p] = da2
       /\ \A q \in All(job) : q # p => data'[q] = data[q]
  BY <1>19, Replaced, ZenonT(30) DEF RunOK, Wellformed
<1>25. NetOK(job, round', at', net')
  BY <1>1 DEF RunOK
<1>26. Only(p)
  BY <1>1, <1>23, <1>24 DEF Only, RunOK, Wellformed
<1> QED BY <1>1, <1>2, <1>22, <1>23, <1>24, <1>25, <1>26, OnlyOne, ZenonT(30)

\* A grid without halos.
LEMMA GridFirst ==
  ASSUME Known(job), WidthsFit, NEW p \in All(job),
         NEW g, g = [NoHalos EXCEPT !.dev = Descriptor(p, NoHalos)]
  PROVE  GridOK(job, p, g)
<1>1. job.offset[p] \in Extent /\ job.extent[p] \in Extent
  BY PartFacts
<1>2. PICK z : z = [d \in Axis |-> 0]
  OBVIOUS
<1>3. z \in Extent /\ \A d \in Axis : z[d] = 0
  BY <1>2 DEF Extent
<1>4. NoHalos.bw = z /\ NoHalos.fw = z /\ NoHalos.diag = FALSE
  BY <1>2 DEF NoHalos
<1>5. Descriptor(p, NoHalos) = [size |-> job.extent[p], offset |-> job.offset[p], diag |-> FALSE,
                                bw |-> z, fw |-> z]
  BY <1>4 DEF Descriptor, Size, Offset
<1>6. /\ DOMAIN g = {"bw", "fw", "diag", "peer", "self", "dev"}
      /\ g.bw = z /\ g.fw = z /\ g.diag = FALSE
      /\ g.peer = [d \in Axis |-> [bw |-> << >>, fw |-> << >>]]
      /\ g.dev = Descriptor(p, NoHalos)
  BY <1>2 DEF NoHalos
<1>7. GridShape(g)
  BY <1>3, <1>6 DEF GridShape
<1>8. Places(job, p, g.dev)
  BY <1>1, <1>3, <1>5, <1>6 DEF Places, DevRec, Extent, Vector
<1>9. g.dev.bw = z /\ g.dev.fw = z
  BY <1>5, <1>6
<1> QED BY <1>3, <1>6, <1>7, <1>8, <1>9 DEF GridOK

\* Where a host begins, nothing is sent, received or launched.
LEMMA NothingDone ==
  ASSUME NEW j, Known(j), OneStage, NEW p, NEW b, Step(j, p, 0, b)
  PROVE  /\ \A k \in Key : /\ Sends(j, p, k.dim, k.fw) => ~Sent(j, 0, b, k)
                           /\ Receives(j, p, k.dim, k.fw) => ~Taken(j, 0, b, k)
         /\ \A i, r : ~Issued(j, 0, b, i, r)
<1>1. ASSUME NEW k \in Key
      PROVE  /\ Sends(j, p, k.dim, k.fw) => ~Sent(j, 0, b, k)
             /\ Receives(j, p, k.dim, k.fw) => ~Taken(j, 0, b, k)
  <2>1. PICK d \in Axis, fw \in BOOLEAN : d = k.dim /\ fw = k.fw
    BY KeyFacts
  <2>2. k.round \in Nat
    BY KeyFacts
  <2>3. /\ Sends(j, p, d, fw) => (SendAt(j, d, fw) < b <=> SendAt(j, d, fw) <= 0)
        /\ Receives(j, p, d, fw) => (RecvAt(j, d, fw) < b <=> RecvAt(j, d, fw) <= 0)
    BY StepPasses
  <2>4. SendAt(j, d, fw) > 0 /\ RecvAt(j, d, fw) > 0
        /\ SendAt(j, d, fw) \in Int /\ RecvAt(j, d, fw) \in Int
    BY DEF SendAt, RecvAt, ExchangeAt, Axis
  <2> QED BY <2>1, <2>2, <2>3, <2>4 DEF Sent, Taken
<1>2. ASSUME NEW i, NEW r, Issued(j, 0, b, i, r) PROVE FALSE
  <2>1. IsLaunch(j, i) => (i < b <=> i <= 0)
    BY StepPasses
  <2>2. Len(j.body) \in Nat
    BY BodyFacts DEF BodyOK
  <2> QED BY <1>2, <2>1, <2>2 DEF Issued, IsLaunch
<1> QED BY <1>1, <1>2

LEMMA ProcessFirst ==
  ASSUME Init, Conditions, NEW p \in All(job)
  PROVE  ProcessOK(job, p, 0, at[p], << >>, grid[p], data[p])
<1>1. Known(job) /\ WidthsFit /\ OneStage /\ All(job) = Proc
  BY DEF Init, Known, Conditions, All, Proc
<1>2. PICK b : b = at[p]
  OBVIOUS
<1>3. Step(job, p, 0, b) /\ b \in Nat /\ Len(job.body) \in Nat
  <2>1. Len(job.body) \in Nat
    BY <1>1, BodyFacts DEF BodyOK
  <2>2. Step(job, p, 0, NextCall(p, 0 + 1))
    BY <1>1, <2>1, NextCallIs
  <2>3. b = NextCall(p, 0 + 1)
    BY <1>1, <1>2 DEF Init
  <2> QED BY <2>1, <2>2, <2>3 DEF Step
<1>4. Len(<< >>) = 0 /\ IsSeq(<< >>, 0)
  BY Tuples
<1>5. Base(<< >>, 0) = 0
  BY <1>4 DEF Base
<1>6. HostOK(job, p, 0, b, grid[p])
  <2>1. grid[p] = [g \in 0 .. 1 |-> [NoHalos EXCEPT !.dev = Descriptor(p, NoHalos)]]
    BY <1>1 DEF Init
  <2>2. DOMAIN grid[p] = 0 .. 1 /\ \A g \in 0 .. 1 : GridOK(job, p, grid[p][g])
    BY <1>1, <2>1, GridFirst
  <2>3. Stands(job, p, b)
    BY <1>3, StepStands
  <2>4. Loaded(job, p, 0, b, grid[p][0 % 2])
    BY <1>1, <1>3, LoadedFirst
  <2>5. 0 \in 0 .. job.rounds
    BY <1>1, JobTypes
  <2> QED BY <2>2, <2>3, <2>4, <2>5 DEF HostOK
<1>7. \A i, r : ~Issued(job, 0, b, i, r)
  BY <1>1, <1>3, NothingDone
<1>8. QueueOK(job, p, 0, b, << >>)
  <2>1. Launched(job, p, 0, b, << >>) /\ InOrder(<< >>) /\ Drained(job, 0, b, << >>)
    BY <1>4 DEF Launched, InOrder, Drained
  <2>2. Blocked(job, 0, b, << >>)
    BY <1>4 DEF Blocked
  <2>3. AllThere(job, p, 0, b, << >>)
    BY <1>7 DEF AllThere
  <2> QED BY <1>3, <1>4, <2>1, <2>2, <2>3 DEF QueueOK
<1>9. KernelsOK(job, p, << >>, grid[p])
  BY <1>4 DEF KernelsOK
<1>10. DataOK(job, p, 0, b, << >>, data[p], 0)
  <2>1. data[p] = [g \in 0 .. 1 |-> [l \in Cells(job, p) |->
                     IF g = 1 /\ InDom(job, PointOf(job, p, l)) THEN -1 ELSE 0]]
    BY <1>1 DEF Init, Cells, Size, InDom, InDomain, Point, PointOf, Offset
  <2>2. data[p] \in [0 .. 1 -> [Cells(job, p) -> Int]]
    BY <2>1
  <2>3. 0 % 2 = 0
    OBVIOUS
  <2>4. Holds(job, p, 0, data[p][0 % 2])
    BY <2>1, <2>3 DEF Holds, Cells
  <2>5. \A l \in Cells(job, p) :
          ~InDom(job, PointOf(job, p, l)) => data[p][0][l] = 0 /\ data[p][1][l] = 0
    BY <2>1
  <2> QED BY <1>7, <2>2, <2>4, <2>5 DEF DataOK
<1> QED BY <1>2, <1>5, <1>6, <1>8, <1>9, <1>10 DEF ProcessOK

LEMMA NetFirst ==
  ASSUME Init, Conditions
  PROVE  NetOK(job, round, at, net)
<1>1. Known(job) /\ WidthsFit /\ OneStage /\ All(job) = Proc
  BY DEF Init, Known, Conditions, All, Proc
<1>2. Len(job.body) \in Nat
  BY <1>1, BodyFacts DEF BodyOK
<1>3. \A q \in All(job) : round[q] = 0 /\ Step(job, q, 0, at[q])
  <2> TAKE q \in All(job)
  <2>1. Step(job, q, 0, NextCall(q, 0 + 1))
    BY <1>1, <1>2, NextCallIs
  <2> QED BY <1>1, <2>1 DEF Init
<1>4. \A q, p \in All(job) : net[q][p] = << >>
  BY <1>1 DEF Init, EmptyNet
<1>5. net \in [All(job) -> [All(job) -> Seq(Msgs(job))]]
  BY <1>1 DEF Init, EmptyNet
<1> SUFFICES ASSUME NEW q \in All(job), NEW p \in All(job)
             PROVE  /\ Chan(job, p, Way(job, q, p, round, at), net[q][p])
                    /\ Causal(job, q, p, round, at) /\ Pressed(job, q, p, round, at)
  BY <1>5 DEF NetOK
<1>6. ASSUME NEW k \in Key, Slot(job, q, p, k.dim, k.fw)
      PROVE  ~Sent(job, round[q], at[q], k) /\ ~Taken(job, round[p], at[p], k)
  <2>1. Receives(job, p, k.dim, k.fw) /\ Sends(job, q, k.dim, k.fw)
    <3>1. k.dim \in Axis /\ k.fw \in BOOLEAN
      BY KeyFacts
    <3> QED BY <1>1, <1>6, <3>1, Slots DEF Slot
  <2>2. ~Sent(job, 0, at[q], k)
    BY <1>1, <1>3, <2>1, NothingDone
  <2>3. ~Taken(job, 0, at[p], k)
    BY <1>1, <1>3, <2>1, NothingDone
  <2> QED BY <1>3, <2>2, <2>3
<1>7. Way(job, q, p, round, at) = {}
  BY <1>6 DEF Way
<1>8. Chan(job, p, Way(job, q, p, round, at), net[q][p])
  <2>1. Lists(<< >>, {})
    BY ListsEmpty
  <2>2. Bodies(job, p, << >>) = << >>
    BY DEF Bodies
  <2> QED BY <1>4, <1>7, <2>1, <2>2 DEF Chan
<1>9. Causal(job, q, p, round, at)
  BY <1>6 DEF Causal
<1>10. Pressed(job, q, p, round, at)
  BY <1>7 DEF Pressed
<1> QED BY <1>8, <1>9, <1>10

LEMMA InitOK ==
  ASSUME Conditions, Init
  PROVE  RunOK
<1>1. Known(job) /\ WidthsFit /\ OneStage /\ All(job) = Proc
  BY DEF Init, Known, Conditions, All, Proc
<1>2. round = [p \in All(job) |-> 0] /\ \A p \in All(job) : queue[p] = << >> /\ round[p] = 0
  BY <1>1 DEF Init
<1>3. Len(job.body) \in Nat
  BY <1>1, BodyFacts DEF BodyOK
<1>4. at = [p \in All(job) |-> NextCall(p, 0 + 1)]
  BY <1>1 DEF Init
<1>5. ASSUME NEW p \in All(job) PROVE NextCall(p, 0 + 1) \in Nat
  <2>1. Step(job, p, 0, NextCall(p, 0 + 1))
    BY <1>1, <1>3, NextCallIs
  <2> QED BY <2>1 DEF Step
<1>6. Wellformed
  <2>1. at \in [All(job) -> Nat]
    BY <1>4, <1>5
  <2>2. DOMAIN queue = All(job) /\ DOMAIN grid = All(job) /\ DOMAIN data = All(job)
    BY <1>1 DEF Init
  <2> QED BY <1>1, <1>2, <2>1, <2>2 DEF Wellformed
<1>7. ProcessesOK
  BY <1>2, ProcessFirst DEF ProcessesOK
<1> QED BY <1>6, <1>7, NetFirst DEF RunOK

LEMMA NextOK ==
  ASSUME Conditions, RunOK, [Next]_vars
  PROVE  RunOK'
<1>1. CASE UNCHANGED vars
  BY <1>1 DEF vars, RunOK, Wellformed, ProcessesOK
<1>2. ASSUME NEW p \in Proc, Host(p) \/ RunKernel(p) PROVE RunOK'
  <2>1. p \in All(job) /\ OneStage
    BY DEF Proc, All, Conditions
  <2>2. CASE DoSend(p)
    BY <2>1, <2>2, SendKeeps
  <2>3. CASE DoRecv(p)
    BY <2>1, <2>3, RecvKeeps
  <2>4. CASE DoWait(p)
    BY <2>1, <2>4, WaitKeeps
  <2>5. CASE DoLaunch(p)
    BY <2>1, <2>5, LaunchKeeps
  <2>6. CASE DoSync(p)
    BY <2>1, <2>6, SyncKeeps
  <2>7. CASE EndBody(p)
    BY <2>1, <2>7, EndKeeps
  <2>8. CASE RunKernel(p)
    BY <2>1, <2>8, RunKeeps
  <2>9. ~DoCopyOut(p) /\ ~DoIsend(p)
    BY <2>1, OneStageOnly
  <2> QED BY <1>2, <2>2, <2>3, <2>4, <2>5, <2>6, <2>7, <2>8, <2>9 DEF Host
<1> QED BY <1>1, <1>2 DEF Next, Stopped

-----------------------------------------------------------------------------
(* What the runs check.                                                     *)

\* The kernels that have been launched are those of the body.
LEMMA LaunchOf ==
  ASSUME RunOK, NEW p \in All(job), NEW k \in Kernels(p)
  PROVE  \E c : IsLaunch(job, c) /\ Points(k) = Computes(job, p, job.body[c])
<1>1. QueueOK(job, p, round[p], at[p], queue[p])
  BY DEF RunOK, ProcessesOK, ProcessOK
<1>2. IsSeq(queue[p], Len(queue[p])) /\ Launched(job, p, round[p], at[p], queue[p])
  BY <1>1 DEF QueueOK
<1>3. PICK n \in 1 .. Len(queue[p]) : k = queue[p][n]
  BY <1>2, SeqLen DEF Kernels
<1>4. PICK c : IsLaunch(job, c) /\ IsKernel(job, p, k, job.body[c], k.round)
  BY <1>2, <1>3 DEF Launched, Issued
<1>5. Points(k) = Computes(job, p, job.body[c])
  BY <1>4 DEF Points, Computes, IsKernel
<1> QED BY <1>4, <1>5

LEMMA InBounds ==
  ASSUME Conditions, RunOK
  PROVE  KernelsInBounds
<1>1. Known(job) /\ WidthsFit /\ OneStage /\ DomainsWide /\ Proc = All(job)
  BY DEF RunOK, Wellformed, Conditions, Proc, All
<1> SUFFICES ASSUME NEW p \in All(job), NEW k \in Kernels(p), NEW x \in Points(k)
             PROVE  InDomain(x) /\ Minus(x, Offset(p)) \in DOMAIN data[p][0]
  BY <1>1 DEF KernelsInBounds
<1>2. PICK c : IsLaunch(job, c) /\ x \in Computes(job, p, job.body[c])
  BY LaunchOf
<1>3. InPart(job, p, x) /\ InDom(job, x)
  BY <1>1, <1>2, ComputesIn
<1>4. PICK l : l = Minus(x, job.offset[p])
  OBVIOUS
<1>5. l \in Cells(job, p)
  <2>1. x \in Vector /\ job.offset[p] \in Vector
    BY <1>1, <1>3, PartFacts DEF InPart, Extent, Vector
  <2>2. l \in Vector /\ \A e \in Axis : l[e] = x[e] - job.offset[p][e]
    BY <1>4, <2>1, Vectors
  <2>3. \A e \in Axis : /\ x[e] \in Int /\ job.offset[p][e] \in Nat /\ job.extent[p][e] \in Nat
                        /\ job.offset[p][e] <= x[e] /\ x[e] < job.offset[p][e] + job.extent[p][e]
    BY <1>1, <1>3, <2>1, PartFacts, Vectors DEF InPart
  <2>4. \A e \in Axis : 0 <= l[e] /\ l[e] < job.extent[p][e]
    BY <2>2, <2>3
  <2> QED BY <1>1, <2>2, <2>4, CellIs
<1>6. DOMAIN data[p][0] = Cells(job, p)
  BY DEF RunOK, ProcessesOK, ProcessOK, DataOK
<1> QED BY <1>3, <1>4, <1>5, <1>6 DEF InDom, InDomain, Offset

LEMMA AllCurrent ==
  ASSUME Conditions, RunOK
  PROVE  ReadsCurrent
<1>1. Proc = All(job)
  BY DEF Proc, All
<1>2. \A p \in All(job) : data[p] \in [0 .. 1 -> [Cells(job, p) -> Int]]
  BY DEF RunOK, ProcessesOK, ProcessOK, DataOK
<1>3. Garbage \notin Int
  BY CudaRunAssumption
<1> QED BY <1>1, <1>2, <1>3 DEF ReadsCurrent

LEMMA Result ==
  ASSUME Conditions, RunOK
  PROVE  AllComputed
<1>1. Known(job) /\ WidthsFit /\ Proc = All(job)
  BY DEF RunOK, Wellformed, Conditions, Proc, All
<1> SUFFICES ASSUME Finished, NEW p \in All(job), NEW l \in DOMAIN data[p][job.rounds % 2]
             PROVE  Content(p, job.rounds % 2, l) = Expected(Point(p, l), job.rounds)
  BY <1>1 DEF AllComputed
<1>2. PICK m : m = job.rounds
  OBVIOUS
<1>3. ProcessOK(job, p, round[p], at[p], queue[p], grid[p], data[p])
  BY DEF RunOK, ProcessesOK
<1>4. m \in Nat
  BY <1>1, <1>2, JobTypes
<1>5. round[p] = m
  <2>1. round[p] \in 0 .. m
    BY <1>2, <1>3 DEF ProcessOK, HostOK
  <2>2. ~(round[p] < m)
    BY <1>1, <1>2 DEF Finished, InRound
  <2> QED BY <1>4, <2>1, <2>2
<1>6. Base(queue[p], m) = m
  BY <1>2, <1>3, <1>5 DEF ProcessOK, QueueOK, Base
<1>7. data[p] \in [0 .. 1 -> [Cells(job, p) -> Int]] /\ Holds(job, p, m, data[p][m % 2])
  BY <1>3, <1>5, <1>6 DEF ProcessOK, DataOK
<1>8. l \in Cells(job, p)
  <2>1. m % 2 \in 0 .. 1
    BY <1>4, Parity
  <2> QED BY <1>2, <1>7, <2>1
<1>9. data[p][m % 2][l] = IF InDom(job, PointOf(job, p, l)) THEN m ELSE 0
  BY <1>7, <1>8 DEF Holds, Cells
<1>10. PointOf(job, p, l) = Point(p, l)
  BY DEF PointOf, Point, Offset
<1> QED BY <1>2, <1>9, <1>10 DEF Content, Expected, InDom, InDomain

\* What is on its way is not garbage.
LEMMA HaloIsData ==
  ASSUME NEW j, Known(j), WidthsFit, NEW p \in All(j), NEW k \in Key,
         NEW i \in DOMAIN HaloSeq(j, p, k.round, k.dim, k.fw)
  PROVE  HaloSeq(j, p, k.round, k.dim, k.fw)[i] # Garbage
<1>1. PICK r, d, fw : r = k.round /\ d = k.dim /\ fw = k.fw
  OBVIOUS
<1>2. r \in Nat /\ d \in Axis /\ fw \in BOOLEAN
  BY <1>1, KeyFacts
<1>3. PICK F, b, s : F = View(j, p, r) /\ b = HaloFrom(j, p, d, fw) /\ s = HaloSize(j, p, d, fw)
  OBVIOUS
<1>4. b \in Vector /\ s \in Extent
  BY <1>2, <1>3, HaloPlaces
<1>5. HaloSeq(j, p, r, d, fw) = Fill(F, b, s) /\ i \in 1 .. Elements(s)
  <2>1. HaloSeq(j, p, r, d, fw) = Fill(F, b, s)
    BY <1>3 DEF HaloSeq
  <2>2. DOMAIN Fill(F, b, s) = 1 .. Elements(s)
    BY <1>4, FillIs
  <2> QED BY <1>1, <2>1, <2>2
<1>6. PICK u : u = Unrank(i - 1, s)
  OBVIOUS
<1>7. u \in Vector /\ u \in Block(Origin, s) /\ HaloSeq(j, p, r, d, fw)[i] = F[Plus(b, u)]
  <2>1. PICK n : n = Elements(s)
    OBVIOUS
  <2>2. \A x \in 1 .. n : /\ Unrank(x - 1, s) \in Block(Origin, s) /\ Unrank(x - 1, s) \in Vector
                          /\ Fill(F, b, s)[x] = F[Plus(b, Unrank(x - 1, s))]
    BY ONLY <1>4, <2>1, FillIs, ZenonT(30)
  <2>3. i \in 1 .. n
    BY <1>5, <2>1
  <2>4. /\ Unrank(i - 1, s) \in Block(Origin, s) /\ Unrank(i - 1, s) \in Vector
        /\ Fill(F, b, s)[i] = F[Plus(b, Unrank(i - 1, s))]
    BY ONLY <2>2, <2>3, Zenon
  <2> QED BY ONLY <1>5, <1>6, <2>4
<1>8. PICK l : l = Plus(b, u)
  OBVIOUS
<1>9. l \in Vector
  BY <1>4, <1>7, <1>8, Vectors
<1>10. F[l] = After(j, WrapIn(j, PointOf(j, p, l)), r)
  BY <1>3, <1>9 DEF View
<1>11. \A e \in Axis : j.size[e] # 0
  <2> SUFFICES ASSUME NEW e \in Axis, j.size[e] = 0 PROVE FALSE
    OBVIOUS
  <2>1. j.offset[p][e] \in Nat /\ j.extent[p][e] \in Nat /\ j.offset[p][e] + j.extent[p][e] <= 0
    BY PartFacts
  <2>2. j.extent[p][e] = 0
    BY <2>1
  <2>3. \A x \in BOOLEAN : WidthIn(j, e, x) \in Nat /\ WidthIn(j, e, x) <= 0
    BY <2>2, PartFacts, JobTypes
  <2>4. \A x \in BOOLEAN : WidthIn(j, e, x) = 0
    BY <2>3
  <2>5. Bw(j, p)[e] = 0 /\ Fw(j, p)[e] = 0
    BY <2>4 DEF Bw, Fw, Held
  <2>6. s[e] = 0
    BY <1>2, <1>3, <2>2, <2>4, <2>5 DEF HaloSize, HaloExtent
  <2>7. u[e] \in Int /\ 0 <= u[e] /\ u[e] < s[e]
    <3>1. Origin \in Vector /\ Origin[e] = 0 /\ u[e] \in Int
      BY ONLY <1>7, Vectors
    <3>2. s \in Vector
      BY <1>4 DEF Extent, Vector
    <3>3. \A c \in Axis : Origin[c] <= u[c] /\ u[c] < s[c]
      BY ONLY <1>7, <3>1, <3>2, BlockIs, Zenon
    <3> QED BY ONLY <3>1, <3>3
  <2> QED BY <2>6, <2>7
<1>12. WrapIn(j, PointOf(j, p, l)) \in [Axis -> Int]
  <2>1. j.offset[p] \in Vector
    BY PartFacts DEF Extent, Vector
  <2>2. PointOf(j, p, l) \in Vector
    BY <1>9, <2>1, Vectors DEF PointOf
  <2>3. \A e \in Axis : PointOf(j, p, l)[e] \in Int
    BY <2>2, Vectors
  <2>4. \A e \in Axis : j.size[e] \in Nat \ {0}
    BY <1>11, JobTypes DEF Extent
  <2>5. \A e \in Axis : (IF j.periodic THEN PointOf(j, p, l)[e] % j.size[e] ELSE PointOf(j, p, l)[e]) \in Int
    <3> TAKE e \in Axis
    <3>1. PICK x, z : x = PointOf(j, p, l)[e] /\ z = j.size[e]
      OBVIOUS
    <3>2. x \in Int /\ z \in Nat \ {0}
      BY <2>3, <2>4, <3>1
    <3>3. x % z \in Int
      BY ONLY <3>2
    <3> QED BY <3>1, <3>2, <3>3
  <2> QED BY <2>5 DEF WrapIn
<1>13. F[l] \in [Axis -> Int] \X Int
  BY <1>2, <1>10, <1>12 DEF After
<1>14. Garbage \notin [Axis -> Int] \X Int
  BY CudaRunAssumption
<1> QED BY <1>1, <1>7, <1>8, <1>13, <1>14

LEMMA IntactSlabs ==
  ASSUME Conditions, RunOK
  PROVE  SendsIntact
<1>1. Known(job) /\ WidthsFit /\ Proc = All(job)
  BY DEF RunOK, Wellformed, Conditions, Proc, All
<1> SUFFICES ASSUME NEW p \in All(job), NEW q \in All(job), NEW i \in DOMAIN net[p][q],
                    NEW n \in DOMAIN net[p][q][i].slab
             PROVE  net[p][q][i].slab[n] # Garbage
  BY <1>1 DEF SendsIntact
<1>2. PICK k \in Way(job, p, q, round, at) : net[p][q][i] = MessageOf(job, q, k)
  <2>1. Chan(job, q, Way(job, p, q, round, at), net[p][q])
    BY DEF RunOK, NetOK
  <2> QED BY <2>1, ChanHas
<1>3. k \in Key
  BY WayIs
<1>4. net[p][q][i].slab = HaloSeq(job, q, k.round, k.dim, k.fw)
  BY <1>2 DEF MessageOf, Message
<1> QED BY <1>1, <1>3, <1>4, HaloIsData

(***************************************************************************)
(* The theorems.                                                           *)
(***************************************************************************)

\* Whatever hosts, devices and messages are doing, RunOK holds: the queue of a
\* process has the kernels of its current maps that have not run, in the order of
\* the loop body that ProcessStencilMap makes; its grids hold the rounds that
\* those kernels read; the halos are those of the exchanges that LoadNeighbor has
\* finished; and each channel holds the slabs that were sent and not received, in
\* order and with the values of their round.
THEOREM RunHolds ==
  ASSUME Conditions
  PROVE  Spec => []RunOK
<1>1. Init => RunOK
  BY InitOK
<1>2. RunOK /\ [Next]_vars => RunOK'
  BY NextOK
<1> QED BY <1>1, <1>2, PTL DEF Spec

\* A kernel in the queue of a process computes no point outside the domain of
\* its map or outside the part of the process: the domains that the generated
\* code cuts for the interior, the slices and the faces stay where there is memory.
THEOREM KernelsStayInBounds ==
  ASSUME Conditions
  PROVE  Spec => []KernelsInBounds
<1>1. RunOK => KernelsInBounds
  BY InBounds
<1> QED BY <1>1, RunHolds, PTL

\* No kernel reads a halo before the exchange that fills it is complete or after
\* a later one has filled it again, or a point that another kernel has yet to
\* write: no value that is not of its round reaches a grid, although the exchange
\* overlaps the kernel for the interior and the host runs ahead of the device.
THEOREM KernelsReadCurrent ==
  ASSUME Conditions
  PROVE  Spec => []ReadsCurrent
<1>1. RunOK => ReadsCurrent
  BY AllCurrent
<1> QED BY <1>1, RunHolds, PTL

\* When every host has left the program, each point of the domain holds what the
\* last map computes from the values of the map before, and each point outside
\* is as it was: no point falls between the kernel for the interior and those
\* for the boundary, and none is computed from a halo of another round.
THEOREM AllIsComputed ==
  ASSUME Conditions
  PROVE  Spec => []AllComputed
<1>1. RunOK => AllComputed
  BY Result
<1> QED BY <1>1, RunHolds, PTL

\* What a process has handed to MPI_Isend stays as it was copied out until it is
\* received: "the send buffers can be overwritten by the next iteration"
\* (grid_mpi_cuda.cc:700) only where the exchange does not wait for its sends.
THEOREM SlabsStayIntact ==
  ASSUME Conditions
  PROVE  Spec => []SendsIntact
<1>1. RunOK => SendsIntact
  BY IntactSlabs
<1> QED BY <1>1, RunHolds, PTL
=============================================================================
