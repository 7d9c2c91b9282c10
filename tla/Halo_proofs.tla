---------------------------- MODULE Halo_proofs ----------------------------
(***************************************************************************)
(* Theorems about Halo, for any number of dimensions, processes and rounds,  *)
(* any extents, and whether MPI copies messages or not, of programs whose    *)
(* stencils reach in both directions of a dimension or in none (TwoWay).     *)
(***************************************************************************)
EXTENDS Halo, FiniteSetTheorems, WellFoundedInduction, TLAPS

\* A process that sends to a neighbour also receives from it: only then does
\* it wait for the neighbour before it goes on to the next round.
TwoWay == \A jb \in Jobs, d \in Dim : FwWidth(jb, d) > 0 <=> BwWidth(jb, d) > 0

\* Grids fit into the space (mpi_runtime.cc:300).
WithinSpace == \A jb \in Jobs, d \in Dim : jb.size[d] <= jb.space[d]

-----------------------------------------------------------------------------
(* The least and the greatest element of a finite set.                      *)

LEMMA LeastNatural ==
  ASSUME NEW T \in SUBSET Nat, T # {}
  PROVE  \E m \in T : \A n \in T : m <= n
<1>1. IsWellFoundedOn(OpToRel(<, Nat), Nat)
  BY NatLessThanWellFounded
<1>2. OpToRel(<, Nat) = {ss \in Nat \X Nat : ss[1] < ss[2]}
  BY DEF OpToRel
<1>3. PICK R : R = OpToRel(<, Nat)
  OBVIOUS
<1>4. R = {ss \in Nat \X Nat : ss[1] < ss[2]}
  BY <1>2, <1>3
<1>5. PICK m \in T : \A n \in T : ~(<<n, m>> \in R)
  BY <1>1, <1>3, WFMin
<1>6. ASSUME NEW n \in T PROVE m <= n
  <2>1. m \in Nat /\ n \in Nat
    OBVIOUS
  <2>2. PICK ss : ss = <<n, m>>
    OBVIOUS
  <2>3. ss \in Nat \X Nat /\ ss[1] = n /\ ss[2] = m
    BY <2>1, <2>2
  <2>4. ss \notin R
    BY <1>5, <2>2
  <2> QED BY ONLY <1>4, <2>1, <2>3, <2>4
<1> QED BY <1>6

\* A function on a finite set has a least value: of the sets on which it has
\* none, a smallest one would have it.
LEMMA LeastValue ==
  ASSUME NEW S, IsFiniteSet(S), S # {}, NEW f \in [S -> Int]
  PROVE  \E m \in S : \A n \in S : f[m] <= f[n]
<1> DEFINE Bounded(U) == \E m \in U : \A n \in U : f[m] <= f[n]
           Bad == {U \in SUBSET S : U # {} /\ ~Bounded(U)}
           Sizes == {Cardinality(U) : U \in Bad}
<1> SUFFICES ASSUME S \in Bad PROVE FALSE
  OBVIOUS
<1>1. \A U \in Bad : IsFiniteSet(U) /\ Cardinality(U) \in Nat
  BY FS_Subset, FS_CardinalityType
<1>2. PICK U \in Bad : \A V \in Bad : Cardinality(U) <= Cardinality(V)
  <2>1. Sizes \in SUBSET Nat /\ Sizes # {}
    BY <1>1
  <2> HIDE DEF Bad
  <2>2. PICK n \in Sizes : \A k \in Sizes : n <= k
    BY <2>1, LeastNatural
  <2> QED BY <2>2
<1>3. PICK x \in U : TRUE
  OBVIOUS
<1>4. IsFiniteSet(U \ {x}) /\ Cardinality(U \ {x}) = Cardinality(U) - 1 /\ Cardinality(U) \in Nat
  BY <1>1, FS_RemoveElement
<1>5. U \ {x} \notin Bad
  <2>1. ~(Cardinality(U) <= Cardinality(U \ {x}))
    BY <1>4
  <2> QED BY ONLY <1>2, <2>1
<1>6. CASE U \ {x} = {}
  <2>1. \A n \in U : n = x
    BY <1>6
  <2> QED BY <1>3, <2>1
<1>7. CASE U \ {x} # {}
  <2>1. PICK m \in U \ {x} : \A n \in U \ {x} : f[m] <= f[n]
    BY <1>5, <1>7
  <2>2. f[x] \in Int /\ f[m] \in Int /\ \A n \in U : n = x \/ n \in U \ {x}
    OBVIOUS
  <2>3. CASE f[m] <= f[x]
    BY <2>1, <2>2, <2>3
  <2>4. CASE f[x] <= f[m]
    <3>1. ASSUME NEW n \in U PROVE f[x] <= f[n]
      <4>1. f[n] \in Int
        OBVIOUS
      <4> QED BY <2>1, <2>2, <2>4, <4>1
    <3> QED BY <3>1
  <2> QED BY <2>2, <2>3, <2>4
<1> QED BY <1>6, <1>7

\* Min and Max of the values of a function are what they say.
LEMMA MinMax ==
  ASSUME NEW S, IsFiniteSet(S), S # {}, NEW f \in [S -> Int]
  PROVE  LET V == {f[n] : n \in S}
         IN  /\ Min(V) \in V /\ \A n \in S : Min(V) <= f[n]
             /\ Max(V) \in V /\ \A n \in S : Max(V) >= f[n]
<1> DEFINE V == {f[n] : n \in S}
           g == [n \in S |-> -f[n]]
<1>1. \E m \in V : \A n \in V : m <= n
  <2>1. PICK m \in S : \A n \in S : f[m] <= f[n]
    BY LeastValue
  <2> QED BY <2>1
<1>2. \E m \in V : \A n \in V : m >= n
  <2>1. g \in [S -> Int]
    OBVIOUS
  <2> HIDE DEF g
  <2>2. PICK m \in S : \A n \in S : g[m] <= g[n]
    BY <2>1, LeastValue
  <2>3. ASSUME NEW n \in S PROVE f[m] >= f[n]
    <3>1. g[m] <= g[n] /\ f[m] \in Int /\ f[n] \in Int
      BY <2>2
    <3>2. g[m] = -f[m] /\ g[n] = -f[n]
      BY DEF g
    <3> QED BY ONLY <3>1, <3>2
  <2> QED BY <2>3
<1> QED BY <1>1, <1>2 DEF Min, Max

\* The first of a set of dimensions.
LEMMA FirstDim ==
  ASSUME NEW S \in SUBSET Dim, S # {}
  PROVE  Min(S) \in S /\ \A n \in S : Min(S) <= n
<1> DEFINE f == [n \in S |-> n]
<1>1. IsFiniteSet(S)
  <2>1. NDims \in Int
    BY HaloAssumption
  <2>2. IsFiniteSet(1 .. NDims)
    BY <2>1, FS_Interval
  <2> QED BY <2>2, FS_Subset DEF Dim
<1>2. f \in [S -> Int] /\ S = {f[n] : n \in S} /\ \A n \in S : f[n] = n
  BY DEF Dim
<1> HIDE DEF f
<1> QED BY <1>1, <1>2, MinMax

-----------------------------------------------------------------------------
(* The parts of a dimension: extent s of the space, n processes, extent z of *)
(* the grid.                                                                *)

LEMMA Division ==
  ASSUME NEW s \in Nat, NEW n \in Nat \ {0}
  PROVE  /\ s \div n \in Nat /\ s % n \in 0 .. n - 1
         /\ s = n * (s \div n) + (s % n)
  OBVIOUS

LEMMA Multiples ==
  ASSUME NEW k \in Nat, NEW q \in Nat
  PROVE  (k + 1) * q = k * q + q /\ k * q \in Nat /\ (q = 0 => k * q = 0)
  OBVIOUS

\* Where a part begins, and that it has points if it begins behind the origin
\* or follows one that has points.
LEMMA Begins ==
  ASSUME NEW s \in Nat, NEW n \in Nat \ {0}
  PROVE  /\ PartOffset(s, n, 0) = 0 /\ PartOffset(s, n, n) = s
         /\ \A k \in 0 .. n - 1 :
              /\ PartOffset(s, n, k) \in Nat /\ PartSize(s, n, k) \in Nat
              /\ PartOffset(s, n, k + 1) = PartOffset(s, n, k) + PartSize(s, n, k)
              /\ PartOffset(s, n, k + 1) > 0 => PartSize(s, n, k) > 0
         /\ \A k \in 0 .. n - 2 : PartSize(s, n, k) <= PartSize(s, n, k + 1)
<1> DEFINE q == s \div n
           r == s % n
<1>1. q \in Nat /\ r \in 0 .. n - 1 /\ s = n * q + r
  BY Division
<1> HIDE DEF q, r
<1>2. \A k : PartOffset(s, n, k) = k * q + Most(k - (n - r), 0)
  BY DEF PartOffset, q, r
<1>3. \A k : PartSize(s, n, k) = q + (IF n - k <= r THEN 1 ELSE 0)
  BY DEF PartSize, q, r
<1>4. PartOffset(s, n, 0) = 0
  <2>1. 0 * q = 0
    BY <1>1
  <2> QED BY <1>1, <1>2, <2>1 DEF Most
<1>5. PartOffset(s, n, n) = s
  BY <1>1, <1>2 DEF Most
<1>6. ASSUME NEW k \in 0 .. n - 1
      PROVE  /\ PartOffset(s, n, k) \in Nat /\ PartSize(s, n, k) \in Nat
             /\ PartOffset(s, n, k + 1) = PartOffset(s, n, k) + PartSize(s, n, k)
             /\ PartOffset(s, n, k + 1) > 0 => PartSize(s, n, k) > 0
  <2>1. (k + 1) * q = k * q + q /\ k * q \in Nat /\ (q = 0 => k * q = 0)
    BY <1>1, Multiples
  <2>2. PartOffset(s, n, k) = k * q + Most(k - (n - r), 0)
    BY <1>2
  <2>3. PartOffset(s, n, k + 1) = k * q + q + Most(k + 1 - (n - r), 0)
    <3>1. PartOffset(s, n, k + 1) = (k + 1) * q + Most(k + 1 - (n - r), 0)
      BY DEF PartOffset, q, r
    <3> QED BY <2>1, <3>1
  <2>4. PartSize(s, n, k) = q + (IF n - k <= r THEN 1 ELSE 0)
    BY <1>3
  <2>5. PICK kq \in Nat : kq = k * q
    BY <2>1
  <2> QED BY <1>1, <2>1, <2>2, <2>3, <2>4, <2>5 DEF Most
<1>7. ASSUME NEW k \in 0 .. n - 2 PROVE PartSize(s, n, k) <= PartSize(s, n, k + 1)
  <2>1. /\ PartSize(s, n, k) = q + (IF n - k <= r THEN 1 ELSE 0)
        /\ PartSize(s, n, k + 1) = q + (IF n - (k + 1) <= r THEN 1 ELSE 0)
    BY <1>3
  <2> QED BY <1>1, <2>1
<1> QED BY <1>4, <1>5, <1>6, <1>7

\* Ext has the extents of the parts.
Extents(Ext, s, n, z) ==
  \A k \in 0 .. n - 1 :
    Ext[k] = Most(Least(z, PartOffset(s, n, k) + PartSize(s, n, k)) - PartOffset(s, n, k), 0)

\* Parts with points are next to each other, and the last one ends where the
\* grid ends.
Adjacent(Ext, s, n, z) ==
  \A k \in 0 .. n - 1 :
    /\ Ext[k] \in Nat
    /\ Ext[k] > 0 =>
         /\ PartOffset(s, n, k) + Ext[k] <= z
         /\ PartOffset(s, n, k) > 0 =>
              /\ k > 0 /\ Ext[k - 1] > 0
              /\ PartOffset(s, n, k - 1) + Ext[k - 1] = PartOffset(s, n, k)
         /\ PartOffset(s, n, k) + Ext[k] < z =>
              /\ k < n - 1 /\ Ext[k + 1] > 0
              /\ PartOffset(s, n, k) + Ext[k] = PartOffset(s, n, k + 1)
         /\ k = n - 1 => PartOffset(s, n, k) + Ext[k] = z
         /\ k < n - 1 /\ Ext[k + 1] > 0 =>
              PartOffset(s, n, k) + Ext[k] = PartOffset(s, n, k + 1)

LEMMA PartsMeet ==
  ASSUME NEW s \in Nat, NEW n \in Nat \ {0}, NEW z \in Nat, z <= s,
         NEW Ext, Extents(Ext, s, n, z)
  PROVE  Adjacent(Ext, s, n, z)
<1> SUFFICES ASSUME NEW k \in 0 .. n - 1
             PROVE  /\ Ext[k] \in Nat
                    /\ Ext[k] > 0 =>
                         /\ PartOffset(s, n, k) + Ext[k] <= z
                         /\ PartOffset(s, n, k) > 0 =>
                              /\ k > 0 /\ Ext[k - 1] > 0
                              /\ PartOffset(s, n, k - 1) + Ext[k - 1] = PartOffset(s, n, k)
                         /\ PartOffset(s, n, k) + Ext[k] < z =>
                              /\ k < n - 1 /\ Ext[k + 1] > 0
                              /\ PartOffset(s, n, k) + Ext[k] = PartOffset(s, n, k + 1)
                         /\ k = n - 1 => PartOffset(s, n, k) + Ext[k] = z
                         /\ k < n - 1 /\ Ext[k + 1] > 0 =>
                              PartOffset(s, n, k) + Ext[k] = PartOffset(s, n, k + 1)
  BY DEF Adjacent
<1>1. /\ PartOffset(s, n, 0) = 0 /\ PartOffset(s, n, n) = s
      /\ \A j \in 0 .. n - 1 :
           /\ PartOffset(s, n, j) \in Nat /\ PartSize(s, n, j) \in Nat
           /\ PartOffset(s, n, j + 1) = PartOffset(s, n, j) + PartSize(s, n, j)
           /\ PartOffset(s, n, j + 1) > 0 => PartSize(s, n, j) > 0
      /\ \A j \in 0 .. n - 2 : PartSize(s, n, j) <= PartSize(s, n, j + 1)
  BY Begins
<1>2. \A j \in 0 .. n - 1 :
        Ext[j] = Most(Least(z, PartOffset(s, n, j) + PartSize(s, n, j)) - PartOffset(s, n, j), 0)
  BY DEF Extents
<1> DEFINE off == [j \in 0 .. n |-> PartOffset(s, n, j)]
           siz == [j \in 0 .. n - 1 |-> PartSize(s, n, j)]
<1>3. /\ off[0] = 0 /\ off[n] = s
      /\ \A j \in 0 .. n - 1 : /\ off[j] \in Nat /\ siz[j] \in Nat /\ off[j + 1] = off[j] + siz[j]
                               /\ off[j + 1] > 0 => siz[j] > 0
                               /\ Ext[j] = Most(Least(z, off[j] + siz[j]) - off[j], 0)
      /\ \A j \in 0 .. n - 2 : siz[j] <= siz[j + 1]
      /\ \A j \in 0 .. n : off[j] = PartOffset(s, n, j)
  BY <1>1, <1>2
<1> HIDE DEF off, siz
<1>4. /\ off[k] \in Nat /\ siz[k] \in Nat /\ off[k + 1] = off[k] + siz[k]
      /\ Ext[k] = Most(Least(z, off[k] + siz[k]) - off[k], 0)
      /\ off[k] = PartOffset(s, n, k) /\ k \in Int /\ n \in Int
      /\ k = n - 1 => off[k + 1] = s
  BY <1>3
<1>5. Ext[k] \in Nat /\ (Ext[k] > 0 => off[k] + Ext[k] <= z /\ off[k] < z /\ siz[k] > 0)
  BY <1>4 DEF Most, Least
<1>6. ASSUME Ext[k] > 0, off[k] > 0
      PROVE  k > 0 /\ Ext[k - 1] > 0 /\ off[k - 1] + Ext[k - 1] = off[k]
  <2>1. k > 0 /\ k - 1 \in 0 .. n - 1 /\ (k - 1) + 1 = k
    BY <1>3, <1>4, <1>6
  <2>2. /\ off[k - 1] \in Nat /\ siz[k - 1] \in Nat /\ off[k] = off[k - 1] + siz[k - 1]
        /\ siz[k - 1] > 0
        /\ Ext[k - 1] = Most(Least(z, off[k - 1] + siz[k - 1]) - off[k - 1], 0)
    BY <1>3, <1>6, <2>1
  <2> QED BY <1>5, <1>6, <2>1, <2>2 DEF Most, Least
<1>7. ASSUME Ext[k] > 0, off[k] + Ext[k] < z
      PROVE  k < n - 1 /\ Ext[k + 1] > 0 /\ off[k] + Ext[k] = off[k + 1]
  <2>1. off[k] + Ext[k] = off[k + 1] /\ off[k + 1] < z /\ k < n - 1
    BY <1>4, <1>5, <1>7 DEF Most, Least
  <2>2. k + 1 \in 0 .. n - 1 /\ k \in 0 .. n - 2
    BY <1>4, <2>1
  <2>3. /\ siz[k + 1] \in Nat /\ siz[k] <= siz[k + 1] /\ off[k + 1] \in Nat
        /\ Ext[k + 1] = Most(Least(z, off[k + 1] + siz[k + 1]) - off[k + 1], 0)
    BY <1>3, <2>2
  <2> QED BY <1>4, <1>5, <1>7, <2>1, <2>3 DEF Most, Least
<1>8. ASSUME Ext[k] > 0, k < n - 1, Ext[k + 1] > 0
      PROVE  off[k] + Ext[k] = off[k + 1]
  <2>1. k + 1 \in 0 .. n - 1
    BY <1>4, <1>8
  <2>2. /\ siz[k + 1] \in Nat /\ off[k + 1] \in Nat
        /\ Ext[k + 1] = Most(Least(z, off[k + 1] + siz[k + 1]) - off[k + 1], 0)
    BY <1>3, <2>1
  <2> QED BY <1>4, <1>5, <1>8, <2>2 DEF Most, Least
<1>9. Ext[k] > 0 /\ k = n - 1 => off[k] + Ext[k] = z
  BY <1>4, <1>5 DEF Most, Least
<1>10. /\ k > 0 => off[k - 1] = PartOffset(s, n, k - 1)
       /\ off[k + 1] = PartOffset(s, n, k + 1)
  BY <1>3, <1>4
<1> QED BY <1>4, <1>5, <1>6, <1>7, <1>8, <1>9, <1>10

-----------------------------------------------------------------------------
(* A job.                                                                   *)

Known == job \in {Prepared(jb) : jb \in Jobs}

\* The widths are those of the furthest offsets.
LEMMA WidthFacts ==
  ASSUME NEW jb \in Jobs, NEW d \in Dim
  PROVE  /\ FwWidth(jb, d) \in Nat /\ BwWidth(jb, d) \in Nat
         /\ \A o \in jb.stencil :
              o[d] \in Int /\ o[d] <= FwWidth(jb, d) /\ -BwWidth(jb, d) <= o[d]
<1>1. jb.stencil \subseteq [Dim -> Int] /\ jb.stencil # {} /\ IsFiniteSet(jb.stencil)
  BY HaloAssumption DEF Job
<1> DEFINE f == [o \in jb.stencil |-> o[d]]
<1>2. f \in [jb.stencil -> Int] /\ \A o \in jb.stencil : f[o] = o[d]
  BY <1>1
<1>3. {o[d] : o \in jb.stencil} = {f[o] : o \in jb.stencil}
  BY <1>2
<1> HIDE DEF f
<1> DEFINE V == {f[o] : o \in jb.stencil}
<1>4. /\ Min(V) \in V /\ \A o \in jb.stencil : Min(V) <= f[o]
      /\ Max(V) \in V /\ \A o \in jb.stencil : Max(V) >= f[o]
  BY <1>1, <1>2, MinMax
<1>5. Min(V) \in Int /\ Max(V) \in Int
  BY <1>2, <1>4
<1>6. FwWidth(jb, d) = Most(Max(V), 0) /\ BwWidth(jb, d) = Most(-Min(V), 0)
  BY <1>3 DEF FwWidth, BwWidth
<1> HIDE DEF V
<1>7. FwWidth(jb, d) \in Nat /\ BwWidth(jb, d) \in Nat
  BY <1>5, <1>6 DEF Most
<1>8. ASSUME NEW o \in jb.stencil
      PROVE  o[d] \in Int /\ o[d] <= FwWidth(jb, d) /\ -BwWidth(jb, d) <= o[d]
  <2>1. Min(V) <= o[d] /\ Max(V) >= o[d] /\ o[d] \in Int
    BY <1>2, <1>4
  <2> QED BY <1>5, <1>6, <2>1 DEF Most
<1> QED BY <1>7, <1>8

\* The processes of a job.
LEMMA ProcsFacts ==
  ASSUME NEW jb \in Jobs, NEW p
  PROVE  p \in Procs(jb) <=> p \in [Dim -> Int] /\ \A d \in Dim : 0 <= p[d] /\ p[d] < jb.procs[d]
<1>1. jb.procs \in [Dim -> Nat \ {0}]
  BY HaloAssumption DEF Job
<1>2. ASSUME p \in Procs(jb) PROVE p \in [Dim -> Int] /\ \A d \in Dim : 0 <= p[d] /\ p[d] < jb.procs[d]
  <2>1. /\ p \in [Dim -> UNION {0 .. jb.procs[d] - 1 : d \in Dim}]
        /\ \A d \in Dim : p[d] < jb.procs[d]
    BY <1>2 DEF Procs
  <2>2. \A x \in UNION {0 .. jb.procs[d] - 1 : d \in Dim} : x \in Int /\ 0 <= x
    BY <1>1
  <2> QED BY <2>1, <2>2
<1>3. ASSUME p \in [Dim -> Int], \A d \in Dim : 0 <= p[d] /\ p[d] < jb.procs[d] PROVE p \in Procs(jb)
  <2>1. ASSUME NEW d \in Dim PROVE p[d] \in UNION {0 .. jb.procs[e] - 1 : e \in Dim}
    <3>1. p[d] \in 0 .. jb.procs[d] - 1
      BY <1>1, <1>3
    <3> QED BY <3>1
  <2>2. p \in [Dim -> UNION {0 .. jb.procs[e] - 1 : e \in Dim}]
    BY <1>3, <2>1
  <2> QED BY <1>3, <2>2 DEF Procs
<1> QED BY <1>2, <1>3

\* What the processes know of the job and of their parts.
LEMMA JobFacts ==
  ASSUME Known
  PROVE  /\ job.procs \in [Dim -> Nat \ {0}] /\ job.size \in [Dim -> Nat]
         /\ job.fwWidth \in Widths /\ job.bwWidth \in Widths
         /\ job.periodic \in BOOLEAN /\ job.diagonal \in BOOLEAN
         /\ job.stencil \subseteq [Dim -> Int]
         /\ \A o \in job.stencil, d \in Dim : -job.bwWidth[d] <= o[d] /\ o[d] <= job.fwWidth[d]
         /\ ~job.diagonal =>
              \A o \in job.stencil : \A d, e \in Dim : d # e => o[d] = 0 \/ o[e] = 0
         /\ \A p : p \in Proc <=> p \in [Dim -> Int] /\ \A d \in Dim : 0 <= p[d] /\ p[d] < job.procs[d]
         /\ \A p \in Proc, d \in Dim :
              /\ LocalOffset(p, d) \in Nat /\ LocalSize(p, d) \in Nat
              /\ LocalSize(p, d) # 0 =>
                   job.fwWidth[d] <= LocalSize(p, d) /\ job.bwWidth[d] <= LocalSize(p, d)
              /\ job.periodic => LocalSize(p, d) # 0
              /\ \A q \in Proc : p[d] = q[d] =>
                   LocalOffset(p, d) = LocalOffset(q, d) /\ LocalSize(p, d) = LocalSize(q, d)
<1>1. PICK jb \in Jobs : job = Prepared(jb)
  BY DEF Known
<1>2. /\ jb.procs \in [Dim -> Nat \ {0}] /\ jb.size \in [Dim -> Nat] /\ jb.space \in [Dim -> Nat]
      /\ jb.periodic \in BOOLEAN /\ jb.stencil \subseteq [Dim -> Int]
      /\ \A d \in Dim : \A k \in 0 .. jb.procs[d] - 1 : Fits(jb, d, k)
  BY HaloAssumption DEF Job
<1>3. /\ job.procs = jb.procs /\ job.size = jb.size /\ job.periodic = jb.periodic
      /\ job.stencil = jb.stencil /\ job.diagonal = Diagonal(jb)
      /\ job.fwWidth = [d \in Dim |-> FwWidth(jb, d)] /\ job.bwWidth = [d \in Dim |-> BwWidth(jb, d)]
      /\ job.offset = [p \in Procs(jb) |-> [d \in Dim |-> PartFirst(jb, d, p[d])]]
      /\ job.extent = [p \in Procs(jb) |-> [d \in Dim |-> PartExtent(jb, d, p[d])]]
  BY <1>1 DEF Prepared
<1>4. job.fwWidth \in Widths /\ job.bwWidth \in Widths
  BY <1>3, WidthFacts DEF Widths
<1>5. \A o \in job.stencil, d \in Dim : -job.bwWidth[d] <= o[d] /\ o[d] <= job.fwWidth[d]
  BY <1>3, WidthFacts
<1>6. /\ job.diagonal \in BOOLEAN
      /\ ~job.diagonal => \A o \in job.stencil : \A d, e \in Dim : d # e => o[d] = 0 \/ o[e] = 0
  BY <1>3 DEF Diagonal
<1>7. Proc = Procs(jb)
  BY <1>3 DEF Proc
<1>8. \A p : p \in Proc <=> p \in [Dim -> Int] /\ \A d \in Dim : 0 <= p[d] /\ p[d] < job.procs[d]
  BY <1>3, <1>7, ProcsFacts
<1>9. ASSUME NEW p \in Proc, NEW d \in Dim
      PROVE  /\ LocalOffset(p, d) = PartFirst(jb, d, p[d]) /\ LocalSize(p, d) = PartExtent(jb, d, p[d])
             /\ LocalOffset(p, d) \in Nat /\ LocalSize(p, d) \in Nat
             /\ LocalSize(p, d) # 0 =>
                  job.fwWidth[d] <= LocalSize(p, d) /\ job.bwWidth[d] <= LocalSize(p, d)
             /\ job.periodic => LocalSize(p, d) # 0
  <2>1. p[d] \in 0 .. jb.procs[d] - 1
    BY <1>2, <1>3, <1>8
  <2>2. LocalOffset(p, d) = PartFirst(jb, d, p[d]) /\ LocalSize(p, d) = PartExtent(jb, d, p[d])
    BY <1>3, <1>7 DEF LocalOffset, LocalSize
  <2>3. PartFirst(jb, d, p[d]) \in Nat /\ PartSize(jb.space[d], jb.procs[d], p[d]) \in Nat
    BY <1>2, <2>1, Begins DEF PartFirst
  <2>4. PartExtent(jb, d, p[d]) \in Nat
    <3>1. jb.size[d] \in Nat
      BY <1>2
    <3> QED BY <2>3, <3>1 DEF PartExtent, Most, Least
  <2>5. Fits(jb, d, p[d])
    BY <1>2, <2>1
  <2>6. /\ PartExtent(jb, d, p[d]) = 0 => ~jb.periodic
        /\ PartExtent(jb, d, p[d]) # 0 =>
             Most(BwWidth(jb, d), FwWidth(jb, d)) <= PartExtent(jb, d, p[d])
    BY <2>5 DEF Fits
  <2>7. /\ job.fwWidth[d] = FwWidth(jb, d) /\ job.bwWidth[d] = BwWidth(jb, d)
        /\ FwWidth(jb, d) \in Nat /\ BwWidth(jb, d) \in Nat
    BY <1>3, WidthFacts
  <2>8. PartExtent(jb, d, p[d]) # 0 =>
          /\ job.fwWidth[d] <= PartExtent(jb, d, p[d])
          /\ job.bwWidth[d] <= PartExtent(jb, d, p[d])
    BY <2>4, <2>6, <2>7 DEF Most
  <2> QED BY <1>3, <2>2, <2>3, <2>4, <2>6, <2>8
<1>10. ASSUME NEW p \in Proc, NEW q \in Proc, NEW d \in Dim, p[d] = q[d]
       PROVE  LocalOffset(p, d) = LocalOffset(q, d) /\ LocalSize(p, d) = LocalSize(q, d)
  BY <1>9, <1>10
<1> QED BY <1>2, <1>3, <1>4, <1>5, <1>6, <1>8, <1>9, <1>10

LEMMA TwoSided ==
  ASSUME Known, TwoWay, NEW d \in Dim
  PROVE  job.fwWidth[d] > 0 <=> job.bwWidth[d] > 0
BY DEF Known, Prepared, TwoWay

LEMMA NextIndex ==
  ASSUME NEW n \in Nat \ {0}, NEW k \in 0 .. n - 1
  PROVE  (k + 1) % n = IF k = n - 1 THEN 0 ELSE k + 1
<1>1. CASE k = n - 1
  <2>1. n % n = 0
    OBVIOUS
  <2>2. k + 1 = n
    BY <1>1
  <2> QED BY <1>1, <2>1, <2>2
<1>2. CASE k # n - 1
  <2>1. k + 1 \in 0 .. n - 1
    BY <1>2
  <2>2. \A i \in 0 .. n - 1 : i % n = i
    OBVIOUS
  <2> QED BY <1>2, <2>1, <2>2
<1> QED BY <1>1, <1>2

\* The peers of a process differ from it in one index, and are inverse.
LEMMA PeerFacts ==
  ASSUME Known, NEW p \in Proc, NEW d \in Dim
  PROVE  /\ FwPeer(p, d) \in Proc /\ BwPeer(p, d) \in Proc
         /\ FwPeer(p, d)[d] = IF p[d] = job.procs[d] - 1 THEN 0 ELSE p[d] + 1
         /\ BwPeer(p, d)[d] = IF p[d] = 0 THEN job.procs[d] - 1 ELSE p[d] - 1
         /\ \A e \in Dim \ {d} : FwPeer(p, d)[e] = p[e] /\ BwPeer(p, d)[e] = p[e]
         /\ BwPeer(FwPeer(p, d), d) = p /\ FwPeer(BwPeer(p, d), d) = p
<1>1. /\ job.procs \in [Dim -> Nat \ {0}]
      /\ \A q : q \in Proc <=> q \in [Dim -> Int] /\ \A e \in Dim : 0 <= q[e] /\ q[e] < job.procs[e]
  BY JobFacts
<1>2. ASSUME NEW q \in Proc
      PROVE  /\ FwPeer(q, d) = [q EXCEPT ![d] = IF q[d] = job.procs[d] - 1 THEN 0 ELSE q[d] + 1]
             /\ FwPeer(q, d) \in Proc
  <2>1. q[d] \in 0 .. job.procs[d] - 1 /\ job.procs[d] \in Nat \ {0}
    BY <1>1
  <2>2. (q[d] + 1) % job.procs[d] = IF q[d] = job.procs[d] - 1 THEN 0 ELSE q[d] + 1
    BY <2>1, NextIndex
  <2>3. FwPeer(q, d) = [q EXCEPT ![d] = IF q[d] = job.procs[d] - 1 THEN 0 ELSE q[d] + 1]
    BY <2>2 DEF FwPeer
  <2>4. PICK x \in Int : x = IF q[d] = job.procs[d] - 1 THEN 0 ELSE q[d] + 1
    BY <2>1
  <2>5. 0 <= x /\ x < job.procs[d]
    BY <2>1, <2>4
  <2>6. [q EXCEPT ![d] = x] \in Proc
    BY <1>1, <2>5
  <2> QED BY <2>3, <2>4, <2>6
<1>3. ASSUME NEW q \in Proc
      PROVE  /\ BwPeer(q, d) = [q EXCEPT ![d] = IF q[d] = 0 THEN job.procs[d] - 1 ELSE q[d] - 1]
             /\ BwPeer(q, d) \in Proc
  <2>1. q[d] \in 0 .. job.procs[d] - 1 /\ job.procs[d] \in Nat \ {0}
    BY <1>1
  <2>2. BwPeer(q, d) = [q EXCEPT ![d] = IF q[d] = 0 THEN job.procs[d] - 1 ELSE q[d] - 1]
    BY DEF BwPeer
  <2>3. PICK x \in Int : x = IF q[d] = 0 THEN job.procs[d] - 1 ELSE q[d] - 1
    BY <2>1
  <2>4. 0 <= x /\ x < job.procs[d]
    BY <2>1, <2>3
  <2>5. [q EXCEPT ![d] = x] \in Proc
    BY <1>1, <2>4
  <2> QED BY <2>2, <2>3, <2>5
<1>4. p \in [Dim -> Int] /\ p[d] \in 0 .. job.procs[d] - 1 /\ job.procs[d] \in Nat \ {0}
  BY <1>1
<1>5. PICK f \in Proc : f = FwPeer(p, d)
  BY <1>2
<1>6. PICK b \in Proc : b = BwPeer(p, d)
  BY <1>3
<1>7. /\ f[d] = IF p[d] = job.procs[d] - 1 THEN 0 ELSE p[d] + 1
      /\ \A e \in Dim \ {d} : f[e] = p[e]
  BY <1>2, <1>4, <1>5
<1>8. /\ b[d] = IF p[d] = 0 THEN job.procs[d] - 1 ELSE p[d] - 1
      /\ \A e \in Dim \ {d} : b[e] = p[e]
  BY <1>3, <1>4, <1>6
<1>9. BwPeer(f, d) = p
  <2>1. PICK q \in Proc : q = BwPeer(f, d)
    BY <1>3
  <2>2. /\ q[d] = IF f[d] = 0 THEN job.procs[d] - 1 ELSE f[d] - 1
        /\ \A e \in Dim \ {d} : q[e] = f[e]
    BY <1>1, <1>3, <2>1
  <2>3. \A e \in Dim : q[e] = p[e]
    BY <1>4, <1>7, <2>2
  <2>4. q \in [Dim -> Int]
    BY <1>1
  <2> QED BY <1>4, <2>1, <2>3, <2>4
<1>10. FwPeer(b, d) = p
  <2>1. PICK q \in Proc : q = FwPeer(b, d)
    BY <1>2
  <2>2. /\ q[d] = IF b[d] = job.procs[d] - 1 THEN 0 ELSE b[d] + 1
        /\ \A e \in Dim \ {d} : q[e] = b[e]
    BY <1>1, <1>2, <2>1
  <2>3. \A e \in Dim : q[e] = p[e]
    BY <1>4, <1>8, <2>2
  <2>4. q \in [Dim -> Int]
    BY <1>1
  <2> QED BY <1>4, <2>1, <2>3, <2>4
<1> QED BY <1>5, <1>6, <1>7, <1>8, <1>9, <1>10

\* q begins where p ends, around the end of a periodic grid too.
Follows(p, q, d) ==
  \/ LocalOffset(q, d) = LocalOffset(p, d) + LocalSize(p, d)
  \/ /\ job.periodic /\ LocalOffset(q, d) = 0
     /\ LocalOffset(p, d) + LocalSize(p, d) = job.size[d]

\* Neighbours with points see each other.
LEMMA Neighbours ==
  ASSUME Known, WithinSpace, NEW p \in Proc, NEW d \in Dim, ~Empty(p)
  PROVE  /\ LocalOffset(p, d) + LocalSize(p, d) <= job.size[d]
         /\ HasFw(p, d) => /\ ~Empty(FwPeer(p, d)) /\ HasBw(FwPeer(p, d), d)
                           /\ Follows(p, FwPeer(p, d), d)
         /\ HasBw(p, d) => /\ ~Empty(BwPeer(p, d)) /\ HasFw(BwPeer(p, d), d)
                           /\ Follows(BwPeer(p, d), p, d)
<1>1. PICK jb \in Jobs : job = Prepared(jb)
  BY DEF Known
<1>2. PICK s \in Nat : s = jb.space[d]
  BY HaloAssumption DEF Job
<1>3. PICK z \in Nat : z = jb.size[d]
  BY HaloAssumption DEF Job
<1>4. PICK n \in Nat \ {0} : n = jb.procs[d]
  BY HaloAssumption DEF Job
<1>5. z <= s /\ job.size[d] = z /\ job.procs[d] = n
  BY <1>1, <1>2, <1>3, <1>4 DEF WithinSpace, Prepared
<1> DEFINE Ext == [k \in 0 .. n - 1 |-> PartExtent(jb, d, k)]
           off(k) == PartOffset(s, n, k)
<1>6. Extents(Ext, s, n, z)
  BY <1>2, <1>3, <1>4 DEF PartExtent, PartFirst, Extents
<1> HIDE DEF Ext
<1>7. \A k \in 0 .. n - 1 :
        /\ Ext[k] \in Nat
        /\ Ext[k] > 0 =>
             /\ off(k) + Ext[k] <= z
             /\ off(k) > 0 => k > 0 /\ Ext[k - 1] > 0 /\ off(k - 1) + Ext[k - 1] = off(k)
             /\ off(k) + Ext[k] < z => k < n - 1 /\ Ext[k + 1] > 0 /\ off(k) + Ext[k] = off(k + 1)
             /\ k = n - 1 => off(k) + Ext[k] = z
             /\ k < n - 1 /\ Ext[k + 1] > 0 => off(k) + Ext[k] = off(k + 1)
  <2>1. Adjacent(Ext, s, n, z)
    BY <1>5, <1>6, PartsMeet
  <2> QED BY <2>1 DEF Adjacent
<1>8. off(0) = 0 /\ \A k \in 0 .. n - 1 : off(k) \in Nat
  BY Begins
<1>9. \A q \in Proc : /\ q[d] \in 0 .. n - 1
                      /\ LocalOffset(q, d) = off(q[d]) /\ LocalSize(q, d) = Ext[q[d]]
  <2>1. job.offset = [q \in Procs(jb) |-> [e \in Dim |-> PartFirst(jb, e, q[e])]]
        /\ job.extent = [q \in Procs(jb) |-> [e \in Dim |-> PartExtent(jb, e, q[e])]]
    BY <1>1 DEF Prepared
  <2>2. Proc = Procs(jb)
    BY <2>1 DEF Proc
  <2>3. ASSUME NEW q \in Proc PROVE q[d] \in 0 .. n - 1
    BY <1>5, <2>3, JobFacts
  <2> QED BY <1>2, <1>4, <2>1, <2>2, <2>3 DEF LocalOffset, LocalSize, PartFirst, Ext
<1> HIDE DEF off
<1>10. \A q \in Proc : (\A e \in Dim \ {d} : q[e] = p[e]) /\ LocalSize(q, d) # 0 => ~Empty(q)
  <2>1. SUFFICES ASSUME NEW q \in Proc, \A e \in Dim \ {d} : q[e] = p[e], LocalSize(q, d) # 0,
                        NEW e \in Dim
                 PROVE  LocalSize(q, e) # 0
    BY DEF Empty
  <2>2. CASE e = d
    BY <2>1, <2>2
  <2>3. CASE e # d
    <3>1. LocalSize(p, e) # 0
      BY DEF Empty
    <3>2. q[e] = p[e]
      BY <2>1, <2>3
    <3> QED BY <3>1, <3>2, JobFacts
  <2> QED BY <2>2, <2>3
<1>11. Ext[p[d]] > 0 /\ p[d] \in 0 .. n - 1
  <2>1. LocalSize(p, d) # 0
    BY DEF Empty
  <2> QED BY <1>7, <1>9, <2>1
<1>12. LocalOffset(p, d) + LocalSize(p, d) <= job.size[d]
  BY <1>5, <1>7, <1>9, <1>11
<1>p. job.periodic => \A k \in 0 .. n - 1 : Ext[k] > 0
  <2>1. SUFFICES ASSUME job.periodic, NEW k \in 0 .. n - 1 PROVE Ext[k] > 0
    OBVIOUS
  <2>2. Fits(jb, d, k) /\ jb.periodic
    BY <1>1, <1>4, <2>1, HaloAssumption DEF Prepared
  <2>3. Ext[k] # 0
    BY <2>2 DEF Fits, Ext
  <2> QED BY <1>7, <2>3
<1>13. ASSUME HasFw(p, d)
       PROVE  ~Empty(FwPeer(p, d)) /\ HasBw(FwPeer(p, d), d) /\ Follows(p, FwPeer(p, d), d)
  <2>1. PICK q \in Proc : q = FwPeer(p, d)
    BY PeerFacts
  <2>2. /\ q[d] = IF p[d] = n - 1 THEN 0 ELSE p[d] + 1
        /\ \A e \in Dim \ {d} : q[e] = p[e]
    BY <1>5, <2>1, PeerFacts
  <2>3. job.periodic \/ off(p[d]) + Ext[p[d]] < z
    BY <1>5, <1>9, <1>13 DEF HasFw
  <2>4. Ext[q[d]] > 0 /\ q[d] \in 0 .. n - 1
    <3>1. CASE job.periodic
      BY <1>9, <1>p, <3>1
    <3>2. CASE ~job.periodic
      <4>1. p[d] < n - 1 /\ Ext[p[d] + 1] > 0
        BY <1>7, <1>11, <2>3, <3>2
      <4> QED BY <1>9, <2>2, <4>1
    <3> QED BY <3>1, <3>2
  <2>5. CASE p[d] = n - 1
    <3>1. off(p[d]) + Ext[p[d]] = z /\ q[d] = 0 /\ off(q[d]) = 0 /\ job.periodic
      BY <1>7, <1>8, <1>11, <2>2, <2>3, <2>5
    <3> QED BY <1>5, <1>9, <1>10, <2>1, <2>2, <2>4, <3>1 DEF HasBw, Follows
  <2>6. CASE p[d] # n - 1
    <3>1. q[d] = p[d] + 1 /\ p[d] < n - 1
      BY <1>11, <2>2, <2>6
    <3>2. off(p[d]) + Ext[p[d]] = off(q[d]) /\ off(q[d]) > 0
      BY <1>7, <1>8, <1>11, <2>4, <3>1
    <3> QED BY <1>9, <1>10, <2>1, <2>2, <2>4, <3>2 DEF HasBw, Follows
  <2> QED BY <2>5, <2>6
<1>14. ASSUME HasBw(p, d)
       PROVE  ~Empty(BwPeer(p, d)) /\ HasFw(BwPeer(p, d), d) /\ Follows(BwPeer(p, d), p, d)
  <2>1. PICK q \in Proc : q = BwPeer(p, d)
    BY PeerFacts
  <2>2. /\ q[d] = IF p[d] = 0 THEN n - 1 ELSE p[d] - 1
        /\ \A e \in Dim \ {d} : q[e] = p[e]
    BY <1>5, <2>1, PeerFacts
  <2>3. job.periodic \/ off(p[d]) > 0
    BY <1>9, <1>14 DEF HasBw
  <2>4. Ext[q[d]] > 0 /\ q[d] \in 0 .. n - 1
    <3>1. CASE job.periodic
      BY <1>9, <1>p, <3>1
    <3>2. CASE ~job.periodic
      <4>1. p[d] > 0 /\ Ext[p[d] - 1] > 0
        BY <1>7, <1>11, <2>3, <3>2
      <4> QED BY <1>9, <2>2, <4>1
    <3> QED BY <3>1, <3>2
  <2>5. CASE p[d] = 0
    <3>1. q[d] = n - 1 /\ off(q[d]) + Ext[q[d]] = z /\ off(p[d]) = 0 /\ job.periodic
      BY <1>7, <1>8, <2>2, <2>3, <2>4, <2>5
    <3> QED BY <1>5, <1>9, <1>10, <2>1, <2>2, <2>4, <3>1 DEF HasFw, Follows
  <2>6. CASE p[d] # 0
    <3>1. q[d] = p[d] - 1 /\ p[d] > 0 /\ p[d] = q[d] + 1 /\ q[d] < n - 1
      BY <1>11, <2>2, <2>6
    <3>2. off(q[d]) + Ext[q[d]] = off(p[d]) /\ off(p[d]) < z
      <4>1. off(p[d]) + Ext[p[d]] <= z /\ off(p[d]) \in Nat /\ Ext[p[d]] \in Nat
        BY <1>7, <1>8, <1>11
      <4>2. off(q[d]) + Ext[q[d]] = off(p[d])
        BY <1>7, <1>11, <2>4, <3>1
      <4> QED BY <1>11, <4>1, <4>2
    <3>3. LocalOffset(q, d) + LocalSize(q, d) < job.size[d]
      BY <1>5, <1>9, <3>2
    <3> QED BY <1>9, <1>10, <2>1, <2>2, <2>4, <3>2, <3>3 DEF HasFw, Follows
  <2> QED BY <2>5, <2>6
<1> QED BY <1>12, <1>13, <1>14

-----------------------------------------------------------------------------
(* Who sends what to whom.                                                  *)

Side(fw)          == IF fw THEN "fw" ELSE "bw"
Width(d, fw)      == IF fw THEN job.fwWidth[d] ELSE job.bwWidth[d]
Borders(p, d, fw) == IF fw THEN HasFw(p, d) ELSE HasBw(p, d)
Peer(p, d, fw)    == IF fw THEN FwPeer(p, d) ELSE BwPeer(p, d)

\* p posts a receive in dimension d, from q.
Awaits(p, d, fw)  == ~Empty(p) /\ Width(d, fw) > 0 /\ Borders(p, d, fw)
Slot(q, p, d, fw) == Awaits(p, d, fw) /\ q = Peer(p, d, fw)

\* The messages of a run, in the order in which a process sends them and
\* another one receives them.
Key == [round: Nat, dim: Dim, fw: BOOLEAN]
Earlier(k, m) ==
  \/ k.round < m.round
  \/ k.round = m.round /\ (k.dim > m.dim \/ (k.dim = m.dim /\ k.fw /\ ~m.fw))

\* q has sent its message k; p has received its message k.
Sent(q, k)  == k.round < round[q] \/ (k.round = round[q] /\ k.dim > dim[q])
Taken(p, k) ==
  \/ k.round < round[p]
  \/ /\ k.round = round[p]
     /\ k.dim > dim[p] + 1 \/ (k.dim = dim[p] + 1 /\ Side(k.fw) \notin pending[p])

\* What is in flight from q to p.
Way(q, p) == {k \in Key : Slot(q, p, k.dim, k.fw) /\ Sent(q, k) /\ ~Taken(p, k)}

(* What the messages and the halos contain.                                 *)

\* The width of a halo that is complete, and the extents of one.
HaloWidth(p, d, fw) == IF Width(d, fw) > 0 /\ Borders(p, d, fw) THEN Width(d, fw) ELSE 0
FullExtent(p, d, fw) ==
  [e \in Dim |-> IF e = d THEN Width(d, fw)
                 ELSE IF job.diagonal /\ e > d
                 THEN LocalSize(p, e) + HaloWidth(p, e, TRUE) + HaloWidth(p, e, FALSE)
                 ELSE LocalSize(p, e)]

\* The local index that index l of a slab stands for, if it is x away in
\* dimension d.
Back(p, d, x, l) ==
  [e \in Dim |-> IF e = d THEN l[e] + x
                 ELSE IF job.diagonal /\ e > d THEN l[e] - HaloWidth(p, e, FALSE)
                 ELSE l[e]]

\* The points of the grid that p keeps x away in dimension d, after r maps.
Points(p, r, d, fw, x) ==
  [l \in Box(FullExtent(p, d, fw)) |-> <<Wrapped(Global(p, Back(p, d, x, l))), r>>]
SentSlab(q, r, d, fw) ==
  Points(q, r, d, fw, IF fw THEN 0 ELSE LocalSize(q, d) - Width(d, fw))
HeldHalo(p, r, d, fw) ==
  Points(p, r, d, fw, IF fw THEN LocalSize(p, d) ELSE -Width(d, fw))

MessageOf(q, k) == Message(SentSlab(q, k.round, k.dim, k.fw), Buffer(k.round, k.dim, k.fw))

-----------------------------------------------------------------------------
(* The invariant.                                                           *)

Slabs   == UNION {[B -> Value] : B \in SUBSET [Dim -> Int]}
HaloRec == [fwWidth: Widths, bwWidth: Widths, fw: [Dim -> Slabs], bw: [Dim -> Slabs],
            diagonal: BOOLEAN]
Msg     == [slab: Slabs, buffer: [grid: {0, 1}, dim: Dim, fw: BOOLEAN]]

Typed ==
  /\ Known
  /\ net \in [Proc -> [Proc -> Seq(Msg)]]
  /\ round \in [Proc -> 0 .. MaxRounds] /\ dim \in [Proc -> 0 .. NDims]
  /\ pending \in [Proc -> SUBSET {"fw", "bw"}]
  /\ halo \in [Proc -> HaloRec]

\* How far p is.
Place(p) ==
  /\ \A fw \in BOOLEAN :
       Side(fw) \in pending[p] => dim[p] < NDims /\ Awaits(p, dim[p] + 1, fw)
  /\ round[p] = MaxRounds => dim[p] = NDims

\* The messages of f are those in W, in order.
Lists(f, W) ==
  /\ f \in Seq(Key)
  /\ \A i \in 1 .. Len(f) : f[i] \in W
  /\ \A k \in W : \E i \in 1 .. Len(f) : f[i] = k
  /\ \A i, j \in 1 .. Len(f) : i < j => Earlier(f[i], f[j])
Bodies(q, f)  == [i \in 1 .. Len(f) |-> MessageOf(q, f[i])]
Channel(q, p) == \E f : Lists(f, Way(q, p)) /\ net[q][p] = Bodies(q, f)

\* Nothing is received that has not been sent.
Causal(q, p) ==
  \A k \in Key : Slot(q, p, k.dim, k.fw) /\ Taken(p, k) => Sent(q, k)

\* The halos that p has received.
Held(p, e, fw) == IF fw THEN halo[p].fw[e] ELSE halo[p].bw[e]
Holds(p, e, fw) ==
  HaloWidth(p, e, fw) > 0 =>
    /\ halo[p].diagonal = job.diagonal
    /\ e > dim[p] + 1 \/ Side(fw) \notin pending[p] =>
         Held(p, e, fw) = HeldHalo(p, round[p], e, fw)
Filled(p) ==
  \A e \in Dim : e > dim[p] /\ ~Empty(p) =>
    /\ halo[p].fwWidth[e] = HaloWidth(p, e, TRUE)
    /\ halo[p].bwWidth[e] = HaloWidth(p, e, FALSE)
    /\ Holds(p, e, TRUE) /\ Holds(p, e, FALSE)

Protocol == /\ \A p \in Proc : Place(p)
            /\ \A q, p \in Proc : Channel(q, p) /\ Causal(q, p)

Inv == Typed /\ Protocol /\ \A p \in Proc : Filled(p)

-----------------------------------------------------------------------------
(* What a process awaits is what its peer sends.                            *)

LEMMA Slots ==
  ASSUME Known, WithinSpace, NEW p \in Proc, NEW q \in Proc, NEW d \in Dim, NEW fw \in BOOLEAN
  PROVE  Slot(q, p, d, fw) <=>
           ~Empty(q) /\ Width(d, fw) > 0 /\ Borders(q, d, ~fw) /\ p = Peer(q, d, ~fw)
<1>1. /\ HasFw(p, d) /\ ~Empty(p) => ~Empty(FwPeer(p, d)) /\ HasBw(FwPeer(p, d), d)
      /\ HasBw(p, d) /\ ~Empty(p) => ~Empty(BwPeer(p, d)) /\ HasFw(BwPeer(p, d), d)
  BY Neighbours
<1>2. /\ HasFw(q, d) /\ ~Empty(q) => ~Empty(FwPeer(q, d)) /\ HasBw(FwPeer(q, d), d)
      /\ HasBw(q, d) /\ ~Empty(q) => ~Empty(BwPeer(q, d)) /\ HasFw(BwPeer(q, d), d)
  BY Neighbours
<1>3. /\ BwPeer(FwPeer(p, d), d) = p /\ FwPeer(BwPeer(p, d), d) = p
      /\ BwPeer(FwPeer(q, d), d) = q /\ FwPeer(BwPeer(q, d), d) = q
  BY PeerFacts
<1> QED BY <1>1, <1>2, <1>3 DEF Slot, Awaits, Borders, Peer

\* Whoever sends to a peer receives from it.
LEMMA SlotsBack ==
  ASSUME Known, WithinSpace, TwoWay, NEW p \in Proc, NEW q \in Proc, NEW d \in Dim,
         NEW fw \in BOOLEAN, Slot(q, p, d, fw)
  PROVE  Slot(p, q, d, ~fw)
<1>1. ~Empty(q) /\ Width(d, fw) > 0 /\ Borders(q, d, ~fw) /\ p = Peer(q, d, ~fw)
  BY Slots
<1>2. Width(d, ~fw) > 0
  BY <1>1, TwoSided DEF Width
<1> QED BY <1>1, <1>2 DEF Slot, Awaits

-----------------------------------------------------------------------------
(* Messages in order.                                                       *)

LEMMA Order ==
  ASSUME NEW k \in Key, NEW m \in Key
  PROVE  /\ ~Earlier(k, k)
         /\ Earlier(k, m) \/ Earlier(m, k) \/ k = m
         /\ \A n \in Key : Earlier(k, m) /\ Earlier(m, n) => Earlier(k, n)
<1>1. /\ k.round \in Int /\ k.dim \in Int /\ k.fw \in BOOLEAN
      /\ m.round \in Int /\ m.dim \in Int /\ m.fw \in BOOLEAN
  BY DEF Key, Dim
<1>2. ~Earlier(k, k)
  BY <1>1 DEF Earlier
<1>3. k.round = m.round /\ k.dim = m.dim /\ k.fw = m.fw => k = m
  BY DEF Key
<1>4. Earlier(k, m) \/ Earlier(m, k) \/ k = m
  BY <1>1, <1>3 DEF Earlier
<1>5. ASSUME NEW n \in Key, Earlier(k, m), Earlier(m, n) PROVE Earlier(k, n)
  <2>1. n.round \in Int /\ n.dim \in Int /\ n.fw \in BOOLEAN
    BY DEF Key, Dim
  <2> QED BY <1>1, <1>5, <2>1 DEF Earlier
<1> QED BY <1>2, <1>4, <1>5

LEMMA ListsEmpty == Lists(<< >>, {})
BY DEF Lists

LEMMA ListsAppend ==
  ASSUME NEW f, NEW W \in SUBSET Key, Lists(f, W), NEW k \in Key, \A m \in W : Earlier(m, k),
         NEW q
  PROVE  /\ Lists(Append(f, k), W \cup {k})
         /\ Bodies(q, Append(f, k)) = Append(Bodies(q, f), MessageOf(q, k))
<1>1. /\ f \in Seq(Key) /\ Len(f) \in Nat
      /\ \A i \in 1 .. Len(f) : f[i] \in W
      /\ \A m \in W : \E i \in 1 .. Len(f) : f[i] = m
      /\ \A i, j \in 1 .. Len(f) : i < j => Earlier(f[i], f[j])
  BY DEF Lists
<1>2. PICK g : g = Append(f, k)
  OBVIOUS
<1>3. /\ g \in Seq(Key) /\ Len(g) = Len(f) + 1 /\ g[Len(f) + 1] = k
      /\ \A i \in 1 .. Len(f) : g[i] = f[i]
  BY <1>1, <1>2
<1>4. ASSUME NEW i \in 1 .. Len(g) PROVE g[i] \in W \cup {k}
  BY <1>1, <1>3
<1>5. ASSUME NEW m \in W \cup {k} PROVE \E i \in 1 .. Len(g) : g[i] = m
  <2>1. CASE m = k
    BY <1>1, <1>3, <2>1
  <2>2. CASE m \in W
    <3>1. PICK i \in 1 .. Len(f) : f[i] = m
      BY <1>1, <2>2
    <3>2. i \in 1 .. Len(g) /\ g[i] = m
      BY <1>1, <1>3, <3>1
    <3> QED BY <3>2
  <2> QED BY <2>1, <2>2
<1>6. ASSUME NEW i \in 1 .. Len(g), NEW j \in 1 .. Len(g), i < j PROVE Earlier(g[i], g[j])
  <2>1. i \in 1 .. Len(f)
    BY <1>1, <1>3, <1>6
  <2>2. CASE j = Len(f) + 1
    BY <1>1, <1>3, <2>1, <2>2
  <2>3. CASE j \in 1 .. Len(f)
    BY <1>1, <1>3, <1>6, <2>1, <2>3
  <2> QED BY <1>1, <1>3, <2>2, <2>3
<1>7. Lists(g, W \cup {k})
  BY <1>3, <1>4, <1>5, <1>6 DEF Lists
<1>8. PICK b : b = Bodies(q, f)
  OBVIOUS
<1>9. b = [i \in 1 .. Len(f) |-> MessageOf(q, f[i])]
  BY <1>8 DEF Bodies
<1>10. b \in Seq({MessageOf(q, m) : m \in Key}) /\ Len(b) = Len(f)
  <2>1. \A i \in 1 .. Len(f) : MessageOf(q, f[i]) \in {MessageOf(q, m) : m \in Key}
    BY <1>1
  <2> QED BY <1>1, <1>9, <2>1
<1>11. PICK m : m = MessageOf(q, k)
  OBVIOUS
<1>12. Bodies(q, g) = Append(b, m)
  <2>1. PICK c : c = Append(b, m)
    OBVIOUS
  <2>2. c \in Seq({MessageOf(q, n) : n \in Key}) /\ Len(c) = Len(f) + 1 /\ c[Len(f) + 1] = m
        /\ \A i \in 1 .. Len(f) : c[i] = b[i]
    BY <1>1, <1>10, <1>11, <2>1
  <2>3. DOMAIN c = 1 .. Len(f) + 1 /\ c = [i \in DOMAIN c |-> c[i]]
    BY <1>1, <2>2
  <2>4. \A i \in 1 .. Len(f) + 1 : c[i] = MessageOf(q, g[i])
    BY <1>1, <1>3, <1>9, <1>11, <2>2
  <2>5. c = [i \in 1 .. Len(g) |-> MessageOf(q, g[i])]
    BY <1>3, <2>3, <2>4
  <2> QED BY <2>1, <2>5 DEF Bodies
<1> QED BY <1>2, <1>7, <1>8, <1>11, <1>12

LEMMA ListsTail ==
  ASSUME NEW f, NEW W \in SUBSET Key, Lists(f, W), NEW q, Bodies(q, f) # << >>
  PROVE  /\ f[1] \in W /\ \A m \in W : m = f[1] \/ Earlier(f[1], m)
         /\ Head(Bodies(q, f)) = MessageOf(q, f[1])
         /\ Lists(Tail(f), W \ {f[1]})
         /\ Bodies(q, Tail(f)) = Tail(Bodies(q, f))
<1>1. /\ f \in Seq(Key) /\ Len(f) \in Nat
      /\ \A i \in 1 .. Len(f) : f[i] \in W
      /\ \A m \in W : \E i \in 1 .. Len(f) : f[i] = m
      /\ \A i, j \in 1 .. Len(f) : i < j => Earlier(f[i], f[j])
  BY DEF Lists
<1>2. PICK b : b = Bodies(q, f)
  OBVIOUS
<1>3. b = [i \in 1 .. Len(f) |-> MessageOf(q, f[i])] /\ b # << >>
  BY <1>2 DEF Bodies
<1>4. b \in Seq({MessageOf(q, m) : m \in Key}) /\ Len(b) = Len(f)
  <2>1. \A i \in 1 .. Len(f) : MessageOf(q, f[i]) \in {MessageOf(q, m) : m \in Key}
    BY <1>1
  <2> QED BY <1>1, <1>3, <2>1
<1>5. Len(f) > 0 /\ f # << >>
  BY <1>1, <1>3, <1>4
<1>6. f[1] \in W /\ Head(b) = MessageOf(q, f[1])
  BY <1>1, <1>3, <1>4, <1>5
<1>7. ASSUME NEW m \in W PROVE m = f[1] \/ Earlier(f[1], m)
  <2>1. PICK i \in 1 .. Len(f) : f[i] = m
    BY <1>1
  <2>2. CASE i = 1
    BY <2>1, <2>2
  <2>3. CASE i > 1
    BY <1>1, <1>5, <2>1, <2>3
  <2> QED BY <1>1, <2>2, <2>3
<1>8. PICK g : g = Tail(f)
  OBVIOUS
<1>9. /\ g \in Seq(Key) /\ Len(g) = Len(f) - 1
      /\ \A i \in 1 .. Len(f) - 1 : g[i] = f[i + 1] /\ i + 1 \in 1 .. Len(f)
  BY <1>1, <1>5, <1>8
<1>10. ASSUME NEW i \in 1 .. Len(g) PROVE g[i] \in W \ {f[1]}
  <2>1. g[i] = f[i + 1] /\ i + 1 \in 1 .. Len(f) /\ 1 < i + 1 /\ 1 \in 1 .. Len(f)
    BY <1>1, <1>5, <1>9
  <2>2. f[i + 1] \in W /\ Earlier(f[1], f[i + 1])
    BY <1>1, <2>1
  <2>3. ~Earlier(f[1], f[1])
    BY <1>6, Order
  <2> QED BY <2>1, <2>2, <2>3
<1>11. ASSUME NEW m \in W \ {f[1]} PROVE \E i \in 1 .. Len(g) : g[i] = m
  <2>1. PICK i \in 1 .. Len(f) : f[i] = m
    BY <1>1
  <2>2. i # 1
    BY <2>1
  <2>3. i - 1 \in 1 .. Len(g) /\ i - 1 \in 1 .. Len(f) - 1 /\ (i - 1) + 1 = i
    BY <1>1, <1>9, <2>2
  <2>4. g[i - 1] = m
    BY <1>9, <2>1, <2>3
  <2> QED BY <2>3, <2>4
<1>12. ASSUME NEW i \in 1 .. Len(g), NEW j \in 1 .. Len(g), i < j PROVE Earlier(g[i], g[j])
  <2>1. /\ i + 1 \in 1 .. Len(f) /\ j + 1 \in 1 .. Len(f) /\ i + 1 < j + 1
        /\ g[i] = f[i + 1] /\ g[j] = f[j + 1]
    BY <1>9, <1>12
  <2> QED BY <1>1, <2>1
<1>13. Lists(g, W \ {f[1]})
  BY <1>9, <1>10, <1>11, <1>12 DEF Lists
<1>14. Bodies(q, g) = Tail(b)
  <2>1. PICK c : c = Tail(b)
    OBVIOUS
  <2>2. c \in Seq({MessageOf(q, n) : n \in Key}) /\ Len(c) = Len(f) - 1
        /\ \A i \in 1 .. Len(f) - 1 : c[i] = b[i + 1]
    BY <1>3, <1>4, <2>1
  <2>3. DOMAIN c = 1 .. Len(f) - 1 /\ c = [i \in DOMAIN c |-> c[i]]
    BY <2>2
  <2>4. \A i \in 1 .. Len(f) - 1 : c[i] = MessageOf(q, g[i])
    BY <1>3, <1>9, <2>2
  <2>5. c = [i \in 1 .. Len(g) |-> MessageOf(q, g[i])]
    BY <1>9, <2>3, <2>4
  <2> QED BY <2>1, <2>5 DEF Bodies
<1> QED BY <1>2, <1>6, <1>7, <1>8, <1>13, <1>14

-----------------------------------------------------------------------------
(* The job does not change.                                                 *)

LEMMA SameJob ==
  ASSUME job' = job
  PROVE  /\ Known' = Known /\ Proc' = Proc
         /\ \A p : Empty(p)' = Empty(p)
         /\ \A p, d : LocalSize(p, d)' = LocalSize(p, d)
         /\ \A q, p, d, fw : /\ Slot(q, p, d, fw)' = Slot(q, p, d, fw)
                             /\ Awaits(p, d, fw)' = Awaits(p, d, fw)
         /\ \A p, d, fw : HaloWidth(p, d, fw)' = HaloWidth(p, d, fw)
         /\ \A p, r, d, fw, x : Points(p, r, d, fw, x)' = Points(p, r, d, fw, x)
<1>1. Known' = Known
  BY DEF Known, Prepared
<1>2. Proc' = Proc
  BY DEF Proc
<1>3. \A p, d : LocalSize(p, d)' = LocalSize(p, d) /\ LocalOffset(p, d)' = LocalOffset(p, d)
  BY DEF LocalSize, LocalOffset
<1>4. \A p : Empty(p)' = Empty(p)
  BY <1>3 DEF Empty
<1>5. \A p, d : HasFw(p, d)' = HasFw(p, d) /\ HasBw(p, d)' = HasBw(p, d)
  BY <1>3 DEF HasFw, HasBw
<1>6. \A p, d : FwPeer(p, d)' = FwPeer(p, d) /\ BwPeer(p, d)' = BwPeer(p, d)
  BY DEF FwPeer, BwPeer
<1>7. \A q, p, d, fw : /\ Slot(q, p, d, fw)' = Slot(q, p, d, fw)
                       /\ Awaits(p, d, fw)' = Awaits(p, d, fw)
                       /\ HaloWidth(p, d, fw)' = HaloWidth(p, d, fw)
                       /\ Width(d, fw)' = Width(d, fw)
  BY <1>4, <1>5, <1>6 DEF Slot, Awaits, Width, Borders, Peer, HaloWidth
<1>8. \A p, r, d, fw, x : Points(p, r, d, fw, x)' = Points(p, r, d, fw, x)
  <2>1. \A p, d, fw : FullExtent(p, d, fw)' = FullExtent(p, d, fw)
    <3>1. SUFFICES ASSUME NEW p, NEW d, NEW fw
                   PROVE  FullExtent(p, d, fw)' = FullExtent(p, d, fw)
      OBVIOUS
    <3>2. \A e : LocalSize(p, e)' = LocalSize(p, e)
      BY <1>3
    <3>3. \A e, g : HaloWidth(p, e, g)' = HaloWidth(p, e, g)
      BY <1>7
    <3>4. Width(d, fw)' = Width(d, fw)
      BY <1>7
    <3>5. job'.diagonal = job.diagonal
      OBVIOUS
    <3> QED BY ONLY <3>2, <3>3, <3>4, <3>5 DEF FullExtent
  <2>2. \A p, d, x, l : Back(p, d, x, l)' = Back(p, d, x, l)
    <3>1. SUFFICES ASSUME NEW p, NEW d, NEW x, NEW l
                   PROVE  Back(p, d, x, l)' = Back(p, d, x, l)
      OBVIOUS
    <3>2. \A e, g : HaloWidth(p, e, g)' = HaloWidth(p, e, g)
      BY <1>7
    <3>3. job'.diagonal = job.diagonal
      OBVIOUS
    <3> QED BY ONLY <3>2, <3>3 DEF Back
  <2>3. \A y : Wrapped(y)' = Wrapped(y)
    BY DEF Wrapped
  <2>4. \A p, l : Global(p, l)' = Global(p, l)
    BY <1>3 DEF Global
  <2>5. \A p, d, fw, x, l :
          Wrapped(Global(p, Back(p, d, x, l)))' = Wrapped(Global(p, Back(p, d, x, l)))
    BY <2>2, <2>3, <2>4
  <2> QED BY <2>1, <2>5 DEF Points
<1> QED BY <1>1, <1>2, <1>3, <1>4, <1>7, <1>8

LEMMA SameBodies ==
  ASSUME job' = job
  PROVE  /\ \A q, k : MessageOf(q, k)' = MessageOf(q, k)
         /\ \A q, f : Bodies(q, f)' = Bodies(q, f)
         /\ \A p, r, d, fw : HeldHalo(p, r, d, fw)' = HeldHalo(p, r, d, fw)
<1>1. /\ \A p, r, d, fw, x : Points(p, r, d, fw, x)' = Points(p, r, d, fw, x)
      /\ \A p, d : LocalSize(p, d)' = LocalSize(p, d)
      /\ \A d, fw : Width(d, fw)' = Width(d, fw)
  BY SameJob DEF Width
<1>2. \A q, r, d, fw : SentSlab(q, r, d, fw)' = SentSlab(q, r, d, fw)
  BY <1>1 DEF SentSlab
<1>3. \A p, r, d, fw : HeldHalo(p, r, d, fw)' = HeldHalo(p, r, d, fw)
  BY <1>1 DEF HeldHalo
<1>4. \A q, k : MessageOf(q, k)' = MessageOf(q, k)
  BY <1>2 DEF MessageOf
<1>5. \A q, f : Bodies(q, f)' = Bodies(q, f)
  BY <1>4 DEF Bodies
<1> QED BY <1>3, <1>4, <1>5

-----------------------------------------------------------------------------
(* Boxes, and the points of halos.                                          *)

LEMMA Remainder ==
  ASSUME NEW z \in Nat \ {0}, NEW a \in Int
  PROVE  (a + z) % z = a % z /\ (0 <= a /\ a < z => a % z = a)
<1>1. /\ a % z \in 0 .. z - 1 /\ a \div z \in Int /\ a = z * (a \div z) + (a % z)
  OBVIOUS
<1>2. /\ (a + z) % z \in 0 .. z - 1 /\ (a + z) \div z \in Int
      /\ a + z = z * ((a + z) \div z) + ((a + z) % z)
  OBVIOUS
<1>3. \A i, j \in Int, k, m \in 0 .. z - 1 : z * i + k = z * j + m => k = m
  <2>1. SUFFICES ASSUME NEW i \in Int, NEW j \in Int, NEW k \in 0 .. z - 1, NEW m \in 0 .. z - 1,
                        z * i + k = z * j + m
                 PROVE  k = m
    OBVIOUS
  <2>2. PICK n \in Int : n = i - j
    OBVIOUS
  <2>3. z * n = m - k
    BY <2>1, <2>2
  <2>4. n > 0 => z * n >= z
    OBVIOUS
  <2>5. n < 0 => z * n <= -z
    OBVIOUS
  <2> QED BY <2>3, <2>4, <2>5
<1>4. (a + z) % z = a % z
  <2>1. PICK i \in Int : i = a \div z
    BY <1>1
  <2>2. PICK j \in Int : j = (a + z) \div z
    BY <1>2
  <2>3. z * (i + 1) + (a % z) = z * j + ((a + z) % z)
    BY <1>1, <1>2, <2>1, <2>2
  <2>4. PICK k \in 0 .. z - 1 : k = a % z
    BY <1>1
  <2>5. PICK m \in 0 .. z - 1 : m = (a + z) % z
    BY <1>2
  <2>6. z * (i + 1) + k = z * j + m /\ i + 1 \in Int
    BY ONLY <2>1, <2>3, <2>4, <2>5
  <2>7. k = m
    BY ONLY <1>3, <2>2, <2>4, <2>5, <2>6
  <2> QED BY <2>4, <2>5, <2>7
<1>5. 0 <= a /\ a < z => a % z = a
  <2>1. SUFFICES ASSUME 0 <= a, a < z PROVE a % z = a
    OBVIOUS
  <2>2. z * 0 + a = a /\ a \in 0 .. z - 1 /\ 0 \in Int
    BY <2>1
  <2>3. PICK i \in Int : i = a \div z
    BY <1>1
  <2>4. PICK m \in 0 .. z - 1 : m = a % z
    BY <1>1
  <2>5. z * 0 + a = z * i + m
    BY ONLY <1>1, <2>2, <2>3, <2>4
  <2>6. a = m
    BY ONLY <1>3, <2>2, <2>3, <2>4, <2>5
  <2> QED BY <2>4, <2>6
<1> QED BY <1>4, <1>5

LEMMA BoxIs ==
  ASSUME NEW ext \in Widths
  PROVE  \A l : l \in Box(ext) <=> l \in [Dim -> Int] /\ \A d \in Dim : 0 <= l[d] /\ l[d] < ext[d]
<1>1. ext \in [Dim -> Nat]
  BY DEF Widths
<1>2. SUFFICES ASSUME NEW l
               PROVE  l \in Box(ext) <=>
                        l \in [Dim -> Int] /\ \A d \in Dim : 0 <= l[d] /\ l[d] < ext[d]
  OBVIOUS
<1>3. ASSUME l \in Box(ext) PROVE l \in [Dim -> Int] /\ \A d \in Dim : 0 <= l[d] /\ l[d] < ext[d]
  <2>1. l \in [Dim -> UNION {0 .. ext[d] - 1 : d \in Dim}] /\ \A d \in Dim : l[d] < ext[d]
    BY <1>3 DEF Box
  <2>2. \A x \in UNION {0 .. ext[d] - 1 : d \in Dim} : x \in Int /\ 0 <= x
    BY <1>1
  <2> QED BY <2>1, <2>2
<1>4. ASSUME l \in [Dim -> Int], \A d \in Dim : 0 <= l[d] /\ l[d] < ext[d] PROVE l \in Box(ext)
  <2>1. ASSUME NEW d \in Dim PROVE l[d] \in UNION {0 .. ext[e] - 1 : e \in Dim}
    <3>1. l[d] \in 0 .. ext[d] - 1
      BY <1>1, <1>4
    <3> QED BY <3>1
  <2>2. l \in [Dim -> UNION {0 .. ext[e] - 1 : e \in Dim}]
    BY <1>4, <2>1
  <2> QED BY <1>4, <2>2 DEF Box
<1> QED BY <1>3, <1>4

LEMMA ExtentFacts ==
  ASSUME Known, NEW p \in Proc, NEW d \in Dim, NEW fw \in BOOLEAN
  PROVE  /\ Width(d, fw) \in Nat
         /\ \A e \in Dim, g \in BOOLEAN : HaloWidth(p, e, g) \in Nat
         /\ FullExtent(p, d, fw) \in Widths
<1>1. \A e \in Dim, g \in BOOLEAN : Width(e, g) \in Nat
  BY JobFacts DEF Width, Widths
<1>2. \A e \in Dim, g \in BOOLEAN : HaloWidth(p, e, g) \in Nat
  BY <1>1 DEF HaloWidth
<1>3. \A e \in Dim : LocalSize(p, e) \in Nat
  BY JobFacts
<1>4. FullExtent(p, d, fw) \in Widths
  <2>1. \A e \in Dim : LocalSize(p, e) + HaloWidth(p, e, TRUE) + HaloWidth(p, e, FALSE) \in Nat
    <3>1. SUFFICES ASSUME NEW e \in Dim
                   PROVE  LocalSize(p, e) + HaloWidth(p, e, TRUE) + HaloWidth(p, e, FALSE) \in Nat
      OBVIOUS
    <3>2. PICK a \in Nat : a = HaloWidth(p, e, TRUE)
      BY <1>1 DEF HaloWidth
    <3>3. PICK b \in Nat : b = HaloWidth(p, e, FALSE)
      BY <1>1 DEF HaloWidth
    <3>4. PICK c \in Nat : c = LocalSize(p, e)
      BY <1>3
    <3>5. c + a + b \in Nat
      OBVIOUS
    <3> QED BY ONLY <3>2, <3>3, <3>4, <3>5
  <2>2. Width(d, fw) \in Nat
    BY <1>1
  <2>3. PICK F : F = FullExtent(p, d, fw)
    OBVIOUS
  <2>4. F = [e \in Dim |-> F[e]]
    BY <2>3 DEF FullExtent
  <2>5. \A e \in Dim : F[e] \in Nat
    BY <1>3, <2>1, <2>2, <2>3 DEF FullExtent
  <2> QED BY ONLY <2>3, <2>4, <2>5 DEF Widths
<1> QED BY <1>1, <1>2, <1>4

\* What a process sends is the halo of the one that receives it.
LEMMA SlabIsHalo ==
  ASSUME Known, WithinSpace, NEW p \in Proc, NEW q \in Proc, NEW d \in Dim, NEW fw \in BOOLEAN,
         Slot(q, p, d, fw), NEW r
  PROVE  SentSlab(q, r, d, fw) = HeldHalo(p, r, d, fw)
<1>1. q = Peer(p, d, fw) /\ ~Empty(p) /\ Borders(p, d, fw)
  BY DEF Slot, Awaits
<1>2. \A e \in Dim \ {d} : q[e] = p[e]
  BY <1>1, PeerFacts DEF Peer
<1>3. \A e \in Dim \ {d} : LocalSize(q, e) = LocalSize(p, e) /\ LocalOffset(q, e) = LocalOffset(p, e)
  BY <1>2, JobFacts
<1>4. \A e \in Dim \ {d} : /\ HaloWidth(q, e, TRUE) = HaloWidth(p, e, TRUE)
                           /\ HaloWidth(q, e, FALSE) = HaloWidth(p, e, FALSE)
  BY <1>3 DEF HaloWidth, Borders, HasFw, HasBw
<1>5. FullExtent(q, d, fw) = FullExtent(p, d, fw)
  <2>1. \A e \in Dim :
          /\ e # d => LocalSize(q, e) = LocalSize(p, e)
          /\ e # d => /\ HaloWidth(q, e, TRUE) = HaloWidth(p, e, TRUE)
                      /\ HaloWidth(q, e, FALSE) = HaloWidth(p, e, FALSE)
    BY <1>3, <1>4
  <2>2. ASSUME NEW e \in Dim, e # d
        PROVE  (IF job.diagonal /\ e > d
                THEN LocalSize(q, e) + HaloWidth(q, e, TRUE) + HaloWidth(q, e, FALSE)
                ELSE LocalSize(q, e))
               = IF job.diagonal /\ e > d
                 THEN LocalSize(p, e) + HaloWidth(p, e, TRUE) + HaloWidth(p, e, FALSE)
                 ELSE LocalSize(p, e)
    BY <2>1, <2>2
  <2>3. PICK F : F = FullExtent(q, d, fw)
    OBVIOUS
  <2>4. PICK G : G = FullExtent(p, d, fw)
    OBVIOUS
  <2>5. /\ F = [e \in Dim |-> F[e]] /\ G = [e \in Dim |-> G[e]]
    BY <2>3, <2>4 DEF FullExtent
  <2>6. ASSUME NEW e \in Dim PROVE F[e] = G[e]
    <3>1. CASE e = d
      BY <2>3, <2>4, <3>1 DEF FullExtent
    <3>2. CASE e # d
      BY <2>2, <2>3, <2>4, <3>2 DEF FullExtent
    <3> QED BY <3>1, <3>2
  <2> QED BY ONLY <2>3, <2>4, <2>5, <2>6
<1>6. PICK E \in Widths : E = FullExtent(p, d, fw)
  BY ExtentFacts
<1>7. PICK w \in Nat : w = Width(d, fw)
  BY ExtentFacts
<1>8. PICK x : x = IF fw THEN 0 ELSE LocalSize(q, d) - w
  OBVIOUS
<1>9. PICK y : y = IF fw THEN LocalSize(p, d) ELSE -w
  OBVIOUS
<1>10. /\ job.size \in [Dim -> Nat] /\ LocalSize(p, d) \in Nat /\ LocalSize(q, d) \in Nat
       /\ LocalOffset(p, d) \in Nat /\ LocalOffset(q, d) \in Nat
       /\ LocalSize(p, d) # 0
       /\ LocalOffset(p, d) + LocalSize(p, d) <= job.size[d]
  BY <1>1, JobFacts, Neighbours DEF Empty
<1>11. IF fw THEN Follows(p, q, d) ELSE Follows(q, p, d)
  BY <1>1, Neighbours DEF Peer, Borders
<1>12. ASSUME NEW l \in Box(E)
       PROVE  Wrapped(Global(q, Back(q, d, x, l))) = Wrapped(Global(p, Back(p, d, y, l)))
  <2>1. l[d] \in Int
    BY BoxIs
  <2>2. ASSUME NEW e \in Dim
        PROVE  IF e = d THEN /\ Global(q, Back(q, d, x, l))[d] = l[d] + x + LocalOffset(q, d)
                             /\ Global(p, Back(p, d, y, l))[d] = l[d] + y + LocalOffset(p, d)
               ELSE Global(q, Back(q, d, x, l))[e] = Global(p, Back(p, d, y, l))[e]
    BY <1>3, <1>4 DEF Global, Back
  <2>3. ASSUME NEW e \in Dim
        PROVE  Wrapped(Global(q, Back(q, d, x, l)))[e] = Wrapped(Global(p, Back(p, d, y, l)))[e]
    <3>1. CASE e # d
      BY <2>2, <3>1 DEF Wrapped
    <3>2. CASE e = d
      <4>1. PICK i \in Int : i = l[d] + x + LocalOffset(q, d)
        BY <1>7, <1>8, <1>10, <2>1
      <4>2. PICK j \in Int : j = l[d] + y + LocalOffset(p, d)
        BY <1>7, <1>9, <1>10, <2>1
      <4>3. PICK z \in Nat \ {0} : z = job.size[d]
        BY <1>10
      <4>4. \/ i = j
            \/ job.periodic /\ (i + z = j \/ j + z = i)
        BY <1>8, <1>9, <1>7, <1>10, <1>11, <2>1, <4>1, <4>2, <4>3 DEF Follows
      <4>5. (i + z) % z = i % z /\ (j + z) % z = j % z
        BY Remainder
      <4>6. job.periodic => i % z = j % z
        BY <4>4, <4>5
      <4>7. /\ Global(q, Back(q, d, x, l))[d] = i
            /\ Global(p, Back(p, d, y, l))[d] = j
        BY <2>2, <4>1, <4>2
      <4> QED BY <3>2, <4>3, <4>4, <4>6, <4>7 DEF Wrapped
    <3> QED BY <3>1, <3>2
  <2> QED BY <2>3 DEF Wrapped
<1>13. SentSlab(q, r, d, fw) = Points(q, r, d, fw, x)
  BY <1>7, <1>8 DEF SentSlab
<1>14. HeldHalo(p, r, d, fw) = Points(p, r, d, fw, y)
  BY <1>7, <1>9 DEF HeldHalo
<1> QED BY <1>5, <1>6, <1>12, <1>13, <1>14 DEF Points

-----------------------------------------------------------------------------
(* Where points are found.                                                  *)

\* The halos h of p in the dimensions after d are those of round r.
Complete(p, h, r, d) ==
  \A e \in Dim : e > d =>
    /\ h.fwWidth[e] = HaloWidth(p, e, TRUE)
    /\ h.bwWidth[e] = HaloWidth(p, e, FALSE)
    /\ HaloWidth(p, e, TRUE) > 0 =>
         h.diagonal = job.diagonal /\ h.fw[e] = HeldHalo(p, r, e, TRUE)
    /\ HaloWidth(p, e, FALSE) > 0 =>
         h.diagonal = job.diagonal /\ h.bw[e] = HeldHalo(p, r, e, FALSE)

Ahead(p, d)  == HaloWidth(p, d, TRUE)
Behind(p, d) == HaloWidth(p, d, FALSE)

\* Local indices that a process can look up: in the grid, or in one of its
\* halos, or in several if the stencil has diagonal points.
Reachable(p, l) ==
  /\ l \in [Dim -> Int]
  /\ \A e \in Dim : -Behind(p, e) <= l[e] /\ l[e] < LocalSize(p, e) + Ahead(p, e)
  /\ ~job.diagonal => \A e, f \in Outside(p, l) : e = f

\* The points of p's own part are in the grid.
LEMMA OwnPoint ==
  ASSUME Known, WithinSpace, NEW p \in Proc, ~Empty(p), NEW l \in [Dim -> Int],
         Outside(p, l) = {}
  PROVE  Wrapped(Global(p, l)) = Global(p, l)
<1>1. ASSUME NEW d \in Dim PROVE Wrapped(Global(p, l))[d] = Global(p, l)[d]
  <2>1. 0 <= l[d] /\ l[d] < LocalSize(p, d) /\ l[d] \in Int /\ LocalSize(p, d) \in Int
    BY JobFacts DEF Outside
  <2>2. /\ job.size \in [Dim -> Nat] /\ LocalOffset(p, d) \in Nat
        /\ LocalOffset(p, d) + LocalSize(p, d) <= job.size[d]
    BY JobFacts, Neighbours
  <2>3. PICK x \in Int : x = l[d] + LocalOffset(p, d)
    BY <2>1, <2>2
  <2>4. PICK z \in Nat \ {0} : z = job.size[d]
    BY <2>1, <2>2
  <2>5. 0 <= x /\ x < z
    BY <2>1, <2>2, <2>3, <2>4
  <2>6. x % z = x
    BY <2>5, Remainder
  <2>7. Global(p, l)[d] = x
    BY <2>3 DEF Global
  <2> QED BY <2>4, <2>6, <2>7 DEF Wrapped
<1>2. PICK G : G = Global(p, l)
  OBVIOUS
<1>3. PICK W : W = Wrapped(G)
  OBVIOUS
<1>4. G = [d \in Dim |-> G[d]] /\ W = [d \in Dim |-> W[d]]
  BY <1>2, <1>3 DEF Global, Wrapped
<1>5. \A d \in Dim : W[d] = G[d]
  BY <1>1, <1>2, <1>3
<1> QED BY ONLY <1>2, <1>3, <1>4, <1>5

\* l is outside of p's part on the given side, and its index in the halo.
Beyond(p, d, fw, l) == IF fw THEN l[d] >= LocalSize(p, d) ELSE l[d] < 0
HaloIndex(p, d, fw, l) ==
  [e \in Dim |-> IF e = d THEN IF fw THEN l[d] - LocalSize(p, d) ELSE l[d] + HaloWidth(p, d, FALSE)
                 ELSE IF e > d /\ job.diagonal THEN l[e] + HaloWidth(p, e, FALSE)
                 ELSE l[e]]

\* The cell of a halo of p for local index l.
LEMMA InHalo ==
  ASSUME Known, NEW p \in Proc, NEW d \in Dim, NEW fw \in BOOLEAN, NEW r, NEW l,
         Reachable(p, l), d \in Outside(p, l), \A e \in Outside(p, l) : d <= e,
         Beyond(p, d, fw, l)
  PROVE  /\ HaloWidth(p, d, fw) > 0
         /\ Cell(HeldHalo(p, r, d, fw), HaloIndex(p, d, fw, l)) = <<Wrapped(Global(p, l)), r>>
<1>s. PICK s : s = HaloIndex(p, d, fw, l)
  OBVIOUS
<1>1. PICK N \in [Dim -> Nat] : N = [e \in Dim |-> LocalSize(p, e)]
  BY JobFacts
<1>2. PICK F \in [Dim -> Nat] : F = [e \in Dim |-> HaloWidth(p, e, TRUE)]
  BY ExtentFacts
<1>3. PICK B \in [Dim -> Nat] : B = [e \in Dim |-> HaloWidth(p, e, FALSE)]
  BY ExtentFacts
<1>4. \A e \in Dim : /\ N[e] = LocalSize(p, e) /\ N[e] \in Nat
                     /\ F[e] = HaloWidth(p, e, TRUE) /\ F[e] \in Nat
                     /\ B[e] = HaloWidth(p, e, FALSE) /\ B[e] \in Nat
                     /\ e \in Int
  <2>1. \A e \in Dim : N[e] = LocalSize(p, e) /\ N[e] \in Nat
    BY ONLY <1>1
  <2>2. \A e \in Dim : F[e] = HaloWidth(p, e, TRUE) /\ F[e] \in Nat
    BY ONLY <1>2
  <2>3. \A e \in Dim : B[e] = HaloWidth(p, e, FALSE) /\ B[e] \in Nat
    BY ONLY <1>3
  <2>4. \A e \in Dim : e \in Int
    BY DEF Dim
  <2> QED BY ONLY <2>1, <2>2, <2>3, <2>4
<1>5. l \in [Dim -> Int] /\ \A e \in Dim : l[e] \in Int /\ -B[e] <= l[e] /\ l[e] < N[e] + F[e]
  BY <1>4 DEF Reachable, Ahead, Behind
<1>6. /\ s = [e \in Dim |-> s[e]]
      /\ s[d] = IF fw THEN l[d] - N[d] ELSE l[d] + B[d]
      /\ \A e \in Dim : e # d =>
           s[e] = IF e > d /\ job.diagonal THEN l[e] + B[e] ELSE l[e]
  BY <1>4, <1>s DEF HaloIndex
<1>7. HaloWidth(p, d, fw) = IF fw THEN F[d] ELSE B[d]
  <2>1. fw = TRUE \/ fw = FALSE
    OBVIOUS
  <2>2. CASE fw = TRUE
    BY <1>4, <2>2
  <2>3. CASE fw = FALSE
    BY <1>4, <2>3
  <2> QED BY <2>1, <2>2, <2>3
<1>8. HaloWidth(p, d, fw) > 0
  <2>1. /\ N[d] \in Nat /\ F[d] \in Nat /\ B[d] \in Nat /\ l[d] \in Int
        /\ -B[d] <= l[d] /\ l[d] < N[d] + F[d] /\ N[d] = LocalSize(p, d)
    BY ONLY <1>4, <1>5, d \in Dim
  <2>2. IF fw THEN l[d] >= LocalSize(p, d) ELSE l[d] < 0
    BY DEF Beyond
  <2>3. fw => F[d] > 0
    BY ONLY <2>1, <2>2
  <2>4. ~fw => B[d] > 0
    BY ONLY <2>1, <2>2
  <2> QED BY ONLY <1>7, <2>3, <2>4
<1>9. HaloWidth(p, d, fw) = Width(d, fw)
  BY <1>8 DEF HaloWidth
<1>10. PICK E \in Widths : E = FullExtent(p, d, fw)
  BY ExtentFacts
<1>11. /\ E[d] = IF fw THEN F[d] ELSE B[d]
       /\ \A e \in Dim : e # d =>
            E[e] = IF job.diagonal /\ e > d THEN N[e] + F[e] + B[e] ELSE N[e]
  <2>1. E[d] = Width(d, fw)
    BY <1>10 DEF FullExtent
  <2>2. ASSUME NEW e \in Dim, e # d
        PROVE  E[e] = IF job.diagonal /\ e > d
                      THEN LocalSize(p, e) + HaloWidth(p, e, TRUE) + HaloWidth(p, e, FALSE)
                      ELSE LocalSize(p, e)
    BY <1>10, <2>2 DEF FullExtent
  <2>3. ASSUME NEW e \in Dim, e # d
        PROVE  E[e] = IF job.diagonal /\ e > d THEN N[e] + F[e] + B[e] ELSE N[e]
    <3>1. /\ N[e] = LocalSize(p, e) /\ F[e] = HaloWidth(p, e, TRUE)
          /\ B[e] = HaloWidth(p, e, FALSE)
      BY <1>4
    <3> QED BY ONLY <2>2, <2>3, <3>1
  <2> QED BY <1>7, <1>9, <2>1, <2>3
<1>12. \A e \in Dim : e # d /\ (e < d \/ ~job.diagonal) => 0 <= l[e] /\ l[e] < N[e]
  <2>1. SUFFICES ASSUME NEW e \in Dim, e # d, e < d \/ ~job.diagonal, e \in Outside(p, l)
                 PROVE  FALSE
    <3>1. SUFFICES ASSUME NEW e \in Dim, e \notin Outside(p, l)
                   PROVE  0 <= l[e] /\ l[e] < N[e]
      OBVIOUS
    <3>2. N[e] = LocalSize(p, e) /\ N[e] \in Nat /\ l[e] \in Int
      BY ONLY <1>4, <1>5, e \in Dim
    <3>3. ~(l[e] < 0) /\ ~(l[e] >= LocalSize(p, e))
      BY ONLY <3>1, e \in Dim DEF Outside
    <3> QED BY ONLY <3>2, <3>3
  <2>2. d <= e /\ d \in Int /\ e \in Int
    BY <1>4, <2>1
  <2> QED BY <2>1, <2>2 DEF Reachable
<1>13. ASSUME NEW e \in Dim PROVE s[e] \in Int /\ 0 <= s[e] /\ s[e] < E[e]
  <2>1. /\ N[e] \in Nat /\ F[e] \in Nat /\ B[e] \in Nat /\ l[e] \in Int /\ e \in Int /\ d \in Int
        /\ -B[e] <= l[e] /\ l[e] < N[e] + F[e]
    BY <1>4, <1>5
  <2>2. CASE e = d
    <3>1. IF fw THEN l[d] >= LocalSize(p, d) ELSE l[d] < 0
      BY DEF Beyond
    <3>2. N[d] = LocalSize(p, d)
      BY <1>4
    <3>3. CASE fw
      <4>1. s[d] = l[d] - N[d] /\ E[d] = F[d] /\ l[d] >= N[d]
        BY ONLY <1>6, <1>11, <3>1, <3>2, <3>3
      <4> QED BY ONLY <2>1, <2>2, <4>1
    <3>4. CASE ~fw
      <4>1. s[d] = l[d] + B[d] /\ E[d] = B[d] /\ l[d] < 0
        BY ONLY <1>6, <1>11, <3>1, <3>4
      <4> QED BY ONLY <2>1, <2>2, <4>1
    <3> QED BY <3>3, <3>4
  <2>3. CASE e # d
    <3>1. s[e] = IF e > d /\ job.diagonal THEN l[e] + B[e] ELSE l[e]
      BY <1>6, <2>3
    <3>2. E[e] = IF job.diagonal /\ e > d THEN N[e] + F[e] + B[e] ELSE N[e]
      BY <1>11, <2>3
    <3>3. ~(e > d /\ job.diagonal) => 0 <= l[e] /\ l[e] < N[e]
      BY <1>12, <2>1, <2>3
    <3> QED BY ONLY <2>1, <3>1, <3>2, <3>3
  <2> QED BY <2>2, <2>3
<1>14. s \in Box(E)
  <2>1. s \in [Dim -> Int]
    BY <1>6, <1>13
  <2> QED BY <1>13, <2>1, BoxIs
<1>15. PICK x \in Int : x = IF fw THEN LocalSize(p, d) ELSE -Width(d, fw)
  <2>1. LocalSize(p, d) \in Int /\ Width(d, fw) \in Int
    BY JobFacts, ExtentFacts
  <2> QED BY <2>1
<1>16. x = IF fw THEN N[d] ELSE -B[d]
  BY <1>4, <1>7, <1>9, <1>15
<1>17. Back(p, d, x, s) = l
  <2>1. PICK K : K = Back(p, d, x, s)
    OBVIOUS
  <2>2. /\ K = [e \in Dim |-> K[e]]
        /\ K[d] = s[d] + x
        /\ \A e \in Dim : e # d =>
             K[e] = IF job.diagonal /\ e > d THEN s[e] - B[e] ELSE s[e]
    BY <1>4, <2>1 DEF Back
  <2>3. ASSUME NEW e \in Dim PROVE K[e] = l[e]
    <3>1. N[e] \in Nat /\ B[e] \in Nat /\ l[e] \in Int
      BY <1>4, <1>5
    <3>2. CASE e = d
      <4>1. /\ s[d] = IF fw THEN l[d] - N[d] ELSE l[d] + B[d]
            /\ x = IF fw THEN N[d] ELSE -B[d]
            /\ K[d] = s[d] + x
        BY <1>6, <1>16, <2>2
      <4>2. N[d] \in Nat /\ B[d] \in Nat /\ l[d] \in Int
        BY <3>1, <3>2
      <4>3. K[d] = l[d]
        BY ONLY <4>1, <4>2
      <4> QED BY <3>2, <4>3
    <3>3. CASE e # d
      <4>1. /\ K[e] = IF job.diagonal /\ e > d THEN s[e] - B[e] ELSE s[e]
            /\ s[e] = IF e > d /\ job.diagonal THEN l[e] + B[e] ELSE l[e]
        BY <1>6, <2>2, <3>3
      <4> QED BY ONLY <3>1, <4>1
    <3> QED BY <3>2, <3>3
  <2> QED BY <1>5, <2>1, <2>2, <2>3
<1>18. HeldHalo(p, r, d, fw) = Points(p, r, d, fw, x)
  BY <1>15 DEF HeldHalo
<1>19. Cell(Points(p, r, d, fw, x), s) = <<Wrapped(Global(p, l)), r>>
  BY <1>10, <1>14, <1>17 DEF Points, Cell
<1> QED BY <1>s, <1>8, <1>18, <1>19

\* A point that can be reached over halos that are complete is found.
LEMMA Found ==
  ASSUME Known, WithinSpace, NEW p \in Proc, ~Empty(p), NEW d \in Int, NEW h,
         Complete(p, h, round[p], d), NEW l, Reachable(p, l), \A e \in Outside(p, l) : e > d
  PROVE  Lookup(p, h, l) = <<Wrapped(Global(p, l)), round[p]>>
<1>1. l \in [Dim -> Int]
  BY DEF Reachable
<1>2. CASE Outside(p, l) = {}
  BY <1>1, <1>2, OwnPoint DEF Lookup, Content
<1>3. CASE Outside(p, l) # {}
  <2>1. PICK c : c = Min(Outside(p, l))
    OBVIOUS
  <2>2. c \in Outside(p, l) /\ \A e \in Outside(p, l) : c <= e
    <3>1. Outside(p, l) \in SUBSET Dim
      BY DEF Outside
    <3> QED BY <1>3, <2>1, <3>1, FirstDim
  <2>3. c \in Dim /\ c > d /\ \A e \in Dim : e > c => e > d
    BY <2>2, HaloAssumption DEF Outside, Dim
  <2>4. PICK s : s = [e \in Dim |-> IF e > c /\ h.diagonal THEN l[e] + h.bwWidth[e] ELSE l[e]]
    OBVIOUS
  <2>5. Lookup(p, h, l) = IF l[c] < 0 THEN Cell(h.bw[c], [s EXCEPT ![c] = @ + h.bwWidth[c]])
                          ELSE Cell(h.fw[c], [s EXCEPT ![c] = @ - LocalSize(p, c)])
    BY <1>3, <2>1, <2>4 DEF Lookup
  <2>6. s[c] = l[c]
    BY <2>3, <2>4 DEF Dim
  <2>7. CASE l[c] < 0
    <3>1. PICK t : t = HaloIndex(p, c, FALSE, l)
      OBVIOUS
    <3>2. /\ HaloWidth(p, c, FALSE) > 0
          /\ Cell(HeldHalo(p, round[p], c, FALSE), t) = <<Wrapped(Global(p, l)), round[p]>>
      <4>1. PICK fw \in BOOLEAN : fw = FALSE
        OBVIOUS
      <4>2. Beyond(p, c, fw, l) /\ t = HaloIndex(p, c, fw, l)
        BY <2>7, <3>1, <4>1 DEF Beyond
      <4>3. /\ HaloWidth(p, c, fw) > 0
            /\ Cell(HeldHalo(p, round[p], c, fw), t) = <<Wrapped(Global(p, l)), round[p]>>
        BY <2>2, <2>3, <4>2, InHalo
      <4> QED BY <4>1, <4>3
    <3>3. h.diagonal = job.diagonal /\ h.bw[c] = HeldHalo(p, round[p], c, FALSE)
      BY <2>3, <3>2 DEF Complete
    <3>4. \A e \in Dim : e > d => h.bwWidth[e] = HaloWidth(p, e, FALSE)
      BY DEF Complete
    <3>5. PICK u : u = [s EXCEPT ![c] = @ + h.bwWidth[c]]
      OBVIOUS
    <3>6. u = t
      <4>1. /\ u = [e \in Dim |-> u[e]] /\ t = [e \in Dim |-> t[e]]
        BY ONLY <2>4, <3>1, <3>5 DEF HaloIndex
      <4>2. ASSUME NEW e \in Dim PROVE u[e] = t[e]
        <5>1. CASE e = c
          BY ONLY <2>3, <2>4, <2>6, <3>1, <3>4, <3>5, <5>1 DEF HaloIndex
        <5>2. CASE e # c
          <6>1. u[e] = s[e]
            BY ONLY <2>4, <3>5, <5>2, e \in Dim
          <6>2. s[e] = IF e > c /\ h.diagonal THEN l[e] + h.bwWidth[e] ELSE l[e]
            BY ONLY <2>4, e \in Dim
          <6>3. t[e] = IF e > c /\ job.diagonal THEN l[e] + HaloWidth(p, e, FALSE) ELSE l[e]
            BY ONLY <3>1, <5>2, e \in Dim DEF HaloIndex
          <6> QED BY ONLY <2>3, <3>3, <3>4, <6>1, <6>2, <6>3, e \in Dim
        <5> QED BY <5>1, <5>2
      <4> QED BY ONLY <4>1, <4>2
    <3> QED BY ONLY <2>5, <2>7, <3>2, <3>3, <3>5, <3>6
  <2>8. CASE ~(l[c] < 0)
    <3>1. PICK t : t = HaloIndex(p, c, TRUE, l)
      OBVIOUS
    <3>2. Beyond(p, c, TRUE, l)
      BY <2>2, <2>8 DEF Outside, Beyond
    <3>3. /\ HaloWidth(p, c, TRUE) > 0
          /\ Cell(HeldHalo(p, round[p], c, TRUE), t) = <<Wrapped(Global(p, l)), round[p]>>
      <4>1. PICK fw \in BOOLEAN : fw = TRUE
        OBVIOUS
      <4>2. Beyond(p, c, fw, l) /\ t = HaloIndex(p, c, fw, l)
        BY <3>1, <3>2, <4>1
      <4>3. /\ HaloWidth(p, c, fw) > 0
            /\ Cell(HeldHalo(p, round[p], c, fw), t) = <<Wrapped(Global(p, l)), round[p]>>
        BY <2>2, <2>3, <4>2, InHalo
      <4> QED BY <4>1, <4>3
    <3>4. h.diagonal = job.diagonal /\ h.fw[c] = HeldHalo(p, round[p], c, TRUE)
      BY <2>3, <3>3 DEF Complete
    <3>5. \A e \in Dim : e > d => h.bwWidth[e] = HaloWidth(p, e, FALSE)
      BY DEF Complete
    <3>6. PICK u : u = [s EXCEPT ![c] = @ - LocalSize(p, c)]
      OBVIOUS
    <3>7. u = t
      <4>1. /\ u = [e \in Dim |-> u[e]] /\ t = [e \in Dim |-> t[e]]
        BY ONLY <2>4, <3>1, <3>6 DEF HaloIndex
      <4>2. ASSUME NEW e \in Dim PROVE u[e] = t[e]
        <5>1. CASE e = c
          BY ONLY <2>3, <2>4, <2>6, <3>1, <3>6, <5>1 DEF HaloIndex
        <5>2. CASE e # c
          <6>1. u[e] = s[e]
            BY ONLY <2>4, <3>6, <5>2, e \in Dim
          <6>2. s[e] = IF e > c /\ h.diagonal THEN l[e] + h.bwWidth[e] ELSE l[e]
            BY ONLY <2>4, e \in Dim
          <6>3. t[e] = IF e > c /\ job.diagonal THEN l[e] + HaloWidth(p, e, FALSE) ELSE l[e]
            BY ONLY <3>1, <5>2, e \in Dim DEF HaloIndex
          <6> QED BY ONLY <2>3, <3>4, <3>5, <6>1, <6>2, <6>3, e \in Dim
        <5> QED BY <5>1, <5>2
      <4> QED BY ONLY <4>1, <4>2
    <3> QED BY ONLY <2>5, <2>8, <3>3, <3>4, <3>6, <3>7
  <2> QED BY <2>7, <2>8
<1> QED BY <1>2, <1>3

\* The extents of a halo, when the widths of the later dimensions are there.
Sized(p, h, d) ==
  \A e \in Dim : e > d =>
    h.fwWidth[e] = HaloWidth(p, e, TRUE) /\ h.bwWidth[e] = HaloWidth(p, e, FALSE)

LEMMA ExtentIs ==
  ASSUME Known, NEW p \in Proc, NEW d \in Dim, NEW fw \in BOOLEAN, NEW h, Sized(p, h, d)
  PROVE  HaloExtent(p, h, d, Width(d, fw)) = FullExtent(p, d, fw)
<1>1. PICK w : w = Width(d, fw)
  OBVIOUS
<1>2. PICK H : H = HaloExtent(p, h, d, w)
  OBVIOUS
<1>3. PICK E : E = FullExtent(p, d, fw)
  OBVIOUS
<1>4. /\ H = [e \in Dim |-> H[e]]
      /\ \A e \in Dim : H[e] = IF e = d THEN w
                               ELSE IF job.diagonal /\ e > d
                               THEN LocalSize(p, e) + h.fwWidth[e] + h.bwWidth[e]
                               ELSE LocalSize(p, e)
  BY ONLY <1>2 DEF HaloExtent
<1>5. /\ E = [e \in Dim |-> E[e]]
      /\ \A e \in Dim : E[e] = IF e = d THEN w
                               ELSE IF job.diagonal /\ e > d
                               THEN LocalSize(p, e) + HaloWidth(p, e, TRUE) + HaloWidth(p, e, FALSE)
                               ELSE LocalSize(p, e)
  BY ONLY <1>1, <1>3 DEF FullExtent
<1>6. \A e \in Dim : H[e] = E[e]
  BY ONLY <1>4, <1>5, Sized(p, h, d) DEF Sized
<1> QED BY ONLY <1>1, <1>2, <1>3, <1>4, <1>5, <1>6

\* What a process copies out, when it has the halos of the later dimensions.
LEMMA SlabIs ==
  ASSUME Known, WithinSpace, NEW p \in Proc, ~Empty(p), NEW d \in Dim, NEW fw \in BOOLEAN, NEW h,
         Complete(p, h, round[p], d)
  PROVE  Slab(p, h, d, Width(d, fw), fw) = SentSlab(p, round[p], d, fw)
<1>1. PICK N \in [Dim -> Nat] : N = [e \in Dim |-> LocalSize(p, e)]
  BY JobFacts
<1>2. PICK F \in [Dim -> Nat] : F = [e \in Dim |-> HaloWidth(p, e, TRUE)]
  BY ExtentFacts
<1>3. PICK B \in [Dim -> Nat] : B = [e \in Dim |-> HaloWidth(p, e, FALSE)]
  BY ExtentFacts
<1>4. \A e \in Dim : /\ N[e] = LocalSize(p, e) /\ N[e] \in Nat
                     /\ F[e] = HaloWidth(p, e, TRUE) /\ F[e] \in Nat
                     /\ B[e] = HaloWidth(p, e, FALSE) /\ B[e] \in Nat
                     /\ e \in Int
  <2>1. \A e \in Dim : N[e] = LocalSize(p, e) /\ N[e] \in Nat
    BY ONLY <1>1
  <2>2. \A e \in Dim : F[e] = HaloWidth(p, e, TRUE) /\ F[e] \in Nat
    BY ONLY <1>2
  <2>3. \A e \in Dim : B[e] = HaloWidth(p, e, FALSE) /\ B[e] \in Nat
    BY ONLY <1>3
  <2>4. \A e \in Dim : e \in Int
    BY DEF Dim
  <2> QED BY ONLY <2>1, <2>2, <2>3, <2>4
<1>5. \A e \in Dim : e > d => h.fwWidth[e] = F[e] /\ h.bwWidth[e] = B[e]
  BY <1>4 DEF Complete
<1>6. PICK w \in Nat : w = Width(d, fw)
  BY ExtentFacts
<1>7. w <= N[d] /\ N[d] > 0
  <2>1. LocalSize(p, d) # 0
    BY DEF Empty
  <2>2. w = job.fwWidth[d] \/ w = job.bwWidth[d]
    BY <1>6 DEF Width
  <2>3. job.fwWidth[d] <= LocalSize(p, d) /\ job.bwWidth[d] <= LocalSize(p, d)
    BY <2>1, JobFacts
  <2>4. w <= LocalSize(p, d)
    BY <2>2, <2>3
  <2>5. N[d] = LocalSize(p, d) /\ N[d] \in Nat
    BY <1>4
  <2> QED BY ONLY <1>6, <2>1, <2>4, <2>5
<1>8. PICK E \in Widths : E = FullExtent(p, d, fw)
  BY ExtentFacts
<1>9. \A e \in Dim : E[e] = IF e = d THEN w
                            ELSE IF job.diagonal /\ e > d THEN N[e] + F[e] + B[e] ELSE N[e]
  <2>1. \A e \in Dim : E[e] = IF e = d THEN w
                              ELSE IF job.diagonal /\ e > d
                              THEN LocalSize(p, e) + HaloWidth(p, e, TRUE) + HaloWidth(p, e, FALSE)
                              ELSE LocalSize(p, e)
    BY ONLY <1>6, <1>8 DEF FullExtent
  <2> QED BY ONLY <1>4, <2>1
<1>10. HaloExtent(p, h, d, w) = E
  <2>1. Sized(p, h, d)
    BY DEF Complete, Sized
  <2> QED BY <1>6, <1>8, <2>1, ExtentIs
<1>11. PICK x \in Int : x = IF fw THEN 0 ELSE LocalSize(p, d) - w
  <2>1. LocalSize(p, d) \in Int
    BY JobFacts
  <2> QED BY <2>1
<1>12. ASSUME NEW l \in Box(E)
       PROVE  LET s == [e \in Dim |->
                          IF e = d THEN (IF fw THEN l[e] ELSE l[e] + LocalSize(p, e) - w)
                          ELSE IF job.diagonal /\ e > d THEN l[e] - h.bwWidth[e] ELSE l[e]]
              IN  (IF s[d] \in 0 .. LocalSize(p, d) - 1 THEN Lookup(p, h, s) ELSE Garbage)
                  = <<Wrapped(Global(p, Back(p, d, x, l))), round[p]>>
  <2>1. PICK s : s = [e \in Dim |->
                        IF e = d THEN (IF fw THEN l[e] ELSE l[e] + LocalSize(p, e) - w)
                        ELSE IF job.diagonal /\ e > d THEN l[e] - h.bwWidth[e] ELSE l[e]]
    OBVIOUS
  <2>2. l \in [Dim -> Int] /\ \A e \in Dim : l[e] \in Int /\ 0 <= l[e] /\ l[e] < E[e]
    BY BoxIs
  <2>3. /\ s = [e \in Dim |-> s[e]]
        /\ s[d] = l[d] + x
        /\ \A e \in Dim : e # d =>
             s[e] = IF job.diagonal /\ e > d THEN l[e] - B[e] ELSE l[e]
    <3>1. s = [e \in Dim |-> s[e]]
      BY ONLY <2>1
    <3>2. s[d] = IF fw THEN l[d] ELSE l[d] + LocalSize(p, d) - w
      BY ONLY <2>1, d \in Dim
    <3>3. s[d] = l[d] + x
      <4>1. LocalSize(p, d) \in Int /\ l[d] \in Int
        BY <2>2, JobFacts
      <4> QED BY ONLY <1>6, <1>11, <3>2, <4>1
    <3>4. \A e \in Dim : e # d =>
            s[e] = IF job.diagonal /\ e > d THEN l[e] - h.bwWidth[e] ELSE l[e]
      BY ONLY <2>1
    <3> QED BY ONLY <1>5, <3>1, <3>3, <3>4
  <2>4. s[d] \in Int /\ 0 <= s[d] /\ s[d] < N[d]
    <3>1. l[d] \in Int /\ 0 <= l[d] /\ l[d] < w /\ N[d] \in Nat /\ N[d] = LocalSize(p, d)
      BY <1>4, <1>9, <2>2
    <3> QED BY ONLY <1>6, <1>7, <1>11, <2>3, <3>1
  <2>5. \A e \in Dim : s[e] \in Int
    BY ONLY <1>4, <2>2, <2>3, <2>4
  <2>6. \A e \in Dim : e # d => IF job.diagonal /\ e > d
                                THEN -B[e] <= s[e] /\ s[e] < N[e] + F[e]
                                ELSE 0 <= s[e] /\ s[e] < N[e]
    <3>1. SUFFICES ASSUME NEW e \in Dim, e # d
                   PROVE  IF job.diagonal /\ e > d
                          THEN -B[e] <= s[e] /\ s[e] < N[e] + F[e]
                          ELSE 0 <= s[e] /\ s[e] < N[e]
      OBVIOUS
    <3>2. /\ s[e] = IF job.diagonal /\ e > d THEN l[e] - B[e] ELSE l[e]
          /\ E[e] = IF job.diagonal /\ e > d THEN N[e] + F[e] + B[e] ELSE N[e]
          /\ l[e] \in Int /\ 0 <= l[e] /\ l[e] < E[e]
          /\ N[e] \in Nat /\ F[e] \in Nat /\ B[e] \in Nat
      BY ONLY <1>4, <1>9, <2>2, <2>3, <3>1, e \in Dim
    <3> QED BY ONLY <3>2
  <2>7. \A e \in Outside(p, s) : e > d /\ job.diagonal
    <3>1. SUFFICES ASSUME NEW e \in Outside(p, s) PROVE e > d /\ job.diagonal
      OBVIOUS
    <3>2. e \in Dim /\ (s[e] < 0 \/ s[e] >= N[e])
      BY <1>4 DEF Outside
    <3>3. e # d
      BY ONLY <1>4, <2>4, <3>2, d \in Dim
    <3> QED BY ONLY <1>4, <2>5, <2>6, <3>2, <3>3
  <2>8. Reachable(p, s)
    <3>1. s \in [Dim -> Int]
      BY ONLY <2>3, <2>5
    <3>2. ASSUME NEW e \in Dim PROVE -B[e] <= s[e] /\ s[e] < N[e] + F[e]
      <4>1. N[e] \in Nat /\ F[e] \in Nat /\ B[e] \in Nat /\ s[e] \in Int
        BY <1>4, <2>5
      <4>2. CASE e = d
        BY ONLY <2>4, <4>1, <4>2
      <4>3. CASE e # d
        BY ONLY <2>6, <4>1, <4>3, e \in Dim
      <4> QED BY <4>2, <4>3
    <3>3. ASSUME NEW e \in Dim
          PROVE  -Behind(p, e) <= s[e] /\ s[e] < LocalSize(p, e) + Ahead(p, e)
      <4>1. N[e] = LocalSize(p, e) /\ F[e] = Ahead(p, e) /\ B[e] = Behind(p, e)
        BY <1>4 DEF Ahead, Behind
      <4> QED BY ONLY <3>2, <4>1, e \in Dim
    <3>4. ~job.diagonal => \A e, f \in Outside(p, s) : e = f
      BY ONLY <2>7
    <3> QED BY ONLY <3>1, <3>3, <3>4 DEF Reachable
  <2>9. Lookup(p, h, s) = <<Wrapped(Global(p, s)), round[p]>>
    <3>1. d \in Int
      BY <1>4
    <3>2. \A e \in Outside(p, s) : e > d
      BY <2>7
    <3> QED BY <2>8, <3>1, <3>2, Found
  <2>10. Back(p, d, x, l) = s
    <3>1. PICK K : K = Back(p, d, x, l)
      OBVIOUS
    <3>2. /\ K = [e \in Dim |-> K[e]]
          /\ \A e \in Dim :
               K[e] = IF e = d THEN l[e] + x
                      ELSE IF job.diagonal /\ e > d THEN l[e] - HaloWidth(p, e, FALSE) ELSE l[e]
      BY ONLY <3>1 DEF Back
    <3>3. \A e \in Dim : K[e] = s[e]
      BY ONLY <1>4, <2>3, <3>2
    <3> QED BY ONLY <2>3, <3>1, <3>2, <3>3
  <2>11. s[d] \in 0 .. LocalSize(p, d) - 1
    <3>1. N[d] = LocalSize(p, d) /\ N[d] \in Nat
      BY <1>4
    <3> QED BY ONLY <2>4, <3>1
  <2> QED BY ONLY <2>1, <2>9, <2>10, <2>11
<1>13. SentSlab(p, round[p], d, fw) = Points(p, round[p], d, fw, x)
  BY <1>6, <1>11 DEF SentSlab
<1>14. Slab(p, h, d, w, fw) = [l \in Box(E) |-> <<Wrapped(Global(p, Back(p, d, x, l))), round[p]>>]
  BY ONLY <1>10, <1>12 DEF Slab
<1> QED BY <1>6, <1>8, <1>13, <1>14 DEF Points

\* What the kernel reads, when the halos are complete.
LEMMA ReadIs ==
  ASSUME Known, WithinSpace, NDims = PS_MAX_DIM, NEW p \in Proc, ~Empty(p),
         Complete(p, halo[p], round[p], 0),
         NEW l \in LocalBox(p), NEW o \in job.stencil, NEW x,
         x = Wrapped([d \in Dim |-> Global(p, l)[d] + o[d]]), InsideOf(x)
  PROVE  StencilRead(p, l, o) = <<x, round[p]>>
<1>1. PICK k : k = [d \in Dim |-> l[d] + o[d]]
  OBVIOUS
<1>2. l \in [Dim -> Int] /\ \A d \in Dim : 0 <= l[d] /\ l[d] < LocalSize(p, d)
  <2>1. PICK E : E = [d \in Dim |-> LocalSize(p, d)]
    OBVIOUS
  <2>2. E \in Widths
    BY <2>1, JobFacts DEF Widths
  <2>3. l \in Box(E)
    BY <2>1 DEF LocalBox
  <2> QED BY <2>1, <2>2, <2>3, BoxIs
<1>3. /\ o \in [Dim -> Int]
      /\ \A d \in Dim : -job.bwWidth[d] <= o[d] /\ o[d] <= job.fwWidth[d]
      /\ ~job.diagonal => \A d, e \in Dim : d # e => o[d] = 0 \/ o[e] = 0
      /\ job.fwWidth \in [Dim -> Nat] /\ job.bwWidth \in [Dim -> Nat]
      /\ job.size \in [Dim -> Nat]
  BY JobFacts DEF Widths
<1>4. k \in [Dim -> Int] /\ \A d \in Dim : k[d] = l[d] + o[d]
  BY ONLY <1>1, <1>2, <1>3
<1>5. x = Wrapped(Global(p, k))
  <2>1. PICK g : g = [d \in Dim |-> Global(p, l)[d] + o[d]]
    OBVIOUS
  <2>2. PICK f : f = Global(p, k)
    OBVIOUS
  <2>3. g = [d \in Dim |-> g[d]] /\ f = [d \in Dim |-> f[d]]
    BY <2>1, <2>2 DEF Global
  <2>4. ASSUME NEW d \in Dim PROVE g[d] = f[d]
    <3>1. g[d] = l[d] + LocalOffset(p, d) + o[d] /\ f[d] = k[d] + LocalOffset(p, d)
      BY <2>1, <2>2 DEF Global
    <3>2. l[d] \in Int /\ o[d] \in Int /\ LocalOffset(p, d) \in Int /\ k[d] = l[d] + o[d]
      BY <1>2, <1>3, <1>4, JobFacts
    <3> QED BY ONLY <3>1, <3>2
  <2>5. g = f
    BY ONLY <2>3, <2>4
  <2> QED BY <2>1, <2>2, <2>5
<1>6. CASE \A d \in Dim : o[d] = 0
  <2>1. k = l
    BY ONLY <1>2, <1>3, <1>4, <1>6
  <2>2. Outside(p, l) = {}
    BY <1>2, JobFacts DEF Outside
  <2>3. Wrapped(Global(p, l)) = Global(p, l)
    BY <1>2, <2>2, OwnPoint
  <2> QED BY <1>5, <1>6, <2>1, <2>3 DEF StencilRead, Content
<1>7. CASE ~(\A d \in Dim : o[d] = 0)
  <2>1. \A d \in Outside(p, k) : d \in Dim /\ o[d] # 0
    <3>1. SUFFICES ASSUME NEW d \in Dim, d \in Outside(p, k) PROVE o[d] # 0
      BY DEF Outside
    <3>2. k[d] < 0 \/ k[d] >= LocalSize(p, d)
      BY <3>1 DEF Outside
    <3>3. /\ l[d] \in Int /\ o[d] \in Int /\ k[d] = l[d] + o[d]
          /\ 0 <= l[d] /\ l[d] < LocalSize(p, d) /\ LocalSize(p, d) \in Int
      BY <1>2, <1>3, <1>4, JobFacts
    <3> QED BY ONLY <3>2, <3>3
  <2>2. ASSUME NEW d \in Dim
        PROVE  -Behind(p, d) <= k[d] /\ k[d] < LocalSize(p, d) + Ahead(p, d)
    <3>1. /\ l[d] \in Int /\ o[d] \in Int /\ k[d] = l[d] + o[d]
          /\ 0 <= l[d] /\ l[d] < LocalSize(p, d)
          /\ -job.bwWidth[d] <= o[d] /\ o[d] <= job.fwWidth[d]
          /\ job.bwWidth[d] \in Nat /\ job.fwWidth[d] \in Nat /\ job.size[d] \in Nat
      BY <1>2, <1>3, <1>4
    <3>2. LocalSize(p, d) \in Nat /\ LocalOffset(p, d) \in Nat /\ job.periodic \in BOOLEAN
      BY JobFacts
    <3>3. ~job.periodic =>
            0 <= k[d] + LocalOffset(p, d) /\ k[d] + LocalOffset(p, d) < job.size[d]
      <4>1. ~job.periodic => x[d] = k[d] + LocalOffset(p, d)
        BY <1>5 DEF Wrapped, Global
      <4> QED BY <4>1 DEF InsideOf
    <3>4. -Behind(p, d) <= k[d]
      <4>1. CASE k[d] >= 0
        <5>1. Behind(p, d) = 0 \/ Behind(p, d) = job.bwWidth[d]
          BY DEF HaloWidth, Width, Behind
        <5> QED BY ONLY <3>1, <4>1, <5>1
      <4>2. CASE k[d] < 0
        <5>1. job.bwWidth[d] > 0 /\ -job.bwWidth[d] <= k[d]
          BY ONLY <3>1, <4>2
        <5>2. HasBw(p, d)
          BY ONLY <3>1, <3>2, <3>3, <4>2 DEF HasBw
        <5>3. Behind(p, d) = job.bwWidth[d]
          BY <5>1, <5>2 DEF HaloWidth, Width, Borders, Behind
        <5> QED BY ONLY <5>1, <5>3
      <4> QED BY <3>1, <4>1, <4>2
    <3>5. k[d] < LocalSize(p, d) + Ahead(p, d)
      <4>1. CASE k[d] < LocalSize(p, d)
        <5>1. Ahead(p, d) = 0 \/ Ahead(p, d) = job.fwWidth[d]
          BY DEF HaloWidth, Width, Ahead
        <5> QED BY ONLY <3>1, <3>2, <4>1, <5>1
      <4>2. CASE k[d] >= LocalSize(p, d)
        <5>1. job.fwWidth[d] > 0 /\ k[d] < LocalSize(p, d) + job.fwWidth[d]
          BY ONLY <3>1, <3>2, <4>2
        <5>2. HasFw(p, d)
          BY ONLY <3>1, <3>2, <3>3, <4>2 DEF HasFw
        <5>3. Ahead(p, d) = job.fwWidth[d]
          BY <5>1, <5>2 DEF HaloWidth, Width, Borders, Ahead
        <5> QED BY ONLY <5>1, <5>3
      <4> QED BY <3>1, <3>2, <4>1, <4>2
    <3> QED BY <3>4, <3>5
  <2>3. ~job.diagonal => \A d, e \in Outside(p, k) : d = e
    BY ONLY <1>3, <2>1
  <2>4. Reachable(p, k)
    BY ONLY <1>4, <2>2, <2>3 DEF Reachable
  <2>5. \A e \in Outside(p, k) : e > 0
    BY <2>1 DEF Dim
  <2>6. Lookup(p, halo[p], k) = <<Wrapped(Global(p, k)), round[p]>>
    BY <2>4, <2>5, Found
  <2>7. StencilRead(p, l, o) = GetAddr(p, k)
    BY <1>1, <1>7 DEF StencilRead
  <2>8. GetAddr(p, k) = Lookup(p, halo[p], k)
    BY HaloAssumption DEF GetAddr
  <2> QED BY <1>5, <2>6, <2>7, <2>8
<1> QED BY <1>6, <1>7

-----------------------------------------------------------------------------
(* Types.                                                                   *)

\* The contents of slabs and halos are points.
LEMMA PointsTyped ==
  ASSUME Known, WithinSpace, NEW p \in Proc, NEW r \in Nat, NEW d \in Dim, NEW fw \in BOOLEAN,
         NEW x \in Int
  PROVE  /\ Points(p, r, d, fw, x) \in Slabs
         /\ \A l \in DOMAIN Points(p, r, d, fw, x) :
              Points(p, r, d, fw, x)[l] \in [Dim -> Int] \X Nat
<1>1. PICK E \in Widths : E = FullExtent(p, d, fw)
  BY ExtentFacts
<1>2. \A l \in Box(E) : l \in [Dim -> Int]
  BY BoxIs
<1>3. ASSUME NEW l \in Box(E) PROVE Wrapped(Global(p, Back(p, d, x, l))) \in [Dim -> Int]
  <2>1. PICK b : b = Back(p, d, x, l)
    OBVIOUS
  <2>2. b = [e \in Dim |-> b[e]] /\ \A e \in Dim : b[e] \in Int
    <3>1. b = [e \in Dim |-> b[e]]
      BY <2>1 DEF Back
    <3>2. ASSUME NEW e \in Dim PROVE b[e] \in Int
      <4>1. PICK w \in Nat : w = HaloWidth(p, e, FALSE)
        BY ExtentFacts
      <4>2. l[e] \in Int
        BY <1>2
      <4>3. b[e] = l[e] + x \/ b[e] = l[e] - w \/ b[e] = l[e]
        BY <2>1, <4>1 DEF Back
      <4>4. PICK i \in Int : i = l[e]
        BY <4>2
      <4>5. i + x \in Int /\ i - w \in Int
        OBVIOUS
      <4> QED BY ONLY <4>3, <4>4, <4>5
    <3> QED BY <3>1, <3>2
  <2>3. PICK g : g = Global(p, b)
    OBVIOUS
  <2>4. \A e \in Dim : g[e] \in Int
    <3>1. \A e \in Dim : LocalOffset(p, e) \in Int
      BY JobFacts
    <3> QED BY <2>2, <2>3, <3>1 DEF Global
  <2>5. ASSUME NEW e \in Dim, job.periodic PROVE job.size[e] \in Nat \ {0}
    <3>1. ~Empty(p)
      BY <2>5, JobFacts DEF Empty
    <3>2. /\ LocalOffset(p, e) + LocalSize(p, e) <= job.size[e]
          /\ LocalSize(p, e) # 0 /\ LocalSize(p, e) \in Nat /\ LocalOffset(p, e) \in Nat
          /\ job.size \in [Dim -> Nat]
      BY <2>5, <3>1, JobFacts, Neighbours
    <3> QED BY <3>2
  <2>6. ASSUME NEW e \in Dim, job.periodic PROVE g[e] % job.size[e] \in Int
    <3>1. PICK z \in Nat \ {0} : z = job.size[e]
      BY <2>5, <2>6
    <3>2. PICK i \in Int : i = g[e]
      BY <2>4
    <3>3. i % z \in Int
      OBVIOUS
    <3> QED BY <3>1, <3>2, <3>3
  <2>7. Wrapped(g) \in [Dim -> Int]
    BY <2>4, <2>6 DEF Wrapped
  <2> QED BY <2>1, <2>3, <2>7
<1>4. PICK P : P = Points(p, r, d, fw, x)
  OBVIOUS
<1>5. P = [l \in Box(E) |-> <<Wrapped(Global(p, Back(p, d, x, l))), r>>]
  BY <1>1, <1>4 DEF Points
<1>6. \A l \in Box(E) : P[l] \in [Dim -> Int] \X Nat
  BY <1>3, <1>5
<1>7. P \in [Box(E) -> Value]
  BY <1>5, <1>6 DEF Value
<1>8. Box(E) \in SUBSET [Dim -> Int]
  BY <1>2
<1> QED BY <1>4, <1>5, <1>6, <1>7, <1>8 DEF Slabs

LEMMA SlabsTyped ==
  ASSUME Known, WithinSpace, NEW p \in Proc, NEW r \in Nat, NEW d \in Dim, NEW fw \in BOOLEAN
  PROVE  /\ SentSlab(p, r, d, fw) \in Slabs /\ HeldHalo(p, r, d, fw) \in Slabs
         /\ \A l \in DOMAIN SentSlab(p, r, d, fw) :
              SentSlab(p, r, d, fw)[l] \in [Dim -> Int] \X Nat
         /\ DOMAIN HeldHalo(p, r, d, fw) = Box(FullExtent(p, d, fw))
<1>1. PICK w \in Nat : w = Width(d, fw)
  BY ExtentFacts
<1>2. LocalSize(p, d) \in Nat
  BY JobFacts
<1>3. PICK x \in Int : x = IF fw THEN 0 ELSE LocalSize(p, d) - w
  BY <1>2
<1>4. PICK y \in Int : y = IF fw THEN LocalSize(p, d) ELSE -w
  BY <1>2
<1>5. SentSlab(p, r, d, fw) = Points(p, r, d, fw, x)
  BY <1>1, <1>3 DEF SentSlab
<1>6. HeldHalo(p, r, d, fw) = Points(p, r, d, fw, y)
  BY <1>1, <1>4 DEF HeldHalo
<1>7. DOMAIN Points(p, r, d, fw, y) = Box(FullExtent(p, d, fw))
  BY DEF Points
<1> QED BY <1>5, <1>6, <1>7, PointsTyped

LEMMA MessageTyped ==
  ASSUME Known, WithinSpace, NEW q \in Proc, NEW k \in Key
  PROVE  /\ MessageOf(q, k) \in Msg
         /\ MessageOf(q, k).slab = SentSlab(q, k.round, k.dim, k.fw)
         /\ MessageOf(q, k).buffer = Buffer(k.round, k.dim, k.fw)
<1>1. k.round \in Nat /\ k.dim \in Dim /\ k.fw \in BOOLEAN
  BY DEF Key
<1>2. SentSlab(q, k.round, k.dim, k.fw) \in Slabs
  BY <1>1, SlabsTyped
<1>3. k.round % 2 \in {0, 1}
  BY <1>1
<1> QED BY <1>1, <1>2, <1>3 DEF MessageOf, Message, Msg, Buffer

-----------------------------------------------------------------------------
(* What follows from the invariant.                                         *)

\* A message in flight is one that has been sent and not received.
LEMMA InFlight ==
  ASSUME Known, WithinSpace, NEW q \in Proc, NEW p \in Proc, Channel(q, p),
         NEW i \in DOMAIN net[q][p]
  PROVE  \E k \in Way(q, p) : net[q][p][i] = MessageOf(q, k)
<1>1. PICK f : Lists(f, Way(q, p)) /\ net[q][p] = Bodies(q, f)
  BY DEF Channel
<1>2. i \in 1 .. Len(f) /\ net[q][p][i] = MessageOf(q, f[i])
  BY <1>1 DEF Bodies
<1>3. f[i] \in Way(q, p)
  BY <1>1, <1>2 DEF Lists
<1> QED BY <1>2, <1>3

\* A process is never more than one exchange of a dimension ahead of a
\* neighbour: what it has sent and the neighbour not received is not older
\* than what it has received from the neighbour.
LEMMA Drift ==
  ASSUME Typed, WithinSpace, TwoWay, NEW p \in Proc, NEW q \in Proc, Causal(q, p),
         NEW k \in Way(p, q), NEW r \in Nat,
         Taken(p, [round |-> r, dim |-> k.dim, fw |-> ~k.fw])
  PROVE  r <= round[q] /\ round[q] <= k.round
<1>1. /\ k \in Key /\ Slot(p, q, k.dim, k.fw) /\ ~Taken(q, k)
      /\ k.round \in Nat /\ k.dim \in Dim /\ k.fw \in BOOLEAN
  BY DEF Way, Key
<1>2. Slot(q, p, k.dim, ~k.fw)
  BY <1>1, SlotsBack DEF Typed
<1>3. PICK m : m = [round |-> r, dim |-> k.dim, fw |-> ~k.fw]
  OBVIOUS
<1>4. m \in Key /\ m.round = r /\ m.dim = k.dim /\ m.fw = ~k.fw
  BY <1>1, <1>3 DEF Key
<1>5. Slot(q, p, m.dim, m.fw)
  BY <1>2, <1>4
<1>6. Sent(q, m)
  BY <1>3, <1>4, <1>5 DEF Causal
<1>7. round[q] \in Nat
  BY DEF Typed
<1>8. r <= round[q]
  BY <1>4, <1>6, <1>7 DEF Sent
<1>9. round[q] <= k.round
  BY <1>1, <1>7 DEF Taken
<1> QED BY <1>8, <1>9

LEMMA CompleteIs ==
  ASSUME Typed, NEW p \in Proc, Filled(p), ~Empty(p), pending[p] = {}
  PROVE  Complete(p, halo[p], round[p], dim[p])
<1>1. SUFFICES ASSUME NEW e \in Dim, e > dim[p]
               PROVE  /\ halo[p].fwWidth[e] = HaloWidth(p, e, TRUE)
                      /\ halo[p].bwWidth[e] = HaloWidth(p, e, FALSE)
                      /\ HaloWidth(p, e, TRUE) > 0 =>
                           /\ halo[p].diagonal = job.diagonal
                           /\ halo[p].fw[e] = HeldHalo(p, round[p], e, TRUE)
                      /\ HaloWidth(p, e, FALSE) > 0 =>
                           /\ halo[p].diagonal = job.diagonal
                           /\ halo[p].bw[e] = HeldHalo(p, round[p], e, FALSE)
  BY DEF Complete
<1>2. /\ halo[p].fwWidth[e] = HaloWidth(p, e, TRUE)
      /\ halo[p].bwWidth[e] = HaloWidth(p, e, FALSE)
      /\ Holds(p, e, TRUE) /\ Holds(p, e, FALSE)
  BY <1>1 DEF Filled
<1>3. HaloWidth(p, e, TRUE) > 0 =>
        halo[p].diagonal = job.diagonal /\ Held(p, e, TRUE) = HeldHalo(p, round[p], e, TRUE)
  BY <1>2 DEF Holds
<1>4. HaloWidth(p, e, FALSE) > 0 =>
        halo[p].diagonal = job.diagonal /\ Held(p, e, FALSE) = HeldHalo(p, round[p], e, FALSE)
  BY <1>2 DEF Holds
<1> QED BY <1>2, <1>3, <1>4 DEF Held

LEMMA Current ==
  ASSUME Inv, WithinSpace, NDims = PS_MAX_DIM
  PROVE  HaloCurrent
<1>1. SUFFICES ASSUME NEW p \in Proc, Loaded(p), ~Empty(p), NEW l \in LocalBox(p),
                      NEW o \in job.stencil,
                      InsideOf(Wrapped([d \in Dim |-> Global(p, l)[d] + o[d]]))
               PROVE  StencilRead(p, l, o)
                        = <<Wrapped([d \in Dim |-> Global(p, l)[d] + o[d]]), round[p]>>
  BY DEF HaloCurrent
<1>2. PICK x : x = Wrapped([d \in Dim |-> Global(p, l)[d] + o[d]])
  OBVIOUS
<1>3. Known /\ Typed /\ Filled(p) /\ dim[p] = 0 /\ pending[p] = {}
  BY <1>1 DEF Inv, Typed, Loaded
<1>4. Complete(p, halo[p], round[p], 0)
  BY <1>1, <1>3, CompleteIs
<1>5. InsideOf(x)
  BY <1>1, <1>2
<1> QED BY <1>1, <1>2, <1>3, <1>4, <1>5, ReadIs

LEMMA Intact ==
  ASSUME Inv, WithinSpace
  PROVE  SendsIntact
<1>1. SUFFICES ASSUME NEW p \in Proc, NEW q \in Proc, NEW i \in DOMAIN net[p][q],
                      NEW l \in DOMAIN net[p][q][i].slab
               PROVE  net[p][q][i].slab[l] # Garbage
  BY DEF SendsIntact
<1>2. Known /\ Channel(p, q)
  BY DEF Inv, Typed, Protocol
<1>3. PICK k \in Way(p, q) : net[p][q][i] = MessageOf(p, k)
  BY <1>2, InFlight
<1>4. k \in Key /\ k.round \in Nat /\ k.dim \in Dim /\ k.fw \in BOOLEAN
  BY DEF Way, Key
<1>5. net[p][q][i].slab = SentSlab(p, k.round, k.dim, k.fw)
  BY <1>2, <1>3, <1>4, MessageTyped
<1>6. net[p][q][i].slab[l] \in [Dim -> Int] \X Nat
  BY <1>2, <1>4, <1>5, SlabsTyped
<1> QED BY <1>6, HaloAssumption

LEMMA NoneLeft ==
  ASSUME Inv, WithinSpace, TwoWay
  PROVE  NothingLeft
<1>1. SUFFICES ASSUME NEW p \in Proc, NEW q \in Proc
               PROVE  /\ Loaded(p) => \A i \in DOMAIN net[q][p] :
                           /\ net[q][p][i].buffer.grid # round[p] % 2
                           /\ round[q] = round[p] + 1
                      /\ Finished => net[q][p] = << >>
  BY DEF NothingLeft
<1>2. Typed /\ Known /\ Channel(q, p) /\ Causal(p, q) /\ Place(q)
  BY DEF Inv, Typed, Protocol
<1>3. round[p] \in Nat /\ round[q] \in Nat
  BY <1>2 DEF Typed
<1>4. ASSUME Loaded(p), NEW i \in DOMAIN net[q][p]
      PROVE  net[q][p][i].buffer.grid # round[p] % 2 /\ round[q] = round[p] + 1
  <2>1. PICK k \in Way(q, p) : net[q][p][i] = MessageOf(q, k)
    BY <1>2, InFlight
  <2>2. /\ k \in Key /\ k.round \in Nat /\ k.dim \in Dim /\ k.fw \in BOOLEAN
        /\ Slot(q, p, k.dim, k.fw) /\ Sent(q, k) /\ ~Taken(p, k)
    BY DEF Way, Key
  <2>3. dim[p] = 0 /\ pending[p] = {}
    BY <1>4 DEF Loaded
  <2>4. k.round >= round[p] + 1
    <3>1. k.dim \in Int /\ k.dim >= 1
      BY <2>2 DEF Dim
    <3> QED BY <1>3, <2>2, <2>3, <3>1 DEF Taken
  <2>5. k.round <= round[q]
    BY <1>3, <2>2 DEF Sent
  <2>6. PICK r \in Nat : r = round[q] - 1
    BY <1>3, <2>2, <2>4, <2>5
  <2>7. Taken(q, [round |-> r, dim |-> k.dim, fw |-> ~k.fw])
    <3>1. [round |-> r, dim |-> k.dim, fw |-> ~k.fw].round < round[q]
      BY <1>3, <2>6
    <3> QED BY <3>1 DEF Taken
  <2>8. r <= round[p]
    BY <1>2, <2>7, Drift
  <2>9. round[q] = round[p] + 1 /\ k.round = round[p] + 1
    BY <1>3, <2>2, <2>4, <2>5, <2>6, <2>8
  <2>10. net[q][p][i].buffer.grid = k.round % 2
    <3>1. MessageOf(q, k).buffer = Buffer(k.round, k.dim, k.fw)
      BY <1>2, <2>2, MessageTyped
    <3> QED BY <2>1, <3>1 DEF Buffer
  <2>11. (round[p] + 1) % 2 # round[p] % 2
    BY <1>3
  <2> QED BY <2>9, <2>10, <2>11
<1>5. ASSUME Finished PROVE net[q][p] = << >>
  <2>1. round[q] = MaxRounds /\ round[p] = MaxRounds /\ dim[q] = NDims
    BY <1>2, <1>5 DEF Finished, Place
  <2>2. Way(q, p) = {}
    <3>1. SUFFICES ASSUME NEW k \in Way(q, p) PROVE FALSE
      OBVIOUS
    <3>2. k \in Key /\ k.round \in Nat /\ k.dim \in Dim /\ Sent(q, k) /\ ~Taken(p, k)
      BY DEF Way, Key
    <3>3. k.round < MaxRounds
      BY <2>1, <3>2, HaloAssumption DEF Sent, Dim
    <3> QED BY <2>1, <3>2, <3>3 DEF Taken
  <2>3. PICK f : Lists(f, {}) /\ net[q][p] = Bodies(q, f)
    BY <1>2, <2>2 DEF Channel
  <2>4. f \in Seq(Key) /\ Len(f) = 0
    BY <2>3 DEF Lists
  <2> QED BY <2>3, <2>4 DEF Bodies
<1> QED BY <1>4, <1>5

-----------------------------------------------------------------------------
(* Buffers that a process writes to.                                        *)

LEMMA OverwriteSame ==
  ASSUME NEW n \in [Proc -> [Proc -> Seq(Msg)]], NEW p \in Proc, NEW bs,
         \A q \in Proc : \A i \in DOMAIN n[p][q] : n[p][q][i].buffer \notin bs
  PROVE  Overwrite(n, p, bs) = n
<1>1. PICK row : row = [q \in Proc |-> [i \in DOMAIN n[p][q] |->
                          IF n[p][q][i].buffer \in bs THEN Spoilt(n[p][q][i]) ELSE n[p][q][i]]]
  OBVIOUS
<1>2. ASSUME NEW q \in Proc PROVE row[q] = n[p][q]
  <2>1. PICK c \in Seq(Msg) : c = n[p][q]
    OBVIOUS
  <2>2. \A i \in DOMAIN c : c[i].buffer \notin bs
    BY <2>1
  <2>3. row[q] = [i \in DOMAIN c |-> IF c[i].buffer \in bs THEN Spoilt(c[i]) ELSE c[i]]
    BY ONLY <1>1, <2>1, q \in Proc
  <2>4. row[q] = [i \in DOMAIN c |-> c[i]]
    BY ONLY <2>2, <2>3
  <2>5. c = [i \in DOMAIN c |-> c[i]]
    OBVIOUS
  <2> QED BY ONLY <2>1, <2>4, <2>5
<1>3. row = n[p]
  <2>1. row = [q \in Proc |-> row[q]] /\ n[p] = [q \in Proc |-> n[p][q]]
    BY <1>1
  <2> QED BY ONLY <1>2, <2>1
<1>4. [n EXCEPT ![p] = n[p]] = n
  OBVIOUS
<1> QED BY <1>1, <1>3, <1>4 DEF Overwrite

\* A process that sends a slab again, two rounds later, has heard since that
\* its neighbour has received it.
LEMMA SendsDone ==
  ASSUME Inv, WithinSpace, TwoWay, NEW p \in Proc, NEW q \in Proc, NEW k \in Way(p, q),
         NEW fw \in BOOLEAN
  PROVE  Buffer(k.round, k.dim, k.fw) # Buffer(round[p], dim[p], fw)
<1>1. Typed /\ Known /\ Channel(p, q) /\ Causal(q, p)
  BY DEF Inv, Typed, Protocol
<1>2. SUFFICES ASSUME Buffer(k.round, k.dim, k.fw) = Buffer(round[p], dim[p], fw) PROVE FALSE
  OBVIOUS
<1>4. /\ k \in Key /\ k.round \in Nat /\ k.dim \in Dim /\ k.fw \in BOOLEAN /\ Sent(p, k)
      /\ round[p] \in Nat /\ round[q] \in Nat /\ dim[p] \in Nat
  BY <1>1 DEF Way, Key, Typed
<1>6. k.round % 2 = round[p] % 2 /\ k.dim = dim[p]
  BY <1>2 DEF Buffer
<1>7. k.round < round[p]
  BY <1>4, <1>6 DEF Sent
<1>8. PICK r \in Nat : r = round[p] - 1
  BY <1>4, <1>7
<1>9. Taken(p, [round |-> r, dim |-> k.dim, fw |-> ~k.fw])
  <2>1. [round |-> r, dim |-> k.dim, fw |-> ~k.fw].round < round[p]
    BY <1>4, <1>8
  <2> QED BY <2>1 DEF Taken
<1>10. r <= k.round
  <2>1. r <= round[q] /\ round[q] <= k.round
    BY <1>1, <1>9, Drift
  <2> QED BY <1>4, <2>1
<1>11. k.round = r
  BY <1>4, <1>7, <1>8, <1>10
<1>12. (r + 1) % 2 # r % 2
  BY <1>8
<1> QED BY <1>4, <1>6, <1>8, <1>11, <1>12

\* A process that goes on to write a grid has heard, in the round that ends,
\* that its neighbours have received what it sent from it.
LEMMA GridFree ==
  ASSUME Inv, WithinSpace, TwoWay, NEW p \in Proc, NEW q \in Proc, NEW i \in DOMAIN net[p][q],
         Loaded(p)
  PROVE  net[p][q][i].buffer \notin InGrid(round[p] + 1)
<1>1. Typed /\ Known /\ Channel(p, q) /\ Causal(q, p)
  BY DEF Inv, Typed, Protocol
<1>2. SUFFICES ASSUME NEW fw \in BOOLEAN,
                      net[p][q][i].buffer = Buffer(round[p] + 1, NDims, fw)
               PROVE  FALSE
  BY DEF InGrid
<1>3. PICK k \in Way(p, q) : net[p][q][i] = MessageOf(p, k)
  BY <1>1, InFlight
<1>4. /\ k \in Key /\ k.round \in Nat /\ k.dim \in Dim /\ k.fw \in BOOLEAN /\ Sent(p, k)
      /\ round[p] \in Nat /\ round[q] \in Nat /\ dim[p] = 0 /\ pending[p] = {}
  BY <1>1 DEF Way, Key, Typed, Loaded
<1>5. MessageOf(p, k).buffer = Buffer(k.round, k.dim, k.fw)
  BY <1>1, <1>4, MessageTyped
<1>6. k.round % 2 = (round[p] + 1) % 2
  BY <1>2, <1>3, <1>5 DEF Buffer
<1>7. k.round <= round[p]
  BY <1>4 DEF Sent
<1>8. (round[p] + 1) % 2 # round[p] % 2
  BY <1>4
<1>9. k.round < round[p]
  BY <1>4, <1>6, <1>7, <1>8
<1>10. PICK m : m = [round |-> round[p], dim |-> k.dim, fw |-> ~k.fw]
  OBVIOUS
<1>11. Taken(p, m)
  <2>1. m.round = round[p] /\ m.dim = k.dim /\ m.dim \in Int /\ m.dim >= 1
    BY <1>4, <1>10 DEF Dim
  <2> QED BY <1>4, <2>1 DEF Taken
<1>12. round[p] <= round[q] /\ round[q] <= k.round
  BY <1>1, <1>4, <1>10, <1>11, Drift
<1> QED BY <1>4, <1>9, <1>12

-----------------------------------------------------------------------------
(* The steps.                                                               *)

LEMMA SameChannel ==
  ASSUME job' = job, NEW q \in Proc, NEW p \in Proc, Channel(q, p),
         Way(q, p)' = Way(q, p), net'[q][p] = net[q][p]
  PROVE  Channel(q, p)'
<1>1. PICK f : Lists(f, Way(q, p)) /\ net[q][p] = Bodies(q, f)
  BY DEF Channel
<1>2. Bodies(q, f)' = Bodies(q, f)
  BY SameBodies
<1>3. Lists(f, Way(q, p)')
  BY <1>1
<1>4. net'[q][p] = Bodies(q, f)'
  BY <1>1, <1>2
<1> QED BY <1>3, <1>4 DEF Channel, Lists

\* Nothing is sent or received.
LEMMA SameWays ==
  ASSUME job' = job, net' = net,
         \A q, p \in Proc : Channel(q, p) /\ Causal(q, p),
         \A q, p \in Proc : \A k \in Key : Slot(q, p, k.dim, k.fw) =>
           (Sent(q, k)' <=> Sent(q, k)) /\ (Taken(p, k)' <=> Taken(p, k))
  PROVE  \A q, p \in Proc : Channel(q, p)' /\ Causal(q, p)'
<1>1. SUFFICES ASSUME NEW q \in Proc, NEW p \in Proc PROVE Channel(q, p)' /\ Causal(q, p)'
  OBVIOUS
<1>2. \A k \in Key : Slot(q, p, k.dim, k.fw)' = Slot(q, p, k.dim, k.fw)
  BY SameJob
<1>3. Way(q, p)' = Way(q, p)
  BY <1>2 DEF Way
<1>4. Channel(q, p)'
  BY <1>3, SameChannel
<1>5. Causal(q, p)'
  BY <1>2 DEF Causal
<1> QED BY <1>4, <1>5

\* A network of which one channel changes.
LEMMA NetUpdate ==
  ASSUME NEW n \in [Proc -> [Proc -> Seq(Msg)]], NEW q \in Proc, NEW p \in Proc,
         NEW c \in Seq(Msg), NEW n2, n2 = [n EXCEPT ![q][p] = c]
  PROVE  /\ n2 \in [Proc -> [Proc -> Seq(Msg)]] /\ n2[q][p] = c
         /\ \A s, t \in Proc : s # q \/ t # p => n2[s][t] = n[s][t]
<1>1. PICK row : row = [n[q] EXCEPT ![p] = c]
  OBVIOUS
<1>2. n[q] \in [Proc -> Seq(Msg)]
  OBVIOUS
<1>3. row \in [Proc -> Seq(Msg)] /\ row[p] = c /\ \A t \in Proc : t # p => row[t] = n[q][t]
  BY ONLY <1>1, <1>2, p \in Proc, c \in Seq(Msg)
<1>4. n2 = [n EXCEPT ![q] = row]
  BY <1>1
<1>5. n2 \in [Proc -> [Proc -> Seq(Msg)]] /\ n2[q] = row
  BY <1>3, <1>4
<1>6. \A s \in Proc : s # q => n2[s] = n[s]
  BY <1>4
<1>7. ASSUME NEW s \in Proc, NEW t \in Proc, s # q \/ t # p PROVE n2[s][t] = n[s][t]
  <2>1. CASE s = q
    BY <1>3, <1>5, <1>7, <2>1
  <2>2. CASE s # q
    BY <1>6, <2>2
  <2> QED BY <2>1, <2>2
<1> QED BY <1>3, <1>5, <1>7

\* The halos of a process that does nothing.
LEMMA SameFilled ==
  ASSUME job' = job, NEW p, Filled(p), halo'[p] = halo[p], dim'[p] = dim[p], round'[p] = round[p],
         pending'[p] = pending[p]
  PROVE  Filled(p)'
<1>1. \A e, fw : HaloWidth(p, e, fw)' = HaloWidth(p, e, fw)
  BY SameJob
<1>2. \A r, e, fw : HeldHalo(p, r, e, fw)' = HeldHalo(p, r, e, fw)
  BY SameBodies
<1>3. \A e, fw : HeldHalo(p, round[p], e, fw)' = HeldHalo(p, round[p], e, fw)
  BY <1>2
<1>4. Empty(p)' = Empty(p)
  BY SameJob
<1>5. \A e : Held(p, e, TRUE)' = Held(p, e, TRUE) /\ Held(p, e, FALSE)' = Held(p, e, FALSE)
  BY DEF Held
<1>6. ASSUME NEW e PROVE /\ Holds(p, e, TRUE) => Holds(p, e, TRUE)'
                         /\ Holds(p, e, FALSE) => Holds(p, e, FALSE)'
  BY <1>1, <1>3, <1>5 DEF Holds
<1> QED BY <1>1, <1>4, <1>6 DEF Filled

LEMMA RunKernelStep ==
  ASSUME Inv, WithinSpace, TwoWay, NEW p \in Proc, RunKernel(p)
  PROVE  Inv'
<1>1. /\ Typed /\ Known /\ \A q \in Proc : Place(q) /\ Filled(q)
      /\ \A s, t \in Proc : Channel(s, t) /\ Causal(s, t)
  BY DEF Inv, Typed, Protocol
<1>2. /\ round \in [Proc -> 0 .. MaxRounds] /\ dim \in [Proc -> 0 .. NDims]
      /\ pending \in [Proc -> SUBSET {"fw", "bw"}] /\ halo \in [Proc -> HaloRec]
      /\ net \in [Proc -> [Proc -> Seq(Msg)]]
      /\ MaxRounds \in Nat /\ NDims \in Nat /\ NDims >= 1
  BY <1>1, HaloAssumption DEF Typed
<1>3. /\ Loaded(p) /\ round[p] < MaxRounds /\ dim[p] = 0 /\ pending[p] = {}
      /\ round' = [round EXCEPT ![p] = @ + 1] /\ dim' = [dim EXCEPT ![p] = NDims]
      /\ net' = Overwrite(net, p, InGrid(round[p] + 1))
      /\ job' = job /\ pending' = pending /\ halo' = halo
  BY DEF RunKernel, Loaded
<1>4. /\ round'[p] = round[p] + 1 /\ dim'[p] = NDims
      /\ \A q \in Proc : q # p => round'[q] = round[q] /\ dim'[q] = dim[q]
  BY <1>2, <1>3
<1>5. net' = net
  <2>1. \A q \in Proc : \A i \in DOMAIN net[p][q] :
          net[p][q][i].buffer \notin InGrid(round[p] + 1)
    BY <1>3, GridFree
  <2> QED BY <1>2, <1>3, <2>1, OverwriteSame
<1>6. Known' /\ Proc' = Proc
  BY <1>1, <1>3, SameJob
<1>7. Typed'
  <2>1. round' \in [Proc -> 0 .. MaxRounds] /\ dim' \in [Proc -> 0 .. NDims]
    BY <1>2, <1>3
  <2> QED BY <1>2, <1>3, <1>5, <1>6, <2>1 DEF Typed
<1>8. ASSUME NEW q \in Proc PROVE Place(q)'
  <2>1. CASE q = p
    BY <1>3, <1>4, <2>1 DEF Place
  <2>2. CASE q # p
    <3>1. \A d, fw : Awaits(q, d, fw)' = Awaits(q, d, fw)
      BY <1>3, SameJob
    <3>2. round'[q] = round[q] /\ dim'[q] = dim[q] /\ pending' = pending
      BY <1>3, <1>4, <2>2
    <3>3. Place(q)
      BY <1>1
    <3> QED BY ONLY <3>1, <3>2, <3>3 DEF Place
  <2> QED BY <2>1, <2>2
<1>9. ASSUME NEW q \in Proc, NEW k \in Key
      PROVE  (Sent(q, k)' <=> Sent(q, k)) /\ (Taken(q, k)' <=> Taken(q, k))
  <2>1. CASE q # p
    BY <1>3, <1>4, <2>1 DEF Sent, Taken
  <2>2. CASE q = p
    <3>1. /\ k.round \in Nat /\ k.dim \in Int /\ 1 <= k.dim /\ k.dim <= NDims
          /\ round[p] \in Nat
      BY <1>2 DEF Key, Dim
    <3>2. Sent(p, k)' <=> k.round <= round[p]
      BY <1>2, <1>4, <3>1, SMTT(30) DEF Sent
    <3>3. Sent(p, k) <=> k.round <= round[p]
      BY <1>3, <3>1 DEF Sent
    <3>4. Taken(p, k)' <=> k.round <= round[p]
      <4>1. Taken(p, k)' <=>
              \/ k.round < round[p] + 1
              \/ /\ k.round = round[p] + 1
                 /\ \/ k.dim > NDims + 1
                    \/ k.dim = NDims + 1 /\ Side(k.fw) \notin pending'[p]
        BY <1>4 DEF Taken
      <4>2. ~(k.dim > NDims + 1) /\ k.dim # NDims + 1
        BY <1>2, <3>1
      <4> QED BY <3>1, <4>1, <4>2
    <3>5. Taken(p, k) <=> k.round <= round[p]
      BY <1>3, <3>1 DEF Taken
    <3> QED BY <2>2, <3>2, <3>3, <3>4, <3>5
  <2> QED BY <2>1, <2>2
<1>10. \A s, t \in Proc : Channel(s, t)' /\ Causal(s, t)'
  BY <1>1, <1>3, <1>5, <1>9, SameWays
<1>11. ASSUME NEW q \in Proc PROVE Filled(q)'
  <2>1. CASE q = p
    <3>1. \A e \in Dim : ~(e > dim'[p])
      BY <1>2, <1>4 DEF Dim
    <3> QED BY <2>1, <3>1 DEF Filled
  <2>2. CASE q # p
    BY <1>1, <1>3, <1>4, <2>2, SameFilled
  <2> QED BY <2>1, <2>2
<1> QED BY <1>6, <1>7, <1>8, <1>10, <1>11 DEF Inv, Protocol

\* The slab that completes a receive is the one that was sent for it.
KeyOf(r, d, fw) == [round |-> r, dim |-> d, fw |-> fw]

LEMMA KeyFacts ==
  ASSUME NEW r \in Nat, NEW d \in Dim, NEW fw \in BOOLEAN
  PROVE  /\ KeyOf(r, d, fw) \in Key
         /\ KeyOf(r, d, fw).round = r /\ KeyOf(r, d, fw).dim = d /\ KeyOf(r, d, fw).fw = fw
BY DEF KeyOf, Key

\* The oldest message from q to p is its message k.
First(q, p, k) == \E f : Lists(f, Way(q, p)) /\ net[q][p] = Bodies(q, f) /\ f[1] = k

LEMMA FirstIs ==
  ASSUME Inv, WithinSpace, NEW p \in Proc, NEW fw \in BOOLEAN, NEW d, d = dim[p] + 1,
         NEW q, q = Peer(p, d, fw), Side(fw) \in pending[p], net[q][p] # << >>,
         ~fw /\ q = Peer(p, d, TRUE) => Side(TRUE) \notin pending[p]
  PROVE  /\ d \in Dim /\ q \in Proc /\ Slot(q, p, d, fw)
         /\ KeyOf(round[p], d, fw) \in Way(q, p)
         /\ First(q, p, KeyOf(round[p], d, fw))
<1>1. /\ Typed /\ Known /\ Place(p)
      /\ round[p] \in Nat /\ dim[p] \in 0 .. NDims /\ NDims \in Nat
  BY HaloAssumption DEF Inv, Typed, Protocol
<1>2. Awaits(p, d, fw) /\ dim[p] < NDims
  BY <1>1 DEF Place
<1>3. d \in Dim
  BY <1>1, <1>2 DEF Dim
<1>4. q \in Proc
  BY <1>1, <1>3, PeerFacts DEF Peer
<1>5. Slot(q, p, d, fw)
  BY <1>2 DEF Slot
<1>6. Channel(q, p) /\ round[q] \in Nat /\ dim[q] \in 0 .. NDims
  BY <1>4 DEF Inv, Protocol, Typed
<1>7. PICK f : Lists(f, Way(q, p)) /\ net[q][p] = Bodies(q, f)
  BY <1>6 DEF Channel
<1>8. PICK m : m = f[1]
  OBVIOUS
<1>9. m \in Way(q, p) /\ \A n \in Way(q, p) : n = m \/ Earlier(m, n)
  <2>1. Way(q, p) \in SUBSET Key
    BY DEF Way
  <2>2. Bodies(q, f) # << >>
    BY <1>7
  <2> QED BY <1>7, <1>8, <2>1, <2>2, ListsTail
<1>10. /\ m \in Key /\ m.round \in Nat /\ m.dim \in Dim /\ m.fw \in BOOLEAN
       /\ Slot(q, p, m.dim, m.fw) /\ Sent(q, m) /\ ~Taken(p, m)
  BY <1>9 DEF Way, Key
<1>11. PICK k \in Key : k = KeyOf(round[p], d, fw)
  BY <1>1, <1>3, KeyFacts
<1>12. k.round = round[p] /\ k.dim = d /\ k.fw = fw
  BY <1>1, <1>3, <1>11, KeyFacts
<1>13. d \in Int /\ m.dim \in Int /\ 1 <= m.dim /\ 1 <= d
  BY <1>3, <1>10 DEF Dim
<1>14. \/ m.round > round[p]
       \/ m.round = round[p] /\ m.dim < d
       \/ m.round = round[p] /\ m.dim = d /\ Side(m.fw) \in pending[p]
  BY <1>1, <1>10, <1>13 DEF Taken
<1>15. Sent(q, k)
  BY <1>1, <1>6, <1>10, <1>12, <1>13, <1>14 DEF Sent
<1>16. ~Taken(p, k)
  BY <1>1, <1>12, <1>13 DEF Taken
<1>17. k \in Way(q, p)
  BY <1>5, <1>12, <1>15, <1>16 DEF Way
<1>18. k = m \/ Earlier(m, k)
  BY <1>9, <1>17
<1>19. ~Earlier(m, k)
  <2>1. SUFFICES ASSUME Earlier(m, k) PROVE FALSE
    OBVIOUS
  <2>2. m.round = round[p] /\ m.dim = d /\ m.fw /\ ~fw /\ Side(m.fw) \in pending[p]
    BY <1>1, <1>10, <1>12, <1>13, <1>14, <2>1 DEF Earlier
  <2>3. m.fw = TRUE
    BY <1>10, <2>2
  <2>4. q = Peer(p, d, TRUE) /\ Side(TRUE) \in pending[p]
    BY <1>10, <2>2, <2>3 DEF Slot
  <2> QED BY <2>2, <2>4
<1>20. m = k
  BY <1>18, <1>19
<1> QED BY <1>3, <1>4, <1>5, <1>7, <1>8, <1>11, <1>17, <1>20 DEF First

LEMMA ReceivedIs ==
  ASSUME Inv, WithinSpace, NEW p \in Proc, NEW fw \in BOOLEAN, NEW d, d = dim[p] + 1,
         NEW q, q = Peer(p, d, fw), Side(fw) \in pending[p], net[q][p] # << >>,
         ~fw /\ q = Peer(p, d, TRUE) => Side(TRUE) \notin pending[p],
         NEW w, w = IF fw THEN halo[p].fwWidth[d] ELSE halo[p].bwWidth[d]
  PROVE  /\ Received(Oldest(net, q, p), HaloExtent(p, halo[p], d, w))
              = HeldHalo(p, round[p], d, fw)
         /\ HeldHalo(p, round[p], d, fw) \in Slabs
<1>1. /\ d \in Dim /\ q \in Proc /\ Slot(q, p, d, fw)
  BY FirstIs
<1>2. PICK f : /\ Lists(f, Way(q, p)) /\ net[q][p] = Bodies(q, f)
               /\ f[1] = KeyOf(round[p], d, fw)
  <2>1. First(q, p, KeyOf(round[p], d, fw))
    BY FirstIs
  <2> QED BY <2>1 DEF First
<1>3. /\ Typed /\ Known /\ Filled(p) /\ round[p] \in Nat /\ dim[p] \in Nat
  BY DEF Inv, Typed
<1>4. PICK k \in Key : k = KeyOf(round[p], d, fw)
  BY <1>1, <1>3, KeyFacts
<1>5. k.round = round[p] /\ k.dim = d /\ k.fw = fw
  BY <1>1, <1>3, <1>4, KeyFacts
<1>6. Oldest(net, q, p) = MessageOf(q, k)
  <2>1. Way(q, p) \in SUBSET Key
    BY DEF Way
  <2>2. Bodies(q, f) # << >>
    BY <1>2
  <2>3. Head(Bodies(q, f)) = MessageOf(q, f[1])
    BY <1>2, <2>1, <2>2, ListsTail
  <2> QED BY <1>2, <1>4, <2>3 DEF Oldest
<1>7. Oldest(net, q, p).slab = HeldHalo(p, round[p], d, fw)
  <2>1. MessageOf(q, k).slab = SentSlab(q, round[p], d, fw)
    BY <1>1, <1>3, <1>5, MessageTyped
  <2>2. SentSlab(q, round[p], d, fw) = HeldHalo(p, round[p], d, fw)
    BY <1>1, <1>3, SlabIsHalo
  <2> QED BY <1>6, <2>1, <2>2
<1>8. ~Empty(p) /\ HaloWidth(p, d, fw) = Width(d, fw)
  BY <1>1 DEF Slot, Awaits, HaloWidth
<1>9. d > dim[p] /\ \A e \in Dim : e > d => e > dim[p]
  BY <1>1, <1>3 DEF Dim
<1>10. Sized(p, halo[p], d)
  BY <1>3, <1>8, <1>9 DEF Filled, Sized
<1>11. w = Width(d, fw)
  <2>1. halo[p].fwWidth[d] = HaloWidth(p, d, TRUE) /\ halo[p].bwWidth[d] = HaloWidth(p, d, FALSE)
    BY <1>1, <1>3, <1>8, <1>9 DEF Filled
  <2>2. fw = TRUE \/ fw = FALSE
    OBVIOUS
  <2>3. CASE fw = TRUE
    BY <1>8, <2>1, <2>3
  <2>4. CASE fw = FALSE
    BY <1>8, <2>1, <2>4
  <2> QED BY <2>2, <2>3, <2>4
<1>12. HaloExtent(p, halo[p], d, w) = FullExtent(p, d, fw)
  BY <1>1, <1>3, <1>10, <1>11, ExtentIs
<1>13. DOMAIN HeldHalo(p, round[p], d, fw) = Box(FullExtent(p, d, fw))
  BY <1>1, <1>3, SlabsTyped
<1>14. HeldHalo(p, round[p], d, fw) \in Slabs
  BY <1>1, <1>3, SlabsTyped
<1> QED BY <1>7, <1>12, <1>13, <1>14 DEF Received

\* A receive completes.
LEMMA ArriveStep ==
  ASSUME Inv, WithinSpace, NEW p \in Proc, NEW fw \in BOOLEAN, NEW d, d = dim[p] + 1,
         NEW q, q = Peer(p, d, fw), Side(fw) \in pending[p], net[q][p] # << >>,
         ~fw /\ q = Peer(p, d, TRUE) => Side(TRUE) \notin pending[p],
         job' = job, round' = round, dim' = dim, net' = Drop(net, q, p),
         pending' = [pending EXCEPT ![p] = @ \ {Side(fw)}],
         halo' \in [Proc -> HaloRec], \A s \in Proc : s # p => halo'[s] = halo[s],
         halo'[p].fwWidth = halo[p].fwWidth, halo'[p].bwWidth = halo[p].bwWidth,
         halo'[p].diagonal = halo[p].diagonal,
         Held(p, d, fw)' = HeldHalo(p, round[p], d, fw),
         \A e \in Dim : e # d => /\ Held(p, e, TRUE)' = Held(p, e, TRUE)
                                 /\ Held(p, e, FALSE)' = Held(p, e, FALSE),
         Held(p, d, ~fw)' = Held(p, d, ~fw)
  PROVE  Inv'
<1>1. /\ Typed /\ Known /\ \A s \in Proc : Place(s) /\ Filled(s)
      /\ \A s, t \in Proc : Channel(s, t) /\ Causal(s, t)
  BY DEF Inv, Typed, Protocol
<1>2. /\ round \in [Proc -> 0 .. MaxRounds] /\ dim \in [Proc -> 0 .. NDims]
      /\ pending \in [Proc -> SUBSET {"fw", "bw"}] /\ halo \in [Proc -> HaloRec]
      /\ net \in [Proc -> [Proc -> Seq(Msg)]]
      /\ MaxRounds \in Nat /\ NDims \in Nat /\ round[p] \in Nat /\ dim[p] \in Nat
  BY <1>1, HaloAssumption, SMTT(30) DEF Typed
<1>3. PICK k : k = KeyOf(round[p], d, fw)
  OBVIOUS
<1>4. /\ d \in Dim /\ q \in Proc /\ Slot(q, p, d, fw) /\ k \in Way(q, p) /\ First(q, p, k)
  BY <1>3, FirstIs
<1>5. k \in Key /\ k.round = round[p] /\ k.dim = d /\ k.fw = fw
  BY <1>2, <1>3, <1>4, KeyFacts
<1>6. /\ pending'[p] = pending[p] \ {Side(fw)}
      /\ \A s \in Proc : s # p => pending'[s] = pending[s]
      /\ pending' \in [Proc -> SUBSET {"fw", "bw"}]
  BY <1>2
<1>7. /\ net' \in [Proc -> [Proc -> Seq(Msg)]] /\ net'[q][p] = Tail(net[q][p])
      /\ \A s, t \in Proc : s # q \/ t # p => net'[s][t] = net[s][t]
  <2>1. net[q][p] \in Seq(Msg) /\ net[q][p] # << >>
    BY <1>2, <1>4
  <2>2. Tail(net[q][p]) \in Seq(Msg)
    BY <2>1
  <2>3. net' = [net EXCEPT ![q][p] = Tail(net[q][p])]
    BY <1>2, <1>4 DEF Drop
  <2>4. PICK c \in Seq(Msg) : c = Tail(net[q][p])
    BY <2>2
  <2>5. net' = [net EXCEPT ![q][p] = c]
    BY <2>3, <2>4
  <2>6. PICK n2 : n2 = net'
    OBVIOUS
  <2>7. n2 = [net EXCEPT ![q][p] = c]
    BY <2>5, <2>6
  <2>8. /\ n2 \in [Proc -> [Proc -> Seq(Msg)]] /\ n2[q][p] = c
        /\ \A s, t \in Proc : s # q \/ t # p => n2[s][t] = net[s][t]
    BY ONLY <1>2, <1>4, <2>7, p \in Proc, c \in Seq(Msg), NetUpdate
  <2> QED BY ONLY <2>4, <2>6, <2>8
<1>8. Known' /\ Proc' = Proc
  BY <1>1, SameJob
<1>9. Typed'
  BY <1>2, <1>6, <1>7, <1>8 DEF Typed
<1>10. ASSUME NEW s \in Proc PROVE Place(s)'
  <2>1. \A e, g : Awaits(s, e, g)' = Awaits(s, e, g)
    BY SameJob
  <2>2. \A g \in BOOLEAN : Side(g) \in pending'[s] => Side(g) \in pending[s]
    BY <1>6
  <2>3. Place(s)
    BY <1>1
  <2> QED BY <2>1, <2>2, <2>3 DEF Place
<1>11. ASSUME NEW s \in Proc, NEW m \in Key PROVE Sent(s, m)' <=> Sent(s, m)
  BY DEF Sent
<1>12. ASSUME NEW s \in Proc, NEW m \in Key
       PROVE  Taken(s, m)' <=> Taken(s, m) \/ (s = p /\ m = k)
  <2>1. CASE s # p
    BY <1>6, <2>1 DEF Taken
  <2>2. CASE s = p
    <3>1. m.fw \in BOOLEAN /\ m.dim \in Int /\ m.round \in Nat /\ d \in Int
      BY <1>4 DEF Key, Dim
    <3>2. Side(m.fw) \notin pending'[p] <=> Side(m.fw) \notin pending[p] \/ m.fw = fw
      BY <1>6, <3>1 DEF Side
    <3>3. m = k <=> m.round = round[p] /\ m.dim = d /\ m.fw = fw
      BY <1>5 DEF Key
    <3>4. Taken(p, m)' <=>
            \/ m.round < round[p]
            \/ m.round = round[p] /\ (m.dim > d \/ (m.dim = d /\ Side(m.fw) \notin pending'[p]))
      BY DEF Taken
    <3>5. Taken(p, m) <=>
            \/ m.round < round[p]
            \/ m.round = round[p] /\ (m.dim > d \/ (m.dim = d /\ Side(m.fw) \notin pending[p]))
      BY DEF Taken
    <3> QED BY <2>2, <3>2, <3>3, <3>4, <3>5
  <2> QED BY <2>1, <2>2
<1>13. \A s, t, e, g : Slot(s, t, e, g)' = Slot(s, t, e, g)
  BY SameJob
<1>14. ASSUME NEW s \in Proc, NEW t \in Proc PROVE Causal(s, t)'
  <2>1. SUFFICES ASSUME NEW m \in Key, Slot(s, t, m.dim, m.fw)', Taken(t, m)' PROVE Sent(s, m)'
    BY DEF Causal
  <2>2. Slot(s, t, m.dim, m.fw)
    BY <1>13, <2>1
  <2>3. CASE Taken(t, m)
    BY <1>1, <1>11, <2>2, <2>3 DEF Causal
  <2>4. CASE t = p /\ m = k
    <3>1. s = q
      BY <1>4, <1>5, <2>2, <2>4 DEF Slot
    <3>2. Sent(q, k)
      BY <1>4 DEF Way
    <3> QED BY <1>11, <2>4, <3>1, <3>2
  <2> QED BY <1>12, <2>1, <2>3, <2>4
<1>15. ASSUME NEW s \in Proc, NEW t \in Proc, s # q \/ t # p PROVE Channel(s, t)'
  <2>1. ASSUME NEW m \in Key, Slot(s, t, m.dim, m.fw) PROVE Taken(t, m)' <=> Taken(t, m)
    <3>1. ~(t = p /\ m = k)
      BY <1>4, <1>5, <1>15, <2>1 DEF Slot
    <3> QED BY <1>12, <3>1
  <2>2. Way(s, t)' = Way(s, t)
    BY <1>11, <1>13, <2>1 DEF Way
  <2>3. net'[s][t] = net[s][t]
    BY <1>7, <1>15
  <2> QED BY <1>1, <2>2, <2>3, SameChannel
<1>16. Channel(q, p)'
  <2>1. PICK f : Lists(f, Way(q, p)) /\ net[q][p] = Bodies(q, f) /\ f[1] = k
    BY <1>4 DEF First
  <2>2. Way(q, p)' = Way(q, p) \ {k}
    BY <1>4, <1>11, <1>12, <1>13 DEF Way
  <2>3. Lists(Tail(f), Way(q, p) \ {k}) /\ Bodies(q, Tail(f)) = Tail(Bodies(q, f))
    <3>1. Way(q, p) \in SUBSET Key
      BY DEF Way
    <3>2. Bodies(q, f) # << >>
      BY <2>1
    <3>3. Lists(Tail(f), Way(q, p) \ {f[1]}) /\ Bodies(q, Tail(f)) = Tail(Bodies(q, f))
      BY <2>1, <3>1, <3>2, ListsTail
    <3> QED BY <2>1, <3>3
  <2>4. PICK g : g = Tail(f)
    OBVIOUS
  <2>5. Lists(g, Way(q, p)')
    BY <2>2, <2>3, <2>4
  <2>6. Bodies(q, g)' = Bodies(q, g)
    BY SameBodies
  <2>7. net'[q][p] = Bodies(q, g)'
    BY <1>7, <2>1, <2>3, <2>4, <2>6
  <2> QED BY <2>5, <2>7 DEF Channel, Lists
<1>17. ASSUME NEW s \in Proc, s # p PROVE Filled(s)'
  BY <1>1, <1>6, <1>17, SameFilled
<1>18. Filled(p)'
  <2>1. \A e, g : HaloWidth(p, e, g)' = HaloWidth(p, e, g)
    BY SameJob
  <2>2. \A r, e, g : HeldHalo(p, r, e, g)' = HeldHalo(p, r, e, g)
    BY SameBodies
  <2>3. \A e, g : HeldHalo(p, round[p], e, g)' = HeldHalo(p, round[p], e, g)
    BY <2>2
  <2>4. Empty(p)' = Empty(p)
    BY SameJob
  <2>5. ASSUME NEW e \in Dim, e # d
        PROVE  /\ e > dim[p] /\ Holds(p, e, TRUE) => Holds(p, e, TRUE)'
               /\ e > dim[p] /\ Holds(p, e, FALSE) => Holds(p, e, FALSE)'
    <3>1. e > dim[p] => e > dim[p] + 1
      BY <1>2, <2>5 DEF Dim
    <3> QED BY <2>1, <2>3, <2>5, <3>1, ZenonT(30) DEF Holds
  <2>6. Holds(p, d, fw) => Holds(p, d, fw)'
    BY <2>1, <2>3 DEF Holds
  <2>7. Holds(p, d, ~fw) => Holds(p, d, ~fw)'
    <3>1. Side(~fw) \in pending'[p] <=> Side(~fw) \in pending[p]
      BY <1>6 DEF Side
    <3> QED BY <2>1, <2>3, <3>1 DEF Holds
  <2>8. /\ Holds(p, d, TRUE) /\ Holds(p, d, FALSE) => Holds(p, d, TRUE)' /\ Holds(p, d, FALSE)'
    <3>1. CASE fw = TRUE
      <4>1. ~fw = FALSE
        BY <3>1
      <4> QED BY <2>6, <2>7, <3>1, <4>1
    <3>2. CASE fw = FALSE
      <4>1. ~fw = TRUE
        BY <3>2
      <4> QED BY <2>6, <2>7, <3>2, <4>1
    <3> QED BY <3>1, <3>2
  <2>9. \A e : /\ HaloWidth(p, e, TRUE)' = HaloWidth(p, e, TRUE)
                /\ HaloWidth(p, e, FALSE)' = HaloWidth(p, e, FALSE)
    BY <2>1
  <2>10. ASSUME NEW e \in Dim, e > dim'[p], ~Empty(p)
         PROVE  /\ halo'[p].fwWidth[e] = HaloWidth(p, e, TRUE)'
                /\ halo'[p].bwWidth[e] = HaloWidth(p, e, FALSE)'
                /\ Holds(p, e, TRUE)' /\ Holds(p, e, FALSE)'
    <3>1. e > dim[p]
      BY <2>10
    <3>2. /\ halo[p].fwWidth[e] = HaloWidth(p, e, TRUE)
          /\ halo[p].bwWidth[e] = HaloWidth(p, e, FALSE)
          /\ Holds(p, e, TRUE) /\ Holds(p, e, FALSE)
      BY <1>1, <2>10, <3>1 DEF Filled
    <3>3. /\ halo'[p].fwWidth[e] = HaloWidth(p, e, TRUE)'
          /\ halo'[p].bwWidth[e] = HaloWidth(p, e, FALSE)'
      BY <2>9, <3>2
    <3>4. Holds(p, e, TRUE)' /\ Holds(p, e, FALSE)'
      <4>1. CASE e = d
        BY ONLY <2>8, <3>2, <4>1
      <4>2. CASE e # d
        BY ONLY <2>5, <3>1, <3>2, <4>2, e \in Dim
      <4> QED BY <4>1, <4>2
    <3> QED BY <3>3, <3>4
  <2> QED BY <2>4, <2>10 DEF Filled
<1> QED BY <1>8, <1>9, <1>10, <1>14, <1>15, <1>16, <1>17, <1>18 DEF Inv, Protocol

LEMMA ArriveFwStep ==
  ASSUME Inv, WithinSpace, NEW p \in Proc, ArriveFw(p)
  PROVE  Inv'
<1>1. PICK d : d = dim[p] + 1
  OBVIOUS
<1>2. PICK q : q = Peer(p, d, TRUE)
  OBVIOUS
<1>3. PICK R : R = Received(Oldest(net, q, p), HaloExtent(p, halo[p], d, halo[p].fwWidth[d]))
  OBVIOUS
<1>4. q = FwPeer(p, d)
  BY <1>2 DEF Peer
<1>5. /\ Side(TRUE) \in pending[p] /\ net[q][p] # << >>
      /\ halo' = [halo EXCEPT ![p].fw[d] = R]
      /\ net' = Drop(net, q, p) /\ pending' = [pending EXCEPT ![p] = @ \ {Side(TRUE)}]
      /\ job' = job /\ round' = round /\ dim' = dim
  BY <1>1, <1>3, <1>4 DEF ArriveFw, Pending, Side
<1>6. PICK w : w = halo[p].fwWidth[d]
  OBVIOUS
<1>7. w = IF TRUE THEN halo[p].fwWidth[d] ELSE halo[p].bwWidth[d]
  BY <1>6
<1>8. ~TRUE /\ q = Peer(p, d, TRUE) => Side(TRUE) \notin pending[p]
  OBVIOUS
<1>9. R = HeldHalo(p, round[p], d, TRUE) /\ R \in Slabs
  BY <1>1, <1>2, <1>3, <1>5, <1>6, <1>7, <1>8, ReceivedIs
<1>10. d \in Dim
  BY <1>1, <1>2, <1>5, <1>8, FirstIs
<1>11. halo \in [Proc -> HaloRec]
  BY DEF Inv, Typed
<1>12. PICK h : h = halo[p]
  OBVIOUS
<1>13. PICK g : g = [h EXCEPT !.fw = [h.fw EXCEPT ![d] = R]]
  OBVIOUS
<1>14. h \in HaloRec
  BY <1>11, <1>12
<1>15. /\ g \in HaloRec /\ g.fwWidth = h.fwWidth /\ g.bwWidth = h.bwWidth
       /\ g.diagonal = h.diagonal /\ g.bw = h.bw /\ g.fw[d] = R
       /\ \A e \in Dim : e # d => g.fw[e] = h.fw[e]
  <2>1. PICK F : F = [h.fw EXCEPT ![d] = R]
    OBVIOUS
  <2>2. h.fw \in [Dim -> Slabs]
    BY <1>14 DEF HaloRec
  <2>3. F \in [Dim -> Slabs] /\ F[d] = R /\ \A e \in Dim : e # d => F[e] = h.fw[e]
    BY ONLY <1>9, <1>10, <2>1, <2>2
  <2>4. g = [h EXCEPT !.fw = F]
    BY <1>13, <2>1
  <2>5. g.fw = F
    BY <1>14, <2>4 DEF HaloRec
  <2> QED BY <1>14, <2>3, <2>4, <2>5 DEF HaloRec
<1>16. halo' = [halo EXCEPT ![p] = g]
  BY <1>5, <1>12, <1>13
<1>17. /\ halo' \in [Proc -> HaloRec] /\ halo'[p] = g
       /\ \A s \in Proc : s # p => halo'[s] = halo[s]
  BY <1>11, <1>15, <1>16
<1>18. /\ halo'[p].fwWidth = halo[p].fwWidth /\ halo'[p].bwWidth = halo[p].bwWidth
       /\ halo'[p].diagonal = halo[p].diagonal
  BY <1>12, <1>15, <1>17
<1>19. Held(p, d, TRUE)' = HeldHalo(p, round[p], d, TRUE)
  BY <1>9, <1>15, <1>17 DEF Held
<1>20. \A e \in Dim : e # d => /\ Held(p, e, TRUE)' = Held(p, e, TRUE)
                               /\ Held(p, e, FALSE)' = Held(p, e, FALSE)
  BY <1>12, <1>15, <1>17 DEF Held
<1>21. Held(p, d, ~TRUE)' = Held(p, d, ~TRUE)
  BY <1>12, <1>15, <1>17 DEF Held
<1> QED BY <1>1, <1>2, <1>5, <1>8, <1>17, <1>18, <1>19, <1>20, <1>21, ArriveStep, ZenonT(30)

LEMMA ArriveBwStep ==
  ASSUME Inv, WithinSpace, NEW p \in Proc, ArriveBw(p)
  PROVE  Inv'
<1>1. PICK d : d = dim[p] + 1
  OBVIOUS
<1>2. PICK q : q = Peer(p, d, FALSE)
  OBVIOUS
<1>3. PICK R : R = Received(Oldest(net, q, p), HaloExtent(p, halo[p], d, halo[p].bwWidth[d]))
  OBVIOUS
<1>4. q = BwPeer(p, d)
  BY <1>2 DEF Peer
<1>5. /\ Side(FALSE) \in pending[p] /\ net[q][p] # << >>
      /\ halo' = [halo EXCEPT ![p].bw[d] = R]
      /\ net' = Drop(net, q, p) /\ pending' = [pending EXCEPT ![p] = @ \ {Side(FALSE)}]
      /\ job' = job /\ round' = round /\ dim' = dim
  BY <1>1, <1>3, <1>4 DEF ArriveBw, Pending, Side
<1>6. PICK w : w = halo[p].bwWidth[d]
  OBVIOUS
<1>7. w = IF FALSE THEN halo[p].fwWidth[d] ELSE halo[p].bwWidth[d]
  BY <1>6
<1>8. ~FALSE /\ q = Peer(p, d, TRUE) => Side(TRUE) \notin pending[p]
  BY <1>1, <1>4 DEF ArriveBw, Peer, Side
<1>9. R = HeldHalo(p, round[p], d, FALSE) /\ R \in Slabs
  BY <1>1, <1>2, <1>3, <1>5, <1>6, <1>7, <1>8, ReceivedIs
<1>10. d \in Dim
  BY <1>1, <1>2, <1>5, <1>8, FirstIs
<1>11. halo \in [Proc -> HaloRec]
  BY DEF Inv, Typed
<1>12. PICK h : h = halo[p]
  OBVIOUS
<1>13. PICK g : g = [h EXCEPT !.bw = [h.bw EXCEPT ![d] = R]]
  OBVIOUS
<1>14. h \in HaloRec
  BY <1>11, <1>12
<1>15. /\ g \in HaloRec /\ g.fwWidth = h.fwWidth /\ g.bwWidth = h.bwWidth
       /\ g.diagonal = h.diagonal /\ g.fw = h.fw /\ g.bw[d] = R
       /\ \A e \in Dim : e # d => g.bw[e] = h.bw[e]
  <2>1. PICK F : F = [h.bw EXCEPT ![d] = R]
    OBVIOUS
  <2>2. h.bw \in [Dim -> Slabs]
    BY <1>14 DEF HaloRec
  <2>3. F \in [Dim -> Slabs] /\ F[d] = R /\ \A e \in Dim : e # d => F[e] = h.bw[e]
    BY ONLY <1>9, <1>10, <2>1, <2>2
  <2>4. g = [h EXCEPT !.bw = F]
    BY <1>13, <2>1
  <2>5. g.bw = F
    BY <1>14, <2>4 DEF HaloRec
  <2> QED BY <1>14, <2>3, <2>4, <2>5 DEF HaloRec
<1>16. halo' = [halo EXCEPT ![p] = g]
  BY <1>5, <1>12, <1>13
<1>17. /\ halo' \in [Proc -> HaloRec] /\ halo'[p] = g
       /\ \A s \in Proc : s # p => halo'[s] = halo[s]
  BY <1>11, <1>15, <1>16
<1>18. /\ halo'[p].fwWidth = halo[p].fwWidth /\ halo'[p].bwWidth = halo[p].bwWidth
       /\ halo'[p].diagonal = halo[p].diagonal
  BY <1>12, <1>15, <1>17
<1>19. Held(p, d, FALSE)' = HeldHalo(p, round[p], d, FALSE)
  BY <1>9, <1>15, <1>17 DEF Held
<1>20. \A e \in Dim : e # d => /\ Held(p, e, TRUE)' = Held(p, e, TRUE)
                               /\ Held(p, e, FALSE)' = Held(p, e, FALSE)
  BY <1>12, <1>15, <1>17 DEF Held
<1>21. Held(p, d, ~FALSE)' = Held(p, d, ~FALSE)
  BY <1>12, <1>15, <1>17 DEF Held
<1> QED BY <1>1, <1>2, <1>5, <1>8, <1>17, <1>18, <1>19, <1>20, <1>21, ArriveStep, ZenonT(30)

\* What p has sent to t on network n, in order.
Carries(n, p, t, W) == \E f : Lists(f, W) /\ n[p][t] = Bodies(p, f)

\* What p does with the network for these accesses: it sends a slab, if there
\* is one to send, after those of W and from a buffer that none of them uses.
Stage(n, p, d, fw, h, n2) ==
  n2 = IF Width(d, fw) > 0 /\ Borders(p, d, ~fw)
       THEN SendSlab(n, p, Peer(p, d, ~fw), h, d, Width(d, fw), fw) ELSE n
Follow(p, d, fw, W) ==
  \A t \in Proc : \A m \in W[t] :
    /\ Earlier(m, KeyOf(round[p], d, fw))
    /\ Buffer(m.round, m.dim, m.fw) # Buffer(round[p], d, fw)
Carried(n, p, W)   == \A t \in Proc : Carries(n, p, t, W[t])
Added(p, d, fw, W) == [t \in Proc |-> W[t] \cup {m \in {KeyOf(round[p], d, fw)} : Slot(p, t, d, fw)}]

\* The network after the stage.
Staged(n, p, d, fw, W, n2) ==
  /\ n2 \in [Proc -> [Proc -> Seq(Msg)]]
  /\ \A s, t \in Proc : s # p => n2[s][t] = n[s][t]
  /\ Carried(n2, p, Added(p, d, fw, W))

LEMMA SendStage ==
  ASSUME Typed, WithinSpace, NEW n \in [Proc -> [Proc -> Seq(Msg)]], NEW p \in Proc, ~Empty(p),
         NEW d \in Dim, NEW fw \in BOOLEAN, NEW h, Complete(p, h, round[p], d),
         NEW W \in [Proc -> SUBSET Key], Carried(n, p, W), Follow(p, d, fw, W),
         NEW n2, Stage(n, p, d, fw, h, n2)
  PROVE  Staged(n, p, d, fw, W, n2)
<1> SUFFICES ASSUME NEW k, k = KeyOf(round[p], d, fw), NEW q, q = Peer(p, d, ~fw)
             PROVE  /\ n2 \in [Proc -> [Proc -> Seq(Msg)]]
                    /\ \A s, t \in Proc : s # p => n2[s][t] = n[s][t]
                    /\ \A t \in Proc : Carries(n2, p, t, W[t] \cup {m \in {k} : Slot(p, t, d, fw)})
  BY DEF Staged, Carried, Added
<1>0. /\ \A t \in Proc : Carries(n, p, t, W[t])
      /\ \A t \in Proc : \A m \in W[t] :
           Earlier(m, k) /\ Buffer(m.round, m.dim, m.fw) # Buffer(round[p], d, fw)
      /\ n2 = IF Width(d, fw) > 0 /\ Borders(p, d, ~fw)
              THEN SendSlab(n, p, q, h, d, Width(d, fw), fw) ELSE n
  BY DEF Carried, Follow, Stage
<1>1. Known /\ round[p] \in Nat
  BY DEF Typed
<1>2. k \in Key /\ k.round = round[p] /\ k.dim = d /\ k.fw = fw
  BY <1>1, KeyFacts
<1>3. \A t \in Proc : Slot(p, t, d, fw) <=>
        Width(d, fw) > 0 /\ Borders(p, d, ~fw) /\ t = q
  BY <1>1, Slots
<1>4. CASE ~(Width(d, fw) > 0 /\ Borders(p, d, ~fw))
  <2>1. n2 = n
    BY <1>0, <1>4
  <2>2. \A t \in Proc : W[t] \cup {m \in {k} : Slot(p, t, d, fw)} = W[t]
    BY <1>3, <1>4
  <2> QED BY <1>0, <2>1, <2>2
<1>5. CASE Width(d, fw) > 0 /\ Borders(p, d, ~fw)
  <2>1. q \in Proc
    BY <1>1, PeerFacts DEF Peer
  <2>2. PICK b : b = Buffer(round[p], d, fw)
    OBVIOUS
  <2>3. \A t \in Proc : \A i \in DOMAIN n[p][t] : n[p][t][i].buffer \notin {b}
    <3>1. SUFFICES ASSUME NEW t \in Proc, NEW i \in DOMAIN n[p][t] PROVE n[p][t][i].buffer # b
      OBVIOUS
    <3>2. PICK f : Lists(f, W[t]) /\ n[p][t] = Bodies(p, f)
      BY <1>0 DEF Carries
    <3>3. i \in 1 .. Len(f) /\ n[p][t][i] = MessageOf(p, f[i])
      BY <3>1, <3>2 DEF Bodies
    <3>4. PICK m \in Key : m = f[i] /\ m \in W[t]
      BY <3>2, <3>3 DEF Lists
    <3>5. n[p][t][i].buffer = Buffer(m.round, m.dim, m.fw)
      BY <1>1, <3>3, <3>4, MessageTyped
    <3> QED BY <1>0, <2>2, <3>4, <3>5
  <2>4. Overwrite(n, p, {b}) = n
    BY <2>3, OverwriteSame
  <2>5. Slab(p, h, d, Width(d, fw), fw) = SentSlab(p, round[p], d, fw)
    BY <1>1, SlabIs
  <2>6. PICK c : c = MessageOf(p, k)
    OBVIOUS
  <2>7. c \in Msg /\ c = Message(SentSlab(p, round[p], d, fw), b)
    <3>1. MessageOf(p, k) \in Msg
      BY <1>1, <1>2, MessageTyped
    <3> QED BY <1>2, <2>2, <2>6, <3>1 DEF MessageOf
  <2>8. n2 = Put(n, p, q, c)
    <3>1. n2 = SendSlab(n, p, q, h, d, Width(d, fw), fw)
      BY <1>0, <1>5
    <3>2. SendSlab(n, p, q, h, d, Width(d, fw), fw)
            = Put(n, p, q, Message(Slab(p, h, d, Width(d, fw), fw), b))
      BY <2>2, <2>4 DEF SendSlab
    <3> QED BY <2>5, <2>7, <3>1, <3>2
  <2>9. PICK a \in Seq(Msg) : a = Append(n[p][q], c)
    <3>1. PICK o \in Seq(Msg) : o = n[p][q]
      BY <2>1
    <3>2. Append(o, c) \in Seq(Msg)
      BY ONLY <2>7, <3>1
    <3> QED BY <3>1, <3>2
  <2>10. n2 = [n EXCEPT ![p][q] = a]
    BY <2>1, <2>8, <2>9 DEF Put
  <2>11. /\ n2 \in [Proc -> [Proc -> Seq(Msg)]] /\ n2[p][q] = a
         /\ \A s, t \in Proc : s # p \/ t # q => n2[s][t] = n[s][t]
    BY ONLY <2>1, <2>9, <2>10, n \in [Proc -> [Proc -> Seq(Msg)]], p \in Proc, NetUpdate
  <2>12. ASSUME NEW t \in Proc, t # q
         PROVE  Carries(n2, p, t, W[t] \cup {m \in {k} : Slot(p, t, d, fw)})
    <3>1. W[t] \cup {m \in {k} : Slot(p, t, d, fw)} = W[t]
      BY <1>3, <2>12
    <3>2. n2[p][t] = n[p][t]
      BY <2>11, <2>12
    <3> QED BY <1>0, <3>1, <3>2 DEF Carries
  <2>13. Carries(n2, p, q, W[q] \cup {m \in {k} : Slot(p, q, d, fw)})
    <3>1. W[q] \cup {m \in {k} : Slot(p, q, d, fw)} = W[q] \cup {k}
      BY <1>3, <1>5, <2>1
    <3>2. PICK f : Lists(f, W[q]) /\ n[p][q] = Bodies(p, f)
      BY <1>0, <2>1 DEF Carries
    <3>3. W[q] \in SUBSET Key /\ \A m \in W[q] : Earlier(m, k)
      BY <1>0, <2>1
    <3>4. /\ Lists(Append(f, k), W[q] \cup {k})
          /\ Bodies(p, Append(f, k)) = Append(Bodies(p, f), MessageOf(p, k))
      <4>1. PICK V \in SUBSET Key : V = W[q]
        BY <3>3
      <4>2. Lists(f, V) /\ \A m \in V : Earlier(m, k)
        BY <3>2, <3>3, <4>1
      <4>3. /\ Lists(Append(f, k), V \cup {k})
            /\ Bodies(p, Append(f, k)) = Append(Bodies(p, f), MessageOf(p, k))
        BY ONLY <1>2, <4>1, <4>2, ListsAppend
      <4> QED BY <4>1, <4>3
    <3>5. n2[p][q] = Bodies(p, Append(f, k))
      BY <2>6, <2>9, <2>11, <3>2, <3>4
    <3> QED BY <3>1, <3>4, <3>5 DEF Carries
  <2>14. \A t \in Proc : Carries(n2, p, t, W[t] \cup {m \in {k} : Slot(p, t, d, fw)})
    BY ONLY <2>12, <2>13
  <2>15. \A s, t \in Proc : s # p => n2[s][t] = n[s][t]
    BY ONLY <2>11
  <2> QED BY <2>11, <2>14, <2>15
<1> QED BY <1>4, <1>5

\* An exchange of a process without points: it sends and receives nothing.
LEMMA ExchangeEmpty ==
  ASSUME Inv, WithinSpace, NEW p \in Proc, Exchange(p), Empty(p)
  PROVE  Inv'
<1>1. /\ Typed /\ Known /\ \A q \in Proc : Place(q) /\ Filled(q)
      /\ \A s, t \in Proc : Channel(s, t) /\ Causal(s, t)
  BY DEF Inv, Typed, Protocol
<1>2. /\ round \in [Proc -> 0 .. MaxRounds] /\ dim \in [Proc -> 0 .. NDims]
      /\ pending \in [Proc -> SUBSET {"fw", "bw"}] /\ halo \in [Proc -> HaloRec]
      /\ net \in [Proc -> [Proc -> Seq(Msg)]]
      /\ MaxRounds \in Nat /\ NDims \in Nat /\ NDims >= 1
  BY <1>1, HaloAssumption DEF Typed
<1>3. /\ round[p] < MaxRounds /\ dim[p] > 0 /\ pending[p] = {}
      /\ dim' = [dim EXCEPT ![p] = @ - 1]
      /\ net' = net /\ round' = round /\ job' = job /\ pending' = pending /\ halo' = halo
  BY DEF Exchange
<1>4. dim'[p] = dim[p] - 1 /\ \A q \in Proc : q # p => dim'[q] = dim[q]
  BY <1>2, <1>3
<1>5. Known' /\ Proc' = Proc
  BY <1>1, <1>3, SameJob
<1>6. Typed'
  <2>1. dim' \in [Proc -> 0 .. NDims]
    BY <1>2, <1>3
  <2> QED BY <1>2, <1>3, <1>5, <2>1 DEF Typed
<1>7. ASSUME NEW q \in Proc PROVE Place(q)'
  <2>1. \A d, fw : Awaits(q, d, fw)' = Awaits(q, d, fw)
    BY <1>3, SameJob
  <2>2. CASE q = p
    BY <1>2, <1>3, <1>4, <2>2 DEF Place
  <2>3. CASE q # p
    BY <1>1, <1>3, <1>4, <2>1, <2>3 DEF Place
  <2> QED BY <2>2, <2>3
<1>8. ASSUME NEW q \in Proc, NEW t \in Proc, NEW k \in Key, Slot(q, t, k.dim, k.fw)
      PROVE  (Sent(q, k)' <=> Sent(q, k)) /\ (Taken(t, k)' <=> Taken(t, k))
  <2>1. k.dim \in Dim /\ k.fw \in BOOLEAN
    BY DEF Key
  <2>2. ~Empty(q) /\ ~Empty(t)
    BY <1>1, <1>8, <2>1, Slots DEF Slot, Awaits
  <2>3. q # p /\ t # p
    BY <2>2
  <2> QED BY <1>3, <1>4, <2>3 DEF Sent, Taken
<1>9. \A q, t \in Proc : Channel(q, t)' /\ Causal(q, t)'
  BY <1>1, <1>3, <1>8, SameWays
<1>10. ASSUME NEW q \in Proc PROVE Filled(q)'
  <2>1. CASE q = p
    <3>1. Empty(p)'
      BY <1>3, SameJob
    <3> QED BY <2>1, <3>1 DEF Filled
  <2>2. CASE q # p
    BY <1>1, <1>3, <1>4, <2>2, SameFilled
  <2> QED BY <2>1, <2>2
<1> QED BY <1>5, <1>6, <1>7, <1>9, <1>10 DEF Inv, Protocol

\* What an exchange of a process with points does to its own state.
Exchanged(p, d, h, n1) ==
  /\ d \in Dim /\ d = dim[p] /\ round[p] < MaxRounds /\ pending[p] = {}
  /\ job' = job /\ round' = round /\ dim' = [dim EXCEPT ![p] = d - 1]
  /\ h \in HaloRec /\ h.fw = halo[p].fw /\ h.bw = halo[p].bw
  /\ h.fwWidth = [halo[p].fwWidth EXCEPT ![d] = HaloWidth(p, d, TRUE)]
  /\ h.bwWidth = [halo[p].bwWidth EXCEPT ![d] = HaloWidth(p, d, FALSE)]
  /\ h.diagonal = IF \E fw \in BOOLEAN : Width(d, fw) > 0 /\ Borders(p, d, ~fw)
                  THEN job.diagonal ELSE halo[p].diagonal
  /\ halo' = [halo EXCEPT ![p] = h]
  /\ \A fw \in BOOLEAN :
       Side(fw) \in pending'[p] <=> Width(d, fw) > 0 /\ Borders(p, d, fw)
  /\ pending' \in [Proc -> SUBSET {"fw", "bw"}]
  /\ \A q \in Proc : q # p => pending'[q] = pending[q]
  /\ Stage(net, p, d, TRUE, h, n1) /\ Stage(n1, p, d, FALSE, h, net')

LEMMA ExchangeParts ==
  ASSUME Typed, NEW p \in Proc, Exchange(p), ~Empty(p)
  PROVE  \E d, h, n1 : Exchanged(p, d, h, n1)
<1>1. PICK d : d = dim[p]
  OBVIOUS
<1>2. PICK aFw : aFw = (Width(d, TRUE) > 0 /\ Borders(p, d, TRUE))
  OBVIOUS
<1>3. PICK aBw : aBw = (Width(d, FALSE) > 0 /\ Borders(p, d, FALSE))
  OBVIOUS
<1>4. PICK sFw : sFw = (Width(d, TRUE) > 0 /\ Borders(p, d, ~TRUE))
  OBVIOUS
<1>5. PICK sBw : sBw = (Width(d, FALSE) > 0 /\ Borders(p, d, ~FALSE))
  OBVIOUS
<1>6. /\ aFw = (job.fwWidth[d] > 0 /\ HasFw(p, d)) /\ aBw = (job.bwWidth[d] > 0 /\ HasBw(p, d))
      /\ sFw = (job.fwWidth[d] > 0 /\ HasBw(p, d)) /\ sBw = (job.bwWidth[d] > 0 /\ HasFw(p, d))
  BY <1>2, <1>3, <1>4, <1>5 DEF Width, Borders
<1>7. PICK h : h = [halo[p] EXCEPT
                      !.fwWidth[d] = IF aFw THEN job.fwWidth[d] ELSE 0,
                      !.bwWidth[d] = IF aBw THEN job.bwWidth[d] ELSE 0,
                      !.diagonal = IF sFw \/ sBw THEN job.diagonal ELSE @]
  OBVIOUS
<1>8. PICK n1 : n1 = IF sFw THEN SendSlab(net, p, BwPeer(p, d), h, d, job.fwWidth[d], TRUE)
                     ELSE net
  OBVIOUS
<1>9. PICK n2 : n2 = IF sBw THEN SendSlab(n1, p, FwPeer(p, d), h, d, job.bwWidth[d], FALSE)
                     ELSE n1
  OBVIOUS
<1>10. /\ round[p] < MaxRounds /\ d > 0 /\ pending[p] = {}
       /\ dim' = [dim EXCEPT ![p] = @ - 1] /\ job' = job /\ round' = round
       /\ halo' = [halo EXCEPT ![p] = h]
       /\ pending' = [pending EXCEPT ![p] = {x \in {"fw", "bw"} : \/ x = "fw" /\ aFw
                                                                  \/ x = "bw" /\ aBw}]
       /\ net' = n2
  BY <1>1, <1>6, <1>7, <1>8, <1>9 DEF Exchange
<1>11. /\ Known /\ dim \in [Proc -> 0 .. NDims] /\ NDims \in Nat
       /\ pending \in [Proc -> SUBSET {"fw", "bw"}] /\ halo[p] \in HaloRec
  BY HaloAssumption DEF Typed
<1>12. d \in Dim
  BY <1>1, <1>10, <1>11 DEF Dim
<1>13. dim' = [dim EXCEPT ![p] = d - 1]
  BY <1>1, <1>10
<1>14. /\ HaloWidth(p, d, TRUE) = IF aFw THEN job.fwWidth[d] ELSE 0
       /\ HaloWidth(p, d, FALSE) = IF aBw THEN job.bwWidth[d] ELSE 0
  BY <1>6 DEF HaloWidth, Width, Borders
<1>15. HaloWidth(p, d, TRUE) \in Nat /\ HaloWidth(p, d, FALSE) \in Nat
  BY <1>11, <1>12, ExtentFacts
<1>16. /\ h \in HaloRec /\ h.fw = halo[p].fw /\ h.bw = halo[p].bw
       /\ h.fwWidth = [halo[p].fwWidth EXCEPT ![d] = HaloWidth(p, d, TRUE)]
       /\ h.bwWidth = [halo[p].bwWidth EXCEPT ![d] = HaloWidth(p, d, FALSE)]
       /\ h.diagonal = IF sFw \/ sBw THEN job.diagonal ELSE halo[p].diagonal
  <2>1. PICK g \in HaloRec : g = halo[p]
    BY <1>11
  <2>2. PICK a \in Nat : a = HaloWidth(p, d, TRUE)
    BY <1>15
  <2>3. PICK b \in Nat : b = HaloWidth(p, d, FALSE)
    BY <1>15
  <2>4. PICK A : A = [g.fwWidth EXCEPT ![d] = a]
    OBVIOUS
  <2>5. PICK B : B = [g.bwWidth EXCEPT ![d] = b]
    OBVIOUS
  <2>6. g.fwWidth \in Widths /\ g.bwWidth \in Widths
    BY <2>1 DEF HaloRec
  <2>7. A \in Widths /\ B \in Widths
    BY ONLY <1>12, <2>2, <2>3, <2>4, <2>5, <2>6 DEF Widths
  <2>8. PICK D : D = IF sFw \/ sBw THEN job.diagonal ELSE g.diagonal
    OBVIOUS
  <2>9. D \in BOOLEAN
    <3>1. job.diagonal \in BOOLEAN
      BY <1>11, JobFacts
    <3>2. g.diagonal \in BOOLEAN
      BY <2>1 DEF HaloRec
    <3> QED BY ONLY <2>8, <3>1, <3>2
  <2>10. h = [g EXCEPT !.fwWidth = A, !.bwWidth = B, !.diagonal = D]
    BY <1>7, <1>14, <2>1, <2>2, <2>3, <2>4, <2>5, <2>8 DEF HaloRec
  <2>11. /\ h \in HaloRec /\ h.fw = g.fw /\ h.bw = g.bw /\ h.fwWidth = A /\ h.bwWidth = B
         /\ h.diagonal = D
    BY ONLY <2>1, <2>7, <2>9, <2>10 DEF HaloRec
  <2> QED BY <2>1, <2>2, <2>3, <2>4, <2>5, <2>8, <2>11
<1>17. (\E fw \in BOOLEAN : Width(d, fw) > 0 /\ Borders(p, d, ~fw)) <=> sFw \/ sBw
  BY <1>6 DEF Width, Borders
<1>18. \A fw \in BOOLEAN : Side(fw) \in pending'[p] <=> Width(d, fw) > 0 /\ Borders(p, d, fw)
  <2>1. "fw" \in pending'[p] <=> aFw
    BY <1>10, <1>11
  <2>2. "bw" \in pending'[p] <=> aBw
    BY <1>10, <1>11
  <2> QED BY <1>6, <2>1, <2>2 DEF Side, Width, Borders
<1>19. /\ pending' \in [Proc -> SUBSET {"fw", "bw"}]
       /\ \A q \in Proc : q # p => pending'[q] = pending[q]
  BY <1>10, <1>11
<1>20. Stage(net, p, d, TRUE, h, n1)
  BY <1>4, <1>8 DEF Stage, Peer, Width
<1>21. Stage(n1, p, d, FALSE, h, n2)
  BY <1>5, <1>9 DEF Stage, Peer, Width
<1>22. Exchanged(p, d, h, n1)
  BY <1>1, <1>10, <1>12, <1>13, <1>16, <1>17, <1>18, <1>19, <1>20, <1>21 DEF Exchanged
<1> QED BY <1>22

\* The slabs of an exchange follow what the process has sent before.
LEMMA ExchangeSends ==
  ASSUME Inv, WithinSpace, TwoWay, NEW p \in Proc, ~Empty(p), NEW d, NEW h, NEW n1,
         Exchanged(p, d, h, n1)
  PROVE  /\ net' \in [Proc -> [Proc -> Seq(Msg)]]
         /\ \A s, t \in Proc : s # p => net'[s][t] = net[s][t]
         /\ Carried(net', p, Added(p, d, FALSE, Added(p, d, TRUE, [t \in Proc |-> Way(p, t)])))
<1>1. /\ Typed /\ Known /\ Filled(p)
      /\ \A s, t \in Proc : Channel(s, t) /\ Causal(s, t)
  BY DEF Inv, Typed, Protocol
<1>2. /\ d \in Dim /\ d = dim[p] /\ pending[p] = {} /\ round[p] \in Nat
      /\ net \in [Proc -> [Proc -> Seq(Msg)]]
  BY <1>1 DEF Exchanged, Typed
<1>3. Complete(p, halo[p], round[p], d)
  BY <1>1, <1>2, CompleteIs
<1>4. Complete(p, h, round[p], d)
  <2>1. /\ h.fw = halo[p].fw /\ h.bw = halo[p].bw
        /\ h.fwWidth = [halo[p].fwWidth EXCEPT ![d] = HaloWidth(p, d, TRUE)]
        /\ h.bwWidth = [halo[p].bwWidth EXCEPT ![d] = HaloWidth(p, d, FALSE)]
        /\ h.diagonal = job.diagonal \/ h.diagonal = halo[p].diagonal
    BY DEF Exchanged
  <2>2. halo[p].fwWidth \in Widths /\ halo[p].bwWidth \in Widths
    BY <1>1 DEF Typed, HaloRec
  <2>3. \A e \in Dim : e > d => h.fwWidth[e] = halo[p].fwWidth[e] /\ h.bwWidth[e] = halo[p].bwWidth[e]
    <3>1. \A e \in Dim : e > d => e # d
      BY <1>2 DEF Dim
    <3> QED BY <2>1, <2>2, <3>1 DEF Widths
  <2>4. SUFFICES ASSUME NEW e \in Dim, e > d
                 PROVE  /\ h.fwWidth[e] = HaloWidth(p, e, TRUE)
                        /\ h.bwWidth[e] = HaloWidth(p, e, FALSE)
                        /\ HaloWidth(p, e, TRUE) > 0 =>
                             h.diagonal = job.diagonal /\ h.fw[e] = HeldHalo(p, round[p], e, TRUE)
                        /\ HaloWidth(p, e, FALSE) > 0 =>
                             h.diagonal = job.diagonal /\ h.bw[e] = HeldHalo(p, round[p], e, FALSE)
    BY DEF Complete
  <2>5. /\ halo[p].fwWidth[e] = HaloWidth(p, e, TRUE)
        /\ halo[p].bwWidth[e] = HaloWidth(p, e, FALSE)
        /\ HaloWidth(p, e, TRUE) > 0 =>
             halo[p].diagonal = job.diagonal /\ halo[p].fw[e] = HeldHalo(p, round[p], e, TRUE)
        /\ HaloWidth(p, e, FALSE) > 0 =>
             halo[p].diagonal = job.diagonal /\ halo[p].bw[e] = HeldHalo(p, round[p], e, FALSE)
    BY <1>3, <2>4 DEF Complete
  <2>6. h.fwWidth[e] = halo[p].fwWidth[e] /\ h.bwWidth[e] = halo[p].bwWidth[e]
    BY <2>3, <2>4
  <2> QED BY <2>1, <2>5, <2>6
<1>5. PICK a : a = KeyOf(round[p], d, TRUE)
  OBVIOUS
<1>6. PICK b : b = KeyOf(round[p], d, FALSE)
  OBVIOUS
<1>7. /\ a \in Key /\ a.round = round[p] /\ a.dim = d /\ a.fw = TRUE
      /\ b \in Key /\ b.round = round[p] /\ b.dim = d /\ b.fw = FALSE
  BY <1>2, <1>5, <1>6, KeyFacts, ZenonT(30)
<1>8. ASSUME NEW t \in Proc, NEW m \in Way(p, t)
      PROVE  /\ Earlier(m, a) /\ Earlier(m, b)
             /\ Buffer(m.round, m.dim, m.fw) # Buffer(round[p], d, TRUE)
             /\ Buffer(m.round, m.dim, m.fw) # Buffer(round[p], d, FALSE)
  <2>1. m \in Key /\ Sent(p, m)
    BY DEF Way
  <2>2. Earlier(m, a) /\ Earlier(m, b)
    BY <1>2, <1>7, <2>1 DEF Sent, Earlier
  <2>3. \A fw \in BOOLEAN : Buffer(m.round, m.dim, m.fw) # Buffer(round[p], dim[p], fw)
    BY SendsDone
  <2> QED BY <1>2, <2>2, <2>3
<1>9. PICK W : W = [t \in Proc |-> Way(p, t)]
  OBVIOUS
<1>10. /\ W \in [Proc -> SUBSET Key] /\ \A t \in Proc : W[t] = Way(p, t)
  BY <1>9 DEF Way
<1>11. Carried(net, p, W)
  BY <1>1, <1>10 DEF Carried, Carries, Channel
<1>12. Follow(p, d, TRUE, W)
  BY <1>5, <1>8, <1>10 DEF Follow
<1>13. Stage(net, p, d, TRUE, h, n1)
  BY DEF Exchanged
<1>14. PICK V : V = Added(p, d, TRUE, W)
  OBVIOUS
<1>15. /\ n1 \in [Proc -> [Proc -> Seq(Msg)]]
       /\ \A s, t \in Proc : s # p => n1[s][t] = net[s][t]
       /\ Carried(n1, p, V)
  <2>1. PICK g \in BOOLEAN : g = TRUE
    OBVIOUS
  <2>2. Follow(p, d, g, W) /\ Stage(net, p, d, g, h, n1) /\ V = Added(p, d, g, W)
    BY <1>12, <1>13, <1>14, <2>1
  <2>3. Staged(net, p, d, g, W, n1)
    <3>1. net \in [Proc -> [Proc -> Seq(Msg)]] /\ W \in [Proc -> SUBSET Key]
      BY <1>2, <1>10
    <3>2. Typed /\ d \in Dim
      BY <1>1, <1>2
    <3> QED BY <1>4, <1>11, <2>2, <3>1, <3>2, SendStage
  <2> QED BY <2>2, <2>3 DEF Staged
<1>16. V = [t \in Proc |-> W[t] \cup {m \in {a} : Slot(p, t, d, TRUE)}]
  BY <1>5, <1>14 DEF Added
<1>17. /\ V \in [Proc -> SUBSET Key]
       /\ \A t \in Proc : \A m \in V[t] : m \in Way(p, t) \/ m = a
  <2>1. \A t \in Proc : V[t] = Way(p, t) \cup {m \in {a} : Slot(p, t, d, TRUE)}
    BY <1>10, <1>16
  <2>2. \A t \in Proc : V[t] \in SUBSET Key
    BY <1>7, <2>1 DEF Way
  <2> QED BY <1>16, <2>1, <2>2
<1>18. Follow(p, d, FALSE, V)
  <2>1. SUFFICES ASSUME NEW t \in Proc, NEW m \in V[t]
                 PROVE  /\ Earlier(m, b)
                        /\ Buffer(m.round, m.dim, m.fw) # Buffer(round[p], d, FALSE)
    BY <1>6 DEF Follow
  <2>2. m \in Way(p, t) \/ m = a
    BY <1>17
  <2>3. CASE m = a
    BY <1>7, <2>3 DEF Earlier, Buffer
  <2> QED BY <1>8, <2>2, <2>3
<1>19. PICK n2 : n2 = net'
  OBVIOUS
<1>20. Stage(n1, p, d, FALSE, h, n2)
  BY <1>19 DEF Exchanged
<1>21. /\ n2 \in [Proc -> [Proc -> Seq(Msg)]]
       /\ \A s, t \in Proc : s # p => n2[s][t] = n1[s][t]
       /\ Carried(n2, p, Added(p, d, FALSE, V))
  <2>1. PICK g \in BOOLEAN : g = FALSE
    OBVIOUS
  <2>2. Follow(p, d, g, V) /\ Stage(n1, p, d, g, h, n2)
    BY <1>18, <1>20, <2>1
  <2>3. Staged(n1, p, d, g, V, n2)
    <3>1. n1 \in [Proc -> [Proc -> Seq(Msg)]] /\ Carried(n1, p, V) /\ V \in [Proc -> SUBSET Key]
      BY <1>15, <1>17
    <3>2. Typed /\ d \in Dim
      BY <1>1, <1>2
    <3> QED BY <1>4, <2>2, <3>1, <3>2, SendStage
  <2> QED BY <2>1, <2>3 DEF Staged
<1> QED BY <1>9, <1>14, <1>15, <1>19, <1>21, ZenonT(30)

\* The halos after an exchange: those of the later dimensions, and the
\* receives of this one.
LEMMA ExchangeFilled ==
  ASSUME Inv, WithinSpace, TwoWay, NEW p \in Proc, ~Empty(p), NEW d, NEW h, NEW n1,
         Exchanged(p, d, h, n1)
  PROVE  Filled(p)'
<1>1. Typed /\ Known /\ Filled(p)
  BY DEF Inv, Typed
<1>2. /\ d \in Dim /\ d = dim[p] /\ pending[p] = {} /\ job' = job /\ round' = round
      /\ halo'[p] = h /\ dim'[p] = d - 1
      /\ h.fw = halo[p].fw /\ h.bw = halo[p].bw
      /\ h.diagonal = IF \E fw \in BOOLEAN : Width(d, fw) > 0 /\ Borders(p, d, ~fw)
                      THEN job.diagonal ELSE halo[p].diagonal
      /\ \A fw \in BOOLEAN :
           Side(fw) \in pending'[p] <=> Width(d, fw) > 0 /\ Borders(p, d, fw)
  BY <1>1 DEF Exchanged, Typed
<1>3. /\ h.fwWidth[d] = HaloWidth(p, d, TRUE) /\ h.bwWidth[d] = HaloWidth(p, d, FALSE)
      /\ \A e \in Dim : e # d => /\ h.fwWidth[e] = halo[p].fwWidth[e]
                                 /\ h.bwWidth[e] = halo[p].bwWidth[e]
  <2>1. halo[p].fwWidth \in Widths /\ halo[p].bwWidth \in Widths
    BY <1>1 DEF Typed, HaloRec
  <2>2. /\ h.fwWidth = [halo[p].fwWidth EXCEPT ![d] = HaloWidth(p, d, TRUE)]
        /\ h.bwWidth = [halo[p].bwWidth EXCEPT ![d] = HaloWidth(p, d, FALSE)]
    BY DEF Exchanged
  <2> QED BY <1>2, <2>1, <2>2 DEF Widths
<1>4. /\ \A e, fw : HaloWidth(p, e, fw)' = HaloWidth(p, e, fw)
      /\ \A e : /\ HaloWidth(p, e, TRUE)' = HaloWidth(p, e, TRUE)
                /\ HaloWidth(p, e, FALSE)' = HaloWidth(p, e, FALSE)
  BY <1>2, SameJob
<1>5. \A e, fw : HeldHalo(p, round[p], e, fw)' = HeldHalo(p, round[p], e, fw)
  <2>1. \A r, e, fw : HeldHalo(p, r, e, fw)' = HeldHalo(p, r, e, fw)
    BY <1>2, SameBodies
  <2> QED BY <1>2, <2>1
<1>6. ASSUME NEW e \in Dim, e > d PROVE
        /\ halo'[p].fwWidth[e] = HaloWidth(p, e, TRUE)'
        /\ halo'[p].bwWidth[e] = HaloWidth(p, e, FALSE)'
        /\ Holds(p, e, TRUE)' /\ Holds(p, e, FALSE)'
  <2>1. /\ halo[p].fwWidth[e] = HaloWidth(p, e, TRUE)
        /\ halo[p].bwWidth[e] = HaloWidth(p, e, FALSE)
        /\ Holds(p, e, TRUE) /\ Holds(p, e, FALSE)
    BY <1>1, <1>2, <1>6 DEF Filled
  <2>2. e # d
    BY <1>2, <1>6 DEF Dim
  <2>3. Held(p, e, TRUE)' = Held(p, e, TRUE) /\ Held(p, e, FALSE)' = Held(p, e, FALSE)
    BY <1>2 DEF Held
  <2>4. h.diagonal = job.diagonal \/ h.diagonal = halo[p].diagonal
    BY <1>2
  <2>5. Holds(p, e, TRUE)'
    BY <1>2, <1>4, <1>5, <2>1, <2>3, <2>4 DEF Holds
  <2>6. Holds(p, e, FALSE)'
    BY <1>2, <1>4, <1>5, <2>1, <2>3, <2>4 DEF Holds
  <2>7. /\ halo'[p].fwWidth[e] = HaloWidth(p, e, TRUE)'
        /\ halo'[p].bwWidth[e] = HaloWidth(p, e, FALSE)'
    BY <1>2, <1>3, <1>4, <2>1, <2>2
  <2> QED BY <2>5, <2>6, <2>7
<1>7. ASSUME NEW fw \in BOOLEAN, HaloWidth(p, d, fw) > 0
      PROVE  Side(fw) \in pending'[p] /\ h.diagonal = job.diagonal
  <2>1. Width(d, fw) > 0 /\ Borders(p, d, fw)
    BY <1>7 DEF HaloWidth
  <2>2. Width(d, ~fw) > 0
    BY <1>1, <1>2, <2>1, TwoSided DEF Width
  <2>3. PICK g \in BOOLEAN : g = ~fw
    OBVIOUS
  <2>4. ~g = fw
    BY <2>3
  <2>5. Width(d, g) > 0 /\ Borders(p, d, ~g)
    BY <2>1, <2>2, <2>3, <2>4
  <2> QED BY <1>2, <2>1, <2>5
<1>8. Holds(p, d, TRUE)' /\ Holds(p, d, FALSE)'
  <2>1. ~(d > d - 1 + 1)
    BY <1>2 DEF Dim
  <2>2. Holds(p, d, TRUE)'
    BY <1>2, <1>4, <1>7, <2>1 DEF Holds
  <2>3. Holds(p, d, FALSE)'
    BY <1>2, <1>4, <1>7, <2>1 DEF Holds
  <2> QED BY <2>2, <2>3
<1>9. ASSUME NEW e \in Dim, e > dim'[p] PROVE
        /\ halo'[p].fwWidth[e] = HaloWidth(p, e, TRUE)'
        /\ halo'[p].bwWidth[e] = HaloWidth(p, e, FALSE)'
        /\ Holds(p, e, TRUE)' /\ Holds(p, e, FALSE)'
  <2>1. CASE e = d
    <3>1. /\ halo'[p].fwWidth[e] = HaloWidth(p, e, TRUE)'
          /\ halo'[p].bwWidth[e] = HaloWidth(p, e, FALSE)'
      BY <1>2, <1>3, <1>4, <2>1
    <3> QED BY <1>8, <2>1, <3>1
  <2>2. e > d \/ e = d
    BY <1>2, <1>9 DEF Dim
  <2> QED BY <1>6, <2>1, <2>2
<1> QED BY <1>9 DEF Filled

\* An exchange of a process with points.
LEMMA ExchangeFull ==
  ASSUME Inv, WithinSpace, TwoWay, NEW p \in Proc, ~Empty(p), NEW d, NEW h, NEW n1,
         Exchanged(p, d, h, n1)
  PROVE  Inv'
<1>1. /\ Typed /\ Known /\ \A q \in Proc : Place(q) /\ Filled(q)
      /\ \A s, t \in Proc : Channel(s, t) /\ Causal(s, t)
  BY DEF Inv, Typed, Protocol
<1>2. /\ round \in [Proc -> 0 .. MaxRounds] /\ dim \in [Proc -> 0 .. NDims]
      /\ pending \in [Proc -> SUBSET {"fw", "bw"}] /\ halo \in [Proc -> HaloRec]
      /\ net \in [Proc -> [Proc -> Seq(Msg)]]
      /\ MaxRounds \in Nat /\ NDims \in Nat /\ NDims >= 1
  BY <1>1, HaloAssumption DEF Typed
<1>3. /\ d \in Dim /\ d = dim[p] /\ round[p] < MaxRounds /\ pending[p] = {} /\ round[p] \in Nat
      /\ job' = job /\ round' = round /\ dim' = [dim EXCEPT ![p] = d - 1]
      /\ h \in HaloRec /\ halo' = [halo EXCEPT ![p] = h]
      /\ \A fw \in BOOLEAN :
           Side(fw) \in pending'[p] <=> Width(d, fw) > 0 /\ Borders(p, d, fw)
      /\ pending' \in [Proc -> SUBSET {"fw", "bw"}]
      /\ \A q \in Proc : q # p => pending'[q] = pending[q]
  BY <1>2 DEF Exchanged
<1>4. /\ dim'[p] = d - 1 /\ d - 1 \in 0 .. NDims /\ d \in Int /\ 1 <= d /\ d <= NDims
      /\ \A q \in Proc : q # p => dim'[q] = dim[q] /\ halo'[q] = halo[q]
  BY <1>2, <1>3 DEF Dim
<1>5. Known' /\ Proc' = Proc
  BY <1>1, <1>3, SameJob
<1>6. /\ net' \in [Proc -> [Proc -> Seq(Msg)]]
      /\ \A s, t \in Proc : s # p => net'[s][t] = net[s][t]
      /\ Carried(net', p, Added(p, d, FALSE, Added(p, d, TRUE, [t \in Proc |-> Way(p, t)])))
  BY ExchangeSends
<1>7. Typed'
  <2>1. dim' \in [Proc -> 0 .. NDims] /\ halo' \in [Proc -> HaloRec]
    BY <1>2, <1>3, <1>4
  <2> QED BY <1>2, <1>3, <1>5, <1>6, <2>1 DEF Typed
<1>8. ASSUME NEW q \in Proc PROVE Place(q)'
  <2>1. \A e, fw : Awaits(q, e, fw)' = Awaits(q, e, fw)
    BY <1>3, SameJob
  <2>2. CASE q = p
    <3>1. SUFFICES ASSUME NEW fw \in BOOLEAN, Side(fw) \in pending'[p]
                   PROVE  dim'[p] < NDims /\ Awaits(p, dim'[p] + 1, fw)
      BY <1>3, <2>1, <2>2 DEF Place
    <3>2. dim'[p] + 1 = d
      BY <1>4
    <3>3. Awaits(p, d, fw)
      BY <1>3, <3>1 DEF Awaits
    <3>4. dim'[p] < NDims
      BY <1>2, <1>4
    <3> QED BY ONLY <3>2, <3>3, <3>4
  <2>3. CASE q # p
    BY <1>1, <1>3, <1>4, <2>1, <2>3 DEF Place
  <2> QED BY <2>2, <2>3
<1>9. ASSUME NEW q \in Proc, NEW k \in Key
      PROVE  Sent(q, k)' <=> Sent(q, k) \/ (q = p /\ k.round = round[p] /\ k.dim = d)
  <2>1. CASE q # p
    BY <1>3, <1>4, <2>1 DEF Sent
  <2>2. CASE q = p
    <3>1. k.round \in Nat /\ k.dim \in Int
      BY DEF Key, Dim
    <3>2. Sent(p, k)' <=> k.round < round[p] \/ (k.round = round[p] /\ k.dim > d - 1)
      BY <1>3, <1>4 DEF Sent
    <3>3. Sent(p, k) <=> k.round < round[p] \/ (k.round = round[p] /\ k.dim > d)
      BY <1>3 DEF Sent
    <3> QED BY <1>3, <1>4, <2>2, <3>1, <3>2, <3>3
  <2> QED BY <2>1, <2>2
<1>10. ASSUME NEW q \in Proc, NEW k \in Key, Awaits(q, k.dim, k.fw)
       PROVE  Taken(q, k)' <=> Taken(q, k)
  <2>1. CASE q # p
    BY <1>3, <1>4, <2>1 DEF Taken
  <2>2. CASE q = p
    <3>1. k.round \in Nat /\ k.dim \in Int /\ k.fw \in BOOLEAN
      BY DEF Key, Dim
    <3>2. Taken(p, k)' <=>
            \/ k.round < round[p]
            \/ k.round = round[p] /\ (k.dim > d \/ (k.dim = d /\ Side(k.fw) \notin pending'[p]))
      <4>1. d - 1 + 1 = d
        BY <1>4
      <4> QED BY <1>3, <1>4, <4>1 DEF Taken
    <3>3. Taken(p, k) <=>
            \/ k.round < round[p]
            \/ k.round = round[p] /\ (k.dim > d + 1 \/ k.dim = d + 1)
      BY <1>3 DEF Taken
    <3>4. k.dim = d => Side(k.fw) \in pending'[p]
      BY <1>3, <1>10, <2>2, <3>1 DEF Awaits
    <3> QED BY <1>4, <2>2, <3>1, <3>2, <3>3, <3>4
  <2> QED BY <2>1, <2>2
<1>11. \A s, t, e, g : Slot(s, t, e, g)' = Slot(s, t, e, g)
  BY <1>3, SameJob
<1>12. ASSUME NEW s \in Proc, NEW t \in Proc PROVE Causal(s, t)'
  <2>1. SUFFICES ASSUME NEW k \in Key, Slot(s, t, k.dim, k.fw)', Taken(t, k)' PROVE Sent(s, k)'
    BY DEF Causal
  <2>2. Slot(s, t, k.dim, k.fw)
    BY <1>11, <2>1
  <2>3. Taken(t, k)
    BY <1>10, <2>1, <2>2 DEF Slot
  <2>4. Sent(s, k)
    BY <1>1, <2>2, <2>3 DEF Causal
  <2> QED BY <1>9, <2>4
<1>13. ASSUME NEW s \in Proc, NEW t \in Proc, s # p PROVE Channel(s, t)'
  <2>1. \A k \in Key : Slot(s, t, k.dim, k.fw) =>
          (Sent(s, k)' <=> Sent(s, k)) /\ (Taken(t, k)' <=> Taken(t, k))
    BY <1>9, <1>10, <1>13 DEF Slot
  <2>2. Way(s, t)' = Way(s, t)
    BY <1>11, <2>1 DEF Way
  <2>3. net'[s][t] = net[s][t]
    BY <1>6, <1>13
  <2> QED BY <1>1, <1>3, <2>2, <2>3, SameChannel
<1>14. ASSUME NEW t \in Proc PROVE Channel(p, t)'
  <2>1. PICK a : a = KeyOf(round[p], d, TRUE)
    OBVIOUS
  <2>2. PICK b : b = KeyOf(round[p], d, FALSE)
    OBVIOUS
  <2>3. /\ a \in Key /\ a.round = round[p] /\ a.dim = d /\ a.fw = TRUE
        /\ b \in Key /\ b.round = round[p] /\ b.dim = d /\ b.fw = FALSE
    <3>1. d \in Dim /\ round[p] \in Nat
      BY <1>3
    <3> QED BY <2>1, <2>2, <3>1, KeyFacts
  <2>4. PICK V : V = (Way(p, t) \cup {m \in {a} : Slot(p, t, d, TRUE)})
                       \cup {m \in {b} : Slot(p, t, d, FALSE)}
    OBVIOUS
  <2>5. PICK f : Lists(f, V) /\ net'[p][t] = Bodies(p, f)
    <3>1. PICK W : W = [s \in Proc |-> Way(p, s)]
      OBVIOUS
    <3>2. PICK W1 : W1 = Added(p, d, TRUE, W)
      OBVIOUS
    <3>3. PICK W2 : W2 = Added(p, d, FALSE, W1)
      OBVIOUS
    <3>4. Carries(net', p, t, W2[t])
      BY <1>6, <3>1, <3>2, <3>3 DEF Carried
    <3>5. W1[t] = Way(p, t) \cup {m \in {a} : Slot(p, t, d, TRUE)}
      BY <2>1, <3>1, <3>2 DEF Added
    <3>6. W2[t] = W1[t] \cup {m \in {b} : Slot(p, t, d, FALSE)}
      BY <2>2, <3>3 DEF Added
    <3> QED BY <2>4, <3>4, <3>5, <3>6 DEF Carries
  <2>6. \A k \in Key : k.round = round[p] /\ k.dim = d <=> k = a \/ k = b
    <3>1. \A k \in Key : k.round = round[p] /\ k.dim = d /\ k.fw = TRUE => k = a
      BY <2>3 DEF Key
    <3>2. \A k \in Key : k.round = round[p] /\ k.dim = d /\ k.fw = FALSE => k = b
      BY <2>3 DEF Key
    <3>3. \A k \in Key : k.fw \in BOOLEAN
      BY DEF Key
    <3> QED BY <2>3, <3>1, <3>2, <3>3
  <2>7. ASSUME NEW k \in Key, Slot(p, t, k.dim, k.fw), k = a \/ k = b
        PROVE  ~Taken(t, k)
    <3>1. ~Sent(p, k)
      <4>1. k.round = round[p] /\ k.dim = dim[p]
        BY <1>3, <2>3, <2>7
      <4> QED BY <1>3, <1>4, <4>1 DEF Sent
    <3> QED BY <1>1, <2>7, <3>1 DEF Causal
  <2>8. Way(p, t)' = V
    <3>1. Way(p, t)' = {k \in Key : /\ Slot(p, t, k.dim, k.fw)
                                    /\ Sent(p, k) \/ k = a \/ k = b
                                    /\ ~Taken(t, k)}
      <4>1. \A k \in Key : /\ Slot(p, t, k.dim, k.fw)' = Slot(p, t, k.dim, k.fw)
                           /\ Sent(p, k)' <=> (Sent(p, k) \/ k = a \/ k = b)
                           /\ Slot(p, t, k.dim, k.fw) => (Taken(t, k)' <=> Taken(t, k))
        BY <1>9, <1>10, <1>11, <2>6 DEF Slot
      <4> QED BY <4>1 DEF Way
    <3>2. Way(p, t) = {k \in Key : Slot(p, t, k.dim, k.fw) /\ Sent(p, k) /\ ~Taken(t, k)}
      BY DEF Way
    <3>3. Slot(p, t, a.dim, a.fw) <=> Slot(p, t, d, TRUE)
      BY <2>3
    <3>4. Slot(p, t, b.dim, b.fw) <=> Slot(p, t, d, FALSE)
      BY <2>3
    <3>5. ASSUME NEW k \in Key PROVE k \in Way(p, t)' <=> k \in V
      BY <2>3, <2>4, <2>7, <3>1, <3>2, <3>3, <3>4
    <3> QED BY <2>3, <2>4, <3>1, <3>2, <3>5
  <2>9. Lists(f, Way(p, t)')
    BY <2>5, <2>8
  <2>10. net'[p][t] = Bodies(p, f)'
    BY <1>3, <2>5, SameBodies
  <2> QED BY <2>9, <2>10 DEF Channel, Lists
<1>15. ASSUME NEW q \in Proc PROVE Filled(q)'
  <2>1. CASE q = p
    BY <2>1, ExchangeFilled
  <2>2. CASE q # p
    BY <1>1, <1>3, <1>4, <2>2, SameFilled
  <2> QED BY <2>1, <2>2
<1> QED BY <1>5, <1>7, <1>8, <1>12, <1>13, <1>14, <1>15 DEF Inv, Protocol

LEMMA ExchangeStep ==
  ASSUME Inv, WithinSpace, TwoWay, NEW p \in Proc, Exchange(p)
  PROVE  Inv'
<1>1. CASE Empty(p)
  BY <1>1, ExchangeEmpty
<1>2. CASE ~Empty(p)
  <2>1. PICK d, h, n1 : Exchanged(p, d, h, n1)
    BY <1>2, ExchangeParts DEF Inv
  <2> QED BY <1>2, <2>1, ExchangeFull
<1> QED BY <1>1, <1>2

-----------------------------------------------------------------------------
(* The theorems.                                                            *)

LEMMA InitInv ==
  ASSUME Init
  PROVE  Inv
<1>1. /\ Known /\ net = EmptyNet(Proc)
      /\ round = [p \in Proc |-> 0] /\ dim = [p \in Proc |-> NDims]
      /\ pending = [p \in Proc |-> {}] /\ halo = [p \in Proc |-> NoHalo]
      /\ MaxRounds \in Nat /\ NDims \in Nat /\ NDims >= 1
  BY HaloAssumption DEF Init, Known
<1>2. NoHalo \in HaloRec
  <2>1. << >> \in Slabs
    <3>1. {} \in SUBSET [Dim -> Int] /\ << >> \in [{} -> Value]
      OBVIOUS
    <3> QED BY <3>1 DEF Slabs
  <2>2. [d \in Dim |-> << >>] \in [Dim -> Slabs] /\ [d \in Dim |-> 0] \in Widths
    BY <2>1 DEF Widths
  <2> QED BY <2>2 DEF NoHalo, HaloRec
<1>3. \A q, p \in Proc : net[q][p] = << >>
  BY <1>1 DEF EmptyNet
<1>4. Typed
  <2>1. << >> \in Seq(Msg)
    OBVIOUS
  <2>2. net \in [Proc -> [Proc -> Seq(Msg)]]
    BY <1>1, <2>1 DEF EmptyNet
  <2>3. /\ round \in [Proc -> 0 .. MaxRounds] /\ dim \in [Proc -> 0 .. NDims]
        /\ pending \in [Proc -> SUBSET {"fw", "bw"}]
    BY <1>1
  <2>4. halo \in [Proc -> HaloRec]
    BY <1>1, <1>2
  <2> QED BY <1>1, <2>2, <2>3, <2>4 DEF Typed
<1>5. \A p \in Proc : round[p] = 0 /\ dim[p] = NDims /\ pending[p] = {}
  BY <1>1
<1>6. ASSUME NEW p \in Proc PROVE Place(p)
  BY <1>5 DEF Place
<1>7. ASSUME NEW p \in Proc, NEW k \in Key PROVE ~Sent(p, k) /\ ~Taken(p, k)
  <2>1. k.round \in Nat /\ k.dim \in Int /\ k.dim <= NDims
    BY <1>1 DEF Key, Dim
  <2> QED BY <1>1, <1>5, <2>1 DEF Sent, Taken
<1>8. ASSUME NEW q \in Proc, NEW p \in Proc PROVE Channel(q, p) /\ Causal(q, p)
  <2>1. Way(q, p) = {}
    BY <1>7 DEF Way
  <2>2. Bodies(q, << >>) = << >>
    BY DEF Bodies
  <2>3. Channel(q, p)
    BY <1>3, <2>1, <2>2, ListsEmpty DEF Channel
  <2> QED BY <1>7, <2>3 DEF Causal
<1>9. ASSUME NEW p \in Proc PROVE Filled(p)
  <2>1. \A e \in Dim : ~(e > dim[p])
    BY <1>1, <1>5 DEF Dim
  <2> QED BY <2>1 DEF Filled
<1> QED BY <1>4, <1>6, <1>8, <1>9 DEF Inv, Protocol

LEMMA SameInv ==
  ASSUME Inv, UNCHANGED vars
  PROVE  Inv'
<1>1. /\ job' = job /\ net' = net /\ round' = round /\ dim' = dim /\ pending' = pending
      /\ halo' = halo
  BY DEF vars
<1>2. /\ Typed /\ Known /\ \A q \in Proc : Place(q) /\ Filled(q)
      /\ \A s, t \in Proc : Channel(s, t) /\ Causal(s, t)
  BY DEF Inv, Typed, Protocol
<1>3. Known' /\ Proc' = Proc
  BY <1>1, <1>2, SameJob
<1>4. Typed'
  BY <1>1, <1>2, <1>3 DEF Typed
<1>5. ASSUME NEW q \in Proc PROVE Place(q)'
  <2>1. \A d, fw : Awaits(q, d, fw)' = Awaits(q, d, fw)
    BY <1>1, SameJob
  <2> QED BY <1>1, <1>2, <2>1 DEF Place
<1>6. ASSUME NEW s \in Proc, NEW k \in Key
      PROVE  (Sent(s, k)' <=> Sent(s, k)) /\ (Taken(s, k)' <=> Taken(s, k))
  BY <1>1 DEF Sent, Taken
<1>7. \A q, t \in Proc : Channel(q, t)' /\ Causal(q, t)'
  BY <1>1, <1>2, <1>6, SameWays
<1>8. ASSUME NEW q \in Proc PROVE Filled(q)'
  BY <1>1, <1>2, SameFilled
<1> QED BY <1>3, <1>4, <1>5, <1>7, <1>8 DEF Inv, Protocol

LEMMA NextInv ==
  ASSUME Inv, WithinSpace, TwoWay, [Next]_vars
  PROVE  Inv'
<1>1. CASE UNCHANGED vars
  BY <1>1, SameInv
<1>2. CASE Stopped
  BY <1>2, SameInv DEF Stopped
<1>3. ASSUME NEW p \in Proc, Step(p) PROVE Inv'
  <2>1. CASE Exchange(p)
    BY <2>1, ExchangeStep
  <2>2. CASE ArriveFw(p)
    BY <2>2, ArriveFwStep
  <2>3. CASE ArriveBw(p)
    BY <2>3, ArriveBwStep
  <2>4. CASE RunKernel(p)
    BY <2>4, RunKernelStep
  <2> QED BY <1>3, <2>1, <2>2, <2>3, <2>4 DEF Step
<1> QED BY <1>1, <1>2, <1>3 DEF Next

\* The halos are marked as diagonal only for a stencil that is.
Marked == \A p \in Proc : halo[p].diagonal => job.diagonal

LEMMA MarkedNext ==
  ASSUME Inv, Marked, [Next]_vars
  PROVE  Marked'
<1>1. Typed /\ Known /\ halo \in [Proc -> HaloRec]
  BY DEF Inv, Typed
<1>2. ASSUME job' = job, halo' = halo PROVE Marked'
  <2>1. Proc' = Proc
    BY <1>2, SameJob
  <2> QED BY <1>2, <2>1 DEF Marked
<1>3. ASSUME NEW p \in Proc, job' = job, NEW h, halo' = [halo EXCEPT ![p] = h],
             h.diagonal => job.diagonal
      PROVE  Marked'
  <2>1. Proc' = Proc
    BY <1>3, SameJob
  <2>2. halo'[p] = h /\ \A q \in Proc : q # p => halo'[q] = halo[q]
    BY <1>1, <1>3
  <2> QED BY <1>3, <2>1, <2>2 DEF Marked
<1>4. ASSUME NEW p \in Proc, Exchange(p) PROVE Marked'
  <2>1. CASE Empty(p)
    BY <1>2, <1>4, <2>1 DEF Exchange
  <2>2. CASE ~Empty(p)
    <3>1. PICK d, h, n1 : Exchanged(p, d, h, n1)
      BY <1>1, <1>4, <2>2, ExchangeParts
    <3>2. /\ job' = job /\ halo' = [halo EXCEPT ![p] = h]
          /\ h.diagonal = job.diagonal \/ h.diagonal = halo[p].diagonal
      BY <3>1 DEF Exchanged
    <3> QED BY <1>3, <3>2 DEF Marked
  <2> QED BY <2>1, <2>2
<1>5. ASSUME NEW p \in Proc, ArriveFw(p) PROVE Marked'
  <2>1. PICK d, R : job' = job /\ halo' = [halo EXCEPT ![p].fw[d] = R]
    BY <1>5 DEF ArriveFw
  <2>2. PICK g \in HaloRec : g = halo[p]
    BY <1>1
  <2>3. PICK h : h = [g EXCEPT !.fw[d] = R]
    OBVIOUS
  <2>4. halo' = [halo EXCEPT ![p] = h]
    BY <2>1, <2>2, <2>3
  <2>5. h.diagonal = g.diagonal
    BY <2>2, <2>3 DEF HaloRec
  <2> QED BY <1>3, <2>1, <2>2, <2>4, <2>5 DEF Marked
<1>6. ASSUME NEW p \in Proc, ArriveBw(p) PROVE Marked'
  <2>1. PICK d, R : job' = job /\ halo' = [halo EXCEPT ![p].bw[d] = R]
    BY <1>6 DEF ArriveBw
  <2>2. PICK g \in HaloRec : g = halo[p]
    BY <1>1
  <2>3. PICK h : h = [g EXCEPT !.bw[d] = R]
    OBVIOUS
  <2>4. halo' = [halo EXCEPT ![p] = h]
    BY <2>1, <2>2, <2>3
  <2>5. h.diagonal = g.diagonal
    BY <2>2, <2>3 DEF HaloRec
  <2> QED BY <1>3, <2>1, <2>2, <2>4, <2>5 DEF Marked
<1>7. ASSUME NEW p \in Proc, RunKernel(p) PROVE Marked'
  BY <1>2, <1>7 DEF RunKernel
<1>8. CASE UNCHANGED vars
  BY <1>2, <1>8 DEF vars
<1>9. CASE Stopped
  BY <1>2, <1>9 DEF Stopped, vars
<1> QED BY <1>4, <1>5, <1>6, <1>7, <1>8, <1>9 DEF Next, Step

LEMMA Types ==
  ASSUME Inv, Marked
  PROVE  TypeOK
<1>1. Typed /\ Known /\ \A p \in Proc : Place(p)
  BY DEF Inv, Typed, Protocol
<1>2. ASSUME NEW p \in Proc, dim[p] = NDims PROVE pending[p] = {}
  <2>1. ~(dim[p] < NDims)
    BY <1>2, HaloAssumption
  <2>2. Side(TRUE) \notin pending[p] /\ Side(FALSE) \notin pending[p]
    BY <1>1, <2>1 DEF Place
  <2>3. pending[p] \in SUBSET {"fw", "bw"}
    BY <1>1 DEF Typed
  <2> QED BY <2>2, <2>3 DEF Side
<1>3. \A p \in Proc : halo[p].fwWidth \in Widths /\ halo[p].bwWidth \in Widths
  BY <1>1 DEF Typed, HaloRec
<1> QED BY <1>1, <1>2, <1>3 DEF TypeOK, Typed, Known, Marked

\* What is in flight is what has been sent and not received, and the halos
\* received are parts of the neighbours' grids.
THEOREM InvHolds ==
  ASSUME TwoWay, WithinSpace
  PROVE  Spec => []Inv
<1>1. Init => Inv
  BY InitInv
<1>2. Inv /\ [Next]_vars => Inv'
  BY NextInv
<1> QED BY <1>1, <1>2, PTL DEF Spec

\* The state has its types, the posted receives are those of the dimension
\* being exchanged, and a halo is marked as diagonal only if the stencil is.
THEOREM TypesHold ==
  ASSUME TwoWay, WithinSpace
  PROVE  Spec => []TypeOK
<1>1. Init => Marked
  BY DEF Init, Marked, NoHalo
<1>2. Inv /\ Marked /\ [Next]_vars => Marked'
  BY MarkedNext
<1>3. Inv /\ Marked => TypeOK
  BY Types
<1> QED BY <1>1, <1>2, <1>3, InvHolds, PTL DEF Spec

\* Every slab that is sent is received in its round: ExchangeBoundaries
\* leaves nothing behind that a later receive could take for its own.
THEOREM NothingIsLeft ==
  ASSUME TwoWay, WithinSpace
  PROVE  Spec => []NothingLeft
<1>1. Inv => NothingLeft
  BY NoneLeft
<1> QED BY <1>1, InvHolds, PTL

\* Although no send is waited for, no process writes to a send buffer or to
\* the grid while a neighbour has still to receive from it, also if MPI copies
\* nothing.
THEOREM SendsStayIntact ==
  ASSUME TwoWay, WithinSpace
  PROVE  Spec => []SendsIntact
<1>1. Inv => SendsIntact
  BY Intact
<1> QED BY <1>1, InvHolds, PTL

\* In a space of PS_MAX_DIM dimensions, when the kernel of a round runs, what
\* PSGridGet returns for every point of the stencil that the grid has is that
\* point as the round before has left it, on whatever process.
THEOREM HalosAreCurrent ==
  ASSUME TwoWay, WithinSpace, NDims = PS_MAX_DIM
  PROVE  Spec => []HaloCurrent
<1>1. Inv => HaloCurrent
  BY Current
<1> QED BY <1>1, InvHolds, PTL
=============================================================================
