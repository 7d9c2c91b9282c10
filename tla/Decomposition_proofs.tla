------------------------ MODULE Decomposition_proofs ------------------------
(***************************************************************************)
(* Proofs about Decomposition, for every extent, every number of processes  *)
(* and every number of dimensions.                                         *)
(***************************************************************************)
EXTENDS Decomposition, WellFoundedInduction, TLAPS

-----------------------------------------------------------------------------
(* Arithmetic of the closed forms.                                         *)

\* Products of sums.
LEMMA Distributes ==
  ASSUME NEW a \in Nat, NEW b \in Nat, NEW c \in Nat
  PROVE  /\ (a + b) * c = a * c + b * c
         /\ a * c \in Nat /\ b * c \in Nat
  OBVIOUS

\* Division by a process count.
LEMMA DivFacts ==
  ASSUME NEW s \in Nat, NEW n \in Nat \ {0}
  PROVE  /\ s \div n \in Nat
         /\ s % n \in 0 .. n - 1
         /\ s = n * (s \div n) + (s % n)
  OBVIOUS

\* A partition's extent is a natural number, the smaller one or one more.
LEMMA PartSizeFacts ==
  ASSUME NEW s \in Nat, NEW n \in Nat \ {0}, NEW k \in 0 .. n - 1
  PROVE  /\ PartSize(s, n, k) \in Nat
         /\ PartSize(s, n, k) - s \div n \in {0, 1}
         /\ PartSize(s, n, 0) = s \div n
  <1> DEFINE q == s \div n
             r == s % n
  <1>1. q \in Nat /\ r \in 0 .. n - 1
    BY DivFacts
  <1> QED BY <1>1 DEF PartSize

\* The first partition begins at the origin.
LEMMA FirstOffset ==
  ASSUME NEW s \in Nat, NEW n \in Nat \ {0}
  PROVE  PartOffset(s, n, 0) = 0
  <1>1. s \div n \in Nat /\ s % n \in 0 .. n - 1
    BY DivFacts
  <1>2. \A q \in Nat : 0 * q = 0
    OBVIOUS
  <1> QED BY <1>1, <1>2 DEF PartOffset, Most

\* The partitions end where the space ends.
LEMMA LastOffset ==
  ASSUME NEW s \in Nat, NEW n \in Nat \ {0}
  PROVE  PartOffset(s, n, n) = s
  <1>1. s \div n \in Nat /\ s % n \in 0 .. n - 1 /\ s = n * (s \div n) + (s % n)
    BY DivFacts
  <1> QED BY <1>1 DEF PartOffset, Most

\* Each partition begins where the one before it ends.
LEMMA NextOffset ==
  ASSUME NEW s \in Nat, NEW n \in Nat \ {0}, NEW k \in 0 .. n - 1
  PROVE  /\ PartOffset(s, n, k) \in Nat
         /\ PartOffset(s, n, k + 1) \in Nat
         /\ PartOffset(s, n, k + 1) = PartOffset(s, n, k) + PartSize(s, n, k)
  <1> DEFINE q == s \div n
             r == s % n
  <1>1. q \in Nat /\ r \in 0 .. n - 1
    BY DivFacts
  <1>2. (k + 1) * q = k * q + q /\ k * q \in Nat
    BY <1>1
  <1> QED BY <1>1, <1>2 DEF PartOffset, PartSize, Most

\* Partitions come in the order of their indices.
LEMMA OffsetsOrdered ==
  ASSUME NEW s \in Nat, NEW n \in Nat \ {0}, NEW k \in 0 .. n - 1,
         NEW m \in 0 .. n, k < m
  PROVE  PartOffset(s, n, k) + PartSize(s, n, k) <= PartOffset(s, n, m)
  <1> DEFINE q == s \div n
             r == s % n
  <1>1. q \in Nat /\ r \in 0 .. n - 1
    BY DivFacts
  <1>2. PICK i \in Nat : m = k + 1 + i
    <2>1. m - k - 1 \in Nat /\ m = k + 1 + (m - k - 1)
      OBVIOUS
    <2> QED BY <2>1
  <1>3. m * q = (k + 1) * q + i * q /\ i * q \in Nat /\ (k + 1) * q \in Nat /\ m * q \in Nat
    <2>1. k + 1 \in Nat
      OBVIOUS
    <2> HIDE DEF q, r
    <2> QED BY <1>1, <1>2, <2>1, Distributes
  <1>4. PartOffset(s, n, k) + PartSize(s, n, k) = PartOffset(s, n, k + 1)
    BY NextOffset
  <1> HIDE DEF q, r
  <1>5. PartOffset(s, n, k + 1) = (k + 1) * q + Most(k + 1 - (n - r), 0)
    BY DEF PartOffset, q, r
  <1>6. PartOffset(s, n, m) = m * q + Most(m - (n - r), 0)
    BY DEF PartOffset, q, r
  <1>7. Most(k + 1 - (n - r), 0) <= Most(m - (n - r), 0)
        /\ Most(k + 1 - (n - r), 0) \in Nat /\ Most(m - (n - r), 0) \in Nat
    BY <1>1, <1>2 DEF Most
  <1> QED BY <1>3, <1>4, <1>5, <1>6, <1>7

-----------------------------------------------------------------------------
(* Types.                                                                  *)

\* What the assumption says of the constants.
LEMMA ConstantFacts ==
  /\ NDims \in Nat \ {0} /\ 1 \in Dim /\ NDims \in Dim /\ Dim \subseteq Nat
  /\ Extents \subseteq Nat /\ 0 \in Extents
  /\ \A n \in ProcCounts : n \in Nat \ {0}
  <1>1. NDims \in Nat \ {0} /\ 1 \in Dim /\ NDims \in Dim /\ Dim \subseteq Nat
    BY DecompositionAssumption DEF DecompositionAssumption, Dim
  <1>2. \A y \in 0 .. PSINDEX_MAX : y \in Nat
    OBVIOUS
  <1>3. Extents \subseteq Nat /\ 0 \in Extents
    BY <1>2, DecompositionAssumption DEF DecompositionAssumption
  <1>4. \A n \in ProcCounts : n \in Nat \ {0}
    BY DecompositionAssumption DEF DecompositionAssumption
  <1> QED BY <1>1, <1>3, <1>4

\* One step with the types of the constants and of the state at hand.
LEMMA TypeStep ==
  ASSUME TypeOK, [Next]_vars
  PROVE  TypeOK'
  <1> USE DecompositionAssumption DEF DecompositionAssumption
  <1>0. d \in Dim /\ d \in 1 .. NDims /\ nparts[d] \in Nat \ {0} /\ space[d] \in Nat
        /\ Extents \subseteq Nat
    <2>1. d \in Dim /\ nparts[d] \in ProcCounts /\ space[d] \in Extents
      BY DEF TypeOK
    <2> QED BY <2>1, ConstantFacts DEF Dim
  <1>1. CASE PartitionNext
    <2> DEFINE p == PartSize(space[d], nparts[d], j)
    <2>1. j \in Index(d) /\ d \in Dim
      BY <1>1, <1>0 DEF PartitionNext, TypeOK, Index, Dim
    <2>2. p \in Nat
      BY <1>0, <2>1, PartSizeFacts DEF Index
    <2> HIDE DEF p
    <2>3. /\ parts' = [parts EXCEPT ![d][j] = p]
          /\ offs' = [offs EXCEPT ![d][j] = offset]
          /\ minPart' = [minPart EXCEPT ![d] = Least(@, p)]
          /\ offset' = offset + p /\ j' = j + 1
          /\ UNCHANGED <<space, nparts, pc, d, grid, lo, lim, x, slices>>
      BY <1>1 DEF PartitionNext, p
    <2>4. DOMAIN parts' = Dim /\ DOMAIN offs' = Dim
      BY <2>3 DEF TypeOK
    <2>5. ASSUME NEW e \in Dim
          PROVE  parts'[e] \in [Index(e)' -> Nat] /\ offs'[e] \in [Index(e)' -> Nat]
      <3>1. Index(e)' = Index(e)
        BY <2>3 DEF Index
      <3>2. parts[e] \in [Index(e) -> Nat] /\ offs[e] \in [Index(e) -> Nat] /\ offset \in Nat
        BY DEF TypeOK
      <3>3. CASE e = d
        <4>1. parts'[e] = [parts[d] EXCEPT ![j] = p] /\ offs'[e] = [offs[d] EXCEPT ![j] = offset]
          BY <2>3, <3>3, <2>1 DEF TypeOK
        <4>2. parts[d] \in [Index(d) -> Nat] /\ offs[d] \in [Index(d) -> Nat]
          BY <3>2, <3>3
        <4>3. parts'[e] \in [Index(d) -> Nat] /\ offs'[e] \in [Index(d) -> Nat]
          BY <4>1, <4>2, <2>2, <3>2, ZenonT(30)
        <4> QED BY <4>3, <3>1, <3>3
      <3>4. CASE e # d
        <4>1. parts'[e] = parts[e] /\ offs'[e] = offs[e]
          BY <2>3, <3>4 DEF TypeOK
        <4> QED BY <4>1, <3>1, <3>2
      <3> QED BY <3>3, <3>4
    <2>6. minPart' \in [Dim -> 0 .. PSINDEX_MAX]
      BY <2>2, <2>3 DEF TypeOK, Least
    <2> QED BY <2>2, <2>3, <2>4, <2>5, <2>6 DEF TypeOK
  <1>2. CASE PartitionDim
    <2>1. d + 1 \in Dim
      BY <1>2, <1>0 DEF PartitionDim, Dim
    <2> QED BY <1>2, <2>1 DEF PartitionDim, TypeOK, Index
  <1>3. CASE PartitionReturn
    BY <1>3 DEF PartitionReturn, spaceVars, TypeOK, Index
  <1>4. CASE \E s \in [Dim -> Extents] : GridNew(s)
    BY <1>4 DEF GridNew, spaceVars, TypeOK, Index
  <1>5. CASE \E l, h \in [Dim -> Extents] : LoadSubgrid(l, h)
    <2>1. PICK l \in [Dim -> Extents], h \in [Dim -> Extents] : LoadSubgrid(l, h)
      BY <1>5
    <2>2. l \in [Dim -> Nat] /\ h \in [Dim -> Nat] /\ 1 \in Dim
      BY ConstantFacts
    <2>3. /\ lo' = l /\ lim' = h /\ slices' = [e \in Dim |-> {}]
          /\ pc' = "collect" /\ d' = 1 /\ j' = 0 /\ x' = l[1]
          /\ UNCHANGED <<space, nparts, parts, offs, minPart, offset, grid>>
      BY <2>1 DEF LoadSubgrid, spaceVars
    <2>4. l[1] \in Nat
      BY <2>2
    <2> QED BY <2>2, <2>3, <2>4 DEF TypeOK, Index
  <1>6. CASE CollectNext
    <2>1. d \in Dim /\ j \in Index(d)
      BY <1>6, <1>0 DEF CollectNext, TypeOK, Index, Dim
    <2> DEFINE stop == offs[d][j] + parts[d][j]
    <2>2. stop \in Nat /\ x \in Nat /\ lim[d] \in Nat /\ j \in Nat /\ x < lim[d]
      BY <2>1, <1>6 DEF TypeOK, CollectNext
    <2>3. /\ j' = j + 1
          /\ UNCHANGED <<space, nparts, parts, offs, minPart, offset, pc, d, grid, lo, lim>>
          /\ IF x < stop
             THEN /\ slices' = [slices EXCEPT ![d] =
                        @ \cup {Slice(j, x, Least(stop - x, lim[d] - x))}]
                  /\ x' = stop
             ELSE UNCHANGED <<slices, x>>
      BY <1>6 DEF CollectNext, spaceVars
    <2> HIDE DEF stop
    <2>4. x' \in Nat
      BY <2>2, <2>3
    <2>5. slices' \in [Dim -> SUBSET Slices]
      <3>1. CASE x < stop
        <4>1. Least(stop - x, lim[d] - x) \in Nat
          BY <2>2, <3>1 DEF Least
        <4>2. Slice(j, x, Least(stop - x, lim[d] - x)) \in Slices
          BY <4>1, <2>2 DEF Slice, Slices
        <4> HIDE DEF Slices
        <4> QED BY <2>3, <3>1, <4>2 DEF TypeOK
      <3>2. CASE ~(x < stop)
        BY <2>3, <3>2 DEF TypeOK
      <3> QED BY <3>1, <3>2
    <2> QED BY <2>2, <2>3, <2>4, <2>5 DEF TypeOK, Index
  <1>7. CASE CollectDim
    <2>1. d + 1 \in Dim /\ lo[d + 1] \in Nat
      BY <1>7, <1>0 DEF CollectDim, TypeOK, Dim
    <2> QED BY <1>7, <2>1 DEF CollectDim, spaceVars, TypeOK, Index
  <1>8. CASE CollectReturn
    BY <1>8 DEF CollectReturn, spaceVars, TypeOK, Index
  <1>9. CASE UNCHANGED vars
    BY <1>9 DEF vars, spaceVars, TypeOK, Index
  <1> QED BY <1>1, <1>2, <1>3, <1>4, <1>5, <1>6, <1>7, <1>8, <1>9 DEF Next

\* The initial state.
LEMMA TypeInit ==
  ASSUME Init
  PROVE  TypeOK
  <1> USE DecompositionAssumption DEF DecompositionAssumption
  <1>1. Extents \subseteq Nat /\ 1 \in Dim
    BY DEF Dim
  <1>2. \A e \in Dim : Origin[e] = 0
    BY DEF Origin
  <1> QED BY <1>1, <1>2 DEF Init, TypeOK, Origin

\* TypeOK holds in every state.
THEOREM TypeCorrect == Spec => []TypeOK
  <1>1. Init => TypeOK
    BY TypeInit
  <1>2. TypeOK /\ [Next]_vars => TypeOK'
    BY TypeStep
  <1> QED BY <1>1, <1>2, PTL DEF Spec

-----------------------------------------------------------------------------
(* partition().                                                             *)

\* The ranges of what the state holds of dimension e.
LEMMA DimFacts ==
  ASSUME TypeOK, NEW e \in Dim
  PROVE  /\ space[e] \in Nat /\ nparts[e] \in Nat \ {0}
         /\ \A k \in 0 .. nparts[e] - 1 : parts[e][k] \in Nat /\ offs[e][k] \in Nat
         /\ grid[e] \in Nat /\ lo[e] \in Nat /\ lim[e] \in Nat /\ e \in Nat
  <1>1. space[e] \in Extents /\ nparts[e] \in ProcCounts /\ grid[e] \in Extents
        /\ lo[e] \in Nat /\ lim[e] \in Nat
    BY DEF TypeOK
  <1>2. parts[e] \in [Index(e) -> Nat] /\ offs[e] \in [Index(e) -> Nat]
    BY DEF TypeOK
  <1> QED BY <1>1, <1>2, ConstantFacts DEF Index

\* A step that leaves the tables alone, and what is built of them, keeps the
\* invariant.
LEMMA PartFrame ==
  ASSUME PartInv, UNCHANGED <<space, nparts, parts, offs, minPart>>,
         \A e \in Dim : Built(e)' = Built(e), LoopOffset'
  PROVE  PartInv'
  <1>1. ASSUME NEW e \in Dim
        PROVE  Layout(e)' /\ Owned(e)' /\ MinFirst(e)'
    <2>1. Layout(e) /\ Owned(e) /\ MinFirst(e) /\ Built(e)' = Built(e)
      BY DEF PartInv
    <2>2. Layout(e)'
      BY <2>1 DEF Layout
    <2>3. Owned(e)'
      BY <2>1 DEF Owned, Contains
    <2>4. MinFirst(e)'
      BY <2>1 DEF MinFirst
    <2> QED BY <2>2, <2>3, <2>4
  <1> QED BY <1>1 DEF PartInv

\* One round of the inner loop.
LEMMA PartitionNextStep ==
  ASSUME TypeOK, PartInv, PartitionNext
  PROVE  PartInv'
  <1> DEFINE s == space[d]
             n == nparts[d]
             p == PartSize(s, n, j)
  <1>1. d \in Dim /\ j \in 0 .. n - 1 /\ j \in Nat /\ s \in Nat /\ n \in Nat \ {0}
    <2>1. d \in Dim /\ j \in Nat
      BY DEF TypeOK
    <2>2. s \in Nat /\ n \in Nat \ {0}
      BY <2>1, DimFacts
    <2> QED BY <2>1, <2>2 DEF PartitionNext
  <1>2. /\ parts' = [parts EXCEPT ![d] = [parts[d] EXCEPT ![j] = p]]
        /\ offs' = [offs EXCEPT ![d] = [offs[d] EXCEPT ![j] = offset]]
        /\ minPart' = [minPart EXCEPT ![d] = Least(minPart[d], p)]
        /\ offset' = offset + p /\ j' = j + 1
        /\ pc = "partition" /\ pc' = pc /\ d' = d /\ space' = space /\ nparts' = nparts
    BY DEF PartitionNext
  <1>3. p \in Nat /\ p - s \div n \in {0, 1} /\ PartSize(s, n, 0) = s \div n
        /\ s \div n \in Nat
    BY <1>1, PartSizeFacts, DivFacts
  <1>4. offset = PartOffset(s, n, j) /\ offset \in Nat
        /\ PartOffset(s, n, j + 1) = offset + p
    BY <1>1, <1>2, NextOffset DEF PartInv, LoopOffset
  <1> HIDE DEF s, n, p
  <1>5. LoopOffset'
    BY <1>1, <1>2, <1>4 DEF LoopOffset, s, n
  <1>6. ASSUME NEW e \in Dim
        PROVE  Layout(e)' /\ Owned(e)' /\ MinFirst(e)'
    <2>0. Layout(e) /\ Owned(e) /\ MinFirst(e) /\ e \in Nat /\ d \in Nat
      BY <1>1, ConstantFacts DEF PartInv
    <2>1. CASE e # d
      <3>1. parts'[e] = parts[e] /\ offs'[e] = offs[e] /\ minPart'[e] = minPart[e]
            /\ Built(e)' = Built(e)
        BY <1>2, <2>1 DEF TypeOK, Built
      <3>2. Layout(e)'
        BY <3>1, <2>0, <1>2 DEF Layout
      <3>3. Owned(e)'
        BY <3>1, <2>0, <1>2 DEF Owned, Contains
      <3>4. MinFirst(e)'
        BY <3>1, <2>0, <1>2 DEF MinFirst
      <3> QED BY <3>2, <3>3, <3>4
    <2>2. CASE e = d
      <3>1. Built(e) = j /\ Built(e)' = j + 1
        BY <1>1, <1>2, <2>0, <2>2 DEF Built
      <3>2. parts[d] \in [0 .. n - 1 -> Nat] /\ offs[d] \in [0 .. n - 1 -> Nat]
            /\ parts'[d] = [parts[d] EXCEPT ![j] = p]
            /\ offs'[d] = [offs[d] EXCEPT ![j] = offset]
            /\ minPart'[d] = Least(minPart[d], p) /\ minPart[d] \in 0 .. PSINDEX_MAX
        BY <1>1, <1>2 DEF TypeOK, Index, n
      <3>3. /\ parts'[d][j] = p /\ offs'[d][j] = offset
            /\ \A k \in 0 .. j - 1 : parts'[d][k] = parts[d][k] /\ offs'[d][k] = offs[d][k]
        BY <3>2, <1>1
      <3>4. Layout(e)'
        BY <3>1, <3>3, <2>0, <2>2, <1>1, <1>2, <1>4 DEF Layout, s, n, p
      <3>5. Owned(e)'
        <4>1. SUFFICES ASSUME NEW y \in 0 .. PartOffset(s, n, j + 1) - 1
                       PROVE  \E k \in 0 .. j : Contains(d, k, y)'
          BY <3>1, <1>1, <1>2, <2>2 DEF Owned, s, n
        <4>a. y \in Nat /\ y < offset + p
          BY <1>3, <1>4
        <4>2. CASE y < offset
          <5>0. y \in 0 .. PartOffset(space[d], nparts[d], j) - 1
            BY <4>a, <4>2, <1>4 DEF s, n
          <5>1. PICK k \in 0 .. j - 1 : Contains(d, k, y)
            BY <5>0, <2>0, <2>2, <3>1 DEF Owned
          <5>2. Contains(d, k, y)'
            BY <5>1, <3>3, <1>2 DEF Contains
          <5> QED BY <5>1, <5>2, <1>1
        <4>3. CASE ~(y < offset)
          <5>1. PICK k \in 0 .. j : k = j
            BY <1>1
          <5>2. Contains(d, k, y)'
            BY <5>1, <4>a, <4>3, <3>3, <1>2, <1>3, <1>4 DEF Contains
          <5> QED BY <5>2
        <4> QED BY <4>2, <4>3
      <3>6. MinFirst(e)'
        <4>1. CASE j = 0
          <5>1. p = s \div n
            BY <4>1, <1>3 DEF p
          <5>2. p <= PSINDEX_MAX /\ PSINDEX_MAX \in Nat
            <6>1. s \in Extents
              BY <1>1 DEF TypeOK, s
            <6>2. s \in 0 .. PSINDEX_MAX /\ PSINDEX_MAX \in Nat
              BY <6>1, DecompositionAssumption DEF DecompositionAssumption
            <6>3. s \div n <= s
              BY <1>1
            <6> QED BY <5>1, <6>2, <6>3, <1>3, <1>1
          <5>3. minPart[d] = PSINDEX_MAX
            BY <4>1, <2>0, <2>2, <3>1 DEF MinFirst
          <5>4. minPart'[d] = p /\ Built(e)' # 0
            BY <5>2, <5>3, <3>1, <3>2, <1>1, <1>3 DEF Least
          <5> QED BY <5>1, <5>4, <2>2, <1>2 DEF MinFirst, s, n
        <4>2. CASE j > 0
          <5>1. minPart[d] = s \div n
            BY <4>2, <2>0, <2>2, <3>1 DEF MinFirst, s, n
          <5> QED BY <5>1, <3>1, <3>2, <2>2, <1>2, <1>3, <1>1 DEF MinFirst, Least, s, n
        <4> QED BY <4>1, <4>2, <1>1
      <3> QED BY <3>4, <3>5, <3>6
    <2> QED BY <2>1, <2>2
  <1> QED BY <1>5, <1>6 DEF PartInv

\* The inner loop has ended: the next dimension begins with nothing built.
LEMMA PartitionDimStep ==
  ASSUME TypeOK, PartInv, PartitionDim
  PROVE  PartInv'
  <1>1. /\ pc = "partition" /\ j = nparts[d] /\ pc' = pc
        /\ d' = d + 1 /\ j' = 0 /\ offset' = 0
        /\ UNCHANGED <<space, nparts, parts, offs, minPart>>
    BY DEF PartitionDim
  <1>2. d \in Dim /\ d \in Nat /\ d + 1 \in Dim
    BY ConstantFacts DEF PartitionDim, TypeOK, Dim
  <1>3. \A e \in Dim : Built(e)' = Built(e)
    <2>1. SUFFICES ASSUME NEW e \in Dim
                   PROVE  Built(e)' = Built(e)
      OBVIOUS
    <2>2. e \in Nat
      BY ConstantFacts
    <2> QED BY <1>1, <1>2, <2>2 DEF Built
  <1>4. LoopOffset'
    <2>1. PICK e \in Dim : e = d + 1
      BY <1>2
    <2>2. space[e] \in Nat /\ nparts[e] \in Nat \ {0}
      BY DimFacts
    <2>3. PartOffset(space[e], nparts[e], 0) = 0
      BY <2>2, FirstOffset
    <2>4. d' = e /\ j' = 0 /\ offset' = 0 /\ space' = space /\ nparts' = nparts
      BY <1>1, <2>1
    <2> QED BY <2>2, <2>3, <2>4 DEF LoopOffset
  <1> QED BY <1>1, <1>3, <1>4, PartFrame

\* partition() has returned.
LEMMA PartitionReturnStep ==
  ASSUME TypeOK, PartInv, PartitionReturn
  PROVE  PartInv'
  <1>1. /\ pc = "partition" /\ j = nparts[d] /\ d = NDims /\ pc' = "user"
        /\ UNCHANGED <<space, nparts, parts, offs, minPart>>
    BY DEF PartitionReturn, spaceVars
  <1>2. \A e \in Dim : Built(e)' = Built(e)
    BY <1>1, ConstantFacts DEF Built, Dim
  <1>3. LoopOffset'
    BY <1>1 DEF LoopOffset
  <1> QED BY <1>1, <1>2, <1>3, PartFrame

\* The steps after partition() leave its tables alone.
LEMMA PartStep ==
  ASSUME TypeOK, PartInv, [Next]_vars
  PROVE  PartInv'
  <1>1. CASE PartitionNext
    BY <1>1, PartitionNextStep
  <1>2. CASE PartitionDim
    BY <1>2, PartitionDimStep
  <1>3. CASE PartitionReturn
    BY <1>3, PartitionReturnStep
  <1>4. CASE \/ \E s \in [Dim -> Extents] : GridNew(s)
             \/ \E l, h \in [Dim -> Extents] : LoadSubgrid(l, h)
             \/ CollectNext \/ CollectDim \/ CollectReturn
    <2>1. /\ pc # "partition" /\ pc' # "partition"
          /\ UNCHANGED <<space, nparts, parts, offs, minPart>>
      BY <1>4 DEF GridNew, LoadSubgrid, CollectNext, CollectDim, CollectReturn, spaceVars
    <2>2. LoopOffset' /\ \A e \in Dim : Built(e)' = Built(e)
      BY <2>1 DEF LoopOffset, Built
    <2> QED BY <2>1, <2>2, PartFrame
  <1>5. CASE UNCHANGED vars
    <2>1. LoopOffset' /\ \A e \in Dim : Built(e)' = Built(e)
      BY <1>5 DEF LoopOffset, Built, PartInv, vars, spaceVars
    <2> QED BY <1>5, <2>1, PartFrame DEF vars, spaceVars
  <1> QED BY <1>1, <1>2, <1>3, <1>4, <1>5 DEF Next

\* Nothing is built at first.
LEMMA PartInit ==
  ASSUME Init
  PROVE  PartInv
  <1>1. TypeOK
    BY TypeInit
  <1>2. pc = "partition" /\ d = 1 /\ j = 0 /\ offset = 0 /\ 1 \in Dim
        /\ minPart = [e \in Dim |-> PSINDEX_MAX]
    BY ConstantFacts DEF Init
  <1>3. \A e \in Dim : Built(e) = 0
    BY <1>2, ConstantFacts DEF Built, Dim
  <1>4. \A e \in Dim : PartOffset(space[e], nparts[e], 0) = 0 /\ nparts[e] \in Nat \ {0}
    BY <1>1, DimFacts, FirstOffset
  <1>5. LoopOffset
    BY <1>2, <1>4 DEF LoopOffset
  <1>6. ASSUME NEW e \in Dim
        PROVE  Layout(e) /\ Owned(e) /\ MinFirst(e)
    BY <1>2, <1>3, <1>4 DEF Layout, Owned, MinFirst
  <1> QED BY <1>5, <1>6 DEF PartInv

\* PartInv is an invariant of partition() and of all that follows it.
THEOREM PartInvariance == Spec => [](TypeOK /\ PartInv)
  <1>1. Init => TypeOK /\ PartInv
    BY TypeInit, PartInit
  <1>2. TypeOK /\ PartInv /\ [Next]_vars => (TypeOK /\ PartInv)'
    BY TypeStep, PartStep
  <1> QED BY <1>1, <1>2, PTL DEF Spec

\* What the tables hold when partition() has returned.
LEMMA Tables ==
  ASSUME TypeOK, PartInv, pc # "partition", NEW e \in Dim
  PROVE  /\ space[e] \in Nat /\ nparts[e] \in Nat \ {0}
         /\ \A k \in 0 .. nparts[e] - 1 :
              /\ parts[e][k] = PartSize(space[e], nparts[e], k)
              /\ offs[e][k] = PartOffset(space[e], nparts[e], k)
              /\ parts[e][k] \in Nat /\ offs[e][k] \in Nat
         /\ \A y \in 0 .. space[e] - 1 : \E k \in 0 .. nparts[e] - 1 : Contains(e, k, y)
         /\ minPart[e] = space[e] \div nparts[e]
  <1>1. space[e] \in Nat /\ nparts[e] \in Nat \ {0}
        /\ \A k \in 0 .. nparts[e] - 1 : parts[e][k] \in Nat /\ offs[e][k] \in Nat
    BY DimFacts
  <1>2. Layout(e) /\ Owned(e) /\ MinFirst(e) /\ Built(e) = nparts[e]
    BY DEF PartInv, Built
  <1>3. PartOffset(space[e], nparts[e], nparts[e]) = space[e]
    BY <1>1, LastOffset
  <1> QED BY <1>1, <1>2, <1>3 DEF Layout, Owned, MinFirst

\* Every point of the space has an owner.
THEOREM PointsOwned == Spec => []EveryPointOwned
  <1>1. TypeOK /\ PartInv => EveryPointOwned
    BY Tables DEF EveryPointOwned, Divided, Index
  <1> QED BY <1>1, PartInvariance, PTL

\* The partitions of the tables are disjoint.
LEMMA OwnersApart == TypeOK /\ PartInv => OwnersDistinct
  <1>1. SUFFICES ASSUME TypeOK, PartInv, pc # "partition", NEW e \in Dim,
                        NEW k \in 0 .. nparts[e] - 1, NEW m \in 0 .. nparts[e] - 1
                 PROVE  /\ k < m => offs[e][k] + parts[e][k] <= offs[e][m]
                        /\ offs[e][k] + parts[e][k] <= space[e]
    BY DEF OwnersDistinct, Divided, Index
  <1> DEFINE s == space[e]
             n == nparts[e]
  <1>2. /\ s \in Nat /\ n \in Nat \ {0} /\ n \in 0 .. n
        /\ parts[e][k] = PartSize(s, n, k) /\ offs[e][k] = PartOffset(s, n, k)
        /\ offs[e][m] = PartOffset(s, n, m)
    BY <1>1, Tables
  <1>3. PartOffset(s, n, n) = s
    BY <1>2, LastOffset
  <1> HIDE DEF s, n
  <1>4. k \in 0 .. n - 1 /\ m \in 0 .. n - 1 /\ m \in 0 .. n /\ k < n
    BY <1>2 DEF n
  <1>5. k < m => PartOffset(s, n, k) + PartSize(s, n, k) <= PartOffset(s, n, m)
    BY <1>2, <1>4, OffsetsOrdered
  <1>6. PartOffset(s, n, k) + PartSize(s, n, k) <= PartOffset(s, n, n)
    BY <1>2, <1>4, OffsetsOrdered
  <1> QED BY <1>2, <1>3, <1>5, <1>6 DEF s

\* No point has two owners, and no partition leaves the space.
THEOREM NoOverlap == Spec => []OwnersDistinct
  BY OwnersApart, PartInvariance, PTL

\* The extents differ by one at most from the smallest, which is recorded.
THEOREM Even == Spec => []Balanced
  <1>1. TypeOK /\ PartInv => Balanced
    <2> SUFFICES ASSUME TypeOK, PartInv, Divided, NEW e \in Dim, NEW k \in Index(e)
                 PROVE  parts[e][k] - minPart[e] \in {0, 1}
      BY DEF Balanced
    <2>1. /\ k \in 0 .. nparts[e] - 1 /\ space[e] \in Nat /\ nparts[e] \in Nat \ {0}
          /\ parts[e][k] = PartSize(space[e], nparts[e], k)
          /\ minPart[e] = space[e] \div nparts[e]
      BY Tables DEF Divided, Index
    <2>2. PartSize(space[e], nparts[e], k) - space[e] \div nparts[e] \in {0, 1}
      BY <2>1, PartSizeFacts
    <2> QED BY <2>1, <2>2
  <1> QED BY <1>1, PartInvariance, PTL

-----------------------------------------------------------------------------
(* CollectPerProcSubgridInfo, of a program whose grids fit the space.       *)

\* The slices of a dimension stay right as long as what they speak of stays,
\* and the search only advances.
LEMMA SliceFrame ==
  ASSUME NEW e \in Dim, SliceInv(e), slices'[e] = slices[e],
         UNCHANGED <<parts, offs, lo, lim>>, Reached(e)' = Reached(e),
         Seen(e) \in Nat, Seen(e)' \in Nat, Seen(e) <= Seen(e)'
  PROVE  SliceInv(e)'
  <1>1. ASSUME NEW s \in slices[e]
        PROVE  SliceOf(e, s)'
    <2>1. SliceOf(e, s)
      BY DEF SliceInv
    <2> QED BY <2>1 DEF SliceOf
  <1> QED BY <1>1 DEF SliceInv

\* The ranges of the search.
LEMMA SearchFacts ==
  ASSUME TypeOK, NEW e \in Dim
  PROVE  Reached(e) \in Nat /\ Seen(e) \in Nat /\ d \in Dim /\ d \in Nat /\ j \in Nat /\ x \in Nat
  <1>1. d \in Dim /\ j \in Nat /\ x \in Nat
    BY DEF TypeOK
  <1> QED BY <1>1, DimFacts, ConstantFacts DEF Reached, Seen, Least

\* When the inner loop ends, the search has reached the end of the region:
\* the last partition ends where the space ends.
LEMMA ReachedEnd ==
  ASSUME TypeOK, PartInv, CollectInv, pc = "collect", ~(j < nparts[d] /\ x < lim[d])
  PROVE  d \in Dim /\ Reached(d) = lim[d] /\ Seen(d) <= nparts[d]
  <1>1. d \in Dim /\ j \in Nat /\ x \in Nat /\ d \in Nat
    BY SearchFacts, ConstantFacts DEF TypeOK
  <1>2. space[d] \in Nat /\ nparts[d] \in Nat \ {0} /\ lim[d] \in Nat /\ grid[d] \in Nat
    BY <1>1, DimFacts
  <1>3. j <= nparts[d] /\ (x < lim[d] => PartOffset(space[d], nparts[d], j) <= x)
    BY DEF CollectInv, Position
  <1>4. lim[d] <= space[d]
    BY <1>1, <1>2 DEF CollectInv, Region
  <1>5. PartOffset(space[d], nparts[d], nparts[d]) = space[d]
    BY <1>2, LastOffset
  <1>6. ~(x < lim[d])
    <2>1. SUFFICES ASSUME x < lim[d]
                   PROVE  FALSE
      OBVIOUS
    <2>2. j = nparts[d]
      BY <2>1, <1>1, <1>2, <1>3
    <2> QED BY <2>1, <2>2, <1>1, <1>2, <1>3, <1>4, <1>5
  <1> QED BY <1>1, <1>2, <1>3, <1>6 DEF Reached, Seen, Least

\* One round of the inner loop.
LEMMA CollectNextStep ==
  ASSUME TypeOK, PartInv, CollectInv, CollectNext
  PROVE  CollectInv'
  <1> DEFINE n == nparts[d]
             stop == offs[d][j] + parts[d][j]
             new == Slice(j, x, Least(stop - x, lim[d] - x))
  <1>1. /\ pc = "collect" /\ j < n /\ x < lim[d] /\ j' = j + 1
        /\ UNCHANGED <<space, nparts, parts, offs, pc, d, grid, lo, lim>>
        /\ IF x < stop
           THEN slices' = [slices EXCEPT ![d] = @ \cup {new}] /\ x' = stop
           ELSE slices' = slices /\ x' = x
    BY DEF CollectNext, spaceVars
  <1>2. d \in Dim /\ j \in 0 .. n - 1 /\ j \in Nat /\ x \in Nat /\ d \in Nat
        /\ n \in Nat \ {0} /\ lo[d] \in Nat /\ lim[d] \in Nat /\ space[d] \in Nat
    <2>1. d \in Dim /\ j \in Nat /\ x \in Nat
      BY DEF TypeOK
    <2> QED BY <2>1, <1>1, DimFacts
  <1>3. /\ offs[d][j] \in Nat /\ parts[d][j] \in Nat /\ stop \in Nat
        /\ offs[d][j] <= x /\ PartOffset(space[d], n, j + 1) = stop
    <2>1. /\ parts[d][j] = PartSize(space[d], n, j) /\ offs[d][j] = PartOffset(space[d], n, j)
          /\ parts[d][j] \in Nat /\ offs[d][j] \in Nat
      BY <1>1, <1>2, Tables
    <2>2. PartOffset(space[d], n, j + 1) = stop
      BY <2>1, <1>2, NextOffset
    <2> QED BY <2>1, <2>2, <1>1 DEF CollectInv, Position
  <1>4. lo[d] <= x
    BY <1>1 DEF CollectInv, Position
  <1> HIDE DEF n, stop, new
  <1>5. Region' /\ Fresh'
    BY <1>1 DEF CollectInv, Region, Fresh
  <1>6. Position'
    <2>1. /\ j + 1 <= n /\ lo[d] <= x'
          /\ x' < lim[d] => PartOffset(space[d], n, j + 1) <= x'
      BY <1>1, <1>2, <1>3, <1>4
    <2> QED BY <2>1, <1>1 DEF Position, n
  <1>7. ASSUME NEW e \in Dim
        PROVE  SliceInv(e)'
    <2>0. SliceInv(e) /\ e \in Nat
      BY ConstantFacts DEF CollectInv
    <2>1. CASE e # d
      <3>1. slices'[e] = slices[e] /\ Reached(e)' = Reached(e) /\ Seen(e)' = Seen(e)
        BY <2>1, <1>1, <1>2 DEF TypeOK, Reached, Seen
      <3>2. Seen(e) \in Nat
        BY SearchFacts
      <3> QED BY <3>1, <3>2, <2>0, <1>1, SliceFrame
    <2>2. CASE e = d /\ ~(x < stop)
      <3>1. slices'[e] = slices[e] /\ Reached(e)' = Reached(e)
            /\ Seen(e) = j /\ Seen(e)' = j + 1
        BY <2>2, <1>1, <1>2 DEF Reached, Seen
      <3> QED BY <3>1, <2>0, <1>1, <1>2, SliceFrame
    <2>3. CASE e = d /\ x < stop
      <3>1. /\ slices'[d] = slices[d] \cup {new} /\ x' = stop
            /\ Seen(d) = j /\ Seen(d)' = j + 1
            /\ Reached(d) = x /\ Reached(d)' = Least(stop, lim[d])
        BY <2>3, <1>1, <1>2 DEF TypeOK, Reached, Seen, Least
      <3>2. new.peer = j /\ new.off = x /\ new.size = Least(stop - x, lim[d] - x)
        BY DEF new, Slice
      <3>3. /\ new.size > 0 /\ new.size \in Nat /\ new.off + new.size = Least(stop, lim[d])
            /\ Least(stop, lim[d]) > x /\ Least(stop, lim[d]) <= stop
            /\ Least(stop, lim[d]) \in Nat
        BY <3>2, <2>3, <1>1, <1>2, <1>3 DEF Least
      <3>4. ASSUME NEW s \in slices'[d]
            PROVE  SliceOf(d, s)'
        <4>1. CASE s = new
          <5>1. /\ s.peer = j /\ lo[d] <= s.off /\ s.size > 0
                /\ s.off + s.size = Reached(d)' /\ Reached(d)' \in Nat
                /\ offs[d][j] <= s.off
                /\ s.off + s.size <= offs[d][j] + parts[d][j]
            BY <4>1, <3>1, <3>2, <3>3, <1>3, <1>4 DEF stop
          <5> QED BY <5>1, <3>1, <1>1, <1>2 DEF SliceOf
        <4>2. CASE s \in slices[d]
          <5>1. SliceOf(d, s) /\ s \in Slices
            BY <4>2, <2>0, <2>3 DEF SliceInv, TypeOK
          <5>2. s.peer \in Nat /\ s.off \in Nat /\ s.size \in Nat
            BY <5>1 DEF Slices
          <5>3. s.peer \in 0 .. j /\ s.off + s.size <= Reached(d)'
            BY <5>1, <5>2, <3>1, <3>3, <1>2 DEF SliceOf
          <5> QED BY <5>1, <5>3, <3>1, <1>1, <1>2 DEF SliceOf
        <4> QED BY <4>1, <4>2, <3>1
      <3>5. ASSUME NEW s \in slices'[d], NEW t \in slices'[d], s.peer = t.peer
            PROVE  s = t
        <4>1. \A u \in slices[d] : u.peer # j
          <5>1. \A u \in slices[d] : u.peer \in 0 .. j - 1
            BY <2>0, <2>3, <3>1 DEF SliceInv, SliceOf
          <5> QED BY <5>1, <1>2
        <4> QED BY <4>1, <3>1, <3>2, <3>5, <2>0, <2>3 DEF SliceInv
      <3>6. ASSUME NEW y \in lo[d] .. Reached(d)' - 1
            PROVE  \E s \in slices'[d] : s.off <= y /\ y < s.off + s.size
        <4>0. y \in Int /\ lo[d] <= y /\ y < Least(stop, lim[d])
          BY <3>1, <3>3, <1>2
        <4>1. CASE y < x
          <5>1. y \in lo[d] .. Reached(d) - 1
            BY <4>0, <4>1, <3>1, <1>2
          <5>2. PICK s \in slices[d] : s.off <= y /\ y < s.off + s.size
            BY <5>1, <2>0, <2>3 DEF SliceInv
          <5> QED BY <5>2, <3>1
        <4>2. CASE ~(y < x)
          <5>1. new.off <= y /\ y < new.off + new.size /\ new \in slices'[d]
            BY <4>0, <4>2, <3>1, <3>2, <3>3, <1>2
          <5> QED BY <5>1
        <4> QED BY <4>1, <4>2
      <3> QED BY <3>4, <3>5, <3>6, <2>3, <1>1 DEF SliceInv
    <2> QED BY <2>1, <2>2, <2>3
  <1> QED BY <1>5, <1>6, <1>7 DEF CollectInv

\* The search goes on with the next dimension.
LEMMA CollectDimStep ==
  ASSUME TypeOK, PartInv, CollectInv, CollectDim
  PROVE  CollectInv'
  <1>1. /\ pc = "collect" /\ ~(j < nparts[d] /\ x < lim[d]) /\ d < NDims
        /\ d' = d + 1 /\ j' = 0 /\ x' = lo[d + 1]
        /\ UNCHANGED <<space, nparts, parts, offs, pc, grid, lo, lim, slices>>
    BY DEF CollectDim, spaceVars
  <1>2. Reached(d) = lim[d] /\ Seen(d) <= nparts[d] /\ d \in Dim /\ d \in Nat
        /\ d + 1 \in Dim
    <2>1. Reached(d) = lim[d] /\ Seen(d) <= nparts[d] /\ d \in Dim
      BY <1>1, ReachedEnd
    <2> QED BY <2>1, <1>1, ConstantFacts DEF Dim
  <1>3. PICK f \in Dim : f = d + 1
    BY <1>2
  <1>4. lo[f] \in Nat /\ lim[f] \in Nat /\ lo[f] <= lim[f]
        /\ nparts[f] \in Nat \ {0} /\ space[f] \in Nat
    BY DimFacts DEF CollectInv, Region
  <1>5. Region' /\ Fresh'
    BY <1>1 DEF CollectInv, Region, Fresh
  <1>6. Position'
    <2>1. PartOffset(space[f], nparts[f], 0) = 0
      BY <1>4, FirstOffset
    <2>2. d' = f /\ j' = 0 /\ x' = lo[f]
      BY <1>1, <1>3
    <2> QED BY <2>1, <2>2, <1>1, <1>4 DEF Position
  <1>7. ASSUME NEW e \in Dim
        PROVE  SliceInv(e)'
    <2>1. SliceInv(e) /\ e \in Nat /\ Seen(e) \in Nat /\ nparts[e] \in Nat \ {0}
          /\ lo[e] \in Nat /\ lim[e] \in Nat /\ lo[e] <= lim[e]
      BY ConstantFacts, SearchFacts, DimFacts DEF CollectInv, Region
    <2>2. CASE e < d
      <3>1. Reached(e)' = Reached(e) /\ Seen(e)' = Seen(e)
        BY <2>1, <2>2, <1>1, <1>2 DEF Reached, Seen
      <3> QED BY <3>1, <2>1, <1>1, SliceFrame
    <2>3. CASE e = d
      <3>1. Reached(e)' = Reached(e) /\ Seen(e)' = nparts[e] /\ Seen(e) <= nparts[e]
        BY <2>1, <2>3, <1>1, <1>2 DEF Reached, Seen
      <3> QED BY <3>1, <2>1, <1>1, SliceFrame
    <2>4. CASE e > d
      <3>1. Reached(e) = lo[e] /\ Seen(e) = 0
        BY <2>1, <2>4, <1>1, <1>2 DEF Reached, Seen
      <3>2. Reached(e)' = lo[e] /\ Seen(e)' = 0
        BY <2>1, <2>4, <1>1, <1>2 DEF Reached, Seen, Least
      <3> QED BY <3>1, <3>2, <2>1, <1>1, SliceFrame
    <2> QED BY <2>1, <2>2, <2>3, <2>4, <1>2
  <1> QED BY <1>5, <1>6, <1>7 DEF CollectInv

\* The search has ended.
LEMMA CollectReturnStep ==
  ASSUME TypeOK, PartInv, CollectInv, CollectReturn
  PROVE  CollectInv'
  <1>1. /\ pc = "collect" /\ ~(j < nparts[d] /\ x < lim[d]) /\ d = NDims /\ pc' = "grid"
        /\ UNCHANGED <<space, nparts, parts, offs, d, grid, lo, lim, slices>>
    BY DEF CollectReturn, spaceVars
  <1>2. Reached(d) = lim[d] /\ Seen(d) <= nparts[d] /\ d \in Dim
    BY <1>1, ReachedEnd
  <1>3. Region' /\ Fresh' /\ Position'
    BY <1>1 DEF CollectInv, Region, Fresh, Position
  <1>4. ASSUME NEW e \in Dim
        PROVE  SliceInv(e)'
    <2>1. SliceInv(e) /\ Seen(e) \in Nat /\ nparts[e] \in Nat \ {0}
      BY SearchFacts, DimFacts DEF CollectInv
    <2>2. Reached(e) = lim[e] /\ Seen(e) <= nparts[e]
      <3>1. e = d \/ e < d
        BY <1>1, ConstantFacts DEF Dim
      <3> QED BY <3>1, <1>2, <2>1 DEF Reached, Seen
    <2>3. Reached(e)' = lim[e] /\ Seen(e)' = nparts[e]
      BY <1>1 DEF Reached, Seen
    <2> QED BY <2>1, <2>2, <2>3, <1>1, SliceFrame
  <1> QED BY <1>3, <1>4 DEF CollectInv

\* A search begins with no slices and nothing reached.
LEMMA LoadSubgridStep ==
  ASSUME TypeOK, CollectInv, NEW l \in [Dim -> Extents], NEW h \in [Dim -> Extents],
         LoadSubgrid(l, h)
  PROVE  CollectInv'
  <1>1. /\ \A e \in Dim : l[e] <= h[e] /\ h[e] <= grid[e]
        /\ lo' = l /\ lim' = h /\ slices' = [e \in Dim |-> {}]
        /\ pc' = "collect" /\ d' = 1 /\ j' = 0 /\ x' = l[1]
        /\ UNCHANGED <<space, nparts, parts, offs, grid>>
    BY DEF LoadSubgrid, spaceVars
  <1>2. \A e \in Dim : l[e] \in Nat /\ h[e] \in Nat
    BY ConstantFacts
  <1>3. Region' /\ Fresh'
    BY <1>1 DEF CollectInv, Region, Fresh
  <1>4. Position'
    <2>1. PICK f \in Dim : f = 1
      BY ConstantFacts
    <2>2. space[f] \in Nat /\ nparts[f] \in Nat \ {0} /\ l[f] \in Nat
      BY <1>2, DimFacts
    <2>3. PartOffset(space[f], nparts[f], 0) = 0
      BY <2>2, FirstOffset
    <2>4. d' = f /\ j' = 0 /\ x' = l[f] /\ lo' = l /\ lim' = h
          /\ space' = space /\ nparts' = nparts
      BY <1>1, <2>1
    <2> QED BY <2>2, <2>3, <2>4 DEF Position
  <1>5. ASSUME NEW e \in Dim
        PROVE  SliceInv(e)'
    <2>1. slices'[e] = {} /\ lo'[e] = l[e] /\ l[e] \in Nat /\ h[e] \in Nat /\ l[e] <= h[e]
      BY <1>1, <1>2
    <2>2. Reached(e)' = l[e]
      <3>1. e \in Nat /\ e >= 1
        BY ConstantFacts DEF Dim
      <3> QED BY <3>1, <1>1, <2>1 DEF Reached, Least
    <2> QED BY <2>1, <2>2 DEF SliceInv
  <1> QED BY <1>3, <1>4, <1>5 DEF CollectInv

\* Before there is a grid there are no slices, and the region is empty.
LEMMA FreshStep ==
  ASSUME TypeOK, TypeOK', Region', Fresh', pc' \in {"partition", "user"}
  PROVE  CollectInv'
  <1>1. Position'
    BY DEF Position
  <1>2. ASSUME NEW e \in Dim
        PROVE  SliceInv(e)'
    <2>1. grid'[e] = 0 /\ slices'[e] = {}
      BY DEF Fresh
    <2>2. lo'[e] <= lim'[e] /\ lim'[e] <= grid'[e] /\ lo'[e] \in Nat /\ lim'[e] \in Nat
      BY DEF Region, TypeOK
    <2>3. Reached(e)' = lim'[e] /\ lim'[e] = 0 /\ lo'[e] = 0
      BY <2>1, <2>2 DEF Reached
    <2> QED BY <2>1, <2>3 DEF SliceInv
  <1> QED BY <1>1, <1>2 DEF CollectInv

\* The grid is created within the space.
LEMMA GridNewStep ==
  ASSUME WithinSpace, TypeOK, CollectInv, NEW s \in [Dim -> Extents], GridNew(s)
  PROVE  CollectInv'
  <1>1. /\ pc = "user" /\ pc' = "grid" /\ grid' = s
        /\ \A e \in Dim : s[e] <= space[e]
        /\ UNCHANGED <<space, nparts, parts, offs, d, lo, lim, slices>>
    BY DEF GridNew, spaceVars, Fits
  <1>2. Region'
    <2>1. SUFFICES ASSUME NEW e \in Dim
                   PROVE  lo[e] <= lim[e] /\ lim[e] <= s[e] /\ s[e] <= space[e]
      BY <1>1 DEF Region
    <2>2. lo[e] <= lim[e] /\ lim[e] <= grid[e] /\ grid[e] = 0 /\ lim[e] \in Nat
      BY <1>1, DimFacts DEF CollectInv, Region, Fresh
    <2>3. s[e] \in Nat
      BY ConstantFacts
    <2> QED BY <2>2, <2>3, <1>1
  <1>3. Fresh' /\ Position'
    BY <1>1 DEF Fresh, Position
  <1>4. ASSUME NEW e \in Dim
        PROVE  SliceInv(e)'
    <2>1. SliceInv(e) /\ Reached(e)' = Reached(e) /\ Seen(e)' = Seen(e) /\ Seen(e) \in Nat
      BY <1>1, SearchFacts DEF CollectInv, Reached, Seen
    <2> QED BY <2>1, <1>1, SliceFrame
  <1> QED BY <1>2, <1>3, <1>4 DEF CollectInv

\* Every step keeps CollectInv.
LEMMA CollectStep ==
  ASSUME WithinSpace, TypeOK, TypeOK', PartInv, CollectInv, [Next]_vars
  PROVE  CollectInv'
  <1>1. CASE PartitionNext \/ PartitionDim \/ PartitionReturn
    <2>1. /\ pc = "partition" /\ pc' \in {"partition", "user"}
          /\ UNCHANGED <<space, grid, lo, lim, slices>>
      BY <1>1 DEF PartitionNext, PartitionDim, PartitionReturn, spaceVars
    <2>2. Region' /\ Fresh'
      BY <2>1 DEF CollectInv, Region, Fresh
    <2> QED BY <2>1, <2>2, FreshStep
  <1>2. CASE \E s \in [Dim -> Extents] : GridNew(s)
    BY <1>2, GridNewStep
  <1>3. CASE \E l, h \in [Dim -> Extents] : LoadSubgrid(l, h)
    BY <1>3, LoadSubgridStep
  <1>4. CASE CollectNext
    BY <1>4, CollectNextStep
  <1>5. CASE CollectDim
    BY <1>5, CollectDimStep
  <1>6. CASE CollectReturn
    BY <1>6, CollectReturnStep
  <1>7. CASE UNCHANGED vars
    <2>1. Region' /\ Fresh' /\ Position'
      BY <1>7 DEF CollectInv, Region, Fresh, Position, vars, spaceVars
    <2>2. ASSUME NEW e \in Dim
          PROVE  SliceInv(e)'
      <3>1. SliceInv(e) /\ Reached(e)' = Reached(e) /\ Seen(e)' = Seen(e) /\ Seen(e) \in Nat
        BY <1>7, SearchFacts DEF CollectInv, Reached, Seen, vars, spaceVars
      <3> QED BY <3>1, <1>7, SliceFrame DEF vars, spaceVars
    <2> QED BY <2>1, <2>2 DEF CollectInv
  <1> QED BY <1>1, <1>2, <1>3, <1>4, <1>5, <1>6, <1>7 DEF Next

\* The initial state.
LEMMA CollectInit ==
  ASSUME Init
  PROVE  CollectInv
  <1>1. TypeOK /\ pc = "partition"
    BY TypeInit DEF Init
  <1>2. \A e \in Dim : grid[e] = 0 /\ lo[e] = 0 /\ lim[e] = 0 /\ slices[e] = {}
                      /\ space[e] \in Nat
    BY <1>1, DimFacts DEF Init, Origin
  <1>3. Region /\ Fresh /\ Position
    BY <1>1, <1>2 DEF Region, Fresh, Position
  <1>4. \A e \in Dim : SliceInv(e)
    BY <1>1, <1>2 DEF SliceInv, Reached
  <1> QED BY <1>3, <1>4 DEF CollectInv

\* DecompositionInv is an invariant of a program whose grids fit the space.
THEOREM Invariance ==
  ASSUME WithinSpace
  PROVE  Spec => []DecompositionInv
  <1>1. Init => DecompositionInv
    BY TypeInit, PartInit, CollectInit DEF DecompositionInv
  <1>2. DecompositionInv /\ [Next]_vars => DecompositionInv'
    BY TypeStep, PartStep, CollectStep DEF DecompositionInv
  <1> QED BY <1>1, <1>2, PTL DEF Spec

\* What fetch_info holds of a dimension when the search has ended.
LEMMA SliceFacts ==
  ASSUME DecompositionInv, Collected, NEW e \in Dim
  PROVE  /\ lo[e] \in Nat /\ lim[e] \in Nat /\ grid[e] \in Nat /\ nparts[e] \in Nat \ {0}
         /\ lim[e] <= grid[e]
         /\ \A y \in lo[e] .. lim[e] - 1 :
              \E s \in slices[e] : s.off <= y /\ y < s.off + s.size
         /\ \A s, t \in slices[e] : s.peer = t.peer => s = t
         /\ \A s \in slices[e] :
              /\ s.peer \in 0 .. nparts[e] - 1 /\ s.off \in Nat /\ s.size \in Nat
              /\ lo[e] <= s.off /\ s.size > 0 /\ s.off + s.size <= lim[e]
              /\ offs[e][s.peer] <= s.off
              /\ s.off + s.size <= offs[e][s.peer] + parts[e][s.peer]
              /\ offs[e][s.peer] \in Nat /\ parts[e][s.peer] \in Nat
  <1>1. TypeOK /\ PartInv /\ SliceInv(e) /\ Region /\ pc = "grid"
    BY DEF DecompositionInv, CollectInv, Collected
  <1>2. Reached(e) = lim[e] /\ Seen(e) = nparts[e]
    BY <1>1 DEF Reached, Seen
  <1>3. lo[e] \in Nat /\ lim[e] \in Nat /\ grid[e] \in Nat /\ nparts[e] \in Nat \ {0}
        /\ lim[e] <= grid[e]
        /\ \A k \in 0 .. nparts[e] - 1 : parts[e][k] \in Nat /\ offs[e][k] \in Nat
    BY <1>1, DimFacts DEF Region
  <1>4. ASSUME NEW s \in slices[e]
        PROVE  /\ s.peer \in 0 .. nparts[e] - 1 /\ s.off \in Nat /\ s.size \in Nat
               /\ lo[e] <= s.off /\ s.size > 0 /\ s.off + s.size <= lim[e]
               /\ offs[e][s.peer] <= s.off
               /\ s.off + s.size <= offs[e][s.peer] + parts[e][s.peer]
    <2>1. SliceOf(e, s)
      BY <1>1 DEF SliceInv
    <2>2. s \in Slices
      BY <1>1 DEF TypeOK
    <2>3. s.off \in Nat /\ s.size \in Nat
      BY <2>2 DEF Slices
    <2> QED BY <2>1, <2>3, <1>2 DEF SliceOf
  <1>5. /\ \A y \in lo[e] .. lim[e] - 1 :
             \E s \in slices[e] : s.off <= y /\ y < s.off + s.size
        /\ \A s, t \in slices[e] : s.peer = t.peer => s = t
    BY <1>1, <1>2 DEF SliceInv
  <1> QED BY <1>3, <1>4, <1>5

\* The slices cover the region that the kernel reads.
THEOREM RegionCovered ==
  ASSUME WithinSpace
  PROVE  Spec => []SlicesCover
  <1>1. DecompositionInv => SlicesCover
    BY SliceFacts DEF SlicesCover
  <1> QED BY <1>1, Invariance, PTL

\* They are disjoint parts of it, one of each peer at most.
THEOREM RegionExact ==
  ASSUME WithinSpace
  PROVE  Spec => []SlicesExact
  <1>1. DecompositionInv => SlicesExact
    <2>1. SUFFICES ASSUME DecompositionInv, Collected, NEW e \in Dim,
                          NEW s \in slices[e], NEW t \in slices[e]
                   PROVE  /\ lo[e] <= s.off /\ s.size > 0 /\ s.off + s.size <= lim[e]
                          /\ s # t => /\ s.peer # t.peer
                                      /\ \/ s.off + s.size <= t.off
                                         \/ t.off + t.size <= s.off
      BY DEF SlicesExact
    <2>2. /\ s.peer \in Nat /\ t.peer \in Nat
          /\ s.off \in Nat /\ s.size \in Nat /\ t.off \in Nat /\ t.size \in Nat
          /\ lo[e] <= s.off /\ s.size > 0 /\ s.off + s.size <= lim[e]
          /\ offs[e][s.peer] <= s.off /\ offs[e][t.peer] <= t.off
          /\ s.off + s.size <= offs[e][s.peer] + parts[e][s.peer]
          /\ t.off + t.size <= offs[e][t.peer] + parts[e][t.peer]
          /\ offs[e][s.peer] \in Nat /\ parts[e][s.peer] \in Nat
          /\ offs[e][t.peer] \in Nat /\ parts[e][t.peer] \in Nat
          /\ s.peer = t.peer => s = t
      <3>1. s.peer \in 0 .. nparts[e] - 1 /\ t.peer \in 0 .. nparts[e] - 1
            /\ nparts[e] \in Nat
        BY <2>1, SliceFacts
      <3>2. s.peer \in Nat /\ t.peer \in Nat
        BY <3>1
      <3> QED BY <3>2, <2>1, SliceFacts
    <2>3. OwnersDistinct /\ s.peer \in Index(e) /\ t.peer \in Index(e) /\ Divided
      <3>1. s.peer \in Index(e) /\ t.peer \in Index(e)
        BY <2>1, SliceFacts DEF Index
      <3>2. OwnersDistinct /\ Divided
        BY <2>1, OwnersApart DEF DecompositionInv, Collected, Divided
      <3> QED BY <3>1, <3>2
    <2>4. /\ s.peer < t.peer => offs[e][s.peer] + parts[e][s.peer] <= offs[e][t.peer]
          /\ t.peer < s.peer => offs[e][t.peer] + parts[e][t.peer] <= offs[e][s.peer]
      BY <2>3 DEF OwnersDistinct
    <2>5. s # t => /\ s.peer # t.peer
                   /\ s.off + s.size <= t.off \/ t.off + t.size <= s.off
      <3>1. CASE s.peer < t.peer
        BY <3>1, <2>2, <2>4
      <3>2. CASE t.peer < s.peer
        BY <3>2, <2>2, <2>4
      <3>3. CASE s.peer = t.peer
        BY <3>3, <2>2
      <3> QED BY <3>1, <3>2, <3>3, <2>2
    <2> QED BY <2>2, <2>5
  <1> QED BY <1>1, Invariance, PTL

\* A peer holds what it is asked for.
THEOREM PeersHold ==
  ASSUME WithinSpace
  PROVE  Spec => []PeersHoldSlices
  <1>1. DecompositionInv => PeersHoldSlices
    <2>1. SUFFICES ASSUME DecompositionInv, Collected, NEW e \in Dim, NEW s \in slices[e]
                   PROVE  /\ s.peer \in Index(e)
                          /\ \A y \in s.off .. s.off + s.size - 1 : Holds(e, s.peer, y)
      BY DEF PeersHoldSlices
    <2>2. s.peer \in Index(e)
      BY <2>1, SliceFacts DEF Index
    <2>3. ASSUME NEW y \in s.off .. s.off + s.size - 1
          PROVE  Holds(e, s.peer, y)
      <3> DEFINE o == offs[e][s.peer]
                 p == parts[e][s.peer]
      <3>1. /\ o \in Nat /\ p \in Nat /\ grid[e] \in Nat /\ lim[e] \in Nat
            /\ s.off \in Nat /\ s.size \in Nat
            /\ o <= s.off /\ s.off + s.size <= o + p
            /\ s.off + s.size <= lim[e] /\ lim[e] <= grid[e]
        BY <2>1, SliceFacts
      <3> HIDE DEF o, p
      <3>2. y \in Nat /\ o <= y /\ y < o + p /\ y < grid[e]
        BY <3>1
      <3>3. Most(o, 0) = o /\ Most(Least(grid[e], o + p) - Most(o, 0), 0) + o > y
        BY <3>1, <3>2 DEF Most, Least
      <3>4. LocalOffset(e, s.peer) = o
            /\ LocalSize(e, s.peer) = Most(Least(grid[e], o + p) - Most(o, 0), 0)
        BY <3>3 DEF LocalOffset, LocalSize, o, p
      <3>5. Most(Least(grid[e], o + p) - Most(o, 0), 0) \in Nat
        BY <3>1 DEF Most, Least
      <3> QED BY <3>1, <3>2, <3>3, <3>4, <3>5 DEF Holds
    <2> QED BY <2>2, <2>3
  <1> QED BY <1>1, Invariance, PTL

-----------------------------------------------------------------------------
(* Ranks and process indices.  Stride and GetProcessRank are recursive       *)
(* functions: their equations are proved here, by induction over a set of   *)
(* the arguments for which they hold.                                      *)

\* A set of numbers up to n that has 0, and with each number the next, has all.
LEMMA Induction ==
  ASSUME NEW n \in Nat, NEW T \in SUBSET (0 .. n), 0 \in T,
         \A i \in 0 .. n - 1 : i \in T => i + 1 \in T
  PROVE  T = 0 .. n
<1> DEFINE Bad == {i \in Nat : i \in 0 .. n /\ i \notin T}
<1> SUFFICES ASSUME Bad # {} PROVE FALSE
  <2>1. Bad = {} => \A i \in 0 .. n : i \in T
    OBVIOUS
  <2> QED BY <2>1
<1>1. IsWellFoundedOn(OpToRel(<, Nat), Nat)
  BY NatLessThanWellFounded
<1>2. PICK R : R = OpToRel(<, Nat)
  OBVIOUS
<1>3. R = {ss \in Nat \X Nat : ss[1] < ss[2]}
  BY <1>2 DEF OpToRel
<1>4. PICK m \in Bad : \A k \in Bad : ~(<<k, m>> \in R)
  BY <1>1, <1>2, WFMin
<1>5. m \in 1 .. n
  OBVIOUS
<1>6. m - 1 \notin Bad
  <2>1. PICK ss : ss = <<m - 1, m>>
    OBVIOUS
  <2>2. ss \in Nat \X Nat /\ ss[1] = m - 1 /\ ss[2] = m
    BY <1>5, <2>1
  <2>3. ss \in R
    BY ONLY <1>3, <1>5, <2>2
  <2> QED BY <1>4, <2>1, <2>3
<1>7. m - 1 \in T /\ m - 1 \in 0 .. n - 1
  BY <1>5, <1>6
<1> QED BY <1>5, <1>7

\* f is what Stride computes.
StrideFn(f, k) ==
  /\ f \in [1 .. k + 1 -> Nat \ {0}] /\ f[1] = 1
  /\ \A i \in 1 .. k : f[i + 1] = f[i] * nparts[i]

LEMMA StrideExists ==
  ASSUME nparts \in [Dim -> ProcCounts]
  PROVE  \E f : StrideFn(f, NDims)
<1> USE DecompositionAssumption
<1> DEFINE T == {k \in 0 .. NDims : \E f : StrideFn(f, k)}
<1>1. 0 \in T
  <2> DEFINE f == [i \in 1 .. 1 |-> 1]
  <2>1. StrideFn(f, 0)
    BY DEF StrideFn
  <2> QED BY <2>1
<1>2. ASSUME NEW k \in 0 .. NDims - 1, k \in T PROVE k + 1 \in T
  <2>1. PICK f : StrideFn(f, k)
    BY <1>2
  <2>2. f[k + 1] \in Nat \ {0} /\ nparts[k + 1] \in Nat \ {0}
    <3>1. k + 1 \in 1 .. k + 1 /\ k + 1 \in Dim
      BY DEF Dim
    <3>2. f \in [1 .. k + 1 -> Nat \ {0}]
      BY <2>1 DEF StrideFn
    <3>3. f[k + 1] \in Nat \ {0}
      BY <3>1, <3>2
    <3>4. nparts[k + 1] \in ProcCounts
      BY <3>1
    <3> QED BY <3>3, <3>4
  <2>3. PICK v : v = f[k + 1] * nparts[k + 1]
    OBVIOUS
  <2>4. v \in Nat \ {0}
    BY <2>2, <2>3
  <2> DEFINE g == [i \in 1 .. k + 1 + 1 |-> IF i = k + 2 THEN v ELSE f[i]]
  <2>5. g \in [1 .. k + 1 + 1 -> Nat \ {0}] /\ g[1] = 1
    <3>1. \A i \in 1 .. k + 2 : i # k + 2 => i \in 1 .. k + 1
      OBVIOUS
    <3>2. 1 \in 1 .. k + 1 /\ 1 # k + 2 /\ 1 \in 1 .. k + 2
      OBVIOUS
    <3>3. \A i \in 1 .. k + 1 + 1 : g[i] \in Nat \ {0}
      <4>1. f \in [1 .. k + 1 -> Nat \ {0}] /\ k + 1 + 1 = k + 2
        BY <2>1 DEF StrideFn
      <4> QED BY <2>4, <3>1, <4>1
    <3>4. f[1] = 1 /\ g[1] = f[1]
      BY <2>1, <3>2 DEF StrideFn
    <3> HIDE DEF g
    <3>5. DOMAIN g = 1 .. k + 1 + 1 /\ g = [i \in 1 .. k + 1 + 1 |-> g[i]]
      BY DEF g
    <3> QED BY <3>3, <3>4, <3>5
  <2>6. \A i \in 1 .. k + 1 : g[i + 1] = g[i] * nparts[i]
    BY <2>1, <2>3 DEF StrideFn
  <2> HIDE DEF g
  <2>7. StrideFn(g, k + 1)
    BY <2>5, <2>6 DEF StrideFn
  <2> QED BY <2>7
<1>3. T = 0 .. NDims
  <2>1. T \in SUBSET (0 .. NDims) /\ NDims \in Nat
    OBVIOUS
  <2> HIDE DEF T
  <2> QED BY <1>1, <1>2, <2>1, Induction
<1> QED BY <1>3

LEMMA StrideIs ==
  ASSUME nparts \in [Dim -> ProcCounts]
  PROVE  \E f : StrideFn(f, NDims) /\ \A e \in 1 .. NDims + 1 : Stride(e) = f[e]
<1> DEFINE f[i \in 1 .. NDims + 1] == IF i = 1 THEN 1 ELSE f[i - 1] * nparts[i - 1]
<1>1. PICK g : StrideFn(g, NDims)
  BY StrideExists
<1>2. g = [i \in 1 .. NDims + 1 |-> IF i = 1 THEN 1 ELSE g[i - 1] * nparts[i - 1]]
  <2>1. \A i \in 1 .. NDims + 1 : g[i] = IF i = 1 THEN 1 ELSE g[i - 1] * nparts[i - 1]
    <3> SUFFICES ASSUME NEW i \in 1 .. NDims + 1, i # 1
                 PROVE  g[i] = g[i - 1] * nparts[i - 1]
      BY <1>1 DEF StrideFn
    <3> PICK h \in 1 .. NDims : i = h + 1
      BY DecompositionAssumption
    <3> QED BY <1>1, DecompositionAssumption DEF StrideFn
  <2> QED BY <1>1, <2>1 DEF StrideFn
<1>3. f = [i \in 1 .. NDims + 1 |-> IF i = 1 THEN 1 ELSE f[i - 1] * nparts[i - 1]]
  BY <1>2
<1>4. \A e \in 1 .. NDims + 1 : Stride(e) = f[e]
  BY DEF Stride
<1>5. StrideFn(f, NDims)
  <2> HIDE DEF f
  <2> DEFINE U == {k \in 0 .. NDims : f[k + 1] = g[k + 1]}
  <2>1. 0 \in U
    BY <1>1, <1>3, DecompositionAssumption DEF StrideFn
  <2>2. ASSUME NEW k \in 0 .. NDims - 1, k \in U PROVE k + 1 \in U
    <3>1. k + 2 \in 1 .. NDims + 1 /\ k + 2 # 1 /\ k + 2 - 1 = k + 1 /\ k + 1 + 1 = k + 2
      BY DecompositionAssumption
    <3> HIDE DEF U
    <3> PICK h \in 1 .. NDims + 1 : h = k + 2
      BY <3>1
    <3>6. h # 1 /\ h - 1 = k + 1
      BY <3>1
    <3>2. f[k + 2] = f[k + 1] * nparts[k + 1]
      <4>1. f[h] = f[h - 1] * nparts[h - 1]
        BY <1>3, <3>6
      <4> QED BY ONLY <3>6, <4>1, h = k + 2
    <3>3. g[k + 2] = g[k + 1] * nparts[k + 1]
      <4>1. g[h] = g[h - 1] * nparts[h - 1]
        BY <1>2, <3>6
      <4> QED BY ONLY <3>6, <4>1, h = k + 2
    <3>4. f[k + 1] = g[k + 1]
      BY <2>2 DEF U
    <3>5. f[k + 1 + 1] = g[k + 1 + 1] /\ k + 1 \in 0 .. NDims
      BY <3>1, <3>2, <3>3, <3>4, DecompositionAssumption
    <3> QED BY <3>5 DEF U
  <2>3. U = 0 .. NDims
    <3>1. U \in SUBSET (0 .. NDims) /\ NDims \in Nat
      BY DecompositionAssumption
    <3> HIDE DEF U
    <3> QED BY <2>1, <2>2, <3>1, Induction
  <2>4. \A i \in 1 .. NDims + 1 : f[i] = g[i]
    <3> SUFFICES ASSUME NEW i \in 1 .. NDims + 1 PROVE f[i] = g[i]
      OBVIOUS
    <3>1. i - 1 \in 0 .. NDims /\ i - 1 + 1 = i
      BY DecompositionAssumption
    <3>2. i - 1 \in U
      BY <2>3, <3>1
    <3> QED BY <3>1, <3>2
  <2>5. f = g
    <3>1. g = [i \in 1 .. NDims + 1 |-> g[i]]
      BY <1>1 DEF StrideFn
    <3>2. f = [i \in 1 .. NDims + 1 |-> f[i]]
      BY <1>3
    <3> QED BY <2>4, <3>1, <3>2
  <2> QED BY <1>1, <2>5
<1> QED BY <1>4, <1>5

\* What the proofs below use: the strides S and the process counts.
Radix(S) ==
  /\ S \in [1 .. NDims + 1 -> Nat \ {0}] /\ S[1] = 1
  /\ nparts \in [Dim -> Nat \ {0}]
  /\ \A i \in Dim : S[i + 1] = S[i] * nparts[i]
  /\ \A e \in 1 .. NDims + 1 : Stride(e) = S[e]

LEMMA RadixExists ==
  ASSUME nparts \in [Dim -> ProcCounts]
  PROVE  \E S : Radix(S)
<1>1. PICK S : StrideFn(S, NDims) /\ \A e \in 1 .. NDims + 1 : Stride(e) = S[e]
  BY StrideIs
<1>2. nparts \in [Dim -> Nat \ {0}]
  BY DecompositionAssumption
<1>3. Radix(S)
  BY <1>1, <1>2 DEF Radix, StrideFn, Dim
<1> QED BY <1>3

\* f is what GetProcessRank computes of the process index idx.
RankFn(f, idx, S, k) ==
  /\ f \in [0 .. k -> Nat] /\ f[0] = 0
  /\ \A i \in 1 .. k : f[i] = f[i - 1] + idx[i] * S[i]

LEMMA RankExists ==
  ASSUME NEW S, Radix(S), NEW idx \in [Dim -> Nat]
  PROVE  \E f : RankFn(f, idx, S, NDims)
<1> USE DecompositionAssumption
<1> DEFINE T == {k \in 0 .. NDims : \E f : RankFn(f, idx, S, k)}
<1>1. 0 \in T
  <2> DEFINE f == [i \in 0 .. 0 |-> 0]
  <2>1. RankFn(f, idx, S, 0)
    BY DEF RankFn
  <2> QED BY <2>1
<1>2. ASSUME NEW k \in 0 .. NDims - 1, k \in T PROVE k + 1 \in T
  <2>1. PICK f : RankFn(f, idx, S, k)
    BY <1>2
  <2>2. f \in [0 .. k -> Nat] /\ f[0] = 0
    BY <2>1 DEF RankFn
  <2>3. k + 1 \in Dim /\ k + 1 \in 1 .. NDims + 1
    BY DEF Dim
  <2>4. idx[k + 1] \in Nat /\ S[k + 1] \in Nat /\ f[k] \in Nat
    BY <2>2, <2>3 DEF Radix
  <2>5. PICK v : v = f[k] + idx[k + 1] * S[k + 1]
    OBVIOUS
  <2>6. v \in Nat
    BY <2>4, <2>5
  <2> DEFINE g == [i \in 0 .. k + 1 |-> IF i = k + 1 THEN v ELSE f[i]]
  <2>7. g \in [0 .. k + 1 -> Nat] /\ g[0] = 0
    BY <2>2, <2>6
  <2>8. \A i \in 1 .. k + 1 : g[i] = g[i - 1] + idx[i] * S[i]
    <3> SUFFICES ASSUME NEW i \in 1 .. k + 1 PROVE g[i] = g[i - 1] + idx[i] * S[i]
      OBVIOUS
    <3>1. i - 1 \in 0 .. k /\ i - 1 # k + 1 /\ g[i - 1] = f[i - 1]
      OBVIOUS
    <3>2. CASE i = k + 1
      BY <2>5, <3>1, <3>2
    <3>3. CASE i # k + 1
      <4>1. i \in 1 .. k /\ g[i] = f[i]
        BY <3>3
      <4>2. f[i] = f[i - 1] + idx[i] * S[i]
        BY <2>1, <4>1 DEF RankFn
      <4> QED BY <3>1, <4>1, <4>2
    <3> QED BY <3>2, <3>3
  <2> HIDE DEF g
  <2>9. RankFn(g, idx, S, k + 1)
    BY <2>7, <2>8 DEF RankFn
  <2> QED BY <2>9
<1>3. T = 0 .. NDims
  <2>1. T \in SUBSET (0 .. NDims) /\ NDims \in Nat
    OBVIOUS
  <2> HIDE DEF T
  <2> QED BY <1>1, <1>2, <2>1, Induction
<1> QED BY <1>3

LEMMA RankIs ==
  ASSUME NEW S, Radix(S), NEW idx \in [Dim -> Nat]
  PROVE  \E f : RankFn(f, idx, S, NDims) /\ GetProcessRank(idx) = f[NDims]
<1> DEFINE f[i \in 0 .. NDims] == IF i = 0 THEN 0 ELSE f[i - 1] + idx[i] * Stride(i)
<1> USE DecompositionAssumption
<1>1. PICK g : RankFn(g, idx, S, NDims)
  BY RankExists
<1>2. g = [i \in 0 .. NDims |-> IF i = 0 THEN 0 ELSE g[i - 1] + idx[i] * Stride(i)]
  <2>1. \A i \in 0 .. NDims : g[i] = IF i = 0 THEN 0 ELSE g[i - 1] + idx[i] * Stride(i)
    <3> SUFFICES ASSUME NEW i \in 0 .. NDims, i # 0
                 PROVE  g[i] = g[i - 1] + idx[i] * Stride(i)
      BY <1>1 DEF RankFn
    <3>1. i \in 1 .. NDims /\ i \in 1 .. NDims + 1
      OBVIOUS
    <3>2. Stride(i) = S[i]
      BY <3>1 DEF Radix
    <3> QED BY <1>1, <3>1, <3>2 DEF RankFn
  <2> QED BY <1>1, <2>1 DEF RankFn
<1>3. f = [i \in 0 .. NDims |-> IF i = 0 THEN 0 ELSE f[i - 1] + idx[i] * Stride(i)]
  BY <1>2
<1>4. GetProcessRank(idx) = f[NDims]
  BY DEF GetProcessRank
<1>5. f = g
  <2> HIDE DEF f
  <2> DEFINE U == {k \in 0 .. NDims : f[k] = g[k]}
  <2>1. 0 \in U
    BY <1>2, <1>3
  <2>2. ASSUME NEW k \in 0 .. NDims - 1, k \in U PROVE k + 1 \in U
    <3> PICK h \in 1 .. NDims : h = k + 1
      OBVIOUS
    <3>1. h \in 0 .. NDims /\ h # 0 /\ h - 1 = k
      OBVIOUS
    <3>2. f[h] = f[h - 1] + idx[h] * Stride(h)
      BY <1>3, <3>1
    <3>3. g[h] = g[h - 1] + idx[h] * Stride(h)
      BY <1>2, <3>1
    <3> HIDE DEF U
    <3>4. f[k] = g[k]
      BY <2>2 DEF U
    <3>5. f[h] = g[h]
      BY <3>1, <3>2, <3>3, <3>4
    <3> QED BY <3>1, <3>5 DEF U
  <2>3. U = 0 .. NDims
    <3>1. U \in SUBSET (0 .. NDims) /\ NDims \in Nat
      OBVIOUS
    <3> HIDE DEF U
    <3> QED BY <2>1, <2>2, <3>1, Induction
  <2>4. \A i \in 0 .. NDims : f[i] = g[i]
    BY <2>3
  <2>5. g = [i \in 0 .. NDims |-> g[i]]
    BY <1>1 DEF RankFn
  <2>6. f = [i \in 0 .. NDims |-> f[i]]
    BY <1>3
  <2> QED BY <2>4, <2>5, <2>6
<1> QED BY <1>1, <1>4, <1>5

\* A quotient and a remainder are unique.
LEMMA Quotient ==
  ASSUME NEW s \in Nat \ {0}, NEW b \in 0 .. s - 1, NEW c \in Nat
  PROVE  /\ (b + c * s) \div s = c
         /\ (b + c * s) % s = b
<1>1. PICK a \in Nat : a = b + c * s
  <2>1. c * s \in Nat
    OBVIOUS
  <2> QED BY <2>1
<1>2. PICK q \in Nat, r \in 0 .. s - 1 : q = a \div s /\ r = a % s /\ a = s * q + r
  BY DivFacts
<1>3. ASSUME NEW u \in Nat, NEW v \in Nat, u < v PROVE u * s + s <= v * s
  <2>1. PICK w \in Nat : v = u + 1 + w
    <3>1. v - u - 1 \in Nat /\ v = u + 1 + (v - u - 1)
      BY <1>3
    <3> QED BY <3>1
  <2>2. v * s = u * s + s + w * s /\ w * s \in Nat /\ u * s \in Nat
    BY ONLY <2>1, s \in Nat, u \in Nat, w \in Nat
  <2> QED BY <2>2
<1>4. q * s \in Nat /\ c * s \in Nat /\ s * q = q * s
  OBVIOUS
<1>5. q = c
  <2>1. ~(q < c)
    <3> SUFFICES ASSUME q < c PROVE FALSE
      OBVIOUS
    <3>1. q * s + s <= c * s
      BY <1>3
    <3> QED BY <1>1, <1>2, <1>4, <3>1
  <2>2. ~(c < q)
    <3> SUFFICES ASSUME c < q PROVE FALSE
      OBVIOUS
    <3>1. c * s + s <= q * s
      BY <1>3
    <3> QED BY <1>1, <1>2, <1>4, <3>1
  <2> QED BY <2>1, <2>2
<1>6. r = b
  BY <1>1, <1>2, <1>4, <1>5
<1> QED BY <1>1, <1>2, <1>5, <1>6

\* A process index.
IndexOK(idx) == idx \in [Dim -> Nat] /\ \A e \in Dim : idx[e] < nparts[e]

\* The next digit.
LEMMA NextDigit ==
  ASSUME NEW a \in Nat, NEW s \in Nat, NEW v \in Nat, NEW n \in Nat, a < s, v < n
  PROVE  a + v * s < s * n
<1>1. PICK w \in Nat : n = v + 1 + w
  <2>1. n - v - 1 \in Nat /\ n = v + 1 + (n - v - 1)
    OBVIOUS
  <2> QED BY <2>1
<1>2. s * n = v * s + s + w * s /\ w * s \in Nat /\ v * s \in Nat
  BY ONLY <1>1, w \in Nat, v \in Nat, s \in Nat
<1> QED BY <1>2

\* The part of a rank of the first dimensions is smaller than the next stride.
LEMMA PartialRank ==
  ASSUME NEW S, Radix(S), NEW idx, IndexOK(idx), NEW f, RankFn(f, idx, S, NDims)
  PROVE  \A i \in 0 .. NDims : f[i] < S[i + 1]
<1> USE DecompositionAssumption
<1> DEFINE T == {i \in 0 .. NDims : f[i] < S[i + 1]}
<1>1. 0 \in T
  BY DEF RankFn, Radix
<1>2. ASSUME NEW k \in 0 .. NDims - 1, k \in T PROVE k + 1 \in T
  <2>1. k + 1 \in Dim /\ k + 1 \in 1 .. NDims /\ k + 1 - 1 = k /\ k + 1 \in 1 .. NDims + 1
    BY DEF Dim
  <2>2. f[k + 1] = f[k] + idx[k + 1] * S[k + 1]
    BY <2>1 DEF RankFn
  <2>3. S[k + 1 + 1] = S[k + 1] * nparts[k + 1]
    BY <2>1 DEF Radix
  <2>4. /\ f[k] \in Nat /\ idx[k + 1] \in Nat /\ idx[k + 1] < nparts[k + 1]
        /\ S[k + 1] \in Nat /\ nparts[k + 1] \in Nat /\ f[k] < S[k + 1]
    BY <1>2, <2>1 DEF RankFn, Radix, IndexOK
  <2>5. PICK a \in Nat : a = f[k]
    BY <2>4
  <2>6. PICK v \in Nat : v = idx[k + 1]
    BY <2>4
  <2>7. PICK s \in Nat : s = S[k + 1]
    BY <2>4
  <2>8. PICK n \in Nat : n = nparts[k + 1]
    BY <2>4
  <2>9. a + v * s < s * n
    BY ONLY <2>4, <2>5, <2>6, <2>7, <2>8, NextDigit
  <2> HIDE DEF T
  <2>10. f[k + 1] < S[k + 1 + 1] /\ k + 1 \in 0 .. NDims
    BY <2>2, <2>3, <2>5, <2>6, <2>7, <2>8, <2>9
  <2> QED BY <2>10 DEF T
<1>3. T = 0 .. NDims
  <2>1. T \in SUBSET (0 .. NDims) /\ NDims \in Nat
    OBVIOUS
  <2> HIDE DEF T
  <2> QED BY <1>1, <1>2, <2>1, Induction
<1> QED BY <1>3

\* What the dimensions after e add to a rank is a multiple of the stride after e.
Above(f, S, e, m) ==
  \E q, t \in Nat : f[m] = f[e] + q * S[e + 1] /\ S[m + 1] = t * S[e + 1]

LEMMA RankTail ==
  ASSUME NEW S, Radix(S), NEW idx, IndexOK(idx), NEW f, RankFn(f, idx, S, NDims),
         NEW e \in Dim
  PROVE  Above(f, S, e, NDims)
<1> USE DecompositionAssumption
<1> DEFINE T == {m \in 0 .. NDims : m >= e => Above(f, S, e, m)}
<1>1. e \in 1 .. NDims /\ e + 1 \in 1 .. NDims + 1
  BY DEF Dim
<1>2. PICK u \in Nat : u = S[e + 1]
  BY <1>1 DEF Radix
<1>3. 0 \in T
  BY <1>1
<1>4. ASSUME NEW k \in 0 .. NDims - 1, k \in T PROVE k + 1 \in T
  <2>1. k + 1 \in 0 .. NDims /\ k + 1 \in 1 .. NDims /\ k + 1 \in Dim
    BY DEF Dim
  <2>2. CASE k + 1 < e
    BY <1>1, <2>1, <2>2
  <2>3. CASE k + 1 = e
    <3>1. f[e] \in Nat
      BY <1>1 DEF RankFn
    <3>2. f[e] = f[e] + 0 * u /\ u = 1 * u
      BY <3>1
    <3>3. Above(f, S, e, e)
      BY <1>2, <3>2 DEF Above
    <3> QED BY <2>1, <2>3, <3>3
  <2>4. CASE k + 1 > e
    <3>1. k >= e
      BY <1>1, <2>4
    <3>2. PICK q, t \in Nat : f[k] = f[e] + q * u /\ S[k + 1] = t * u
      BY <1>2, <1>4, <3>1 DEF Above
    <3>3. f[k + 1] = f[k] + idx[k + 1] * S[k + 1]
      <4>1. k + 1 - 1 = k
        OBVIOUS
      <4> QED BY <2>1, <4>1 DEF RankFn
    <3>4. S[k + 1 + 1] = S[k + 1] * nparts[k + 1]
      BY <2>1 DEF Radix
    <3>5. PICK v \in Nat : v = idx[k + 1]
      BY <2>1 DEF IndexOK
    <3>6. PICK n \in Nat : n = nparts[k + 1]
      BY <2>1 DEF Radix
    <3>7. PICK a \in Nat : a = f[e]
      BY <1>1 DEF RankFn
    <3>8. PICK q2 \in Nat : q2 = q + v * t
      OBVIOUS
    <3>9. PICK t2 \in Nat : t2 = t * n
      OBVIOUS
    <3>10. f[k + 1] = a + q2 * u
      BY ONLY <3>2, <3>3, <3>5, <3>7, <3>8, u \in Nat, q \in Nat, t \in Nat, v \in Nat,
         a \in Nat
    <3>11. S[k + 1 + 1] = t2 * u
      BY ONLY <3>2, <3>4, <3>6, <3>9, u \in Nat, t \in Nat, n \in Nat
    <3>12. Above(f, S, e, k + 1)
      BY <1>2, <3>7, <3>10, <3>11 DEF Above
    <3> QED BY <2>1, <3>12
  <2> QED BY <1>1, <2>2, <2>3, <2>4
<1>5. T = 0 .. NDims
  <2>1. T \in SUBSET (0 .. NDims) /\ NDims \in Nat
    OBVIOUS
  <2> HIDE DEF T
  <2> QED BY <1>3, <1>4, <2>1, Induction
<1> QED BY <1>1, <1>5

\* The rank of a process index is a rank, whose digits are the index.
LEMMA DigitsOfRank ==
  ASSUME nparts \in [Dim -> ProcCounts], NEW idx, IndexOK(idx)
  PROVE  GetProcessRank(idx) \in Rank /\ ProcIndex(GetProcessRank(idx)) = idx
<1> USE DecompositionAssumption
<1>1. PICK S : Radix(S)
  BY RadixExists
<1>2. PICK f : RankFn(f, idx, S, NDims) /\ GetProcessRank(idx) = f[NDims]
  BY <1>1, RankIs DEF IndexOK
<1>3. PICK r \in Nat : r = GetProcessRank(idx)
  BY <1>2 DEF RankFn
<1>4. \A i \in 0 .. NDims : f[i] < S[i + 1]
  BY <1>1, <1>2, PartialRank
<1>5. r \in Rank
  <2>1. NDims + 1 \in 1 .. NDims + 1 /\ NDims \in 0 .. NDims
    OBVIOUS
  <2>2. Stride(NDims + 1) = S[NDims + 1] /\ S[NDims + 1] \in Nat
    BY <1>1, <2>1 DEF Radix
  <2>3. r < S[NDims + 1]
    BY <1>2, <1>3, <1>4, <2>1
  <2> QED BY <2>2, <2>3 DEF Rank
<1>6. ASSUME NEW e \in Dim PROVE (r \div Stride(e)) % nparts[e] = idx[e]
  <2>1. e \in 1 .. NDims /\ e \in 1 .. NDims + 1 /\ e - 1 \in 0 .. NDims /\ e - 1 + 1 = e
    BY DEF Dim
  <2>2. PICK s \in Nat \ {0} : s = S[e] /\ s = Stride(e)
    BY <1>1, <2>1 DEF Radix
  <2>3. PICK n \in Nat \ {0} : n = nparts[e]
    BY <1>1 DEF Radix
  <2>4. PICK v \in 0 .. n - 1 : v = idx[e]
    BY <2>3 DEF IndexOK
  <2>5. PICK b \in 0 .. s - 1 : b = f[e - 1]
    <3>1. f[e - 1] \in Nat
      BY <1>2, <2>1 DEF RankFn
    <3>2. f[e - 1] < S[e]
      BY <1>4, <2>1
    <3> QED BY <2>2, <3>1, <3>2
  <2>6. f[e] = b + v * s
    BY <1>2, <2>1, <2>2, <2>4, <2>5 DEF RankFn
  <2>7. S[e + 1] = s * n
    BY <1>1, <2>2, <2>3 DEF Radix
  <2>8. PICK q \in Nat : r = f[e] + q * S[e + 1]
    BY <1>1, <1>2, <1>3, RankTail DEF Above
  <2>9. PICK c \in Nat : c = v + q * n
    <3>1. v \in Nat /\ q * n \in Nat
      OBVIOUS
    <3> QED BY <3>1
  <2>10. r = b + c * s
    <3>1. \A bb, ss, nn, vv, qq \in Nat :
            bb + vv * ss + qq * (ss * nn) = bb + (vv + qq * nn) * ss
      OBVIOUS
    <3>2. b \in Nat /\ s \in Nat /\ n \in Nat /\ v \in Nat
      OBVIOUS
    <3> QED BY ONLY <2>6, <2>7, <2>8, <2>9, <3>1, <3>2, q \in Nat
  <2>11. r \div s = c
    BY <2>10, Quotient
  <2>12. c % n = v
    BY <2>9, Quotient
  <2> QED BY <2>2, <2>3, <2>4, <2>11, <2>12
<1>7. ProcIndex(r) = idx
  <2>1. idx = [e \in Dim |-> idx[e]]
    BY DEF IndexOK
  <2> QED BY <1>6, <2>1 DEF ProcIndex
<1> QED BY <1>3, <1>5, <1>7

\* The digits of a rank are a process index, whose rank it is.
LEMMA RankOfDigits ==
  ASSUME nparts \in [Dim -> ProcCounts], NEW r \in Rank
  PROVE  IndexOK(ProcIndex(r)) /\ GetProcessRank(ProcIndex(r)) = r
<1> USE DecompositionAssumption
<1>1. PICK S : Radix(S)
  BY RadixExists
<1>2. PICK idx : idx = ProcIndex(r)
  OBVIOUS
<1>3. r \in Nat /\ r < S[NDims + 1]
  <2>1. NDims + 1 \in 1 .. NDims + 1
    OBVIOUS
  <2>2. Stride(NDims + 1) = S[NDims + 1] /\ S[NDims + 1] \in Nat
    BY <1>1, <2>1 DEF Radix
  <2> QED BY <2>2 DEF Rank
<1>4. ASSUME NEW e \in Dim
      PROVE  /\ idx[e] = (r \div S[e]) % nparts[e]
             /\ idx[e] \in 0 .. nparts[e] - 1
  <2>1. e \in 1 .. NDims + 1
    BY DEF Dim
  <2>2. PICK s \in Nat \ {0} : s = S[e] /\ s = Stride(e)
    BY <1>1, <2>1 DEF Radix
  <2>3. PICK n \in Nat \ {0} : n = nparts[e]
    BY <1>1 DEF Radix
  <2>4. PICK q \in Nat : q = r \div s
    BY <1>3, DivFacts
  <2>5. q % n \in 0 .. n - 1
    BY DivFacts
  <2>6. idx[e] = (r \div Stride(e)) % nparts[e]
    BY <1>2 DEF ProcIndex
  <2> QED BY <2>2, <2>3, <2>4, <2>5, <2>6
<1>5. IndexOK(idx)
  <2>1. idx = [e \in Dim |-> idx[e]]
    BY <1>2 DEF ProcIndex
  <2>2. \A e \in Dim : idx[e] \in Nat /\ idx[e] < nparts[e]
    <3> TAKE e \in Dim
    <3>1. PICK n \in Nat \ {0} : n = nparts[e]
      BY <1>1 DEF Radix
    <3> QED BY <1>4, <3>1
  <2> QED BY <2>1, <2>2 DEF IndexOK
<1>6. PICK f : RankFn(f, idx, S, NDims) /\ GetProcessRank(idx) = f[NDims]
  BY <1>1, <1>5, RankIs DEF IndexOK
<1>7. \A i \in 0 .. NDims : f[i] < S[i + 1]
  BY <1>1, <1>5, <1>6, PartialRank
<1> DEFINE T == {i \in 0 .. NDims : \E q \in Nat : r = f[i] + q * S[i + 1]}
<1>8. 0 \in T
  <2>1. S[0 + 1] = 1 /\ f[0] = 0
    BY <1>1, <1>6 DEF Radix, RankFn
  <2>2. r = 0 + r * 1
    BY <1>3
  <2> QED BY <1>3, <2>1, <2>2
<1>9. ASSUME NEW k \in 0 .. NDims - 1, k \in T PROVE k + 1 \in T
  <2>1. PICK e \in Dim : e = k + 1
    BY DEF Dim
  <2>2. e \in 1 .. NDims /\ e - 1 = k /\ e \in 1 .. NDims + 1 /\ k \in 0 .. NDims
    BY <2>1
  <2>3. PICK s \in Nat \ {0} : s = S[e]
    BY <1>1, <2>2 DEF Radix
  <2>4. PICK n \in Nat \ {0} : n = nparts[e]
    BY <1>1 DEF Radix
  <2>5. PICK b \in 0 .. s - 1 : b = f[k]
    BY <1>6, <1>7, <2>1, <2>2, <2>3 DEF RankFn
  <2>6. PICK q \in Nat : r = b + q * s
    BY <1>9, <2>1, <2>3, <2>5
  <2>7. idx[e] = q % n
    <3>1. r \div s = q
      BY <2>6, Quotient
    <3> QED BY <1>4, <2>3, <2>4, <3>1
  <2>8. PICK u \in Nat, v \in Nat : u = q \div n /\ v = q % n /\ q = n * u + v
    BY DivFacts
  <2>9. f[e] = b + v * s
    BY <1>6, <2>2, <2>3, <2>5, <2>7, <2>8 DEF RankFn
  <2>10. S[e + 1] = s * n
    BY <1>1, <2>3, <2>4 DEF Radix
  <2>11. r = f[e] + u * S[e + 1]
    <3>1. \A bb, ss, nn, vv, uu \in Nat :
            bb + (nn * uu + vv) * ss = bb + vv * ss + uu * (ss * nn)
      <4> TAKE bb, ss, nn, vv, uu \in Nat
      <4>1. (nn * uu + vv) * ss = (nn * uu) * ss + vv * ss
        OBVIOUS
      <4>2. (nn * uu) * ss = uu * (ss * nn)
        OBVIOUS
      <4>3. (nn * uu) * ss \in Nat /\ vv * ss \in Nat
        OBVIOUS
      <4> QED BY <4>1, <4>2, <4>3
    <3>2. b \in Nat /\ s \in Nat /\ n \in Nat
      OBVIOUS
    <3>3. b + (n * u + v) * s = b + v * s + u * (s * n)
      BY ONLY <3>1, <3>2, u \in Nat, v \in Nat
    <3>4. r = b + (n * u + v) * s
      BY ONLY <2>6, <2>8
    <3> QED BY ONLY <2>9, <2>10, <3>3, <3>4
  <2> QED BY <2>1, <2>2, <2>11
<1>10. T = 0 .. NDims
  <2>1. T \in SUBSET (0 .. NDims) /\ NDims \in Nat
    OBVIOUS
  <2> HIDE DEF T
  <2> QED BY <1>8, <1>9, <2>1, Induction
<1>11. PICK q \in Nat : r = f[NDims] + q * S[NDims + 1]
  BY <1>10
<1>12. f[NDims] \in Nat /\ S[NDims + 1] \in Nat \ {0}
  BY <1>1, <1>6 DEF Radix, RankFn
<1>13. q = 0
  <2>1. PICK s \in Nat \ {0} : s = S[NDims + 1]
    BY <1>12
  <2>2. q # 0 => q * s >= s
    <3>1. q # 0 => q * s = (q - 1) * s + s /\ (q - 1) * s \in Nat
      OBVIOUS
    <3>2. q * s \in Nat
      OBVIOUS
    <3> QED BY <3>1, <3>2
  <2>3. q * s \in Nat
    OBVIOUS
  <2> QED BY <1>3, <1>11, <1>12, <2>1, <2>2, <2>3
<1>14. f[NDims] = r
  BY <1>11, <1>12, <1>13
<1> QED BY <1>2, <1>5, <1>6, <1>14

\* One step forward and one back along a dimension, and the other way round.
LEMMA AroundTheEnd ==
  ASSUME NEW n \in Nat \ {0}, NEW k \in 0 .. n - 1
  PROVE  LET fw(i) == (i + 1) % n
             bw(i) == IF i - 1 < 0 THEN (i - 1 + n) % n ELSE i - 1
         IN  /\ fw(k) \in 0 .. n - 1 /\ bw(k) \in 0 .. n - 1
             /\ bw(fw(k)) = k /\ fw(bw(k)) = k
<1>1. \A i \in 0 .. n - 1 : i % n = i
  <2> TAKE i \in 0 .. n - 1
  <2>1. i + 0 * n = i
    OBVIOUS
  <2> QED BY <2>1, Quotient
<1>2. n % n = 0
  <2>1. 0 + 1 * n = n /\ 0 \in 0 .. n - 1
    OBVIOUS
  <2> QED BY <2>1, Quotient
<1>3. (k + 1) % n = IF k + 1 = n THEN 0 ELSE k + 1
  BY <1>1, <1>2
<1>4. (0 - 1 + n) % n = n - 1
  <2>1. 0 - 1 + n = n - 1 /\ n - 1 \in 0 .. n - 1
    OBVIOUS
  <2> QED BY <1>1, <2>1
<1>5. (k - 1 < 0) <=> (k = 0)
  OBVIOUS
<1>6. CASE k = 0
  <2>1. (0 + 1) % n = IF n = 1 THEN 0 ELSE 1
    BY <1>3, <1>6
  <2>2. (n - 1 + 1) % n = 0
    BY <1>2
  <2> QED BY <1>4, <1>6, <2>1, <2>2
<1>7. CASE k # 0
  <2>1. (k - 1 + 1) % n = k
    <3>1. k - 1 + 1 = k
      OBVIOUS
    <3> QED BY <1>1, <3>1
  <2> QED BY <1>3, <1>4, <1>7, <2>1
<1> QED BY <1>6, <1>7

\* The neighbours of a rank have the process indices next to its own.
LEMMA NeighborIndex ==
  ASSUME nparts \in [Dim -> ProcCounts], NEW r \in Rank, NEW e \in Dim
  PROVE  LET idx == ProcIndex(r)
         IN  /\ FwNeighbor(r, e) \in Rank
             /\ ProcIndex(FwNeighbor(r, e)) = [idx EXCEPT ![e] = (@ + 1) % nparts[e]]
             /\ BwNeighbor(r, e) \in Rank
             /\ ProcIndex(BwNeighbor(r, e)) =
                  [idx EXCEPT ![e] = IF @ - 1 < 0 THEN (@ - 1 + nparts[e]) % nparts[e] ELSE @ - 1]
<1>1. PICK idx : idx = ProcIndex(r)
  OBVIOUS
<1>2. IndexOK(idx)
  BY <1>1, RankOfDigits
<1>3. PICK n \in Nat \ {0} : n = nparts[e]
  BY DecompositionAssumption
<1>4. idx[e] \in 0 .. n - 1
  BY <1>2, <1>3 DEF IndexOK
<1>5. PICK a : a = (idx[e] + 1) % n
  OBVIOUS
<1>6. PICK b : b = IF idx[e] - 1 < 0 THEN (idx[e] - 1 + n) % n ELSE idx[e] - 1
  OBVIOUS
<1>7. a \in 0 .. n - 1 /\ b \in 0 .. n - 1
  BY <1>4, <1>5, <1>6, AroundTheEnd
<1>8. PICK u : u = [idx EXCEPT ![e] = a]
  OBVIOUS
<1>9. PICK v : v = [idx EXCEPT ![e] = b]
  OBVIOUS
<1>10. IndexOK(u) /\ IndexOK(v)
  BY <1>2, <1>3, <1>7, <1>8, <1>9 DEF IndexOK
<1>11. u = [ProcIndex(r) EXCEPT ![e] = (@ + 1) % nparts[e]]
  BY <1>1, <1>3, <1>5, <1>8
<1>12. v = [ProcIndex(r) EXCEPT
              ![e] = IF @ - 1 < 0 THEN (@ - 1 + nparts[e]) % nparts[e] ELSE @ - 1]
  BY <1>1, <1>3, <1>6, <1>9
<1>13. FwNeighbor(r, e) = GetProcessRank(u)
  BY <1>11 DEF FwNeighbor
<1>14. BwNeighbor(r, e) = GetProcessRank(v)
  BY <1>12 DEF BwNeighbor
<1>15. GetProcessRank(u) \in Rank /\ ProcIndex(GetProcessRank(u)) = u
  BY <1>10, DigitsOfRank
<1>16. GetProcessRank(v) \in Rank /\ ProcIndex(GetProcessRank(v)) = v
  BY <1>10, DigitsOfRank
<1> QED BY <1>11, <1>12, <1>13, <1>14, <1>15, <1>16

LEMMA NeighborsAgree ==
  ASSUME nparts \in [Dim -> ProcCounts]
  PROVE  RanksAgree
<1> SUFFICES ASSUME NEW r \in Rank
             PROVE  /\ GetProcessRank(ProcIndex(r)) = r
                    /\ \A e \in Dim : BwNeighbor(FwNeighbor(r, e), e) = r
                                    /\ FwNeighbor(BwNeighbor(r, e), e) = r
  BY DEF RanksAgree
<1>1. IndexOK(ProcIndex(r)) /\ GetProcessRank(ProcIndex(r)) = r
  BY RankOfDigits
<1>2. ASSUME NEW e \in Dim
      PROVE  BwNeighbor(FwNeighbor(r, e), e) = r /\ FwNeighbor(BwNeighbor(r, e), e) = r
  <2>1. PICK n \in Nat \ {0} : n = nparts[e]
    BY DecompositionAssumption
  <2>2. PICK idx : idx = ProcIndex(r)
    OBVIOUS
  <2>3. idx \in [Dim -> Nat] /\ idx[e] \in 0 .. n - 1
    BY <1>1, <2>1, <2>2 DEF IndexOK
  <2>4. PICK k \in 0 .. n - 1 : k = idx[e]
    BY <2>3
  <2>5. PICK a : a = (k + 1) % n
    OBVIOUS
  <2>6. PICK b : b = IF k - 1 < 0 THEN (k - 1 + n) % n ELSE k - 1
    OBVIOUS
  <2>7. /\ (IF a - 1 < 0 THEN (a - 1 + n) % n ELSE a - 1) = k
        /\ (b + 1) % n = k
    BY <2>5, <2>6, AroundTheEnd
  <2>8. PICK s \in Rank : s = FwNeighbor(r, e) /\ ProcIndex(s) = [idx EXCEPT ![e] = a]
    BY <2>1, <2>2, <2>3, <2>4, <2>5, NeighborIndex
  <2>9. PICK t \in Rank : t = BwNeighbor(r, e) /\ ProcIndex(t) = [idx EXCEPT ![e] = b]
    BY <2>1, <2>2, <2>3, <2>4, <2>6, NeighborIndex
  <2>10. [ProcIndex(s) EXCEPT ![e] = IF @ - 1 < 0 THEN (@ - 1 + nparts[e]) % nparts[e] ELSE @ - 1]
           = idx
    BY <2>1, <2>3, <2>4, <2>7, <2>8
  <2>11. [ProcIndex(t) EXCEPT ![e] = (@ + 1) % nparts[e]] = idx
    BY <2>1, <2>3, <2>4, <2>7, <2>9
  <2>12. BwNeighbor(s, e) = r
    BY <1>1, <2>2, <2>10 DEF BwNeighbor
  <2>13. FwNeighbor(t, e) = r
    BY <1>1, <2>2, <2>11 DEF FwNeighbor
  <2> QED BY <2>8, <2>9, <2>12, <2>13
<1> QED BY <1>1, <1>2

\* The process indices and the ranks name the same processes, and the forward
\* neighbor of a rank has it as its backward neighbor (RanksAgree): what
\* ExchangeBoundaries sends to one is what the other expects.
THEOREM NeighborsMatch == Spec => []RanksAgree
<1>1. TypeOK => RanksAgree
  BY NeighborsAgree DEF TypeOK
<1> QED BY <1>1, TypeCorrect, PTL
=============================================================================
