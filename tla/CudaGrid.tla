------------------------------ MODULE CudaGrid ------------------------------
(***************************************************************************)
(* The memory layout of a grid of the MPI and CUDA runtime and the address  *)
(* functions of its device code (include/physis/physis_mpi_cuda.h), the     *)
(* slabs that are copied out for the neighbours (runtime/grid_mpi_cuda.cc), *)
(* and the parts of a domain that the generated kernels go through          *)
(* (translator/mpi_cuda_translator.cc).  These only exist for three         *)
(* dimensions.                                                              *)
(*                                                                         *)
(* A halo buffer is the sequence of its elements: two pieces of code that   *)
(* disagree on the extents of a buffer find different points in it.  A      *)
(* descriptor dev is what a kernel is passed of a grid: dev.size and        *)
(* dev.offset (local_size, local_offset), dev.diag, and the widths          *)
(* dev.bw[d] and dev.fw[d] of the halos (halo_width[d][0], [1]).            *)
(* "Faulty" marks mistaken forms of the definitions they precede.           *)
(***************************************************************************)
EXTENDS Integers, Sequences, FiniteSets, FiniteSetsExt

Axis == 1 .. 3
Plus(u, v)  == [d \in Axis |-> u[d] + v[d]]
Minus(u, v) == [d \in Axis |-> u[d] - v[d]]
Origin      == [d \in Axis |-> 0]

\* The points from lo up to, and without, hi.
Block(lo, hi) ==
  (lo[1] .. hi[1] - 1) \X (lo[2] .. hi[2] - 1) \X (lo[3] .. hi[3] - 1)

Elements(s) == s[1] * s[2] * s[3]

\* __PSGridCalcOffset3D, for an array of the extents x and y; from 0.
CalcOffset3D(l, x, y) == l[1] + l[2] * x + l[3] * x * y

\* The index at position i, from 0, of an array of the extents s.
Unrank(i, s) == <<i % s[1], (i \div s[1]) % s[2], i \div (s[1] * s[2])>>

-----------------------------------------------------------------------------
(* Addresses.  An address is a place in the grid itself, or in a halo:       *)
(* <<"halo", dimension, forward?, position>>.                               *)

InGrid(l)               == <<"grid", l>>
InHalo(d, fw, position) == <<"halo", d, fw, position>>

\* The functions take global indices, as the kernels do.
Local(dev, x) == Minus(x, dev.offset)

AddrNoHalo(dev, x) == InGrid(Local(dev, x))
EmitAddr(dev, x)   == InGrid(Local(dev, x))

\* _2_fw and _2_bw
AddrZ(dev, x, fw) ==
  LET l == Local(dev, x)
      inside == IF fw THEN l[3] < dev.size[3] ELSE l[3] >= 0
      s == [l EXCEPT ![3] = IF fw THEN @ - dev.size[3] ELSE @ + dev.bw[3]]
  IN  IF inside THEN InGrid(l)
      ELSE InHalo(3, fw, CalcOffset3D(s, dev.size[1], dev.size[2]))

\* The functions for y and x, for a point that is inside in their dimension, and
\* in y: the point is in the grid or in a halo of z.
AddrInZ(dev, x) ==
  LET l == Local(dev, x)
  IN  IF 0 <= l[3] /\ l[3] < dev.size[3] THEN InGrid(l)
      ELSE AddrZ(dev, x, l[3] >= dev.size[3])

\* Faulty: the index is not moved past the diagonal points in z.
AddrYUnshifted(dev, x, fw) ==
  LET l == Local(dev, x)
      inside == IF fw THEN l[2] < dev.size[2] ELSE l[2] >= 0
      s == [l EXCEPT ![2] = IF fw THEN @ - dev.size[2] ELSE @ + dev.bw[2]]
  IN  IF inside THEN AddrInZ(dev, x)
      ELSE InHalo(2, fw, CalcOffset3D(s, dev.size[1],
                                      IF fw THEN dev.fw[2] ELSE dev.bw[2]))

\* _1_fw and _1_bw
AddrY(dev, x, fw) ==
  LET l == Local(dev, x)
      inside == IF fw THEN l[2] < dev.size[2] ELSE l[2] >= 0
      s == [l EXCEPT ![2] = IF fw THEN @ - dev.size[2] ELSE @ + dev.bw[2],
                     ![3] = IF dev.diag THEN @ + dev.bw[3] ELSE @]
  IN  IF inside THEN AddrInZ(dev, x)
      ELSE InHalo(2, fw, CalcOffset3D(s, dev.size[1],
                                      IF fw THEN dev.fw[2] ELSE dev.bw[2]))

\* _0_fw and _0_bw
AddrX(dev, x, fw) ==
  LET l == Local(dev, x)
      inside == IF fw THEN l[1] < dev.size[1] ELSE l[1] >= 0
      s == <<IF fw THEN l[1] - dev.size[1] ELSE l[1] + dev.bw[1],
             IF dev.diag THEN l[2] + dev.bw[2] ELSE l[2],
             IF dev.diag THEN l[3] + dev.bw[3] ELSE l[3]>>
      haloSize1 == dev.size[2] + (IF dev.diag THEN dev.bw[2] + dev.fw[2] ELSE 0)
  IN  IF ~inside
      THEN InHalo(1, fw, CalcOffset3D(s, IF fw THEN dev.fw[1] ELSE dev.bw[1], haloSize1))
      ELSE IF l[2] >= dev.size[2] THEN AddrY(dev, x, TRUE)
      ELSE IF l[2] < 0 THEN AddrY(dev, x, FALSE)
      ELSE AddrInZ(dev, x)

\* __PSGridGetAddrFloat3D: the halo of the first dimension in which the point is
\* outside.
AddrGeneric(dev, x) ==
  LET l == Local(dev, x)
      outside == {d \in Axis : l[d] < 0 \/ l[d] >= dev.size[d]}
      i  == Min(outside)
      fw == l[i] >= 0
      s  == [d \in Axis |->
               IF d = i THEN (IF fw THEN l[d] - dev.size[d] ELSE l[d] + dev.bw[d])
               ELSE IF d > i /\ dev.diag THEN l[d] + dev.bw[d] ELSE l[d]]
      haloSize == [d \in Axis |->
               IF d = i THEN (IF fw THEN dev.fw[d] ELSE dev.bw[d])
               ELSE IF d > i /\ dev.diag THEN dev.size[d] + dev.bw[d] + dev.fw[d]
               ELSE dev.size[d]]
  IN  IF outside = {} THEN AddrNoHalo(dev, x)
      ELSE InHalo(i, fw, CalcOffset3D(s, haloSize[1], haloSize[2]))

\* The function that the translator chooses for a read at offset o from the
\* point, whose index expressions are in regular order.
AddrRegular(dev, x, o) ==
  LET nonzero == {d \in Axis : o[d] # 0}
      i == Min(nonzero)
  IN  IF nonzero = {} THEN AddrNoHalo(dev, x)
      ELSE CASE i = 1 -> AddrX(dev, x, o[1] > 0)
             [] i = 2 -> AddrY(dev, x, o[2] > 0)
             [] i = 3 -> AddrZ(dev, x, o[3] > 0)

-----------------------------------------------------------------------------
(* The slab of a grid that a neighbour needs.                               *)

\* The indices that CopyoutSubgrid and BufferCUDADev3D::Copyout go through, in
\* order: the box of the given extents at lo.
Copyout(lo, s) == [i \in 1 .. Elements(s) |-> Plus(lo, Unrank(i - 1, s))]

\* The extents of what is copied out of the device: all of the part, with the
\* width in dimension d.
SlabSize(size, d, width) == [size EXCEPT ![d] = width]
SlabOffset(size, d, width, fw) ==
  [e \in Axis |-> IF e = d /\ ~fw THEN size[d] - width ELSE 0]

\* Element l of a sequence that holds an array of the extents s.
Element(seq, s, l) == seq[CalcOffset3D(l, s[1], s[2]) + 1]

\* A step of CopyoutHalo3D1: the edges of the slab in y that lie in a halo of z.
Edge3D1(peer, size, width, fw, depth) ==
  LET s   == [size EXCEPT ![3] = depth]
      box == Copyout(SlabOffset(size, 2, width, fw),
                     [SlabSize(size, 2, width) EXCEPT ![3] = depth])
  IN  [i \in DOMAIN box |-> Element(peer, s, box[i])]

\* CopyoutHalo3D1: below, in and above the part in z.  slab is what has been
\* copied out of the device, peer[d].bw and peer[d].fw are the halos.
CopyoutHalo3D1(slab, peer, size, bw, fws, width, fw) ==
  Edge3D1(peer[3].bw, size, width, fw, bw[3]) \o slab
    \o Edge3D1(peer[3].fw, size, width, fw, fws[3])

\* CopyoutHalo3D0: every line of the given width, through y and z with their
\* halos, from the halo of y, from that of z, or from the slab.
CopyoutHalo3D0(slab, peer, size, bw, fws, width, fw) ==
  LET height == bw[2] + size[2] + fws[2]
      depth  == bw[3] + size[3] + fws[3]
      x0     == IF fw THEN 0 ELSE size[1] - width
      at(l)  ==
        LET i == l[1]
            j == l[2] - bw[2]
            k == l[3] - bw[3]
        IN  IF j < 0
            THEN Element(peer[2].bw, <<size[1], bw[2], depth>>, <<x0 + i, l[2], l[3]>>)
            ELSE IF j >= size[2]
            THEN Element(peer[2].fw, <<size[1], fws[2], depth>>,
                         <<x0 + i, j - size[2], l[3]>>)
            ELSE IF k < 0
            THEN Element(peer[3].bw, <<size[1], size[2], bw[3]>>, <<x0 + i, j, l[3]>>)
            ELSE IF k >= size[3]
            THEN Element(peer[3].fw, <<size[1], size[2], fws[3]>>,
                         <<x0 + i, j, k - size[3]>>)
            ELSE Element(slab, <<width, size[2], size[3]>>, <<i, j, k>>)
      box == Copyout(Origin, <<width, height, depth>>)
  IN  [i \in DOMAIN box |-> at(box[i])]

\* CopyoutHalo, after slab has been copied out of the device.
CopyoutHalo(slab, peer, size, bw, fws, d, width, fw, diagonal) ==
  IF d = 3 \/ ~diagonal THEN slab
  ELSE IF d = 2 THEN CopyoutHalo3D1(slab, peer, size, bw, fws, width, fw)
  ELSE CopyoutHalo3D0(slab, peer, size, bw, fws, width, fw)

\* CalcHaloSize, as the receiver computes it.
CalcHaloSize(size, bw, fws, d, width, diagonal) ==
  Elements([e \in Axis |->
    IF e = d THEN width
    ELSE IF diagonal /\ e > d THEN size[e] + fws[e] + bw[e] ELSE size[e]])

-----------------------------------------------------------------------------
(* Domains.  A domain has local_min as lo and local_max as hi.              *)

Domain(lo, hi) == [lo |-> lo, hi |-> hi]

\* Faulty: a process without a part of the domain keeps the bounds.
LocalDomainKept(d, offset, size) ==
  Domain([e \in Axis |-> Max({offset[e], d.lo[e]})],
         [e \in Axis |-> Min({offset[e] + size[e], d.hi[e]})])

\* PSDomain3DNew and __PSDomainSetLocalSize: the part of the domain d of the
\* process with the given part of the space.
LocalDomain(d, offset, size) ==
  LET lo == [e \in Axis |-> Max({offset[e], d.lo[e]})]
      hi == [e \in Axis |-> Min({offset[e] + size[e], d.hi[e]})]
  IN  IF \A e \in Axis : lo[e] < hi[e] THEN Domain(lo, hi) ELSE Domain(Origin, Origin)

\* __PSDomainShrink
DomainShrink(d, width) ==
  Domain([e \in Axis |-> d.lo[e] + width], [e \in Axis |-> d.hi[e] - width])

\* __PSDomainGetBoundary: slice offset, of the given number, of the face in
\* dimension dim; the slices divide z.
DomainGetBoundary(d, dim, right, width, factor, offset) ==
  IF d.lo[dim] = 0 /\ d.hi[dim] = 0 THEN d
  ELSE LET diff  == d.hi[3] - d.lo[3]
           chunk == diff \div factor
           rem   == diff % factor
           lo == IF right THEN [d.lo EXCEPT ![dim] = d.hi[dim] - width] ELSE d.lo
           hi == IF right THEN d.hi ELSE [d.hi EXCEPT ![dim] = d.lo[dim] + width]
           z  == lo[3] + chunk * offset + Min({offset, rem})
       IN  IF factor = 1 THEN Domain(lo, hi)
           ELSE Domain([lo EXCEPT ![3] = z],
                       [hi EXCEPT ![3] = z + chunk + (IF offset < rem THEN 1 ELSE 0)])

\* The points of the generated kernel, and of the one for the interior: a thread
\* for every x and y, of which those outside the domain return, and a loop over z.
RunKernelPoints(d) == Block(d.lo, d.hi)

\* Faulty: the last line is taken for the interior.
NearEdgeStrict(d, width, x) ==
  \E e \in 1 .. 2 : x[e] < d.lo[e] + width \/ x[e] > d.hi[e] - width

\* BuildDomainInclusionInnerCheck
NearEdge(d, width, x) ==
  \E e \in 1 .. 2 : x[e] < d.lo[e] + width \/ x[e] >= d.hi[e] - width

\* The single kernel for the boundary: three loops over z.
RunBoundaryPoints(d, width) ==
  LET z(first, last) == Block([d.lo EXCEPT ![3] = first], [d.hi EXCEPT ![3] = last])
  IN  z(d.lo[3], d.lo[3] + width)
        \cup {x \in z(d.lo[3] + width, d.hi[3] - width) : NearEdge(d, width, x)}
        \cup z(d.hi[3] - width, d.hi[3])
=============================================================================
