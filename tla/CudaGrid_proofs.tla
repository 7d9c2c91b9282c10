-------------------------- MODULE CudaGrid_proofs --------------------------
(***************************************************************************)
(* Theorems about CudaGrid, for parts, halos and domains of any extents: the *)
(* functions of the device find a point where the slabs of the neighbours    *)
(* have put it, and the kernels go through the points of a domain.           *)
(***************************************************************************)
EXTENDS CudaGrid, WellFoundedInduction, TLAPS

Vector == [Axis -> Int]
Extent == [Axis -> Nat]

-----------------------------------------------------------------------------
(* Indices.                                                                 *)

LEMMA Vectors ==
  /\ \A u, v \in Vector : /\ Plus(u, v) \in Vector /\ Minus(u, v) \in Vector
                          /\ \A d \in Axis : /\ Plus(u, v)[d] = u[d] + v[d]
                                             /\ Minus(u, v)[d] = u[d] - v[d]
  /\ Origin \in Vector /\ \A d \in Axis : Origin[d] = 0
  /\ \A u \in Vector : \A d \in Axis : u[d] \in Int
  /\ \A u, v \in Vector : (\A d \in Axis : u[d] = v[d]) => u = v
  /\ 1 \in Axis /\ 2 \in Axis /\ 3 \in Axis /\ \A d \in Axis : d = 1 \/ d = 2 \/ d = 3
  /\ \A a, b, c \in Int : <<a, b, c>> \in Vector
BY DEF Vector, Plus, Minus, Origin, Axis



LEMMA SameVector ==
  ASSUME NEW u \in Vector, NEW v \in Vector, \A d \in Axis : u[d] = v[d]
  PROVE  u = v
BY DEF Vector

LEMMA BlockIs ==
  ASSUME NEW lo \in Vector, NEW hi \in Vector
  PROVE  \A x : x \in Block(lo, hi) <=> x \in Vector /\ \A d \in Axis : lo[d] <= x[d] /\ x[d] < hi[d]
<1>1. SUFFICES ASSUME NEW x
               PROVE  x \in Block(lo, hi) <=>
                        x \in Vector /\ \A d \in Axis : lo[d] <= x[d] /\ x[d] < hi[d]
  OBVIOUS
<1>2. lo[1] \in Int /\ lo[2] \in Int /\ lo[3] \in Int /\ hi[1] \in Int /\ hi[2] \in Int /\ hi[3] \in Int
  BY DEF Vector, Axis
<1>3. ASSUME x \in Block(lo, hi) PROVE x \in Vector /\ \A d \in Axis : lo[d] <= x[d] /\ x[d] < hi[d]
  BY <1>2, <1>3 DEF Block, Vector, Axis
<1>4. ASSUME x \in Vector, \A d \in Axis : lo[d] <= x[d] /\ x[d] < hi[d] PROVE x \in Block(lo, hi)
  <2>1. x = <<x[1], x[2], x[3]>>
    BY <1>4 DEF Vector, Axis
  <2>2. /\ x[1] \in lo[1] .. hi[1] - 1 /\ x[2] \in lo[2] .. hi[2] - 1
        /\ x[3] \in lo[3] .. hi[3] - 1
    BY <1>2, <1>4 DEF Vector, Axis
  <2> QED BY <2>1, <2>2 DEF Block
<1> QED BY <1>3, <1>4

\* The points from the origin up to s.
LEMMA BoxIs ==
  ASSUME NEW s \in Extent
  PROVE  /\ s \in Vector
         /\ \A l : l \in Block(Origin, s) <=> l \in Vector /\ \A d \in Axis : 0 <= l[d] /\ l[d] < s[d]
<1>1. s \in Vector /\ Origin \in Vector /\ \A d \in Axis : Origin[d] = 0
  BY DEF Extent, Vector, Origin
<1> QED BY <1>1, BlockIs

-----------------------------------------------------------------------------
(* Positions in an array.                                                   *)

\* Quotient and remainder are determined by what they add up to.
LEMMA Divided ==
  ASSUME NEW n \in Nat \ {0}, NEW q \in Int, NEW a \in 0 .. n - 1, NEW i \in Int, i = n * q + a
  PROVE  i % n = a /\ i \div n = q
<1>1. i % n \in 0 .. n - 1 /\ i \div n \in Int /\ i = n * (i \div n) + (i % n)
  OBVIOUS
<1>2. PICK b \in 0 .. n - 1 : b = i % n
  BY <1>1
<1>3. PICK k \in Int : k = i \div n
  BY <1>1
<1>4. n * q + a = n * k + b
  BY ONLY <1>1, <1>2, <1>3, i = n * q + a
<1>5. PICK m \in Int : m = q - k
  OBVIOUS
<1>6. n * m = b - a
  <2>1. n * m = n * q - n * k
    BY ONLY <1>5, n \in Int, q \in Int, k \in Int
  <2> QED BY <1>4, <2>1
<1>7. m > 0 => n * m >= n
  OBVIOUS
<1>8. m < 0 => n * m <= -n
  OBVIOUS
<1>9. m = 0
  BY <1>6, <1>7, <1>8
<1>10. q = k
  BY <1>5, <1>9
<1>11. a = b
  BY <1>4, <1>10
<1> QED BY <1>2, <1>3, <1>10, <1>11

LEMMA Division ==
  ASSUME NEW n \in Nat \ {0}, NEW i \in Nat
  PROVE  i \div n \in Nat /\ i % n \in 0 .. n - 1 /\ i = n * (i \div n) + (i % n)
OBVIOUS

\* A number below n * m, as a quotient below m and a remainder.
LEMMA Below ==
  ASSUME NEW n \in Nat, NEW m \in Nat, NEW q \in Nat, NEW a \in Nat, a < n
  PROVE  n * q + a < n * m <=> q < m
<1>1. n * q \in Nat /\ n * m \in Nat
  OBVIOUS
<1>2. ASSUME q < m PROVE n * q + a < n * m
  <2>1. PICK k \in Nat : m = q + 1 + k
    <3>1. m - q - 1 \in Nat /\ m = q + 1 + (m - q - 1)
      BY <1>2
    <3> QED BY <3>1
  <2>2. n * m = n * q + n + n * k
    BY ONLY <2>1, n \in Nat, q \in Nat, k \in Nat
  <2>3. n * k \in Nat
    OBVIOUS
  <2> QED BY <1>1, <2>2, <2>3
<1>3. ASSUME ~(q < m) PROVE ~(n * q + a < n * m)
  <2>1. PICK k \in Nat : q = m + k
    <3>1. q - m \in Nat /\ q = m + (q - m)
      BY <1>3
    <3> QED BY <3>1
  <2>2. n * q = n * m + n * k
    BY ONLY <2>1, n \in Nat, m \in Nat, k \in Nat
  <2>3. n * k \in Nat
    OBVIOUS
  <2> QED BY <1>1, <2>2, <2>3
<1> QED BY <1>2, <1>3

\* The number i of place <<a, b, c>> in an array whose first two extents are
\* s and t.
AtPlace(i, s, t, a, b, c) == i % s = a /\ (i \div s) % t = b /\ i \div (s * t) = c

LEMMA PlaceNumber ==
  ASSUME NEW s \in Nat, NEW t \in Nat, NEW a \in Nat, NEW b \in Nat, NEW c \in Nat,
         a < s, b < t, NEW i \in Nat, i = a + b * s + c * s * t
  PROVE  AtPlace(i, s, t, a, b, c)
<1>1. i = s * (b + t * c) + a
  <2>1. s * (b + t * c) = b * s + c * s * t
    OBVIOUS
  <2> QED BY <2>1
<1>2. PICK q \in Nat : q = t * c + b
  OBVIOUS
<1>3. s \in Nat \ {0} /\ t \in Nat \ {0} /\ a \in 0 .. s - 1 /\ b \in 0 .. t - 1
  OBVIOUS
<1>4. i = s * q + a
  BY <1>1, <1>2
<1>5. i % s = a /\ i \div s = q
  BY <1>3, <1>4, Divided
<1>6. q % t = b
  BY <1>2, <1>3, Divided
<1>7. PICK n \in Nat : n = s * t
  OBVIOUS
<1>8. PICK r \in Nat : r = s * b + a
  OBVIOUS
<1>9. r < n
  BY <1>7, <1>8, Below
<1>10. i = n * c + r
  <2>1. n * c = c * s * t
    BY <1>7
  <2> QED BY <1>8, <2>1
<1>11. i \div n = c
  <2>1. n \in Nat \ {0} /\ r \in 0 .. n - 1
    BY <1>9
  <2> QED BY <1>10, <2>1, Divided
<1> QED BY <1>5, <1>6, <1>7, <1>11 DEF AtPlace

LEMMA ElementsOf ==
  ASSUME NEW s \in Extent
  PROVE  /\ s[1] \in Nat /\ s[2] \in Nat /\ s[3] \in Nat
         /\ Elements(s) \in Nat /\ Elements(s) = s[1] * s[2] * s[3]
<1>1. s[1] \in Nat /\ s[2] \in Nat /\ s[3] \in Nat
  BY DEF Extent, Axis
<1>2. PICK a \in Nat, b \in Nat, c \in Nat : a = s[1] /\ b = s[2] /\ c = s[3]
  BY <1>1
<1>3. a * b * c \in Nat
  OBVIOUS
<1> QED BY <1>1, <1>2, <1>3 DEF Elements

\* The position of a place.
LEMMA Position ==
  ASSUME NEW s \in Extent, NEW l \in Block(Origin, s)
  PROVE  LET i == CalcOffset3D(l, s[1], s[2])
         IN  i \in 0 .. Elements(s) - 1 /\ Unrank(i, s) = l
<1> SUFFICES ASSUME NEW i, i = CalcOffset3D(l, s[1], s[2])
             PROVE  i \in 0 .. Elements(s) - 1 /\ Unrank(i, s) = l
  OBVIOUS
<1>1. l \in Vector /\ \A d \in Axis : 0 <= l[d] /\ l[d] < s[d]
  BY BoxIs
<1>2. PICK x \in Nat, y \in Nat, z \in Nat : x = s[1] /\ y = s[2] /\ z = s[3]
  BY ElementsOf
<1>3. PICK a \in Nat, b \in Nat, c \in Nat : a = l[1] /\ b = l[2] /\ c = l[3]
  BY <1>1 DEF Vector, Axis
<1>4. a < x /\ b < y /\ c < z
  BY <1>1, <1>2, <1>3 DEF Axis
<1>5. i = a + b * x + c * x * y
  BY <1>2, <1>3 DEF CalcOffset3D
<1>6. a + b * x + c * x * y \in Nat
  OBVIOUS
<1>7. i % x = a /\ (i \div x) % y = b /\ i \div (x * y) = c
  <2>1. i \in Nat
    BY <1>5, <1>6
  <2>2. AtPlace(i, x, y, a, b, c)
    BY <1>4, <1>5, <2>1, PlaceNumber
  <2> QED BY <2>2 DEF AtPlace
<1>8. Unrank(i, s) = l
  <2>1. Unrank(i, s) = <<a, b, c>>
    BY <1>2, <1>7 DEF Unrank
  <2>2. <<a, b, c>> = l
    BY <1>1, <1>3 DEF Vector, Axis
  <2> QED BY <2>1, <2>2
<1>9. i < x * y * z
  <2>1. x * b + a < x * y
    BY <1>4, Below
  <2>2. PICK n \in Nat : n = x * y
    OBVIOUS
  <2>3. PICK r \in Nat : r = x * b + a
    OBVIOUS
  <2>4. n * c + r < n * z
    BY <1>4, <2>1, <2>2, <2>3, Below
  <2>5. n * c = c * x * y /\ n * z = x * y * z /\ r = a + b * x
    BY <2>2, <2>3
  <2> QED BY ONLY <1>5, <2>4, <2>5, a \in Nat, b \in Nat, c \in Nat, x \in Nat, y \in Nat, n \in Nat,
                  r \in Nat
<1>10. Elements(s) = x * y * z
  BY <1>2 DEF Elements
<1>11. i \in Nat /\ x * y * z \in Nat
  BY <1>5, <1>6
<1> QED BY <1>8, <1>9, <1>10, <1>11

\* The place at a position.
LEMMA Place ==
  ASSUME NEW s \in Extent, NEW i \in 0 .. Elements(s) - 1
  PROVE  Unrank(i, s) \in Block(Origin, s) /\ CalcOffset3D(Unrank(i, s), s[1], s[2]) = i
<1>2. PICK x \in Nat, y \in Nat, z \in Nat : x = s[1] /\ y = s[2] /\ z = s[3]
  BY ElementsOf
<1>3. Elements(s) = x * y * z /\ i < x * y * z /\ i \in Nat
  BY <1>2, ElementsOf DEF Elements
<1>4. x # 0 /\ y # 0
  <2>1. x = 0 \/ y = 0 => x * y * z = 0
    OBVIOUS
  <2> QED BY <1>3, <2>1
<1>5. PICK q \in Nat, a \in 0 .. x - 1 : q = i \div x /\ a = i % x
  BY <1>3, <1>4, Division
<1>6. i = x * q + a
  BY <1>3, <1>4, <1>5, Division
<1>7. PICK c \in Nat, b \in 0 .. y - 1 : c = q \div y /\ b = q % y
  BY <1>4, Division
<1>8. q = y * c + b
  BY <1>4, <1>7, Division
<1>9. i = a + b * x + c * x * y
  <2>1. x * q = b * x + c * x * y
    BY <1>8
  <2> QED BY <1>6, <2>1
<1>10. i \div (x * y) = c
  <2>1. a \in Nat /\ a < x /\ b \in Nat /\ b < y
    BY <1>5, <1>7
  <2>2. AtPlace(i, x, y, a, b, c)
    BY <1>3, <1>9, <2>1, PlaceNumber
  <2> QED BY <2>2 DEF AtPlace
<1>11. c < z
  <2>1. PICK n \in Nat : n = x * y
    OBVIOUS
  <2>2. PICK r \in Nat : r = x * b + a
    OBVIOUS
  <2>3. x * b + a < x * y
    BY <1>5, <1>7, Below
  <2>4. n * c = c * x * y /\ n * z = x * y * z /\ r = a + b * x
    BY <2>1, <2>2
  <2>5. n * c + r = i
    BY <1>9, <2>4
  <2>6. n * c + r < n * z
    BY <1>3, <2>4, <2>5
  <2> QED BY <2>1, <2>2, <2>3, <2>6, Below
<1>12. Unrank(i, s) = <<a, b, c>>
  BY <1>2, <1>5, <1>7, <1>10 DEF Unrank
<1>13. <<a, b, c>> \in Block(Origin, s)
  <2>1. PICK l \in Vector : l = <<a, b, c>>
    <3>1. a \in Int /\ b \in Int /\ c \in Int
      OBVIOUS
    <3>2. <<a, b, c>> \in Vector
      BY <3>1 DEF Vector, Axis
    <3> QED BY <3>2
  <2>2. l[1] = a /\ l[2] = b /\ l[3] = c
    BY <2>1
  <2>3. \A d \in Axis : 0 <= l[d] /\ l[d] < s[d]
    BY <1>2, <1>5, <1>7, <1>11, <2>2 DEF Axis
  <2> QED BY <2>1, <2>3, BoxIs
<1>14. CalcOffset3D(<<a, b, c>>, s[1], s[2]) = i
  BY <1>2, <1>9 DEF CalcOffset3D
<1> QED BY <1>12, <1>13, <1>14

\* What a buffer of the extents s at base holds of F.
Fill(F, base, s) == [i \in 1 .. Elements(s) |-> F[Plus(base, Unrank(i - 1, s))]]

\* Element finds a place in such a buffer.
LEMMA FillAt ==
  ASSUME NEW F, NEW base \in Vector, NEW s \in Extent, NEW l \in Block(Origin, s)
  PROVE  /\ CalcOffset3D(l, s[1], s[2]) + 1 \in DOMAIN Fill(F, base, s)
         /\ Element(Fill(F, base, s), s, l) = F[Plus(base, l)]
<1>1. PICK i : i = CalcOffset3D(l, s[1], s[2])
  OBVIOUS
<1>2. i \in 0 .. Elements(s) - 1 /\ Unrank(i, s) = l
  BY <1>1, Position
<1>3. i + 1 \in 1 .. Elements(s) /\ (i + 1) - 1 = i
  BY <1>2, ElementsOf
<1> QED BY <1>1, <1>2, <1>3 DEF Fill, Element

Values(F) == {F[x] : x \in Vector}

LEMMA FillIs ==
  ASSUME NEW F, NEW base \in Vector, NEW s \in Extent
  PROVE  /\ Fill(F, base, s) \in [1 .. Elements(s) -> Values(F)]
         /\ \A i \in 1 .. Elements(s) :
              /\ Unrank(i - 1, s) \in Block(Origin, s) /\ Unrank(i - 1, s) \in Vector
              /\ Fill(F, base, s)[i] = F[Plus(base, Unrank(i - 1, s))]
<1>1. ASSUME NEW i \in 1 .. Elements(s)
      PROVE  /\ Unrank(i - 1, s) \in Block(Origin, s) /\ Unrank(i - 1, s) \in Vector
             /\ Fill(F, base, s)[i] = F[Plus(base, Unrank(i - 1, s))]
             /\ F[Plus(base, Unrank(i - 1, s))] \in Values(F)
  <2>1. PICK j \in 0 .. Elements(s) - 1 : j = i - 1
    BY ElementsOf
  <2>2. Unrank(j, s) \in Block(Origin, s)
    BY <2>1, Place
  <2>3. Unrank(j, s) \in Vector
    BY <2>2, BoxIs
  <2>4. Plus(base, Unrank(j, s)) \in Vector
    BY <2>3, Vectors
  <2> QED BY <2>1, <2>2, <2>3, <2>4 DEF Fill, Values
<1> QED BY <1>1 DEF Fill

Joins(f, g, h) == f \o g = h

LEMMA Concatenated ==
  ASSUME NEW S, NEW n \in Nat, NEW m \in Nat, NEW f \in [1 .. n -> S], NEW g \in [1 .. m -> S],
         NEW h \in [1 .. n + m -> S], \A i \in 1 .. n : h[i] = f[i], \A j \in 1 .. m : h[n + j] = g[j]
  PROVE  Joins(f, g, h)
<1>1. f \in Seq(S) /\ g \in Seq(S) /\ Len(f) = n /\ Len(g) = m
  OBVIOUS
<1>2. PICK c : c = f \o g
  OBVIOUS
<1>3. /\ c \in Seq(S) /\ Len(c) = n + m
      /\ \A i \in 1 .. n + m : c[i] = IF i <= n THEN f[i] ELSE g[i - n]
  <2>1. c \in Seq(S) /\ Len(c) = n + m
    <3>1. f \o g \in Seq(S) /\ Len(f \o g) = Len(f) + Len(g)
      BY ONLY <1>1
    <3> QED BY ONLY <1>1, <1>2, <3>1
  <2>2. \A i \in 1 .. n + m : c[i] = IF i <= n THEN f[i] ELSE g[i - n]
    BY ONLY <1>1, <1>2, n \in Nat, m \in Nat
  <2> QED BY <2>1, <2>2
<1>4. DOMAIN c = 1 .. n + m /\ c = [i \in DOMAIN c |-> c[i]]
  BY <1>3
<1>5. ASSUME NEW i \in 1 .. n + m PROVE c[i] = h[i]
  <2>1. CASE i <= n
    BY <1>3, <2>1
  <2>2. CASE ~(i <= n)
    <3>1. PICK j \in 1 .. m : j = i - n
      BY <2>2
    <3>2. h[n + j] = g[j] /\ n + j = i
      BY <3>1
    <3> QED BY <1>3, <2>2, <3>1, <3>2
  <2> QED BY <2>1, <2>2
<1> QED BY <1>2, <1>4, <1>5 DEF Joins

\* A buffer and the one above it.
LEMMA Stacked ==
  ASSUME NEW F, NEW base \in Vector, NEW above \in Vector, NEW s \in Extent, NEW t \in Extent,
         NEW whole \in Extent, s[1] = t[1], s[2] = t[2], whole[1] = s[1], whole[2] = s[2],
         whole[3] = s[3] + t[3], above[1] = base[1], above[2] = base[2], above[3] = base[3] + s[3]
  PROVE  Joins(Fill(F, base, s), Fill(F, above, t), Fill(F, base, whole))
<1>1. PICK a \in Nat, b \in Nat, c \in Nat, e \in Nat : a = s[1] /\ b = s[2] /\ c = s[3] /\ e = t[3]
  BY ElementsOf
<1>2. PICK n \in Nat, m \in Nat : n = a * b * c /\ m = a * b * e
  <2>1. a * b * c \in Nat /\ a * b * e \in Nat
    OBVIOUS
  <2> QED BY <2>1
<1>3. Elements(s) = n /\ Elements(t) = m
  BY <1>1, <1>2 DEF Elements
<1>4. Elements(whole) = n + m
  <2>1. a * b * (c + e) = a * b * c + a * b * e
    OBVIOUS
  <2> QED BY <1>1, <1>2, <2>1 DEF Elements
<1>5. PICK f \in [1 .. n -> Values(F)] : f = Fill(F, base, s)
  BY <1>3, FillIs
<1>6. PICK g \in [1 .. m -> Values(F)] : g = Fill(F, above, t)
  BY <1>3, FillIs
<1>7. PICK h \in [1 .. n + m -> Values(F)] : h = Fill(F, base, whole)
  BY <1>4, FillIs
<1>8. ASSUME NEW i \in 1 .. n PROVE h[i] = f[i]
  <2>1. Unrank(i - 1, s) = Unrank(i - 1, whole)
    BY DEF Unrank
  <2>2. i \in 1 .. n + m
    OBVIOUS
  <2> QED BY <1>3, <1>4, <1>5, <1>7, <2>1, <2>2, FillIs
<1>9. ASSUME NEW j \in 1 .. m PROVE h[n + j] = g[j]
  <2>1. PICK u \in Vector : u = Unrank(j - 1, t)
    BY <1>3, FillIs
  <2>2. u \in Block(Origin, t) /\ g[j] = F[Plus(above, u)]
    BY <1>3, <1>6, <2>1, FillIs
  <2>3. \A d \in Axis : 0 <= u[d] /\ u[d] < t[d]
    BY <2>2, BoxIs
  <2>4. PICK x \in Nat, y \in Nat, z \in Nat : x = u[1] /\ y = u[2] /\ z = u[3]
    BY <2>1, <2>3 DEF Vector, Axis
  <2>5. PICK v \in Vector : v[1] = x /\ v[2] = y /\ v[3] = z + c
    <3>1. PICK w \in Int : w = z + c
      OBVIOUS
    <3>2. x \in Int /\ y \in Int
      OBVIOUS
    <3>3. <<x, y, w>> \in Vector
      BY <3>2 DEF Vector, Axis
    <3> QED BY <3>1, <3>3
  <2>6. x < s[1] /\ y < s[2] /\ z < e
    BY <1>1, <2>3, <2>4 DEF Axis
  <2>7. v \in Block(Origin, whole)
    <3>1. 0 <= v[1] /\ v[1] < whole[1] /\ 0 <= v[2] /\ v[2] < whole[2] /\ 0 <= v[3] /\ v[3] < whole[3]
      <4>1. whole[1] = s[1] /\ whole[2] = s[2] /\ whole[3] = e + c
        BY ONLY <1>1, whole[1] = s[1], whole[2] = s[2], whole[3] = s[3] + t[3],
           c \in Nat, e \in Nat
      <4> QED BY ONLY <2>5, <2>6, <4>1, x \in Nat, y \in Nat, z \in Nat, c \in Nat, e \in Nat
    <3>2. \A d \in Axis : 0 <= v[d] /\ v[d] < whole[d]
      BY <3>1 DEF Axis
    <3> QED BY <3>2, BoxIs
  <2>8. CalcOffset3D(u, t[1], t[2]) = j - 1
    <3>1. j - 1 \in 0 .. Elements(t) - 1
      BY <1>3
    <3> QED BY <2>1, <3>1, Place
  <2>9. CalcOffset3D(v, whole[1], whole[2]) = n + j - 1
    <3>1. x + y * a + z * a * b = j - 1
      BY <1>1, <2>4, <2>8 DEF CalcOffset3D
    <3>2. (z + c) * a * b = z * a * b + a * b * c
      OBVIOUS
    <3>3. x + y * a + (z + c) * a * b = n + j - 1
      BY <1>2, <3>1, <3>2
    <3> QED BY <1>1, <2>5, <3>3 DEF CalcOffset3D
  <2>10. PICK k \in 1 .. n + m : k = n + j
    OBVIOUS
  <2>11. Unrank(k - 1, whole) = v
    <3>1. CalcOffset3D(v, whole[1], whole[2]) = k - 1
      BY <2>9, <2>10
    <3> QED BY <2>7, <3>1, Position
  <2>12. h[n + j] = F[Plus(base, v)]
    <3>1. \A i \in 1 .. Elements(whole) : h[i] = F[Plus(base, Unrank(i - 1, whole))]
      BY <1>7, FillIs
    <3>2. h[k] = F[Plus(base, Unrank(k - 1, whole))]
      BY <1>4, <3>1
    <3> QED BY <2>10, <2>11, <3>2
  <2>13. Plus(base, v) = Plus(above, u)
    <3> DEFINE p == Plus(base, v)
               q == Plus(above, u)
    <3>0. /\ \A d \in Axis : p[d] = base[d] + v[d] /\ q[d] = above[d] + u[d]
          /\ \A d \in Axis : base[d] \in Int
      BY Vectors
    <3>a. 1 \in Axis /\ 2 \in Axis /\ 3 \in Axis
      BY DEF Axis
    <3>b. /\ p[1] = base[1] + v[1] /\ q[1] = above[1] + u[1] /\ p[2] = base[2] + v[2]
          /\ q[2] = above[2] + u[2] /\ p[3] = base[3] + v[3] /\ q[3] = above[3] + u[3]
          /\ base[3] \in Int
      BY <3>0, <3>a
    <3> HIDE DEF p, q
    <3>1. p[1] = q[1] /\ p[2] = q[2] /\ p[3] = q[3]
      <4>1. s[3] = c
        BY ONLY <1>1
      <4> QED BY ONLY <2>4, <2>5, <3>b, <4>1, above[1] = base[1], above[2] = base[2],
                      above[3] = base[3] + s[3], z \in Nat, c \in Nat
    <3>2. Plus(base, v) \in Vector /\ Plus(above, u) \in Vector
      BY Vectors
    <3>3. \A d \in Axis : p[d] = q[d]
      BY <3>1 DEF Axis
    <3> QED BY <3>2, <3>3, SameVector DEF p, q
  <2> QED BY <2>2, <2>12, <2>13
<1>10. Joins(f, g, h)
  BY <1>8, <1>9, Concatenated
<1> QED BY <1>5, <1>6, <1>7, <1>10

-----------------------------------------------------------------------------
(* Halos and slabs.                                                         *)

\* Where a halo and the slab for it begin, and their extents: along the later
\* dimensions those of the part with its halos, if points off the axes are read.
HaloStart(size, bw, d, width, fw, diag) ==
  [e \in Axis |-> IF e = d THEN (IF fw THEN size[e] ELSE -width)
                  ELSE IF diag /\ e > d THEN -bw[e] ELSE 0]
SlabStart(size, bw, d, width, fw, diag) ==
  [e \in Axis |-> IF e = d THEN (IF fw THEN 0 ELSE size[e] - width)
                  ELSE IF diag /\ e > d THEN -bw[e] ELSE 0]
HaloExtent(size, bw, fws, d, width, diag) ==
  [e \in Axis |-> IF e = d THEN width
                  ELSE IF diag /\ e > d THEN size[e] + fws[e] + bw[e] ELSE size[e]]

\* A part of the given extents, with halos of the widths bw and fws.
Shape(size, bw, fws) == size \in Extent /\ bw \in Extent /\ fws \in Extent

LEMMA HaloTypes ==
  ASSUME NEW size, NEW bw, NEW fws, Shape(size, bw, fws), NEW d \in Axis, NEW width \in Nat,
         NEW fw \in BOOLEAN, NEW diag \in BOOLEAN
  PROVE  /\ HaloStart(size, bw, d, width, fw, diag) \in Vector
         /\ SlabStart(size, bw, d, width, fw, diag) \in Vector
         /\ HaloExtent(size, bw, fws, d, width, diag) \in Extent
         /\ SlabSize(size, d, width) \in Extent /\ SlabOffset(size, d, width, fw) \in Vector
         /\ CalcHaloSize(size, bw, fws, d, width, diag)
              = Elements(HaloExtent(size, bw, fws, d, width, diag))
<1>1. /\ HaloStart(size, bw, d, width, fw, diag) \in Vector
      /\ SlabStart(size, bw, d, width, fw, diag) \in Vector
  BY DEF HaloStart, SlabStart, Shape, Extent, Vector
<1>2. HaloExtent(size, bw, fws, d, width, diag) \in Extent
  BY DEF HaloExtent, Shape, Extent
<1>3. SlabSize(size, d, width) \in Extent
  BY DEF SlabSize, Shape, Extent
<1>4. SlabOffset(size, d, width, fw) \in Vector
  BY DEF SlabOffset, Shape, Extent, Vector
<1> QED BY <1>1, <1>2, <1>3, <1>4 DEF CalcHaloSize, HaloExtent

IsFill(buffer, F, b, s)       == buffer = Fill(F, b, s)
IsEdge(edge, F, b, s, depth) == depth > 0 => edge = Fill(F, b, s)

\* The edges of a slab in y are a part of the halo in z.
LEMMA EdgeIs ==
  ASSUME NEW F, NEW size \in Extent, NEW width \in Nat, width <= size[2], NEW fw \in BOOLEAN,
         NEW edge, NEW depth \in Nat,
         NEW b \in Vector, b[1] = 0, b[2] = 0,
         NEW c \in Vector, c[1] = 0, c[2] = IF fw THEN 0 ELSE size[2] - width, c[3] = b[3],
         NEW s \in Extent, s[1] = size[1], s[2] = size[2], s[3] = depth,
         NEW t \in Extent, t[1] = size[1], t[2] = width, t[3] = depth,
         IsEdge(edge, F, b, s, depth)
  PROVE  Edge3D1(edge, size, width, fw, depth) = Fill(F, c, t)
<1>1. [size EXCEPT ![3] = depth] = s
  BY DEF Extent, Axis
<1>2. [SlabSize(size, 2, width) EXCEPT ![3] = depth] = t
  BY DEF SlabSize, Extent, Axis
<1>3. PICK off : off = SlabOffset(size, 2, width, fw)
  OBVIOUS
<1>4. off \in Vector /\ off[1] = 0 /\ off[2] = c[2] /\ off[3] = 0
  BY <1>3 DEF SlabOffset, Extent, Vector, Axis
<1>5. Edge3D1(edge, size, width, fw, depth)
        = [i \in DOMAIN Copyout(off, t) |-> Element(edge, s, Copyout(off, t)[i])]
  BY <1>1, <1>2, <1>3 DEF Edge3D1
<1>6. ASSUME NEW i \in 1 .. Elements(t)
      PROVE  Element(edge, s, Plus(off, Unrank(i - 1, t))) = F[Plus(c, Unrank(i - 1, t))]
  <2>1. PICK u \in Vector : u = Unrank(i - 1, t)
    BY FillIs
  <2>2. \A d \in Axis : 0 <= u[d] /\ u[d] < t[d]
    <3>1. u \in Block(Origin, t)
      BY <2>1, FillIs
    <3> QED BY <3>1, BoxIs
  <2>3. /\ 0 <= u[1] /\ u[1] < size[1] /\ 0 <= u[2] /\ u[2] < width /\ 0 <= u[3] /\ u[3] < depth
        /\ u[1] \in Int /\ u[2] \in Int /\ u[3] \in Int
    BY <2>2 DEF Axis, Vector
  <2>4. PICK l \in Vector : l = Plus(off, u)
    BY <1>4, Vectors
  <2>5. l[1] = u[1] /\ l[2] = c[2] + u[2] /\ l[3] = u[3]
    BY <1>4, <2>3, <2>4 DEF Plus, Axis, Vector
  <2>6. l \in Block(Origin, s)
    <3>1. size[2] \in Nat
      BY DEF Extent, Axis
    <3>2. /\ 0 <= l[1] /\ l[1] < s[1] /\ 0 <= l[2] /\ l[2] < s[2]
          /\ 0 <= l[3] /\ l[3] < s[3]
      BY <2>3, <2>5, <3>1
    <3>3. \A d \in Axis : 0 <= l[d] /\ l[d] < s[d]
      BY <3>2 DEF Axis
    <3> QED BY <3>3, BoxIs
  <2>7. Element(edge, s, l) = F[Plus(b, l)]
    <3>1. edge = Fill(F, b, s)
      BY <2>3 DEF IsEdge
    <3> QED BY <2>6, <3>1, FillAt
  <2>8. Plus(b, l) = Plus(c, u)
    <3>1. /\ b[1] + l[1] = c[1] + u[1] /\ b[2] + l[2] = c[2] + u[2] /\ b[3] + l[3] = c[3] + u[3]
      BY <2>3, <2>5 DEF Vector, Axis
    <3> QED BY <3>1 DEF Plus, Axis
  <2> QED BY <2>1, <2>4, <2>7, <2>8
<1>7. DOMAIN Copyout(off, t) = 1 .. Elements(t)
  BY DEF Copyout
<1>8. \A i \in 1 .. Elements(t) : Copyout(off, t)[i] = Plus(off, Unrank(i - 1, t))
  BY DEF Copyout
<1> QED BY <1>5, <1>6, <1>7, <1>8 DEF Fill

\* The halos of the dimensions behind d hold F.
FullBehind(F, peer, size, bw, fws, d) ==
  \A e \in Axis : e > d =>
    /\ bw[e] > 0 => peer[e].bw = Fill(F, HaloStart(size, bw, e, bw[e], FALSE, TRUE),
                                      HaloExtent(size, bw, fws, e, bw[e], TRUE))
    /\ fws[e] > 0 => peer[e].fw = Fill(F, HaloStart(size, bw, e, fws[e], TRUE, TRUE),
                                       HaloExtent(size, bw, fws, e, fws[e], TRUE))

\* A slab in y with its edges.
LEMMA Slab3D1 ==
  ASSUME NEW F, NEW size, NEW bw, NEW fws, Shape(size, bw, fws), NEW width \in Nat,
         width <= size[2], NEW fw \in BOOLEAN, NEW peer, FullBehind(F, peer, size, bw, fws, 2),
         NEW slab, IsFill(slab, F, SlabOffset(size, 2, width, fw), SlabSize(size, 2, width))
  PROVE  IsFill(CopyoutHalo3D1(slab, peer, size, bw, fws, width, fw), F,
                SlabStart(size, bw, 2, width, fw, TRUE), HaloExtent(size, bw, fws, 2, width, TRUE))
<1>0. slab = Fill(F, SlabOffset(size, 2, width, fw), SlabSize(size, 2, width))
  BY DEF IsFill
<1>1. size \in Extent /\ bw \in Extent /\ fws \in Extent
  BY DEF Shape
<1>2. /\ size[1] \in Nat /\ size[2] \in Nat /\ size[3] \in Nat /\ bw[3] \in Nat /\ fws[3] \in Nat
      /\ 1 \in Axis /\ 2 \in Axis /\ 3 \in Axis
  BY <1>1 DEF Extent, Axis
<1>3. PICK y \in Int : y = IF fw THEN 0 ELSE size[2] - width
  BY <1>2
<1>4. PICK b \in Vector : b = HaloStart(size, bw, 3, bw[3], FALSE, TRUE)
  BY <1>1, <1>2, HaloTypes
<1>5. PICK s \in Extent : s = HaloExtent(size, bw, fws, 3, bw[3], TRUE)
  BY <1>1, <1>2, HaloTypes
<1>6. PICK bf \in Vector : bf = HaloStart(size, bw, 3, fws[3], TRUE, TRUE)
  BY <1>1, <1>2, HaloTypes
<1>7. PICK sf \in Extent : sf = HaloExtent(size, bw, fws, 3, fws[3], TRUE)
  BY <1>1, <1>2, HaloTypes
<1>8. /\ b[1] = 0 /\ b[2] = 0 /\ b[3] = -bw[3] /\ s[1] = size[1] /\ s[2] = size[2] /\ s[3] = bw[3]
      /\ bf[1] = 0 /\ bf[2] = 0 /\ bf[3] = size[3]
      /\ sf[1] = size[1] /\ sf[2] = size[2] /\ sf[3] = fws[3]
  BY <1>2, <1>4, <1>5, <1>6, <1>7 DEF HaloStart, HaloExtent
<1>9. PICK c \in Vector : c = SlabStart(size, bw, 2, width, fw, TRUE)
  BY <1>2, HaloTypes
<1>10. PICK all \in Extent : all = HaloExtent(size, bw, fws, 2, width, TRUE)
  BY <1>2, HaloTypes
<1>11. /\ c[1] = 0 /\ c[2] = y /\ c[3] = -bw[3]
       /\ all[1] = size[1] /\ all[2] = width /\ all[3] = size[3] + fws[3] + bw[3]
  BY <1>2, <1>3, <1>9, <1>10 DEF SlabStart, HaloExtent
<1>12. PICK o \in Vector : o = SlabOffset(size, 2, width, fw)
  BY <1>2, HaloTypes
<1>13. PICK t \in Extent : t = SlabSize(size, 2, width)
  BY <1>2, HaloTypes
<1>14. /\ o[1] = 0 /\ o[2] = y /\ o[3] = 0 /\ t[1] = size[1] /\ t[2] = width /\ t[3] = size[3]
  BY <1>1, <1>2, <1>3, <1>12, <1>13 DEF SlabOffset, SlabSize, Extent
<1>15. PICK tb \in Extent : tb = [t EXCEPT ![3] = bw[3]]
  BY <1>2 DEF Extent
<1>16. PICK tf \in Extent : tf = [t EXCEPT ![3] = fws[3]]
  BY <1>2 DEF Extent
<1>h. PICK h \in Nat, z \in Int : h = bw[3] + size[3] /\ z = size[3]
  BY <1>2
<1>17. PICK tt \in Extent : tt = [t EXCEPT ![3] = h]
  BY <1>2 DEF Extent
<1>18. PICK cf \in Vector : cf = [o EXCEPT ![3] = z]
  BY <1>2 DEF Vector
<1>19. /\ tb[1] = size[1] /\ tb[2] = width /\ tb[3] = bw[3]
       /\ tf[1] = size[1] /\ tf[2] = width /\ tf[3] = fws[3]
       /\ tt[1] = size[1] /\ tt[2] = width /\ tt[3] = bw[3] + size[3]
       /\ cf[1] = 0 /\ cf[2] = y /\ cf[3] = size[3]
  BY <1>2, <1>14, <1>15, <1>16, <1>h, <1>17, <1>18 DEF Extent, Vector
<1>b. /\ bw[3] > 0 => peer[3].bw = Fill(F, HaloStart(size, bw, 3, bw[3], FALSE, TRUE),
                                      HaloExtent(size, bw, fws, 3, bw[3], TRUE))
      /\ fws[3] > 0 => peer[3].fw = Fill(F, HaloStart(size, bw, 3, fws[3], TRUE, TRUE),
                                       HaloExtent(size, bw, fws, 3, fws[3], TRUE))
  <2>1. 3 > 2
    OBVIOUS
  <2> QED BY <1>2, <2>1 DEF FullBehind
<1>20. Edge3D1(peer[3].bw, size, width, fw, bw[3]) = Fill(F, c, tb)
  <2>1. IsEdge(peer[3].bw, F, b, s, bw[3])
    BY <1>4, <1>5, <1>b DEF IsEdge
  <2> QED BY <1>1, <1>2, <1>3, <1>8, <1>11, <1>19, <2>1, EdgeIs
<1>21. Edge3D1(peer[3].fw, size, width, fw, fws[3]) = Fill(F, cf, tf)
  <2>1. IsEdge(peer[3].fw, F, bf, sf, fws[3])
    BY <1>6, <1>7, <1>b DEF IsEdge
  <2> QED BY <1>1, <1>2, <1>3, <1>8, <1>19, <2>1, EdgeIs
<1>22. Joins(Fill(F, c, tb), slab, Fill(F, c, tt))
  <2>1. Joins(Fill(F, c, tb), Fill(F, o, t), Fill(F, c, tt))
    BY <1>2, <1>11, <1>14, <1>19, Stacked
  <2> QED BY <1>0, <1>12, <1>13, <2>1
<1>23. Joins(Fill(F, c, tt), Fill(F, cf, tf), Fill(F, c, all))
  BY <1>2, <1>11, <1>19, Stacked
<1> QED BY <1>9, <1>10, <1>20, <1>21, <1>22, <1>23 DEF Joins, CopyoutHalo3D1, IsFill

Finds(edge, t, x, y, z, F, m) == Element(edge, t, <<x, y, z>>) = F[m]

LEMMA ElementIs ==
  ASSUME NEW F, NEW b \in Vector, NEW s \in Extent, NEW edge, IsFill(edge, F, b, s),
         NEW t, t[1] = s[1], t[2] = s[2],
         NEW x \in Nat, NEW y \in Nat, NEW z \in Nat, x < s[1], y < s[2], z < s[3],
         NEW m \in Vector, m[1] = b[1] + x, m[2] = b[2] + y, m[3] = b[3] + z
  PROVE  Finds(edge, t, x, y, z, F, m)
<1>1. x \in Int /\ y \in Int /\ z \in Int
  OBVIOUS
<1>2. PICK l : l = <<x, y, z>>
  OBVIOUS
<1>3. l \in Vector /\ l[1] = x /\ l[2] = y /\ l[3] = z
  BY <1>1, <1>2 DEF Vector, Axis
<1>4. l \in Block(Origin, s)
  <2>1. /\ 0 <= l[1] /\ l[1] < s[1] /\ 0 <= l[2] /\ l[2] < s[2] /\ 0 <= l[3] /\ l[3] < s[3]
    BY <1>3
  <2>2. \A d \in Axis : 0 <= l[d] /\ l[d] < s[d]
    BY <2>1 DEF Axis
  <2> QED BY <1>3, <2>2, BoxIs
<1>5. Element(edge, t, l) = Element(edge, s, l)
  BY DEF Element
<1>6. Plus(b, l) = m
  <2>1. b[1] + l[1] = m[1] /\ b[2] + l[2] = m[2] /\ b[3] + l[3] = m[3]
    BY <1>3
  <2>2. \A d \in Axis : Plus(b, l)[d] = m[d]
    BY <2>1 DEF Plus, Axis
  <2>3. Plus(b, l) \in Vector
    BY <1>3, Vectors
  <2> QED BY <2>2, <2>3, SameVector
<1>7. Element(edge, s, l) = F[Plus(b, l)]
  BY <1>4, FillAt DEF IsFill
<1> QED BY <1>2, <1>5, <1>6, <1>7 DEF Finds

\* The element that CopyoutHalo3D0 copies to place l.
Element3D0(slab, peer, size, bw, fws, width, x0, l) ==
  IF l[2] - bw[2] < 0
  THEN Element(peer[2].bw, <<size[1], bw[2], bw[3] + size[3] + fws[3]>>, <<x0 + l[1], l[2], l[3]>>)
  ELSE IF l[2] - bw[2] >= size[2]
  THEN Element(peer[2].fw, <<size[1], fws[2], bw[3] + size[3] + fws[3]>>,
               <<x0 + l[1], l[2] - bw[2] - size[2], l[3]>>)
  ELSE IF l[3] - bw[3] < 0
  THEN Element(peer[3].bw, <<size[1], size[2], bw[3]>>, <<x0 + l[1], l[2] - bw[2], l[3]>>)
  ELSE IF l[3] - bw[3] >= size[3]
  THEN Element(peer[3].fw, <<size[1], size[2], fws[3]>>,
               <<x0 + l[1], l[2] - bw[2], l[3] - bw[3] - size[3]>>)
  ELSE Element(slab, <<width, size[2], size[3]>>, <<l[1], l[2] - bw[2], l[3] - bw[3]>>)

LEMMA Element3D0Is ==
  ASSUME NEW F, NEW size, NEW bw, NEW fws, Shape(size, bw, fws), NEW width \in Nat,
         width <= size[1], NEW x0 \in Nat, x0 + width <= size[1],
         NEW peer, FullBehind(F, peer, size, bw, fws, 1),
         NEW o \in Vector, o[1] = x0, o[2] = 0, o[3] = 0,
         NEW slab, slab = Fill(F, o, SlabSize(size, 1, width)),
         NEW u \in Vector, 0 <= u[1], u[1] < width, 0 <= u[2], u[2] < size[2] + fws[2] + bw[2],
         0 <= u[3], u[3] < size[3] + fws[3] + bw[3],
         NEW m \in Vector, m[1] = x0 + u[1], m[2] = u[2] - bw[2], m[3] = u[3] - bw[3]
  PROVE  Element3D0(slab, peer, size, bw, fws, width, x0, u) = F[m]
<1>1. size \in Extent /\ bw \in Extent /\ fws \in Extent /\ 1 \in Axis /\ 2 \in Axis /\ 3 \in Axis
  BY DEF Shape, Axis
<1>2. /\ size[1] \in Nat /\ size[2] \in Nat /\ size[3] \in Nat /\ bw[2] \in Nat /\ fws[2] \in Nat
      /\ bw[3] \in Nat /\ fws[3] \in Nat
  BY <1>1 DEF Extent
<1>3. PICK a \in Nat, b \in Nat, c \in Nat : a = u[1] /\ b = u[2] /\ c = u[3]
  BY <1>1 DEF Vector
<1>4. PICK x \in Nat : x = x0 + a
  OBVIOUS
<1>5. x < size[1] /\ a < width
  BY <1>2, <1>3, <1>4
<1>6. CASE b < bw[2]
  <2>1. PICK p \in Vector : p = HaloStart(size, bw, 2, bw[2], FALSE, TRUE)
    BY <1>1, <1>2, HaloTypes
  <2>2. PICK s \in Extent : s = HaloExtent(size, bw, fws, 2, bw[2], TRUE)
    BY <1>1, <1>2, HaloTypes
  <2>0. bw[2] > 0
    BY <1>2, <1>6
  <2>3. /\ p[1] = 0 /\ p[2] = -bw[2] /\ p[3] = -bw[3]
        /\ s[1] = size[1] /\ s[2] = bw[2] /\ s[3] = size[3] + fws[3] + bw[3]
    BY <1>1, <2>1, <2>2 DEF HaloStart, HaloExtent
  <2>4. IsFill(peer[2].bw, F, p, s)
    <3>1. bw[2] > 0 => peer[2].bw = Fill(F, HaloStart(size, bw, 2, bw[2], FALSE, TRUE),
                                         HaloExtent(size, bw, fws, 2, bw[2], TRUE))
      <4>1. 2 > 1
        OBVIOUS
      <4> QED BY <1>1, <4>1 DEF FullBehind
    <3> QED BY <2>0, <2>1, <2>2, <3>1 DEF IsFill
  <2>5. PICK t : t = <<size[1], bw[2], bw[3] + size[3] + fws[3]>>
    OBVIOUS
  <2>6. t[1] = s[1] /\ t[2] = s[2]
    BY <2>3, <2>5
  <2>7. x < s[1] /\ b < s[2] /\ c < s[3] /\ m[1] = p[1] + x /\ m[2] = p[2] + b /\ m[3] = p[3] + c
    BY <1>2, <1>3, <1>4, <1>5, <1>6, <2>3
  <2>8. Finds(peer[2].bw, t, x, b, c, F, m)
    BY <2>4, <2>6, <2>7, ElementIs
  <2>9. b - bw[2] < 0
    BY <1>2, <1>6
  <2> QED BY <1>3, <1>4, <2>5, <2>8, <2>9 DEF Element3D0, Finds
<1>7. CASE b >= bw[2] + size[2]
  <2>1. PICK p \in Vector : p = HaloStart(size, bw, 2, fws[2], TRUE, TRUE)
    BY <1>1, <1>2, HaloTypes
  <2>2. PICK s \in Extent : s = HaloExtent(size, bw, fws, 2, fws[2], TRUE)
    BY <1>1, <1>2, HaloTypes
  <2>0. fws[2] > 0
    BY <1>2, <1>3, <1>7
  <2>3. /\ p[1] = 0 /\ p[2] = size[2] /\ p[3] = -bw[3]
        /\ s[1] = size[1] /\ s[2] = fws[2] /\ s[3] = size[3] + fws[3] + bw[3]
    BY <1>1, <2>1, <2>2 DEF HaloStart, HaloExtent
  <2>4. IsFill(peer[2].fw, F, p, s)
    <3>1. fws[2] > 0 => peer[2].fw = Fill(F, HaloStart(size, bw, 2, fws[2], TRUE, TRUE),
                                         HaloExtent(size, bw, fws, 2, fws[2], TRUE))
      <4>1. 2 > 1
        OBVIOUS
      <4> QED BY <1>1, <4>1 DEF FullBehind
    <3> QED BY <2>0, <2>1, <2>2, <3>1 DEF IsFill
  <2>5. PICK t : t = <<size[1], fws[2], bw[3] + size[3] + fws[3]>>
    OBVIOUS
  <2>6. t[1] = s[1] /\ t[2] = s[2]
    BY <2>3, <2>5
  <2>7. PICK y \in Nat : y = b - bw[2] - size[2]
    BY <1>2, <1>7
  <2>8. x < s[1] /\ y < s[2] /\ c < s[3] /\ m[1] = p[1] + x /\ m[2] = p[2] + y /\ m[3] = p[3] + c
    BY <1>2, <1>3, <1>4, <1>5, <1>7, <2>3, <2>7
  <2>9. Finds(peer[2].fw, t, x, y, c, F, m)
    BY <2>4, <2>6, <2>8, ElementIs
  <2>10. ~(b - bw[2] < 0) /\ b - bw[2] >= size[2]
    BY <1>2, <1>7
  <2> QED BY <1>3, <1>4, <2>5, <2>7, <2>9, <2>10 DEF Element3D0, Finds
<1>8. CASE bw[2] <= b /\ b < bw[2] + size[2] /\ c < bw[3]
  <2>1. PICK p \in Vector : p = HaloStart(size, bw, 3, bw[3], FALSE, TRUE)
    BY <1>1, <1>2, HaloTypes
  <2>2. PICK s \in Extent : s = HaloExtent(size, bw, fws, 3, bw[3], TRUE)
    BY <1>1, <1>2, HaloTypes
  <2>0. bw[3] > 0
    BY <1>2, <1>3, <1>8
  <2>3. /\ p[1] = 0 /\ p[2] = 0 /\ p[3] = -bw[3]
        /\ s[1] = size[1] /\ s[2] = size[2] /\ s[3] = bw[3]
    BY <1>1, <2>1, <2>2 DEF HaloStart, HaloExtent
  <2>4. IsFill(peer[3].bw, F, p, s)
    <3>1. bw[3] > 0 => peer[3].bw = Fill(F, HaloStart(size, bw, 3, bw[3], FALSE, TRUE),
                                         HaloExtent(size, bw, fws, 3, bw[3], TRUE))
      <4>1. 3 > 1
        OBVIOUS
      <4> QED BY <1>1, <4>1 DEF FullBehind
    <3> QED BY <2>0, <2>1, <2>2, <3>1 DEF IsFill
  <2>5. PICK t : t = <<size[1], size[2], bw[3]>>
    OBVIOUS
  <2>6. t[1] = s[1] /\ t[2] = s[2]
    BY <2>3, <2>5
  <2>7. PICK y \in Nat : y = b - bw[2]
    BY <1>2, <1>8
  <2>8. x < s[1] /\ y < s[2] /\ c < s[3] /\ m[1] = p[1] + x /\ m[2] = p[2] + y /\ m[3] = p[3] + c
    BY <1>2, <1>3, <1>4, <1>5, <1>8, <2>3, <2>7
  <2>9. Finds(peer[3].bw, t, x, y, c, F, m)
    BY <2>4, <2>6, <2>8, ElementIs
  <2>10. ~(b - bw[2] < 0) /\ ~(b - bw[2] >= size[2]) /\ c - bw[3] < 0
    BY <1>2, <1>8
  <2> QED BY <1>3, <1>4, <2>5, <2>7, <2>9, <2>10 DEF Element3D0, Finds
<1>9. CASE bw[2] <= b /\ b < bw[2] + size[2] /\ c >= bw[3] + size[3]
  <2>1. PICK p \in Vector : p = HaloStart(size, bw, 3, fws[3], TRUE, TRUE)
    BY <1>1, <1>2, HaloTypes
  <2>2. PICK s \in Extent : s = HaloExtent(size, bw, fws, 3, fws[3], TRUE)
    BY <1>1, <1>2, HaloTypes
  <2>0. fws[3] > 0
    BY <1>2, <1>3, <1>9
  <2>3. /\ p[1] = 0 /\ p[2] = 0 /\ p[3] = size[3]
        /\ s[1] = size[1] /\ s[2] = size[2] /\ s[3] = fws[3]
    BY <1>1, <2>1, <2>2 DEF HaloStart, HaloExtent
  <2>4. IsFill(peer[3].fw, F, p, s)
    <3>1. fws[3] > 0 => peer[3].fw = Fill(F, HaloStart(size, bw, 3, fws[3], TRUE, TRUE),
                                         HaloExtent(size, bw, fws, 3, fws[3], TRUE))
      <4>1. 3 > 1
        OBVIOUS
      <4> QED BY <1>1, <4>1 DEF FullBehind
    <3> QED BY <2>0, <2>1, <2>2, <3>1 DEF IsFill
  <2>5. PICK t : t = <<size[1], size[2], fws[3]>>
    OBVIOUS
  <2>6. t[1] = s[1] /\ t[2] = s[2]
    BY <2>3, <2>5
  <2>7. PICK y \in Nat, z \in Nat : y = b - bw[2] /\ z = c - bw[3] - size[3]
    BY <1>2, <1>9
  <2>8. x < s[1] /\ y < s[2] /\ z < s[3] /\ m[1] = p[1] + x /\ m[2] = p[2] + y /\ m[3] = p[3] + z
    BY <1>2, <1>3, <1>4, <1>5, <1>9, <2>3, <2>7
  <2>9. Finds(peer[3].fw, t, x, y, z, F, m)
    BY <2>4, <2>6, <2>8, ElementIs
  <2>10. ~(b - bw[2] < 0) /\ ~(b - bw[2] >= size[2]) /\ ~(c - bw[3] < 0) /\ c - bw[3] >= size[3]
    BY <1>2, <1>9
  <2> QED BY <1>3, <1>4, <2>5, <2>7, <2>9, <2>10 DEF Element3D0, Finds
<1>10. CASE bw[2] <= b /\ b < bw[2] + size[2] /\ bw[3] <= c /\ c < bw[3] + size[3]
  <2>2. PICK s \in Extent : s = SlabSize(size, 1, width)
    BY <1>1, HaloTypes
  <2>3. s[1] = width /\ s[2] = size[2] /\ s[3] = size[3]
    BY <1>1, <2>2 DEF SlabSize, Extent
  <2>4. IsFill(slab, F, o, s)
    BY <2>2 DEF IsFill
  <2>5. PICK t : t = <<width, size[2], size[3]>>
    OBVIOUS
  <2>6. t[1] = s[1] /\ t[2] = s[2]
    BY <2>3, <2>5
  <2>7. PICK y \in Nat, z \in Nat : y = b - bw[2] /\ z = c - bw[3]
    BY <1>2, <1>10
  <2>8. a < s[1] /\ y < s[2] /\ z < s[3] /\ m[1] = o[1] + a /\ m[2] = o[2] + y /\ m[3] = o[3] + z
    BY <1>2, <1>3, <1>5, <1>10, <2>3, <2>7
  <2>9. Finds(slab, t, a, y, z, F, m)
    BY <2>4, <2>6, <2>8, ElementIs
  <2>10. ~(b - bw[2] < 0) /\ ~(b - bw[2] >= size[2]) /\ ~(c - bw[3] < 0) /\ ~(c - bw[3] >= size[3])
    BY <1>2, <1>10
  <2> QED BY <1>3, <2>5, <2>7, <2>9, <2>10 DEF Element3D0, Finds
<1> QED BY <1>2, <1>6, <1>7, <1>8, <1>9, <1>10

\* The lines of a slab in x, through y and z with their halos.
LEMMA Slab3D0 ==
  ASSUME NEW F, NEW size, NEW bw, NEW fws, Shape(size, bw, fws), NEW width \in Nat,
         width <= size[1], NEW fw \in BOOLEAN, NEW peer, FullBehind(F, peer, size, bw, fws, 1),
         NEW slab, IsFill(slab, F, SlabOffset(size, 1, width, fw), SlabSize(size, 1, width))
  PROVE  IsFill(CopyoutHalo3D0(slab, peer, size, bw, fws, width, fw), F,
                SlabStart(size, bw, 1, width, fw, TRUE), HaloExtent(size, bw, fws, 1, width, TRUE))
<1>0. slab = Fill(F, SlabOffset(size, 1, width, fw), SlabSize(size, 1, width))
  BY DEF IsFill
<1>1. size \in Extent /\ bw \in Extent /\ fws \in Extent /\ 1 \in Axis /\ 2 \in Axis /\ 3 \in Axis
  BY DEF Shape, Axis
<1>2. /\ size[1] \in Nat /\ size[2] \in Nat /\ size[3] \in Nat /\ bw[2] \in Nat /\ fws[2] \in Nat
      /\ bw[3] \in Nat /\ fws[3] \in Nat
  BY <1>1 DEF Extent
<1>3. PICK x0 \in Nat : x0 = IF fw THEN 0 ELSE size[1] - width
  BY <1>2
<1>4. PICK c \in Vector : c = SlabStart(size, bw, 1, width, fw, TRUE)
  BY <1>1, HaloTypes
<1>5. PICK s \in Extent : s = HaloExtent(size, bw, fws, 1, width, TRUE)
  BY <1>1, HaloTypes
<1>6. PICK o \in Vector : o = SlabOffset(size, 1, width, fw)
  BY <1>1, HaloTypes
<1>7. /\ c[1] = x0 /\ c[2] = -bw[2] /\ c[3] = -bw[3]
      /\ s[1] = width /\ s[2] = size[2] + fws[2] + bw[2] /\ s[3] = size[3] + fws[3] + bw[3]
      /\ o[1] = x0 /\ o[2] = 0 /\ o[3] = 0
  BY <1>1, <1>3, <1>4, <1>5, <1>6 DEF SlabStart, HaloExtent, SlabOffset
<1>8. PICK t : t = <<width, bw[2] + size[2] + fws[2], bw[3] + size[3] + fws[3]>>
  OBVIOUS
<1>9. t = s
  <2>1. bw[2] + size[2] + fws[2] = s[2] /\ bw[3] + size[3] + fws[3] = s[3] /\ width = s[1]
    BY <1>2, <1>7
  <2>2. t = <<s[1], s[2], s[3]>>
    BY <1>8, <2>1
  <2> QED BY <2>2 DEF Extent, Axis
<1> DEFINE f == [i \in 1 .. Elements(s) |->
                  Element3D0(slab, peer, size, bw, fws, width, x0, Copyout(Origin, s)[i])]
<1>10. CopyoutHalo3D0(slab, peer, size, bw, fws, width, fw) = f
  <2>1. DOMAIN Copyout(Origin, t) = 1 .. Elements(s)
    BY <1>9 DEF Copyout
  <2>2. CopyoutHalo3D0(slab, peer, size, bw, fws, width, fw)
          = [i \in DOMAIN Copyout(Origin, t) |->
               Element3D0(slab, peer, size, bw, fws, width, x0, Copyout(Origin, t)[i])]
    BY <1>3, <1>8 DEF CopyoutHalo3D0, Element3D0
  <2> QED BY <1>9, <2>1, <2>2
<1>11. ASSUME NEW i \in 1 .. Elements(s)
       PROVE  Element3D0(slab, peer, size, bw, fws, width, x0, Copyout(Origin, s)[i])
                = F[Plus(c, Unrank(i - 1, s))]
  <2>1. PICK u \in Vector : u = Unrank(i - 1, s)
    BY FillIs
  <2>2. \A d \in Axis : 0 <= u[d] /\ u[d] < s[d]
    <3>1. u \in Block(Origin, s)
      BY <2>1, FillIs
    <3> QED BY <3>1, BoxIs
  <2>3. Copyout(Origin, s)[i] = u
    <3>1. Copyout(Origin, s)[i] = Plus(Origin, u)
      BY <2>1 DEF Copyout
    <3>2. Plus(Origin, u) = u
      BY DEF Plus, Origin, Vector
    <3> QED BY <3>1, <3>2
  <2>4. PICK m \in Vector : m = Plus(c, u)
    BY Vectors
  <2>5. m[1] = c[1] + u[1] /\ m[2] = c[2] + u[2] /\ m[3] = c[3] + u[3]
    BY <1>1, <2>4 DEF Plus
  <2>6. /\ u[1] \in Int /\ u[2] \in Int /\ u[3] \in Int
        /\ 0 <= u[1] /\ u[1] < s[1] /\ 0 <= u[2] /\ u[2] < s[2] /\ 0 <= u[3] /\ u[3] < s[3]
    BY <1>1, <2>2 DEF Vector
  <2>7. m[1] = x0 + u[1] /\ m[2] = u[2] - bw[2] /\ m[3] = u[3] - bw[3]
    BY <1>2, <1>7, <2>5, <2>6
  <2>8. x0 + width <= size[1]
    BY <1>2, <1>3
  <2>9. slab = Fill(F, o, SlabSize(size, 1, width))
    BY <1>0, <1>6
  <2>10. Element3D0(slab, peer, size, bw, fws, width, x0, u) = F[m]
    BY <1>7, <2>6, <2>7, <2>8, <2>9, Element3D0Is
  <2> QED BY <2>1, <2>3, <2>4, <2>10
<1> QED BY <1>4, <1>5, <1>10, <1>11 DEF Fill, IsFill

\* What CopyoutHalo puts together for a neighbour, from the slab of the part and
\* the edges of the halos of later dimensions, is line by line the box that the
\* neighbour takes it for, corners included, if those halos hold F.
THEOREM SlabIs ==
  ASSUME NEW F, NEW size, NEW bw, NEW fws, Shape(size, bw, fws), NEW d \in Axis, NEW width \in Nat,
         width <= size[d], NEW fw \in BOOLEAN, NEW diag \in BOOLEAN, NEW peer,
         diag => FullBehind(F, peer, size, bw, fws, d),
         NEW slab, IsFill(slab, F, SlabOffset(size, d, width, fw), SlabSize(size, d, width))
  PROVE  IsFill(CopyoutHalo(slab, peer, size, bw, fws, d, width, fw, diag), F,
                SlabStart(size, bw, d, width, fw, diag), HaloExtent(size, bw, fws, d, width, diag))
<1>1. CASE d = 3 \/ ~diag
  <2>1. SlabOffset(size, d, width, fw) = SlabStart(size, bw, d, width, fw, diag)
    BY <1>1 DEF SlabOffset, SlabStart, Axis
  <2>2. SlabSize(size, d, width) = HaloExtent(size, bw, fws, d, width, diag)
    <3>1. size \in Extent
      BY DEF Shape
    <3>2. SlabSize(size, d, width) = [e \in Axis |-> IF e = d THEN width ELSE size[e]]
      BY <3>1 DEF SlabSize, Extent
    <3>3. \A e \in Axis : ~(diag /\ e > d) \/ e = d
      BY <1>1 DEF Axis
    <3> QED BY <3>2, <3>3 DEF HaloExtent
  <2> QED BY <1>1, <2>1, <2>2 DEF CopyoutHalo, IsFill
<1>2. CASE d = 2 /\ diag
  <2>0. d = 2 /\ diag = TRUE
    BY <1>2
  <2>1. FullBehind(F, peer, size, bw, fws, 2)
    BY <2>0
  <2>2. width <= size[2]
    BY <2>0
  <2>3. IsFill(slab, F, SlabOffset(size, 2, width, fw), SlabSize(size, 2, width))
    BY <2>0
  <2>4. IsFill(CopyoutHalo3D1(slab, peer, size, bw, fws, width, fw), F,
               SlabStart(size, bw, 2, width, fw, TRUE), HaloExtent(size, bw, fws, 2, width, TRUE))
    BY ONLY <2>1, <2>2, <2>3, Shape(size, bw, fws), width \in Nat, fw \in BOOLEAN, Slab3D1
  <2>5. SlabStart(size, bw, 2, width, fw, TRUE) = SlabStart(size, bw, d, width, fw, diag)
    BY <2>0 DEF SlabStart
  <2>6. HaloExtent(size, bw, fws, 2, width, TRUE) = HaloExtent(size, bw, fws, d, width, diag)
    BY <2>0 DEF HaloExtent
  <2>7. CopyoutHalo(slab, peer, size, bw, fws, d, width, fw, diag)
          = CopyoutHalo3D1(slab, peer, size, bw, fws, width, fw)
    BY <2>0 DEF CopyoutHalo
  <2> QED BY ONLY <2>4, <2>5, <2>6, <2>7
<1>3. CASE d = 1 /\ diag
  <2>0. d = 1 /\ diag = TRUE
    BY <1>3
  <2>1. FullBehind(F, peer, size, bw, fws, 1)
    BY <2>0
  <2>2. width <= size[1]
    BY <2>0
  <2>3. IsFill(slab, F, SlabOffset(size, 1, width, fw), SlabSize(size, 1, width))
    BY <2>0
  <2>4. IsFill(CopyoutHalo3D0(slab, peer, size, bw, fws, width, fw), F,
               SlabStart(size, bw, 1, width, fw, TRUE), HaloExtent(size, bw, fws, 1, width, TRUE))
    BY ONLY <2>1, <2>2, <2>3, Shape(size, bw, fws), width \in Nat, fw \in BOOLEAN, Slab3D0
  <2>5. SlabStart(size, bw, 1, width, fw, TRUE) = SlabStart(size, bw, d, width, fw, diag)
    BY <2>0 DEF SlabStart
  <2>6. HaloExtent(size, bw, fws, 1, width, TRUE) = HaloExtent(size, bw, fws, d, width, diag)
    BY <2>0 DEF HaloExtent
  <2>7. CopyoutHalo(slab, peer, size, bw, fws, d, width, fw, diag)
          = CopyoutHalo3D0(slab, peer, size, bw, fws, width, fw)
    BY <2>0 DEF CopyoutHalo
  <2> QED BY ONLY <2>4, <2>5, <2>6, <2>7
<1> QED BY <1>1, <1>2, <1>3 DEF Axis

-----------------------------------------------------------------------------
(* Addresses.                                                               *)

Inside(dev, l, d) == 0 <= l[d] /\ l[d] < dev.size[d]

\* The place of local index l in the halo of dimension d, forward or not.
HaloAt(dev, l, d, fw) ==
  LET w == IF fw THEN dev.fw[d] ELSE dev.bw[d]
      s == HaloExtent(dev.size, dev.bw, dev.fw, d, w, dev.diag)
  IN  InHalo(d, fw, CalcOffset3D(Minus(l, HaloStart(dev.size, dev.bw, d, w, fw, dev.diag)), s[1], s[2]))

\* Address a is that of local index l: in the grid, or in the halo of the first
\* dimension in which it is outside.
Located(dev, a, l) ==
  /\ (\A d \in Axis : Inside(dev, l, d)) => a = InGrid(l)
  /\ \A d \in Axis :
       ~Inside(dev, l, d) /\ (\A e \in Axis : e < d => Inside(dev, l, e)) =>
         IF l[d] >= 0 THEN a = HaloAt(dev, l, d, TRUE) ELSE a = HaloAt(dev, l, d, FALSE)

Descriptor3D(dev) ==
  Shape(dev.size, dev.bw, dev.fw) /\ dev.offset \in Vector /\ dev.diag \in BOOLEAN

\* The same place, computed in steps.
AtHalo(dev, l, d, fw, s, x, y) == InHalo(d, fw, CalcOffset3D(s, x, y)) = HaloAt(dev, l, d, fw)

LEMMA HaloAtIs ==
  ASSUME NEW dev, Descriptor3D(dev), NEW l \in Vector, NEW d \in Axis, NEW fw \in BOOLEAN,
         NEW s \in Vector,
         s[d] = IF fw THEN l[d] - dev.size[d] ELSE l[d] + dev.bw[d],
         \A e \in Axis \ {d} : s[e] = IF e > d /\ dev.diag THEN l[e] + dev.bw[e] ELSE l[e],
         NEW x, x = IF d = 1 THEN (IF fw THEN dev.fw[1] ELSE dev.bw[1]) ELSE dev.size[1],
         NEW y, y = IF d = 2 THEN (IF fw THEN dev.fw[2] ELSE dev.bw[2])
                    ELSE IF d = 1 /\ dev.diag THEN dev.size[2] + dev.fw[2] + dev.bw[2]
                    ELSE dev.size[2]
  PROVE  AtHalo(dev, l, d, fw, s, x, y)
<1>1. Shape(dev.size, dev.bw, dev.fw) /\ dev.diag \in BOOLEAN
  BY DEF Descriptor3D
<1>2. dev.size \in Extent /\ dev.bw \in Extent /\ dev.fw \in Extent
  BY <1>1 DEF Shape
<1>3. PICK w \in Nat : w = IF fw THEN dev.fw[d] ELSE dev.bw[d]
  BY <1>2 DEF Extent
<1>4. PICK b \in Vector : b = HaloStart(dev.size, dev.bw, d, w, fw, dev.diag)
  BY <1>1, HaloTypes
<1>5. PICK t \in Extent : t = HaloExtent(dev.size, dev.bw, dev.fw, d, w, dev.diag)
  BY <1>1, HaloTypes
<1>6. t[1] = x /\ t[2] = y
  BY <1>2, <1>3, <1>5 DEF HaloExtent, Axis, Extent
<1>7. ASSUME NEW e \in Axis PROVE s[e] = l[e] - b[e]
  <2>1. /\ l[e] \in Int /\ dev.bw[e] \in Int /\ dev.size[e] \in Int
        /\ b[e] = IF e = d THEN (IF fw THEN dev.size[e] ELSE -w)
                  ELSE IF dev.diag /\ e > d THEN -dev.bw[e] ELSE 0
    BY <1>2, <1>4 DEF HaloStart, Vector, Extent
  <2>2. CASE e = d
    BY <1>3, <2>1, <2>2
  <2>3. CASE e # d
    <3>1. s[e] = IF e > d /\ dev.diag THEN l[e] + dev.bw[e] ELSE l[e]
      BY <2>3
    <3> QED BY <2>1, <2>3, <3>1
  <2> QED BY <2>2, <2>3
<1>8. s = Minus(l, b)
  BY <1>7 DEF Minus, Vector
<1> QED BY <1>3, <1>4, <1>5, <1>6, <1>8 DEF AtHalo, HaloAt

LEMMA FirstAxis ==
  ASSUME NEW S \in SUBSET Axis, NEW d \in S, \A e \in S : d <= e
  PROVE  Min(S) = d
<1>1. \A e \in S : e \in Int
  BY DEF Axis
<1> QED BY <1>1 DEF Min

LEMMA LocalIs ==
  ASSUME NEW dev, Descriptor3D(dev), NEW x \in Vector
  PROVE  Local(dev, x) \in Vector
BY Vectors DEF Local, Descriptor3D

\* __PSGridGetAddrFloat3D finds every point where it belongs: in the grid, or
\* in the halo of the first dimension in which the point is outside.
THEOREM GenericLocated ==
  ASSUME NEW dev, Descriptor3D(dev), NEW x \in Vector
  PROVE  Located(dev, AddrGeneric(dev, x), Local(dev, x))
<1>1. PICK l \in Vector : l = Local(dev, x)
  BY LocalIs
<1>2. dev.size \in Extent /\ dev.bw \in Extent /\ dev.fw \in Extent /\ dev.diag \in BOOLEAN
  BY DEF Descriptor3D, Shape
<1> DEFINE outside == {d \in Axis : l[d] < 0 \/ l[d] >= dev.size[d]}
<1>3. \A d \in Axis : d \in outside <=> ~Inside(dev, l, d)
  BY <1>1, <1>2 DEF Inside, Vector, Extent
<1>4. ASSUME \A d \in Axis : Inside(dev, l, d) PROVE AddrGeneric(dev, x) = InGrid(l)
  <2>1. outside = {}
    BY <1>3, <1>4
  <2> QED BY <1>1, <2>1 DEF AddrGeneric, AddrNoHalo
<1>5. ASSUME NEW d \in Axis, ~Inside(dev, l, d), \A e \in Axis : e < d => Inside(dev, l, e)
      PROVE  IF l[d] >= 0 THEN AddrGeneric(dev, x) = HaloAt(dev, l, d, TRUE)
             ELSE AddrGeneric(dev, x) = HaloAt(dev, l, d, FALSE)
  <2>1. d \in outside
    BY <1>3, <1>5
  <2>2. \A e \in outside : d <= e
    BY <1>3, <1>5 DEF Axis
  <2>3. outside \in SUBSET Axis
    OBVIOUS
  <2>4. Min(outside) = d
    <3> HIDE DEF outside
    <3> QED BY <2>1, <2>2, <2>3, FirstAxis
  <2>5. outside # {}
    BY <2>1
  <2> DEFINE s(fw) == [e \in Axis |->
               IF e = d THEN (IF fw THEN l[e] - dev.size[e] ELSE l[e] + dev.bw[e])
               ELSE IF e > d /\ dev.diag THEN l[e] + dev.bw[e] ELSE l[e]]
             h(fw) == [e \in Axis |->
               IF e = d THEN (IF fw THEN dev.fw[e] ELSE dev.bw[e])
               ELSE IF e > d /\ dev.diag THEN dev.size[e] + dev.bw[e] + dev.fw[e]
               ELSE dev.size[e]]
  <2>6. AddrGeneric(dev, x) = InHalo(d, l[d] >= 0, CalcOffset3D(s(l[d] >= 0), h(l[d] >= 0)[1], h(l[d] >= 0)[2]))
    BY <1>1, <2>4, <2>5 DEF AddrGeneric
  <2>7. ASSUME NEW fw \in BOOLEAN PROVE AtHalo(dev, l, d, fw, s(fw), h(fw)[1], h(fw)[2])
    <3>0. \A e \in Axis : l[e] \in Int /\ dev.bw[e] \in Nat /\ dev.fw[e] \in Nat /\ dev.size[e] \in Nat
      BY <1>1, <1>2 DEF Vector, Extent
    <3>1. PICK t : t = s(fw)
      OBVIOUS
    <3>2. t \in Vector
      BY <3>0, <3>1 DEF Vector
    <3>3. /\ t[d] = IF fw THEN l[d] - dev.size[d] ELSE l[d] + dev.bw[d]
          /\ \A e \in Axis \ {d} : t[e] = IF e > d /\ dev.diag THEN l[e] + dev.bw[e] ELSE l[e]
      BY <3>1
    <3>4. PICK a : a = h(fw)[1]
      OBVIOUS
    <3>5. PICK b : b = h(fw)[2]
      OBVIOUS
    <3>6. a = IF d = 1 THEN (IF fw THEN dev.fw[1] ELSE dev.bw[1]) ELSE dev.size[1]
      BY <3>0, <3>4 DEF Axis
    <3>7. b = IF d = 2 THEN (IF fw THEN dev.fw[2] ELSE dev.bw[2])
              ELSE IF d = 1 /\ dev.diag THEN dev.size[2] + dev.fw[2] + dev.bw[2] ELSE dev.size[2]
      BY <3>0, <3>5 DEF Axis
    <3> HIDE DEF s, h
    <3>8. AtHalo(dev, l, d, fw, t, a, b)
      BY <3>2, <3>3, <3>6, <3>7, HaloAtIs
    <3> QED BY <3>1, <3>4, <3>5, <3>8
  <2> HIDE DEF s, h, outside
  <2>8. CASE l[d] >= 0
    <3>1. (l[d] >= 0) = TRUE
      BY <2>8
    <3>2. AtHalo(dev, l, d, TRUE, s(TRUE), h(TRUE)[1], h(TRUE)[2])
      BY <2>7
    <3> QED BY <2>6, <2>8, <3>1, <3>2 DEF AtHalo
  <2>9. CASE ~(l[d] >= 0)
    <3>1. (l[d] >= 0) = FALSE
      BY <2>9
    <3>2. AtHalo(dev, l, d, FALSE, s(FALSE), h(FALSE)[1], h(FALSE)[2])
      BY <2>7
    <3> QED BY <2>6, <2>9, <3>1, <3>2 DEF AtHalo
  <2> QED BY <2>8, <2>9
<1> QED BY <1>1, <1>4, <1>5 DEF Located

\* An address in the halo of the first dimension in which l is outside.
LEMMA LocatedOutside ==
  ASSUME NEW dev, NEW l \in Vector, NEW d \in Axis, ~Inside(dev, l, d),
         \A e \in Axis : e < d => Inside(dev, l, e), NEW fw \in BOOLEAN, fw <=> l[d] >= 0,
         NEW a, NEW s, NEW x, NEW y, a = InHalo(d, fw, CalcOffset3D(s, x, y)),
         AtHalo(dev, l, d, fw, s, x, y)
  PROVE  Located(dev, a, l)
<1>1. ASSUME NEW e \in Axis, ~Inside(dev, l, e), \A c \in Axis : c < e => Inside(dev, l, c)
      PROVE  e = d
  <2>1. ~(e < d) /\ ~(d < e)
    BY <1>1
  <2> QED BY <2>1 DEF Axis
<1>2. a = HaloAt(dev, l, d, fw)
  BY DEF AtHalo
<1>3. IF l[d] >= 0 THEN a = HaloAt(dev, l, d, TRUE) ELSE a = HaloAt(dev, l, d, FALSE)
  <2>1. CASE l[d] >= 0
    <3>1. fw = TRUE
      BY <2>1
    <3> QED BY <1>2, <2>1, <3>1
  <2>2. CASE ~(l[d] >= 0)
    <3>1. fw = FALSE
      BY <2>2
    <3> QED BY <1>2, <2>2, <3>1
  <2> QED BY <2>1, <2>2
<1> QED BY <1>1, <1>3 DEF Located

LEMMA LocatedInside ==
  ASSUME NEW dev, NEW l, \A d \in Axis : Inside(dev, l, d), NEW a, a = InGrid(l)
  PROVE  Located(dev, a, l)
BY DEF Located

\* On the side of a part to which dimension d may be left.
OnSide(dev, l, d, fw) == IF fw THEN l[d] >= 0 ELSE l[d] < dev.size[d]

LEMMA ZLocated ==
  ASSUME NEW dev, Descriptor3D(dev), NEW x \in Vector, NEW l, l = Local(dev, x),
         Inside(dev, l, 1), Inside(dev, l, 2), NEW fw \in BOOLEAN, OnSide(dev, l, 3, fw)
  PROVE  Located(dev, AddrZ(dev, x, fw), l)
<1>1. l \in Vector
  BY LocalIs
<1>2. \A d \in Axis : l[d] \in Int /\ dev.size[d] \in Nat /\ dev.bw[d] \in Nat /\ dev.fw[d] \in Nat
  BY <1>1 DEF Descriptor3D, Shape, Vector, Extent
<1>3. 1 \in Axis /\ 2 \in Axis /\ 3 \in Axis
  BY DEF Axis
<1>4. CASE Inside(dev, l, 3)
  <2>1. \A d \in Axis : Inside(dev, l, d)
    BY <1>4 DEF Axis
  <2>2. AddrZ(dev, x, fw) = InGrid(l)
    BY <1>4 DEF AddrZ, Inside
  <2> QED BY <2>1, <2>2, LocatedInside
<1>5. CASE ~Inside(dev, l, 3)
  <2>1. PICK s : s = [l EXCEPT ![3] = IF fw THEN @ - dev.size[3] ELSE @ + dev.bw[3]]
    OBVIOUS
  <2>2. s \in Vector /\ s[1] = l[1] /\ s[2] = l[2]
        /\ s[3] = IF fw THEN l[3] - dev.size[3] ELSE l[3] + dev.bw[3]
    BY <1>1, <1>2, <1>3, <2>1 DEF Vector
  <2>3. fw <=> l[3] >= 0
    BY <1>2, <1>3, <1>5 DEF Inside, OnSide
  <2>4. AddrZ(dev, x, fw) = InHalo(3, fw, CalcOffset3D(s, dev.size[1], dev.size[2]))
    <3>1. ~(IF fw THEN l[3] < dev.size[3] ELSE l[3] >= 0)
      BY <1>2, <1>3, <1>5, <2>3 DEF Inside
    <3> QED BY <2>1, <3>1 DEF AddrZ
  <2>5. \A e \in Axis \ {3} : s[e] = IF e > 3 /\ dev.diag THEN l[e] + dev.bw[e] ELSE l[e]
    BY <2>2 DEF Axis
  <2>6. PICK a, b : a = dev.size[1] /\ b = dev.size[2]
    OBVIOUS
  <2>7. AtHalo(dev, l, 3, fw, s, a, b)
    BY <1>1, <1>3, <2>2, <2>5, <2>6, HaloAtIs
  <2>8. \A e \in Axis : e < 3 => Inside(dev, l, e)
    BY DEF Axis
  <2>9. PICK A : A = AddrZ(dev, x, fw)
    OBVIOUS
  <2> QED BY <1>1, <1>3, <1>5, <2>3, <2>4, <2>6, <2>7, <2>8, <2>9, LocatedOutside
<1> QED BY <1>4, <1>5

LEMMA InZLocated ==
  ASSUME NEW dev, Descriptor3D(dev), NEW x \in Vector, NEW l, l = Local(dev, x),
         Inside(dev, l, 1), Inside(dev, l, 2)
  PROVE  Located(dev, AddrInZ(dev, x), l)
<1>1. l \in Vector /\ 3 \in Axis
  BY LocalIs DEF Axis
<1>2. l[3] \in Int /\ dev.size[3] \in Nat
  BY <1>1 DEF Descriptor3D, Shape, Vector, Extent
<1>3. CASE Inside(dev, l, 3)
  <2>1. \A d \in Axis : Inside(dev, l, d)
    BY <1>3 DEF Axis
  <2>2. AddrInZ(dev, x) = InGrid(l)
    BY <1>3 DEF AddrInZ, Inside
  <2> QED BY <2>1, <2>2, LocatedInside
<1>4. CASE ~Inside(dev, l, 3) /\ l[3] >= dev.size[3]
  <2>1. (l[3] >= dev.size[3]) = TRUE /\ OnSide(dev, l, 3, TRUE)
    BY <1>2, <1>4 DEF OnSide
  <2>2. AddrInZ(dev, x) = AddrZ(dev, x, TRUE)
    BY <1>4, <2>1 DEF AddrInZ, Inside
  <2>3. Located(dev, AddrZ(dev, x, TRUE), l)
    BY <2>1, ZLocated
  <2> QED BY <2>2, <2>3
<1>5. CASE ~Inside(dev, l, 3) /\ ~(l[3] >= dev.size[3])
  <2>1. (l[3] >= dev.size[3]) = FALSE /\ OnSide(dev, l, 3, FALSE)
    BY <1>2, <1>5 DEF OnSide
  <2>2. AddrInZ(dev, x) = AddrZ(dev, x, FALSE)
    BY <1>5, <2>1 DEF AddrInZ, Inside
  <2>3. Located(dev, AddrZ(dev, x, FALSE), l)
    BY <2>1, ZLocated
  <2> QED BY <2>2, <2>3
<1> QED BY <1>3, <1>4, <1>5

LEMMA YLocated ==
  ASSUME NEW dev, Descriptor3D(dev), NEW x \in Vector, NEW l, l = Local(dev, x),
         Inside(dev, l, 1), NEW fw \in BOOLEAN, OnSide(dev, l, 2, fw)
  PROVE  Located(dev, AddrY(dev, x, fw), l)
<1>1. l \in Vector
  BY LocalIs
<1>2. /\ \A d \in Axis : l[d] \in Int /\ dev.size[d] \in Nat /\ dev.bw[d] \in Nat /\ dev.fw[d] \in Nat
      /\ dev.diag \in BOOLEAN
  BY <1>1 DEF Descriptor3D, Shape, Vector, Extent
<1>3. 1 \in Axis /\ 2 \in Axis /\ 3 \in Axis
  BY DEF Axis
<1>4. CASE Inside(dev, l, 2)
  <2>1. AddrY(dev, x, fw) = AddrInZ(dev, x)
    BY <1>4 DEF AddrY, Inside
  <2>2. Located(dev, AddrInZ(dev, x), l)
    BY <1>4, InZLocated
  <2> QED BY <2>1, <2>2
<1>5. CASE ~Inside(dev, l, 2)
  <2>1. PICK s : s = [l EXCEPT ![2] = IF fw THEN @ - dev.size[2] ELSE @ + dev.bw[2],
                               ![3] = IF dev.diag THEN @ + dev.bw[3] ELSE @]
    OBVIOUS
  <2>2. s \in Vector /\ s[1] = l[1]
        /\ s[2] = (IF fw THEN l[2] - dev.size[2] ELSE l[2] + dev.bw[2])
        /\ s[3] = (IF dev.diag THEN l[3] + dev.bw[3] ELSE l[3])
    BY <1>1, <1>2, <1>3, <2>1 DEF Vector
  <2>3. fw <=> l[2] >= 0
    BY <1>2, <1>3, <1>5 DEF Inside, OnSide
  <2>6. PICK a, b : a = dev.size[1] /\ b = IF fw THEN dev.fw[2] ELSE dev.bw[2]
    OBVIOUS
  <2>4. AddrY(dev, x, fw) = InHalo(2, fw, CalcOffset3D(s, a, b))
    <3>1. ~(IF fw THEN l[2] < dev.size[2] ELSE l[2] >= 0)
      BY <1>2, <1>3, <1>5, <2>3 DEF Inside
    <3> QED BY <2>1, <2>6, <3>1 DEF AddrY
  <2>5. \A e \in Axis \ {2} : s[e] = IF e > 2 /\ dev.diag THEN l[e] + dev.bw[e] ELSE l[e]
    BY <1>2, <2>2 DEF Axis
  <2>7. AtHalo(dev, l, 2, fw, s, a, b)
    BY <1>1, <1>3, <2>2, <2>5, <2>6, HaloAtIs
  <2>8. \A e \in Axis : e < 2 => Inside(dev, l, e)
    BY DEF Axis
  <2>9. PICK A : A = AddrY(dev, x, fw)
    OBVIOUS
  <2> QED BY <1>1, <1>3, <1>5, <2>3, <2>4, <2>7, <2>8, <2>9, LocatedOutside
<1> QED BY <1>4, <1>5

LEMMA XLocated ==
  ASSUME NEW dev, Descriptor3D(dev), NEW x \in Vector, NEW l, l = Local(dev, x),
         NEW fw \in BOOLEAN, OnSide(dev, l, 1, fw)
  PROVE  Located(dev, AddrX(dev, x, fw), l)
<1>1. l \in Vector
  BY LocalIs
<1>2. /\ \A d \in Axis : l[d] \in Int /\ dev.size[d] \in Nat /\ dev.bw[d] \in Nat /\ dev.fw[d] \in Nat
      /\ dev.diag \in BOOLEAN
  BY <1>1 DEF Descriptor3D, Shape, Vector, Extent
<1>3. 1 \in Axis /\ 2 \in Axis /\ 3 \in Axis
  BY DEF Axis
<1>4. CASE Inside(dev, l, 1)
  <2>0. IF fw THEN l[1] < dev.size[1] ELSE l[1] >= 0
    BY <1>4 DEF Inside
  <2>1. CASE l[2] >= dev.size[2]
    <3>1. OnSide(dev, l, 2, TRUE)
      BY <1>2, <1>3, <2>1 DEF OnSide
    <3>2. AddrX(dev, x, fw) = AddrY(dev, x, TRUE)
      BY <2>0, <2>1 DEF AddrX
    <3>3. Located(dev, AddrY(dev, x, TRUE), l)
      BY <1>4, <3>1, YLocated
    <3> QED BY <3>2, <3>3
  <2>2. CASE ~(l[2] >= dev.size[2]) /\ l[2] < 0
    <3>1. OnSide(dev, l, 2, FALSE)
      BY <1>2, <1>3, <2>2 DEF OnSide
    <3>2. AddrX(dev, x, fw) = AddrY(dev, x, FALSE)
      BY <2>0, <2>2 DEF AddrX
    <3>3. Located(dev, AddrY(dev, x, FALSE), l)
      BY <1>4, <3>1, YLocated
    <3> QED BY <3>2, <3>3
  <2>3. CASE ~(l[2] >= dev.size[2]) /\ ~(l[2] < 0)
    <3>1. Inside(dev, l, 2)
      BY <1>2, <1>3, <2>3 DEF Inside
    <3>2. AddrX(dev, x, fw) = AddrInZ(dev, x)
      BY <2>0, <2>3 DEF AddrX
    <3>3. Located(dev, AddrInZ(dev, x), l)
      BY <1>4, <3>1, InZLocated
    <3> QED BY <3>2, <3>3
  <2> QED BY <2>1, <2>2, <2>3
<1>5. CASE ~Inside(dev, l, 1)
  <2>1. PICK u \in Int, v \in Int, w \in Int :
          /\ u = (IF fw THEN l[1] - dev.size[1] ELSE l[1] + dev.bw[1])
          /\ v = (IF dev.diag THEN l[2] + dev.bw[2] ELSE l[2])
          /\ w = (IF dev.diag THEN l[3] + dev.bw[3] ELSE l[3])
    BY <1>2, <1>3
  <2>2. PICK s : s = <<u, v, w>>
    OBVIOUS
  <2>3. s \in Vector /\ s[1] = u /\ s[2] = v /\ s[3] = w
    BY <2>2, Vectors
  <2>4. fw <=> l[1] >= 0
    BY <1>2, <1>3, <1>5 DEF Inside, OnSide
  <2>5. PICK a, b : /\ a = (IF fw THEN dev.fw[1] ELSE dev.bw[1])
                    /\ b = dev.size[2] + (IF dev.diag THEN dev.bw[2] + dev.fw[2] ELSE 0)
    OBVIOUS
  <2>6. AddrX(dev, x, fw) = InHalo(1, fw, CalcOffset3D(s, a, b))
    <3>1. ~(IF fw THEN l[1] < dev.size[1] ELSE l[1] >= 0)
      BY <1>2, <1>3, <1>5, <2>4 DEF Inside
    <3> QED BY <2>1, <2>2, <2>5, <3>1 DEF AddrX
  <2>7. \A e \in Axis \ {1} : s[e] = IF e > 1 /\ dev.diag THEN l[e] + dev.bw[e] ELSE l[e]
    BY <2>1, <2>3 DEF Axis
  <2>8. b = IF dev.diag THEN dev.size[2] + dev.fw[2] + dev.bw[2] ELSE dev.size[2]
    BY <1>2, <1>3, <2>5
  <2>9. AtHalo(dev, l, 1, fw, s, a, b)
    BY <1>1, <1>3, <2>1, <2>3, <2>5, <2>7, <2>8, HaloAtIs
  <2>10. \A e \in Axis : e < 1 => Inside(dev, l, e)
    BY DEF Axis
  <2>11. PICK A : A = AddrX(dev, x, fw)
    OBVIOUS
  <2> QED BY <1>1, <1>3, <1>5, <2>4, <2>6, <2>9, <2>10, <2>11, LocatedOutside
<1> QED BY <1>4, <1>5

\* The functions for index expressions in regular order, which the translator
\* chooses by the offset of the access and which only look where it can lead to,
\* find from every point of the part what the general one finds.
THEOREM RegularLocated ==
  ASSUME NEW dev, Descriptor3D(dev), NEW x \in Vector, NEW o \in Vector,
         \A d \in Axis : Inside(dev, Local(dev, x), d)
  PROVE  Located(dev, AddrRegular(dev, Plus(x, o), o), Local(dev, Plus(x, o)))
<1>1. PICK m \in Vector : m = Local(dev, x)
  BY LocalIs
<1>2. PICK y \in Vector : y = Plus(x, o)
  BY Vectors
<1>3. PICK l \in Vector : l = Local(dev, y)
  BY LocalIs
<1>4. /\ \A d \in Axis : m[d] \in Int /\ o[d] \in Int /\ l[d] \in Int /\ dev.size[d] \in Nat
      /\ \A d \in Axis : Inside(dev, m, d)
  BY <1>1, <1>3 DEF Descriptor3D, Shape, Vector, Extent
<1>5. \A d \in Axis : l[d] = m[d] + o[d]
  BY <1>1, <1>2, <1>3 DEF Local, Minus, Plus, Descriptor3D, Vector
<1>6. \A d \in Axis : o[d] = 0 => Inside(dev, l, d)
  BY <1>4, <1>5 DEF Inside
<1>7. \A d \in Axis : /\ o[d] > 0 => OnSide(dev, l, d, TRUE)
                      /\ ~(o[d] > 0) => OnSide(dev, l, d, FALSE)
  BY <1>4, <1>5 DEF Inside, OnSide
<1> DEFINE nonzero == {d \in Axis : o[d] # 0}
<1>8. CASE nonzero = {}
  <2>1. \A d \in Axis : Inside(dev, l, d)
    BY <1>6, <1>8
  <2>2. AddrRegular(dev, y, o) = InGrid(l)
    BY <1>3, <1>8 DEF AddrRegular, AddrNoHalo
  <2> QED BY <1>2, <1>3, <2>1, <2>2, LocatedInside
<1>9. ASSUME NEW d \in Axis, o[d] # 0, \A e \in Axis : e < d => o[e] = 0
      PROVE  nonzero # {} /\ Min(nonzero) = d
  <2>1. d \in nonzero /\ nonzero \in SUBSET Axis /\ \A e \in nonzero : d <= e
    BY <1>9 DEF Axis
  <2> HIDE DEF nonzero
  <2> QED BY <2>1, FirstAxis
<1>10. CASE o[1] # 0
  <2>1. nonzero # {} /\ Min(nonzero) = 1
    BY <1>9, <1>10 DEF Axis
  <2>2. AddrRegular(dev, y, o) = AddrX(dev, y, o[1] > 0)
    BY <2>1 DEF AddrRegular
  <2>3. CASE o[1] > 0
    <3>0. 1 \in Axis
      BY DEF Axis
    <3>1. (o[1] > 0) = TRUE
      BY <2>3
    <3>c. OnSide(dev, l, 1, TRUE)
      BY <1>7, <2>3, <3>0
    <3>2. Located(dev, AddrX(dev, y, TRUE), l)
      BY <1>3, <3>c, XLocated
    <3> QED BY <1>2, <1>3, <2>2, <3>1, <3>2
  <2>4. CASE ~(o[1] > 0)
    <3>0. 1 \in Axis
      BY DEF Axis
    <3>1. (o[1] > 0) = FALSE
      BY <2>4
    <3>c. OnSide(dev, l, 1, FALSE)
      BY <1>7, <2>4, <3>0
    <3>2. Located(dev, AddrX(dev, y, FALSE), l)
      BY <1>3, <3>c, XLocated
    <3> QED BY <1>2, <1>3, <2>2, <3>1, <3>2
  <2> QED BY <2>3, <2>4
<1>11. CASE o[1] = 0 /\ o[2] # 0
  <2>1. nonzero # {} /\ Min(nonzero) = 2
    BY <1>9, <1>11 DEF Axis
  <2>2. AddrRegular(dev, y, o) = AddrY(dev, y, o[2] > 0)
    BY <2>1 DEF AddrRegular
  <2>3. Inside(dev, l, 1)
    BY <1>6, <1>11 DEF Axis
  <2>4. CASE o[2] > 0
    <3>0. 2 \in Axis
      BY DEF Axis
    <3>1. (o[2] > 0) = TRUE
      BY <2>4
    <3>c. OnSide(dev, l, 2, TRUE)
      BY <1>7, <2>4, <3>0
    <3>2. Located(dev, AddrY(dev, y, TRUE), l)
      BY <1>3, <2>3, <3>c, YLocated
    <3> QED BY <1>2, <1>3, <2>2, <3>1, <3>2
  <2>5. CASE ~(o[2] > 0)
    <3>0. 2 \in Axis
      BY DEF Axis
    <3>1. (o[2] > 0) = FALSE
      BY <2>5
    <3>c. OnSide(dev, l, 2, FALSE)
      BY <1>7, <2>5, <3>0
    <3>2. Located(dev, AddrY(dev, y, FALSE), l)
      BY <1>3, <2>3, <3>c, YLocated
    <3> QED BY <1>2, <1>3, <2>2, <3>1, <3>2
  <2> QED BY <2>4, <2>5
<1>12. CASE o[1] = 0 /\ o[2] = 0 /\ o[3] # 0
  <2>1. nonzero # {} /\ Min(nonzero) = 3
    BY <1>9, <1>12 DEF Axis
  <2>2. AddrRegular(dev, y, o) = AddrZ(dev, y, o[3] > 0)
    BY <2>1 DEF AddrRegular
  <2>3. Inside(dev, l, 1) /\ Inside(dev, l, 2)
    BY <1>6, <1>12 DEF Axis
  <2>4. CASE o[3] > 0
    <3>0. 3 \in Axis
      BY DEF Axis
    <3>1. (o[3] > 0) = TRUE
      BY <2>4
    <3>c. OnSide(dev, l, 3, TRUE)
      BY <1>7, <2>4, <3>0
    <3>2. Located(dev, AddrZ(dev, y, TRUE), l)
      BY <1>3, <2>3, <3>c, ZLocated
    <3> QED BY <1>2, <1>3, <2>2, <3>1, <3>2
  <2>5. CASE ~(o[3] > 0)
    <3>0. 3 \in Axis
      BY DEF Axis
    <3>1. (o[3] > 0) = FALSE
      BY <2>5
    <3>c. OnSide(dev, l, 3, FALSE)
      BY <1>7, <2>5, <3>0
    <3>2. Located(dev, AddrZ(dev, y, FALSE), l)
      BY <1>3, <2>3, <3>c, ZLocated
    <3> QED BY <1>2, <1>3, <2>2, <3>1, <3>2
  <2> QED BY <2>4, <2>5
<1>13. CASE o[1] = 0 /\ o[2] = 0 /\ o[3] = 0
  <2>1. nonzero = {}
    BY <1>13 DEF Axis
  <2> QED BY <1>8, <2>1
<1> QED BY <1>10, <1>11, <1>12, <1>13

\* The address in a halo that the device code computes is one of its elements, and
\* that of the point asked for: what stands there is F at the point, if the halo
\* has been filled with F by an exchange of the same widths.
THEOREM HaloElement ==
  ASSUME NEW dev, Descriptor3D(dev), NEW l \in Vector, NEW d \in Axis, NEW fw \in BOOLEAN,
         NEW w, w = (IF fw THEN dev.fw[d] ELSE dev.bw[d]),
         IF fw THEN dev.size[d] <= l[d] /\ l[d] < dev.size[d] + w ELSE -w <= l[d] /\ l[d] < 0,
         \A e \in Axis \ {d} : IF e > d /\ dev.diag
                               THEN -dev.bw[e] <= l[e] /\ l[e] < dev.size[e] + dev.fw[e]
                               ELSE Inside(dev, l, e),
         NEW F, NEW halo,
         IsFill(halo, F, HaloStart(dev.size, dev.bw, d, w, fw, dev.diag),
                HaloExtent(dev.size, dev.bw, dev.fw, d, w, dev.diag))
  PROVE  \E i \in Nat : /\ HaloAt(dev, l, d, fw) = InHalo(d, fw, i)
                        /\ i + 1 \in DOMAIN halo /\ halo[i + 1] = F[l]
<1>1. Shape(dev.size, dev.bw, dev.fw) /\ dev.diag \in BOOLEAN
  BY DEF Descriptor3D
<1>2. dev.size \in Extent /\ dev.bw \in Extent /\ dev.fw \in Extent
  BY <1>1 DEF Shape
<1>3. w \in Nat
  BY <1>2 DEF Extent
<1>4. PICK b \in Vector : b = HaloStart(dev.size, dev.bw, d, w, fw, dev.diag)
  BY <1>1, <1>3, HaloTypes
<1>5. PICK t \in Extent : t = HaloExtent(dev.size, dev.bw, dev.fw, d, w, dev.diag)
  BY <1>1, <1>3, HaloTypes
<1>6. PICK m \in Vector : m = Minus(l, b)
  BY <1>4, Vectors
<1>7. ASSUME NEW e \in Axis PROVE 0 <= m[e] /\ m[e] < t[e]
  <2>1. /\ l[e] \in Int /\ dev.bw[e] \in Nat /\ dev.fw[e] \in Nat /\ dev.size[e] \in Nat
        /\ b[e] = (IF e = d THEN (IF fw THEN dev.size[e] ELSE -w)
                   ELSE IF dev.diag /\ e > d THEN -dev.bw[e] ELSE 0)
        /\ t[e] = (IF e = d THEN w
                   ELSE IF dev.diag /\ e > d THEN dev.size[e] + dev.fw[e] + dev.bw[e]
                   ELSE dev.size[e])
    BY <1>2, <1>4, <1>5 DEF HaloStart, HaloExtent, Vector, Extent
  <2>2. m[e] = l[e] - b[e]
    BY <1>6 DEF Minus
  <2>3. CASE e = d
    BY <1>3, <2>1, <2>2, <2>3
  <2>4. CASE e # d
    <3>1. IF e > d /\ dev.diag THEN -dev.bw[e] <= l[e] /\ l[e] < dev.size[e] + dev.fw[e]
          ELSE 0 <= l[e] /\ l[e] < dev.size[e]
      BY <2>4 DEF Inside
    <3> QED BY <1>1, <2>1, <2>2, <2>4, <3>1
  <2> QED BY <2>3, <2>4
<1>8. m \in Block(Origin, t)
  BY <1>7, BoxIs
<1>9. Plus(b, m) = l
  <2>1. \A e \in Axis : b[e] \in Int /\ l[e] \in Int /\ m[e] = l[e] - b[e]
    BY <1>4, <1>6 DEF Vector, Minus
  <2>2. \A e \in Axis : b[e] + m[e] = l[e]
    BY <2>1
  <2> QED BY <2>2 DEF Plus, Vector
<1>10. PICK i : i = CalcOffset3D(m, t[1], t[2])
  OBVIOUS
<1>11. i \in 0 .. Elements(t) - 1
  BY <1>8, <1>10, Position
<1>12. halo = Fill(F, b, t)
  BY <1>4, <1>5 DEF IsFill
<1>13. i + 1 \in DOMAIN halo /\ halo[i + 1] = F[l]
  <2>1. /\ CalcOffset3D(m, t[1], t[2]) + 1 \in DOMAIN Fill(F, b, t)
        /\ Element(Fill(F, b, t), t, m) = F[Plus(b, m)]
    BY <1>8, FillAt
  <2> QED BY <1>9, <1>10, <1>12, <2>1 DEF Element
<1>14. HaloAt(dev, l, d, fw) = InHalo(d, fw, i)
  BY <1>4, <1>5, <1>6, <1>10 DEF HaloAt
<1>15. i \in Nat
  BY <1>11, ElementsOf
<1> QED BY <1>13, <1>14, <1>15

-----------------------------------------------------------------------------
(* Domains.                                                                 *)

LEMMA Two ==
  ASSUME NEW a \in Int, NEW b \in Int
  PROVE  /\ Min({a, b}) \in Int /\ Min({a, b}) <= a /\ Min({a, b}) <= b
         /\ Min({a, b}) = a \/ Min({a, b}) = b
         /\ Max({a, b}) \in Int /\ Max({a, b}) >= a /\ Max({a, b}) >= b
         /\ Max({a, b}) = a \/ Max({a, b}) = b
<1>1. \E m \in {a, b} : \A n \in {a, b} : m <= n
  OBVIOUS
<1>2. \E m \in {a, b} : \A n \in {a, b} : m >= n
  OBVIOUS
<1>3. Min({a, b}) \in {a, b} /\ \A n \in {a, b} : Min({a, b}) <= n
  BY <1>1 DEF Min
<1>4. Max({a, b}) \in {a, b} /\ \A n \in {a, b} : Max({a, b}) >= n
  BY <1>2 DEF Max
<1> QED BY <1>3, <1>4

LEMMA LeastNatural ==
  ASSUME NEW T \in SUBSET Nat, T # {}
  PROVE  \E m \in T : \A n \in T : m <= n
<1>1. IsWellFoundedOn(OpToRel(<, Nat), Nat)
  BY NatLessThanWellFounded
<1>2. OpToRel(<, Nat) = {ss \in Nat \X Nat : ss[1] < ss[2]}
  BY DEF OpToRel
<1>3. PICK R : R = OpToRel(<, Nat)
  OBVIOUS
<1>4. R = {ss \in Nat \X Nat : ss[1] < ss[2]}
  BY <1>2, <1>3
<1>5. PICK m \in T : \A n \in T : ~(<<n, m>> \in R)
  BY <1>1, <1>3, WFMin
<1>6. ASSUME NEW n \in T PROVE m <= n
  <2>1. m \in Nat /\ n \in Nat
    OBVIOUS
  <2>2. PICK ss : ss = <<n, m>>
    OBVIOUS
  <2>3. ss \in Nat \X Nat /\ ss[1] = n /\ ss[2] = m
    BY <2>1, <2>2
  <2>4. ss \notin R
    BY <1>5, <2>2
  <2> QED BY ONLY <1>4, <2>1, <2>3, <2>4
<1> QED BY <1>6

\* Where slice i of n lines in f slices begins.
SliceStart(n, f, i) == (n \div f) * i + Min({i, n % f})

LEMMA Slices ==
  ASSUME NEW n \in Nat, NEW f \in Nat \ {0}
  PROVE  /\ SliceStart(n, f, 0) = 0 /\ SliceStart(n, f, f) = n
         /\ n \div f \in Nat /\ n % f \in Nat
         /\ \A i \in 0 .. f - 1 :
              /\ SliceStart(n, f, i) \in Nat /\ SliceStart(n, f, i + 1) <= n
              /\ SliceStart(n, f, i + 1)
                   = SliceStart(n, f, i) + n \div f + (IF i < n % f THEN 1 ELSE 0)
<1>1. PICK c \in Nat, r \in Nat : c = n \div f /\ r = n % f
  OBVIOUS
<1>2. n = c * f + r /\ r < f
  BY <1>1, Division
<1>3. ASSUME NEW i \in 0 .. f
      PROVE  SliceStart(n, f, i) = c * i + (IF i <= r THEN i ELSE r)
  <2>0. i \in Int /\ r \in Int
    OBVIOUS
  <2>1. Min({i, r}) = IF i <= r THEN i ELSE r
    <3>1. /\ Min({i, r}) \in Int /\ Min({i, r}) <= i /\ Min({i, r}) <= r
          /\ Min({i, r}) = i \/ Min({i, r}) = r
      BY <2>0, Two
    <3>2. PICK m : m = Min({i, r})
      OBVIOUS
    <3> QED BY <2>0, <3>1, <3>2
  <2> QED BY <1>1, <2>1 DEF SliceStart
<1>4. SliceStart(n, f, 0) = 0
  <2>1. c * 0 = 0
    BY <1>1
  <2> QED BY <1>1, <1>3, <2>1
<1>5. SliceStart(n, f, f) = n
  BY <1>2, <1>3
<1>6. ASSUME NEW i \in 0 .. f - 1
      PROVE  /\ SliceStart(n, f, i) \in Nat /\ SliceStart(n, f, i + 1) <= n
             /\ SliceStart(n, f, i + 1) = SliceStart(n, f, i) + c + (IF i < r THEN 1 ELSE 0)
  <2>1. i \in 0 .. f /\ i + 1 \in 0 .. f /\ i \in Nat
    OBVIOUS
  <2>2. PICK m \in Nat : m = f - (i + 1)
    OBVIOUS
  <2>3. c * (i + 1) = c * i + c /\ c * i \in Nat /\ c * m \in Nat
    BY <1>1, <2>1, <2>2
  <2>4. c * f = c * (i + 1) + c * m
    <3>1. f = (i + 1) + m
      BY <2>2
    <3> QED BY <1>1, <2>1, <2>2, <3>1
  <2>5. SliceStart(n, f, i) = c * i + (IF i <= r THEN i ELSE r)
    BY <1>3, <2>1
  <2>6. SliceStart(n, f, i + 1) = c * (i + 1) + (IF i + 1 <= r THEN i + 1 ELSE r)
    BY <1>3, <2>1
  <2>7. PICK a \in Nat, b \in Nat, z \in Int : a = c * i /\ b = c * m /\ z = c * (i + 1)
    BY <2>3
  <2>8. /\ z = a + c /\ n = z + b + r
        /\ SliceStart(n, f, i) = a + (IF i <= r THEN i ELSE r)
        /\ SliceStart(n, f, i + 1) = z + (IF i + 1 <= r THEN i + 1 ELSE r)
    BY <1>2, <2>3, <2>4, <2>5, <2>6, <2>7
  <2> QED BY ONLY c \in Nat, r \in Nat, i \in Nat, a \in Nat, b \in Nat, <2>8
<1> QED BY <1>1, <1>4, <1>5, <1>6

\* The slices cover the lines.
LEMMA SliceOf ==
  ASSUME NEW n \in Nat, NEW f \in Nat \ {0}, NEW t \in Nat, t < n
  PROVE  \E i \in 0 .. f - 1 : SliceStart(n, f, i) <= t /\ t < SliceStart(n, f, i + 1)
<1> DEFINE T == {i \in 0 .. f : t < SliceStart(n, f, i)}
<1>1. T \in SUBSET Nat /\ f \in T
  BY Slices
<1>2. PICK m \in T : \A k \in T : m <= k
  <2> HIDE DEF T
  <2> QED BY <1>1, LeastNatural
<1>3. m # 0
  <2>1. SliceStart(n, f, 0) = 0
    BY Slices
  <2> QED BY <1>2, <2>1
<1>4. m - 1 \in 0 .. f - 1 /\ (m - 1) + 1 = m
  BY <1>2, <1>3
<1>5. m - 1 \notin T
  BY <1>2, <1>4
<1>6. SliceStart(n, f, m - 1) <= t
  <2>1. SliceStart(n, f, m - 1) \in Nat
    BY <1>4, Slices
  <2> QED BY <1>4, <1>5, <2>1
<1> QED BY <1>2, <1>4, <1>6

IsDomain(L) == L.lo \in Vector /\ L.hi \in Vector
Within(L, x) == x \in Vector /\ \A e \in Axis : L.lo[e] <= x[e] /\ x[e] < L.hi[e]

\* A domain without points, or one that is nowhere narrower than the width.
Wide(L, width) ==
  L = Domain(Origin, Origin) \/ \A e \in Axis : L.lo[e] + width <= L.hi[e]

LEMMA Bounds ==
  ASSUME NEW L, IsDomain(L)
  PROVE  /\ \A x : x \in Block(L.lo, L.hi) <=> Within(L, x)
         /\ \A e \in Axis : L.lo[e] \in Int /\ L.hi[e] \in Int
         /\ \A x : Within(L, x) => x \in Vector /\ \A e \in Axis : x[e] \in Int
<1>1. L.lo \in Vector /\ L.hi \in Vector
  BY DEF IsDomain
<1>2. \A x : x \in Block(L.lo, L.hi) <=> Within(L, x)
  BY <1>1, BlockIs DEF Within
<1> QED BY <1>1, <1>2 DEF Within, Vector

\* What __PSDomainSetLocalSize makes of a domain for a process is what the domain
\* and the part of the process share.
THEOREM LocalDomainIs ==
  ASSUME NEW lo \in Vector, NEW hi \in Vector, NEW offset \in Vector, NEW size \in Extent,
         NEW L, L = LocalDomain(Domain(lo, hi), offset, size)
  PROVE  /\ IsDomain(L)
         /\ \A x \in Vector :
              Within(L, x) <=> \A e \in Axis : /\ lo[e] <= x[e] /\ x[e] < hi[e]
                                               /\ offset[e] <= x[e] /\ x[e] < offset[e] + size[e]
<1> DEFINE l == [e \in Axis |-> Max({offset[e], lo[e]})]
           h == [e \in Axis |-> Min({offset[e] + size[e], hi[e]})]
<1>1. \A e \in Axis : /\ lo[e] \in Int /\ hi[e] \in Int /\ offset[e] \in Int
                      /\ offset[e] + size[e] \in Int
  BY DEF Vector, Extent
<1>2. ASSUME NEW e \in Axis
      PROVE  /\ l[e] \in Int /\ l[e] >= offset[e] /\ l[e] >= lo[e]
             /\ l[e] = offset[e] \/ l[e] = lo[e]
             /\ h[e] \in Int /\ h[e] <= offset[e] + size[e] /\ h[e] <= hi[e]
             /\ h[e] = offset[e] + size[e] \/ h[e] = hi[e]
  <2>1. PICK a \in Int, b \in Int, c \in Int, d \in Int :
          a = offset[e] /\ b = lo[e] /\ c = offset[e] + size[e] /\ d = hi[e]
    BY <1>1
  <2>2. l[e] = Max({a, b}) /\ h[e] = Min({c, d})
    BY <2>1
  <2> HIDE DEF l, h
  <2>3. /\ Max({a, b}) \in Int /\ Max({a, b}) >= a /\ Max({a, b}) >= b
        /\ Max({a, b}) = a \/ Max({a, b}) = b
    BY Two
  <2>4. /\ Min({c, d}) \in Int /\ Min({c, d}) <= c /\ Min({c, d}) <= d
        /\ Min({c, d}) = c \/ Min({c, d}) = d
    BY Two
  <2> QED BY <2>1, <2>2, <2>3, <2>4
<1>3. l \in Vector /\ h \in Vector
  <2>1. \A e \in Axis : l[e] \in Int /\ h[e] \in Int
    BY <1>2
  <2> QED BY <2>1 DEF Vector
<1>4. L = IF \A e \in Axis : l[e] < h[e] THEN Domain(l, h) ELSE Domain(Origin, Origin)
  BY DEF LocalDomain, Domain
<1> HIDE DEF l, h
<1>5. IsDomain(L)
  BY <1>3, <1>4, Vectors DEF IsDomain, Domain
<1>6. ASSUME NEW x \in Vector
      PROVE  Within(L, x) <=> \A e \in Axis : /\ lo[e] <= x[e] /\ x[e] < hi[e]
                                              /\ offset[e] <= x[e] /\ x[e] < offset[e] + size[e]
  <2>1. \A e \in Axis : x[e] \in Int
    BY DEF Vector
  <2>2. (\A e \in Axis : /\ lo[e] <= x[e] /\ x[e] < hi[e]
                         /\ offset[e] <= x[e] /\ x[e] < offset[e] + size[e])
          <=> \A e \in Axis : l[e] <= x[e] /\ x[e] < h[e]
    <3>1. ASSUME NEW e \in Axis
          PROVE  (/\ lo[e] <= x[e] /\ x[e] < hi[e] /\ offset[e] <= x[e] /\ x[e] < offset[e] + size[e])
                   <=> l[e] <= x[e] /\ x[e] < h[e]
      BY <1>1, <1>2, <2>1
    <3> QED BY <3>1
  <2>3. CASE \A e \in Axis : l[e] < h[e]
    BY <1>4, <2>2, <2>3 DEF Within, Domain
  <2>4. CASE ~\A e \in Axis : l[e] < h[e]
    <3>1. ~Within(L, x)
      <4>1. L.lo[1] = 0 /\ L.hi[1] = 0 /\ 1 \in Axis
        BY <1>4, <2>4 DEF Domain, Origin, Axis
      <4> QED BY <2>1, <4>1 DEF Within
    <3>2. ~\A e \in Axis : l[e] <= x[e] /\ x[e] < h[e]
      BY <1>2, <2>1, <2>4
    <3> QED BY <2>2, <3>1, <3>2
  <2> QED BY <2>3, <2>4
<1> QED BY <1>5, <1>6

\* The interior is a part of the domain, away from its faces.
LEMMA InnerPoints ==
  ASSUME NEW L, IsDomain(L), NEW width \in Nat, NEW x
  PROVE  x \in RunKernelPoints(DomainShrink(L, width))
           <=> x \in Vector /\ \A e \in Axis : L.lo[e] + width <= x[e] /\ x[e] < L.hi[e] - width
<1>1. \A e \in Axis : L.lo[e] \in Int /\ L.hi[e] \in Int
  BY Bounds
<1>2. PICK S : S = DomainShrink(L, width)
  OBVIOUS
<1>3. /\ IsDomain(S)
      /\ \A e \in Axis : S.lo[e] = L.lo[e] + width /\ S.hi[e] = L.hi[e] - width
  BY <1>1, <1>2 DEF DomainShrink, Domain, IsDomain, Vector
<1>4. x \in Block(S.lo, S.hi) <=> Within(S, x)
  BY <1>3, Bounds
<1> QED BY <1>2, <1>3, <1>4 DEF RunKernelPoints, Within

\* The generated kernel for the boundary goes through the points of the domain
\* that the one for the interior leaves out, and through no others, unless the
\* domain is narrower than the boundary.
THEOREM BoundaryPoints ==
  ASSUME NEW L, IsDomain(L), NEW width \in Nat, Wide(L, width), NEW x
  PROVE  x \in RunBoundaryPoints(L, width)
           <=> /\ Within(L, x)
               /\ ~\A e \in Axis : L.lo[e] + width <= x[e] /\ x[e] < L.hi[e] - width
<1>1. \A e \in Axis : L.lo[e] \in Int /\ L.hi[e] \in Int
  BY Bounds
<1>2. 1 \in Axis /\ 2 \in Axis /\ 3 \in Axis
  BY DEF Axis
<1> DEFINE z(first, last) == Block([L.lo EXCEPT ![3] = first], [L.hi EXCEPT ![3] = last])
<1>3. ASSUME NEW first \in Int, NEW last \in Int, NEW y
      PROVE  y \in z(first, last)
               <=> /\ y \in Vector /\ L.lo[1] <= y[1] /\ y[1] < L.hi[1]
                   /\ L.lo[2] <= y[2] /\ y[2] < L.hi[2] /\ first <= y[3] /\ y[3] < last
  <2>1. PICK a, b : a = [L.lo EXCEPT ![3] = first] /\ b = [L.hi EXCEPT ![3] = last]
    OBVIOUS
  <2>2. /\ a \in Vector /\ b \in Vector
        /\ a[1] = L.lo[1] /\ a[2] = L.lo[2] /\ a[3] = first
        /\ b[1] = L.hi[1] /\ b[2] = L.hi[2] /\ b[3] = last
    BY <1>2, <2>1 DEF IsDomain, Vector
  <2>3. y \in Block(a, b) <=> y \in Vector /\ \A e \in Axis : a[e] <= y[e] /\ y[e] < b[e]
    BY <2>2, BlockIs
  <2>4. (\A e \in Axis : a[e] <= y[e] /\ y[e] < b[e])
          <=> /\ L.lo[1] <= y[1] /\ y[1] < L.hi[1] /\ L.lo[2] <= y[2] /\ y[2] < L.hi[2]
              /\ first <= y[3] /\ y[3] < last
    BY <2>2 DEF Axis
  <2> QED BY <2>1, <2>3, <2>4
<1>4. L.lo[3] + width \in Int /\ L.hi[3] - width \in Int /\ L.lo[3] \in Int /\ L.hi[3] \in Int
  BY <1>1, <1>2
<1>5. x \in RunBoundaryPoints(L, width)
        <=> \/ x \in z(L.lo[3], L.lo[3] + width)
            \/ x \in z(L.lo[3] + width, L.hi[3] - width) /\ NearEdge(L, width, x)
            \/ x \in z(L.hi[3] - width, L.hi[3])
  BY DEF RunBoundaryPoints
<1> HIDE DEF z
<1>6. NearEdge(L, width, x)
        <=> \/ x[1] < L.lo[1] + width \/ x[1] >= L.hi[1] - width
            \/ x[2] < L.lo[2] + width \/ x[2] >= L.hi[2] - width
  BY DEF NearEdge
<1>7. Within(L, x) <=> /\ x \in Vector
                       /\ L.lo[1] <= x[1] /\ x[1] < L.hi[1] /\ L.lo[2] <= x[2] /\ x[2] < L.hi[2]
                       /\ L.lo[3] <= x[3] /\ x[3] < L.hi[3]
  BY DEF Within, Axis
<1>8. (\A e \in Axis : L.lo[e] + width <= x[e] /\ x[e] < L.hi[e] - width)
        <=> /\ L.lo[1] + width <= x[1] /\ x[1] < L.hi[1] - width
            /\ L.lo[2] + width <= x[2] /\ x[2] < L.hi[2] - width
            /\ L.lo[3] + width <= x[3] /\ x[3] < L.hi[3] - width
  BY DEF Axis
<1>9. CASE x \notin Vector
  BY <1>3, <1>4, <1>5, <1>7, <1>9
<1>10. CASE x \in Vector
  <2>1. x[1] \in Int /\ x[2] \in Int /\ x[3] \in Int
    BY <1>2, <1>10 DEF Vector
  <2>2. /\ L.lo[1] \in Int /\ L.hi[1] \in Int /\ L.lo[2] \in Int /\ L.hi[2] \in Int
    BY <1>1, <1>2
  <2>3. \/ L.lo[1] = 0 /\ L.hi[1] = 0
        \/ L.lo[3] + width <= L.hi[3]
    BY <1>2 DEF Wide, Domain, Origin
  <2>4. /\ x \in z(L.lo[3], L.lo[3] + width)
             <=> /\ L.lo[1] <= x[1] /\ x[1] < L.hi[1] /\ L.lo[2] <= x[2] /\ x[2] < L.hi[2]
                 /\ L.lo[3] <= x[3] /\ x[3] < L.lo[3] + width
        /\ x \in z(L.lo[3] + width, L.hi[3] - width)
             <=> /\ L.lo[1] <= x[1] /\ x[1] < L.hi[1] /\ L.lo[2] <= x[2] /\ x[2] < L.hi[2]
                 /\ L.lo[3] + width <= x[3] /\ x[3] < L.hi[3] - width
        /\ x \in z(L.hi[3] - width, L.hi[3])
             <=> /\ L.lo[1] <= x[1] /\ x[1] < L.hi[1] /\ L.lo[2] <= x[2] /\ x[2] < L.hi[2]
                 /\ L.hi[3] - width <= x[3] /\ x[3] < L.hi[3]
    BY <1>3, <1>4, <1>10
  <2> QED BY <1>4, <1>5, <1>6, <1>7, <1>8, <1>10, <2>1, <2>2, <2>3, <2>4
<1> QED BY <1>9, <1>10

\* In the face of dimension d, on the right or on the left.
AtFace(L, d, right, width, x) ==
  IF right THEN x[d] >= L.hi[d] - width ELSE x[d] < L.lo[d] + width

\* What a slice of a face consists of.
LEMMA SliceIs ==
  ASSUME NEW L, IsDomain(L), NEW width \in Nat, Wide(L, width), NEW d \in Axis,
         NEW right \in BOOLEAN, NEW f \in Nat \ {0}, d # 3 \/ f = 1, NEW i \in 0 .. f - 1, NEW x
  PROVE  x \in RunKernelPoints(DomainGetBoundary(L, d, right, width, f, i))
           <=> /\ Within(L, x) /\ AtFace(L, d, right, width, x)
               /\ f # 1 => /\ SliceStart(L.hi[3] - L.lo[3], f, i) <= x[3] - L.lo[3]
                           /\ x[3] - L.lo[3] < SliceStart(L.hi[3] - L.lo[3], f, i + 1)
<1>1. \A e \in Axis : L.lo[e] \in Int /\ L.hi[e] \in Int
  BY Bounds
<1>2. 1 \in Axis /\ 2 \in Axis /\ 3 \in Axis
  BY DEF Axis
<1>3. CASE L.lo[d] = 0 /\ L.hi[d] = 0
  <2>1. ~Within(L, x)
    BY <1>3 DEF Within, Vector
  <2>2. DomainGetBoundary(L, d, right, width, f, i) = L
    BY <1>3 DEF DomainGetBoundary
  <2> QED BY <2>1, <2>2, Bounds DEF RunKernelPoints
<1>4. CASE ~(L.lo[d] = 0 /\ L.hi[d] = 0)
  <2>0. \A e \in Axis : L.lo[e] + width <= L.hi[e]
    <3>1. L # Domain(Origin, Origin)
      BY <1>4 DEF Domain, Origin
    <3> QED BY <3>1 DEF Wide
  <2>1. PICK a : a = IF right THEN [L.lo EXCEPT ![d] = L.hi[d] - width] ELSE L.lo
    OBVIOUS
  <2>2. PICK b : b = IF right THEN L.hi ELSE [L.hi EXCEPT ![d] = L.lo[d] + width]
    OBVIOUS
  <2>3. /\ a \in Vector /\ b \in Vector
        /\ a[d] = (IF right THEN L.hi[d] - width ELSE L.lo[d])
        /\ b[d] = (IF right THEN L.hi[d] ELSE L.lo[d] + width)
        /\ \A e \in Axis \ {d} : a[e] = L.lo[e] /\ b[e] = L.hi[e]
    BY <1>1, <2>1, <2>2 DEF IsDomain, Vector
  <2>4. (x \in Vector /\ \A e \in Axis : a[e] <= x[e] /\ x[e] < b[e])
          <=> Within(L, x) /\ AtFace(L, d, right, width, x)
    <3>1. SUFFICES ASSUME x \in Vector
                   PROVE  (\A e \in Axis : a[e] <= x[e] /\ x[e] < b[e])
                            <=> /\ \A e \in Axis : L.lo[e] <= x[e] /\ x[e] < L.hi[e]
                                /\ AtFace(L, d, right, width, x)
      BY DEF Within
    <3>2. \A e \in Axis : x[e] \in Int
      BY <3>1 DEF Vector
    <3>3. (a[d] <= x[d] /\ x[d] < b[d])
            <=> L.lo[d] <= x[d] /\ x[d] < L.hi[d] /\ AtFace(L, d, right, width, x)
      BY <1>1, <2>0, <2>3, <3>2 DEF AtFace
    <3> QED BY <2>3, <3>3
  <2>5. CASE f = 1
    <3>1. DomainGetBoundary(L, d, right, width, f, i) = Domain(a, b)
      BY <1>4, <2>1, <2>2, <2>5 DEF DomainGetBoundary
    <3>2. x \in Block(a, b) <=> x \in Vector /\ \A e \in Axis : a[e] <= x[e] /\ x[e] < b[e]
      BY <2>3, BlockIs
    <3> QED BY <2>4, <2>5, <3>1, <3>2 DEF RunKernelPoints, Domain
  <2>6. CASE f # 1
    <3>1. d # 3 /\ a[3] = L.lo[3] /\ b[3] = L.hi[3]
      BY <1>2, <2>3, <2>6
    <3>2. PICK n \in Nat : n = L.hi[3] - L.lo[3]
      BY <1>1, <1>2, <2>0
    <3>3. /\ SliceStart(n, f, i) \in Nat /\ SliceStart(n, f, i + 1) <= n
          /\ n \div f \in Nat /\ n % f \in Nat
          /\ SliceStart(n, f, i + 1) = SliceStart(n, f, i) + n \div f + (IF i < n % f THEN 1 ELSE 0)
      BY Slices
    <3>4. PICK s \in Nat : s = SliceStart(n, f, i)
      BY <3>3
    <3>5. PICK t \in Int : t = s + n \div f + (IF i < n % f THEN 1 ELSE 0)
      BY <3>3
    <3>6. t = SliceStart(n, f, i + 1) /\ t <= n
      BY <3>3, <3>4, <3>5
    <3>7. PICK u \in Int, v \in Int : u = L.lo[3] + s /\ v = L.lo[3] + t
      BY <1>1, <1>2
    <3>8. DomainGetBoundary(L, d, right, width, f, i)
            = Domain([a EXCEPT ![3] = u], [b EXCEPT ![3] = v])
      <4>1. PICK m : m = Min({i, n % f})
        OBVIOUS
      <4>2. m \in Int
        <5>1. i \in Int /\ n % f \in Int
          BY <3>3
        <5> QED BY <4>1, <5>1, Two
      <4>3. PICK k \in Int : k = (n \div f) * i
        BY <3>3
      <4>4. s = k + m
        BY <3>4, <4>1, <4>3 DEF SliceStart
      <4>5. a[3] + k + m = u
        BY <1>1, <1>2, <3>1, <3>7, <4>2, <4>4
      <4>6. u + n \div f + (IF i < n % f THEN 1 ELSE 0) = v
        BY <1>1, <1>2, <3>3, <3>5, <3>7
      <4>7. DomainGetBoundary(L, d, right, width, f, i)
              = Domain([a EXCEPT ![3] = a[3] + (n \div f) * i + Min({i, n % f})],
                       [b EXCEPT ![3] = a[3] + (n \div f) * i + Min({i, n % f}) + n \div f
                                          + (IF i < n % f THEN 1 ELSE 0)])
        BY <1>4, <2>1, <2>2, <2>6, <3>2 DEF DomainGetBoundary
      <4> QED BY <4>1, <4>3, <4>5, <4>6, <4>7
    <3>9. PICK g, h : g = [a EXCEPT ![3] = u] /\ h = [b EXCEPT ![3] = v]
      OBVIOUS
    <3>10. /\ g \in Vector /\ h \in Vector /\ g[3] = u /\ h[3] = v
           /\ \A e \in Axis \ {3} : g[e] = a[e] /\ h[e] = b[e]
      BY <1>2, <2>3, <3>9 DEF Vector
    <3>11. x \in Block(g, h) <=> x \in Vector /\ \A e \in Axis : g[e] <= x[e] /\ x[e] < h[e]
      BY <3>10, BlockIs
    <3>12. (x \in Vector /\ \A e \in Axis : g[e] <= x[e] /\ x[e] < h[e])
             <=> /\ x \in Vector /\ \A e \in Axis : a[e] <= x[e] /\ x[e] < b[e]
                 /\ s <= x[3] - L.lo[3] /\ x[3] - L.lo[3] < t
      <4>1. SUFFICES ASSUME x \in Vector
                     PROVE  (\A e \in Axis : g[e] <= x[e] /\ x[e] < h[e])
                              <=> /\ \A e \in Axis : a[e] <= x[e] /\ x[e] < b[e]
                                  /\ s <= x[3] - L.lo[3] /\ x[3] - L.lo[3] < t
        OBVIOUS
      <4>2. x[3] \in Int /\ L.lo[3] \in Int /\ L.hi[3] \in Int
        BY <1>1, <1>2, <4>1 DEF Vector
      <4>3. (g[3] <= x[3] /\ x[3] < h[3])
              <=> /\ a[3] <= x[3] /\ x[3] < b[3]
                  /\ s <= x[3] - L.lo[3] /\ x[3] - L.lo[3] < t
        BY <3>1, <3>2, <3>6, <3>7, <3>10, <4>2
      <4> QED BY <1>2, <3>10, <4>3
    <3>13. x \in Block(g, h) <=> /\ Within(L, x) /\ AtFace(L, d, right, width, x)
                                 /\ s <= x[3] - L.lo[3] /\ x[3] - L.lo[3] < t
      BY <2>4, <3>11, <3>12
    <3>14. RunKernelPoints(DomainGetBoundary(L, d, right, width, f, i)) = Block(g, h)
      BY <3>8, <3>9 DEF RunKernelPoints, Domain
    <3> QED BY <2>6, <3>2, <3>4, <3>6, <3>13, <3>14
  <2> QED BY <2>5, <2>6
<1> QED BY <1>3, <1>4

\* The slices that __PSDomainGetBoundary cuts a face into, one for each stream,
\* leave no point of it out, whatever the number of slices.
THEOREM FaceCovered ==
  ASSUME NEW L, IsDomain(L), NEW width \in Nat, Wide(L, width), NEW d \in Axis,
         NEW right \in BOOLEAN, NEW f \in Nat \ {0}, d # 3 \/ f = 1,
         NEW x, Within(L, x), AtFace(L, d, right, width, x)
  PROVE  \E i \in 0 .. f - 1 : x \in RunKernelPoints(DomainGetBoundary(L, d, right, width, f, i))
<1>1. /\ x[3] \in Int /\ L.lo[3] \in Int /\ L.hi[3] \in Int
      /\ L.lo[3] <= x[3] /\ x[3] < L.hi[3]
  <2>1. 3 \in Axis
    BY DEF Axis
  <2> QED BY <2>1, Bounds DEF Within
<1>2. PICK n \in Nat, t \in Nat : n = L.hi[3] - L.lo[3] /\ t = x[3] - L.lo[3]
  BY <1>1
<1>3. t < n
  BY <1>1, <1>2
<1>4. PICK i \in 0 .. f - 1 : SliceStart(n, f, i) <= t /\ t < SliceStart(n, f, i + 1)
  BY <1>3, SliceOf
<1> QED BY <1>2, <1>4, SliceIs
=============================================================================
