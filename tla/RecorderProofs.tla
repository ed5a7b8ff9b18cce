--------------------------- MODULE RecorderProofs ---------------------------
(***************************************************************************)
(* Theorems about Recorder: the storage budget of mmx_replay.c holds for     *)
(* every number of segments, frames per segment and size of images, whatever *)
(* the host and the writer do.  Before it, sums over the ring and over the   *)
(* files; after it, what a queue of commands promises.  Both are what        *)
(* RecorderArchiveProofs rests on.                                           *)
(*                                                                           *)
(* The code keeps history_bytes as one number and the bytes per segment in a *)
(* ring indexed by segment % SEGMENTS.  The argument is a telescope: there   *)
(* is a function B, the bytes of all segments older than s, that climbs from *)
(* 0 at the oldest segment to history_bytes above the newest one in steps    *)
(* that are the ring's entries.                                              *)
(***************************************************************************)
EXTENDS Recorder, TLAPS, SequenceTheorems, FiniteSetTheorems

-----------------------------------------------------------------------------
(*****************************************************************************)
(* Sums.  MapThenSumSet adds the numbers of a finite set one by one: the sums*)
(* over all subsets (Sums) are unique, and any number can be the last one.   *)
(*****************************************************************************)
\* Numbers have a least one.
LEMMA LeastNumber ==
  ASSUME NEW T, T \subseteq Nat, T # {}
  PROVE  \E x \in T : \A y \in T : x <= y
<1> DEFINE below == {0..x : x \in T}
<1>1. below # {} /\ below \subseteq FiniteSubsetsOf(Nat)
  <2>1. ASSUME NEW x \in T PROVE 0..x \in FiniteSubsetsOf(Nat)
    <3>1. 0 \in Int /\ x \in Int /\ 0..x \in SUBSET Nat
      OBVIOUS
    <3> QED
      BY <3>1, FS_Interval DEF FiniteSubsetsOf
  <2> QED
    BY <2>1
<1>2. PICK least \in below :
        \A s \in below : ~(<<s, least>> \in StrictSubsetOrdering(Nat))
  BY <1>1, FS_StrictSubsetOrderingWellFounded, WFMin
<1>3. PICK x \in T : least = 0..x
  BY <1>2
<1>4. ASSUME NEW y \in T PROVE x <= y
  <2>1. ~(<<0..y, 0..x>> \in StrictSubsetOrdering(Nat))
    BY <1>2, <1>3
  <2>2. x \in Nat /\ y \in Nat
    OBVIOUS
  <2>3. y < x => 0..y \subseteq 0..x /\ x \in 0..x /\ x \notin 0..y
    BY <2>2
  <2>4. 0..y \in SUBSET Nat /\ 0..x \in SUBSET Nat
    OBVIOUS
  <2> QED
    BY <2>1, <2>2, <2>3, <2>4 DEF StrictSubsetOrdering
<1> QED
  BY <1>4

\* h holds the sums of f over the subsets of S, as MapThenSumSet computes them.
Sums(h, f, S) ==
  h = [s \in SUBSET S |->
         IF s = {} THEN 0 ELSE LET x == CHOOSE x \in s : TRUE IN f[x] + h[s \ {x}]]

\* Subsets of a finite set shrink by one with each element taken out.
LEMMA OneLess ==
  ASSUME NEW S, IsFiniteSet(S), NEW X \in SUBSET S, NEW x \in X
  PROVE  /\ X \ {x} \in SUBSET S /\ IsFiniteSet(X)
         /\ Cardinality(X) \in Nat /\ Cardinality(X \ {x}) \in Nat
         /\ Cardinality(X \ {x}) < Cardinality(X)
<1>1. IsFiniteSet(X) /\ X \ {x} \in SUBSET S
  BY FS_Subset
<1>2. Cardinality(X) \in Nat /\ IsFiniteSet(X \ {x})
  BY <1>1, FS_CardinalityType, FS_RemoveElement
<1>3. Cardinality(X \ {x}) = Cardinality(X) - 1 /\ Cardinality(X \ {x}) \in Nat
  BY <1>1, <1>2, FS_RemoveElement, FS_CardinalityType
<1> QED
  BY <1>1, <1>2, <1>3

\* The element that is added first.
Some(s) == CHOOSE x \in s : TRUE

\* What a sum is made of.
LEMMA SumParts ==
  ASSUME NEW S, NEW f, NEW h, Sums(h, f, S)
  PROVE  /\ h[{}] = 0
         /\ \A X \in SUBSET S : X # {} =>
              Some(X) \in X /\ h[X] = f[Some(X)] + h[X \ {Some(X)}]
<1>1. h[{}] = 0
  BY DEF Sums
<1>2. ASSUME NEW X \in SUBSET S, X # {}
      PROVE  Some(X) \in X /\ h[X] = f[Some(X)] + h[X \ {Some(X)}]
  <2>1. Some(X) \in X
    BY <1>2 DEF Some
  <2>2. h[X] = f[Some(X)] + h[X \ {Some(X)}]
    BY <1>2, <2>1 DEF Sums, Some
  <2> QED
    BY <2>1, <2>2
<1> QED
  BY <1>1, <1>2

\* The sums exist.
LEMMA SumsExist ==
  ASSUME NEW S, IsFiniteSet(S), NEW f \in [S -> Nat]
  PROVE  \E h : Sums(h, f, S) /\ h \in [SUBSET S -> Nat]
<1> DEFINE Rest(h, s) == LET x == CHOOSE x \in s : TRUE IN f[x] + h[s \ {x}]
           Good(h, n) == /\ h \in [SUBSET S -> Nat]
                         /\ \A s \in SUBSET S : Cardinality(s) <= n =>
                              h[s] = IF s = {} THEN 0 ELSE Rest(h, s)
           T == {n \in Nat : ~\E h : Good(h, n)}
<1>1. IsFiniteSet({}) /\ Cardinality({}) = 0
  BY FS_EmptySet
<1>2. \A s \in SUBSET S : IsFiniteSet(s) /\ Cardinality(s) \in Nat /\ Cardinality(s) <= Cardinality(S)
  BY FS_Subset, FS_CardinalityType
<1>3. \A s \in SUBSET S : s # {} => (CHOOSE x \in s : TRUE) \in s
  OBVIOUS
<1>4. \E h : Good(h, 0)
  <2> DEFINE h == [s \in SUBSET S |-> 0]
  <2>1. \A s \in SUBSET S : Cardinality(s) <= 0 => s = {}
    BY <1>2, FS_EmptySet
  <2>2. Good(h, 0)
    BY <2>1
  <2> QED
    BY <2>2
<1>5. ASSUME NEW n \in Nat, NEW g, Good(g, n) PROVE \E h : Good(h, n + 1)
  <2> DEFINE h == [s \in SUBSET S |-> IF s = {} THEN 0 ELSE Rest(g, s)]
  <2>1. \A s \in SUBSET S : s # {} => Rest(g, s) \in Nat
    <3> SUFFICES ASSUME NEW s \in SUBSET S, s # {} PROVE Rest(g, s) \in Nat
      OBVIOUS
    <3>1. PICK x \in s : x = CHOOSE y \in s : TRUE
      OBVIOUS
    <3>2. f[x] \in Nat /\ g[s \ {x}] \in Nat
      BY <1>5
    <3> QED
      BY <3>1, <3>2
  <2>2. h \in [SUBSET S -> Nat]
    BY <2>1
  <2>3. ASSUME NEW s \in SUBSET S, Cardinality(s) <= n PROVE h[s] = g[s]
    BY <1>5, <2>3
  <2>4. ASSUME NEW s \in SUBSET S, Cardinality(s) <= n + 1, s # {} PROVE h[s] = Rest(h, s)
    <3>1. PICK x \in s : x = CHOOSE y \in s : TRUE
      BY <2>4
    <3>2. s \ {x} \in SUBSET S /\ Cardinality(s \ {x}) <= n
      BY <2>4, OneLess
    <3>3. h[s \ {x}] = g[s \ {x}]
      BY <2>3, <3>2
    <3>4. h[s] = f[x] + g[s \ {x}]
      BY <2>4, <3>1
    <3> HIDE DEF h
    <3> QED
      BY <3>1, <3>3, <3>4
  <2>5. h[{}] = 0
    OBVIOUS
  <2> HIDE DEF h, Rest
  <2>6. Good(h, n + 1)
    BY <2>2, <2>4, <2>5
  <2> QED
    BY <2>6
<1>6. T = {}
  <2> SUFFICES ASSUME T # {} PROVE FALSE
    OBVIOUS
  <2>1. T \subseteq Nat
    OBVIOUS
  <2> HIDE DEF T
  <2>2. PICK n \in T : \A m \in T : n <= m
    BY <2>1, LeastNumber
  <2> USE DEF T
  <2>3. n \in Nat /\ ~\E h : Good(h, n)
    OBVIOUS
  <2> HIDE DEF Good
  <2>4. n # 0 /\ n - 1 \in Nat /\ n = (n - 1) + 1
    BY <1>4, <2>3
  <2>5. n - 1 \notin T
    BY <2>2, <2>4
  <2>6. PICK g : Good(g, n - 1)
    BY <2>4, <2>5
  <2>7. \E h : Good(h, (n - 1) + 1)
    BY <1>5, <2>4, <2>6
  <2> QED
    BY <2>3, <2>4, <2>7
<1>7. Cardinality(S) \in Nat
  BY FS_CardinalityType
<1> HIDE DEF Good
<1>8. PICK h : Good(h, Cardinality(S))
  BY <1>6, <1>7
<1> USE DEF Good
<1>9. \A s \in SUBSET S : h[s] = IF s = {} THEN 0 ELSE Rest(h, s)
  BY <1>2, <1>8
<1>10. h = [s \in SUBSET S |-> IF s = {} THEN 0 ELSE Rest(h, s)]
  <2> HIDE DEF Rest
  <2> QED
    BY <1>8, <1>9
<1> QED
  BY <1>8, <1>10 DEF Sums

\* Sums over a set depend on the numbers in it only.
LEMMA SumsAgree ==
  ASSUME NEW S, IsFiniteSet(S), NEW f, NEW h, Sums(h, f, S),
         NEW R, NEW g, NEW k, Sums(k, g, R),
         NEW X, X \subseteq S, X \subseteq R, \A x \in X : f[x] = g[x]
  PROVE  h[X] = k[X]
<1> DEFINE Bad == {Y \in SUBSET X : h[Y] # k[Y]}
           T == {Cardinality(Y) : Y \in Bad}
<1>1. \A Y \in SUBSET X : IsFiniteSet(Y) /\ Cardinality(Y) \in Nat
  BY FS_Subset, FS_CardinalityType
<1>2. T = {}
  <2> SUFFICES ASSUME T # {} PROVE FALSE
    OBVIOUS
  <2>1. T \subseteq Nat
    BY <1>1
  <2> HIDE DEF T
  <2>2. PICK n \in T : \A m \in T : n <= m
    BY <2>1, LeastNumber
  <2> USE DEF T
  <2>3. PICK Y \in Bad : n = Cardinality(Y)
    OBVIOUS
  <2>4. Y # {}
    BY <2>3, SumParts
  <2>5. Y \in SUBSET S /\ Y \in SUBSET R
    OBVIOUS
  <2>6. PICK x \in Y : h[Y] = f[x] + h[Y \ {x}] /\ k[Y] = g[x] + k[Y \ {x}]
    <3>1. \A W \in SUBSET S : W # {} =>
            Some(W) \in W /\ h[W] = f[Some(W)] + h[W \ {Some(W)}]
      BY SumParts
    <3>2. \A W \in SUBSET R : W # {} =>
            Some(W) \in W /\ k[W] = g[Some(W)] + k[W \ {Some(W)}]
      BY SumParts
    <3> HIDE DEF Bad, T
    <3> QED
      BY <2>4, <2>5, <3>1, <3>2
  <2>8. Cardinality(Y \ {x}) < Cardinality(Y) /\ Cardinality(Y \ {x}) \in Nat
    BY <2>5, OneLess
  <2>9. Y \ {x} \notin Bad
    <3> SUFFICES ASSUME Y \ {x} \in Bad PROVE FALSE
      OBVIOUS
    <3>1. Cardinality(Y \ {x}) \in T
      OBVIOUS
    <3>2. Cardinality(Y) <= Cardinality(Y \ {x}) /\ Cardinality(Y) \in Nat
      BY <1>1, <2>2, <2>3, <3>1
    <3> HIDE DEF T, Bad
    <3> QED
      BY <2>8, <3>2
  <2>10. f[x] = g[x] /\ h[Y \ {x}] = k[Y \ {x}]
    BY <2>9
  <2> QED
    BY <2>3, <2>6, <2>10
<1>3. X \notin Bad
  BY <1>2
<1> QED
  BY <1>3

\* h holds the sums of the numbers f over the subsets of the finite set S.
Summing(h, f, S) ==
  /\ IsFiniteSet(S)
  /\ f \in [S -> Nat]
  /\ h \in [SUBSET S -> Nat]
  /\ Sums(h, f, S)

\* Any element can be taken out of a sum.
LEMMA SumWithout ==
  ASSUME NEW S, NEW f, NEW h, Summing(h, f, S), NEW Z \in SUBSET S, NEW z \in Z
  PROVE  h[Z] = h[Z \ {z}] + f[z]
<1> DEFINE Bad == {Y \in SUBSET S : \E y \in Y : h[Y] # h[Y \ {y}] + f[y]}
           T == {Cardinality(Y) : Y \in Bad}
<1>4. /\ IsFiniteSet(S) /\ f \in [S -> Nat] /\ h \in [SUBSET S -> Nat]
      /\ Sums(h, f, S)
  BY DEF Summing
<1>5. \A X \in SUBSET S : X # {} =>
        Some(X) \in X /\ h[X] = f[Some(X)] + h[X \ {Some(X)}]
  BY <1>4, SumParts
<1>1. \A Y \in SUBSET S : IsFiniteSet(Y) /\ Cardinality(Y) \in Nat
  BY <1>4, FS_Subset, FS_CardinalityType
<1>2. T = {}
  <2> SUFFICES ASSUME T # {} PROVE FALSE
    OBVIOUS
  <2>1. T \subseteq Nat
    BY <1>1
  <2> HIDE DEF T
  <2>2. PICK n \in T : \A m \in T : n <= m
    BY <2>1, LeastNumber
  <2> USE DEF T
  <2>3. PICK Y \in Bad : n = Cardinality(Y)
    OBVIOUS
  <2>4. PICK y \in Y : h[Y] # h[Y \ {y}] + f[y]
    OBVIOUS
  <2>5. PICK x \in Y : h[Y] = f[x] + h[Y \ {x}]
    <3>1. Y \in SUBSET S /\ Y # {}
      BY <2>4
    <3>2. Some(Y) \in Y /\ h[Y] = f[Some(Y)] + h[Y \ {Some(Y)}]
      BY <3>1, <1>5
    <3> QED
      BY <3>2
  <2>6. /\ Y \ {x} \in SUBSET S /\ Y \ {y} \in SUBSET S
        /\ (Y \ {x}) \ {y} \in SUBSET S /\ (Y \ {x}) \ {y} = (Y \ {y}) \ {x}
        /\ f[x] \in Nat /\ f[y] \in Nat
    BY <1>4
  <2>12. h[Y \ {x}] \in Nat /\ h[Y \ {y}] \in Nat /\ h[(Y \ {x}) \ {y}] \in Nat
    BY <1>4, <2>6
  <2>7. x # y
    <3> SUFFICES ASSUME x = y PROVE FALSE
      OBVIOUS
    <3>1. h[Y] = f[y] + h[Y \ {y}]
      BY <2>5
    <3> HIDE DEF Bad, T
    <3> QED
      BY <2>4, <2>6, <2>12, <3>1
  <2>8. \A W \in SUBSET S : Cardinality(W) < Cardinality(Y) => W \notin Bad
    <3> SUFFICES ASSUME NEW W \in SUBSET S, Cardinality(W) < Cardinality(Y), W \in Bad
                 PROVE  FALSE
      OBVIOUS
    <3>1. Cardinality(W) \in T
      OBVIOUS
    <3>2. Cardinality(Y) <= Cardinality(W) /\ Cardinality(Y) \in Nat /\ Cardinality(W) \in Nat
      BY <1>1, <2>2, <2>3, <3>1
    <3> HIDE DEF T, Bad
    <3> QED
      BY <3>2
  <2>9. Y \ {x} \notin Bad /\ Y \ {y} \notin Bad
    <3>1. /\ Cardinality(Y \ {x}) < Cardinality(Y)
          /\ Cardinality(Y \ {y}) < Cardinality(Y)
      BY <1>4, OneLess
    <3> QED
      BY <2>6, <2>8, <3>1
  <2>10. h[Y \ {x}] = h[(Y \ {x}) \ {y}] + f[y]
    BY <2>6, <2>7, <2>9
  <2>11. h[Y \ {y}] = h[(Y \ {y}) \ {x}] + f[x]
    BY <2>6, <2>7, <2>9
  <2>13. PICK W \in SUBSET S : W = (Y \ {x}) \ {y} /\ W = (Y \ {y}) \ {x}
    BY <2>6
  <2>14. h[Y \ {x}] = h[W] + f[y] /\ h[Y \ {y}] = h[W] + f[x]
    BY <2>10, <2>11, <2>13
  <2>15. h[Y] = h[Y \ {y}] + f[y]
    <3> HIDE DEF Bad, T
    <3> QED
      BY <2>5, <2>6, <2>12, <2>13, <2>14
  <2> QED
    BY <2>4, <2>15
<1>3. Bad = {}
  BY <1>2
<1> QED
  BY <1>3

\* A sum without one of its numbers.
LEMMA SumLess ==
  ASSUME NEW S, NEW f, NEW h, Summing(h, f, S), NEW s, s \in S
  PROVE  /\ h[S] \in Nat /\ f[s] \in Nat /\ h[S \ {s}] \in Nat
         /\ h[S] = h[S \ {s}] + f[s]
<1>1. /\ IsFiniteSet(S) /\ f \in [S -> Nat] /\ h \in [SUBSET S -> Nat]
      /\ Sums(h, f, S)
  BY DEF Summing
<1>2. PICK Z \in SUBSET S : Z = S
  OBVIOUS
<1>3. s \in Z
  BY <1>2
<1>4. h[Z] = h[Z \ {s}] + f[s]
  BY <1>3, SumWithout
<1>5. h[S] \in Nat /\ f[s] \in Nat /\ h[S \ {s}] \in Nat
  BY <1>1
<1> QED
  BY <1>2, <1>4, <1>5

\* Two sums over numbers that agree.
LEMMA SumSame ==
  ASSUME NEW S, NEW f, NEW h, Summing(h, f, S),
         NEW R, NEW e, NEW g, Summing(g, e, R),
         NEW X, X \subseteq S, X \subseteq R, \A x \in X : f[x] = e[x]
  PROVE  h[X] = g[X]
BY SumsAgree DEF Summing

\* One number changes.
LEMMA SumsChange ==
  ASSUME NEW S, NEW f, NEW h, Summing(h, f, S),
         NEW e, NEW g, Summing(g, e, S),
         NEW s, s \in S, \A t \in S : t # s => e[t] = f[t]
  PROVE  /\ h[S] \in Nat /\ g[S] \in Nat /\ f[s] \in Nat /\ e[s] \in Nat
         /\ g[S] - e[s] = h[S] - f[s]
<1>1. /\ h[S] \in Nat /\ f[s] \in Nat /\ h[S \ {s}] \in Nat
      /\ h[S] = h[S \ {s}] + f[s]
  BY SumLess
<1>2. /\ g[S] \in Nat /\ e[s] \in Nat
      /\ g[S] = g[S \ {s}] + e[s]
  BY SumLess
<1>3. h[S \ {s}] = g[S \ {s}]
  <2>1. PICK W : W = S \ {s}
    OBVIOUS
  <2>2. W \subseteq S /\ \A x \in W : f[x] = e[x]
    BY <2>1
  <2>3. h[W] = g[W]
    BY <2>2, SumSame
  <2> QED
    BY <2>1, <2>3
<1> QED
  BY <1>1, <1>2, <1>3

\* The sizes in the ring.
LEMMA RingSum ==
  ASSUME NEW sizes \in [0..SEGMENTS-1 -> Nat]
  PROVE  \E h \in [SUBSET (0..SEGMENTS-1) -> Nat] :
           Sums(h, sizes, 0..SEGMENTS-1) /\ RingBytes(sizes) = h[0..SEGMENTS-1]
<1> DEFINE S == 0..SEGMENTS-1
<1>1. IsFiniteSet(S)
  BY RecorderAssumption, FS_Interval
<1> HIDE DEF S
<1>2. PICK h : Sums(h, sizes, S) /\ h \in [SUBSET S -> Nat]
  BY <1>1, SumsExist DEF S
<1>3. PICK g : Sums(g, sizes, S) /\ RingBytes(sizes) = g[S]
  <2>1. \E g : g = [s \in SUBSET S |->
                   IF s = {} THEN 0
                   ELSE LET x == CHOOSE x \in s : TRUE IN sizes[x] + g[s \ {x}]]
    BY <1>2 DEF Sums
  <2> QED
    BY <2>1 DEF Sums, RingBytes, MapThenSumSet, MapThenFoldSet, S
<1>4. h[S] = g[S]
  BY <1>1, <1>2, <1>3, SumsAgree
<1> QED
  BY <1>2, <1>3, <1>4 DEF S

\* The sizes of images.
LEMMA ImageSum ==
  ASSUME NEW images \in Seq(ImageSet)
  PROVE  LET n == Len(images)
             f == [i \in 1..n |-> images[i].size]
         IN  \E h \in [SUBSET (1..n) -> Nat] :
               Sums(h, f, 1..n) /\ ImageBytes(images) = h[1..n]
<1> DEFINE n == Len(images)
           f == [i \in 1..n |-> images[i].size]
           S == 1..n
<1>1. IsFiniteSet(S) /\ n \in Nat
  BY FS_Interval
<1>2. f \in [S -> Nat]
  <2>1. \A image \in ImageSet : image.size \in Nat
    BY DEF ImageSet
  <2>2. \A i \in S : images[i] \in ImageSet
    OBVIOUS
  <2> QED
    BY <2>1, <2>2
<1>3. \A i \in S : f[i] = images[i].size
  OBVIOUS
<1> HIDE DEF f
<1>4. PICK h : Sums(h, f, S) /\ h \in [SUBSET S -> Nat]
  BY <1>1, <1>2, SumsExist
<1>5. PICK g : Sums(g, f, S) /\ ImageBytes(images) = g[S]
  <2>1. h = [s \in SUBSET S |->
               IF s = {} THEN 0
               ELSE LET x == CHOOSE x \in s : TRUE IN images[x].size + h[s \ {x}]]
    BY <1>3, <1>4 DEF Sums
  <2>2. PICK g : /\ g = [s \in SUBSET S |->
                         IF s = {} THEN 0
                         ELSE LET x == CHOOSE x \in s : TRUE
                              IN  images[x].size + g[s \ {x}]]
                 /\ ImageBytes(images) = g[S]
    BY <2>1 DEF ImageBytes, MapThenSumSet, MapThenFoldSet
  <2>3. Sums(g, f, S)
    BY <1>3, <2>2 DEF Sums
  <2> QED
    BY <2>2, <2>3
<1>6. h[S] = g[S]
  BY <1>1, <1>4, <1>5, SumsAgree
<1> QED
  BY <1>4, <1>5, <1>6 DEF f

\* The sizes of the images of all segments.
LEMMA DiskSum ==
  ASSUME NEW files \in [SegmentIds -> FileSet]
  PROVE  LET f == [s \in SegmentIds |-> ImageBytes(files[s].images)]
         IN  /\ f \in [SegmentIds -> Nat]
             /\ \E h \in [SUBSET SegmentIds -> Nat] :
                  Sums(h, f, SegmentIds) /\ DiskBytes(files) = h[SegmentIds]
<1> DEFINE f == [s \in SegmentIds |-> ImageBytes(files[s].images)]
<1>1. IsFiniteSet(SegmentIds)
  BY WriterAssumption, FS_Interval DEF SegmentIds
<1>2. f \in [SegmentIds -> Nat]
  <2>1. \A s \in SegmentIds : files[s].images \in Seq(ImageSet)
    BY DEF FileSet
  <2>2. \A images \in Seq(ImageSet) : ImageBytes(images) \in Nat
    <3> SUFFICES ASSUME NEW images \in Seq(ImageSet) PROVE ImageBytes(images) \in Nat
      OBVIOUS
    <3>1. PICK h \in [SUBSET (1..Len(images)) -> Nat] : ImageBytes(images) = h[1..Len(images)]
      BY ImageSum
    <3> QED
      BY <3>1
  <2> QED
    BY <2>1, <2>2
<1>3. \A s \in SegmentIds : f[s] = ImageBytes(files[s].images)
  OBVIOUS
<1> HIDE DEF f
<1>4. PICK h : Sums(h, f, SegmentIds) /\ h \in [SUBSET SegmentIds -> Nat]
  BY <1>1, <1>2, SumsExist
<1>5. PICK g : Sums(g, f, SegmentIds) /\ DiskBytes(files) = g[SegmentIds]
  <2>1. h = [s \in SUBSET SegmentIds |->
               IF s = {} THEN 0
               ELSE LET x == CHOOSE x \in s : TRUE
                    IN  ImageBytes(files[x].images) + h[s \ {x}]]
    BY <1>3, <1>4 DEF Sums
  <2>2. PICK g : /\ g = [s \in SUBSET SegmentIds |->
                         IF s = {} THEN 0
                         ELSE LET x == CHOOSE x \in s : TRUE
                              IN  ImageBytes(files[x].images) + g[s \ {x}]]
                 /\ DiskBytes(files) = g[SegmentIds]
    BY <2>1 DEF DiskBytes, MapThenSumSet, MapThenFoldSet
  <2>3. Sums(g, f, SegmentIds)
    BY <1>3, <2>2 DEF Sums
  <2> QED
    BY <2>2, <2>3
<1>6. h[SegmentIds] = g[SegmentIds]
  BY <1>1, <1>4, <1>5, SumsAgree
<1> QED
  BY <1>2, <1>4, <1>5, <1>6 DEF f

\* One entry of the ring changes.
LEMMA RingBytesChange ==
  ASSUME NEW sizes \in [0..SEGMENTS-1 -> Nat], NEW other \in [0..SEGMENTS-1 -> Nat],
         NEW k \in 0..SEGMENTS-1,
         \A j \in 0..SEGMENTS-1 : j # k => other[j] = sizes[j]
  PROVE  /\ RingBytes(sizes) \in Nat /\ RingBytes(other) \in Nat
         /\ RingBytes(other) - other[k] = RingBytes(sizes) - sizes[k]
<1>1. PICK S : S = 0..SEGMENTS-1
  OBVIOUS
<1>2. IsFiniteSet(S)
  BY <1>1, RecorderAssumption, FS_Interval
<1>3. PICK h : /\ h \in [SUBSET S -> Nat] /\ Sums(h, sizes, S)
               /\ RingBytes(sizes) = h[S]
  BY <1>1, RingSum
<1>4. PICK g : /\ g \in [SUBSET S -> Nat] /\ Sums(g, other, S)
               /\ RingBytes(other) = g[S]
  BY <1>1, RingSum
<1>5. /\ sizes \in [S -> Nat] /\ other \in [S -> Nat] /\ k \in S
      /\ \A t \in S : t # k => other[t] = sizes[t]
  BY <1>1
<1>6. /\ h[S] \in Nat /\ g[S] \in Nat
      /\ g[S] - other[k] = h[S] - sizes[k]
  <2>1. PICK f, e, s : f = sizes /\ e = other /\ s = k
    OBVIOUS
  <2>2. Summing(h, f, S) /\ Summing(g, e, S)
    BY <1>2, <1>3, <1>4, <1>5, <2>1 DEF Summing
  <2>3. s \in S /\ \A t \in S : t # s => e[t] = f[t]
    BY <1>5, <2>1
  <2>4. h[S] \in Nat /\ g[S] \in Nat /\ g[S] - e[s] = h[S] - f[s]
    BY <2>2, <2>3, SumsChange
  <2> QED
    BY <2>1, <2>4
<1> QED
  BY <1>3, <1>4, <1>6

\* The files of one segment change.
LEMMA DiskBytesChange ==
  ASSUME NEW files \in [SegmentIds -> FileSet], NEW other \in [SegmentIds -> FileSet],
         NEW s \in SegmentIds,
         \A t \in SegmentIds : t # s => other[t].images = files[t].images
  PROVE  /\ DiskBytes(files) \in Nat /\ DiskBytes(other) \in Nat
         /\ ImageBytes(files[s].images) \in Nat /\ ImageBytes(other[s].images) \in Nat
         /\ DiskBytes(other) - ImageBytes(other[s].images)
              = DiskBytes(files) - ImageBytes(files[s].images)
<1>1. PICK S : S = SegmentIds
  OBVIOUS
<1>2. IsFiniteSet(S)
  BY <1>1, WriterAssumption, FS_Interval DEF SegmentIds
<1>3. PICK f : f = [t \in S |-> ImageBytes(files[t].images)]
  OBVIOUS
<1>4. PICK e : e = [t \in S |-> ImageBytes(other[t].images)]
  OBVIOUS
<1>5. f \in [S -> Nat] /\ e \in [S -> Nat]
  BY <1>1, <1>3, <1>4, DiskSum
<1>6. PICK h : h \in [SUBSET S -> Nat] /\ Sums(h, f, S) /\ DiskBytes(files) = h[S]
  BY <1>1, <1>3, DiskSum
<1>7. PICK g : g \in [SUBSET S -> Nat] /\ Sums(g, e, S) /\ DiskBytes(other) = g[S]
  BY <1>1, <1>4, DiskSum
<1>8. /\ s \in S /\ \A t \in S : t # s => e[t] = f[t]
      /\ f[s] = ImageBytes(files[s].images) /\ e[s] = ImageBytes(other[s].images)
  BY <1>1, <1>3, <1>4
<1>9. /\ h[S] \in Nat /\ g[S] \in Nat /\ f[s] \in Nat /\ e[s] \in Nat
      /\ g[S] - e[s] = h[S] - f[s]
  <2>1. Summing(h, f, S) /\ Summing(g, e, S)
    BY <1>2, <1>5, <1>6, <1>7 DEF Summing
  <2> QED
    BY <1>8, <2>1, SumsChange
<1> QED
  BY <1>6, <1>7, <1>8, <1>9

\* Noughts add up to nought.
LEMMA NullSum ==
  ASSUME NEW S, IsFiniteSet(S), NEW f, NEW h, Sums(h, f, S), \A t \in S : f[t] = 0
  PROVE  h[S] = 0
<1>1. PICK g : g = [s \in SUBSET S |-> 0]
  OBVIOUS
<1>2. \A s \in SUBSET S : s # {} =>
        LET x == CHOOSE x \in s : TRUE IN f[x] + g[s \ {x}] = 0
  <2> SUFFICES ASSUME NEW s \in SUBSET S, s # {}
               PROVE  LET x == CHOOSE x \in s : TRUE IN f[x] + g[s \ {x}] = 0
    OBVIOUS
  <2>1. PICK x \in s : x = CHOOSE y \in s : TRUE
    OBVIOUS
  <2>2. f[x] = 0 /\ g[s \ {x}] = 0
    BY <1>1
  <2> QED
    BY <2>1, <2>2
<1>3. Sums(g, f, S)
  BY <1>1, <1>2 DEF Sums
<1>4. h[S] = g[S]
  BY <1>3, SumsAgree
<1> QED
  BY <1>1, <1>4

\* Without images there are no bytes.
LEMMA NoBytes ==
  ASSUME NEW files \in [SegmentIds -> FileSet],
         \A s \in SegmentIds : ImageBytes(files[s].images) = 0
  PROVE  DiskBytes(files) = 0
<1>1. PICK S : S = SegmentIds
  OBVIOUS
<1>2. IsFiniteSet(S)
  BY <1>1, WriterAssumption, FS_Interval DEF SegmentIds
<1>3. PICK f : f = [t \in S |-> ImageBytes(files[t].images)]
  OBVIOUS
<1>4. PICK h : Sums(h, f, S) /\ DiskBytes(files) = h[S]
  BY <1>1, <1>3, DiskSum
<1>5. \A t \in S : f[t] = 0
  BY <1>1, <1>3
<1>6. h[S] = 0
  BY <1>2, <1>4, <1>5, NullSum
<1> QED
  BY <1>4, <1>6

\* No images have no bytes, and one more image has its size more.
LEMMA ImageBytesGrow ==
  /\ ImageBytes(<<>>) = 0
  /\ \A images \in Seq(ImageSet) : ImageBytes(images) \in Nat
  /\ \A images \in Seq(ImageSet), image \in ImageSet :
       ImageBytes(Append(images, image)) = ImageBytes(images) + image.size
<1>1. ImageBytes(<<>>) = 0
  <2>1. <<>> \in Seq(ImageSet) /\ Len(<<>>) = 0 /\ 1..0 = {}
    OBVIOUS
  <2>2. PICK h : /\ Sums(h, [i \in 1..Len(<<>>) |-> <<>>[i].size], 1..Len(<<>>))
                 /\ ImageBytes(<<>>) = h[1..Len(<<>>)]
    BY <2>1, ImageSum
  <2>3. h[{}] = 0
    BY <2>2, SumParts
  <2> QED
    BY <2>1, <2>2, <2>3
<1>2. ASSUME NEW images \in Seq(ImageSet) PROVE ImageBytes(images) \in Nat
  <2>1. PICK h \in [SUBSET (1..Len(images)) -> Nat] : ImageBytes(images) = h[1..Len(images)]
    BY ImageSum
  <2> QED
    BY <2>1
<1>3. ASSUME NEW images \in Seq(ImageSet), NEW image \in ImageSet
      PROVE  ImageBytes(Append(images, image)) = ImageBytes(images) + image.size
  <2> DEFINE n == Len(images)
  <2>1. PICK more : more = Append(images, image)
    OBVIOUS
  <2>2. /\ n \in Nat /\ more \in Seq(ImageSet) /\ Len(more) = n + 1
        /\ more[n + 1] = image /\ \A i \in 1..n : more[i] = images[i]
    BY <2>1
  <2>3. PICK R, S : R = 1..n /\ S = 1..n+1
    OBVIOUS
  <2>4. IsFiniteSet(R) /\ IsFiniteSet(S)
    <3>1. n + 1 \in Int /\ n \in Int /\ 1 \in Int
      BY <2>2
    <3> QED
      BY <2>3, <3>1, FS_Interval
  <2>5. PICK f, e : f = [i \in R |-> images[i].size] /\ e = [i \in S |-> more[i].size]
    OBVIOUS
  <2>6. PICK h : h \in [SUBSET R -> Nat] /\ Sums(h, f, R) /\ ImageBytes(images) = h[R]
    BY <2>3, <2>5, ImageSum
  <2>7. PICK g : g \in [SUBSET S -> Nat] /\ Sums(g, e, S) /\ ImageBytes(more) = g[S]
    <3>1. Len(more) = n + 1
      BY <2>2
    <3> QED
      BY <2>2, <2>3, <2>5, <3>1, ImageSum
  <2>8. PICK x \in S : x = n + 1
    BY <2>2, <2>3
  <2>9. S \ {x} = R /\ R \subseteq S
    BY <2>2, <2>3, <2>8
  <2>10. e \in [S -> Nat] /\ e[x] = image.size /\ \A i \in R : f[i] = e[i]
    <3>1. \A one \in ImageSet : one.size \in Nat
      BY DEF ImageSet
    <3>2. \A i \in S : more[i] \in ImageSet
      BY <2>2, <2>3
    <3>3. \A i \in R : more[i] = images[i]
      BY <2>2, <2>3
    <3>4. more[x] = image
      BY <2>2, <2>8
    <3> QED
      BY <2>5, <2>9, <3>1, <3>2, <3>3, <3>4
  <2>11. g[S] = g[S \ {x}] + e[x]
    <3>1. Summing(g, e, S)
      BY <2>4, <2>7, <2>10 DEF Summing
    <3> QED
      BY <3>1, SumLess
  <2>12. h[R] = g[R]
    BY <2>4, <2>6, <2>7, <2>9, <2>10, SumsAgree
  <2> QED
    BY <2>1, <2>6, <2>7, <2>9, <2>10, <2>11, <2>12
<1> QED
  BY <1>1, <1>2, <1>3

-----------------------------------------------------------------------------
(***************************************************************************)
(* The ring.                                                                 *)
(***************************************************************************)
\* segment % SEGMENTS is an index of the ring.
LEMMA SlotInRing == ASSUME NEW s \in Nat PROVE Slot(s) \in 0..SEGMENTS-1
  BY RecorderAssumption, SMT DEF Slot

\* Segments less than SEGMENTS apart do not share a slot.
LEMMA SlotsDiffer ==
  ASSUME NEW s \in Nat, NEW t \in Nat, s < t, t - s < SEGMENTS
  PROVE  Slot(s) # Slot(t)
<1> DEFINE N == SEGMENTS
<1>0. N \in Nat \ {0}
  BY RecorderAssumption
<1> HIDE DEF N
<1> SUFFICES ASSUME s % N = t % N PROVE FALSE
  BY DEF Slot, N
<1> DEFINE qs == s \div N
           qt == t \div N
           d  == qt - qs
<1>1. s = N * qs + (s % N) /\ t = N * qt + (t % N)
  BY <1>0, SMT
<1>2. qs \in Int /\ qt \in Int /\ (s % N) \in Int
  BY <1>0, SMT
<1> HIDE DEF qs, qt
<1>3. t - s = N * qt - N * qs
  BY <1>0, <1>1, <1>2, SMT
<1>4. N * qt - N * qs = N * d
  BY <1>0, <1>2, SMT
<1>5. d \in Int
  BY <1>2
<1>6. N * d > 0 /\ N * d < N
  BY <1>0, <1>3, <1>4, SMT DEF N
<1> HIDE DEF d
<1>7. d >= 1
  BY <1>0, <1>5, <1>6, SMT
<1>8. N * d >= N
  BY <1>0, <1>5, <1>7, SMT
<1> QED
  BY <1>0, <1>5, <1>6, <1>8, SMT

-----------------------------------------------------------------------------
(***************************************************************************)
(* The inductive invariant.                                                  *)
(***************************************************************************)
Numbers ==
  /\ segment \in Nat /\ oldest_segment \in Nat /\ rows \in Nat
  /\ segment_state_bytes \in Nat /\ history_bytes \in Nat /\ size \in Nat
  /\ history_sizes \in [0..SEGMENTS-1 -> Nat]
  /\ recording \in BOOLEAN /\ writerError \in BOOLEAN

\* The newest segment that has bytes in the ring.  A segment that has just
\* been created shares the slot of one that is about to be retired; when that
\* fails it never gets a slot.
Newest == IF pc = "retire" \/ TooManySegments THEN segment - 1 ELSE segment

\* B telescopes from 0 to history_bytes over the segments lo..hi.
Telescope(B, lo, hi) ==
  /\ B \in [Nat -> Nat]
  /\ B[lo] = 0 /\ B[hi + 1] = history_bytes
  /\ \A s \in lo..hi : B[s + 1] = B[s] + history_sizes[Slot(s)]
  /\ \A s, t \in lo..hi+1 : s <= t => B[s] <= B[t]

Ledger ==
  /\ oldest_segment <= Newest + 1 /\ Newest - oldest_segment < SEGMENTS
  /\ \A k \in 0..SEGMENTS-1 :
       (\A s \in oldest_segment..Newest : Slot(s) # k) => history_sizes[k] = 0
  /\ \E B : Telescope(B, oldest_segment, Newest)

\* Only a recorder that is not recording is without a slot, and not for long
\* enough to create another segment.
RingHasRoom ==
  /\ TooManySegments => ~recording
  /\ TooManySegments /\ pc # "retire" =>
       pc \in {"idle", "begin", "run", "end", "drain"} /\ writerError
  /\ pc \in {"create", "retire", "open"} => ~recording
  /\ pc \in {"checkpoint", "room"} => recording
  /\ pc \in {"retire", "open"} \/ recording => oldest_segment <= segment

\* While a segment is recorded its slot holds its bytes; they leave room for
\* one more image whenever one is about to be taken.
CurrentBytes ==
  /\ recording => history_sizes[Slot(segment)] = segment_state_bytes
  /\ pc \in {"idle", "begin"} /\ recording => rows > 0
  /\ pc \in {"run", "end"} /\ recording => rows > 0 \/ pending
  /\ pc = "checkpoint" => segment_state_bytes <= SegmentLimit - SNAPSHOT_LIMIT
  /\ pc = "room" =>
       size <= SNAPSHOT_LIMIT /\ segment_state_bytes <= SegmentLimit - SNAPSHOT_LIMIT
  /\ pc = "open" => history_sizes[Slot(segment)] = 0
  /\ pc \in {"create", "retire", "open"} => ~failed
  /\ failed => ~recording

Live == Ledger /\ RingHasRoom /\ CurrentBytes

IInv ==
  /\ Numbers /\ SegmentWithinLimit /\ HistoryWithinLimit
  /\ pc # "gone" => Live

-----------------------------------------------------------------------------
(***************************************************************************)
(* What the ring operations do to the ledger.                                *)
(***************************************************************************)
\* evict_segment(): the oldest segment's bytes leave the telescope.
LEMMA EvictLedger ==
  ASSUME Numbers, Ledger, ForgetOldest, segment' = segment,
         oldest_segment <= Newest, Newest' = Newest
  PROVE  /\ Ledger'
         /\ history_bytes' \in Nat /\ history_bytes' <= history_bytes
         /\ history_sizes' \in [0..SEGMENTS-1 -> Nat]
         /\ \A s \in oldest_segment+1..Newest :
              history_sizes'[Slot(s)] = history_sizes[Slot(s)]
<1> DEFINE lo == oldest_segment
           hi == Newest
           sz == history_sizes[Slot(lo)]
<1>1. /\ lo \in Nat /\ hi \in Nat /\ lo <= hi /\ hi - lo < SEGMENTS
      /\ Slot(lo) \in 0..SEGMENTS-1 /\ sz \in Nat
  BY SlotInRing DEF Numbers, Newest, Ledger
<1>2. /\ history_bytes' = history_bytes - sz
      /\ history_sizes' = [history_sizes EXCEPT ![Slot(lo)] = 0]
      /\ oldest_segment' = lo + 1
  BY DEF ForgetOldest
<1>3. \A s \in lo+1..hi : history_sizes'[Slot(s)] = history_sizes[Slot(s)]
  <2> SUFFICES ASSUME NEW s \in lo+1..hi
               PROVE  history_sizes'[Slot(s)] = history_sizes[Slot(s)]
    OBVIOUS
  <2>1. s \in Nat /\ lo < s /\ s - lo < SEGMENTS
    BY <1>1, RecorderAssumption
  <2>2. Slot(lo) # Slot(s) /\ Slot(s) \in 0..SEGMENTS-1
    BY <1>1, <2>1, SlotsDiffer, SlotInRing
  <2> QED
    BY <1>2, <2>2 DEF Numbers
<1>4. history_sizes' \in [0..SEGMENTS-1 -> Nat]
  BY <1>1, <1>2 DEF Numbers
<1>5. PICK B : Telescope(B, lo, hi)
  BY DEF Ledger
<1> DEFINE C == [s \in Nat |-> IF s \in lo+1..hi+1 THEN B[s] - sz ELSE 0]
<1>6. \A s \in lo+1..hi+1 : B[s] \in Nat /\ B[s] - sz \in Nat
  <2>1. B[lo+1] = sz
    BY <1>1, <1>5 DEF Telescope
  <2> SUFFICES ASSUME NEW s \in lo+1..hi+1 PROVE B[s] \in Nat /\ B[s] - sz \in Nat
    OBVIOUS
  <2>2. B[lo+1] <= B[s] /\ B[s] \in Nat
    BY <1>1, <1>5 DEF Telescope
  <2> QED
    BY <1>1, <2>1, <2>2
<1>7. C \in [Nat -> Nat]
  BY <1>6
<1>8. C[lo+1] = 0 /\ C[hi+1] = history_bytes' /\ history_bytes' \in Nat
  <2>1. B[lo+1] = sz /\ B[hi+1] = history_bytes
    BY <1>1, <1>5 DEF Telescope
  <2>2. lo+1 \in lo+1..hi+1 /\ hi+1 \in lo+1..hi+1 /\ lo+1 \in Nat /\ hi+1 \in Nat
    BY <1>1
  <2> QED
    BY <1>1, <1>2, <1>6, <2>1, <2>2
<1>9. \A s \in lo+1..hi : C[s+1] = C[s] + history_sizes'[Slot(s)]
  <2> SUFFICES ASSUME NEW s \in lo+1..hi
               PROVE  C[s+1] = C[s] + history_sizes'[Slot(s)]
    OBVIOUS
  <2>1. /\ s \in lo+1..hi+1 /\ s+1 \in lo+1..hi+1 /\ s \in lo..hi
        /\ s \in Nat /\ s+1 \in Nat
    BY <1>1
  <2>2. B[s+1] = B[s] + history_sizes[Slot(s)]
    BY <1>5, <2>1 DEF Telescope
  <2>3. Slot(s) \in 0..SEGMENTS-1 /\ history_sizes[Slot(s)] \in Nat
    BY <2>1, SlotInRing DEF Numbers
  <2> QED
    BY <1>1, <1>3, <1>6, <2>1, <2>2, <2>3
<1>10. \A s, t \in lo+1..hi+1 : s <= t => C[s] <= C[t]
  <2> SUFFICES ASSUME NEW s \in lo+1..hi+1, NEW t \in lo+1..hi+1, s <= t
               PROVE  C[s] <= C[t]
    OBVIOUS
  <2>1. s \in lo..hi+1 /\ t \in lo..hi+1 /\ s \in Nat /\ t \in Nat
    BY <1>1
  <2>2. B[s] <= B[t]
    BY <1>5, <2>1 DEF Telescope
  <2> QED
    BY <1>1, <1>6, <2>1, <2>2
<1>11. \E D : /\ D \in [Nat -> Nat] /\ D[oldest_segment'] = 0
              /\ D[Newest' + 1] = history_bytes'
              /\ \A s \in oldest_segment'..Newest' :
                   D[s+1] = D[s] + history_sizes'[Slot(s)]
              /\ \A s, t \in oldest_segment'..Newest'+1 : s <= t => D[s] <= D[t]
  <2> HIDE DEF C
  <2> WITNESS C
  <2> QED
    BY <1>2, <1>7, <1>8, <1>9, <1>10
<1>12. ASSUME NEW k \in 0..SEGMENTS-1, \A s \in lo+1..hi : Slot(s) # k
       PROVE  history_sizes'[k] = 0
  <2>1. CASE k = Slot(lo)
    BY <1>1, <1>2, <2>1 DEF Numbers
  <2>2. CASE k # Slot(lo)
    <3>1. \A s \in lo..hi : Slot(s) # k
      BY <1>1, <1>12, <2>2
    <3> QED
      BY <1>2, <2>2, <3>1 DEF Ledger, Numbers
  <2> QED
    BY <2>1, <2>2
<1>13. history_bytes' <= history_bytes
  BY <1>1, <1>2 DEF Numbers
<1>14. oldest_segment' <= Newest' + 1 /\ Newest' - oldest_segment' < SEGMENTS
  BY <1>1, <1>2, RecorderAssumption
<1> QED
  BY <1>2, <1>3, <1>4, <1>8, <1>11, <1>12, <1>13, <1>14 DEF Ledger, Telescope, Slot

\* write_snapshot(): the current segment's entry and the top of the telescope
\* grow by the image.
LEMMA CountLedger ==
  ASSUME Numbers, Ledger, CountSnapshot, segment' = segment,
         oldest_segment' = oldest_segment, oldest_segment <= segment,
         Newest = segment, Newest' = segment
  PROVE  /\ Ledger'
         /\ history_sizes' \in [0..SEGMENTS-1 -> Nat]
         /\ history_sizes'[Slot(segment)] = history_sizes[Slot(segment)] + size
<1> DEFINE lo == oldest_segment
           hi == segment
<1>1. /\ lo \in Nat /\ hi \in Nat /\ lo <= hi /\ hi - lo < SEGMENTS /\ size \in Nat
      /\ Slot(hi) \in 0..SEGMENTS-1 /\ history_sizes[Slot(hi)] \in Nat
  BY SlotInRing DEF Numbers, Ledger
<1>2. /\ history_bytes' = history_bytes + size
      /\ history_sizes' = [history_sizes EXCEPT ![Slot(hi)] = @ + size]
  BY DEF CountSnapshot
<1>3. history_sizes'[Slot(hi)] = history_sizes[Slot(hi)] + size
  BY <1>1, <1>2 DEF Numbers
<1>4. history_sizes' \in [0..SEGMENTS-1 -> Nat]
  BY <1>1, <1>2 DEF Numbers
<1>5. \A s \in lo..hi : s # hi => history_sizes'[Slot(s)] = history_sizes[Slot(s)]
  <2> SUFFICES ASSUME NEW s \in lo..hi, s # hi
               PROVE  history_sizes'[Slot(s)] = history_sizes[Slot(s)]
    OBVIOUS
  <2>1. s \in Nat /\ s < hi /\ hi - s < SEGMENTS
    BY <1>1, RecorderAssumption
  <2>2. Slot(s) # Slot(hi) /\ Slot(s) \in 0..SEGMENTS-1
    BY <1>1, <2>1, SlotsDiffer, SlotInRing
  <2> QED
    BY <1>2, <2>2 DEF Numbers
<1>6. PICK B : Telescope(B, lo, hi)
  BY DEF Ledger
<1> DEFINE C == [B EXCEPT ![hi + 1] = @ + size]
<1>7. C \in [Nat -> Nat] /\ C[hi+1] = history_bytes' /\ \A s \in lo..hi : C[s] = B[s]
  BY <1>1, <1>2, <1>6 DEF Telescope
<1>8. C[lo] = 0
  BY <1>1, <1>6, <1>7 DEF Telescope
<1>9. \A s \in lo..hi : C[s+1] = C[s] + history_sizes'[Slot(s)]
  <2> SUFFICES ASSUME NEW s \in lo..hi
               PROVE  C[s+1] = C[s] + history_sizes'[Slot(s)]
    OBVIOUS
  <2>1. B[s+1] = B[s] + history_sizes[Slot(s)] /\ B[s] \in Nat /\ s \in Nat
    BY <1>1, <1>6 DEF Telescope
  <2>2. CASE s = hi
    <3>1. B[hi+1] = history_bytes
      BY <1>6 DEF Telescope
    <3> QED
      BY <1>1, <1>2, <1>3, <1>7, <2>1, <2>2, <3>1
  <2>3. CASE s # hi
    <3>1. s+1 \in lo..hi
      BY <1>1, <2>3
    <3> QED
      BY <1>5, <1>7, <2>1, <2>3, <3>1
  <2> QED
    BY <2>2, <2>3
<1>10. \A s, t \in lo..hi+1 : s <= t => C[s] <= C[t]
  <2> SUFFICES ASSUME NEW s \in lo..hi+1, NEW t \in lo..hi+1, s <= t
               PROVE  C[s] <= C[t]
    OBVIOUS
  <2>1. B[s] <= B[t] /\ B[s] \in Nat /\ B[t] \in Nat
    BY <1>1, <1>6 DEF Telescope
  <2>2. \A r \in lo..hi+1 : r = hi+1 \/ r \in lo..hi
    BY <1>1
  <2>3. C[hi+1] = B[hi+1] + size
    BY <1>1, <1>6 DEF Telescope
  <2> QED
    BY <1>1, <1>7, <2>1, <2>2, <2>3
<1>11. \E D : /\ D \in [Nat -> Nat] /\ D[oldest_segment'] = 0
              /\ D[Newest' + 1] = history_bytes'
              /\ \A s \in oldest_segment'..Newest' :
                   D[s+1] = D[s] + history_sizes'[Slot(s)]
              /\ \A s, t \in oldest_segment'..Newest'+1 : s <= t => D[s] <= D[t]
  <2> HIDE DEF C
  <2> WITNESS C
  <2> QED
    BY <1>7, <1>8, <1>9, <1>10
<1>12. ASSUME NEW k \in 0..SEGMENTS-1, \A s \in lo..hi : Slot(s) # k
       PROVE  history_sizes'[k] = 0
  BY <1>1, <1>2, <1>12 DEF Ledger, Numbers
<1>13. oldest_segment' <= Newest' + 1 /\ Newest' - oldest_segment' < SEGMENTS
  BY <1>1
<1> QED
  BY <1>3, <1>4, <1>11, <1>12, <1>13 DEF Ledger, Telescope, Slot

\* start_segment(), once old segments are retired: the slot of the new segment
\* is free and empty, and the telescope gets a flat step.
LEMMA OpenLedger ==
  ASSUME Numbers, Ledger, Newest = segment - 1, segment - oldest_segment < SEGMENTS,
         Newest' = segment,
         UNCHANGED <<segment, oldest_segment, history_bytes, history_sizes>>
  PROVE  Ledger' /\ history_sizes[Slot(segment)] = 0
<1> DEFINE lo == oldest_segment
           hi == segment - 1
<1>0. lo \in Nat /\ segment \in Nat /\ lo <= hi + 1
  BY DEF Numbers, Ledger
<1>1. /\ lo \in Nat /\ segment \in Nat /\ hi \in Int /\ lo <= segment
      /\ segment - lo < SEGMENTS /\ Slot(segment) \in 0..SEGMENTS-1
  BY <1>0, SlotInRing
<1>2. history_sizes[Slot(segment)] = 0
  <2>1. \A s \in lo..hi : Slot(s) # Slot(segment)
    <3> SUFFICES ASSUME NEW s \in lo..hi PROVE Slot(s) # Slot(segment)
      OBVIOUS
    <3>1. s \in Nat /\ s < segment /\ segment - s < SEGMENTS
      BY <1>1, RecorderAssumption
    <3> QED
      BY <1>1, <3>1, SlotsDiffer
  <2> QED
    BY <1>1, <2>1 DEF Ledger
<1>3. PICK B : Telescope(B, lo, hi)
  BY DEF Ledger
<1> DEFINE C == [B EXCEPT ![segment + 1] = history_bytes]
<1>4. /\ C \in [Nat -> Nat] /\ C[segment + 1] = history_bytes
      /\ \A s \in lo..segment : C[s] = B[s]
  <2>1. B \in [Nat -> Nat] /\ history_bytes \in Nat
    BY <1>3 DEF Telescope, Numbers
  <2>2. segment + 1 \in Nat /\ \A s \in lo..segment : s \in Nat /\ s # segment + 1
    BY <1>1
  <2> QED
    BY <2>1, <2>2
<1>5. B[segment] = history_bytes /\ B[lo] = 0
  <2>1. hi + 1 = segment
    BY <1>1
  <2> QED
    BY <1>3, <2>1 DEF Telescope
<1>6. C[lo] = 0
  BY <1>1, <1>4, <1>5
<1>7. \A s \in lo..segment : C[s+1] = C[s] + history_sizes[Slot(s)]
  <2> SUFFICES ASSUME NEW s \in lo..segment
               PROVE  C[s+1] = C[s] + history_sizes[Slot(s)]
    OBVIOUS
  <2>1. CASE s = segment
    BY <1>1, <1>2, <1>4, <1>5, <2>1 DEF Numbers
  <2>2. CASE s # segment
    <3>1. s \in lo..hi /\ s+1 \in lo..segment
      BY <1>1, <2>2
    <3> QED
      BY <1>3, <1>4, <3>1 DEF Telescope
  <2> QED
    BY <2>1, <2>2
<1>8. \A s, t \in lo..segment+1 : s <= t => C[s] <= C[t]
  <2> SUFFICES ASSUME NEW s \in lo..segment+1, NEW t \in lo..segment+1, s <= t
               PROVE  C[s] <= C[t]
    OBVIOUS
  <2>1. ASSUME NEW r \in lo..segment PROVE B[r] <= history_bytes /\ B[r] \in Nat
    BY <1>1, <1>3, <1>5 DEF Telescope
  <2>2. \A r \in lo..segment+1 : r = segment+1 \/ r \in lo..segment
    BY <1>1
  <2>3. s \in lo..segment /\ t \in lo..segment => B[s] <= B[t]
    BY <1>1, <1>3 DEF Telescope
  <2> QED
    BY <1>1, <1>4, <2>1, <2>2, <2>3 DEF Numbers
<1>9. \E D : /\ D \in [Nat -> Nat] /\ D[oldest_segment'] = 0
             /\ D[Newest' + 1] = history_bytes'
             /\ \A s \in oldest_segment'..Newest' :
                  D[s+1] = D[s] + history_sizes'[Slot(s)]
             /\ \A s, t \in oldest_segment'..Newest'+1 : s <= t => D[s] <= D[t]
  <2> HIDE DEF C
  <2> WITNESS C
  <2> QED
    BY <1>4, <1>6, <1>7, <1>8
<1>10. ASSUME NEW k \in 0..SEGMENTS-1, \A s \in lo..segment : Slot(s) # k
       PROVE  history_sizes'[k] = 0
  <2>1. \A s \in lo..hi : Slot(s) # k
    BY <1>1, <1>10
  <2> QED
    BY <2>1 DEF Ledger
<1>11. oldest_segment' <= Newest' + 1 /\ Newest' - oldest_segment' < SEGMENTS
  BY <1>1
<1> QED
  BY <1>2, <1>9, <1>10, <1>11 DEF Ledger, Telescope, Slot

-----------------------------------------------------------------------------
(***************************************************************************)
(* Steps that leave the storage alone.                                       *)
(***************************************************************************)
Storage == <<segment, oldest_segment, segment_state_bytes, history_bytes, history_sizes>>

\* What a step that changes none of the storage must respect in its control.
QuietControl ==
  /\ recording' => recording
  /\ writerError => writerError'
  /\ failed' => ~recording'
  /\ pc = "retire" /\ pc' # "retire" => TooManySegments /\ writerError'
  /\ pc' = "retire" => pc = "retire"
  /\ pc' = "open" => pc = "open"
  /\ pc' \in {"create", "retire", "open"} => ~failed'
  /\ TooManySegments => pc' \in {"idle", "begin", "run", "end", "drain", "retire"}
  /\ pc' \in {"create", "retire", "open"} => ~recording'
  /\ pc' \in {"checkpoint", "room"} => recording'
  /\ pc' \in {"idle", "begin"} /\ recording' => rows' > 0
  /\ pc' \in {"run", "end"} /\ recording' => rows' > 0 \/ pending'
  /\ pc' = "checkpoint" => segment_state_bytes <= SegmentLimit - SNAPSHOT_LIMIT
  /\ pc' = "room" =>
       size' <= SNAPSHOT_LIMIT /\ segment_state_bytes <= SegmentLimit - SNAPSHOT_LIMIT

\* A step that leaves the storage alone and respects QuietControl keeps IInv.
LEMMA Quiet ==
  ASSUME IInv, pc # "gone", UNCHANGED Storage,
         rows' \in Nat, size' \in Nat, recording' \in BOOLEAN, writerError' \in BOOLEAN,
         QuietControl
  PROVE  IInv'
<1>1. Numbers'
  BY DEF IInv, Numbers, Storage
<1>2. SegmentWithinLimit' /\ HistoryWithinLimit'
  BY DEF IInv, SegmentWithinLimit, HistoryWithinLimit, SegmentLimit, Storage
<1>3. TooManySegments' <=> TooManySegments
  BY DEF TooManySegments, Storage
<1>4. Newest' = Newest
  BY <1>3 DEF Newest, Storage, QuietControl
<1>5. Ledger'
  BY <1>4 DEF IInv, Live, Ledger, Telescope, Slot, Storage
<1>6. RingHasRoom'
  <2>1. /\ TooManySegments' => ~recording'
        /\ TooManySegments' /\ pc' # "retire" =>
             pc' \in {"idle", "begin", "run", "end", "drain"} /\ writerError'
    BY <1>3 DEF IInv, Live, RingHasRoom, QuietControl
  <2>2. pc' \in {"retire", "open"} \/ recording' => oldest_segment' <= segment'
    BY DEF IInv, Live, RingHasRoom, QuietControl, Storage
  <2> QED
    BY <2>1, <2>2 DEF RingHasRoom, QuietControl
<1>7. CurrentBytes'
  <2>1. /\ recording' => history_sizes'[Slot(segment)'] = segment_state_bytes'
        /\ pc' = "open" => history_sizes'[Slot(segment)'] = 0
    BY DEF IInv, Live, CurrentBytes, QuietControl, Storage, Slot
  <2>2. SegmentLimit' = SegmentLimit /\ segment_state_bytes' = segment_state_bytes
    BY DEF SegmentLimit, Storage
  <2> QED
    BY <2>1, <2>2 DEF CurrentBytes, QuietControl
<1> QED
  BY <1>1, <1>2, <1>5, <1>6, <1>7 DEF IInv, Live

\* The process is gone: only the numbers remain.
LEMMA GoneStep ==
  ASSUME IInv, pc' = "gone", UNCHANGED Storage,
         UNCHANGED <<rows, size, recording, writerError>>
  PROVE  IInv'
  BY DEF IInv, Numbers, SegmentWithinLimit, HistoryWithinLimit, SegmentLimit, Storage

\* An offer to the writer can only latch its error.
LEMMA OfferLatches ==
  ASSUME Numbers, NEW cmds, OfferAll(cmds)
  PROVE  /\ writerError' \in BOOLEAN
         /\ writerError => writerError'
         /\ ~Accepts(Len(cmds)) => writerError'
  BY DEF Numbers, OfferAll

\* error(), MmxReplayClose() and a refused command end the recording.
LEMMA ErrorEffect ==
  ASSUME Numbers, Error
  PROVE  /\ recording' = FALSE /\ writerError' \in BOOLEAN
         /\ writerError => writerError'
<1>1. CASE recording
  BY <1>1, OfferLatches DEF Error, Offer
<1>2. CASE ~recording
  BY <1>2 DEF Error, writerVars, Numbers
<1> QED
  BY <1>1, <1>2 DEF Error

\* MmxReplayClose() ends the recording, forgets its rows and can only latch the
\* writer's error.
LEMMA CloseEffect ==
  ASSUME Numbers, Close
  PROVE  /\ recording' = FALSE /\ rows' = 0 /\ writerError' \in BOOLEAN
         /\ writerError => writerError'
<1>1. CASE recording
  BY <1>1, OfferLatches DEF Close, EndSegment, Offer
<1>2. CASE ~recording
  BY <1>2 DEF Close, EndSegment, writerVars, Numbers
<1> QED
  BY <1>1, <1>2 DEF Close

\* A refused command ends the recording and has latched the writer's error.
LEMMA RefusedEffect ==
  ASSUME Numbers, NEW cmds, RefusedWith(cmds)
  PROVE  recording' = FALSE /\ writerError' = TRUE
  BY OfferLatches DEF RefusedWith

-----------------------------------------------------------------------------
(***************************************************************************)
(* The inductive step, in groups of actions.                                 *)
(***************************************************************************)
\* Frames and host events that only move the game thread on.
LEMMA HostSteps ==
  ASSUME IInv,
         \/ \E in \in Inputs : BeginFrame(in)
         \/ RunFrame
         \/ \E saved \in SavedStates, rollback \in BOOLEAN : Load(saved, rollback)
         \/ Reset \/ ToggleRunahead \/ \E v \in Views : ChangeView(v)
  PROVE  IInv'
<1>1. /\ UNCHANGED Storage
      /\ UNCHANGED <<rows, size, recording, pending, failed, writerError>>
      /\ \/ pc = "idle" /\ pc' \in {"idle", "begin"}
         \/ pc = "run" /\ pc' = "end"
  BY DEF BeginFrame, RunFrame, Load, Reset, ToggleRunahead, ChangeView, HostEvent,
     quiet, Storage, storageVars, tapeVars, flagVars, localVars, writerVars
<1>2. QuietControl
  BY <1>1 DEF IInv, Live, RingHasRoom, CurrentBytes, QuietControl
<1>3. /\ rows' \in Nat /\ size' \in Nat /\ recording' \in BOOLEAN
      /\ writerError' \in BOOLEAN
  BY <1>1 DEF IInv, Numbers
<1> QED
  BY <1>1, <1>2, <1>3, Quiet

\* The worker takes commands or fails at any time.
LEMMA WorkerSteps == ASSUME IInv, Worker PROVE IInv'
<1>1. /\ UNCHANGED Storage
      /\ UNCHANGED <<rows, size, recording, pending, failed, pc>>
      /\ pc # "gone"
  BY DEF Worker, Storage, storageVars, tapeVars, flagVars, localVars
<1>2. writerError' \in BOOLEAN /\ (writerError => writerError')
  <2>1. CASE WorkerStep
    BY <2>1 DEF WorkerStep, IInv, Numbers
  <2>2. CASE WorkerFail
    BY <2>2 DEF WorkerFail
  <2> QED
    BY <2>1, <2>2 DEF Worker
<1>3. QuietControl
  BY <1>1, <1>2 DEF IInv, Live, RingHasRoom, CurrentBytes, QuietControl
<1>4. rows' \in Nat /\ size' \in Nat /\ recording' \in BOOLEAN
  BY <1>1 DEF IInv, Numbers
<1> QED
  BY <1>1, <1>2, <1>3, <1>4, Quiet

\* Steps that end the recording, and go to the frame or stay between frames.
LEMMA StopSteps ==
  ASSUME IInv, UNCHANGED Storage, pc # "gone",
         rows' \in Nat, size' \in Nat, recording' = FALSE, writerError' \in BOOLEAN,
         writerError => writerError',
         pc' \in {"idle", "run", "drain"},
         pc = "retire" => TooManySegments /\ writerError'
  PROVE  IInv'
<1>1. QuietControl
  BY DEF IInv, Live, RingHasRoom, CurrentBytes, QuietControl
<1> QED
  BY <1>1, Quiet

\* record_begin() decides what the frame needs.
LEMMA RecordBeginStep == ASSUME IInv, RecordBegin PROVE IInv'
<1>1. UNCHANGED Storage /\ size' = size /\ pc = "begin"
  BY DEF RecordBegin, Storage, storageVars, localVars
<1>2. rows \in Nat /\ size' \in Nat /\ Numbers
  BY <1>1 DEF IInv, Numbers
<1>3. CASE Off /\ pc' = "run" /\ UNCHANGED <<writerVars, flagVars, rows>>
  <2>1. UNCHANGED <<recording, pending, failed, writerError>>
    BY <1>3 DEF writerVars, flagVars
  <2>2. QuietControl
    BY <1>1, <1>3, <2>1 DEF IInv, Live, RingHasRoom, CurrentBytes, QuietControl
  <2>3. rows' \in Nat /\ recording' \in BOOLEAN /\ writerError' \in BOOLEAN
    BY <1>2, <1>3, <2>1 DEF Numbers
  <2> QED
    BY <1>1, <1>2, <2>2, <2>3, Quiet
<1>4. CASE Error /\ pc' = "run" /\ UNCHANGED rows
  BY <1>1, <1>2, <1>4, ErrorEffect, StopSteps
<1>5. CASE Close /\ pc' = "run"
  BY <1>1, <1>2, <1>5, CloseEffect, StopSteps
<1>6. CASE /\ ~Off /\ ~writerError /\ ~runahead
           /\ pc' = CASE NeedsSegment -> "start"
                      [] ~NeedsSegment /\ NeedsSnapshot -> "checkpoint"
                      [] OTHER -> "put"
           /\ UNCHANGED <<writerVars, flagVars, rows>>
  <2>1. UNCHANGED <<recording, pending, failed, writerError, rows>>
    BY <1>6 DEF writerVars, flagVars
  <2>2. pc' \in {"start", "checkpoint", "put"} /\ ~TooManySegments
    BY <1>1, <1>6 DEF IInv, Live, RingHasRoom
  <2>3. pc' = "checkpoint" => recording /\ segment_state_bytes <= SegmentLimit - SNAPSHOT_LIMIT
    <3> SUFFICES ASSUME pc' = "checkpoint"
                 PROVE  recording /\ segment_state_bytes <= SegmentLimit - SNAPSHOT_LIMIT
      OBVIOUS
    <3>1. ~NeedsSegment /\ NeedsSnapshot
      BY <1>6
    <3>2. recording
      BY <3>1 DEF NeedsSegment
    <3>3. rows > 0
      BY <1>1, <3>2 DEF IInv, Live, CurrentBytes
    <3>4. Discontinuity
      BY <1>2, <3>1, <3>3 DEF NeedsSnapshot
    <3>5. ~(segment_state_bytes > SegmentLimit - SNAPSHOT_LIMIT)
      BY <3>1, <3>4 DEF NeedsSegment
    <3>6. segment_state_bytes \in Int /\ SegmentLimit - SNAPSHOT_LIMIT \in Int
      BY <1>2, RecorderAssumption DEF Numbers, SegmentLimit
    <3> QED
      BY <3>2, <3>5, <3>6
  <2>4. QuietControl
    BY <1>1, <2>1, <2>2, <2>3 DEF IInv, Live, RingHasRoom, CurrentBytes, QuietControl
  <2>5. rows' \in Nat /\ recording' \in BOOLEAN /\ writerError' \in BOOLEAN
    BY <1>2, <2>1 DEF Numbers
  <2> QED
    BY <1>1, <1>2, <2>4, <2>5, Quiet
<1> QED
  BY <1>3, <1>4, <1>5, <1>6 DEF RecordBegin

\* start_segment() closes the last segment, or cannot start at all.
LEMMA StartSteps == ASSUME IInv, StartSegment \/ CannotStart PROVE IInv'
<1>1. UNCHANGED Storage /\ size' = size
  BY DEF StartSegment, CannotStart, Storage, storageVars, localVars, tapeVars
<1>2. rows \in Nat /\ size' \in Nat /\ Numbers
  BY <1>1 DEF IInv, Numbers
<1>3. CASE StartSegment
  <2>1. /\ pc = "start" /\ pc' \in {"run", "create"} /\ Close
        /\ pc' = "create" => ~failed'
    BY <1>3 DEF StartSegment
  <2>2. ~TooManySegments
    BY <2>1 DEF IInv, Live, RingHasRoom
  <2>3. QuietControl
    BY <1>2, <2>1, <2>2, CloseEffect DEF QuietControl
  <2> QED
    BY <1>1, <1>2, <2>1, <2>3, CloseEffect, Quiet
<1>4. CASE CannotStart
  <2>1. pc = "create" /\ pc' = "run" /\ Error /\ rows' = rows
    BY <1>4 DEF CannotStart, tapeVars
  <2> QED
    BY <1>1, <1>2, <2>1, ErrorEffect, StopSteps
<1> QED
  BY <1>3, <1>4

\* A new segment number; its slot may still be taken.
LEMMA CreateStep == ASSUME IInv, CreateSegment PROVE IInv'
<1>1. /\ pc = "create" /\ pc' = "retire" /\ segment' = segment + 1
      /\ UNCHANGED <<oldest_segment, segment_state_bytes, history_bytes,
                     history_sizes, rows, size, recording, failed, writerError>>
  BY DEF CreateSegment, storageVars, localVars, flagVars, writerVars
<1>2. Numbers'
  BY <1>1 DEF IInv, Numbers
<1>3. SegmentWithinLimit' /\ HistoryWithinLimit'
  BY <1>1 DEF IInv, SegmentWithinLimit, HistoryWithinLimit, SegmentLimit
<1>4. /\ Newest = segment /\ Newest' = segment /\ ~TooManySegments
      /\ ~recording /\ ~failed
  BY <1>1 DEF IInv, Live, RingHasRoom, CurrentBytes, Newest, Numbers
<1>5. Ledger'
  BY <1>1, <1>4 DEF IInv, Live, Ledger, Telescope, Slot
<1>6. oldest_segment' <= segment'
  BY <1>1, <1>4 DEF IInv, Live, Ledger, Numbers
<1>7. RingHasRoom' /\ CurrentBytes'
  BY <1>1, <1>4, <1>6 DEF RingHasRoom, CurrentBytes
<1> QED
  BY <1>2, <1>3, <1>5, <1>7 DEF IInv, Live

\* evict_segment(), from start_segment() or from write_snapshot().
LEMMA EvictStep ==
  ASSUME IInv, pc \in {"retire", "room"}, oldest_segment <= Newest, ForgetOldest,
         Accepts(Len(Eviction)), OfferAll(Eviction),
         UNCHANGED <<flagVars, pc, segment, segment_state_bytes, rows, size>>,
         pc = "room" => oldest_segment < segment
  PROVE  IInv'
<1>1. UNCHANGED <<recording, pending, failed, writerError>>
  BY DEF flagVars, OfferAll, IInv, Numbers
<1>2. oldest_segment' = oldest_segment + 1
  BY DEF ForgetOldest
<1>3. pc = "room" => ~TooManySegments
  BY DEF IInv, Live, RingHasRoom
<1>4. pc = "room" => ~TooManySegments'
  BY <1>2, <1>3, RecorderAssumption DEF TooManySegments, IInv, Numbers
<1>5. Newest' = Newest
  BY <1>3, <1>4 DEF Newest
<1>6. /\ Ledger' /\ history_bytes' \in Nat /\ history_bytes' <= history_bytes
      /\ history_sizes' \in [0..SEGMENTS-1 -> Nat]
      /\ \A s \in oldest_segment+1..Newest :
           history_sizes'[Slot(s)] = history_sizes[Slot(s)]
  BY <1>5, EvictLedger DEF IInv, Live
<1>7. Numbers'
  BY <1>1, <1>2, <1>6 DEF IInv, Numbers
<1>8. SegmentWithinLimit'
  BY DEF IInv, SegmentWithinLimit, SegmentLimit
<1>9. HistoryWithinLimit'
  BY <1>6, RecorderAssumption DEF IInv, HistoryWithinLimit, Numbers
<1>10. oldest_segment' <= segment'
  <2>1. CASE pc = "room"
    BY <1>2, <2>1 DEF IInv, Numbers
  <2>2. CASE pc = "retire"
    BY <1>2, <2>2 DEF Newest, IInv, Numbers
  <2> QED
    BY <2>1, <2>2
<1>11. RingHasRoom'
  BY <1>1, <1>4, <1>10 DEF IInv, Live, RingHasRoom
<1>12. CurrentBytes'
  <2>1. recording => pc = "room"
    BY DEF IInv, Live, RingHasRoom
  <2>2. recording => history_sizes'[Slot(segment)] = history_sizes[Slot(segment)]
    <3> SUFFICES ASSUME recording
                 PROVE  history_sizes'[Slot(segment)] = history_sizes[Slot(segment)]
      OBVIOUS
    <3>1. segment \in oldest_segment+1..Newest
      BY <1>3, <2>1 DEF Newest, IInv, Numbers
    <3> QED
      BY <1>6, <3>1
  <2>3. SegmentLimit' = SegmentLimit /\ Slot(segment)' = Slot(segment)
    BY DEF SegmentLimit, Slot
  <2> QED
    BY <1>1, <2>2, <2>3 DEF IInv, Live, CurrentBytes
<1> QED
  BY <1>7, <1>8, <1>9, <1>6, <1>11, <1>12 DEF IInv, Live

\* start_segment() retires segments until the new one has a slot.
LEMMA RetireStep == ASSUME IInv, RetireSegments PROVE IInv'
<1>1. /\ pc = "retire"
      /\ UNCHANGED <<segment, segment_state_bytes, rows, size>>
  BY DEF RetireSegments, localVars
<1>2. Numbers /\ Ledger /\ Newest = segment - 1 /\ ~recording /\ ~failed
  BY <1>1 DEF IInv, Live, RingHasRoom, CurrentBytes, Newest
<1>3. CASE TooManySegments /\ Evict
  <2>1. oldest_segment <= Newest
    BY <1>2, <1>3, RecorderAssumption DEF TooManySegments, Numbers
  <2>2. CASE /\ Accepts(Len(Eviction)) /\ OfferAll(Eviction) /\ ForgetOldest
             /\ UNCHANGED <<flagVars, pc>>
    BY <1>1, <2>1, <2>2, EvictStep
  <2>3. CASE /\ RefusedWith(Eviction) /\ pc' = "run"
             /\ UNCHANGED <<history_bytes, history_sizes, oldest_segment>>
    <3>1. UNCHANGED Storage
      BY <1>1, <2>3 DEF Storage
    <3>2. recording' = FALSE /\ writerError' = TRUE
      BY <1>2, <2>3, RefusedEffect
    <3>3. rows' \in Nat /\ size' \in Nat
      BY <1>1, <1>2 DEF Numbers
    <3> QED
      BY <1>1, <1>3, <2>3, <3>1, <3>2, <3>3, StopSteps
  <2> QED
    BY <1>3, <2>2, <2>3 DEF Evict
<1>4. CASE /\ ~TooManySegments /\ pc' = "open"
           /\ UNCHANGED <<writerVars, flagVars, history_bytes, history_sizes,
                          oldest_segment>>
  <2>1. UNCHANGED <<recording, failed, writerError>>
    BY <1>4 DEF writerVars, flagVars
  <2>2. Numbers' /\ SegmentWithinLimit' /\ HistoryWithinLimit'
    BY <1>1, <1>2, <1>4, <2>1
    DEF IInv, Numbers, SegmentWithinLimit, HistoryWithinLimit, SegmentLimit
  <2>3. ~TooManySegments' /\ Newest' = segment /\ segment - oldest_segment < SEGMENTS
    BY <1>1, <1>2, <1>4, RecorderAssumption DEF TooManySegments, Newest, Numbers
  <2>4. Ledger' /\ history_sizes[Slot(segment)] = 0
    BY <1>1, <1>2, <1>4, <2>3, OpenLedger
  <2>5. oldest_segment <= segment
    BY <1>2 DEF Ledger, Numbers
  <2>6. RingHasRoom'
    BY <1>1, <1>2, <1>4, <2>1, <2>3, <2>5 DEF RingHasRoom
  <2>7. CurrentBytes'
    BY <1>1, <1>2, <1>4, <2>1, <2>4 DEF CurrentBytes, Slot
  <2> QED
    BY <2>2, <2>4, <2>6, <2>7 DEF IInv, Live
<1> QED
  BY <1>3, <1>4 DEF RetireSegments

\* start_segment() opens the segment, or gives up.
LEMMA OpenStep == ASSUME IInv, OpenSegment PROVE IInv'
<1>1. /\ pc = "open" /\ segment_state_bytes' = 0
      /\ UNCHANGED <<segment, oldest_segment, history_bytes, history_sizes, rows, size>>
  BY DEF OpenSegment, NewSegment, localVars
<1>2. /\ Numbers /\ Ledger /\ ~failed /\ ~TooManySegments
      /\ Newest = segment /\ oldest_segment <= segment
      /\ history_sizes[Slot(segment)] = 0
  BY <1>1 DEF IInv, Live, RingHasRoom, CurrentBytes, Newest
<1>3. /\ recording' \in BOOLEAN /\ writerError' \in BOOLEAN
      /\ \/ recording' /\ ~failed' /\ pc' \in {"checkpoint", "put"}
         \/ ~recording' /\ pc' = "run"
  <2>1. CASE /\ Offer(BeginCmd(segment)) /\ recording' = TRUE
             /\ pc' = IF NeedsSnapshot THEN "checkpoint" ELSE "put"
             /\ UNCHANGED <<failed, pending>>
    BY <1>2, <2>1, OfferLatches DEF Offer
  <2>2. CASE RefusedWith(<<BeginCmd(segment)>>) /\ pc' = "run"
    BY <1>2, <2>2, RefusedEffect
  <2>3. CASE Error /\ pc' = "run"
    BY <1>2, <2>3, ErrorEffect
  <2> QED
    BY <2>1, <2>2, <2>3 DEF OpenSegment
<1>4. Numbers'
  BY <1>1, <1>2, <1>3 DEF Numbers
<1>5. /\ 0 <= SegmentLimit - SNAPSHOT_LIMIT /\ 0 <= SegmentLimit
      /\ SegmentLimit' = SegmentLimit
  BY RecorderAssumption DEF SegmentLimit
<1>6. SegmentWithinLimit' /\ HistoryWithinLimit'
  BY <1>1, <1>5 DEF IInv, SegmentWithinLimit, HistoryWithinLimit
<1>7. ~TooManySegments' /\ Newest' = Newest
  BY <1>1, <1>2, <1>3 DEF TooManySegments, Newest
<1>8. Ledger'
  BY <1>1, <1>2, <1>7 DEF Ledger, Telescope, Slot
<1>9. RingHasRoom'
  BY <1>1, <1>2, <1>3, <1>7 DEF RingHasRoom
<1>10. CurrentBytes'
  BY <1>1, <1>2, <1>3, <1>5 DEF CurrentBytes, Slot
<1> QED
  BY <1>4, <1>6, <1>8, <1>9, <1>10 DEF IInv, Live

\* write_snapshot() serialises the machine.
LEMMA TakeStep == ASSUME IInv, NEW n \in SnapshotSizes, TakeSnapshot(n) PROVE IInv'
<1>1. /\ pc = "checkpoint" /\ size' = n /\ n \in Nat /\ UNCHANGED Storage
      /\ rows' = rows
  BY RecorderAssumption DEF TakeSnapshot, Storage, storageVars, tapeVars
<1>2. /\ Numbers /\ rows' \in Nat /\ size' \in Nat /\ recording
      /\ segment_state_bytes <= SegmentLimit - SNAPSHOT_LIMIT /\ ~TooManySegments
  BY <1>1 DEF IInv, Numbers, Live, RingHasRoom, CurrentBytes
<1>3. CASE Serializable(n) /\ pc' = "room" /\ UNCHANGED <<writerVars, flagVars>>
  <2>1. UNCHANGED <<recording, pending, failed, writerError>>
    BY <1>3 DEF writerVars, flagVars
  <2>2. size' <= SNAPSHOT_LIMIT
    BY <1>1, <1>3 DEF Serializable
  <2>3. failed' => ~recording'
    BY <1>1, <2>1 DEF IInv, Live, CurrentBytes
  <2>4. QuietControl
    BY <1>1, <1>2, <1>3, <2>1, <2>2, <2>3 DEF QuietControl
  <2>5. recording' \in BOOLEAN /\ writerError' \in BOOLEAN
    BY <1>2, <2>1 DEF Numbers
  <2> QED
    BY <1>1, <1>2, <2>4, <2>5, Quiet
<1>4. CASE Error /\ pc' = "run"
  BY <1>1, <1>2, <1>4, ErrorEffect, StopSteps
<1> QED
  BY <1>3, <1>4 DEF TakeSnapshot

\* write_snapshot() evicts while there is no room.
LEMMA RoomStep == ASSUME IInv, MakeRoom PROVE IInv'
<1>1. /\ pc = "room" /\ oldest_segment < segment /\ Evict
      /\ UNCHANGED <<segment, segment_state_bytes, rows, size>>
  BY DEF MakeRoom, NoRoom, localVars
<1>2. Numbers /\ ~TooManySegments /\ oldest_segment <= Newest
  BY <1>1 DEF IInv, Numbers, Live, RingHasRoom, Newest
<1>3. CASE /\ Accepts(Len(Eviction)) /\ OfferAll(Eviction) /\ ForgetOldest
           /\ UNCHANGED <<flagVars, pc>>
  BY <1>1, <1>2, <1>3, EvictStep
<1>4. CASE /\ RefusedWith(Eviction) /\ pc' = "run"
           /\ UNCHANGED <<history_bytes, history_sizes, oldest_segment>>
  <2>1. UNCHANGED Storage
    BY <1>1, <1>4 DEF Storage
  <2>2. rows' \in Nat /\ size' \in Nat
    BY <1>1, <1>2 DEF Numbers
  <2> QED
    BY <1>1, <1>2, <1>4, <2>1, <2>2, RefusedEffect, StopSteps
<1> QED
  BY <1>1, <1>3, <1>4 DEF Evict

\* When only the current segment is left its bytes are all there are.
LEMMA OnlyCurrent ==
  ASSUME Numbers, Ledger, Newest = segment, oldest_segment = segment
  PROVE  history_bytes = history_sizes[Slot(segment)]
<1>1. PICK B : Telescope(B, segment, segment)
  BY DEF Ledger
<1>2. segment \in segment..segment
  BY DEF Numbers
<1>3. Slot(segment) \in 0..SEGMENTS-1
  BY SlotInRing DEF Numbers
<1>4. history_bytes = 0 + history_sizes[Slot(segment)]
  BY <1>1, <1>2 DEF Telescope
<1> QED
  BY <1>3, <1>4 DEF Numbers

\* write_snapshot() hands the image over: the step that uses up the budget.
LEMMA PutSnapshotStep == ASSUME IInv, PutSnapshot PROVE IInv'
<1>1. /\ pc = "room" /\ ~NoRoom
      /\ UNCHANGED <<segment, oldest_segment, rows, size>>
  BY DEF PutSnapshot, localVars, tapeVars
<1>2. /\ Numbers /\ Ledger /\ ~TooManySegments /\ Newest = segment
      /\ oldest_segment <= segment /\ recording /\ ~failed
      /\ size <= SNAPSHOT_LIMIT
      /\ segment_state_bytes <= SegmentLimit - SNAPSHOT_LIMIT
      /\ history_sizes[Slot(segment)] = segment_state_bytes
  BY <1>1 DEF IInv, Live, RingHasRoom, CurrentBytes, Newest
<1>3. CASE /\ Offer(SnapshotCmd(Image)) /\ CountSnapshot
           /\ pc' = "put" /\ UNCHANGED flagVars
  <2>1. recording' = recording /\ failed' = failed /\ writerError' \in BOOLEAN
    BY <1>2, <1>3, OfferLatches DEF Offer, flagVars
  <2>2. /\ segment_state_bytes' = segment_state_bytes + size
        /\ history_bytes' = history_bytes + size
    BY <1>3 DEF CountSnapshot
  <2>3. ~TooManySegments' /\ Newest' = segment
    BY <1>1, <1>2, <1>3 DEF TooManySegments, Newest
  <2>4. /\ Ledger' /\ history_sizes' \in [0..SEGMENTS-1 -> Nat]
        /\ history_sizes'[Slot(segment)] = segment_state_bytes + size
    BY <1>1, <1>2, <1>3, <2>3, CountLedger
  <2>5. segment_state_bytes + size <= SegmentLimit /\ SegmentLimit <= HISTORY_LIMIT
    BY <1>2, RecorderAssumption DEF SegmentLimit, Numbers
  <2>6. history_bytes + size <= HISTORY_LIMIT
    <3>1. CASE oldest_segment < segment
      BY <1>1, <1>2, <3>1, RecorderAssumption DEF NoRoom, Numbers
    <3>2. CASE oldest_segment = segment
      BY <1>2, <2>5, <3>2, OnlyCurrent, RecorderAssumption DEF Numbers, SegmentLimit
    <3> QED
      BY <1>2, <3>1, <3>2 DEF Numbers
  <2>7. Numbers'
    <3>1. segment_state_bytes' \in Nat /\ history_bytes' \in Nat
      BY <1>2, <2>2 DEF Numbers
    <3> QED
      BY <1>1, <1>2, <2>1, <2>4, <3>1 DEF Numbers
  <2>8. SegmentWithinLimit' /\ HistoryWithinLimit'
    BY <2>2, <2>5, <2>6 DEF SegmentWithinLimit, HistoryWithinLimit, SegmentLimit
  <2>9. RingHasRoom'
    BY <1>1, <1>2, <1>3, <2>3 DEF RingHasRoom
  <2>10. CurrentBytes'
    BY <1>1, <1>2, <1>3, <2>1, <2>2, <2>4 DEF CurrentBytes, Slot
  <2> QED
    BY <2>4, <2>7, <2>8, <2>9, <2>10 DEF IInv, Live
<1>4. CASE /\ RefusedWith(<<SnapshotCmd(Image)>>)
           /\ pc' = "run" /\ UNCHANGED storageVars
  <2>1. UNCHANGED Storage
    BY <1>1, <1>4 DEF Storage, storageVars
  <2>2. rows' \in Nat /\ size' \in Nat
    BY <1>1, <1>2 DEF Numbers
  <2> QED
    BY <1>1, <1>2, <1>4, <2>1, <2>2, RefusedEffect, StopSteps
<1> QED
  BY <1>3, <1>4 DEF PutSnapshot

\* The input row, and the H row at the end of the frame.
LEMMA PutInputStep == ASSUME IInv, PutInput PROVE IInv'
<1>1. /\ pc = "put" /\ pc' = "run" /\ rows' = rows /\ size' = size /\ UNCHANGED Storage
  BY DEF PutInput, Storage, storageVars, localVars
<1>2. Numbers /\ rows' \in Nat /\ size' \in Nat /\ ~TooManySegments
  BY <1>1 DEF IInv, Numbers, Live, RingHasRoom
<1>3. CASE /\ Offer(LineCmd(InputRow)) /\ pending' = TRUE
           /\ UNCHANGED <<failed, recording>>
  <2>1. writerError' \in BOOLEAN /\ (writerError => writerError')
    BY <1>2, <1>3, OfferLatches DEF Offer
  <2>2. QuietControl
    BY <1>1, <1>2, <1>3, <2>1 DEF IInv, Live, CurrentBytes, QuietControl
  <2>3. recording' \in BOOLEAN
    BY <1>2, <1>3 DEF Numbers
  <2> QED
    BY <1>1, <1>2, <2>1, <2>2, <2>3, Quiet
<1>4. CASE RefusedWith(<<LineCmd(InputRow)>>)
  BY <1>1, <1>2, <1>4, RefusedEffect, StopSteps
<1> QED
  BY <1>3, <1>4 DEF PutInput

\* MmxReplayEnd() counts the frame, or stops the recording.
LEMMA FrameEndStep == ASSUME IInv, FrameEnd PROVE IInv'
<1>1. pc = "end" /\ pc' = "idle" /\ size' = size /\ UNCHANGED Storage
  BY DEF FrameEnd, Storage, storageVars, localVars
<1>2. /\ Numbers /\ size' \in Nat
      /\ recording => (rows > 0 \/ pending) /\ ~failed
  BY <1>1 DEF IInv, Numbers, Live, CurrentBytes
<1>3. CASE (~pending \/ failed) /\ UNCHANGED <<writerVars, flagVars, rows>>
  <2>1. UNCHANGED <<recording, pending, failed, writerError, rows>>
    BY <1>3 DEF writerVars, flagVars
  <2>2. QuietControl
    BY <1>1, <1>2, <1>3, <2>1 DEF QuietControl
  <2>3. rows' \in Nat /\ recording' \in BOOLEAN /\ writerError' \in BOOLEAN
    BY <1>2, <2>1 DEF Numbers
  <2> QED
    BY <1>1, <1>2, <2>2, <2>3, Quiet
<1>4. CASE ~failed /\ recording /\ RecordEnd
  <2>1. rows' = rows + 1
    BY <1>4 DEF RecordEnd
  <2>2. rows' \in Nat /\ rows' > 0
    BY <1>2, <2>1 DEF Numbers
  <2>3. CASE RefusedWith(<<FrameCmd(HashRow)>>)
    BY <1>1, <1>2, <2>2, <2>3, RefusedEffect, StopSteps
  <2>4. CASE /\ Offer(FrameCmd(HashRow)) /\ UNCHANGED <<failed, recording>>
    <3>1. writerError' \in BOOLEAN /\ (writerError => writerError')
      BY <1>2, <2>4, OfferLatches DEF Offer
    <3>2. QuietControl
      BY <1>1, <1>4, <2>2, <2>4, <3>1 DEF QuietControl
    <3>3. recording' \in BOOLEAN
      BY <1>2, <2>4 DEF Numbers
    <3> QED
      BY <1>1, <1>2, <2>2, <3>1, <3>2, <3>3, Quiet
  <2> QED
    BY <1>4, <2>3, <2>4 DEF RecordEnd
<1>5. CASE ~recording /\ UNCHANGED <<writerVars, failed, recording, rows>>
  <2>1. UNCHANGED writerError
    BY <1>5 DEF writerVars
  <2>2. QuietControl
    BY <1>1, <1>5, <2>1 DEF QuietControl
  <2>3. rows' \in Nat /\ recording' \in BOOLEAN /\ writerError' \in BOOLEAN
    BY <1>2, <1>5, <2>1 DEF Numbers
  <2> QED
    BY <1>1, <1>2, <2>1, <2>2, <2>3, Quiet
<1> QED
  BY <1>3, <1>4, <1>5 DEF FrameEnd

\* The Developer option, and the end of the program.
LEMMA EnableStep == ASSUME IInv, NEW on \in BOOLEAN, Enable(on) PROVE IInv'
<1>1. pc = "idle" /\ pc' = "idle" /\ size' = size /\ UNCHANGED Storage
  BY DEF Enable, HostEvent, quiet, Storage, storageVars, localVars
<1>2. Numbers /\ size' \in Nat
  BY <1>1 DEF IInv, Numbers
<1>3. CASE Close
  BY <1>1, <1>2, <1>3, CloseEffect, StopSteps
<1>4. CASE /\ failed' = (failed /\ enabled)
           /\ UNCHANGED <<writerVars, recording, pending, rows>>
  <2>1. UNCHANGED writerError
    BY <1>4 DEF writerVars
  <2>2. QuietControl
    BY <1>1, <1>4, <2>1 DEF IInv, Live, RingHasRoom, CurrentBytes, QuietControl
  <2>3. rows' \in Nat /\ recording' \in BOOLEAN /\ writerError' \in BOOLEAN
    BY <1>2, <1>4, <2>1 DEF Numbers
  <2> QED
    BY <1>1, <1>2, <2>1, <2>2, <2>3, Quiet
<1> QED
  BY <1>3, <1>4 DEF Enable

\* MmxReplayShutdown() closes the segment.
LEMMA ShutdownStep == ASSUME IInv, Shutdown PROVE IInv'
<1>1. /\ pc = "idle" /\ pc' = "drain" /\ size' = size /\ UNCHANGED Storage /\ Close
  BY DEF Shutdown, Storage, storageVars, localVars
<1>2. Numbers /\ size' \in Nat
  BY <1>1 DEF IInv, Numbers
<1> QED
  BY <1>1, <1>2, CloseEffect, StopSteps

\* Once the process is gone nothing is kept but the numbers.
LEMMA EndOfProcess == ASSUME IInv, Drained \/ Crash \/ Gone PROVE IInv'
<1>1. /\ pc' = "gone" /\ UNCHANGED Storage
      /\ UNCHANGED <<rows, size, recording, writerError>>
  BY DEF Drained, Crash, Gone, vars, Storage, storageVars, tapeVars, flagVars,
     localVars, writerVars
<1> QED
  BY <1>1, GoneStep

\* Nothing happens.
LEMMA Stutter == ASSUME IInv, UNCHANGED vars PROVE IInv'
<1>1. /\ UNCHANGED Storage
      /\ UNCHANGED <<rows, size, recording, pending, failed, writerError, pc>>
  BY DEF vars, Storage, storageVars, tapeVars, flagVars, localVars, writerVars
<1>2. CASE pc = "gone"
  BY <1>1, <1>2, GoneStep
<1>3. CASE pc # "gone"
  <2>1. QuietControl
    BY <1>1, <1>3 DEF IInv, Live, RingHasRoom, CurrentBytes, QuietControl
  <2>2. /\ rows' \in Nat /\ size' \in Nat /\ recording' \in BOOLEAN
        /\ writerError' \in BOOLEAN
    BY <1>1 DEF IInv, Numbers
  <2> QED
    BY <1>1, <1>3, <2>1, <2>2, Quiet
<1> QED
  BY <1>2, <1>3

-----------------------------------------------------------------------------
(***************************************************************************)
(* The theorems.                                                             *)
(***************************************************************************)
\* A session starts with an empty ring.
LEMMA Initially == RecorderInit => IInv
<1> SUFFICES ASSUME RecorderInit PROVE IInv
  OBVIOUS
<1>1. /\ segment = 0 /\ oldest_segment = 1 /\ segment_state_bytes = 0
      /\ history_bytes = 0 /\ history_sizes = [k \in 0..SEGMENTS-1 |-> 0]
      /\ pc = "idle" /\ ~recording /\ ~failed
  BY DEF RecorderInit
<1>2. Numbers
  BY DEF RecorderInit, WriterInit, Numbers
<1>3. SegmentWithinLimit /\ HistoryWithinLimit
  BY <1>1, RecorderAssumption DEF SegmentWithinLimit, HistoryWithinLimit, SegmentLimit
<1>4. ~TooManySegments /\ Newest = 0
  BY <1>1, RecorderAssumption DEF TooManySegments, Newest
<1>5. \E B : Telescope(B, 1, 0)
  <2> DEFINE C == [s \in Nat |-> 0]
  <2> WITNESS C
  <2> QED
    BY <1>1 DEF Telescope
<1>6. Ledger
  BY <1>1, <1>4, <1>5, RecorderAssumption DEF Ledger
<1>7. RingHasRoom /\ CurrentBytes
  BY <1>1, <1>4 DEF RingHasRoom, CurrentBytes
<1> QED
  BY <1>2, <1>3, <1>6, <1>7 DEF IInv, Live

\* Every step of the game thread, the host and the worker keeps IInv.
LEMMA Inductive == IInv /\ [RecorderNext]_vars => IInv'
<1> SUFFICES ASSUME IInv, [RecorderNext]_vars PROVE IInv'
  OBVIOUS
<1>1. CASE GameStep
  BY <1>1, RecordBeginStep, StartSteps, CreateStep, RetireStep, OpenStep, TakeStep,
     RoomStep, PutSnapshotStep, PutInputStep, HostSteps, FrameEndStep DEF GameStep
<1>2. CASE HostStep
  BY <1>2, HostSteps, EnableStep, ShutdownStep DEF HostStep
<1>3. CASE Worker
  BY <1>3, WorkerSteps
<1>4. CASE Drained \/ Crash \/ Gone
  BY <1>4, EndOfProcess
<1>5. CASE UNCHANGED vars
  BY <1>5, Stutter
<1> QED
  BY <1>1, <1>2, <1>3, <1>4, <1>5 DEF RecorderNext

\* The ledger of the ring is exact in the sense of IInv in every reachable
\* state, for every size of ring, segment, image and budget.
THEOREM RecorderInvariant == RecorderSpec => []IInv
<1>1. RecorderInit => IInv
  BY Initially
<1>2. IInv /\ [RecorderNext]_vars => IInv'
  BY Inductive
<1> QED
  BY <1>1, <1>2, PTL DEF RecorderSpec

\* The images of a session never use more than the storage budget:
\* write_snapshot() counts what it adds, and when it cannot evict any more the
\* current segment alone leaves room for one image.
THEOREM RecorderHistory == RecorderSpec => []HistoryWithinLimit
<1>1. IInv => HistoryWithinLimit
  BY DEF IInv
<1> QED
  BY <1>1, RecorderInvariant, PTL

\* The images of one segment never use more than a segment may: record_begin()
\* starts a new one while there is still room for an image.
THEOREM RecorderSegment == RecorderSpec => []SegmentWithinLimit
<1>1. IInv => SegmentWithinLimit
  BY DEF IInv
<1> QED
  BY <1>1, RecorderInvariant, PTL

-----------------------------------------------------------------------------
(***************************************************************************)
(* The flags.  record_begin() only reaches its later steps with a segment    *)
(* open and no failure, which is what makes FailureStopsCapture inductive.   *)
(***************************************************************************)
FInv ==
  /\ FailureStopsCapture
  /\ pc \in {"checkpoint", "room", "put"} => recording
  /\ pc \in {"create", "retire", "open"} => ~failed

\* error(), a refused command and MmxReplayClose() leave nothing half done.
Stopped == ~recording' /\ ~pending' /\ pc' \in {"idle", "run", "drain"}

\* Stopping satisfies FInv.
LEMMA StoppedIsFine == Stopped => FInv'
  BY DEF Stopped, FInv, FailureStopsCapture

\* MmxReplayClose() leaves neither an open segment nor a pending input.
LEMMA CloseStops == Close => ~recording' /\ ~pending'
  BY DEF Close, EndSegment

\* Steps that change none of the flags and enter none of the guarded steps.
LEMMA FlagsKept ==
  ASSUME FInv, UNCHANGED flagVars,
         pc' \in {"checkpoint", "room", "put"} => recording,
         pc' \in {"create", "retire", "open"} => ~failed
  PROVE  FInv'
  BY DEF FInv, FailureStopsCapture, flagVars

\* The steps of MmxReplayBegin, of the frame and of MmxReplayEnd keep FInv.
LEMMA FlagsGame == ASSUME FInv, GameStep PROVE FInv'
<1>1. CASE RecordBegin
  <2>1. CASE Off /\ pc' = "run" /\ UNCHANGED <<writerVars, flagVars, rows>>
    BY <2>1, FlagsKept
  <2>2. CASE Error /\ pc' = "run"
    BY <2>2, StoppedIsFine DEF Error, Stopped
  <2>3. CASE Close /\ pc' = "run"
    BY <2>3, CloseStops, StoppedIsFine DEF Stopped
  <2>4. CASE /\ pc' = CASE NeedsSegment -> "start"
                        [] ~NeedsSegment /\ NeedsSnapshot -> "checkpoint"
                        [] OTHER -> "put"
             /\ UNCHANGED <<writerVars, flagVars, rows>>
    <3>1. pc' \in {"start", "checkpoint", "put"} /\ (pc' # "start" => ~NeedsSegment)
      BY <2>4
    <3>2. ~NeedsSegment => recording
      BY DEF NeedsSegment
    <3>3. UNCHANGED flagVars
      BY <2>4
    <3> QED
      BY <3>1, <3>2, <3>3, FlagsKept
  <2> QED
    BY <1>1, <2>1, <2>2, <2>3, <2>4 DEF RecordBegin
<1>2. CASE StartSegment
  <2>1. ~recording' /\ ~pending' /\ pc' \in {"run", "create"} /\ (pc' = "create" => ~failed')
    BY <1>2, CloseStops DEF StartSegment
  <2> QED
    BY <2>1 DEF FInv, FailureStopsCapture
<1>3. CASE CreateSegment
  BY <1>3, FlagsKept DEF CreateSegment, FInv
<1>4. CASE CannotStart
  BY <1>4, StoppedIsFine DEF CannotStart, Error, Stopped
<1>5. CASE RetireSegments \/ MakeRoom
  <2>1. CASE Evict
    <3>1. CASE UNCHANGED <<flagVars, pc>>
      BY <3>1, FlagsKept DEF FInv
    <3>2. CASE RefusedWith(Eviction) /\ pc' = "run"
      BY <3>2, StoppedIsFine DEF RefusedWith, Stopped
    <3> QED
      BY <2>1, <3>1, <3>2 DEF Evict
  <2>2. CASE pc = "retire" /\ pc' = "open" /\ UNCHANGED flagVars
    BY <2>2, FlagsKept DEF FInv
  <2> QED
    BY <1>5, <2>1, <2>2 DEF RetireSegments, MakeRoom
<1>6. CASE OpenSegment
  <2>1. ~failed
    BY <1>6 DEF OpenSegment, FInv
  <2>2. CASE /\ recording' = TRUE
             /\ pc' = IF NeedsSnapshot THEN "checkpoint" ELSE "put"
             /\ UNCHANGED <<failed, pending>>
    BY <2>1, <2>2 DEF FInv, FailureStopsCapture
  <2>3. CASE RefusedWith(<<BeginCmd(segment)>>) /\ pc' = "run"
    BY <2>3, StoppedIsFine DEF RefusedWith, Stopped
  <2>4. CASE Error /\ pc' = "run"
    BY <2>4, StoppedIsFine DEF Error, Stopped
  <2> QED
    BY <1>6, <2>2, <2>3, <2>4 DEF OpenSegment
<1>7. ASSUME NEW n \in SnapshotSizes, TakeSnapshot(n) PROVE FInv'
  <2>1. CASE pc' = "room" /\ UNCHANGED flagVars
    BY <1>7, <2>1, FlagsKept DEF FInv, TakeSnapshot
  <2>2. CASE Error /\ pc' = "run"
    BY <2>2, StoppedIsFine DEF Error, Stopped
  <2> QED
    BY <1>7, <2>1, <2>2 DEF TakeSnapshot
<1>8. CASE PutSnapshot
  <2>1. CASE pc' = "put" /\ UNCHANGED flagVars
    BY <1>8, <2>1, FlagsKept DEF FInv, PutSnapshot
  <2>2. CASE RefusedWith(<<SnapshotCmd(Image)>>) /\ pc' = "run"
    BY <2>2, StoppedIsFine DEF RefusedWith, Stopped
  <2> QED
    BY <1>8, <2>1, <2>2 DEF PutSnapshot
<1>9. CASE PutInput
  <2>1. recording /\ pc' = "run"
    BY <1>9 DEF PutInput, FInv
  <2>2. CASE pending' = TRUE /\ UNCHANGED <<failed, recording>>
    BY <2>1, <2>2 DEF FInv, FailureStopsCapture
  <2>3. CASE RefusedWith(<<LineCmd(InputRow)>>)
    BY <2>1, <2>3, StoppedIsFine DEF RefusedWith, Stopped
  <2> QED
    BY <1>9, <2>2, <2>3 DEF PutInput
<1>10. CASE RunFrame
  BY <1>10, FlagsKept DEF RunFrame
<1>11. CASE FrameEnd
  <2>1. pc' = "idle"
    BY <1>11 DEF FrameEnd
  <2>2. CASE UNCHANGED flagVars
    BY <2>1, <2>2, FlagsKept
  <2>3. CASE pending' = FALSE /\ UNCHANGED <<failed, recording>>
    BY <2>1, <2>3 DEF FInv, FailureStopsCapture
  <2>4. CASE RefusedWith(<<FrameCmd(HashRow)>>)
    BY <2>1, <2>4, StoppedIsFine DEF RefusedWith, Stopped
  <2> QED
    BY <1>11, <2>2, <2>3, <2>4 DEF FrameEnd, RecordEnd
<1> QED
  BY <1>1, <1>2, <1>3, <1>4, <1>5, <1>6, <1>7, <1>8, <1>9, <1>10, <1>11
  DEF GameStep

\* The steps of the host, the worker and the end of the process keep FInv.
LEMMA FlagsOther ==
  ASSUME FInv, HostStep \/ Worker \/ Drained \/ Crash \/ Gone \/ UNCHANGED vars
  PROVE  FInv'
<1>1. ASSUME NEW in \in Inputs, BeginFrame(in) PROVE FInv'
  BY <1>1, FlagsKept DEF BeginFrame
<1>2. ASSUME NEW on \in BOOLEAN, Enable(on) PROVE FInv'
  <2>1. pc' = "idle"
    BY <1>2 DEF Enable, HostEvent, quiet
  <2>2. CASE Close
    BY <2>1, <2>2, CloseStops, StoppedIsFine DEF Stopped
  <2>3. CASE failed' = (failed /\ enabled) /\ UNCHANGED <<recording, pending>>
    BY <2>1, <2>3 DEF FInv, FailureStopsCapture
  <2> QED
    BY <1>2, <2>2, <2>3 DEF Enable
<1>3. CASE \/ \E saved \in SavedStates, rollback \in BOOLEAN : Load(saved, rollback)
           \/ Reset \/ ToggleRunahead \/ \E v \in Views : ChangeView(v)
  <2>1. pc' = "idle" /\ UNCHANGED flagVars
    BY <1>3 DEF Load, Reset, ToggleRunahead, ChangeView, HostEvent, quiet
  <2> QED
    BY <2>1, FlagsKept
<1>4. CASE Shutdown
  BY <1>4, CloseStops, StoppedIsFine DEF Shutdown, Stopped
<1>5. CASE Worker \/ UNCHANGED vars
  BY <1>5, FlagsKept DEF Worker, vars, FInv
<1>6. CASE Drained \/ Crash \/ Gone
  BY <1>6, FlagsKept DEF Drained, Crash, Gone, vars
<1> QED
  BY <1>1, <1>2, <1>3, <1>4, <1>5, <1>6 DEF HostStep

\* However the writer and the host fail, capture never half stops: a failed
\* recorder has no open segment, and an input that waits for its H row belongs
\* to an open segment.
THEOREM RecorderFailure == RecorderSpec => []FailureStopsCapture
<1>1. RecorderInit => FInv
  BY DEF RecorderInit, FInv, FailureStopsCapture
<1>2. FInv /\ [RecorderNext]_vars => FInv'
  BY FlagsGame, FlagsOther DEF RecorderNext
<1>3. FInv => FailureStopsCapture
  BY DEF FInv
<1> QED
  BY <1>1, <1>2, <1>3, PTL DEF RecorderSpec

-----------------------------------------------------------------------------
(*****************************************************************************)
(* The command queue between the recorder and its worker, seen as a promise: *)
(* each queued command meets the files in a state where the archive allows   *)
(* what it does, and where it fits on disk (Legal).  The game thread only has*)
(* to look at the state in which the files will be once everything queued is *)
(* applied (Becomes).                                                        *)
(*****************************************************************************)
States == [disk : [SegmentIds -> FileSet], open : 0..MaxSegment]

Now == [disk |-> disk, open |-> openSeg]

Did(st, cmd) == [disk |-> Applied(st.disk, st.open, cmd),
                 open |-> OpenThen(st.open, cmd)]

\* The tape being written in st, and the tape with one more row.
Written(st) == st.disk[st.open]
Longer(file, row) == [file EXCEPT !.rows = Append(@, row)]

LastRow(file) == file.rows[Len(file.rows)]

\* The tape ends where a frame can begin: with a completed one, or empty.
AtFrame(file) == file.rows = <<>> \/ LastRow(file).kind = "H"

\* The segments that have a tape.
Taped(files) == {t \in SegmentIds : files[t].replay}

Legal(st, cmd) ==
  /\ cmd.op = "begin" =>
       /\ st.open = 0 /\ \A t \in SegmentIds : t >= cmd.seg => st.disk[t] = NoFiles
       /\ Cardinality(Taped(st.disk)) < SEGMENTS
  /\ cmd.op = "end" => st.open # 0 /\ AtFrame(Written(st))
  /\ cmd.op \in SegmentCmds => st.open # 0 /\ Written(st).replay
  /\ cmd.op = "snapshot" =>
       /\ Chained(ApplySnapshot(Written(st), cmd.image), Len(Written(st).rows) + 1)
       /\ DiskBytes(st.disk) + cmd.image.size <= HISTORY_LIMIT
  /\ cmd.op \in {"line", "frame"} =>
       /\ cmd.row.kind # "S"
       /\ Chained(Longer(Written(st), cmd.row), Len(Written(st).rows) + 1)
  /\ cmd.op = "remove_replay" =>
       /\ cmd.seg # st.open
       /\ \A t \in SegmentIds : t < cmd.seg => ~st.disk[t].replay
  /\ cmd.op = "remove_sav" => cmd.seg # st.open /\ ~st.disk[cmd.seg].replay

\* Taking the commands q one by one from the state first is legal, and leads to
\* the state last.  F[n] is the state after n commands.
Path(F, first, q) ==
  /\ F \in [Nat -> States] /\ F[0] = first
  /\ \A n \in 1..Len(q) : Legal(F[n - 1], q[n]) /\ F[n] = Did(F[n - 1], q[n])

Leads(first, q, last) == \E F : Path(F, first, q) /\ F[Len(q)] = last

\* The files will be st once the queue is empty.
Becomes(st) ==
  /\ queue \in Seq(CmdSet) /\ Len(queue) <= QueueCap
  /\ Leads(Now, queue, st)

-----------------------------------------------------------------------------
(***************************************************************************)
(* Types.                                                                    *)
(***************************************************************************)
\* What each command carries.
LEMMA CmdParts ==
  ASSUME NEW cmd \in CmdSet
  PROVE  /\ cmd.op \in {"begin", "remove_replay", "remove_sav", "end", "snapshot",
                        "line", "frame"}
         /\ cmd.op \in {"begin", "remove_replay", "remove_sav"} => cmd.seg \in SegmentIds
         /\ cmd.op = "snapshot" => cmd.image \in ImageSet
         /\ cmd.op \in {"line", "frame"} => cmd.row \in RowSet
  BY DEF CmdSet

\* A file that grows by a row, or by an image and its row, is a file.
LEMMA LongerTyped ==
  ASSUME NEW file \in FileSet
  PROVE  /\ \A row \in RowSet : Longer(file, row) \in FileSet
         /\ \A image \in ImageSet : ApplySnapshot(file, image) \in FileSet
<1> DEFINE SR == Seq(RowSet)
           SI == Seq(ImageSet)
<1>1. /\ file \in [replay : BOOLEAN, sav : BOOLEAN, rows : SR, images : SI]
  BY DEF FileSet
<1>2. \A row \in RowSet : Append(file.rows, row) \in SR
  BY <1>1
<1>3. \A image \in ImageSet : Append(file.images, image) \in SI
  BY <1>1
<1>4. [kind |-> "S", image |-> Len(file.images) + 1] \in RowSet
  <2>1. Len(file.images) + 1 \in Nat
    BY <1>1
  <2> QED
    BY <2>1 DEF RowSet
<1> HIDE DEF SR, SI
<1> QED
  BY <1>1, <1>2, <1>3, <1>4 DEF FileSet, SR, SI, Longer, ApplySnapshot

\* A file that loses its tape or its images is a file.
LEMMA ShorterTyped ==
  ASSUME NEW file \in FileSet
  PROVE  /\ [file EXCEPT !.replay = FALSE, !.rows = <<>>] \in FileSet
         /\ [file EXCEPT !.sav = FALSE, !.images = <<>>] \in FileSet
<1> DEFINE SR == Seq(RowSet)
           SI == Seq(ImageSet)
<1>1. file \in [replay : BOOLEAN, sav : BOOLEAN, rows : SR, images : SI]
  BY DEF FileSet
<1>2. <<>> \in SR /\ <<>> \in SI
  OBVIOUS
<1> HIDE DEF SR, SI
<1> QED
  BY <1>1, <1>2 DEF FileSet, SR, SI

\* The empty files have their type, too.
LEMMA EmptyTyped ==
  /\ NoFiles \in FileSet
  /\ [replay |-> TRUE, sav |-> TRUE, rows |-> <<>>, images |-> <<>>] \in FileSet
  BY DEF NoFiles, FileSet

\* A legal command leads from a state of the files to another one.
LEMMA DidTyped ==
  ASSUME NEW st \in States, NEW cmd \in CmdSet, Legal(st, cmd)
  PROVE  Did(st, cmd) \in States
<1>1. st.disk \in [SegmentIds -> FileSet] /\ st.open \in 0..MaxSegment
  BY DEF States
<1>2. 0 \in 0..MaxSegment /\ SegmentIds \subseteq 0..MaxSegment
  BY WriterAssumption DEF SegmentIds
<1>3. st.open # 0 => st.open \in SegmentIds
  BY <1>1, WriterAssumption DEF SegmentIds
<1>4. OpenThen(st.open, cmd) \in 0..MaxSegment
  BY <1>1, <1>2, CmdParts DEF OpenThen
<1>5. Applied(st.disk, st.open, cmd) \in [SegmentIds -> FileSet]
  <2>1. CASE cmd.op = "begin"
    BY <1>1, <2>1, CmdParts, EmptyTyped DEF Applied
  <2>2. CASE cmd.op = "end"
    BY <1>1, <2>2 DEF Applied
  <2>3. CASE cmd.op = "snapshot"
    <3>1. st.open \in SegmentIds /\ cmd.image \in ImageSet
      BY <1>3, <2>3, CmdParts DEF Legal, SegmentCmds
    <3>2. ApplySnapshot(st.disk[st.open], cmd.image) \in FileSet
      BY <1>1, <3>1, LongerTyped
    <3>3. Applied(st.disk, st.open, cmd) =
            [st.disk EXCEPT ![st.open] = ApplySnapshot(st.disk[st.open], cmd.image)]
      BY <2>3 DEF Applied
    <3> QED
      BY <1>1, <3>1, <3>2, <3>3
  <2>4. CASE cmd.op \in {"line", "frame"}
    <3>1. st.open \in SegmentIds /\ cmd.row \in RowSet
      BY <1>3, <2>4, CmdParts DEF Legal, SegmentCmds
    <3>2. Longer(st.disk[st.open], cmd.row) \in FileSet
      BY <1>1, <3>1, LongerTyped
    <3>3. Applied(st.disk, st.open, cmd) =
            [st.disk EXCEPT ![st.open] = Longer(st.disk[st.open], cmd.row)]
      BY <2>4 DEF Applied, Longer
    <3> QED
      BY <1>1, <3>1, <3>2, <3>3
  <2>5. CASE cmd.op = "remove_replay"
    <3>1. cmd.seg \in SegmentIds
      BY <2>5, CmdParts
    <3>2. [st.disk[cmd.seg] EXCEPT !.replay = FALSE, !.rows = <<>>] \in FileSet
      BY <1>1, <3>1, ShorterTyped
    <3>3. Applied(st.disk, st.open, cmd) =
            [st.disk EXCEPT ![cmd.seg] =
               [st.disk[cmd.seg] EXCEPT !.replay = FALSE, !.rows = <<>>]]
      BY <1>1, <2>5, <3>1 DEF Applied
    <3> QED
      BY <1>1, <3>1, <3>2, <3>3
  <2>6. CASE cmd.op = "remove_sav"
    <3>1. cmd.seg \in SegmentIds
      BY <2>6, CmdParts
    <3>2. [st.disk[cmd.seg] EXCEPT !.sav = FALSE, !.images = <<>>] \in FileSet
      BY <1>1, <3>1, ShorterTyped
    <3>3. Applied(st.disk, st.open, cmd) =
            [st.disk EXCEPT ![cmd.seg] =
               [st.disk[cmd.seg] EXCEPT !.sav = FALSE, !.images = <<>>]]
      BY <1>1, <2>6, <3>1 DEF Applied
    <3> QED
      BY <1>1, <3>1, <3>2, <3>3
  <2> QED
    BY <2>1, <2>2, <2>3, <2>4, <2>5, <2>6, CmdParts
<1> QED
  BY <1>4, <1>5 DEF Did, States

\* A file whose tape, or whose images, are removed.
Untaped(file) == [file EXCEPT !.replay = FALSE, !.rows = <<>>]
Unimaged(file) == [file EXCEPT !.sav = FALSE, !.images = <<>>]
Blank == [replay |-> TRUE, sav |-> TRUE, rows |-> <<>>, images |-> <<>>]

\* The only files that a command touches, and what becomes of them.
Touched(st, cmd) == IF cmd.op \in SegmentCmds \cup {"end"} THEN st.open ELSE cmd.seg
Rewritten(file, cmd) ==
  CASE cmd.op = "begin" -> Blank
    [] cmd.op = "snapshot" -> ApplySnapshot(file, cmd.image)
    [] cmd.op \in {"line", "frame"} -> Longer(file, cmd.row)
    [] cmd.op = "remove_replay" -> Untaped(file)
    [] cmd.op = "remove_sav" -> Unimaged(file)
    [] cmd.op = "end" -> file

\* A command rewrites the files of one segment.
LEMMA OneTouched ==
  ASSUME NEW st \in States, NEW cmd \in CmdSet, Legal(st, cmd)
  PROVE  /\ Touched(st, cmd) \in SegmentIds
         /\ Did(st, cmd).disk[Touched(st, cmd)] = Rewritten(st.disk[Touched(st, cmd)], cmd)
         /\ \A t \in SegmentIds : t # Touched(st, cmd) => Did(st, cmd).disk[t] = st.disk[t]
<1> DEFINE s == Touched(st, cmd)
<1>1. st.disk \in [SegmentIds -> FileSet] /\ st.open \in 0..MaxSegment
  BY DEF States
<1>2. st.open # 0 => st.open \in SegmentIds
  BY <1>1, WriterAssumption DEF SegmentIds
<1>3. s \in SegmentIds
  <2>1. CASE cmd.op \in SegmentCmds \cup {"end"}
    BY <1>2, <2>1 DEF Touched, Legal, SegmentCmds
  <2>2. CASE cmd.op \in {"begin", "remove_replay", "remove_sav"}
    BY <2>2, CmdParts DEF Touched, SegmentCmds
  <2> QED
    BY <2>1, <2>2, CmdParts DEF SegmentCmds
<1>4. Did(st, cmd).disk = Applied(st.disk, st.open, cmd)
  BY DEF Did
<1>5. Applied(st.disk, st.open, cmd) = [st.disk EXCEPT ![s] = Rewritten(st.disk[s], cmd)]
  <2>1. CASE cmd.op = "begin"
    BY <1>1, <2>1 DEF Applied, Touched, Rewritten, Blank, SegmentCmds
  <2>2. CASE cmd.op = "end"
    BY <1>1, <1>3, <2>2 DEF Applied, Touched, Rewritten, SegmentCmds
  <2>3. CASE cmd.op = "snapshot"
    BY <1>1, <1>3, <2>3 DEF Applied, Touched, Rewritten, SegmentCmds
  <2>4. CASE cmd.op \in {"line", "frame"}
    BY <1>1, <1>3, <2>4 DEF Applied, Touched, Rewritten, SegmentCmds, Longer
  <2>5. CASE cmd.op = "remove_replay"
    BY <1>1, <1>3, <2>5 DEF Applied, Touched, Rewritten, SegmentCmds, Untaped
  <2>6. CASE cmd.op = "remove_sav"
    BY <1>1, <1>3, <2>6 DEF Applied, Touched, Rewritten, SegmentCmds, Unimaged
  <2> QED
    BY <2>1, <2>2, <2>3, <2>4, <2>5, <2>6, CmdParts
<1> HIDE DEF s
<1> QED
  BY <1>1, <1>3, <1>4, <1>5 DEF s

\* The parts of the files that a command rewrites.
LEMMA RewrittenParts ==
  ASSUME NEW file \in FileSet, NEW cmd \in CmdSet
  PROVE  LET new == Rewritten(file, cmd)
         IN  /\ cmd.op = "begin" => new.replay /\ new.rows = <<>> /\ new.images = <<>>
             /\ cmd.op = "end" => new = file
             /\ cmd.op = "snapshot" =>
                  new.replay = file.replay /\ new.images = Append(file.images, cmd.image)
             /\ cmd.op \in {"line", "frame"} =>
                  new.replay = file.replay /\ new.images = file.images
             /\ cmd.op = "remove_replay" =>
                  ~new.replay /\ new.rows = <<>> /\ new.images = file.images
             /\ cmd.op = "remove_sav" =>
                  new.replay = file.replay /\ new.rows = file.rows /\ new.images = <<>>
<1> DEFINE new == Rewritten(file, cmd)
<1>1. \E A, B, C, D : file \in [replay : A, sav : B, rows : C, images : D]
  BY DEF FileSet
<1>2. CASE cmd.op = "begin"
  BY <1>2 DEF Rewritten, Blank
<1>3. CASE cmd.op = "end"
  BY <1>3 DEF Rewritten
<1>4. CASE cmd.op = "snapshot"
  BY <1>1, <1>4 DEF Rewritten, ApplySnapshot
<1>5. CASE cmd.op \in {"line", "frame"}
  BY <1>1, <1>5 DEF Rewritten, Longer
<1>6. CASE cmd.op = "remove_replay"
  BY <1>1, <1>6 DEF Rewritten, Untaped
<1>7. CASE cmd.op = "remove_sav"
  BY <1>1, <1>7 DEF Rewritten, Unimaged
<1> QED
  BY <1>2, <1>3, <1>4, <1>5, <1>6, <1>7, CmdParts

\* What a command adds to the bytes on disk.
LEMMA BytesDid ==
  ASSUME NEW st \in States, NEW cmd \in CmdSet, Legal(st, cmd)
  PROVE  LET old == DiskBytes(st.disk)
             new == DiskBytes(Did(st, cmd).disk)
         IN  /\ old \in Nat /\ new \in Nat
             /\ cmd.op = "snapshot" => new = old + cmd.image.size
             /\ cmd.op = "remove_sav" => new = old - ImageBytes(st.disk[cmd.seg].images)
             /\ cmd.op \notin {"snapshot", "remove_sav"} => new = old
<1>1. PICK s : s = Touched(st, cmd)
  OBVIOUS
<1>2. PICK files : files = Did(st, cmd).disk
  OBVIOUS
<1>3. PICK before : before = st.disk
  OBVIOUS
<1>4. files \in [SegmentIds -> FileSet] /\ before \in [SegmentIds -> FileSet]
  BY <1>2, <1>3, DidTyped DEF States
<1>5. /\ s \in SegmentIds /\ files[s] = Rewritten(before[s], cmd)
      /\ \A t \in SegmentIds : t # s => files[t].images = before[t].images
  BY <1>1, <1>2, <1>3, OneTouched
<1>6. before[s] \in FileSet /\ before[s].images \in Seq(ImageSet)
  BY <1>4, <1>5 DEF FileSet
<1>7. /\ DiskBytes(before) \in Nat /\ DiskBytes(files) \in Nat
      /\ ImageBytes(before[s].images) \in Nat /\ ImageBytes(files[s].images) \in Nat
      /\ DiskBytes(files) - ImageBytes(files[s].images)
           = DiskBytes(before) - ImageBytes(before[s].images)
  BY <1>4, <1>5, DiskBytesChange
<1>8. CASE cmd.op = "snapshot"
  <2>1. cmd.image \in ImageSet /\ cmd.image.size \in Nat
    BY <1>8, CmdParts DEF ImageSet
  <2>2. files[s].images = Append(before[s].images, cmd.image)
    BY <1>5, <1>6, <1>8, RewrittenParts
  <2>3. ImageBytes(files[s].images) = ImageBytes(before[s].images) + cmd.image.size
    BY <1>6, <2>1, <2>2, ImageBytesGrow
  <2> QED
    BY <1>2, <1>3, <1>7, <1>8, <2>1, <2>3
<1>9. CASE cmd.op = "remove_sav"
  <2>1. s = cmd.seg
    BY <1>1, <1>9 DEF Touched, SegmentCmds
  <2>2. files[s].images = <<>>
    BY <1>5, <1>6, <1>9, RewrittenParts
  <2>3. ImageBytes(files[s].images) = 0
    BY <2>2, ImageBytesGrow
  <2> QED
    BY <1>2, <1>3, <1>7, <1>9, <2>1, <2>3
<1>10. CASE cmd.op \notin {"snapshot", "remove_sav"}
  <2>1. files[s].images = before[s].images
    <3>1. CASE cmd.op = "begin"
      <4>1. s = cmd.seg /\ cmd.seg \in SegmentIds
        BY <1>1, <3>1, CmdParts DEF Touched, SegmentCmds
      <4>2. before[s] = NoFiles
        BY <1>3, <3>1, <4>1 DEF Legal, SegmentIds
      <4>3. before[s].images = <<>>
        BY <4>2 DEF NoFiles
      <4> QED
        BY <1>5, <1>6, <3>1, <4>3, RewrittenParts
    <3>2. CASE cmd.op # "begin"
      BY <1>5, <1>6, <1>10, <3>2, RewrittenParts, CmdParts
    <3> QED
      BY <3>1, <3>2
  <2> QED
    BY <1>2, <1>3, <1>7, <1>10, <2>1
<1> QED
  BY <1>8, <1>9, <1>10

-----------------------------------------------------------------------------
(***************************************************************************)
(* Offers and their refusal.                                                 *)
(***************************************************************************)
\* A legal command at the end of a queue leads one step further.
LEMMA LeadsFurther ==
  ASSUME NEW q \in Seq(CmdSet), NEW first, NEW st, Leads(first, q, st),
         NEW cmd \in CmdSet, Legal(st, cmd)
  PROVE  Leads(first, Append(q, cmd), Did(st, cmd))
<1> DEFINE n == Len(q)
           r == Append(q, cmd)
<1>1. n \in Nat
  OBVIOUS
<1>2. Len(r) = n + 1 /\ r[n + 1] = cmd /\ \A i \in 1..n : r[i] = q[i]
  OBVIOUS
<1>3. PICK F : Path(F, first, q) /\ F[n] = st
  BY DEF Leads
<1>4. st \in States
  BY <1>1, <1>3 DEF Path
<1> DEFINE G == [F EXCEPT ![n + 1] = Did(st, cmd)]
<1>5. /\ G \in [Nat -> States] /\ G[n + 1] = Did(st, cmd)
      /\ \A i \in 0..n : G[i] = F[i]
  BY <1>1, <1>3, <1>4, DidTyped DEF Path
<1>6. ASSUME NEW i \in 1..n+1
      PROVE  Legal(G[i - 1], r[i]) /\ G[i] = Did(G[i - 1], r[i])
  <2>1. CASE i = n + 1
    <3>1. i - 1 = n /\ n \in 0..n
      BY <1>1, <2>1
    <3> QED
      BY <1>2, <1>3, <1>5, <2>1, <3>1
  <2>2. CASE i # n + 1
    <3>1. i \in 1..n /\ i \in 0..n /\ i - 1 \in 0..n
      BY <1>1, <2>2
    <3> QED
      BY <1>2, <1>3, <1>5, <3>1 DEF Path
  <2> QED
    BY <2>1, <2>2
<1>7. G[0] = first
  BY <1>1, <1>3, <1>5 DEF Path
<1> HIDE DEF G, r
<1>8. Path(G, first, r) /\ G[Len(r)] = Did(st, cmd)
  BY <1>2, <1>5, <1>6, <1>7 DEF Path
<1> QED
  BY <1>8 DEF Leads, r

\* What is left of one and of two commands that are taken in part.
LEMMA Prefixes ==
  ASSUME NEW T, NEW s \in Seq(T), NEW c \in T, NEW d \in T
  PROVE  /\ Len(<<c>>) = 1 /\ Len(<<c, d>>) = 2
         /\ s \o SubSeq(<<c>>, 1, 0) = s
         /\ s \o SubSeq(<<c>>, 1, 1) = Append(s, c)
         /\ s \o SubSeq(<<c, d>>, 1, 0) = s
         /\ s \o SubSeq(<<c, d>>, 1, 1) = Append(s, c)
         /\ s \o SubSeq(<<c, d>>, 1, 2) = Append(Append(s, c), d)
<1>1. /\ <<c>> \in Seq(T) /\ Len(<<c>>) = 1
      /\ <<c, d>> \in Seq(T) /\ Len(<<c, d>>) = 2 /\ <<c, d>>[1] = c
      /\ <<d>> \in Seq(T)
  OBVIOUS
<1>2. SubSeq(<<c>>, 1, 0) = <<>> /\ SubSeq(<<c, d>>, 1, 0) = <<>>
  BY SubSeqEmpty
<1>3. SubSeq(<<c>>, 1, 1) = <<c>> /\ SubSeq(<<c, d>>, 1, 2) = <<c, d>>
  BY <1>1, SubSeqFull
<1>4. SubSeq(<<c, d>>, 1, 1) = <<c>>
  <2>1. SubSeq(<<c, d>>, 1, 1) = SubSeq(<<c, d>>, 1, 0) \o <<c>>
    BY <1>1, SubSeqRecursiveSecond
  <2> QED
    BY <1>1, <1>2, <2>1, ConcatEmptySeq
<1>5. s \o <<>> = s /\ s \o <<c>> = Append(s, c)
  BY ConcatEmptySeq, AppendIsConcat
<1>6. s \o <<c, d>> = Append(Append(s, c), d)
  <2>1. <<c, d>> = <<c>> \o <<d>>
    <3>1. <<c, d>>[2] = d /\ 1 \in 1..2 /\ 2 \in 1..2 /\ 2 - 1 = 1
      OBVIOUS
    <3>2. SubSeq(<<c, d>>, 1, 2) = SubSeq(<<c, d>>, 1, 1) \o <<d>>
      BY <1>1, <3>1, SubSeqRecursiveSecond
    <3> QED
      BY <1>3, <1>4, <3>2
  <2>2. s \o <<c, d>> = (s \o <<c>>) \o <<d>>
    BY <1>1, <2>1, ConcatAssociative
  <2>3. Append(s, c) \in Seq(T)
    OBVIOUS
  <2> QED
    BY <1>5, <2>2, <2>3, AppendIsConcat
<1> QED
  BY <1>1, <1>2, <1>3, <1>4, <1>5, <1>6

\* What is promised stays promised while nobody touches queue and files.
LEMMA Still ==
  ASSUME NEW st, Becomes(st), UNCHANGED <<queue, disk, openSeg>>
  PROVE  Becomes(st)'
  BY DEF Becomes, Now

\* Commands at the end of the queue are the next thing promised.
LEMMA LongerQueue ==
  ASSUME NEW st, Becomes(st), NEW cmd \in CmdSet, Legal(st, cmd),
         Len(queue) < QueueCap, queue' = Append(queue, cmd),
         UNCHANGED <<disk, openSeg>>
  PROVE  Becomes(Did(st, cmd))'
<1>1. queue \in Seq(CmdSet) /\ Leads(Now, queue, st)
  BY DEF Becomes
<1>2. queue' \in Seq(CmdSet) /\ Len(queue') <= QueueCap
  BY <1>1, WriterAssumption
<1>3. Leads(Now, queue', Did(st, cmd))
  BY <1>1, LeadsFurther
<1>4. Now' = Now
  BY DEF Now
<1> QED
  BY <1>2, <1>3, <1>4 DEF Becomes

\* Two commands at the end of the queue.
LEMMA LongerQueueTwice ==
  ASSUME NEW st, Becomes(st), NEW c \in CmdSet, NEW d \in CmdSet,
         Legal(st, c), Legal(Did(st, c), d),
         Len(queue) + 1 < QueueCap, queue' = Append(Append(queue, c), d),
         UNCHANGED <<disk, openSeg>>
  PROVE  Becomes(Did(Did(st, c), d))'
<1>1. queue \in Seq(CmdSet) /\ Leads(Now, queue, st)
  BY DEF Becomes
<1>2. /\ Append(queue, c) \in Seq(CmdSet)
      /\ queue' \in Seq(CmdSet) /\ Len(queue') <= QueueCap
  BY <1>1, WriterAssumption
<1>3. Leads(Now, Append(queue, c), Did(st, c))
  BY <1>1, LeadsFurther
<1>4. Leads(Now, queue', Did(Did(st, c), d))
  BY <1>2, <1>3, LeadsFurther
<1>5. Now' = Now
  BY DEF Now
<1> QED
  BY <1>2, <1>4, <1>5 DEF Becomes

\* A command that does not fit latches the error and changes nothing else.
LEMMA RefusedOne ==
  ASSUME NEW st, Becomes(st), NEW cmd, ~Accepts(1), writerError \in BOOLEAN,
         OfferAll(<<cmd>>)
  PROVE  writerError' /\ Becomes(st)'
<1>1. /\ queue \in Seq(CmdSet) /\ Len(queue) \in Nat /\ Len(queue) <= QueueCap
      /\ QueueCap \in Nat
  BY WriterAssumption DEF Becomes
<1>2. Len(<<cmd>>) = 1 /\ UNCHANGED <<disk, openSeg>>
  BY DEF OfferAll
<1>3. writerError' = TRUE
  BY <1>2 DEF OfferAll
<1>4. writerError \/ QueueCap - Len(queue) = 0
  BY <1>1 DEF Accepts
<1>5. queue' = queue \o SubSeq(<<cmd>>, 1, 0)
  BY <1>2, <1>4 DEF OfferAll
<1>6. SubSeq(<<cmd>>, 1, 0) = <<>>
  BY SubSeqEmpty
<1>7. queue' = queue
  BY <1>1, <1>5, <1>6, ConcatEmptySeq
<1> QED
  BY <1>2, <1>3, <1>7, Still

\* A legal command that fits becomes a promise.
LEMMA AcceptedOne ==
  ASSUME NEW st, Becomes(st), NEW cmd \in CmdSet, Legal(st, cmd), Accepts(1),
         OfferAll(<<cmd>>)
  PROVE  ~writerError' /\ Becomes(Did(st, cmd))'
<1>1. /\ queue \in Seq(CmdSet) /\ Len(queue) \in Nat /\ Len(queue) <= QueueCap
      /\ QueueCap \in Nat
  BY WriterAssumption DEF Becomes
<1>2. Len(<<cmd>>) = 1 /\ UNCHANGED <<disk, openSeg>>
  BY DEF OfferAll
<1>3. ~writerError' /\ ~writerError /\ Len(queue) < QueueCap
  <2>1. writerError' = (writerError \/ ~Accepts(1))
    BY <1>2 DEF OfferAll
  <2>2. ~writerError /\ Len(queue) < QueueCap
    BY <1>1 DEF Accepts
  <2> QED
    BY <2>1, <2>2
<1>4. queue' = queue \o SubSeq(<<cmd>>, 1, 1)
  BY <1>2, <1>3 DEF OfferAll
<1>5. queue' = Append(queue, cmd)
  BY <1>1, <1>4, Prefixes
<1> QED
  BY <1>2, <1>3, <1>5, LongerQueue

\* Two commands are taken, or the first, or none.
LEMMA OfferTwo ==
  ASSUME NEW st, Becomes(st), NEW c \in CmdSet, NEW d \in CmdSet,
         ~writerError => Legal(st, c) /\ Legal(Did(st, c), d),
         writerError \in BOOLEAN, OfferAll(<<c, d>>)
  PROVE  /\ Accepts(2) => ~writerError' /\ Becomes(Did(Did(st, c), d))'
         /\ ~Accepts(2) => writerError' /\ \E s : Becomes(s)'
<1>1. /\ queue \in Seq(CmdSet) /\ Len(queue) \in Nat /\ Len(queue) <= QueueCap
      /\ QueueCap \in Nat
  BY WriterAssumption DEF Becomes
<1>2. Len(<<c, d>>) = 2 /\ UNCHANGED <<disk, openSeg>>
  BY DEF OfferAll
<1>3. writerError' = (writerError \/ ~Accepts(2))
  BY <1>2 DEF OfferAll
<1>4. CASE Accepts(2)
  <2>1. ~writerError /\ Len(queue) + 1 < QueueCap
    BY <1>1, <1>4 DEF Accepts
  <2>2. queue' = queue \o SubSeq(<<c, d>>, 1, 2)
    BY <1>2, <1>4, <2>1 DEF OfferAll
  <2>3. queue' = Append(Append(queue, c), d)
    <3>1. queue \o SubSeq(<<c, d>>, 1, 2) = Append(Append(queue, c), d)
      BY <1>1, Prefixes, SMTT(60)
    <3> QED BY <2>2, <3>1
  <2> QED
    BY <1>1, <1>2, <1>3, <1>4, <2>1, <2>3, LongerQueueTwice
<1>5. CASE ~Accepts(2)
  <2>1. writerError \/ QueueCap - Len(queue) \in {0, 1}
    BY <1>1, <1>5 DEF Accepts
  <2>2. CASE writerError \/ QueueCap - Len(queue) = 0
    <3>1. queue' = queue \o SubSeq(<<c, d>>, 1, 0)
      BY <1>2, <1>5, <2>2 DEF OfferAll
    <3>2. queue' = queue
      BY <1>1, <3>1, Prefixes
    <3> QED
      BY <1>2, <1>3, <1>5, <3>2, Still
  <2>3. CASE ~writerError /\ QueueCap - Len(queue) = 1
    <3>1. queue' = queue \o SubSeq(<<c, d>>, 1, 1) /\ Len(queue) < QueueCap
      BY <1>1, <1>2, <1>5, <2>3 DEF OfferAll
    <3>2. queue' = Append(queue, c)
      BY <1>1, <3>1, Prefixes
    <3> QED
      BY <1>1, <1>2, <1>3, <1>5, <2>3, <3>1, <3>2, LongerQueue
  <2> QED
    BY <2>1, <2>2, <2>3
<1> QED
  BY <1>4, <1>5

-----------------------------------------------------------------------------
(***************************************************************************)
(* The worker.                                                               *)
(***************************************************************************)
\* No commands lead nowhere.
LEMMA NoCommands ==
  ASSUME NEW st \in States
  PROVE  Leads(st, <<>>, st)
<1> DEFINE F == [n \in Nat |-> st]
<1>1. F \in [Nat -> States] /\ F[0] = st
  OBVIOUS
<1> HIDE DEF F
<1>2. Path(F, st, <<>>) /\ F[Len(<<>>)] = st
  BY <1>1 DEF Path
<1> QED
  BY <1>2 DEF Leads

\* The present and the promised state have their type.
LEMMA PromiseTyped ==
  ASSUME NEW st, Becomes(st)
  PROVE  Now \in States /\ st \in States
<1>1. queue \in Seq(CmdSet) /\ Len(queue) \in Nat
  BY DEF Becomes
<1>2. PICK F : Path(F, Now, queue) /\ F[Len(queue)] = st
  BY DEF Becomes, Leads
<1> QED
  BY <1>1, <1>2 DEF Path

\* Taking a command is legal, and keeps the promise.
LEMMA Taken ==
  ASSUME NEW st, Becomes(st), WorkerStep
  PROVE  /\ Becomes(st)'
         /\ Head(queue) \in CmdSet /\ Legal(Now, Head(queue))
<1> DEFINE n == Len(queue)
<1>1. queue \in Seq(CmdSet) /\ queue # <<>> /\ queue' = Tail(queue)
  BY DEF Becomes, WorkerStep
<1>2. n \in Nat /\ n >= 1 /\ n <= QueueCap /\ QueueCap \in Nat
  BY <1>1, WriterAssumption, EmptySeq DEF Becomes
<1>3. /\ queue' \in Seq(CmdSet) /\ Len(queue') = n - 1
      /\ Head(queue) = queue[1] /\ queue[1] \in CmdSet
      /\ \A i \in 1..n-1 : queue'[i] = queue[i + 1]
  BY <1>1, <1>2
<1>4. PICK F : Path(F, Now, queue) /\ F[n] = st
  BY DEF Becomes, Leads
<1>5. /\ F \in [Nat -> States] /\ F[0] = Now
      /\ Legal(F[0], queue[1]) /\ F[1] = Did(F[0], queue[1])
  <2>1. 1 \in 1..n /\ 1 - 1 = 0
    BY <1>2
  <2> QED
    BY <1>4, <2>1 DEF Path
<1>6. Now' = F[1]
  BY <1>3, <1>5 DEF Now, Did, WorkerStep
<1> DEFINE G == [i \in Nat |-> F[i + 1]]
<1>7. G \in [Nat -> States] /\ G[0] = Now' /\ G[n - 1] = st
  BY <1>2, <1>4, <1>5, <1>6
<1>8. ASSUME NEW i \in 1..n-1
      PROVE  Legal(G[i - 1], queue'[i]) /\ G[i] = Did(G[i - 1], queue'[i])
  <2>1. i + 1 \in 1..n /\ i \in Nat /\ i - 1 \in Nat /\ (i + 1) - 1 = i
    BY <1>2
  <2>2. G[i] = F[i + 1] /\ G[i - 1] = F[i]
    BY <2>1
  <2> QED
    BY <1>3, <1>4, <2>1, <2>2 DEF Path
<1> HIDE DEF G
<1>9. Path(G, Now', queue') /\ G[Len(queue')] = st
  BY <1>3, <1>7, <1>8 DEF Path
<1>10. Becomes(st)'
  BY <1>2, <1>3, <1>9 DEF Becomes, Leads
<1> QED
  BY <1>3, <1>5, <1>10

-----------------------------------------------------------------------------
(***************************************************************************)
(* The segment that is open after some of the commands.                      *)
(***************************************************************************)
\* The commands that open or end a segment.
Marks(n) == {i \in 1..n : queue[i].op \in {"begin", "end"}}

\* The others leave it open.
LEMMA OpenKept ==
  ASSUME NEW F, Path(F, Now, queue), Len(queue) \in Nat,
         NEW n \in 0..Len(queue), NEW first \in 0..n, \A i \in Marks(n) : i <= first
  PROVE  F[n].open = F[first].open
<1> DEFINE T == {k \in first..n : F[k].open # F[first].open}
<1>1. ASSUME T # {} PROVE FALSE
  <2>0. T \subseteq Nat
    OBVIOUS
  <2> HIDE DEF T
  <2>1. PICK k \in T : \A y \in T : k <= y
    BY <1>1, <2>0, LeastNumber
  <2> USE DEF T
  <2>2. k \in first+1..n /\ k - 1 \in first..n /\ k \in 1..Len(queue)
    BY <2>1
  <2>3. F[k - 1].open = F[first].open
    BY <2>1, <2>2
  <2>4. queue[k].op \notin {"begin", "end"}
    BY <2>2 DEF Marks
  <2>5. F[k] = Did(F[k - 1], queue[k])
    BY <2>2 DEF Path
  <2>6. F[k].open = F[k - 1].open
    BY <2>4, <2>5 DEF Did, OpenThen
  <2> QED
    BY <2>1, <2>3, <2>6
<1> QED
  BY <1>1

\* OpenAfter is what the path says.
LEMMA OpenOnPath ==
  ASSUME NEW F, Path(F, Now, queue), Len(queue) \in Nat, NEW n \in 0..Len(queue)
  PROVE  OpenAfter(n) = F[n].open
<1>1. CASE Marks(n) = {}
  <2>1. F[n].open = F[0].open
    BY <1>1, OpenKept
  <2>2. F[0].open = openSeg
    BY DEF Path, Now
  <2>3. OpenAfter(n) = openSeg
    BY <1>1 DEF OpenAfter, Marks
  <2> QED
    BY <2>1, <2>2, <2>3
<1>2. CASE Marks(n) # {}
  <2> DEFINE U == {k \in 0..n : \A j \in Marks(n) : j <= k}
  <2>1. n \in U /\ U \subseteq Nat
    BY DEF Marks
  <2>2. PICK m \in U : \A y \in U : m <= y
    BY <2>1, LeastNumber
  <2>3. m \in Marks(n)
    <3>1. SUFFICES ASSUME m \notin Marks(n) PROVE FALSE
      OBVIOUS
    <3>2. PICK j \in Marks(n) : TRUE
      BY <1>2
    <3>3. j >= 1 /\ j <= m /\ m \in 0..n
      BY <2>2, <3>2 DEF Marks
    <3>4. m - 1 \in U
      BY <2>2, <3>1, <3>3 DEF Marks
    <3> QED
      BY <2>2, <3>3, <3>4
  <2>4. \A last \in Marks(n) : (\A j \in Marks(n) : j <= last) => last = m
    BY <2>2, <2>3 DEF Marks
  <2>5. \A j \in Marks(n) : j <= m
    BY <2>2
  <2>6. (CHOOSE i \in Marks(n) : \A j \in Marks(n) : j <= i) = m
    BY <2>3, <2>4, <2>5
  <2>7. OpenAfter(n) = LET last == CHOOSE i \in Marks(n) : \A j \in Marks(n) : j <= i
                       IN  IF queue[last].op = "begin" THEN queue[last].seg ELSE 0
    BY <1>2 DEF OpenAfter, Marks
  <2>8. F[n].open = F[m].open
    BY <2>2, <2>5, OpenKept
  <2>9. F[m] = Did(F[m - 1], queue[m]) /\ queue[m].op \in {"begin", "end"}
    BY <2>3 DEF Marks, Path
  <2>10. F[m].open = IF queue[m].op = "begin" THEN queue[m].seg ELSE 0
    BY <2>9 DEF Did, OpenThen
  <2> QED
    BY <2>6, <2>7, <2>8, <2>10
<1> QED
  BY <1>1, <1>2

\* So a queue that only promises legal commands is well formed.
LEMMA PromiseWellFormed ==
  ASSUME NEW st, Becomes(st)
  PROVE  StreamWellFormed /\ OpenAfter(Len(queue)) = st.open
<1>1. Len(queue) \in Nat
  BY DEF Becomes
<1>2. PICK F : Path(F, Now, queue) /\ F[Len(queue)] = st
  BY DEF Becomes, Leads
<1>3. OpenAfter(Len(queue)) = st.open
  BY <1>1, <1>2, OpenOnPath
<1>4. ASSUME NEW i \in 1..Len(queue)
      PROVE  LET cmd == queue[i] open == OpenAfter(i - 1)
             IN  /\ cmd.op \in SegmentCmds \cup {"end"} => open # 0
                 /\ cmd.op = "begin" => open = 0
                 /\ cmd.op \in {"remove_replay", "remove_sav"} => cmd.seg # open
  <2>1. i - 1 \in 0..Len(queue)
    BY <1>1
  <2>2. OpenAfter(i - 1) = F[i - 1].open
    BY <1>1, <1>2, <2>1, OpenOnPath
  <2>3. Legal(F[i - 1], queue[i])
    BY <1>2 DEF Path
  <2> QED
    BY <2>2, <2>3 DEF Legal
<1> QED
  BY <1>3, <1>4 DEF StreamWellFormed

=============================================================================
