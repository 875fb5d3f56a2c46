------------------------- MODULE ExfatVolume_proofs ------------------------
(***************************************************************************)
(* Three promises of the reader of exFAT, for every size of the partition  *)
(* and of a sector, every tree, and any number of harmed fields: it asks   *)
(* for nothing past the end that the boot sector gives, and goes on with   *)
(* nothing from outside the partition; its walk does not go deeper than    *)
(* there are clusters; and a volume that it accepts is sound: it has the   *)
(* names of the tree, its things have their clusters each for itself, and  *)
(* the bitmap marks just those.                                            *)
(*                                                                         *)
(* They rest on what Open asks of the geometry before it follows a number  *)
(* (Opened), and on `claimed`: a directory that holds something takes a    *)
(* cluster that nothing else has (Deep), and `claimed` is, at each step,   *)
(* the clusters that the volume gives to the root, the bitmap, the table   *)
(* and each thing found so far, and they share none (Claims).              *)
(***************************************************************************)
EXTENDS ExfatVolume, ExfatPlace_proofs

\* What the boot sector can say of the geometry, right or wrong.
GeometryFields ==
  [sectorBytes : {SectorBytes}, clusterSectors : Nat \ {0}, volumeSectors : Int,
   fatOffset : Int, fatLength : Int, heapOffset : Int, clusterCount : Int]

\* The volume has its parts.  One that no tree was written to is not read.
Typed ==
  /\ DOMAIN reader = {"pc", "claimed", "bits", "stack", "nodes", "reach", "result"}
  /\ IsFiniteSet(reader.claimed)
  /\ reader.stack \in Seq(ToSet(reader.stack))
  /\ reader.pc # "end" =>
       /\ "boot" \in DOMAIN volume
       /\ "geometry" \in DOMAIN volume.boot
       /\ G \in GeometryFields /\ Home \in GeometryFields

\* What the reader has made sure of before it follows a number of the volume.
Measured == (G.volumeSectors * SectorBytes) % (U64 + 1) <= VolumeBytes
Opened   == reader.pc \notin {"open", "end"} => FitsItself(G) /\ Measured

\* Before the end nothing was refused, and before Open nothing was asked for.
Asking ==
  /\ reader.pc # "end" => reader.result = "none"
  /\ reader.pc = "open" => reader.reach = {}

\* Whether the directory at the top of the stack has a piece left.
TopHasMore == Frame.at <= Len(Frame.pieces)

\* Each directory of the walk that has a piece left owns a cluster, and the
\* bitmap and the up-case table own two more.
Deep ==
  /\ reader.pc = "system" => Len(reader.stack) = 1 /\ reader.claimed # {}
  /\ reader.pc = "walk" =>
       /\ reader.stack # <<>>
       /\ Len(reader.stack) <= Cardinality(reader.claimed)
       /\ TopHasMore => Len(reader.stack) < Cardinality(reader.claimed)
  /\ reader.pc \notin {"system", "walk"} => reader.stack = <<>>

IInv == Typed /\ Opened /\ Asking /\ ReadsInside /\ Deep

----------------------------------------------------------------------------
(* Arithmetic.                                                             *)

LEMMA DivCeilIsInt ==
  ASSUME NEW a \in Int, NEW b \in Nat \ {0}
  PROVE  DivCeil(a, b) \in Int
<1>1. a + b - 1 \in Int
  OBVIOUS
<1>2. QED
  BY <1>1, Quotient DEF DivCeil

LEMMA SectorIsPositive == SectorBytes \in Nat \ {0}
  BY VolumeAssumption, LayoutAssumption

\* Geometry::new gives numbers.
LEMMA GeometryIsTyped ==
  ASSUME NEW g \in Geometry(VolumeBytes, SectorBytes)
  PROVE  g \in GeometryFields
<1> DEFINE sectors == VolumeBytes \div SectorBytes
           bytes   == ClusterBytesFor(VolumeBytes, SectorBytes)
           cluster == bytes \div SectorBytes
           align   == ALIGN \div SectorBytes
           most    == (sectors - align) \div cluster
           heap    == DivCeil(align + FatSectors(most, SectorBytes), align) * align
           fit     == (sectors - heap) \div cluster
           count   == IF fit < MAX_CLUSTERS THEN fit ELSE MAX_CLUSTERS
<1>0. SectorBytes \in Nat \ {0}
  BY SectorIsPositive
<1>1. sectors \in Int /\ align \in Int
  BY <1>0, VolumeAssumption, LayoutAssumption, Quotient
<1>2. bytes \in Nat /\ bytes >= SectorBytes
  BY <1>0, GeometryAssumption DEF ClusterBytesFor
<1>3. \A n \in Nat : n >= SectorBytes => n \div SectorBytes \in Nat \ {0}
  <2> TAKE n \in Nat
  <2> HAVE n >= SectorBytes
  <2>1. n \div SectorBytes \in Int /\ n < (n \div SectorBytes + 1) * SectorBytes
    BY <1>0, Quotient
  <2>2. ~(n \div SectorBytes <= 0)
    <3> SUFFICES ASSUME n \div SectorBytes <= 0 PROVE FALSE
      OBVIOUS
    <3>1. (n \div SectorBytes + 1) * SectorBytes <= 1 * SectorBytes
      BY <2>1, <1>0, ProductGrows
    <3>2. QED
      BY <3>1, <2>1, <1>0
  <2>3. QED
    BY <2>1, <2>2
<1>4. cluster \in Nat \ {0}
  BY <1>2, <1>3
<1>5. align \in Nat \ {0}
  <2>1. ALIGN \in Nat /\ ALIGN >= SectorBytes
    BY <1>0, VolumeAssumption, LayoutAssumption
  <2>2. QED
    BY <2>1, <1>3
<1>6. most \in Int
  <2> HIDE DEF sectors, align, cluster
  <2>1. QED
    BY <1>1, <1>4, Quotient
<1>7. FatSectors(most, SectorBytes) \in Int
  <2> HIDE DEF most
  <2>1. (most + 2) * 4 \in Int
    BY <1>6
  <2>2. QED
    BY <2>1, <1>0, DivCeilIsInt DEF FatSectors
<1>8. heap \in Int
  <2> HIDE DEF most, align
  <2>1. align + FatSectors(most, SectorBytes) \in Int
    BY <1>7, <1>5
  <2>2. DivCeil(align + FatSectors(most, SectorBytes), align) \in Int
    BY <2>1, <1>5, DivCeilIsInt
  <2>3. QED
    BY <2>2, <1>5
<1>9. count \in Int
  <2> HIDE DEF sectors, heap, cluster
  <2>1. fit \in Int
    BY <1>1, <1>4, <1>8, Quotient
  <2>2. QED
    BY <2>1, GeometryAssumption
<1>10. FatSectors(count, SectorBytes) \in Int
  <2> HIDE DEF count
  <2>1. (count + 2) * 4 \in Int
    BY <1>9
  <2>2. QED
    BY <2>1, <1>0, DivCeilIsInt DEF FatSectors
<1>11. g = [sectorBytes |-> SectorBytes, clusterSectors |-> cluster, volumeSectors |-> sectors,
            fatOffset |-> align, fatLength |-> FatSectors(count, SectorBytes),
            heapOffset |-> heap, clusterCount |-> count]
  BY Zenon DEF Geometry
<1>12. QED
  <2> HIDE DEF sectors, cluster, align, heap, count
  <2>1. QED
    BY <1>1, <1>4, <1>5, <1>8, <1>9, <1>10, <1>11 DEF GeometryFields

----------------------------------------------------------------------------
(* What the reader gets from the volume.                                   *)

\* Each cluster of a chain is one of the heap.
LEMMA ChainIsInHeap ==
  ASSUME G.clusterCount \in Int, NEW first, NEW length, NEW c \in Chain(first, length)
  PROVE  c \in Seq(InHeap) /\ c # <<>>
<1> DEFINE at[k \in 1 .. G.clusterCount + 1] ==
             IF k = 1 THEN first
             ELSE LET before == at[k - 1] IN IF before \in InHeap THEN FatEntry(before) ELSE 0
<1> HIDE DEF at
<1>1. PICK k \in 1 .. G.clusterCount : c = [j \in 1 .. k |-> at[j]] /\ \A j \in 1 .. k : at[j] \in InHeap
  BY Zenon DEF Chain, at
<1>2. c \in [1 .. k -> InHeap] /\ k \in Nat /\ k # 0
  BY <1>1
<1>3. QED
  BY <1>2

\* And so is each cluster of an entry, also where it has no chain.
LEMMA RunsAreInHeap ==
  ASSUME G.clusterCount \in Int, NEW data, NEW c \in RunsOf(data)
  PROVE  ToSet(c) \subseteq InHeap
<1>1. CASE c = <<>>
  BY <1>1 DEF ToSet
<1>2. CASE c \in Chain(data.first, {data.length})
  BY <1>2, ChainIsInHeap DEF ToSet
<1>3. CASE c # <<>> /\ c \notin Chain(data.first, {data.length})
  BY <1>3, Zenon DEF RunsOf
<1>4. QED
  BY <1>1, <1>2, <1>3

\* A run of no clusters has no pieces.
LEMMA NothingIsRead ==
  ASSUME G.clusterCount \in Int, NEW data, NEW c \in RunsOf(data), ToSet(c) = {}, NEW length
  PROVE  ReadRuns(c, length) = <<>>
<1>1. DOMAIN c = {}
  BY DEF ToSet
<1>2. c = <<>>
  <2>1. CASE c \in Chain(data.first, {data.length})
    BY <2>1, ChainIsInHeap, <1>1
  <2>2. CASE c = [k \in 1 .. DivCeil(data.length, ClusterBytes(G)) |-> data.first + k - 1]
    BY <2>2, <1>1
  <2>3. CASE c # <<>> /\ c \notin Chain(data.first, {data.length})
             /\ c # [k \in 1 .. DivCeil(data.length, ClusterBytes(G)) |-> data.first + k - 1]
    BY <2>3, Zenon DEF RunsOf
  <2>4. QED
    BY <2>1, <2>2, <2>3
<1>3. [k \in 1 .. Len(c) |-> Cluster(c[k])] = <<>>
  BY <1>2
<1>4. FlattenSeq(<<>>) = <<>>
  BY DEF FlattenSeq
<1>5. QED
  BY <1>3, <1>4 DEF ReadRuns

\* Where the geometry holds together, a cluster ends on the volume, and so does
\* the sector of its entry in the FAT.
LEMMA ReachIsInside ==
  ASSUME G \in GeometryFields, FitsItself(G), NEW c, ToSet(c) \subseteq InHeap
  PROVE  \A n \in ReachOf(c) : n \in Int /\ n <= G.volumeSectors
<1> DEFINE count == G.clusterCount
           per   == G.clusterSectors
           heap  == G.heapOffset
<1>0. /\ count \in Int /\ per \in Nat \ {0} /\ heap \in Int /\ G.fatOffset \in Int
      /\ G.fatLength \in Int /\ G.volumeSectors \in Int /\ G.sectorBytes = SectorBytes
  BY DEF GeometryFields
<1> DEFINE last == G.volumeSectors
<1>1. last \in Int
  BY <1>0
<1>2. heap + count * per <= last
  BY <1>0, <1>1 DEF FitsItself
<1>3. ASSUME NEW n \in InHeap
      PROVE  /\ ClusterSector(G, n) + G.clusterSectors \in Int
             /\ ClusterSector(G, n) + G.clusterSectors <= last
  <2> HIDE DEF count, per, heap, last
  <2>1. n \in Int /\ n - 1 <= count
    BY <1>0 DEF InHeap, FIRST_CLUSTER, count
  <2>2. (n - 1) * per <= count * per
    BY <2>1, <1>0, ProductGrows
  <2>3. (n - 2) * per + per = (n - 1) * per
    BY <2>1, <1>0
  <2>4. (n - 2) * per \in Int /\ count * per \in Int
    BY <2>1, <1>0
  <2>5. heap + (n - 2) * per + per <= last
    BY <2>2, <2>3, <2>4, <1>0, <1>1, <1>2
  <2>6. QED
    BY <1>0, <2>1, <2>4, <2>5 DEF ClusterSector, FIRST_CLUSTER, per, heap
<1>4. ASSUME NEW n \in InHeap
      PROVE  FatSector(n) + 1 \in Int /\ FatSector(n) + 1 <= last
  <2> DEFINE q == n \div PerSector
  <2>1. PerSector \in Nat \ {0} /\ PerSector * 4 = SectorBytes
    BY SectorIsPositive, VolumeAssumption DEF PerSector
  <2>2. n \in Int /\ n < count + 2
    BY <1>0 DEF InHeap, FIRST_CLUSTER
  <2>3. q \in Int /\ q * PerSector <= n
    BY <2>1, <2>2, Quotient
  <2>4. (count + 2) * 4 <= G.fatLength * SectorBytes
    BY <1>0 DEF FitsItself
  <2> HIDE DEF q
  <2>5. ~(G.fatLength <= q)
    <3> SUFFICES ASSUME G.fatLength <= q PROVE FALSE
      OBVIOUS
    <3>1. G.fatLength * PerSector <= q * PerSector
      BY <1>0, <2>1, <2>3, ProductGrows
    <3>2. (G.fatLength * PerSector) * 4 = G.fatLength * SectorBytes
      BY <1>0, <2>1
    <3>3. G.fatLength * PerSector \in Int /\ q * PerSector \in Int
      BY <1>0, <2>1, <2>3
    <3>4. G.fatLength * PerSector <= n
      BY <3>1, <3>3, <2>3, <2>2
    <3>5. (G.fatLength * PerSector) * 4 <= n * 4
      BY <3>4, <3>3, <2>2
    <3>6. QED
      BY <3>5, <3>2, <2>4, <2>2, <1>0, SectorIsPositive
  <2>6. q + 1 <= G.fatLength
    BY <2>5, <2>3, <1>0
  <2>7. count * per >= 0
    BY <1>0 DEF FitsItself
  <2>8. heap <= last
    BY <2>7, <1>0, <1>1, <1>2
  <2>9. G.fatOffset + G.fatLength <= heap
    BY DEF FitsItself
  <2>10. QED
    BY <2>3, <2>6, <2>8, <2>9, <1>0, <1>1 DEF FatSector, q
<1>5. QED
  BY <1>3, <1>4, Zenon DEF ReachOf

\* The end that the boot sector gives is inside the partition, where its bytes
\* do not wrap.
LEMMA EndIsInside ==
  ASSUME G \in GeometryFields, FitsItself(G), Measured, G.volumeSectors * SectorBytes <= U64
  PROVE  G.volumeSectors \in Int /\ Sectors \in Int /\ G.volumeSectors <= Sectors
<1> DEFINE last == G.volumeSectors
           product == last * SectorBytes
<1>0. /\ last \in Int /\ G.clusterCount \in Int /\ G.clusterSectors \in Nat \ {0}
      /\ G.fatOffset \in Int /\ G.fatLength \in Int /\ G.heapOffset \in Int
      /\ G.sectorBytes = SectorBytes
  BY DEF GeometryFields
<1>1. SectorBytes \in Nat \ {0} /\ VolumeBytes \in Nat /\ U64 \in Nat
  BY SectorIsPositive, VolumeAssumption
<1>2. last \in Nat
  <2>1. G.clusterCount * G.clusterSectors \in Nat
    BY <1>0 DEF FitsItself
  <2>2. G.fatLength >= 0
    <3> SUFFICES ASSUME G.fatLength < 0 PROVE FALSE
      BY <1>0
    <3>1. G.fatLength * SectorBytes <= 0 * SectorBytes
      BY <1>0, <1>1, ProductGrows
    <3>2. G.fatLength * SectorBytes >= (G.clusterCount + 2) * 4 /\ G.clusterCount > 0
      BY <1>0 DEF FitsItself
    <3>3. G.fatLength * SectorBytes \in Int
      BY <1>0, <1>1
    <3>4. QED
      BY <1>0, <1>1, <3>1, <3>2, <3>3
  <2>3. G.heapOffset >= 0
    BY <1>0, <2>2 DEF FitsItself
  <2>4. QED
    BY <1>0, <2>1, <2>3 DEF FitsItself
<1>3. product \in Nat
  BY <1>1, <1>2
<1>4. product <= VolumeBytes
  <2> HIDE DEF product
  <2>1. product % (U64 + 1) = product
    BY <1>1, <1>3 DEF product
  <2>2. QED
    BY <2>1 DEF Measured, product
<1>5. Sectors \in Int /\ VolumeBytes < (Sectors + 1) * SectorBytes
  BY <1>1, Quotient DEF Sectors
<1> HIDE DEF last
<1>6. ~(Sectors + 1 <= last)
  <2> SUFFICES ASSUME Sectors + 1 <= last PROVE FALSE
    OBVIOUS
  <2>1. (Sectors + 1) * SectorBytes <= last * SectorBytes
    BY <1>1, <1>2, <1>5, ProductGrows
  <2>2. (Sectors + 1) * SectorBytes \in Int /\ last * SectorBytes \in Int
    BY <1>1, <1>2, <1>5
  <2>3. QED
    BY <1>1, <1>4, <1>5, <2>1, <2>2
<1>7. QED
  BY <1>2, <1>5, <1>6 DEF last

\* What is asked for is inside the volume as the boot sector gives it, and so
\* inside the partition where its bytes do not wrap.
LEMMA AskedIsInside ==
  ASSUME G \in GeometryFields, FitsItself(G), Measured,
         NEW c, ToSet(c) \subseteq InHeap, NEW n \in ReachOf(c)
  PROVE  /\ n <= G.volumeSectors
         /\ G.volumeSectors * SectorBytes <= U64 => n <= Sectors
<1>1. n \in Int /\ n <= G.volumeSectors
  BY ReachIsInside
<1>2. CASE G.volumeSectors * SectorBytes <= U64
  <2>1. G.volumeSectors \in Int /\ Sectors \in Int /\ G.volumeSectors <= Sectors
    BY <1>2, EndIsInside
  <2>2. QED
    BY <1>1, <2>1
<1>3. QED
  BY <1>1, <1>2

----------------------------------------------------------------------------
(* The invariant.                                                          *)

\* More clusters make a larger set.
LEMMA ClaimGrows ==
  ASSUME NEW S, NEW T, IsFiniteSet(S), NEW U, IsFiniteSet(U), T \subseteq U
  PROVE  /\ IsFiniteSet(S \cup T)
         /\ Cardinality(S) \in Nat /\ Cardinality(S \cup T) \in Nat
         /\ Cardinality(S) <= Cardinality(S \cup T)
         /\ T # {} /\ S \cap T = {} => Cardinality(S) < Cardinality(S \cup T)
<1>1. IsFiniteSet(T)
  BY FS_Subset
<1>2. IsFiniteSet(S \cup T)
  BY <1>1, FS_Union
<1>3. Cardinality(S) \in Nat /\ Cardinality(S \cup T) \in Nat
  BY <1>2, FS_CardinalityType
<1>4. /\ Cardinality(S) <= Cardinality(S \cup T)
      /\ Cardinality(S) = Cardinality(S \cup T) => S = S \cup T
  BY <1>2, FS_Subset
<1>5. QED
  BY <1>2, <1>3, <1>4

\* The heap is finite, and so is any run in it.
LEMMA HeapIsFinite ==
  ASSUME G.clusterCount \in Int
  PROVE  IsFiniteSet(InHeap)
  BY FS_Interval DEF InHeap, FIRST_CLUSTER

\* A sequence is one of its own elements.
LEMMA OwnSequence ==
  ASSUME NEW S, NEW s \in Seq(S)
  PROVE  s \in Seq(ToSet(s))
<1>1. s \in [1 .. Len(s) -> ToSet(s)] /\ Len(s) \in Nat
  BY LenProperties DEF ToSet
<1>2. QED
  BY <1>1, SeqDef, Zenon

LEMMA ElementsOf ==
  ASSUME NEW S, NEW s \in Seq(S), s # <<>>
  PROVE  ToSet(s) \subseteq S /\ ToSet(s) # {}
<1>1. Len(s) \in Nat \ {0} /\ s \in [1 .. Len(s) -> S]
  BY EmptySeq, LenProperties
<1>2. 1 \in DOMAIN s
  BY <1>1
<1>3. QED
  BY <1>1, <1>2 DEF ToSet

\* What Append, Front and a change of one element make of a stack.
LEMMA AppendTyped ==
  ASSUME NEW s, s \in Seq(ToSet(s)), NEW e
  PROVE  /\ Append(s, e) \in Seq(ToSet(Append(s, e)))
         /\ Len(Append(s, e)) = Len(s) + 1
         /\ Append(s, e)[Len(s) + 1] = e
<1> DEFINE S == ToSet(s) \cup {e}
<1>1. s \in Seq(S) /\ e \in S
  BY SeqMonotonic
<1> HIDE DEF S
<1>2. /\ Append(s, e) \in Seq(S)
      /\ Len(Append(s, e)) = Len(s) + 1
      /\ Append(s, e)[Len(s) + 1] = e
  BY <1>1, AppendProperties
<1>3. QED
  BY <1>2, OwnSequence

LEMMA FrontTyped ==
  ASSUME NEW s, s \in Seq(ToSet(s)), s # <<>>
  PROVE  Front(s) \in Seq(ToSet(Front(s))) /\ Len(Front(s)) = Len(s) - 1
<1>1. Len(s) \in Nat \ {0}
  BY EmptySeq
<1>2. \A k \in 1 .. Len(s) - 1 : s[k] \in ToSet(s)
  BY <1>1, LenProperties DEF ToSet
<1>3. /\ SubSeq(s, 1, Len(s) - 1) \in Seq(ToSet(s))
      /\ Len(SubSeq(s, 1, Len(s) - 1)) = Len(s) - 1
  <2> DEFINE n == Len(s) - 1
  <2>1. n \in Nat
    BY <1>1
  <2> HIDE DEF n
  <2>2. \A k \in 1 .. n : s[k] \in ToSet(s)
    BY <1>2 DEF n
  <2>3. SubSeq(s, 1, n) \in Seq(ToSet(s)) /\ Len(SubSeq(s, 1, n)) = IF 1 <= n THEN n - 1 + 1 ELSE 0
    BY <2>1, <2>2, SubSeqProperties
  <2>4. (IF 1 <= n THEN n - 1 + 1 ELSE 0) = n
    BY <2>1
  <2>5. QED
    BY <2>3, <2>4 DEF n
<1>4. QED
  BY <1>3, OwnSequence DEF Front

LEMMA ExceptTyped ==
  ASSUME NEW s, s \in Seq(ToSet(s)), s # <<>>, NEW e
  PROVE  LET t == [s EXCEPT ![Len(s)] = e]
         IN  t \in Seq(ToSet(t)) /\ Len(t) = Len(s) /\ t[Len(t)] = e
<1> DEFINE S == ToSet(s) \cup {e}
           t == [s EXCEPT ![Len(s)] = e]
<1>1. s \in Seq(S) /\ e \in S
  BY SeqMonotonic
<1>2. Len(s) \in Nat \ {0}
  BY EmptySeq
<1> HIDE DEF S
<1>3. Len(s) \in 1 .. Len(s)
  BY <1>2
<1>4. t \in Seq(S) /\ Len(t) = Len(s) /\ t[Len(s)] = e
  BY <1>1, <1>3, ExceptSeq
<1> HIDE DEF t
<1>5. t \in Seq(ToSet(t))
  BY <1>4, OwnSequence
<1>6. QED
  BY <1>4, <1>5 DEF t

LEMMA OneTyped ==
  ASSUME NEW e
  PROVE  <<e>> \in Seq(ToSet(<<e>>)) /\ Len(<<e>>) = 1 /\ <<e>>[1] = e
<1>1. <<e>> \in Seq({e}) /\ Len(<<e>>) = 1 /\ <<e>>[1] = e
  OBVIOUS
<1>2. QED
  BY <1>1, OwnSequence

----------------------------------------------------------------------------
(* The steps.                                                              *)

LEMMA InitSound == Init => IInv
<1> SUFFICES ASSUME Init PROVE IInv
  OBVIOUS
<1>1. PICK label \in BOOLEAN :
        LET fits == Fits(VolumeBytes, SectorBytes, tree, label)
        IN  IF fits = "Ok"
            THEN volume = VolumeOf(tree, label) /\ reader = Fresh
            ELSE /\ volume = VolumeOf(<<>>, FALSE)
                 /\ reader = [Fresh EXCEPT !.pc = "end", !.result = fits]
  BY Zenon DEF Init
<1> DEFINE fits == Fits(VolumeBytes, SectorBytes, tree, label)
<1>2. CASE fits = "Ok"
  <2>1. volume = VolumeOf(tree, label) /\ reader = Fresh
    BY <1>1, <1>2
  <2>2. \E g \in Geometry(VolumeBytes, SectorBytes) : TRUE
    BY <1>2, Zenon DEF Fits
  <2>3. Home \in Geometry(VolumeBytes, SectorBytes)
    BY <2>2, Zenon DEF Home
  <2>4. "boot" \in DOMAIN volume /\ "geometry" \in DOMAIN volume.boot /\ G = Home
    BY <2>1 DEF VolumeOf, Boot, G
  <2>5. G \in GeometryFields
    BY <2>3, <2>4, GeometryIsTyped
  <2>6. QED
    BY <2>1, <2>4, <2>5, FS_EmptySet DEF Fresh, IInv, Typed, Opened, Asking, ReadsInside, Deep
<1>3. CASE fits # "Ok"
  <2>1. reader = [Fresh EXCEPT !.pc = "end", !.result = fits]
    BY <1>1, <1>3
  <2> HIDE DEF fits
  <2>2. QED
    BY <2>1, FS_EmptySet DEF Fresh, IInv, Typed, Opened, Asking, ReadsInside, Deep
<1>4. QED
  BY <1>2, <1>3

\* A refused volume is left where it is.
LEMMA RefuseSound ==
  ASSUME IInv, reader.pc # "end", NEW why, Refuse(why), UNCHANGED volume
  PROVE  IInv'
<1>1. /\ DOMAIN reader' = DOMAIN reader /\ reader'.pc = "end" /\ reader'.result = why
      /\ reader'.stack = <<>> /\ reader'.reach = reader.reach /\ reader'.claimed = reader.claimed
  BY DEF Refuse, IInv, Typed
<1>2. \A n \in reader.reach : n <= G.volumeSectors /\ n <= Sectors
  BY DEF IInv, Asking, ReadsInside
<1>3. Typed' /\ Opened' /\ Asking' /\ Deep'
  BY <1>1 DEF IInv, Typed, Opened, Asking, Deep
<1>4. ReadsInside'
  BY <1>1, <1>2 DEF ReadsInside, G
<1>5. QED
  BY <1>3, <1>4 DEF IInv

\* So is one that was asked for what is not there.
LEMMA RefuseReadSound ==
  ASSUME IInv, G \in GeometryFields, FitsItself(G), Measured, UNCHANGED volume,
         NEW c, ToSet(c) \subseteq InHeap, RefuseRead(ReachOf(c))
  PROVE  IInv'
<1>1. /\ DOMAIN reader' = DOMAIN reader /\ reader'.pc = "end" /\ reader'.result = "Io"
      /\ reader'.stack = <<>> /\ reader'.reach = ReachOf(c) /\ reader'.claimed = reader.claimed
  BY DEF RefuseRead, IInv, Typed
<1>2. \A n \in ReachOf(c) : /\ n <= G.volumeSectors
                            /\ G.volumeSectors * SectorBytes <= U64 => n <= Sectors
  BY AskedIsInside
<1>3. Typed' /\ Opened' /\ Asking' /\ Deep'
  BY <1>1 DEF IInv, Typed, Opened, Asking, Deep
<1>4. ReadsInside'
  BY <1>1, <1>2 DEF ReadsInside, G
<1>5. QED
  BY <1>3, <1>4 DEF IInv

\* What was asked for and is there.
LEMMA ReadIsInside ==
  ASSUME G \in GeometryFields, FitsItself(G), NEW c, ToSet(c) \subseteq InHeap, Readable(c)
  PROVE  \A n \in ReachOf(c) : n <= G.volumeSectors /\ n <= Sectors
  BY ReachIsInside DEF Readable

LEMMA OpenSound ==
  ASSUME IInv, Open
  PROVE  IInv'
<1> DEFINE root == {c \in Chain(B.root, {}) : Len(c) * ClusterBytes(G) <= MAX_DIRECTORY_BYTES}
           good == IF Opens /\ FatEntry(0) = MEDIA /\ FatEntry(1) = END_OF_CHAIN THEN root ELSE {}
<1>0. reader.pc = "open" /\ UNCHANGED volume
  BY DEF Open
<1>1. CASE Refuse("Io")
  BY <1>0, <1>1, RefuseSound
<1>2. ASSUME NEW c \in good, ~Readable(c), RefuseRead(ReachOf(c))
      PROVE  IInv'
  <2>1. G \in GeometryFields /\ G.clusterCount \in Int
    BY <1>0 DEF IInv, Typed, GeometryFields
  <2>2. Opens /\ c \in Chain(B.root, {})
    BY <1>2
  <2>3. ToSet(c) \subseteq InHeap
    BY <2>1, <2>2, ChainIsInHeap, ElementsOf
  <2>4. FitsItself(G) /\ Measured
    BY <2>2 DEF Opens, Measured
  <2>5. QED
    BY <1>0, <1>2, <2>1, <2>3, <2>4, RefuseReadSound
<1>3. ASSUME NEW c \in good, Readable(c),
             reader' = [reader EXCEPT
                !.pc = "system", !.claimed = ToSet(c), !.reach = ReachOf(c),
                !.stack = <<FrameOf(<<>>, ReadRuns(c, Len(c) * ClusterBytes(G)))>>]
      PROVE  IInv'
  <2> DEFINE frame == FrameOf(<<>>, ReadRuns(c, Len(c) * ClusterBytes(G)))
             reach == ReachOf(c)
  <2>1. reader.pc = "open" /\ UNCHANGED volume
    BY DEF Open
  <2>2. G \in GeometryFields
    BY <2>1 DEF IInv, Typed
  <2>3. G.clusterCount \in Int
    BY <2>2 DEF GeometryFields
  <2>4. Opens /\ c \in Chain(B.root, {})
    BY <1>3
  <2>5. c \in Seq(InHeap) /\ c # <<>>
    BY <2>3, <2>4, ChainIsInHeap
  <2>6. ToSet(c) \subseteq InHeap /\ ToSet(c) # {}
    BY <2>5, ElementsOf
  <2>7. FitsItself(G) /\ Measured
    BY <2>4 DEF Opens, Measured
  <2>8. \A n \in reach : n <= G.volumeSectors /\ n <= Sectors
    BY <1>3, <2>2, <2>6, <2>7, ReadIsInside
  <2>9. IsFiniteSet(ToSet(c))
    BY <2>3, <2>6, HeapIsFinite, FS_Subset
  <2> HIDE DEF frame, reach
  <2>10. reader' = [reader EXCEPT !.pc = "system", !.claimed = ToSet(c), !.reach = reach,
                                  !.stack = <<frame>>]
    BY <1>3 DEF frame, reach
  <2>11. /\ DOMAIN reader' = DOMAIN reader
         /\ reader'.pc = "system" /\ reader'.claimed = ToSet(c) /\ reader'.reach = reach
         /\ reader'.stack = <<frame>> /\ reader'.result = reader.result
    BY <2>10 DEF IInv, Typed
  <2>12. Typed'
    BY <2>1, <2>9, <2>11, OneTyped DEF IInv, Typed, G
  <2>13. Opened' /\ Asking' /\ ReadsInside'
    BY <2>1, <2>7, <2>8, <2>11 DEF IInv, Opened, Measured, Asking, ReadsInside, G
  <2>14. Deep'
    BY <2>6, <2>11, OneTyped DEF Deep
  <2>15. QED
    BY <2>12, <2>13, <2>14 DEF IInv
<1>4. QED
  BY <1>1, <1>2, <1>3, Zenon DEF Open

LEMMA SystemSound ==
  ASSUME IInv, System
  PROVE  IInv'
<1>0. reader.pc = "system" /\ UNCHANGED volume
  BY DEF System
<1>1. ASSUME NEW why, Refuse(why) PROVE IInv'
  BY <1>0, <1>1, RefuseSound
<1>2. ASSUME NEW c \in BitmapClusters \cup TableClusters, RefuseRead(ReachOf(c)) PROVE IInv'
  <2>1. G \in GeometryFields /\ FitsItself(G) /\ Measured
    BY <1>0 DEF IInv, Typed, Opened
  <2>2. G.clusterCount \in Int
    BY <2>1 DEF GeometryFields
  <2>3. PICK first, length : c \in Chain(first, length)
    BY DEF BitmapClusters, TableClusters
  <2>4. ToSet(c) \subseteq InHeap
    BY <2>2, <2>3, ChainIsInHeap, ElementsOf
  <2>5. QED
    BY <1>0, <1>2, <2>1, <2>4, RefuseReadSound
<1>3. ASSUME NEW b \in BitmapClusters, Free(b), Readable(b),
             NEW t \in TableClusters, Free(t), Readable(t),
             reader' = [reader EXCEPT !.pc = "walk",
                           !.claimed = @ \cup (ToSet(b) \cup ToSet(t)),
                           !.reach = ReachOf(b) \cup ReachOf(t), !.bits = BitsIn(Cluster(b[1]))]
      PROVE  IInv'
  <2> DEFINE taken == ToSet(b) \cup ToSet(t)
             reach == ReachOf(b) \cup ReachOf(t)
             marks == BitsIn(Cluster(b[1]))
  <2>1. G \in GeometryFields /\ FitsItself(G) /\ Measured
    BY <1>0 DEF IInv, Typed, Opened
  <2>2. G.clusterCount \in Int
    BY <2>1 DEF GeometryFields
  <2>3. b \in Seq(InHeap) /\ b # <<>>
    <3>1. PICK first, length : b \in Chain(first, length)
      BY DEF BitmapClusters
    <3>2. QED
      BY <2>2, <3>1, ChainIsInHeap
  <2>4. t \in Seq(InHeap) /\ t # <<>>
    <3>1. PICK first, length : t \in Chain(first, length)
      BY DEF TableClusters
    <3>2. QED
      BY <2>2, <3>1, ChainIsInHeap
  <2>5. ToSet(b) \subseteq InHeap /\ ToSet(b) # {}
    BY <2>3, ElementsOf
  <2>6. ToSet(t) \subseteq InHeap
    BY <2>4, ElementsOf
  <2>7. \A n \in reach : n <= G.volumeSectors /\ n <= Sectors
    <3>1. \A n \in ReachOf(b) : n <= G.volumeSectors /\ n <= Sectors
      BY <1>3, <2>1, <2>5, ReadIsInside
    <3>2. \A n \in ReachOf(t) : n <= G.volumeSectors /\ n <= Sectors
      BY <1>3, <2>1, <2>6, ReadIsInside
    <3>3. QED
      BY <3>1, <3>2
  <2>8. /\ IsFiniteSet(reader.claimed \cup taken)
        /\ Cardinality(reader.claimed) \in Nat
        /\ Cardinality(reader.claimed \cup taken) \in Nat
        /\ Cardinality(reader.claimed) < Cardinality(reader.claimed \cup taken)
    <3>1. reader.claimed \cap taken = {}
      BY <1>3 DEF Free
    <3>2. IsFiniteSet(reader.claimed)
      BY DEF IInv, Typed
    <3>3. IsFiniteSet(InHeap)
      BY <2>2, HeapIsFinite
    <3>4. taken \subseteq InHeap /\ taken # {}
      BY <2>5, <2>6
    <3> HIDE DEF taken
    <3>5. QED
      BY <3>1, <3>2, <3>3, <3>4, ClaimGrows
  <2>9. Cardinality(reader.claimed) # 0
    BY <1>0, FS_EmptySet DEF IInv, Typed, Deep
  <2> HIDE DEF taken, reach, marks
  <2>10. reader' = [reader EXCEPT !.pc = "walk", !.claimed = @ \cup taken, !.reach = reach,
                                  !.bits = marks]
    BY <1>3 DEF taken, reach, marks
  <2>11. /\ DOMAIN reader' = DOMAIN reader
         /\ reader'.pc = "walk" /\ reader'.claimed = reader.claimed \cup taken
         /\ reader'.reach = reach /\ reader'.stack = reader.stack /\ reader'.result = reader.result
    BY <2>10 DEF IInv, Typed
  <2>12. Typed'
    BY <1>0, <2>8, <2>11 DEF IInv, Typed, G
  <2>13. Opened' /\ Asking' /\ ReadsInside'
    BY <1>0, <2>1, <2>7, <2>11 DEF IInv, Opened, Measured, Asking, ReadsInside, G
  <2>14. Len(reader.stack) = 1
    BY <1>0 DEF IInv, Deep
  <2>15. reader.stack # <<>>
    <3> SUFFICES ASSUME reader.stack = <<>> PROVE FALSE
      OBVIOUS
    <3>1. Len(reader.stack) = 0
      OBVIOUS
    <3>2. QED
      BY <2>14, <3>1
  <2>16. Deep'
    BY <2>8, <2>9, <2>11, <2>14, <2>15 DEF Deep
  <2>17. QED
    BY <2>12, <2>13, <2>16 DEF IInv
<1>4. QED
  <2>1. \A c \in BitmapClusters : RefuseRead(ReachOf(c)) => IInv'
    BY <1>2
  <2>2. \A c \in TableClusters : RefuseRead(ReachOf(c)) => IInv'
    BY <1>2
  <2>3. QED
    BY <1>1, <1>3, <2>1, <2>2, Zenon DEF System

\* The walk, from the step before.
LEMMA Walking ==
  ASSUME IInv, reader.pc = "walk"
  PROVE  /\ reader.stack \in Seq(ToSet(reader.stack)) /\ reader.stack # <<>>
         /\ Len(reader.stack) \in Nat \ {0}
         /\ Cardinality(reader.claimed) \in Nat
         /\ G \in GeometryFields /\ FitsItself(G) /\ Measured
         /\ G.clusterCount \in Int
<1>1. reader.stack \in Seq(ToSet(reader.stack)) /\ reader.stack # <<>>
  BY DEF IInv, Typed, Deep
<1>2. Len(reader.stack) \in Nat \ {0}
  BY <1>1, EmptySeq
<1>3. G \in GeometryFields /\ FitsItself(G) /\ Measured
  BY DEF IInv, Typed, Opened
<1>4. Cardinality(reader.claimed) \in Nat
  BY FS_CardinalityType DEF IInv, Typed
<1>5. QED
  BY <1>1, <1>2, <1>3, <1>4 DEF GeometryFields

LEMMA ReturnSound ==
  ASSUME IInv, Return
  PROVE  IInv'
<1> DEFINE stack == Front(reader.stack)
<1>1. /\ reader.pc = "walk" /\ UNCHANGED volume
      /\ reader' = [reader EXCEPT !.stack = stack,
                                  !.pc = IF Len(reader.stack) = 1 THEN "allocation" ELSE "walk"]
  BY DEF Return
<1>2. stack \in Seq(ToSet(stack)) /\ Len(stack) = Len(reader.stack) - 1
  BY <1>1, Walking, FrontTyped
<1>3. Len(stack) = 0 => stack = <<>>
  BY <1>2, EmptySeq
<1>4. Len(<<>>) = 0
  OBVIOUS
<1> HIDE DEF stack
<1>5. /\ DOMAIN reader' = DOMAIN reader /\ reader'.stack = stack
      /\ reader'.pc = (IF Len(reader.stack) = 1 THEN "allocation" ELSE "walk")
      /\ reader'.claimed = reader.claimed /\ reader'.reach = reader.reach
      /\ reader'.result = reader.result
  BY <1>1 DEF IInv, Typed
<1>6. Typed'
  BY <1>1, <1>2, <1>5 DEF IInv, Typed, G
<1>7. Opened' /\ Asking' /\ ReadsInside'
  BY <1>1, <1>5, Walking DEF IInv, Opened, Measured, Asking, ReadsInside, G
<1>8. Len(reader.stack) <= Cardinality(reader.claimed)
  BY <1>1 DEF IInv, Deep
<1>9. Deep'
  <2>1. CASE Len(reader.stack) = 1
    BY <2>1, <1>2, <1>3, <1>5 DEF Deep
  <2>2. CASE Len(reader.stack) # 1
    <3>1. Len(stack) # 0 /\ Len(stack) < Cardinality(reader.claimed)
      BY <2>2, <1>1, <1>2, <1>8, Walking
    <3>2. Len(stack) <= Cardinality(reader.claimed)
      BY <1>1, <1>2, <1>8, Walking
    <3>3. stack # <<>>
      BY <3>1, <1>4
    <3>4. QED
      BY <2>2, <3>1, <3>2, <3>3, <1>5 DEF Deep
  <2>3. QED
    BY <2>1, <2>2
<1>10. QED
  BY <1>6, <1>7, <1>9 DEF IInv

LEMMA SkipSound ==
  ASSUME IInv, Skip
  PROVE  IInv'
<1> DEFINE stack == [reader.stack EXCEPT ![Len(reader.stack)] = Skipped]
<1>1. reader.pc = "walk" /\ UNCHANGED volume /\ TopHasMore
  BY DEF Skip, TopHasMore
<1>2. CASE Refuse("VolumeDiffers")
  BY <1>1, <1>2, RefuseSound
<1>3. CASE reader' = [reader EXCEPT !.stack[Len(reader.stack)] = Skipped]
  <2>1. stack \in Seq(ToSet(stack)) /\ Len(stack) = Len(reader.stack)
    BY <1>1, Walking, ExceptTyped
  <2>2. stack # <<>>
    BY <2>1, <1>1, Walking
  <2> HIDE DEF stack
  <2>3. /\ DOMAIN reader' = DOMAIN reader /\ reader'.stack = stack /\ reader'.pc = "walk"
        /\ reader'.claimed = reader.claimed /\ reader'.reach = reader.reach
        /\ reader'.result = reader.result
    BY <1>1, <1>3 DEF IInv, Typed, stack
  <2>4. Typed'
    BY <1>1, <2>1, <2>3 DEF IInv, Typed, G
  <2>5. Opened' /\ Asking' /\ ReadsInside'
    BY <1>1, <2>3, Walking DEF IInv, Opened, Measured, Asking, ReadsInside, G
  <2>6. Len(reader.stack) < Cardinality(reader.claimed)
    BY <1>1 DEF IInv, Deep
  <2>7. Deep'
    BY <1>1, <2>1, <2>2, <2>3, <2>6, Walking DEF Deep
  <2>8. QED
    BY <2>4, <2>5, <2>7 DEF IInv
<1>4. QED
  BY <1>2, <1>3, Zenon DEF Skip

\* A directory that holds something, and so a frame with a piece left, takes a
\* cluster that nothing else has.
LEMMA ReadSetSound ==
  ASSUME IInv, ReadSet
  PROVE  IInv'
<1>1. reader.pc = "walk" /\ UNCHANGED volume /\ TopHasMore
  BY DEF ReadSet, TopHasMore
<1>2. ASSUME NEW why, Refuse(why) PROVE IInv'
  BY <1>1, <1>2, RefuseSound
<1>3. ASSUME NEW c \in SetClusters, RefuseRead(ReachOf(c)) PROVE IInv'
  <2>1. c \in RunsOf(Data)
    BY Zenon DEF SetClusters
  <2>2. ToSet(c) \subseteq InHeap
    BY <1>1, <2>1, Walking, RunsAreInHeap
  <2>3. QED
    BY <1>1, <1>3, <2>2, Walking, RefuseReadSound
<1>4. ASSUME NEW c \in SetClusters, Piece.dir => Readable(c),
             LET stack == [reader.stack EXCEPT ![Len(reader.stack)] = Passed]
             IN  reader' = [reader EXCEPT
                   !.claimed = @ \cup ToSet(c), !.nodes = Append(@, Node),
                   !.stack = IF Piece.dir
                             THEN Append(stack, FrameOf(Node.path, ReadRuns(c, Data.length)))
                             ELSE stack,
                   !.reach = IF Piece.dir THEN ReachOf(c) ELSE @]
      PROVE  IInv'
  <2> DEFINE passed == [reader.stack EXCEPT ![Len(reader.stack)] = Passed]
             frame  == FrameOf(Node.path, ReadRuns(c, Data.length))
             stack  == IF Piece.dir THEN Append(passed, frame) ELSE passed
             reach  == IF Piece.dir THEN ReachOf(c) ELSE reader.reach
             nodes  == Append(reader.nodes, Node)
             claimed == reader.claimed \cup ToSet(c)
  <2>1. c \in RunsOf(Data) /\ Free(c)
    BY Zenon DEF SetClusters
  <2>2. ToSet(c) \subseteq InHeap
    BY <1>1, <2>1, Walking, RunsAreInHeap
  <2>3. \A n \in reach : n <= G.volumeSectors /\ n <= Sectors
    <3>1. Piece.dir => \A n \in ReachOf(c) : n <= G.volumeSectors /\ n <= Sectors
      BY <1>1, <1>4, <2>2, Walking, ReadIsInside
    <3>2. \A n \in reader.reach : n <= G.volumeSectors /\ n <= Sectors
      BY <1>1 DEF IInv, Asking, ReadsInside
    <3>3. QED
      BY <3>1, <3>2
  <2>4. /\ IsFiniteSet(claimed) /\ Cardinality(claimed) \in Nat
        /\ Cardinality(reader.claimed) <= Cardinality(claimed)
        /\ ToSet(c) # {} => Cardinality(reader.claimed) < Cardinality(claimed)
    <3>1. reader.claimed \cap ToSet(c) = {}
      BY <2>1 DEF Free
    <3>2. IsFiniteSet(reader.claimed)
      BY DEF IInv, Typed
    <3>3. IsFiniteSet(InHeap)
      BY <1>1, Walking, HeapIsFinite
    <3>4. QED
      BY <2>2, <3>1, <3>2, <3>3, ClaimGrows
  <2>5. passed \in Seq(ToSet(passed)) /\ Len(passed) = Len(reader.stack)
    BY <1>1, Walking, ExceptTyped
  <2>6. Len(reader.stack) < Cardinality(reader.claimed)
    BY <1>1 DEF IInv, Deep
  <2>7. stack \in Seq(ToSet(stack)) /\ stack # <<>>
    <3>0. Len(reader.stack) \in Nat \ {0} /\ Len(<<>>) = 0
      BY <1>1, Walking
    <3>1. CASE Piece.dir
      <4> HIDE DEF passed, frame
      <4>1. /\ Append(passed, frame) \in Seq(ToSet(Append(passed, frame)))
            /\ Len(Append(passed, frame)) = Len(passed) + 1
        BY <2>5, AppendTyped
      <4>2. Append(passed, frame) # <<>>
        BY <4>1, <3>0, <2>5
      <4>3. QED
        BY <3>1, <4>1, <4>2
    <3>2. CASE ~Piece.dir
      <4> HIDE DEF passed
      <4>1. QED
        BY <3>2, <2>5, <3>0
    <3>3. QED
      BY <3>1, <3>2
  <2>8. /\ Len(stack) <= Cardinality(claimed)
        /\ Last(stack).at <= Len(Last(stack).pieces) => Len(stack) < Cardinality(claimed)
    <3>1. CASE ~Piece.dir
      BY <3>1, <2>4, <2>5, <2>6, <1>1, Walking
    <3>2. CASE Piece.dir
      <4>1. Len(stack) = Len(reader.stack) + 1 /\ Last(stack) = frame
        <5> HIDE DEF passed, frame
        <5>1. Len(Append(passed, frame)) = Len(passed) + 1 /\ Append(passed, frame)[Len(passed) + 1] = frame
          BY <2>5, AppendTyped
        <5>2. QED
          BY <3>2, <5>1, <2>5 DEF Last
      <4>2. ToSet(c) = {} => Len(frame.pieces) = 0 /\ frame.at = 1
        BY <1>1, <2>1, Walking, NothingIsRead DEF FrameOf
      <4> HIDE DEF stack, frame, claimed
      <4>3. CASE ToSet(c) = {}
        BY <4>1, <4>2, <4>3, <2>4, <2>6, <1>1, Walking
      <4>4. CASE ToSet(c) # {}
        BY <4>1, <4>4, <2>4, <2>6, <1>1, Walking
      <4>5. QED
        BY <4>3, <4>4
    <3>3. QED
      BY <3>1, <3>2
  <2>9. reader' = [reader EXCEPT !.claimed = claimed, !.nodes = nodes, !.stack = stack, !.reach = reach]
    BY <1>4
  <2> HIDE DEF passed, frame, stack, reach, nodes, claimed
  <2>10. /\ DOMAIN reader' = DOMAIN reader /\ reader'.stack = stack /\ reader'.pc = "walk"
         /\ reader'.claimed = claimed /\ reader'.reach = reach /\ reader'.result = reader.result
    BY <1>1, <2>9 DEF IInv, Typed
  <2>11. Typed'
    BY <1>1, <2>4, <2>7, <2>10 DEF IInv, Typed, G
  <2>12. Opened' /\ Asking' /\ ReadsInside'
    BY <1>1, <2>3, <2>10, Walking DEF IInv, Opened, Measured, Asking, ReadsInside, G
  <2>13. Deep'
    BY <2>7, <2>8, <2>10 DEF Deep, TopHasMore, Frame
  <2>14. QED
    BY <2>11, <2>12, <2>13 DEF IInv
<1>5. QED
  BY <1>2, <1>3, <1>4, Zenon DEF ReadSet

LEMMA CheckAllocationSound ==
  ASSUME IInv, CheckAllocation
  PROVE  IInv'
<1>1. reader.pc = "allocation" /\ UNCHANGED volume
  BY DEF CheckAllocation
<1>2. CASE Refuse("Io")
  BY <1>1, <1>2, RefuseSound
<1>3. CASE reader' = [reader EXCEPT !.pc = "compare"]
  BY <1>1, <1>3 DEF IInv, Typed, Opened, Measured, Asking, ReadsInside, Deep, G
<1>4. QED
  BY <1>2, <1>3, Zenon DEF CheckAllocation

LEMMA CompareSound ==
  ASSUME IInv, Compare
  PROVE  IInv'
<1> DEFINE files == {n \in ToSet(reader.nodes) : ~n.dir}
           rows  == UNION {RunsOf(n.data) : n \in files}
           reach == UNION {ReachOf(c) : c \in rows}
<1>1. reader.pc = "compare" /\ UNCHANGED volume
  BY DEF Compare
<1>2. CASE Refuse("VolumeDiffers")
  BY <1>1, <1>2, RefuseSound
<1>3. G \in GeometryFields /\ FitsItself(G) /\ Measured
  BY <1>1 DEF IInv, Typed, Opened
<1>4. \A c \in rows : ToSet(c) \subseteq InHeap
  <2> TAKE c \in rows
  <2>1. PICK m \in files : c \in RunsOf(m.data)
    OBVIOUS
  <2>2. G.clusterCount \in Int
    BY <1>3 DEF GeometryFields
  <2>3. QED
    BY <2>1, <2>2, RunsAreInHeap
<1>5. ASSUME NEW c \in rows, RefuseRead(ReachOf(c)) PROVE IInv'
  BY <1>1, <1>3, <1>4, <1>5, RefuseReadSound
<1>6. ASSUME \A c \in rows : Readable(c),
             reader' = [reader EXCEPT !.pc = "end", !.result = "Ok", !.reach = reach]
      PROVE  IInv'
  <2>1. ASSUME NEW n \in reach PROVE n <= G.volumeSectors /\ n <= Sectors
    <3>1. PICK c \in rows : n \in ReachOf(c)
      BY Zenon
    <3>2. QED
      BY <1>3, <1>4, <1>6, <3>1, ReadIsInside
  <2> HIDE DEF reach
  <2>2. /\ DOMAIN reader' = DOMAIN reader /\ reader'.pc = "end" /\ reader'.result = "Ok"
        /\ reader'.reach = reach /\ reader'.claimed = reader.claimed /\ reader'.stack = reader.stack
    BY <1>6 DEF IInv, Typed
  <2>3. Typed' /\ Opened' /\ Asking' /\ Deep'
    BY <1>1, <2>2 DEF IInv, Typed, Opened, Asking, Deep
  <2>4. ReadsInside'
    BY <1>1, <2>1, <2>2 DEF ReadsInside, G
  <2>5. QED
    BY <2>3, <2>4 DEF IInv
<1>7. QED
  BY <1>2, <1>5, <1>6, Zenon DEF Compare

\* A geometry of another size is one too.
LEMMA StillGeometry ==
  ASSUME NEW g \in GeometryFields, NEW w \in Int, NEW n \in Int
  PROVE  [g EXCEPT !.volumeSectors = @ + w, !.clusterCount = @ + n] \in GeometryFields
<1> DEFINE h == [g EXCEPT !.volumeSectors = @ + w]
<1>1. h \in GeometryFields
  BY DEF GeometryFields
<1>2. [g EXCEPT !.volumeSectors = @ + w, !.clusterCount = @ + n] = [h EXCEPT !.clusterCount = @ + n]
  OBVIOUS
<1> HIDE DEF h
<1>3. [h EXCEPT !.clusterCount = @ + n] \in GeometryFields
  BY <1>1 DEF GeometryFields
<1>4. QED
  BY <1>2, <1>3

\* Harm comes before the volume is opened, and leaves its parts.
LEMMA HarmSound ==
  ASSUME IInv, HarmBoot \/ HarmFat \/ HarmEntry
  PROVE  IInv'
<1>1. reader.pc = "open" /\ UNCHANGED reader
  BY DEF HarmBoot, HarmFat, HarmEntry, Harmful
<1>2. /\ "boot" \in DOMAIN volume /\ "geometry" \in DOMAIN volume.boot
      /\ G \in GeometryFields /\ Home \in GeometryFields
  BY <1>1 DEF IInv, Typed
<1>3. "boot" \in DOMAIN volume' /\ "geometry" \in DOMAIN volume'.boot /\ G' \in GeometryFields
  <2>1. CASE HarmBoot
    <3>1. CASE \E f \in {"fatOffset", "fatLength", "heapOffset", "volumeSectors", "clusterCount"},
                  n \in {-1, 1, Home.clusterCount * Home.clusterSectors} :
                 volume' = [volume EXCEPT !.boot.geometry[f] = @ + n]
      <4>1. PICK f \in {"fatOffset", "fatLength", "heapOffset", "volumeSectors", "clusterCount"},
                 n \in {-1, 1, Home.clusterCount * Home.clusterSectors} :
              volume' = [volume EXCEPT !.boot.geometry[f] = @ + n]
        BY <3>1
      <4>2. /\ "boot" \in DOMAIN volume' /\ "geometry" \in DOMAIN volume'.boot
            /\ G' = [G EXCEPT ![f] = @ + n]
        BY <4>1, <1>2 DEF G
      <4>3. n \in Int
        BY <4>1, <1>2 DEF GeometryFields
      <4>4. [G EXCEPT ![f] = @ + n] \in GeometryFields
        BY <1>2, <4>3 DEF GeometryFields
      <4>5. QED
        BY <4>2, <4>4
    <3>2. CASE \E f \in {"root", "percent"}, n \in {-1, 1} : volume' = [volume EXCEPT !.boot[f] = @ + n]
      BY <3>2, <1>2 DEF G
    <3>3. CASE \E f \in {"sealed", "plain"} : volume' = [volume EXCEPT !.boot[f] = FALSE]
      BY <3>3, <1>2 DEF G
    <3>4. CASE \E n \in {0, 1} :
                 volume' = [volume EXCEPT
                   !.boot.geometry.volumeSectors = @ + (U64 + 1) \div SectorBytes,
                   !.boot.geometry.clusterCount = @ + n]
      <4>1. PICK n \in {0, 1} :
              volume' = [volume EXCEPT
                !.boot.geometry.volumeSectors = @ + (U64 + 1) \div SectorBytes,
                !.boot.geometry.clusterCount = @ + n]
        BY <3>4
      <4>2. (U64 + 1) \div SectorBytes \in Int
        BY SectorIsPositive, VolumeAssumption, Quotient
      <4>3. \A w : volume' = [volume EXCEPT !.boot.geometry.volumeSectors = @ + w,
                                           !.boot.geometry.clusterCount = @ + n] =>
              /\ "boot" \in DOMAIN volume' /\ "geometry" \in DOMAIN volume'.boot
              /\ G' = [G EXCEPT !.volumeSectors = @ + w, !.clusterCount = @ + n]
        BY <1>2 DEF G
      <4>4. \A w \in Int : [G EXCEPT !.volumeSectors = @ + w, !.clusterCount = @ + n] \in GeometryFields
        <5>1. n \in Int
          BY <4>1
        <5>2. QED
          BY <1>2, <5>1, StillGeometry
      <4>5. QED
        BY <4>1, <4>2, <4>3, <4>4
    <3>5. QED
      BY <2>1, <3>1, <3>2, <3>3, <3>4, Zenon DEF HarmBoot
  <2>2. CASE HarmFat
    BY <2>2, <1>2 DEF HarmFat, G
  <2>3. CASE HarmEntry
    <3>1. volume'.boot = volume.boot /\ DOMAIN volume' = DOMAIN volume
      <4>1. ASSUME NEW c, NEW p, NEW x, volume' = [volume EXCEPT !.heap[c][p] = x]
            PROVE  volume'.boot = volume.boot /\ DOMAIN volume' = DOMAIN volume
        BY <4>1, <1>2
      <4>2. QED
        BY <2>3, <4>1, Zenon DEF HarmEntry
    <3>2. QED
      BY <3>1, <1>2 DEF G
  <2>4. QED
    BY <2>1, <2>2, <2>3
<1>4. QED
  BY <1>1, <1>2, <1>3 DEF IInv, Typed, Opened, Asking, ReadsInside, Deep, TopHasMore, Frame, Home

LEMMA StepSound == IInv /\ [Next]_vars => IInv'
<1> SUFFICES ASSUME IInv, [Next]_vars PROVE IInv'
  OBVIOUS
<1>1. CASE HarmBoot \/ HarmFat \/ HarmEntry
  BY <1>1, HarmSound
<1>2. CASE Open
  BY <1>2, OpenSound
<1>3. CASE System
  BY <1>3, SystemSound
<1>4. CASE Return
  BY <1>4, ReturnSound
<1>5. CASE Skip
  BY <1>5, SkipSound
<1>6. CASE ReadSet
  BY <1>6, ReadSetSound
<1>7. CASE CheckAllocation
  BY <1>7, CheckAllocationSound
<1>8. CASE Compare
  BY <1>8, CompareSound
<1>9. CASE UNCHANGED vars
  BY <1>9 DEF vars, IInv, Typed, Opened, Measured, Asking, ReadsInside, Deep, TopHasMore, Frame, G
<1>10. QED
  BY <1>1, <1>2, <1>3, <1>4, <1>5, <1>6, <1>7, <1>8, <1>9 DEF Next, Read

\* The invariant holds of every behaviour of the reader.
THEOREM SoundAlways == Spec => []IInv
<1>1. QED
  BY InitSound, StepSound, PTL DEF Spec

\* No number on a volume makes the reader ask for anything past the end that the
\* boot sector gives it, which is inside the partition unless its bytes wrap, and
\* what it goes on with, or accepts, is from inside the partition even then
\* (the rules of Volume::open, and the window of the partition).
THEOREM ReadsInsideAlways == Spec => []ReadsInside
<1>1. IInv => ReadsInside
  BY DEF IInv
<1>2. QED
  BY <1>1, SoundAlways, PTL

\* The walk of any volume, also of one whose directories hold each other, is never
\* deeper than the clusters that it has claimed (claim of read.rs).
THEOREM WalkIsBoundedAlways == Spec => []WalkIsBounded
<1>1. ASSUME IInv PROVE WalkIsBounded
  <2>1. IsFiniteSet(reader.claimed) /\ Cardinality(reader.claimed) \in Nat
    BY <1>1, FS_CardinalityType DEF IInv, Typed
  <2>2. CASE reader.pc = "system"
    <3>1. Len(reader.stack) = 1 /\ reader.claimed # {}
      BY <1>1, <2>2 DEF IInv, Deep
    <3>2. Cardinality(reader.claimed) # 0
      BY <3>1, <2>1, FS_EmptySet
    <3>3. QED
      BY <3>1, <3>2, <2>1 DEF WalkIsBounded
  <2>3. CASE reader.pc = "walk"
    BY <1>1, <2>3 DEF IInv, Deep, WalkIsBounded
  <2>4. CASE reader.pc \notin {"system", "walk"}
    <3>1. reader.stack = <<>> /\ Len(<<>>) = 0
      BY <1>1, <2>4 DEF IInv, Deep
    <3>2. QED
      BY <3>1, <2>1 DEF WalkIsBounded
  <2>5. QED
    BY <2>2, <2>3, <2>4
<1>2. QED
  BY <1>1, SoundAlways, PTL

----------------------------------------------------------------------------
(* The clusters that an entry leads to.                                    *)

\* What the reader follows is the same while the volume is.
LEMMA SameEntries ==
  ASSUME UNCHANGED volume
  PROVE  /\ B' = B /\ G' = G /\ InHeap' = InHeap
         /\ \A n : FatEntry(n)' = FatEntry(n)
  BY DEF B, G, InHeap, FatEntry

LEMMA SameOwned ==
  ASSUME UNCHANGED volume
  PROVE  \A data : Owned(data)' = Owned(data)
<1> TAKE data
<1>1. QED
  BY DEF Owned, FatEntry, G, InHeap, ClusterBytes

LEMMA SameClusters ==
  ASSUME UNCHANGED volume
  PROVE  \A c : Cluster(c)' = Cluster(c)
<1> TAKE c
<1>1. QED
  BY DEF Cluster, G

\* The links from a cluster on, and what they reach, each by its own recursion.
Links(at, first) ==
  at = [k \in 1 .. G.clusterCount + 1 |->
          IF k = 1 THEN first
          ELSE LET before == at[k - 1] IN IF before \in InHeap THEN FatEntry(before) ELSE 0]

Reaches(reached, first) ==
  reached = [k \in 0 .. G.clusterCount |->
               IF k = 0 THEN {first} \cap InHeap
               ELSE LET before == reached[k - 1]
                    IN  before \cup ({FatEntry(c) : c \in before} \cap InHeap)]

LEMMA LinksExist ==
  ASSUME G.clusterCount \in Nat, NEW first
  PROVE  \E at : Links(at, first)
<1> DEFINE V == {first, 0} \cup {FatEntry(c) : c \in InHeap}
           step == [k \in Nat |-> [v \in V |-> IF v \in InHeap THEN FatEntry(v) ELSE 0]]
           N == G.clusterCount
<1>1. \A v \in V : (IF v \in InHeap THEN FatEntry(v) ELSE 0) \in V
  OBVIOUS
<1>2. first \in V
  OBVIOUS
<1> HIDE DEF V
<1>3. step \in [Nat -> [V -> V]] /\ \A k \in Nat : \A v \in V : step[k][v] = IF v \in InHeap THEN FatEntry(v) ELSE 0
  BY <1>1
<1> HIDE DEF step
<1>4. N \in Nat
  OBVIOUS
<1>5. Solvable(V)
  BY Recursion
<1>6. PICK f \in [0 .. N -> V] : f[0] = first /\ \A k \in 1 .. N : f[k] = step[k][f[k - 1]]
  <2>1. \A n \in Nat : \E f \in [0 .. n -> V] : f[0] = first /\ \A k \in 1 .. n : f[k] = step[k][f[k - 1]]
    BY <1>2, <1>3, <1>5 DEF Solvable
  <2>2. QED
    BY <1>4, <2>1, Zenon
<1> HIDE DEF N
<1> DEFINE at == [k \in 1 .. N + 1 |-> f[k - 1]]
<1>7. ASSUME NEW k \in 1 .. N + 1
      PROVE  at[k] = IF k = 1 THEN first ELSE IF at[k - 1] \in InHeap THEN FatEntry(at[k - 1]) ELSE 0
  <2>1. CASE k = 1
    BY <1>4, <1>6, <2>1
  <2>2. CASE k # 1
    <3>1. k \in 1 .. N + 1 /\ k - 1 \in 1 .. N + 1 /\ k - 1 \in 1 .. N /\ (k - 1) - 1 \in 0 .. N /\ k - 1 \in Nat
      BY <1>4, <2>2
    <3>2. at[k] = f[k - 1] /\ at[k - 1] = f[(k - 1) - 1]
      BY <3>1
    <3>3. f[(k - 1) - 1] \in V
      BY <3>1
    <3>4. f[k - 1] = step[k - 1][f[(k - 1) - 1]]
      BY <1>6, <3>1
    <3> HIDE DEF at
    <3>5. QED
      BY <1>3, <2>2, <3>1, <3>2, <3>3, <3>4
  <2>3. QED
    BY <2>1, <2>2
<1>8. at = [k \in 1 .. N + 1 |-> at[k]]
  OBVIOUS
<1> HIDE DEF at
<1>9. at = [k \in 1 .. N + 1 |->
              IF k = 1 THEN first ELSE IF at[k - 1] \in InHeap THEN FatEntry(at[k - 1]) ELSE 0]
  BY <1>7, <1>8
<1>10. Links(at, first)
  BY <1>9 DEF Links, N
<1>11. QED
  BY <1>10

LEMMA ReachesExist ==
  ASSUME G.clusterCount \in Nat, NEW first
  PROVE  \E reached : Reaches(reached, first)
<1> DEFINE V == SUBSET InHeap
           step == [k \in Nat |-> [v \in V |-> v \cup ({FatEntry(c) : c \in v} \cap InHeap)]]
           N == G.clusterCount
<1>1. step \in [Nat -> [V -> V]] /\ \A k \in Nat : \A v \in V : step[k][v] = v \cup ({FatEntry(c) : c \in v} \cap InHeap)
  OBVIOUS
<1>2. {first} \cap InHeap \in V
  OBVIOUS
<1> HIDE DEF V, step
<1>3. N \in Nat
  OBVIOUS
<1>4. Solvable(V)
  BY Recursion
<1>5. PICK f \in [0 .. N -> V] : f[0] = {first} \cap InHeap /\ \A k \in 1 .. N : f[k] = step[k][f[k - 1]]
  <2>1. \A base \in V : \A n \in Nat :
          \E f \in [0 .. n -> V] : f[0] = base /\ \A k \in 1 .. n : f[k] = step[k][f[k - 1]]
    BY <1>1, <1>4 DEF Solvable
  <2>2. QED
    BY <1>2, <1>3, <2>1, Zenon
<1> HIDE DEF N
<1>6. ASSUME NEW k \in 0 .. N
      PROVE  f[k] = IF k = 0 THEN {first} \cap InHeap
                    ELSE f[k - 1] \cup ({FatEntry(c) : c \in f[k - 1]} \cap InHeap)
  <2>1. CASE k = 0
    BY <1>5, <2>1
  <2>2. CASE k # 0
    <3>1. k \in 1 .. N /\ k - 1 \in 0 .. N /\ k \in Nat
      BY <1>3, <2>2
    <3>2. f[k - 1] \in V
      BY <3>1
    <3>3. f[k] = step[k][f[k - 1]]
      BY <1>5, <3>1
    <3>4. QED
      BY <1>1, <2>2, <3>1, <3>2, <3>3
  <2>3. QED
    BY <2>1, <2>2
<1>7. f = [k \in 0 .. N |-> f[k]]
  OBVIOUS
<1>8. f = [k \in 0 .. N |-> IF k = 0 THEN {first} \cap InHeap
                            ELSE f[k - 1] \cup ({FatEntry(c) : c \in f[k - 1]} \cap InHeap)]
  BY <1>6, <1>7
<1>9. Reaches(f, first)
  BY <1>8 DEF Reaches, N
<1>10. QED
  BY <1>9

\* The clusters of a chain are what its first cluster leads to.
LEMMA ChainIsOwned ==
  ASSUME G.clusterCount \in Int, NEW data, ~data.contiguous,
         NEW length, NEW c \in Chain(data.first, length)
  PROVE  Owned(data) = ToSet(c)
<1> DEFINE N == G.clusterCount
           first == data.first
           at[k \in 1 .. G.clusterCount + 1] ==
             IF k = 1 THEN first
             ELSE LET before == at[k - 1] IN IF before \in InHeap THEN FatEntry(before) ELSE 0
           reached[k \in 0 .. G.clusterCount] ==
             IF k = 0 THEN {first} \cap InHeap
             ELSE LET before == reached[k - 1]
                  IN  before \cup ({FatEntry(x) : x \in before} \cap InHeap)
<1>1. at = CHOOSE f : Links(f, first)
  BY DEF Links
<1>2. reached = CHOOSE f : Reaches(f, first)
  BY DEF Reaches
<1>3. Owned(data) = reached[N]
  BY DEF Owned
<1> HIDE DEF at, reached
<1>4. PICK k \in 1 .. N : /\ c = [j \in 1 .. k |-> at[j]] /\ \A j \in 1 .. k : at[j] \in InHeap
                          /\ FatEntry(at[k]) = END_OF_CHAIN
  BY Zenon DEF Chain, at
<1>5. N \in Nat /\ k \in 1 .. N
  BY <1>4
<1>6. Links(at, first)
  BY <1>1, <1>5, LinksExist
<1>7. Reaches(reached, first)
  BY <1>2, <1>5, ReachesExist
<1> HIDE DEF N, first
<1>8. \A j \in 1 .. N + 1 : at[j] = IF j = 1 THEN first
                                   ELSE IF at[j - 1] \in InHeap THEN FatEntry(at[j - 1]) ELSE 0
  BY <1>6 DEF Links, N
<1>9. \A n \in 0 .. N : reached[n] = IF n = 0 THEN {first} \cap InHeap
                          ELSE reached[n - 1] \cup ({FatEntry(x) : x \in reached[n - 1]} \cap InHeap)
  BY <1>7 DEF Reaches, N
<1>10. END_OF_CHAIN \notin InHeap
  BY DEF END_OF_CHAIN, InHeap, FIRST_CLUSTER
<1>11. \A j \in 1 .. k : j # k => FatEntry(at[j]) = at[j + 1] /\ j + 1 \in 1 .. k
  <2> TAKE j \in 1 .. k
  <2> HAVE j # k
  <2>1. j + 1 \in 1 .. k /\ j + 1 \in 1 .. N + 1 /\ j + 1 # 1 /\ (j + 1) - 1 = j
    BY <1>5
  <2>2. QED
    BY <1>4, <1>8, <2>1
<1> DEFINE Upto(m) == {at[j] : j \in {i \in 1 .. k : i <= m}}
           S == {n \in Nat : n <= N => reached[n] = Upto(n + 1)}
<1>12. 0 \in S
  <2>1. 0 \in 0 .. N /\ 1 \in 1 .. k /\ 1 \in 1 .. N + 1
    BY <1>5
  <2>2. at[1] = first /\ at[1] \in InHeap
    BY <1>4, <1>8, <2>1
  <2>3. reached[0] = {first} \cap InHeap
    BY <1>9, <2>1
  <2>4. {i \in 1 .. k : i <= 1} = {1}
    BY <2>1
  <2>5. Upto(0 + 1) = {at[1]}
    BY <2>4
  <2>6. QED
    BY <2>2, <2>5, <2>3
<1>13. ASSUME NEW n \in Nat, n \in S PROVE n + 1 \in S
  <2>1. SUFFICES ASSUME n + 1 <= N PROVE reached[n + 1] = Upto((n + 1) + 1)
    OBVIOUS
  <2>2. n + 1 \in 0 .. N /\ n + 1 # 0 /\ (n + 1) - 1 = n /\ reached[n] = Upto(n + 1)
    BY <1>5, <1>13, <2>1
  <2>3. reached[n + 1] = reached[n] \cup ({FatEntry(x) : x \in reached[n]} \cap InHeap)
    BY <1>9, <2>2
  <2> HIDE DEF Upto
  <2>4. ASSUME NEW x \in reached[n + 1] PROVE x \in Upto((n + 1) + 1)
    <3>1. CASE x \in Upto(n + 1)
      BY <3>1 DEF Upto
    <3>2. CASE x \in InHeap /\ \E y \in Upto(n + 1) : x = FatEntry(y)
      <4>1. PICK j \in 1 .. k : j <= n + 1 /\ x = FatEntry(at[j])
        BY <3>2 DEF Upto
      <4>2. j # k
        BY <1>4, <1>10, <3>2, <4>1
      <4>3. x = at[j + 1] /\ j + 1 \in 1 .. k /\ j + 1 <= (n + 1) + 1
        BY <1>11, <4>1, <4>2
      <4>4. QED
        BY <4>3 DEF Upto
    <3>3. QED
      BY <2>2, <2>3, <2>4, <3>1, <3>2
  <2>5. ASSUME NEW x \in Upto((n + 1) + 1) PROVE x \in reached[n + 1]
    <3>1. PICK j \in 1 .. k : j <= (n + 1) + 1 /\ x = at[j]
      BY <2>5 DEF Upto
    <3>2. CASE j <= n + 1
      <4>1. x \in Upto(n + 1)
        BY <3>1, <3>2 DEF Upto
      <4>2. QED
        BY <2>2, <2>3, <4>1
    <3>3. CASE ~(j <= n + 1)
      <4>1. j - 1 \in 1 .. k /\ j - 1 # k /\ (j - 1) + 1 = j /\ j - 1 <= n + 1
        BY <1>5, <3>1, <3>3
      <4>2. x = FatEntry(at[j - 1]) /\ x \in InHeap
        BY <1>4, <1>11, <3>1, <4>1
      <4>3. at[j - 1] \in Upto(n + 1)
        BY <4>1 DEF Upto
      <4>4. QED
        BY <2>2, <2>3, <4>2, <4>3
    <3>4. QED
      BY <3>2, <3>3
  <2>6. QED
    BY <2>4, <2>5
<1> HIDE DEF S
<1>14. \A n \in Nat : n \in S
  BY <1>12, <1>13, Counting
<1>15. reached[N] = Upto(N + 1)
  BY <1>5, <1>14 DEF S
<1>16. {i \in 1 .. k : i <= N + 1} = 1 .. k
  BY <1>5
<1>17. ToSet(c) = {at[j] : j \in 1 .. k}
  BY <1>4 DEF ToSet
<1>18. QED
  BY <1>3, <1>15, <1>16, <1>17

\* What is no cluster of the heap leads to none.
LEMMA NothingIsOwned ==
  ASSUME G.clusterCount \in Nat, NEW data, ~data.contiguous, data.first \notin InHeap
  PROVE  Owned(data) = {}
<1> DEFINE N == G.clusterCount
           first == data.first
           reached[k \in 0 .. G.clusterCount] ==
             IF k = 0 THEN {first} \cap InHeap
             ELSE LET before == reached[k - 1]
                  IN  before \cup ({FatEntry(x) : x \in before} \cap InHeap)
<1>1. reached = CHOOSE f : Reaches(f, first)
  BY DEF Reaches
<1>2. Owned(data) = reached[N]
  BY DEF Owned
<1> HIDE DEF reached
<1>3. Reaches(reached, first)
  BY <1>1, ReachesExist
<1>4. N \in Nat
  OBVIOUS
<1> HIDE DEF N
<1>5. \A n \in 0 .. N : reached[n] = IF n = 0 THEN {first} \cap InHeap
                          ELSE reached[n - 1] \cup ({FatEntry(x) : x \in reached[n - 1]} \cap InHeap)
  BY <1>3 DEF Reaches, N
<1> DEFINE S == {n \in Nat : n <= N => reached[n] = {}}
<1>6. 0 \in S
  <2>1. 0 \in 0 .. N
    BY <1>4
  <2>2. reached[0] = {first} \cap InHeap
    BY <1>5, <2>1
  <2>3. reached[0] = {}
    BY <2>2
  <2>4. QED
    BY <2>3
<1>7. ASSUME NEW n \in Nat, n \in S PROVE n + 1 \in S
  <2>1. SUFFICES ASSUME n + 1 <= N PROVE reached[n + 1] = {}
    OBVIOUS
  <2>2. n + 1 \in 0 .. N /\ n + 1 # 0 /\ (n + 1) - 1 = n /\ reached[n] = {}
    BY <1>4, <1>7, <2>1
  <2>3. reached[n + 1] = reached[n] \cup ({FatEntry(x) : x \in reached[n]} \cap InHeap)
    BY <1>5, <2>2
  <2>4. {FatEntry(x) : x \in {}} = {}
    OBVIOUS
  <2>5. QED
    BY <2>2, <2>3, <2>4
<1> HIDE DEF S
<1>8. \A n \in Nat : n \in S
  BY <1>6, <1>7, Counting
<1>9. QED
  BY <1>2, <1>4, <1>8 DEF S

\* The clusters of any entry are what it leads to, in a chain or not.
LEMMA RunsAreOwned ==
  ASSUME G \in GeometryFields, G.clusterCount \in Nat, NEW data, data.first \in Int, data.length \in Int,
         NEW c \in RunsOf(data)
  PROVE  Owned(data) = ToSet(c)
<1> DEFINE size == ClusterBytes(G)
           n == DivCeil(data.length, size)
           run == [k \in 1 .. n |-> data.first + k - 1]
<1>1. G.clusterCount \in Int /\ 0 \notin InHeap
  BY DEF InHeap, FIRST_CLUSTER
<1>2. size \in Nat \ {0}
  <2>1. G.clusterSectors \in Nat \ {0} /\ G.sectorBytes = SectorBytes
    BY DEF GeometryFields
  <2>2. QED
    BY <2>1, SectorIsPositive DEF ClusterBytes
<1> HIDE DEF size
<1>3. n \in Int
  BY <1>2, DivCeilIsInt
<1> HIDE DEF n
<1>4. CASE ~data.contiguous /\ c \in Chain(data.first, {data.length})
  BY <1>1, <1>4, ChainIsOwned
<1>5. CASE data.contiguous /\ c = run /\ ToSet(run) \subseteq InHeap
  <2>1. Owned(data) = {x \in InHeap : (x - data.first) \in 0 .. n - 1}
    BY <1>5 DEF Owned, n, size
  <2>2. ToSet(run) = {data.first + k - 1 : k \in 1 .. n}
    BY DEF ToSet
  <2>3. ASSUME NEW x \in Owned(data) PROVE x \in ToSet(c)
    <3>1. x \in Int /\ x - data.first \in 0 .. n - 1
      BY <1>1, <2>1, <2>3 DEF InHeap, FIRST_CLUSTER
    <3>2. (x - data.first) + 1 \in 1 .. n /\ x = data.first + ((x - data.first) + 1) - 1
      BY <1>3, <3>1
    <3>3. QED
      BY <1>5, <2>2, <3>2
  <2>4. ASSUME NEW x \in ToSet(c) PROVE x \in Owned(data)
    <3>1. PICK k \in 1 .. n : x = data.first + k - 1
      BY <1>5, <2>2, <2>4
    <3>2. x - data.first \in 0 .. n - 1
      BY <1>3, <3>1
    <3>3. x \in InHeap
      BY <1>5, <2>4
    <3>4. QED
      BY <2>1, <3>2, <3>3
  <2>5. QED
    BY <2>3, <2>4
<1>6. CASE data.first = 0 /\ data.length = 0 /\ c = <<>>
  <2>1. ToSet(c) = {}
    BY <1>6 DEF ToSet
  <2>2. CASE data.contiguous
    <3>1. n = 0
      <4>1. 0 + size - 1 = size - 1 /\ (size - 1) \div size = 0
        BY <1>2
      <4>2. QED
        BY <1>6, <4>1 DEF n, DivCeil
    <3>2. Owned(data) = {x \in InHeap : (x - data.first) \in 0 .. n - 1}
      BY <2>2 DEF Owned, n, size
    <3>3. 0 .. n - 1 = {}
      BY <3>1
    <3>4. QED
      BY <2>1, <3>2, <3>3
  <2>3. CASE ~data.contiguous
    BY <1>1, <1>6, <2>1, <2>3, NothingIsOwned
  <2>4. QED
    BY <2>2, <2>3
<1>7. QED
  <2>1. CASE data.first = 0
    BY <1>6, <2>1 DEF RunsOf
  <2>2. CASE data.first # 0 /\ ~data.contiguous
    BY <1>4, <2>2 DEF RunsOf
  <2>3. CASE data.first # 0 /\ data.contiguous
    <3>1. c = run /\ ToSet(run) \subseteq InHeap
      BY <2>3, Zenon DEF RunsOf, n, size
    <3>2. QED
      BY <1>5, <2>3, <3>1
  <2>4. QED
    BY <2>1, <2>2, <2>3

----------------------------------------------------------------------------
(* What a cluster holds.                                                   *)

\* The pieces of a cluster, right or harmed.
Pieces ==
  [type : {"file"}, secondary : Int, dir : BOOLEAN, summed : BOOLEAN]
  \cup [type : {"stream"}, contiguous : BOOLEAN, units : Nat, hashed : {Up[name] : name \in TreeNames},
        valid : Int, first : Int, length : Int]
  \cup [type : {"name"}, name : TreeNames, part : Int]
  \cup [type : {"bitmap", "upcase"}, first : Int, length : Int]
  \cup [type : {"bits"}, used : SUBSET Int]
  \cup [type : {"data"}, of : Int, at : Int]
  \cup [type : {"end", "unused", "old", "label", "table"}]

PerCluster == ClusterBytes(Home) \div ENTRY_BYTES

TreeEntries == [path : Seq(TreeNames) \ {<<>>}, dir : BOOLEAN, bytes : Nat]

LEMMA PiecesAre ==
  ASSUME NEW e \in Pieces
  PROVE  /\ e.type = "stream" => e.first \in Int /\ e.length \in Int /\ e.units \in Int
         /\ e.type = "file" => e.secondary \in Int
<1>1. CASE e \in [type : {"file"}, secondary : Int, dir : BOOLEAN, summed : BOOLEAN]
  BY <1>1
<1>2. CASE e \in [type : {"stream"}, contiguous : BOOLEAN, units : Nat,
                  hashed : {Up[name] : name \in TreeNames}, valid : Int, first : Int, length : Int]
  BY <1>2
<1>3. CASE e \in [type : {"name"}, name : TreeNames, part : Int]
  BY <1>3
<1>4. CASE e \in [type : {"bitmap", "upcase"}, first : Int, length : Int]
  BY <1>4
<1>5. CASE e \in [type : {"bits"}, used : SUBSET Int]
  BY <1>5
<1>6. CASE e \in [type : {"data"}, of : Int, at : Int]
  BY <1>6
<1>7. CASE e \in [type : {"end", "unused", "old", "label", "table"}]
  BY <1>7
<1>8. QED
  BY <1>1, <1>2, <1>3, <1>4, <1>5, <1>6, <1>7, Zenon DEF Pieces

LEMMA SizesAreWhole ==
  ASSUME NEW g \in GeometryFields
  PROVE  ClusterBytes(g) \in Nat \ {0} /\ g.clusterCount \in Int /\ ENTRY_BYTES \in Nat \ {0}
<1>1. g.clusterSectors \in Nat \ {0} /\ g.sectorBytes = SectorBytes /\ g.clusterCount \in Int
  BY DEF GeometryFields
<1>2. QED
  BY <1>1, SectorIsPositive, PlaceAssumption DEF ClusterBytes

\* A changed entry is still one that a cluster can hold.
LEMMA HarmsArePieces ==
  ASSUME Home \in GeometryFields, NEW e \in Pieces, NEW x \in Harms(e)
  PROVE  x \in Pieces
<1> DEFINE files   == [type : {"file"}, secondary : Int, dir : BOOLEAN, summed : BOOLEAN]
           streams == [type : {"stream"}, contiguous : BOOLEAN, units : Nat,
                       hashed : {Up[name] : name \in TreeNames}, valid : Int, first : Int, length : Int]
           names   == [type : {"name"}, name : TreeNames, part : Int]
           systems == [type : {"bitmap", "upcase"}, first : Int, length : Int]
           bits    == [type : {"bits"}, used : SUBSET Int]
<1>1. /\ ClusterBytes(Home) \in Int /\ Home.clusterCount \in Int
      /\ \A n \in 0 .. Home.clusterCount + 2 : n \in Int
      /\ \A n \in {0, 1, ClusterBytes(Home), ClusterBytes(Home) + 1} : n \in Int
      /\ \A n \in Clusters(Home) : n \in Int
  BY SizesAreWhole DEF Clusters, FIRST_CLUSTER
<1>2. CASE x \in {Zero, [type |-> "unused"]}
  BY <1>2 DEF Zero, Pieces
<1>3. CASE e \in files
  <2>1. e.type = "file"
    BY <1>3
  <2>2. \/ x \in {Zero, [type |-> "unused"]}
        \/ x \in {[e EXCEPT !.summed = FALSE], [e EXCEPT !.dir = ~@]}
        \/ \E n \in {-1, 1} : x = [e EXCEPT !.secondary = @ + n]
    BY <2>1 DEF Harms
  <2>3. CASE x \in {[e EXCEPT !.summed = FALSE], [e EXCEPT !.dir = ~@]}
    <3>1. x \in files
      BY <1>3, <2>3
    <3>2. QED
      BY <3>1, Zenon DEF Pieces
  <2>4. CASE \E n \in {-1, 1} : x = [e EXCEPT !.secondary = @ + n]
    <3>1. x \in files
      BY <1>3, <2>4
    <3>2. QED
      BY <3>1, Zenon DEF Pieces
  <2>5. QED
    BY <1>2, <2>2, <2>3, <2>4
<1>4. CASE e \in streams
  <2>1. e.type = "stream"
    BY <1>4
  <2>2. \/ x \in {Zero, [type |-> "unused"]}
        \/ \E n \in 0 .. Home.clusterCount + 2 : x = [e EXCEPT !.first = n]
        \/ \E n \in {0, 1, ClusterBytes(Home), ClusterBytes(Home) + 1} : x = [e EXCEPT !.length = n]
        \/ x = [e EXCEPT !.contiguous = ~@]
        \/ \E n \in {0, 1} : x = [e EXCEPT !.valid = n]
    BY <2>1 DEF Harms
  <2>3. ASSUME NEW n \in Int, x = [e EXCEPT !.first = n] PROVE x \in Pieces
    <3>1. x \in streams
      BY <1>4, <2>3
    <3>2. QED
      BY <3>1, Zenon DEF Pieces
  <2>4. ASSUME NEW n \in Int, x = [e EXCEPT !.length = n] PROVE x \in Pieces
    <3>1. x \in streams
      BY <1>4, <2>4
    <3>2. QED
      BY <3>1, Zenon DEF Pieces
  <2>5. ASSUME NEW n \in Int, x = [e EXCEPT !.valid = n] PROVE x \in Pieces
    <3>1. x \in streams
      BY <1>4, <2>5
    <3>2. QED
      BY <3>1, Zenon DEF Pieces
  <2>6. CASE x = [e EXCEPT !.contiguous = ~@]
    <3>1. x \in streams
      BY <1>4, <2>6
    <3>2. QED
      BY <3>1, Zenon DEF Pieces
  <2>7. QED
    BY <1>1, <1>2, <2>2, <2>3, <2>4, <2>5, <2>6
<1>5. CASE e \in names
  <2>1. e.type = "name"
    BY <1>5
  <2>2. \/ x \in {Zero, [type |-> "unused"]}
        \/ \E name \in TreeNames : x = [e EXCEPT !.name = name]
    BY <2>1 DEF Harms
  <2>3. ASSUME NEW name \in TreeNames, x = [e EXCEPT !.name = name] PROVE x \in Pieces
    <3>1. x \in names
      BY <1>5, <2>3
    <3>2. QED
      BY <3>1, Zenon DEF Pieces
  <2>4. QED
    BY <1>2, <2>2, <2>3
<1>6. CASE e \in systems
  <2>1. e.type \in {"bitmap", "upcase"}
    BY <1>6
  <2>2. \/ x \in {Zero, [type |-> "unused"]}
        \/ \E n \in 0 .. Home.clusterCount + 2 : x = [e EXCEPT !.first = n]
        \/ \E n \in {0, 1, ClusterBytes(Home), ClusterBytes(Home) + 1} : x = [e EXCEPT !.length = n]
    BY <2>1 DEF Harms
  <2>3. ASSUME NEW n \in Int, x = [e EXCEPT !.first = n] PROVE x \in Pieces
    <3>1. x \in systems
      BY <1>6, <2>3
    <3>2. QED
      BY <3>1, Zenon DEF Pieces
  <2>4. ASSUME NEW n \in Int, x = [e EXCEPT !.length = n] PROVE x \in Pieces
    <3>1. x \in systems
      BY <1>6, <2>4
    <3>2. QED
      BY <3>1, Zenon DEF Pieces
  <2>5. QED
    BY <1>1, <1>2, <2>2, <2>3, <2>4
<1>7. CASE e \in bits
  <2>1. e.type = "bits"
    BY <1>7
  <2>2. \/ x \in {Zero, [type |-> "unused"]}
        \/ \E n \in Clusters(Home) : x = [e EXCEPT !.used = IF n \in @ THEN @ \ {n} ELSE @ \cup {n}]
    BY <2>1 DEF Harms
  <2>3. ASSUME NEW n \in Int, x = [e EXCEPT !.used = IF n \in @ THEN @ \ {n} ELSE @ \cup {n}]
        PROVE  x \in Pieces
    <3>1. PICK used \in SUBSET Int : used = IF n \in e.used THEN e.used \ {n} ELSE e.used \cup {n}
      BY <1>7
    <3>2. x = [e EXCEPT !.used = used]
      BY <2>3, <3>1
    <3>3. x \in bits
      BY <1>7, <3>2
    <3>4. QED
      BY <3>3, Zenon DEF Pieces
  <2>4. QED
    BY <1>1, <1>2, <2>2, <2>3
<1>8. CASE e \in [type : {"data"}, of : Int, at : Int]
           \/ e \in [type : {"end", "unused", "old", "label", "table"}]
  <2>1. e.type \in {"data", "end", "unused", "old", "label", "table"}
    BY <1>8
  <2>2. x \in {Zero, [type |-> "unused"]}
    BY <2>1 DEF Harms
  <2>3. QED
    BY <1>2, <2>2
<1>9. QED
  BY <1>3, <1>4, <1>5, <1>6, <1>7, <1>8, Zenon DEF Pieces

\* What the writer puts there.
LEMMA DivCeilIsNat ==
  ASSUME NEW a \in Nat, NEW b \in Nat \ {0}
  PROVE  DivCeil(a, b) \in Nat
<1> DEFINE d == DivCeil(a, b)
<1>1. d \in Int /\ a <= d * b
  BY DivCeilIsEnough
<1> HIDE DEF d
<1>2. ~(d + 1 <= 0)
  <2> SUFFICES ASSUME d + 1 <= 0 PROVE FALSE
    OBVIOUS
  <2>1. (d + 1) * b <= 0 * b
    BY <1>1, ProductGrows
  <2>2. (d + 1) * b = d * b + b /\ d * b \in Int
    BY <1>1
  <2>3. QED
    BY <1>1, <2>1, <2>2
<1>3. QED
  BY <1>1, <1>2 DEF d

LEMMA BitmapIsInt ==
  ASSUME NEW g, g.clusterCount \in Int
  PROVE  BitmapBytes(g) \in Int
<1>1. 8 \in Nat \ {0}
  OBVIOUS
<1>2. DivCeil(g.clusterCount, 8) \in Int
  BY <1>1, DivCeilIsInt
<1>3. QED
  BY <1>2 DEF BitmapBytes

LEMMA NamesTakeEntries ==
  ASSUME NEW name \in TreeNames
  PROVE  SetEntries(name) \in Nat /\ SetEntries(name) >= 2 /\ UnitsOf[name] \in Nat
<1>1. UnitsOf[name] \in Nat /\ UNITS_PER_NAME_ENTRY \in Nat \ {0}
  BY PlaceAssumption DEF TreeNames
<1>2. QED
  BY <1>1, DivCeilIsNat DEF SetEntries

LEMMA EntriesAre ==
  ASSUME NEW t \in Seq(TreeEntries), NEW i \in 1 .. Len(t)
  PROVE  /\ t[i].path \in Seq(TreeNames) /\ t[i].path # <<>>
         /\ NameOf(t[i]) \in TreeNames /\ t[i].bytes \in Nat /\ t[i].dir \in BOOLEAN
<1>1. t[i] \in TreeEntries
  OBVIOUS
<1>2. t[i].path \in Seq(TreeNames) /\ t[i].path # <<>> /\ t[i].bytes \in Nat /\ t[i].dir \in BOOLEAN
  BY <1>1 DEF TreeEntries
<1>3. Len(t[i].path) \in 1 .. Len(t[i].path) /\ DOMAIN t[i].path = 1 .. Len(t[i].path)
  BY <1>2, EmptySeq
<1>4. QED
  BY <1>2, <1>3 DEF NameOf, Last

LEMMA EntryBytesIsInt ==
  ASSUME NEW t \in Seq(TreeEntries), NEW dir
  PROVE  EntryBytes(t, dir) \in Int
<1> DEFINE s == [i \in 1 .. Len(t) |-> IF ParentOf(t[i]) = dir THEN SetEntries(NameOf(t[i])) ELSE 0]
<1>1. \A i \in 1 .. Len(t) : (IF ParentOf(t[i]) = dir THEN SetEntries(NameOf(t[i])) ELSE 0) \in Int
  <2> TAKE i \in 1 .. Len(t)
  <2>1. SetEntries(NameOf(t[i])) \in Int
    BY EntriesAre, NamesTakeEntries
  <2>2. QED
    BY <2>1
<1>2. Len(t) \in Nat
  OBVIOUS
<1>3. s \in [1 .. Len(t) -> Int]
  BY <1>1
<1>4. s \in Seq(Int)
  BY <1>2, <1>3, RowIsSeq
<1> HIDE DEF s
<1>5. Total(s) \in Int /\ ENTRY_BYTES \in Int
  BY <1>4, TotalIsInt, PlaceAssumption
<1>6. EntryBytes(t, dir) = ENTRY_BYTES * Total(s)
  BY DEF EntryBytes, s
<1>7. QED
  BY <1>5, <1>6

LEMMA CountsAre ==
  ASSUME NEW g \in GeometryFields, NEW t \in Seq(TreeEntries), NEW label \in BOOLEAN
  PROVE  Counts(g, t, label) \in Seq(Int) /\ DOMAIN Counts(g, t, label) = 1 .. 3 + Len(t)
<1>1. ClusterBytes(g) \in Nat \ {0} /\ g.clusterCount \in Int /\ ENTRY_BYTES \in Int /\ TableBytes \in Int
  BY SizesAreWhole, PlaceAssumption
<1>2. \A n \in Int : ClustersFor(g, n) \in Int
  BY <1>1, DivCeilIsInt DEF ClustersFor
<1>3. \A n \in Int : AtLeastOne(n) \in Int
  BY DEF AtLeastOne
<1> DEFINE head == << ClustersFor(g, BitmapBytes(g)), ClustersFor(g, TableBytes),
                      AtLeastOne(ClustersFor(g, RootBytes(t, label))) >>
           rest == [i \in 1 .. Len(t) |-> ClustersOf(g, t, i)]
<1>4. BitmapBytes(g) \in Int
  BY <1>1, BitmapIsInt
<1>5. RootBytes(t, label) \in Int
  <2>1. EntryBytes(t, <<>>) \in Int
    BY EntryBytesIsInt
  <2>2. ENTRY_BYTES * (IF label THEN 3 ELSE 2) \in Int
    BY <1>1
  <2>3. QED
    BY <2>1, <2>2 DEF RootBytes
<1>6. head \in Seq(Int) /\ Len(head) = 3
  <2>1. /\ ClustersFor(g, BitmapBytes(g)) \in Int /\ ClustersFor(g, TableBytes) \in Int
        /\ AtLeastOne(ClustersFor(g, RootBytes(t, label))) \in Int
    BY <1>1, <1>2, <1>3, <1>4, <1>5
  <2>2. QED
    BY <2>1
<1>7. \A i \in 1 .. Len(t) : ClustersOf(g, t, i) \in Int
  <2> TAKE i \in 1 .. Len(t)
  <2>1. EntryBytes(t, t[i].path) \in Int /\ t[i].bytes \in Int
    BY EntryBytesIsInt, EntriesAre
  <2>2. QED
    BY <1>2, <1>3, <2>1 DEF ClustersOf
<1>8. rest \in Seq(Int) /\ Len(rest) = Len(t) /\ Len(t) \in Nat
  <2>1. Len(t) \in Nat /\ rest \in [1 .. Len(t) -> Int]
    BY <1>7
  <2>2. QED
    BY <2>1, RowIsSeq
<1> HIDE DEF head, rest
<1>9. head \o rest \in Seq(Int) /\ Len(head \o rest) = 3 + Len(t)
  <2>1. head \o rest \in Seq(Int) /\ Len(head \o rest) = Len(head) + Len(rest)
    BY <1>6, <1>8, ConcatProperties
  <2>2. QED
    BY <1>6, <1>8, <2>1
<1>10. Counts(g, t, label) = head \o rest
  BY DEF Counts, head, rest
<1>11. QED
  BY <1>8, <1>9, <1>10

LEMMA RunsAre ==
  ASSUME NEW counts \in Seq(Int)
  PROVE  /\ DOMAIN Runs(counts) = DOMAIN counts
         /\ \A k \in DOMAIN counts : Runs(counts)[k].first \in Int /\ Runs(counts)[k].clusters \in Int
<1>1. DOMAIN Runs(counts) = DOMAIN counts
  BY DEF Runs
<1>2. ASSUME NEW k \in DOMAIN counts
      PROVE  Runs(counts)[k].first \in Int /\ Runs(counts)[k].clusters \in Int
  <2>1. counts[k] \in Int /\ k \in 1 .. Len(counts) /\ Len(counts) \in Nat
    OBVIOUS
  <2>2. SubSeq(counts, 1, k - 1) \in Seq(Int)
    <3>1. k - 1 \in Int /\ \A j \in 1 .. k - 1 : counts[j] \in Int
      BY <2>1
    <3>2. QED
      BY <3>1, SubSeqProperties
  <2>3. Total(SubSeq(counts, 1, k - 1)) \in Int
    BY <2>2, TotalIsInt
  <2>4. Runs(counts)[k] = [first    |-> IF counts[k] = 0 THEN 0
                                        ELSE FIRST_CLUSTER + Total(SubSeq(counts, 1, k - 1)),
                           clusters |-> counts[k]]
    BY DEF Runs
  <2>5. QED
    BY <2>1, <2>3, <2>4 DEF FIRST_CLUSTER
<1>3. QED
  BY <1>1, <1>2

\* Runs of whole numbers.
RunsOfTree(runs, t) ==
  /\ DOMAIN runs = 1 .. 3 + Len(t)
  /\ \A k \in 1 .. 3 + Len(t) : runs[k].first \in Int /\ runs[k].clusters \in Int

LEMMA FileSetIsPieces ==
  ASSUME NEW name \in TreeNames, NEW dir \in BOOLEAN, NEW first \in Int, NEW length \in Int
  PROVE  FileSet(name, dir, first, length) \in Seq(Pieces)
<1>1. SetEntries(name) \in Nat /\ SetEntries(name) >= 2 /\ UnitsOf[name] \in Nat
  BY NamesTakeEntries
<1> DEFINE file == [type |-> "file", secondary |-> SetEntries(name) - 1, dir |-> dir, summed |-> TRUE]
           stream == [type |-> "stream", contiguous |-> first # 0, units |-> UnitsOf[name],
                      hashed |-> Up[name], valid |-> length, first |-> first, length |-> length]
           n == SetEntries(name) - 2
           rest == [k \in 1 .. n |-> [type |-> "name", name |-> name, part |-> k]]
<1>2. file \in Pieces
  BY <1>1 DEF Pieces
<1>3. stream \in Pieces
  BY <1>1 DEF Pieces
<1>4. n \in Nat
  BY <1>1
<1>5. FileSet(name, dir, first, length) = <<file, stream>> \o rest
  BY DEF FileSet
<1> HIDE DEF file, stream, n
<1>6. \A k \in 1 .. n : [type |-> "name", name |-> name, part |-> k] \in Pieces
  BY <1>4 DEF Pieces
<1>7. rest \in [1 .. n -> Pieces]
  BY <1>6
<1>8. rest \in Seq(Pieces)
  BY <1>4, <1>7, RowIsSeq
<1> HIDE DEF rest
<1>9. <<file, stream>> \in Seq(Pieces)
  BY <1>2, <1>3
<1>10. QED
  BY <1>5, <1>8, <1>9

LEMMA SetsArePieces ==
  ASSUME NEW g \in GeometryFields, NEW t \in Seq(TreeEntries), NEW runs, RunsOfTree(runs, t), NEW dir
  PROVE  SetsOf(g, t, runs, dir) \in Seq(Pieces)
<1> DEFINE set(i) == IF ParentOf(t[i]) = dir
                     THEN FileSet(NameOf(t[i]), t[i].dir, runs[3 + i].first,
                                  DataLength(g, t, runs[3 + i], i))
                     ELSE <<>>
           all == [i \in 1 .. Len(t) |-> set(i)]
<1>1. Len(t) \in Nat
  OBVIOUS
<1>2. ASSUME NEW i \in 1 .. Len(t) PROVE set(i) \in Seq(Pieces)
  <2>1. NameOf(t[i]) \in TreeNames /\ t[i].bytes \in Int /\ t[i].dir \in BOOLEAN
    BY EntriesAre
  <2>2. 3 + i \in 1 .. 3 + Len(t)
    BY <1>1
  <2>3. runs[3 + i].first \in Int /\ runs[3 + i].clusters \in Int
    BY <2>2 DEF RunsOfTree
  <2>4. ClusterBytes(g) \in Int
    BY SizesAreWhole
  <2>5. DataLength(g, t, runs[3 + i], i) \in Int
    BY <2>1, <2>3, <2>4 DEF DataLength
  <2>6. FileSet(NameOf(t[i]), t[i].dir, runs[3 + i].first, DataLength(g, t, runs[3 + i], i)) \in Seq(Pieces)
    BY <2>1, <2>3, <2>5, FileSetIsPieces
  <2>7. <<>> \in Seq(Pieces)
    OBVIOUS
  <2>8. QED
    BY <2>6, <2>7
<1>3. SetsOf(g, t, runs, dir) = FlattenSeq(all)
  BY DEF SetsOf
<1> HIDE DEF set
<1>4. all \in [1 .. Len(t) -> Seq(Pieces)]
  BY <1>2
<1>5. all \in Seq(Seq(Pieces))
  BY <1>1, <1>4, RowIsSeq
<1> HIDE DEF all
<1>6. QED
  BY <1>3, <1>5, FlattenIs

LEMMA WrittenIsPieces ==
  ASSUME NEW g \in GeometryFields, NEW t \in Seq(TreeEntries), NEW label \in BOOLEAN,
         NEW runs, RunsOfTree(runs, t), NEW k \in 1 .. 3 + Len(t)
  PROVE  Written(g, t, label, runs, k) \in Seq(Pieces)
<1>1. Len(t) \in Nat
  OBVIOUS
<1>2. CASE k = 1
  <2> DEFINE used == {c \in Clusters(g) : c < FIRST_CLUSTER + Total([j \in DOMAIN runs |-> runs[j].clusters])}
             system == (IF label THEN <<Label>> ELSE <<>>)
                       \o <<Bitmap(runs[1], BitmapBytes(g)), Table(runs[2])>>
                       \o SetsOf(g, t, runs, <<>>)
             rest == LET e == t[k - 3]
                     IN  IF e.dir THEN SetsOf(g, t, runs, e.path)
                         ELSE [p \in 1 .. DivCeil(e.bytes, ENTRY_BYTES) |->
                                 [type |-> "data", of |-> k - 3, at |-> p]]
  <2>1. used \in SUBSET Int
    BY SizesAreWhole DEF Clusters, FIRST_CLUSTER
  <2>2. Written(g, t, label, runs, k) = <<[type |-> "bits", used |-> used]>>
    <3>1. Written(g, t, label, runs, k)
            = CASE k = 1 -> <<[type |-> "bits", used |-> used]>>
                [] k = 2 -> <<[type |-> "table"]>>
                [] k = 3 -> system
                [] OTHER -> rest
      BY Zenon DEF Written
    <3> HIDE DEF used, system, rest
    <3>2. QED
      BY <1>2, <3>1
  <2> HIDE DEF used
  <2>3. [type |-> "bits", used |-> used] \in Pieces
    BY <2>1 DEF Pieces
  <2>4. QED
    BY <2>2, <2>3
<1>3. CASE k = 2
  <2>1. Written(g, t, label, runs, k) = <<[type |-> "table"]>>
    BY <1>3 DEF Written
  <2>2. [type |-> "table"] \in Pieces
    BY DEF Pieces
  <2>3. QED
    BY <2>1, <2>2
<1>4. CASE k = 3
  <2> DEFINE first == IF label THEN <<Label>> ELSE <<>>
             system == <<Bitmap(runs[1], BitmapBytes(g)), Table(runs[2])>>
             sets == SetsOf(g, t, runs, <<>>)
  <2>1. Written(g, t, label, runs, k) = first \o system \o sets
    BY <1>4 DEF Written
  <2>2. first \in Seq(Pieces)
    <3>1. Label \in Pieces
      BY DEF Label, Pieces
    <3>2. <<Label>> \in Seq(Pieces) /\ <<>> \in Seq(Pieces)
      BY <3>1
    <3>3. QED
      BY <3>2
  <2>3. system \in Seq(Pieces)
    <3>1. runs[1].first \in Int /\ runs[2].first \in Int
      BY <1>1 DEF RunsOfTree
    <3>2. BitmapBytes(g) \in Int /\ TableBytes \in Int
      BY SizesAreWhole, BitmapIsInt, PlaceAssumption
    <3>3. Bitmap(runs[1], BitmapBytes(g)) \in Pieces
      BY <3>1, <3>2 DEF Bitmap, Pieces
    <3>4. Table(runs[2]) \in Pieces
      BY <3>1, <3>2 DEF Table, Pieces
    <3>5. QED
      BY <3>3, <3>4
  <2>4. sets \in Seq(Pieces)
    BY SetsArePieces
  <2> HIDE DEF first, system, sets
  <2>5. first \o system \in Seq(Pieces)
    BY <2>2, <2>3
  <2>6. QED
    BY <2>1, <2>4, <2>5
<1>5. CASE k \notin {1, 2, 3}
  <2> DEFINE i == k - 3
             e == t[i]
             n == DivCeil(e.bytes, ENTRY_BYTES)
             data == [p \in 1 .. n |-> [type |-> "data", of |-> i, at |-> p]]
  <2>1. i \in 1 .. Len(t)
    BY <1>1, <1>5
  <2>2. Written(g, t, label, runs, k) = IF e.dir THEN SetsOf(g, t, runs, e.path) ELSE data
    BY <1>5 DEF Written
  <2>3. SetsOf(g, t, runs, e.path) \in Seq(Pieces)
    BY SetsArePieces
  <2>4. data \in Seq(Pieces)
    <3>1. i \in Int /\ e.bytes \in Nat
      BY <2>1, EntriesAre
    <3>2. n \in Nat
      BY <3>1, DivCeilIsNat, PlaceAssumption
    <3> HIDE DEF i, n
    <3>3. \A p \in 1 .. n : [type |-> "data", of |-> i, at |-> p] \in Pieces
      BY <3>1, <3>2 DEF Pieces
    <3>4. data \in [1 .. n -> Pieces]
      BY <3>3
    <3>5. QED
      BY <3>2, <3>4, RowIsSeq
  <2>5. QED
    BY <2>2, <2>3, <2>4
<1>6. QED
  BY <1>2, <1>3, <1>4, <1>5

LEMMA HeapIsPieces ==
  ASSUME NEW g \in GeometryFields, NEW t \in Seq(TreeEntries), NEW label \in BOOLEAN,
         NEW runs, RunsOfTree(runs, t)
  PROVE  Heap(g, t, label, runs) \in [Clusters(g) -> [1 .. ClusterBytes(g) \div ENTRY_BYTES -> Pieces]]
<1> DEFINE pieces == [k \in DOMAIN runs |-> Written(g, t, label, runs, k)]
           size == ClusterBytes(g) \div ENTRY_BYTES
           at(c) == CHOOSE k \in DOMAIN runs : c \in RunSet(runs[k])
           cluster(c) == IF \E k \in DOMAIN runs : c \in RunSet(runs[k])
                         THEN Cut(g, pieces[at(c)], c - runs[at(c)].first + 1) ELSE Old(g)
<1>1. Heap(g, t, label, runs) = [c \in Clusters(g) |-> cluster(c)]
  BY DEF Heap
<1>2. size \in Nat
  <2>1. ClusterBytes(g) \in Nat \ {0} /\ ENTRY_BYTES \in Nat \ {0}
    BY SizesAreWhole
  <2>2. QED
    BY <2>1
<1>3. Old(g) \in [1 .. size -> Pieces]
  <2>1. [type |-> "old"] \in Pieces
    BY DEF Pieces
  <2>2. Old(g) = [p \in 1 .. size |-> [type |-> "old"]]
    BY DEF Old
  <2> HIDE DEF size
  <2>3. QED
    BY <2>1, <2>2
<1>4. \A k \in DOMAIN runs : pieces[k] \in Seq(Pieces) /\ runs[k].first \in Int /\ runs[k].clusters \in Int
  BY WrittenIsPieces DEF RunsOfTree
<1> HIDE DEF pieces
<1>5. ASSUME NEW k \in DOMAIN runs, NEW c \in RunSet(runs[k])
      PROVE  Cut(g, pieces[k], c - runs[k].first + 1) \in [1 .. size -> Pieces]
  <2> DEFINE nth == c - runs[k].first + 1
             place(p) == (nth - 1) * size + p
  <2>1. Cut(g, pieces[k], nth) = [p \in 1 .. size |-> IF place(p) <= Len(pieces[k])
                                                     THEN pieces[k][place(p)] ELSE Zero]
    BY DEF Cut
  <2>2. c \in Int /\ nth - 1 \in Nat
    BY <1>4, <1>5 DEF RunSet
  <2>3. (nth - 1) * size \in Nat
    <3> HIDE DEF nth, size
    <3>1. QED
      BY <1>2, <2>2
  <2>4. Zero \in Pieces
    BY DEF Zero, Pieces
  <2>5. pieces[k] \in Seq(Pieces) /\ Len(pieces[k]) \in Nat
    BY <1>4
  <2> HIDE DEF nth, size
  <2>6. ASSUME NEW p \in 1 .. size PROVE (IF place(p) <= Len(pieces[k]) THEN pieces[k][place(p)] ELSE Zero) \in Pieces
    <3>1. place(p) \in Nat \ {0}
      BY <1>2, <2>3
    <3> HIDE DEF place
    <3>2. CASE place(p) <= Len(pieces[k])
      <4>1. place(p) \in 1 .. Len(pieces[k])
        BY <2>5, <3>1, <3>2
      <4>2. pieces[k][place(p)] \in Pieces
        BY <2>5, <4>1
      <4>3. QED
        BY <3>2, <4>2
    <3>3. CASE ~(place(p) <= Len(pieces[k]))
      BY <2>4, <3>3
    <3>4. QED
      BY <3>2, <3>3
  <2> HIDE DEF place
  <2>7. [p \in 1 .. size |-> IF place(p) <= Len(pieces[k]) THEN pieces[k][place(p)] ELSE Zero]
          \in [1 .. size -> Pieces]
    BY <2>6
  <2>8. QED
    BY <2>1, <2>7 DEF nth
<1>6. ASSUME NEW c \in Clusters(g) PROVE cluster(c) \in [1 .. size -> Pieces]
  <2>1. CASE \E k \in DOMAIN runs : c \in RunSet(runs[k])
    <3>1. at(c) \in DOMAIN runs /\ c \in RunSet(runs[at(c)])
      BY <2>1, Zenon
    <3>2. cluster(c) = Cut(g, pieces[at(c)], c - runs[at(c)].first + 1)
      BY <2>1
    <3> HIDE DEF at, cluster
    <3>3. QED
      BY <1>5, <3>1, <3>2
  <2>2. CASE ~\E k \in DOMAIN runs : c \in RunSet(runs[k])
    BY <1>3, <2>2
  <2>3. QED
    BY <2>1, <2>2
<1> HIDE DEF cluster
<1>7. QED
  BY <1>1, <1>6 DEF size

----------------------------------------------------------------------------
(* What the reader gets of the pieces.                                     *)

\* The clusters hold pieces, as many as the boot sector says a cluster has.
VolumeHolds ==
  /\ DOMAIN volume = {"boot", "fat", "heap"}
  /\ Home \in GeometryFields /\ G \in GeometryFields
  /\ G.clusterSectors = Home.clusterSectors
  /\ volume.heap \in [Clusters(Home) -> [1 .. PerCluster -> Pieces]]

LEMMA PerClusterFits ==
  ASSUME VolumeHolds
  PROVE  /\ PerCluster \in Nat /\ ENTRY_BYTES \in Nat \ {0} /\ ClusterBytes(G) \in Nat \ {0}
         /\ PerCluster * ENTRY_BYTES <= ClusterBytes(G)
<1>1. ClusterBytes(Home) \in Nat \ {0} /\ ENTRY_BYTES \in Nat \ {0}
  BY SizesAreWhole DEF VolumeHolds
<1>2. ClusterBytes(G) = ClusterBytes(Home)
  BY DEF VolumeHolds, GeometryFields, ClusterBytes
<1>3. PerCluster \in Nat
  BY <1>1 DEF PerCluster
<1>4. PerCluster * ENTRY_BYTES <= ClusterBytes(Home)
  BY <1>1, Quotient DEF PerCluster
<1>5. QED
  BY <1>1, <1>2, <1>3, <1>4

LEMMA ClusterIsPieces ==
  ASSUME VolumeHolds, NEW c
  PROVE  Cluster(c) \in [1 .. PerCluster -> Pieces]
<1>1. Old(Home) \in [1 .. PerCluster -> Pieces]
  <2>1. [type |-> "old"] \in Pieces
    BY DEF Pieces
  <2>2. QED
    BY <2>1 DEF Old, PerCluster
<1>2. \A home \in DOMAIN volume.heap : volume.heap[home] \in [1 .. PerCluster -> Pieces]
  BY DEF VolumeHolds
<1>3. QED
  BY <1>1, <1>2 DEF Cluster

\* Places up to a length are the first places.
LEMMA FirstPlaces ==
  ASSUME NEW L \in Nat, NEW D \in SUBSET (1 .. L), \A q \in D : \A p \in 1 .. q : p \in D
  PROVE  \E m \in Nat : D = 1 .. m
<1> DEFINE S == {j \in Nat : j + 1 \notin D}
<1>1. L \in S
  OBVIOUS
<1>2. S \in SUBSET Nat /\ S # {}
  BY <1>1
<1>3. PICK m \in S : \A j \in S : m <= j
  <2> HIDE DEF S
  <2>1. QED
    BY <1>2, LeastOf
<1>4. ASSUME NEW p \in 1 .. m PROVE p \in D
  <2>1. p - 1 \in Nat /\ ~(m <= p - 1) /\ (p - 1) + 1 = p
    BY <1>3
  <2>2. QED
    BY <1>3, <2>1
<1>5. ASSUME NEW q \in D PROVE q \in 1 .. m
  <2>1. q \in 1 .. L
    OBVIOUS
  <2>2. CASE q <= m
    BY <2>1, <2>2
  <2>3. CASE ~(q <= m)
    <3>1. m + 1 \in 1 .. q
      BY <2>1, <2>3
    <3>2. QED
      BY <3>1
  <2>4. QED
    BY <2>2, <2>3
<1>6. QED
  BY <1>4, <1>5

\* All pieces of some clusters.
LEMMA AllPieces ==
  ASSUME VolumeHolds, NEW c, Len(c) \in Nat
  PROVE  LET all == FlattenSeq([k \in 1 .. Len(c) |-> Cluster(c[k])])
         IN  /\ all \in Seq(Pieces) /\ Len(all) = Len(c) * PerCluster
             /\ ToSet(all) = UNION {ToSet(Cluster(c[k])) : k \in 1 .. Len(c)}
<1> DEFINE n == Len(c)
           rows == [k \in 1 .. n |-> Cluster(c[k])]
<1>1. \A k \in 1 .. n : Cluster(c[k]) \in Seq(Pieces) /\ Len(Cluster(c[k])) = PerCluster
  BY ClusterIsPieces, PerClusterFits, RowIsSeq
<1>2. n \in Nat /\ PerCluster \in Nat
  BY PerClusterFits
<1> HIDE DEF n
<1>3. rows \in [1 .. n -> Seq(Pieces)]
  BY <1>1
<1>4. rows \in Seq(Seq(Pieces)) /\ Len(rows) = n
  BY <1>2, <1>3, RowIsSeq
<1>5. \A k \in 1 .. n : rows[k] = Cluster(c[k]) /\ Len(rows[k]) = PerCluster
  BY <1>1
<1> HIDE DEF rows
<1>6. /\ FlattenSeq(rows) \in Seq(Pieces)
      /\ ToSet(FlattenSeq(rows)) = UNION {ToSet(rows[k]) : k \in 1 .. Len(rows)}
      /\ Len(FlattenSeq(rows)) = Len(rows) * PerCluster
  BY <1>2, <1>4, <1>5, FlattenIs
<1>7. {ToSet(rows[k]) : k \in 1 .. n} = {ToSet(Cluster(c[k])) : k \in 1 .. n}
  BY <1>5
<1>8. QED
  BY <1>4, <1>6, <1>7 DEF rows, n

LEMMA ReadRunsArePieces ==
  ASSUME VolumeHolds, NEW c, Len(c) \in Nat, NEW length \in Int
  PROVE  ReadRuns(c, length) \in Seq(Pieces)
<1> DEFINE all == FlattenSeq([k \in 1 .. Len(c) |-> Cluster(c[k])])
           D == {q \in DOMAIN all : q * ENTRY_BYTES <= length}
<1>1. all \in Seq(Pieces)
  BY AllPieces
<1>2. ReadRuns(c, length) = [p \in D |-> all[p]]
  BY DEF ReadRuns
<1> HIDE DEF all
<1>3. Len(all) \in Nat /\ DOMAIN all = 1 .. Len(all) /\ \A p \in 1 .. Len(all) : all[p] \in Pieces
  BY <1>1
<1>4. ENTRY_BYTES \in Nat \ {0}
  BY PerClusterFits
<1>5. ASSUME NEW q \in D, NEW p \in 1 .. q PROVE p \in D
  <2>1. q \in 1 .. Len(all) /\ q * ENTRY_BYTES <= length /\ p <= q /\ p \in Int /\ q \in Int
    BY <1>3
  <2>2. p * ENTRY_BYTES <= q * ENTRY_BYTES
    BY <1>4, <2>1, ProductGrows
  <2>3. p * ENTRY_BYTES \in Int /\ q * ENTRY_BYTES \in Int
    BY <1>4, <2>1
  <2>4. p * ENTRY_BYTES <= length
    BY <2>1, <2>2, <2>3
  <2>5. QED
    BY <1>3, <2>1, <2>4
<1>6. D \in SUBSET (1 .. Len(all))
  BY <1>3
<1> HIDE DEF D
<1>7. PICK m \in Nat : D = 1 .. m
  BY <1>3, <1>5, <1>6, FirstPlaces
<1>8. [p \in D |-> all[p]] \in [1 .. m -> Pieces]
  BY <1>3, <1>6, <1>7
<1>9. QED
  BY <1>2, <1>8, RowIsSeq

\* A directory that is as long as its clusters is read to its end.
LEMMA WholeIsRead ==
  ASSUME VolumeHolds, NEW c, Len(c) \in Nat
  PROVE  ToSet(ReadRuns(c, Len(c) * ClusterBytes(G))) = UNION {ToSet(Cluster(c[k])) : k \in 1 .. Len(c)}
<1> DEFINE all == FlattenSeq([k \in 1 .. Len(c) |-> Cluster(c[k])])
           length == Len(c) * ClusterBytes(G)
           D == {q \in DOMAIN all : q * ENTRY_BYTES <= length}
<1>1. /\ all \in Seq(Pieces) /\ Len(all) = Len(c) * PerCluster
      /\ ToSet(all) = UNION {ToSet(Cluster(c[k])) : k \in 1 .. Len(c)}
  BY AllPieces
<1>2. ReadRuns(c, length) = [p \in D |-> all[p]]
  BY DEF ReadRuns
<1> HIDE DEF all
<1>3. DOMAIN all = 1 .. Len(all) /\ all = [p \in DOMAIN all |-> all[p]]
  BY <1>1
<1>4. ASSUME NEW q \in DOMAIN all PROVE q * ENTRY_BYTES <= length
  <2> DEFINE n == Len(c)
  <2>1. /\ PerCluster \in Nat /\ ENTRY_BYTES \in Nat /\ ClusterBytes(G) \in Nat
        /\ PerCluster * ENTRY_BYTES <= ClusterBytes(G) /\ n \in Nat
    BY PerClusterFits
  <2> HIDE DEF n
  <2>2. q \in Int /\ q <= n * PerCluster /\ n * PerCluster \in Int
    BY <1>1, <1>3, <2>1 DEF n
  <2>3. q * ENTRY_BYTES <= (n * PerCluster) * ENTRY_BYTES
    BY <2>1, <2>2, ProductGrows
  <2>4. (PerCluster * ENTRY_BYTES) * n <= ClusterBytes(G) * n
    BY <2>1, ProductGrows
  <2>5. (n * PerCluster) * ENTRY_BYTES = (PerCluster * ENTRY_BYTES) * n
    BY <2>1
  <2>6. ClusterBytes(G) * n = n * ClusterBytes(G)
    BY <2>1
  <2>7. /\ q * ENTRY_BYTES \in Int /\ (PerCluster * ENTRY_BYTES) * n \in Int
        /\ n * ClusterBytes(G) \in Int
    BY <2>1, <2>2
  <2>8. QED
    BY <2>3, <2>4, <2>5, <2>6, <2>7 DEF n
<1>5. D = DOMAIN all
  BY <1>4
<1> HIDE DEF D, length
<1>6. ReadRuns(c, length) = all
  BY <1>2, <1>3, <1>5
<1>7. QED
  BY <1>1, <1>6 DEF length

\* The clusters of an entry are in a row.
LEMMA RunsAreRows ==
  ASSUME G \in GeometryFields, NEW data, data.length \in Int, NEW c \in RunsOf(data)
  PROVE  Len(c) \in Nat
<1> DEFINE n == DivCeil(data.length, ClusterBytes(G))
           run == [k \in 1 .. n |-> data.first + k - 1]
<1>1. G.clusterCount \in Int /\ ClusterBytes(G) \in Nat \ {0}
  BY SizesAreWhole
<1>2. n \in Int
  BY <1>1, DivCeilIsInt
<1>3. CASE c = <<>>
  BY <1>3
<1>4. CASE c \in Chain(data.first, {data.length})
  <2>1. c \in Seq(InHeap)
    BY <1>1, <1>4, ChainIsInHeap
  <2>2. QED
    BY <2>1
<1>5. CASE c = run /\ n > 0
  <2>1. n \in Nat
    BY <1>2, <1>5
  <2> HIDE DEF n
  <2>2. run \in [1 .. n -> {data.first + k - 1 : k \in 1 .. n}]
    OBVIOUS
  <2> HIDE DEF run
  <2>3. Len(run) = n
    BY <2>1, <2>2, RowIsSeq
  <2>4. QED
    BY <1>5, <2>1, <2>3
<1>6. CASE c # <<>> /\ c \notin Chain(data.first, {data.length}) /\ ~(c = run /\ n > 0)
  BY <1>6, Zenon DEF RunsOf
<1>7. QED
  BY <1>3, <1>4, <1>5, <1>6
----------------------------------------------------------------------------
(* What a volume that is accepted is.                                      *)

\* The data of the root, and of an entry of the root that tells of the volume.
Chained(e) == [first |-> e.first, length |-> e.length, contiguous |-> FALSE]
RootData   == Chained([first |-> B.root, length |-> 0])
RootPieces == UNION {ToSet(Cluster(c)) : c \in Owned(RootData)}

\* The clusters of each file and directory that was found.
Own == [n \in DOMAIN reader.nodes |-> Owned(reader.nodes[n].data)]

\* The root, the bitmap, the table and each thing have their clusters for
\* themselves, and all of them are claimed.
Apart(claimed, root, b, t, own) ==
  /\ root \cap b = {} /\ root \cap t = {} /\ b \cap t = {}
  /\ \A m, n \in DOMAIN own : m # n => own[m] \cap own[n] = {}
  /\ \A n \in DOMAIN own : own[n] \cap (root \cup b \cup t) = {}
  /\ claimed = root \cup b \cup t \cup UNION {own[n] : n \in DOMAIN own}

Held(b, t) ==
  Apart(reader.claimed, Owned(RootData), Owned(Chained(b)), Owned(Chained(t)), Own)

\* The frame of a directory, and what its walk has made sure of: nothing of the
\* volume itself comes after the end.
FrameHolds(f) ==
  /\ DOMAIN f = {"above", "at", "ended", "names", "pieces"}
  /\ f.pieces \in Seq(Pieces) /\ f.at \in Nat \ {0} /\ f.ended \in BOOLEAN

Scanned(f) ==
  \A p \in 1 .. Len(f.pieces) : p < f.at =>
    /\ f.pieces[p].type \in {"bitmap", "upcase"} => \A q \in 1 .. p : f.pieces[q].type # "end"
    /\ ~f.ended => f.pieces[p].type # "end"

Stacked ==
  /\ \A k \in 1 .. Len(reader.stack) : FrameHolds(reader.stack[k])
  /\ ToSet(reader.stack[1].pieces) = RootPieces
  /\ Scanned(reader.stack[1])

\* The entry before the end of the root, and the entry of the whole root.
Marks(type, e) ==
  \E p \in SystemEntries(type) : SystemEntries(type) = {p} /\ e = reader.stack[1].pieces[p]
Only(type, e) == e.type = type /\ \A x \in RootPieces : x.type = type => x = e

\* No two entries of a tree have one path.
Distinct(t) ==
  /\ t \in Seq(TreeEntries)
  /\ \A i, j \in 1 .. Len(t) : t[i].path = t[j].path => i = j

Claims ==
  /\ reader.nodes \in Seq(ToSet(reader.nodes))
  /\ reader.pc # "end" => VolumeHolds /\ Distinct(tree) /\ reader.result # "Ok"
  /\ reader.pc = "open" => reader.nodes = <<>>
  /\ reader.pc \notin {"open", "end"} => reader.claimed \subseteq InHeap
  /\ reader.pc = "system" => reader.nodes = <<>> /\ reader.claimed = Owned(RootData)
  /\ reader.pc \in {"system", "walk"} => Stacked
  /\ reader.pc = "walk" =>
       \E b, t \in RootPieces : Marks("bitmap", b) /\ Marks("upcase", t) /\ Held(b, t)
  /\ reader.pc \in {"allocation", "compare"} \/ reader.result = "Ok" =>
       \E b, t \in RootPieces : Only("bitmap", b) /\ Only("upcase", t) /\ Held(b, t)
  /\ reader.pc = "compare" \/ reader.result = "Ok" => reader.claimed = reader.bits \cap InHeap
  /\ reader.result = "Ok" =>
       {n.path : n \in ToSet(reader.nodes)} = {e.path : e \in ToSet(tree)}

\* What belongs to a volume is the same while the volume is.
LEMMA SameVolume ==
  ASSUME UNCHANGED volume
  PROVE  /\ VolumeHolds' <=> VolumeHolds
         /\ Owned(RootData)' = Owned(RootData) /\ RootPieces' = RootPieces
         /\ \A e : Owned(Chained(e))' = Owned(Chained(e))
         /\ InHeap' = InHeap
<1>1. B' = B /\ G' = G /\ InHeap' = InHeap
  BY SameEntries
<1>2. VolumeHolds' <=> VolumeHolds
  BY <1>1 DEF VolumeHolds
<1>3. \A e : Owned(Chained(e))' = Owned(Chained(e))
  BY SameOwned DEF Chained
<1>4. RootData' = RootData
  BY <1>1 DEF RootData, Chained
<1>5. Owned(RootData)' = Owned(RootData)
  BY <1>4, SameOwned
<1>6. RootPieces' = RootPieces
  BY <1>5, SameClusters DEF RootPieces
<1>7. QED
  BY <1>1, <1>2, <1>3, <1>5, <1>6

LEMMA SameOwn ==
  ASSUME UNCHANGED volume, reader'.nodes = reader.nodes
  PROVE  Own' = Own
  BY SameOwned DEF Own

LEMMA SameOnly ==
  ASSUME UNCHANGED volume, NEW type, NEW e
  PROVE  Only(type, e)' <=> Only(type, e)
  BY SameVolume DEF Only

LEMMA SameHeld ==
  ASSUME UNCHANGED volume, reader'.nodes = reader.nodes, reader'.claimed = reader.claimed
  PROVE  \A b, t : Held(b, t)' <=> Held(b, t)
<1> TAKE b, t
<1>1. Own' = Own
  BY SameOwn
<1>2. QED
  BY <1>1, SameVolume DEF Held

\* The first frame is what tells of the volume.
LEMMA SameMarks ==
  ASSUME reader'.stack[1].pieces = reader.stack[1].pieces
  PROVE  \A type, e : Marks(type, e)' <=> Marks(type, e)
<1> TAKE type, e
<1>1. SystemEntries(type)' = SystemEntries(type)
  BY DEF SystemEntries
<1>2. QED
  BY <1>1 DEF Marks

\* A tree that has a place has no path twice.
LEMMA PlacedIsDistinct ==
  ASSUME NEW t \in Trees, NEW label, Fits(VolumeBytes, SectorBytes, t, label) = "Ok"
  PROVE  Distinct(t)
<1>1. t \in Seq(TreeEntries)
  BY TreesAssumption DEF TreeEntries
<1>2. ~CannotCopy(t)
  BY Zenon DEF Fits
<1>3. ASSUME NEW i \in 1 .. Len(t), NEW j \in 1 .. Len(t), t[i].path = t[j].path, j < i PROVE FALSE
  <2>1. ParentOf(t[j]) = ParentOf(t[i]) /\ NameOf(t[j]) = NameOf(t[i])
    BY <1>3 DEF ParentOf, NameOf
  <2>2. j \in 1 .. i - 1
    BY <1>3
  <2>3. QED
    BY <1>2, <2>1, <2>2 DEF CannotCopy
<1>4. \A i, j \in 1 .. Len(t) : t[i].path = t[j].path => i = j
  <2> SUFFICES ASSUME NEW i \in 1 .. Len(t), NEW j \in 1 .. Len(t), t[i].path = t[j].path, i # j
               PROVE  FALSE
    OBVIOUS
  <2>1. Len(t) \in Nat
    BY <1>1
  <2>2. i < j \/ j < i
    BY <2>1
  <2>3. QED
    BY <1>3, <2>2
<1>5. QED
  BY <1>1, <1>4 DEF Distinct

LEMMA InitClaims == Init => Claims
<1> SUFFICES ASSUME Init PROVE Claims
  OBVIOUS
<1>1. PICK label \in BOOLEAN :
        LET fits == Fits(VolumeBytes, SectorBytes, tree, label)
        IN  IF fits = "Ok"
            THEN volume = VolumeOf(tree, label) /\ reader = Fresh
            ELSE /\ volume = VolumeOf(<<>>, FALSE)
                 /\ reader = [Fresh EXCEPT !.pc = "end", !.result = fits]
  BY Zenon DEF Init
<1> DEFINE fits == Fits(VolumeBytes, SectorBytes, tree, label)
<1>2. <<>> \in Seq(ToSet(<<>>))
  OBVIOUS
<1>3. CASE fits = "Ok"
  <2>1. volume = VolumeOf(tree, label) /\ reader = Fresh
    BY <1>1, <1>3
  <2>2. Distinct(tree)
    BY <1>3, PlacedIsDistinct DEF Init
  <2>3. \E g \in Geometry(VolumeBytes, SectorBytes) : TRUE
    BY <1>3, Zenon DEF Fits
  <2>4. Home \in GeometryFields
    BY <2>3, GeometryIsTyped, Zenon DEF Home
  <2> DEFINE counts == Counts(Home, tree, label)
             runs   == Runs(counts)
  <2>5. /\ DOMAIN volume = {"boot", "fat", "heap"}
        /\ G = Home /\ volume.heap = Heap(Home, tree, label, runs)
    BY <2>1 DEF VolumeOf, Boot, G
  <2>6. counts \in Seq(Int) /\ DOMAIN counts = 1 .. 3 + Len(tree)
    BY <2>2, <2>4, CountsAre DEF Distinct
  <2> HIDE DEF counts
  <2>7. RunsOfTree(runs, tree)
    BY <2>6, RunsAre DEF RunsOfTree
  <2> HIDE DEF runs
  <2>8. volume.heap \in [Clusters(Home) -> [1 .. PerCluster -> Pieces]]
    BY <2>2, <2>4, <2>5, <2>7, HeapIsPieces DEF Distinct, PerCluster
  <2>9. VolumeHolds
    BY <2>4, <2>5, <2>8 DEF VolumeHolds
  <2>10. reader.pc = "open" /\ reader.nodes = <<>> /\ reader.result = "none"
    BY <2>1 DEF Fresh
  <2>11. QED
    BY <1>2, <2>2, <2>9, <2>10 DEF Claims
<1>4. CASE fits # "Ok"
  <2>1. reader = [Fresh EXCEPT !.pc = "end", !.result = fits]
    BY <1>1, <1>4
  <2> HIDE DEF fits
  <2>2. reader.pc = "end" /\ reader.nodes = <<>> /\ reader.result # "Ok"
    BY <1>4, <2>1 DEF Fresh
  <2>3. QED
    BY <1>2, <2>2 DEF Claims
<1>5. QED
  BY <1>3, <1>4

LEMMA RefuseClaims ==
  ASSUME Typed, Claims, NEW why, why # "Ok", Refuse(why), UNCHANGED volume
  PROVE  Claims'
<1>1. reader'.pc = "end" /\ reader'.result = why /\ reader'.nodes = reader.nodes
  BY DEF Refuse, Typed
<1>2. QED
  BY <1>1 DEF Claims

LEMMA RefuseReadClaims ==
  ASSUME Typed, Claims, NEW reach, RefuseRead(reach), UNCHANGED volume
  PROVE  Claims'
<1>1. reader'.pc = "end" /\ reader'.result = "Io" /\ reader'.nodes = reader.nodes
  BY DEF RefuseRead, Typed
<1>2. QED
  BY <1>1 DEF Claims

\* Harm leaves a volume whose clusters hold pieces.
LEMMA HarmClaims ==
  ASSUME Typed, Claims, HarmBoot \/ HarmFat \/ HarmEntry
  PROVE  Claims'
<1>1. reader.pc = "open" /\ UNCHANGED <<reader, tree>>
  BY DEF HarmBoot, HarmFat, HarmEntry, Harmful
<1>2. VolumeHolds /\ "geometry" \in DOMAIN volume.boot
  BY <1>1 DEF Claims, Typed
<1>3. DOMAIN volume = {"boot", "fat", "heap"} /\ G \in GeometryFields /\ G.clusterSectors = Home.clusterSectors
  BY <1>2 DEF VolumeHolds
<1>4. CASE HarmBoot
  <2>0. SUFFICES VolumeHolds'
    BY <1>1 DEF Claims
  <2>1. ASSUME NEW f \in {"fatOffset", "fatLength", "heapOffset", "volumeSectors", "clusterCount"},
               NEW n \in Int, volume' = [volume EXCEPT !.boot.geometry[f] = @ + n]
        PROVE  VolumeHolds'
    <3>1. /\ DOMAIN volume' = DOMAIN volume /\ volume'.heap = volume.heap
          /\ G' = [G EXCEPT ![f] = @ + n]
      BY <1>2, <1>3, <2>1 DEF G
    <3>2. [G EXCEPT ![f] = @ + n] \in GeometryFields
      BY <1>3 DEF GeometryFields
    <3>3. G'.clusterSectors = G.clusterSectors
      BY <1>3, <3>1 DEF GeometryFields
    <3>4. QED
      BY <1>2, <1>3, <3>1, <3>2, <3>3 DEF VolumeHolds
  <2>2. ASSUME NEW f, f # "geometry", NEW x, volume' = [volume EXCEPT !.boot[f] = x]
        PROVE  VolumeHolds'
    <3>1. DOMAIN volume' = DOMAIN volume /\ volume'.heap = volume.heap /\ G' = G
      BY <1>2, <1>3, <2>2 DEF G
    <3>2. QED
      BY <1>2, <3>1 DEF VolumeHolds
  <2>3. CASE \E f \in {"fatOffset", "fatLength", "heapOffset", "volumeSectors", "clusterCount"},
                n \in {-1, 1, Home.clusterCount * Home.clusterSectors} :
               volume' = [volume EXCEPT !.boot.geometry[f] = @ + n]
    <3>1. \A n \in {-1, 1, Home.clusterCount * Home.clusterSectors} : n \in Int
      BY <1>2 DEF VolumeHolds, GeometryFields
    <3>2. QED
      BY <2>1, <2>3, <3>1, Zenon
  <2>4. CASE \E f \in {"root", "percent"}, n \in {-1, 1} : volume' = [volume EXCEPT !.boot[f] = @ + n]
    <3>1. PICK f \in {"root", "percent"}, n \in {-1, 1} : volume' = [volume EXCEPT !.boot[f] = @ + n]
      BY <2>4
    <3>2. DOMAIN volume' = DOMAIN volume /\ volume'.heap = volume.heap /\ G' = G
      BY <3>1, <1>2, <1>3 DEF G
    <3>3. QED
      BY <1>2, <3>2 DEF VolumeHolds
  <2>5. CASE \E f \in {"sealed", "plain"} : volume' = [volume EXCEPT !.boot[f] = FALSE]
    BY <2>2, <2>5
  <2>6. ASSUME NEW n \in {0, 1}, NEW w \in Int,
               volume' = [volume EXCEPT !.boot.geometry.volumeSectors = @ + w,
                                        !.boot.geometry.clusterCount = @ + n]
        PROVE  VolumeHolds'
    <3>1. /\ DOMAIN volume' = DOMAIN volume /\ volume'.heap = volume.heap
          /\ G' = [G EXCEPT !.volumeSectors = @ + w, !.clusterCount = @ + n]
      BY <1>2, <1>3, <2>6 DEF G
    <3>2. n \in Int
      OBVIOUS
    <3>3. [G EXCEPT !.volumeSectors = @ + w, !.clusterCount = @ + n] \in GeometryFields
      BY <1>3, <3>2, StillGeometry
    <3>4. G'.clusterSectors = G.clusterSectors
      BY <1>3, <3>1 DEF GeometryFields
    <3>5. QED
      BY <1>2, <1>3, <3>1, <3>3, <3>4 DEF VolumeHolds
  <2>7. CASE \E n \in {0, 1} :
               volume' = [volume EXCEPT
                 !.boot.geometry.volumeSectors = @ + (U64 + 1) \div SectorBytes,
                 !.boot.geometry.clusterCount = @ + n]
    <3>1. (U64 + 1) \div SectorBytes \in Int
      BY SectorIsPositive, VolumeAssumption, Quotient
    <3> DEFINE w == (U64 + 1) \div SectorBytes
    <3>2. PICK n \in {0, 1} :
            volume' = [volume EXCEPT !.boot.geometry.volumeSectors = @ + w,
                                     !.boot.geometry.clusterCount = @ + n]
      BY <2>7
    <3>3. w \in Int
      BY <3>1
    <3> HIDE DEF w
    <3>4. QED
      BY <2>6, <3>2, <3>3
  <2>8. QED
    BY <1>4, <2>3, <2>4, <2>5, <2>7, Zenon DEF HarmBoot
<1>5. CASE HarmFat
  <2>1. ASSUME NEW n, NEW x, volume' = [volume EXCEPT !.fat[n] = x]
        PROVE  DOMAIN volume' = DOMAIN volume /\ volume'.heap = volume.heap /\ volume'.boot = volume.boot
    BY <1>3, <2>1
  <2>2. DOMAIN volume' = DOMAIN volume /\ volume'.heap = volume.heap /\ volume'.boot = volume.boot
    BY <1>5, <2>1, Zenon DEF HarmFat
  <2>3. VolumeHolds'
    BY <1>2, <2>2 DEF VolumeHolds, G
  <2>4. QED
    BY <1>1, <2>3 DEF Claims
<1>6. CASE HarmEntry
  <2>1. PICK c \in DOMAIN volume.heap, p \in 1 .. ClusterBytes(Home) \div ENTRY_BYTES :
          \E e \in Harms(volume.heap[c][p]) : volume' = [volume EXCEPT !.heap[c][p] = e]
    BY <1>6, Zenon DEF HarmEntry
  <2>2. PICK e \in Harms(volume.heap[c][p]) : volume' = [volume EXCEPT !.heap[c][p] = e]
    BY <2>1, Zenon
  <2>3. volume.heap \in [Clusters(Home) -> [1 .. PerCluster -> Pieces]]
    BY <1>2 DEF VolumeHolds
  <2>4. c \in Clusters(Home) /\ p \in 1 .. PerCluster
    BY <2>1, <2>3 DEF PerCluster
  <2>5. volume.heap[c][p] \in Pieces
    BY <2>3, <2>4
  <2>6. e \in Pieces
    BY <1>2, <2>5, HarmsArePieces DEF VolumeHolds
  <2>7. /\ DOMAIN volume' = DOMAIN volume /\ volume'.boot = volume.boot
        /\ volume'.heap = [volume.heap EXCEPT ![c][p] = e]
    BY <1>3, <2>2
  <2>8. [volume.heap EXCEPT ![c][p] = e] \in [Clusters(Home) -> [1 .. PerCluster -> Pieces]]
    BY <2>3, <2>4, <2>6
  <2>9. VolumeHolds'
    BY <1>2, <2>7, <2>8 DEF VolumeHolds, G
  <2>10. QED
    BY <1>1, <2>9 DEF Claims
<1>7. QED
  BY <1>4, <1>5, <1>6

LEMMA OpenClaims ==
  ASSUME Typed, Claims, Open
  PROVE  Claims'
<1> DEFINE found == {c \in Chain(B.root, {}) : Len(c) * ClusterBytes(G) <= MAX_DIRECTORY_BYTES}
           good == IF Opens /\ FatEntry(0) = MEDIA /\ FatEntry(1) = END_OF_CHAIN THEN found ELSE {}
<1>1. reader.pc = "open" /\ UNCHANGED <<volume, tree>>
  BY DEF Open
<1>2. CASE Refuse("Io")
  BY <1>1, <1>2, RefuseClaims
<1>3. ASSUME NEW c \in good,
             reader' = [reader EXCEPT
                !.pc = "system", !.claimed = ToSet(c), !.reach = ReachOf(c),
                !.stack = <<FrameOf(<<>>, ReadRuns(c, Len(c) * ClusterBytes(G)))>>]
      PROVE  Claims'
  <2> DEFINE pieces == ReadRuns(c, Len(c) * ClusterBytes(G))
             frame == FrameOf(<<>>, pieces)
             reach == ReachOf(c)
  <2>1. VolumeHolds /\ Distinct(tree) /\ reader.result # "Ok" /\ reader.nodes = <<>>
    BY <1>1 DEF Claims
  <2>2. G \in GeometryFields /\ G.clusterCount \in Int /\ ClusterBytes(G) \in Nat
    BY <2>1, SizesAreWhole DEF VolumeHolds
  <2>3. c \in Chain(B.root, {})
    OBVIOUS
  <2>4. c \in Seq(InHeap)
    BY <2>2, <2>3, ChainIsInHeap
  <2>5. Len(c) \in Nat /\ DOMAIN c = 1 .. Len(c) /\ ToSet(c) \subseteq InHeap
    BY <2>4 DEF ToSet
  <2>6. Owned(RootData) = ToSet(c)
    <3>1. ~RootData.contiguous /\ c \in Chain(RootData.first, {})
      BY <2>3 DEF RootData, Chained
    <3>2. QED
      BY <2>2, <3>1, ChainIsOwned
  <2>7. pieces \in Seq(Pieces)
    <3>1. Len(c) * ClusterBytes(G) \in Int
      BY <2>2, <2>5
    <3>2. QED
      BY <2>1, <2>5, <3>1, ReadRunsArePieces
  <2>8. ToSet(pieces) = RootPieces
    <3>1. ToSet(pieces) = UNION {ToSet(Cluster(c[k])) : k \in 1 .. Len(c)}
      BY <2>1, <2>5, WholeIsRead
    <3>2. {ToSet(Cluster(c[k])) : k \in 1 .. Len(c)} = {ToSet(Cluster(x)) : x \in ToSet(c)}
      <4>1. ToSet(c) = {c[k] : k \in 1 .. Len(c)}
        BY <2>5 DEF ToSet
      <4>2. QED
        BY <4>1
    <3>3. QED
      BY <2>6, <3>1, <3>2 DEF RootPieces
  <2> HIDE DEF pieces, reach
  <2>9. /\ DOMAIN frame = {"above", "at", "ended", "names", "pieces"}
        /\ frame.pieces = pieces /\ frame.at = 1 /\ frame.ended = FALSE
    BY DEF FrameOf
  <2> HIDE DEF frame
  <2>10. reader' = [reader EXCEPT !.pc = "system", !.claimed = ToSet(c), !.reach = reach,
                                  !.stack = <<frame>>]
    BY <1>3 DEF frame, pieces, reach
  <2>11. /\ reader'.pc = "system" /\ reader'.claimed = ToSet(c) /\ reader'.stack = <<frame>>
         /\ reader'.nodes = reader.nodes /\ reader'.result = reader.result
    BY <2>10 DEF Typed
  <2>12. FrameHolds(frame)
    <3>1. frame.ended \in BOOLEAN
      BY <2>9, Zenon
    <3>2. frame.at \in Nat \ {0} /\ frame.pieces \in Seq(Pieces)
      BY <2>7, <2>9
    <3>3. QED
      BY <2>9, <3>1, <3>2, Zenon DEF FrameHolds
  <2>13. Scanned(frame)
    BY <2>9 DEF Scanned
  <2>14. Stacked'
    <3>1. Len(<<frame>>) = 1 /\ <<frame>>[1] = frame
      OBVIOUS
    <3>2. RootPieces' = RootPieces
      BY <1>1, SameVolume
    <3>3. QED
      BY <2>8, <2>9, <2>11, <2>12, <2>13, <3>1, <3>2 DEF Stacked
  <2>15. VolumeHolds' /\ Owned(RootData)' = Owned(RootData) /\ InHeap' = InHeap
    BY <1>1, <2>1, SameVolume
  <2>16. <<>> \in Seq(ToSet(<<>>))
    OBVIOUS
  <2>17. QED
    BY <1>1, <2>1, <2>5, <2>6, <2>11, <2>14, <2>15, <2>16 DEF Claims
<1>4. ASSUME NEW reach, RefuseRead(reach) PROVE Claims'
  BY <1>1, <1>4, RefuseReadClaims
<1>5. QED
  BY <1>2, <1>3, <1>4, Zenon DEF Open

\* Where there is one entry of a type at most, it marks that type.
LEMMA MarkOf ==
  ASSUME OneOfEach, reader.stack[1].pieces \in Seq(Pieces),
         NEW type \in {"bitmap", "upcase", "label"}, NEW e \in EntriesOf(type)
  PROVE  Marks(type, e) /\ e \in ToSet(reader.stack[1].pieces)
<1> DEFINE S == SystemEntries(type)
           pieces == reader.stack[1].pieces
<1>1. PICK p \in S : e = pieces[p]
  BY DEF EntriesOf
<1>2. Len(pieces) \in Nat /\ DOMAIN pieces = 1 .. Len(pieces)
  OBVIOUS
<1>3. S \in SUBSET (1 .. Len(pieces))
  BY DEF SystemEntries
<1>4. IsFiniteSet(1 .. Len(pieces))
  BY <1>2, FS_Interval
<1>5. Cardinality(S) <= 1
  BY DEF OneOfEach
<1> HIDE DEF S
<1>6. IsFiniteSet(S)
  BY <1>3, <1>4, FS_Subset
<1>7. Cardinality(S) \in Nat /\ Cardinality(S) # 0
  BY <1>1, <1>6, FS_EmptySet, FS_CardinalityType
<1>8. Cardinality(S) = 1
  BY <1>5, <1>7
<1>9. PICK x : S = {x}
  BY <1>6, <1>8, FS_Singleton
<1>10. S = {p}
  BY <1>1, <1>9
<1>11. e \in ToSet(pieces)
  BY <1>1, <1>2, <1>3 DEF ToSet
<1>12. QED
  BY <1>1, <1>10, <1>11, Zenon DEF Marks, S

LEMMA SystemClaims ==
  ASSUME Typed, Deep, Claims, System
  PROVE  Claims'
<1>1. reader.pc = "system" /\ UNCHANGED <<volume, tree>>
  BY DEF System
<1>2. ASSUME NEW why, why # "Ok", Refuse(why) PROVE Claims'
  BY <1>1, <1>2, RefuseClaims
<1>3. ASSUME OneOfEach, NEW cb \in BitmapClusters, Free(cb), NEW ct \in TableClusters, Free(ct),
             ToSet(cb) \cap ToSet(ct) = {}, NEW reach, NEW marks,
             reader' = [reader EXCEPT !.pc = "walk", !.claimed = @ \cup (ToSet(cb) \cup ToSet(ct)),
                                      !.reach = reach, !.bits = marks]
      PROVE  Claims'
  <2>1. /\ VolumeHolds /\ Distinct(tree) /\ reader.result # "Ok" /\ reader.nodes = <<>>
        /\ reader.claimed = Owned(RootData) /\ reader.claimed \subseteq InHeap /\ Stacked
    BY <1>1 DEF Claims
  <2>2. G.clusterCount \in Int
    BY <2>1, SizesAreWhole DEF VolumeHolds
  <2>3. PICK b \in EntriesOf("bitmap") : cb \in Chain(b.first, {b.length})
    BY Zenon DEF BitmapClusters
  <2>4. PICK t \in EntriesOf("upcase") : ct \in Chain(t.first, {t.length})
    BY Zenon DEF TableClusters
  <2>5. Owned(Chained(b)) = ToSet(cb) /\ Owned(Chained(t)) = ToSet(ct)
    <3>1. /\ ~Chained(b).contiguous /\ cb \in Chain(Chained(b).first, {b.length})
          /\ ~Chained(t).contiguous /\ ct \in Chain(Chained(t).first, {t.length})
      BY <2>3, <2>4 DEF Chained
    <3>2. QED
      BY <2>2, <3>1, ChainIsOwned
  <2>6. ToSet(cb) \subseteq InHeap /\ ToSet(ct) \subseteq InHeap
    BY <2>2, <2>3, <2>4, ChainIsInHeap DEF ToSet
  <2>7. reader.stack[1].pieces \in Seq(Pieces) /\ ToSet(reader.stack[1].pieces) = RootPieces
    <3>1. Len(reader.stack) = 1
      BY <1>1 DEF Deep
    <3>2. QED
      BY <2>1, <3>1 DEF Stacked, FrameHolds
  <2>8. Marks("bitmap", b) /\ Marks("upcase", t) /\ b \in RootPieces /\ t \in RootPieces
    BY <1>3, <2>3, <2>4, <2>7, MarkOf
  <2>9. /\ reader'.pc = "walk" /\ reader'.claimed = reader.claimed \cup (ToSet(cb) \cup ToSet(ct))
        /\ reader'.stack = reader.stack /\ reader'.nodes = reader.nodes /\ reader'.result = reader.result
    BY <1>3 DEF Typed
  <2>10. Own' = Own /\ DOMAIN Own = {}
    <3>1. Own' = Own
      BY <1>1, <2>9, SameOwn
    <3>2. QED
      BY <2>1, <3>1 DEF Own
  <2>11. /\ VolumeHolds' /\ Owned(RootData)' = Owned(RootData) /\ InHeap' = InHeap
         /\ RootPieces' = RootPieces
         /\ Owned(Chained(b))' = ToSet(cb) /\ Owned(Chained(t))' = ToSet(ct)
    BY <1>1, <2>1, <2>5, SameVolume
  <2>12. Apart(reader'.claimed, Owned(RootData), ToSet(cb), ToSet(ct), Own)
    BY <1>3, <2>1, <2>9, <2>10 DEF Apart, Free
  <2>13. Held(b, t)'
    BY <2>10, <2>11, <2>12 DEF Held
  <2>14. Marks("bitmap", b)' /\ Marks("upcase", t)'
    BY <2>8, <2>9, SameMarks
  <2>15. Stacked'
    BY <2>1, <2>9, <2>11 DEF Stacked
  <2>16. \E x, y \in RootPieces' : Marks("bitmap", x)' /\ Marks("upcase", y)' /\ Held(x, y)'
    BY <2>8, <2>11, <2>13, <2>14, Zenon
  <2>17. reader'.nodes \in Seq(ToSet(reader'.nodes)) /\ reader'.claimed \subseteq InHeap' /\ Distinct(tree)'
    BY <1>1, <2>1, <2>6, <2>9, <2>11 DEF Claims
  <2>18. QED
    BY <2>1, <2>9, <2>11, <2>15, <2>16, <2>17 DEF Claims
<1>4. ASSUME NEW reach, RefuseRead(reach) PROVE Claims'
  BY <1>1, <1>4, RefuseReadClaims
<1>5. QED
  BY <1>2, <1>3, <1>4, Zenon DEF System

LEMMA ReturnClaims ==
  ASSUME Typed, Deep, Claims, Return
  PROVE  Claims'
<1>1. /\ reader.pc = "walk" /\ UNCHANGED <<volume, tree>> /\ Frame.at > Len(Frame.pieces)
      /\ reader' = [reader EXCEPT !.stack = Front(@),
                                  !.pc = IF Len(reader.stack) = 1 THEN "allocation" ELSE "walk"]
  BY DEF Return
<1>2. /\ reader'.stack = Front(reader.stack)
      /\ reader'.pc = (IF Len(reader.stack) = 1 THEN "allocation" ELSE "walk")
      /\ reader'.claimed = reader.claimed /\ reader'.nodes = reader.nodes
      /\ reader'.result = reader.result
  BY <1>1 DEF Typed
<1>3. /\ VolumeHolds /\ Distinct(tree) /\ reader.result # "Ok" /\ Stacked
      /\ reader.claimed \subseteq InHeap /\ reader.nodes \in Seq(ToSet(reader.nodes))
  BY <1>1 DEF Claims
<1>4. PICK b \in RootPieces, t \in RootPieces : Marks("bitmap", b) /\ Marks("upcase", t) /\ Held(b, t)
  BY <1>1, Zenon DEF Claims
<1>5. /\ VolumeHolds' /\ InHeap' = InHeap /\ RootPieces' = RootPieces /\ Held(b, t)'
      /\ Distinct(tree)' /\ reader'.claimed \subseteq InHeap'
      /\ reader'.nodes \in Seq(ToSet(reader'.nodes)) /\ reader'.result # "Ok"
  BY <1>1, <1>2, <1>3, <1>4, SameVolume, SameHeld
<1>6. /\ reader.stack \in Seq(ToSet(reader.stack)) /\ reader.stack # <<>>
      /\ Len(reader.stack) \in Nat \ {0}
  <2>1. reader.stack \in Seq(ToSet(reader.stack)) /\ reader.stack # <<>>
    BY <1>1 DEF Typed, Deep
  <2>2. QED
    BY <2>1, EmptySeq
<1>7. CASE Len(reader.stack) = 1
  <2> DEFINE pieces == reader.stack[1].pieces
  <2>1. /\ pieces \in Seq(Pieces) /\ ToSet(pieces) = RootPieces /\ Scanned(reader.stack[1])
        /\ reader.stack[1].at \in Nat
    BY <1>3, <1>7 DEF Stacked, FrameHolds
  <2>2. reader.stack[1].at > Len(pieces)
    BY <1>1, <1>7 DEF Frame, Last
  <2>3. Len(pieces) \in Nat /\ DOMAIN pieces = 1 .. Len(pieces)
    BY <2>1
  <2>4. ASSUME NEW type \in {"bitmap", "upcase"}, NEW e, Marks(type, e)
        PROVE  Only(type, e)
    <3>1. PICK p \in SystemEntries(type) : SystemEntries(type) = {p} /\ e = pieces[p]
      BY <2>4, Zenon DEF Marks
    <3>2. e.type = type
      BY <3>1 DEF SystemEntries
    <3>3. ASSUME NEW x \in RootPieces, x.type = type PROVE x = e
      <4>1. PICK q \in 1 .. Len(pieces) : x = pieces[q]
        BY <2>1, <2>3 DEF ToSet
      <4>2. q < reader.stack[1].at
        BY <2>1, <2>2, <2>3
      <4>3. \A r \in 1 .. q : pieces[r].type # "end"
        BY <2>1, <2>4, <3>3, <4>1, <4>2 DEF Scanned
      <4>4. q \in SystemEntries(type)
        BY <3>3, <4>1, <4>3 DEF SystemEntries
      <4>5. QED
        BY <3>1, <4>1, <4>4
    <3>4. QED
      BY <3>2, <3>3, Zenon DEF Only
  <2>5. Only("bitmap", b)' /\ Only("upcase", t)'
    BY <1>1, <1>4, <2>4, SameOnly
  <2>6. \E x, y \in RootPieces' : Only("bitmap", x)' /\ Only("upcase", y)' /\ Held(x, y)'
    BY <1>5, <2>5, Zenon
  <2>7. reader'.pc = "allocation"
    BY <1>2, <1>7
  <2>8. QED
    BY <1>5, <2>6, <2>7 DEF Claims
<1>8. CASE Len(reader.stack) # 1
  <2> DEFINE S == ToSet(reader.stack)
             n == Len(reader.stack) - 1
             stack == Front(reader.stack)
  <2>1. n \in Nat \ {0}
    BY <1>6, <1>8
  <2>2. stack = SubSeq(reader.stack, 1, n)
    BY DEF Front
  <2>3. \A k \in 1 .. n : reader.stack[k] \in S
    BY <1>6, <2>1
  <2> HIDE DEF S, n
  <2>4. Len(stack) = n /\ \A k \in 1 .. n : stack[k] = reader.stack[k]
    <3>1. /\ Len(SubSeq(reader.stack, 1, n)) = IF 1 <= n THEN n - 1 + 1 ELSE 0
          /\ \A k \in 1 .. n - 1 + 1 : SubSeq(reader.stack, 1, n)[k] = reader.stack[1 + k - 1]
      BY <2>1, <2>3, SubSeqProperties
    <3>2. n - 1 + 1 = n /\ 1 <= n /\ \A k \in 1 .. n : 1 + k - 1 = k
      BY <2>1
    <3>3. QED
      BY <2>2, <3>1, <3>2
  <2>5. 1 \in 1 .. n /\ \A k \in 1 .. n : k \in 1 .. Len(reader.stack)
    <3>1. Len(reader.stack) = n + 1
      BY <1>6 DEF n
    <3>2. QED
      BY <2>1, <3>1
  <2> HIDE DEF stack
  <2>6. reader'.stack = stack /\ reader'.pc = "walk"
    BY <1>2, <1>8 DEF stack
  <2>7. Stacked'
    BY <1>3, <1>5, <2>4, <2>5, <2>6 DEF Stacked
  <2>8. Marks("bitmap", b)' /\ Marks("upcase", t)'
    BY <1>4, <2>4, <2>5, <2>6, SameMarks
  <2>9. \E x, y \in RootPieces' : Marks("bitmap", x)' /\ Marks("upcase", y)' /\ Held(x, y)'
    BY <1>5, <2>8, Zenon
  <2>10. QED
    BY <1>5, <2>6, <2>7, <2>9 DEF Claims
<1>9. QED
  BY <1>7, <1>8

\* The frame at the top, where the walk goes on.
LEMMA TopHolds ==
  ASSUME Typed, Deep, Claims, reader.pc = "walk"
  PROVE  /\ reader.stack \in Seq(ToSet(reader.stack))
         /\ Len(reader.stack) \in Nat \ {0} /\ Frame = reader.stack[Len(reader.stack)]
         /\ FrameHolds(Frame) /\ Stacked
<1>1. reader.stack \in Seq(ToSet(reader.stack)) /\ reader.stack # <<>>
  BY DEF Typed, Deep
<1>2. Len(reader.stack) \in Nat \ {0}
  BY <1>1, EmptySeq
<1>3. Stacked
  BY DEF Claims
<1>4. Len(reader.stack) \in 1 .. Len(reader.stack)
  BY <1>2
<1>5. Frame = reader.stack[Len(reader.stack)]
  BY DEF Frame, Last
<1>6. QED
  BY <1>1, <1>2, <1>3, <1>4, <1>5 DEF Stacked

\* A step that changes the top, and may put a frame on it, keeps what holds of all.
LEMMA StackedGrows ==
  ASSUME UNCHANGED volume, Stacked, NEW top, FrameHolds(top),
         reader.stack \in Seq(ToSet(reader.stack)), Len(reader.stack) \in Nat \ {0},
         top.pieces = reader.stack[Len(reader.stack)].pieces,
         Len(reader.stack) = 1 => Scanned(top),
         \/ Len(reader'.stack) = Len(reader.stack)
         \/ Len(reader'.stack) = Len(reader.stack) + 1 /\ FrameHolds(reader'.stack[Len(reader.stack) + 1]),
         \A k \in 1 .. Len(reader.stack) :
           reader'.stack[k] = IF k = Len(reader.stack) THEN top ELSE reader.stack[k]
  PROVE  Stacked' /\ reader'.stack[1].pieces = reader.stack[1].pieces
<1> DEFINE n == Len(reader.stack)
<1>1. n \in Nat \ {0} /\ 1 \in 1 .. n
  OBVIOUS
<1>2. reader'.stack[1] = IF n = 1 THEN top ELSE reader.stack[1]
  <2>1. \A k \in 1 .. n : reader'.stack[k] = IF k = n THEN top ELSE reader.stack[k]
    OBVIOUS
  <2> HIDE DEF n
  <2>2. QED
    BY <1>1, <2>1
<1>3. reader'.stack[1].pieces = reader.stack[1].pieces
  BY <1>2
<1>4. Scanned(reader'.stack[1])
  BY <1>2 DEF Stacked
<1>5. ASSUME NEW k \in 1 .. Len(reader'.stack) PROVE FrameHolds(reader'.stack[k])
  <2>1. CASE k = n + 1
    BY <1>1, <1>5, <2>1
  <2>2. CASE k \in 1 .. n
    <3>1. CASE k = n
      BY <2>2, <3>1
    <3>2. CASE k # n
      BY <2>2, <3>2 DEF Stacked
    <3>3. QED
      BY <3>1, <3>2
  <2>3. k \in 1 .. n \/ k = n + 1
    BY <1>1, <1>5
  <2>4. QED
    BY <2>1, <2>2, <2>3
<1>6. RootPieces' = RootPieces
  BY SameVolume
<1>7. QED
  BY <1>3, <1>4, <1>5, <1>6 DEF Stacked

LEMMA SkipClaims ==
  ASSUME Typed, Deep, Claims, Skip
  PROVE  Claims'
<1>1. reader.pc = "walk" /\ UNCHANGED <<volume, tree>> /\ Frame.at <= Len(Frame.pieces)
  BY DEF Skip
<1>2. CASE Refuse("VolumeDiffers")
  BY <1>1, <1>2, RefuseClaims
<1>3. CASE MaySkip /\ reader' = [reader EXCEPT !.stack[Len(reader.stack)] = Skipped]
  <2> DEFINE stack == [reader.stack EXCEPT ![Len(reader.stack)] = Skipped]
             n == Len(reader.stack)
  <2>1. /\ reader.stack \in Seq(ToSet(reader.stack)) /\ n \in Nat \ {0}
        /\ Frame = reader.stack[n] /\ FrameHolds(Frame) /\ Stacked
    BY <1>1, TopHolds
  <2>2. /\ DOMAIN Skipped = DOMAIN Frame /\ Skipped.pieces = Frame.pieces
        /\ Skipped.at = Frame.at + 1
        /\ Skipped.ended = (Frame.ended \/ Piece.type = "end")
    BY <2>1 DEF Skipped, FrameHolds
  <2>3. FrameHolds(Skipped)
    <3>1. Skipped.ended \in BOOLEAN
      BY <2>2, Zenon
    <3>2. Skipped.at \in Nat \ {0}
      BY <2>1, <2>2 DEF FrameHolds
    <3>3. QED
      BY <2>1, <2>2, <3>1, <3>2 DEF FrameHolds
  <2>4. ASSUME n = 1 PROVE Scanned(Skipped)
    <3> DEFINE pieces == Frame.pieces
               at == Frame.at
    <3>1. /\ \A p \in 1 .. Len(pieces) : p < at =>
                /\ pieces[p].type \in {"bitmap", "upcase"} => \A q \in 1 .. p : pieces[q].type # "end"
                /\ ~Frame.ended => pieces[p].type # "end"
      BY <2>1, <2>4, Zenon DEF Stacked, Scanned
    <3>2. at \in Nat \ {0} /\ pieces \in Seq(Pieces) /\ Len(pieces) \in Nat
      BY <2>1 DEF FrameHolds
    <3>3. pieces[at] = Piece
      BY DEF Piece
    <3>4. \/ pieces[at].type = "end"
          \/ ~Frame.ended /\ pieces[at].type # "end"
      BY <1>3, <3>3 DEF MaySkip
    <3>5. Skipped.pieces = pieces /\ Skipped.at = at + 1
          /\ (~Skipped.ended => ~Frame.ended /\ pieces[at].type # "end")
      BY <2>2, <3>3, Zenon
    <3> HIDE DEF pieces, at
    <3>6. ASSUME NEW p \in 1 .. Len(pieces), p < at + 1
          PROVE  /\ pieces[p].type \in {"bitmap", "upcase"} => \A q \in 1 .. p : pieces[q].type # "end"
                 /\ ~Skipped.ended => pieces[p].type # "end"
      <4>1. CASE p < at
        BY <3>1, <3>5, <4>1
      <4>2. CASE p = at
        <5>1. ASSUME pieces[p].type \in {"bitmap", "upcase"}, NEW q \in 1 .. p PROVE pieces[q].type # "end"
          <6>1. ~Frame.ended
            BY <3>4, <4>2, <5>1
          <6>2. CASE q = p
            BY <5>1, <6>2
          <6>3. CASE q # p
            BY <3>1, <3>2, <4>2, <6>1, <6>3
          <6>4. QED
            BY <6>2, <6>3
        <5>2. ~Skipped.ended => pieces[p].type # "end"
          BY <3>5, <4>2
        <5>3. QED
          BY <5>1, <5>2
      <4>3. QED
        BY <3>2, <3>6, <4>1, <4>2
    <3>7. QED
      BY <3>5, <3>6, Zenon DEF Scanned
  <2>5. Len(stack) = n /\ \A k \in 1 .. n : stack[k] = IF k = n THEN Skipped ELSE reader.stack[k]
    BY <2>1
  <2> HIDE DEF stack
  <2>6. /\ reader'.stack = stack /\ reader'.pc = "walk"
        /\ reader'.claimed = reader.claimed /\ reader'.nodes = reader.nodes
        /\ reader'.result = reader.result
    BY <1>1, <1>3 DEF Typed, stack
  <2>7. Stacked' /\ reader'.stack[1].pieces = reader.stack[1].pieces
    BY <1>1, <2>1, <2>2, <2>3, <2>4, <2>5, <2>6, StackedGrows
  <2>8. /\ VolumeHolds /\ Distinct(tree) /\ reader.result # "Ok"
        /\ reader.claimed \subseteq InHeap /\ reader.nodes \in Seq(ToSet(reader.nodes))
    BY <1>1 DEF Claims
  <2>9. PICK b \in RootPieces, t \in RootPieces : Marks("bitmap", b) /\ Marks("upcase", t) /\ Held(b, t)
    BY <1>1, Zenon DEF Claims
  <2>10. Marks("bitmap", b)' /\ Marks("upcase", t)' /\ Held(b, t)'
    BY <1>1, <2>6, <2>7, <2>9, SameMarks, SameHeld
  <2>11. VolumeHolds' /\ InHeap' = InHeap /\ RootPieces' = RootPieces
    BY <1>1, <2>8, SameVolume
  <2>12. \E x, y \in RootPieces' : Marks("bitmap", x)' /\ Marks("upcase", y)' /\ Held(x, y)'
    BY <2>9, <2>10, <2>11, Zenon
  <2>13. QED
    BY <1>1, <2>6, <2>7, <2>8, <2>11, <2>12 DEF Claims
<1>4. QED
  BY <1>2, <1>3, Zenon DEF Skip

\* An entry set of whole pieces is pieces of files and of names only.
LEMMA SetIsOfPieces ==
  ASSUME FrameHolds(Frame), Frame.at <= Len(Frame.pieces), Piece.type = "file", SetRules
  PROVE  /\ Piece.secondary \in Nat /\ Frame.at + Piece.secondary <= Len(Frame.pieces)
         /\ \A q \in Frame.at .. Frame.at + Piece.secondary :
              Frame.pieces[q].type \in {"file", "stream", "name"}
         /\ Data.first \in Int /\ Data.length \in Int
<1> DEFINE pieces == Frame.pieces
           at == Frame.at
           s == Piece.secondary
           set == EntrySet
           parts == DivCeil(set[2].units, UNITS_PER_NAME_ENTRY)
<1>1. pieces \in Seq(Pieces) /\ at \in Nat \ {0} /\ Len(pieces) \in Nat
  BY DEF FrameHolds
<1>2. Piece = pieces[at] /\ at \in 1 .. Len(pieces)
  BY <1>1 DEF Piece
<1>3. s \in Int
  BY <1>1, <1>2, PiecesAre
<1>4. s >= 2 /\ at + s <= Len(pieces) /\ SetIsWhole(set)
  BY DEF SetRules
<1>5. set = SubSeq(pieces, at, at + s)
  BY DEF EntrySet
<1> HIDE DEF pieces, at, s, set
<1>6. \A q \in at .. at + s : q \in 1 .. Len(pieces) /\ pieces[q] \in Pieces
  BY <1>1, <1>3, <1>4
<1>7. Len(set) = s + 1 /\ \A k \in 1 .. s + 1 : set[k] = pieces[at + k - 1]
  <2>1. at + s \in Int /\ at <= at + s /\ (at + s) - at + 1 = s + 1
    BY <1>1, <1>3, <1>4
  <2>2. /\ Len(SubSeq(pieces, at, at + s)) = IF at <= at + s THEN (at + s) - at + 1 ELSE 0
        /\ \A k \in 1 .. (at + s) - at + 1 : SubSeq(pieces, at, at + s)[k] = pieces[at + k - 1]
    BY <1>1, <1>6, <2>1, SubSeqProperties
  <2>3. QED
    BY <1>5, <2>1, <2>2
<1>8. set[2] \in Pieces /\ set[2].type = "stream"
  <2>1. 2 \in 1 .. s + 1 /\ at + 2 - 1 \in at .. at + s
    BY <1>1, <1>3, <1>4
  <2>2. set[2] \in Pieces
    BY <1>6, <1>7, <2>1
  <2>3. QED
    BY <1>4, <2>2 DEF SetIsWhole
<1>9. set[2].units \in Int /\ set[2].first \in Int /\ set[2].length \in Int
  BY <1>8, PiecesAre
<1>10. parts \in Int /\ Len(set) = 2 + parts /\ \A k \in 1 .. parts : set[2 + k].type = "name"
  BY <1>4, <1>9, DivCeilIsInt, PlaceAssumption DEF SetIsWhole
<1> HIDE DEF parts
<1>11. ASSUME NEW q \in at .. at + s PROVE pieces[q].type \in {"file", "stream", "name"}
  <2> DEFINE k == q - at + 1
  <2>1. k \in 1 .. s + 1 /\ at + k - 1 = q
    BY <1>1, <1>3
  <2>2. pieces[q] = set[k]
    BY <1>7, <2>1
  <2>3. CASE k = 1
    <3>1. q = at
      BY <1>1, <2>3
    <3>2. QED
      BY <1>2, <3>1 DEF pieces
  <2>4. CASE k = 2
    BY <1>8, <2>2, <2>4
  <2>5. CASE k # 1 /\ k # 2
    <3>1. k - 2 \in 1 .. parts /\ 2 + (k - 2) = k
      BY <1>3, <1>7, <1>10, <2>1, <2>5
    <3>2. set[2 + (k - 2)].type = "name"
      BY <1>10, <3>1
    <3>3. QED
      BY <2>2, <3>1, <3>2
  <2>6. QED
    BY <2>3, <2>4, <2>5
<1>12. s \in Nat
  BY <1>3, <1>4
<1>13. Data = set[2]
  BY DEF Data, set
<1>14. QED
  BY <1>4, <1>9, <1>11, <1>12, <1>13 DEF pieces, at, s

\* One thing more, with clusters that nothing claims.
LEMMA ApartGrows ==
  ASSUME NEW claimed, NEW root, NEW b, NEW t, NEW own, NEW n \in Nat, DOMAIN own = 1 .. n,
         Apart(claimed, root, b, t, own), NEW S, S \cap claimed = {},
         NEW all, DOMAIN all = 1 .. n + 1, \A k \in 1 .. n : all[k] = own[k], all[n + 1] = S
  PROVE  Apart(claimed \cup S, root, b, t, all)
<1>1. \A k \in 1 .. n : own[k] \subseteq claimed
  BY DEF Apart
<1>2. root \subseteq claimed /\ b \subseteq claimed /\ t \subseteq claimed
  BY DEF Apart
<1>3. \A k \in 1 .. n + 1 : k # n + 1 => k \in 1 .. n /\ all[k] = own[k]
  OBVIOUS
<1>4. \A j, k \in 1 .. n + 1 : j # k => all[j] \cap all[k] = {}
  <2> TAKE j, k \in 1 .. n + 1
  <2> HAVE j # k
  <2>1. CASE j = n + 1
    <3>1. k \in 1 .. n /\ all[k] = own[k]
      BY <1>3, <2>1
    <3>2. QED
      BY <1>1, <2>1, <3>1
  <2>2. CASE k = n + 1
    <3>1. j \in 1 .. n /\ all[j] = own[j]
      BY <1>3, <2>2
    <3>2. QED
      BY <1>1, <2>2, <3>1
  <2>3. CASE j # n + 1 /\ k # n + 1
    BY <1>3, <2>3 DEF Apart
  <2>4. QED
    BY <2>1, <2>2, <2>3
<1>5. \A k \in 1 .. n + 1 : all[k] \cap (root \cup b \cup t) = {}
  <2> TAKE k \in 1 .. n + 1
  <2>1. CASE k = n + 1
    BY <1>2, <2>1
  <2>2. CASE k # n + 1
    BY <1>3, <2>2 DEF Apart
  <2>3. QED
    BY <2>1, <2>2
<1>6. UNION {all[k] : k \in 1 .. n + 1} = S \cup UNION {own[k] : k \in 1 .. n}
  <2>1. ASSUME NEW x \in UNION {all[k] : k \in 1 .. n + 1} PROVE x \in S \cup UNION {own[k] : k \in 1 .. n}
    <3>1. PICK k \in 1 .. n + 1 : x \in all[k]
      OBVIOUS
    <3>2. QED
      BY <1>3, <3>1
  <2>2. ASSUME NEW x \in S \cup UNION {own[k] : k \in 1 .. n} PROVE x \in UNION {all[k] : k \in 1 .. n + 1}
    <3>1. CASE x \in S
      <4>1. n + 1 \in 1 .. n + 1
        OBVIOUS
      <4>2. QED
        BY <3>1, <4>1
    <3>2. CASE x \notin S
      <4>1. PICK k \in 1 .. n : x \in own[k]
        BY <3>2
      <4>2. k \in 1 .. n + 1
        OBVIOUS
      <4>3. QED
        BY <4>1, <4>2
    <3>3. QED
      BY <3>1, <3>2
  <2>3. QED
    BY <2>1, <2>2
<1>7. claimed = root \cup b \cup t \cup UNION {own[k] : k \in 1 .. n}
  BY DEF Apart
<1>8. claimed \cup S = root \cup b \cup t \cup UNION {all[k] : k \in DOMAIN all}
  BY <1>6, <1>7
<1>9. root \cap b = {} /\ root \cap t = {} /\ b \cap t = {}
  BY DEF Apart
<1>10. QED
  BY <1>4, <1>5, <1>8, <1>9 DEF Apart

\* The clusters of a new file or directory are free of all that is claimed, and so
\* of the root, the bitmap, the table and each thing before.
LEMMA ReadSetClaims ==
  ASSUME Typed, Opened, Deep, Claims, ReadSet
  PROVE  Claims'
<1>1. /\ reader.pc = "walk" /\ UNCHANGED <<volume, tree>>
      /\ Frame.at <= Len(Frame.pieces) /\ ~Frame.ended /\ Piece.type = "file"
  BY DEF ReadSet
<1>2. ASSUME NEW why, why # "Ok", Refuse(why) PROVE Claims'
  BY <1>1, <1>2, RefuseClaims
<1>3. ASSUME NEW c \in SetClusters,
             LET stack == [reader.stack EXCEPT ![Len(reader.stack)] = Passed]
             IN  reader' = [reader EXCEPT
                   !.claimed = @ \cup ToSet(c), !.nodes = Append(@, Node),
                   !.stack = IF Piece.dir
                             THEN Append(stack, FrameOf(Node.path, ReadRuns(c, Data.length)))
                             ELSE stack,
                   !.reach = IF Piece.dir THEN ReachOf(c) ELSE @]
      PROVE  Claims'
  <2> DEFINE n == Len(reader.stack)
             passed == [reader.stack EXCEPT ![n] = Passed]
             pieces == ReadRuns(c, Data.length)
             frame == FrameOf(Node.path, pieces)
             stack == IF Piece.dir THEN Append(passed, frame) ELSE passed
             reach == IF Piece.dir THEN ReachOf(c) ELSE reader.reach
             nodes == Append(reader.nodes, Node)
             last == Len(reader.nodes)
  <2>1. /\ reader.stack \in Seq(ToSet(reader.stack)) /\ n \in Nat \ {0}
        /\ Frame = reader.stack[n] /\ FrameHolds(Frame) /\ Stacked
    BY <1>1, TopHolds
  <2>2. /\ VolumeHolds /\ Distinct(tree) /\ reader.result # "Ok"
        /\ reader.claimed \subseteq InHeap /\ reader.nodes \in Seq(ToSet(reader.nodes))
    BY <1>1 DEF Claims
  <2>3. G \in GeometryFields /\ G.clusterCount \in Nat
    <3>1. G.clusterCount \in Int /\ G.clusterCount > 0
      BY <1>1, <2>2, SizesAreWhole DEF VolumeHolds, Opened, FitsItself
    <3>2. QED
      BY <2>2, <3>1 DEF VolumeHolds
  <2>4. SetRules /\ c \in RunsOf(Data) /\ ToSet(c) \cap reader.claimed = {}
    BY Zenon DEF SetClusters, Free
  <2>5. /\ Piece.secondary \in Nat
        /\ \A q \in Frame.at .. Frame.at + Piece.secondary :
             Frame.pieces[q].type \in {"file", "stream", "name"}
        /\ Data.first \in Int /\ Data.length \in Int
    BY <1>1, <2>1, <2>4, SetIsOfPieces
  <2>6. Owned(Data) = ToSet(c) /\ ToSet(c) \subseteq InHeap
    BY <2>3, <2>4, <2>5, RunsAreOwned, RunsAreInHeap
  <2>7. /\ DOMAIN Passed = DOMAIN Frame /\ Passed.pieces = Frame.pieces
        /\ Passed.at = Frame.at + Piece.secondary + 1 /\ Passed.ended = Frame.ended
    BY <2>1 DEF Passed, FrameHolds
  <2>8. FrameHolds(Passed)
    <3>1. Passed.at \in Nat \ {0}
      BY <2>1, <2>5, <2>7 DEF FrameHolds
    <3>2. QED
      BY <2>1, <2>7, <3>1 DEF FrameHolds
  <2>9. ASSUME n = 1 PROVE Scanned(Passed)
    <3> DEFINE all == Frame.pieces
               at == Frame.at
               s == Piece.secondary
    <3>1. \A p \in 1 .. Len(all) : p < at =>
                /\ all[p].type \in {"bitmap", "upcase"} => \A q \in 1 .. p : all[q].type # "end"
                /\ all[p].type # "end"
      BY <1>1, <2>1, <2>9, Zenon DEF Stacked, Scanned
    <3>2. at \in Nat \ {0} /\ s \in Nat /\ all \in Seq(Pieces) /\ Len(all) \in Nat
      BY <2>1, <2>5 DEF FrameHolds
    <3>3. \A q \in at .. at + s : all[q].type \in {"file", "stream", "name"}
      BY <2>5
    <3>4. Passed.pieces = all /\ Passed.at = at + s + 1
      BY <2>7
    <3> HIDE DEF all, at, s
    <3>5. ASSUME NEW p \in 1 .. Len(all), p < at + s + 1
          PROVE  /\ all[p].type \in {"bitmap", "upcase"} => \A q \in 1 .. p : all[q].type # "end"
                 /\ all[p].type # "end"
      <4>1. CASE p < at
        BY <3>1, <4>1
      <4>2. CASE ~(p < at)
        <5>1. p \in at .. at + s
          BY <3>2, <3>5, <4>2
        <5>2. all[p].type \in {"file", "stream", "name"}
          BY <3>3, <5>1
        <5>3. QED
          BY <5>2
      <4>3. QED
        BY <4>1, <4>2
    <3>6. QED
      BY <3>4, <3>5, Zenon DEF Scanned
  <2>10. FrameHolds(frame)
    <3>1. pieces \in Seq(Pieces)
      BY <2>2, <2>3, <2>4, <2>5, RunsAreRows, ReadRunsArePieces
    <3> HIDE DEF pieces
    <3>2. /\ DOMAIN frame = {"above", "at", "ended", "names", "pieces"}
          /\ frame.pieces = pieces /\ frame.at = 1 /\ frame.ended = FALSE
      BY DEF FrameOf
    <3> HIDE DEF frame
    <3>3. frame.ended \in BOOLEAN
      BY <3>2, Zenon
    <3>4. frame.at \in Nat \ {0} /\ frame.pieces \in Seq(Pieces)
      BY <3>1, <3>2
    <3>5. QED
      BY <3>2, <3>3, <3>4, Zenon DEF FrameHolds
  <2>11. /\ passed \in Seq(ToSet(passed)) /\ Len(passed) = n
         /\ \A k \in 1 .. n : passed[k] = IF k = n THEN Passed ELSE reader.stack[k]
    <3>1. passed \in Seq(ToSet(passed)) /\ Len(passed) = n
      BY <2>1, ExceptTyped
    <3>2. \A k \in 1 .. n : passed[k] = IF k = n THEN Passed ELSE reader.stack[k]
      BY <2>1
    <3>3. QED
      BY <3>1, <3>2
  <2> HIDE DEF passed, frame, pieces
  <2>12. /\ \A k \in 1 .. n : stack[k] = IF k = n THEN Passed ELSE reader.stack[k]
         /\ \/ Len(stack) = n
            \/ Len(stack) = n + 1 /\ FrameHolds(stack[n + 1])
    <3>1. CASE Piece.dir
      <4>1. Len(Append(passed, frame)) = n + 1 /\ Append(passed, frame)[n + 1] = frame
        BY <2>11, AppendTyped
      <4>2. \A k \in 1 .. n : Append(passed, frame)[k] = passed[k]
        BY <2>11
      <4>3. QED
        BY <2>10, <2>11, <3>1, <4>1, <4>2
    <3>2. CASE ~Piece.dir
      BY <2>11, <3>2
    <3>3. QED
      BY <3>1, <3>2
  <2>13. /\ last \in Nat /\ nodes \in Seq(ToSet(nodes)) /\ Len(nodes) = last + 1
         /\ DOMAIN reader.nodes = 1 .. last /\ DOMAIN nodes = 1 .. last + 1
         /\ nodes[last + 1] = Node /\ \A k \in 1 .. last : nodes[k] = reader.nodes[k]
    <3>1. /\ nodes \in Seq(ToSet(nodes)) /\ Len(nodes) = last + 1 /\ nodes[last + 1] = Node
      BY <2>2, AppendTyped
    <3>2. last \in Nat /\ DOMAIN reader.nodes = 1 .. last /\ \A k \in 1 .. last : nodes[k] = reader.nodes[k]
      BY <2>2
    <3> HIDE DEF nodes
    <3>3. DOMAIN nodes = 1 .. last + 1
      BY <3>1
    <3>4. QED
      BY <3>1, <3>2, <3>3
  <2>14. reader' = [reader EXCEPT !.claimed = reader.claimed \cup ToSet(c), !.nodes = nodes,
                                  !.stack = stack, !.reach = reach]
    BY <1>3 DEF passed, frame, pieces
  <2> HIDE DEF stack, reach, nodes
  <2>15. /\ reader'.stack = stack /\ reader'.pc = "walk" /\ reader'.nodes = nodes
         /\ reader'.claimed = reader.claimed \cup ToSet(c) /\ reader'.result = reader.result
    BY <1>1, <2>14 DEF Typed
  <2>16. Stacked' /\ reader'.stack[1].pieces = reader.stack[1].pieces
    BY <1>1, <2>1, <2>7, <2>8, <2>9, <2>12, <2>15, StackedGrows
  <2>17. PICK b \in RootPieces, t \in RootPieces : Marks("bitmap", b) /\ Marks("upcase", t) /\ Held(b, t)
    BY <1>1, Zenon DEF Claims
  <2>18. /\ VolumeHolds' /\ InHeap' = InHeap /\ RootPieces' = RootPieces
         /\ Owned(RootData)' = Owned(RootData)
         /\ Owned(Chained(b))' = Owned(Chained(b)) /\ Owned(Chained(t))' = Owned(Chained(t))
    BY <1>1, <2>2, SameVolume
  <2>19. /\ DOMAIN Own = 1 .. last /\ DOMAIN Own' = 1 .. last + 1
         /\ Own'[last + 1] = ToSet(c) /\ \A k \in 1 .. last : Own'[k] = Own[k]
    <3>1. Own = [k \in 1 .. last |-> Owned(reader.nodes[k].data)]
      BY <2>13 DEF Own
    <3>2. Own' = [k \in 1 .. last + 1 |-> Owned(nodes[k].data)]
      BY <1>1, <2>13, <2>15, SameOwned DEF Own
    <3>3. Owned(nodes[last + 1].data) = ToSet(c)
      BY <2>6, <2>13 DEF Node
    <3>4. last + 1 \in 1 .. last + 1 /\ \A k \in 1 .. last : k \in 1 .. last + 1
      BY <2>13
    <3> HIDE DEF last
    <3>5. QED
      BY <2>13, <3>1, <3>2, <3>3, <3>4
  <2>20. Held(b, t)'
    <3>1. Apart(reader.claimed, Owned(RootData), Owned(Chained(b)), Owned(Chained(t)), Own)
      BY <2>17 DEF Held
    <3>2. Apart(reader.claimed \cup ToSet(c), Owned(RootData), Owned(Chained(b)), Owned(Chained(t)), Own')
      BY <2>4, <2>13, <2>19, <3>1, ApartGrows
    <3>3. QED
      BY <2>15, <2>18, <3>2 DEF Held
  <2>21. Marks("bitmap", b)' /\ Marks("upcase", t)'
    BY <2>16, <2>17, SameMarks
  <2>22. \E x, y \in RootPieces' : Marks("bitmap", x)' /\ Marks("upcase", y)' /\ Held(x, y)'
    BY <2>17, <2>18, <2>20, <2>21, Zenon
  <2>23. /\ reader'.claimed \subseteq InHeap' /\ Distinct(tree)'
         /\ reader'.nodes \in Seq(ToSet(reader'.nodes))
    BY <1>1, <2>2, <2>6, <2>13, <2>15, <2>18
  <2>24. QED
    BY <2>2, <2>15, <2>16, <2>18, <2>22, <2>23 DEF Claims
<1>4. CASE Refuse(IF SetRules /\ Data.first # 0 /\ ~Data.contiguous /\ RunsOf(Data) = {}
                  THEN "Io" ELSE "VolumeDiffers")
  <2>1. (IF SetRules /\ Data.first # 0 /\ ~Data.contiguous /\ RunsOf(Data) = {}
         THEN "Io" ELSE "VolumeDiffers") # "Ok"
    OBVIOUS
  <2>2. QED
    BY <1>2, <1>4, <2>1, Zenon
<1>5. ASSUME NEW reach, RefuseRead(reach) PROVE Claims'
  BY <1>1, <1>5, RefuseReadClaims
<1>6. QED
  BY <1>3, <1>4, <1>5, Zenon DEF ReadSet

\* The bitmap marks what is claimed, and no other cluster of the heap.
LEMMA CheckAllocationClaims ==
  ASSUME Typed, Claims, CheckAllocation
  PROVE  Claims'
<1>1. reader.pc = "allocation" /\ UNCHANGED <<volume, tree>>
  BY DEF CheckAllocation
<1>2. CASE Refuse("Io")
  BY <1>1, <1>2, RefuseClaims
<1>3. CASE Allocated /\ reader' = [reader EXCEPT !.pc = "compare"]
  <2>1. /\ reader'.pc = "compare" /\ reader'.nodes = reader.nodes /\ reader'.bits = reader.bits
        /\ reader'.claimed = reader.claimed /\ reader'.result = reader.result
    BY <1>3 DEF Typed
  <2>2. /\ VolumeHolds /\ Distinct(tree) /\ reader.result # "Ok"
        /\ reader.claimed \subseteq InHeap /\ reader.nodes \in Seq(ToSet(reader.nodes))
    BY <1>1 DEF Claims
  <2>3. PICK b \in RootPieces, t \in RootPieces : Only("bitmap", b) /\ Only("upcase", t) /\ Held(b, t)
    BY <1>1, Zenon DEF Claims
  <2>4. /\ VolumeHolds' /\ InHeap' = InHeap /\ RootPieces' = RootPieces
        /\ Only("bitmap", b)' /\ Only("upcase", t)' /\ Held(b, t)'
    BY <1>1, <2>1, <2>2, <2>3, SameVolume, SameOnly, SameHeld
  <2>5. \E x, y \in RootPieces' : Only("bitmap", x)' /\ Only("upcase", y)' /\ Held(x, y)'
    BY <2>3, <2>4, Zenon
  <2>6. reader.claimed = reader.bits \cap InHeap
    BY <1>3, <2>2 DEF Allocated
  <2>7. QED
    BY <1>1, <2>1, <2>2, <2>4, <2>5, <2>6 DEF Claims
<1>4. QED
  BY <1>2, <1>3, Zenon DEF CheckAllocation

\* As many things as there are entries, with a thing for each path, and so no other.
LEMMA SamePaths ==
  ASSUME NEW t, Distinct(t), NEW s, s \in Seq(ToSet(s)), Len(s) = Len(t),
         \A i \in 1 .. Len(t) : \E n \in ToSet(s) : n.path = t[i].path
  PROVE  {n.path : n \in ToSet(s)} = {e.path : e \in ToSet(t)}
<1> DEFINE L == Len(t)
           T == {e.path : e \in ToSet(t)}
           P == {n.path : n \in ToSet(s)}
           f == [i \in 1 .. L |-> t[i].path]
           g == [i \in 1 .. L |-> s[i].path]
<1>1. /\ L \in Nat /\ DOMAIN t = 1 .. L /\ DOMAIN s = 1 .. L
      /\ \A i, j \in 1 .. L : t[i].path = t[j].path => i = j
  BY DEF Distinct
<1>2. ToSet(t) = {t[i] : i \in 1 .. L} /\ ToSet(s) = {s[i] : i \in 1 .. L}
  <2>1. DOMAIN t = 1 .. L /\ DOMAIN s = 1 .. L
    BY <1>1
  <2> HIDE DEF L
  <2>2. {t[i] : i \in DOMAIN t} = {t[i] : i \in 1 .. L}
    BY <2>1, Zenon
  <2>3. {s[i] : i \in DOMAIN s} = {s[i] : i \in 1 .. L}
    BY <2>1, Zenon
  <2>4. QED
    BY <2>2, <2>3, Zenon DEF ToSet
<1>3. IsFiniteSet(1 .. L) /\ Cardinality(1 .. L) = L
  <2>1. L \in Nat
    BY <1>1
  <2> HIDE DEF L, T, P, f, g
  <2>2. /\ IsFiniteSet(1 .. L)
        /\ Cardinality(1 .. L) = IF 1 > L THEN 0 ELSE L - 1 + 1
    BY <2>1, FS_Interval
  <2>3. QED
    BY <2>1, <2>2
<1>4. T \subseteq P
  BY <1>2
<1>5. f \in Surjection(1 .. L, T) /\ f \in Injection(1 .. L, T)
  <2>1. f \in [1 .. L -> T]
    BY <1>2
  <2>2. \A x \in T : \E i \in 1 .. L : f[i] = x
    BY <1>2
  <2>3. \A i, j \in 1 .. L : f[i] = f[j] => i = j
    BY <1>1
  <2> HIDE DEF f, T
  <2>4. QED
    BY <2>1, <2>2, <2>3 DEF Surjection, Injection, IsInjective
<1>6. g \in Surjection(1 .. L, P)
  <2>1. g \in [1 .. L -> P]
    BY <1>2
  <2>2. \A x \in P : \E i \in 1 .. L : g[i] = x
    BY <1>2
  <2> HIDE DEF g, P
  <2>3. QED
    BY <2>1, <2>2 DEF Surjection
<1> HIDE DEF f, g, T, P, L
<1>7. Cardinality(T) = L
  BY <1>3, <1>5, FS_Surjection
<1>8. IsFiniteSet(P) /\ Cardinality(P) <= L
  BY <1>3, <1>6, FS_Surjection
<1>9. Cardinality(T) <= Cardinality(P) /\ (Cardinality(P) = Cardinality(T) => P = T)
  BY <1>4, <1>8, FS_Subset
<1>10. Cardinality(P) \in Nat
  BY <1>8, FS_CardinalityType
<1>11. P = T
  BY <1>1, <1>7, <1>8, <1>9, <1>10
<1>12. QED
  BY <1>11 DEF P, T

LEMMA CompareClaims ==
  ASSUME Typed, Claims, Compare
  PROVE  Claims'
<1> DEFINE has(i) == \E n \in ToSet(reader.nodes) :
                       /\ n.path = tree[i].path /\ n.dir = tree[i].dir
                       /\ n.dir \/ (n.data.length = tree[i].bytes /\ ReadFile(n.data) = Source(i))
<1>1. reader.pc = "compare" /\ UNCHANGED <<volume, tree>>
  BY DEF Compare
<1>2. CASE Refuse("VolumeDiffers")
  BY <1>1, <1>2, RefuseClaims
<1>3. ASSUME \A i \in 1 .. Len(tree) : has(i), Len(reader.nodes) = Len(tree), NEW reach,
             reader' = [reader EXCEPT !.pc = "end", !.result = "Ok", !.reach = reach]
      PROVE  Claims'
  <2>1. /\ reader'.pc = "end" /\ reader'.nodes = reader.nodes /\ reader'.bits = reader.bits
        /\ reader'.claimed = reader.claimed
    BY <1>3 DEF Typed
  <2>2. /\ Distinct(tree) /\ reader.nodes \in Seq(ToSet(reader.nodes))
        /\ reader.claimed = reader.bits \cap InHeap
    BY <1>1 DEF Claims
  <2>3. PICK b \in RootPieces, t \in RootPieces : Only("bitmap", b) /\ Only("upcase", t) /\ Held(b, t)
    BY <1>1, Zenon DEF Claims
  <2>4. /\ InHeap' = InHeap /\ RootPieces' = RootPieces
        /\ Only("bitmap", b)' /\ Only("upcase", t)' /\ Held(b, t)'
    BY <1>1, <2>1, <2>3, SameVolume, SameOnly, SameHeld
  <2>5. \E x, y \in RootPieces' : Only("bitmap", x)' /\ Only("upcase", y)' /\ Held(x, y)'
    BY <2>3, <2>4, Zenon
  <2>6. \A i \in 1 .. Len(tree) : \E n \in ToSet(reader.nodes) : n.path = tree[i].path
    BY <1>3
  <2>7. {n.path : n \in ToSet(reader.nodes)} = {e.path : e \in ToSet(tree)}
    BY <1>3, <2>2, <2>6, SamePaths
  <2>8. QED
    BY <1>1, <2>1, <2>2, <2>4, <2>5, <2>7 DEF Claims
<1>4. ASSUME NEW reach, RefuseRead(reach) PROVE Claims'
  BY <1>1, <1>4, RefuseReadClaims
<1>5. QED
  BY <1>2, <1>3, <1>4, Zenon DEF Compare

LEMMA StillClaims ==
  ASSUME Claims, UNCHANGED vars
  PROVE  Claims'
<1>1. UNCHANGED <<tree, volume, reader>>
  BY DEF vars
<1>2. /\ VolumeHolds' <=> VolumeHolds
      /\ Owned(RootData)' = Owned(RootData) /\ RootPieces' = RootPieces /\ InHeap' = InHeap
  BY <1>1, SameVolume
<1>3. \A b, t : Held(b, t)' <=> Held(b, t)
  BY <1>1, SameHeld
<1>4. \A type, e : Marks(type, e)' <=> Marks(type, e)
  BY <1>1, SameMarks
<1>5. \A type, e : Only(type, e)' <=> Only(type, e)
  BY <1>1, SameOnly
<1>6. Stacked' <=> Stacked
  BY <1>1, <1>2 DEF Stacked
<1>7. reader.pc = "walk" =>
        \E b, t \in RootPieces' : Marks("bitmap", b)' /\ Marks("upcase", t)' /\ Held(b, t)'
  BY <1>2, <1>3, <1>4, Zenon DEF Claims
<1>8. reader.pc \in {"allocation", "compare"} \/ reader.result = "Ok" =>
        \E b, t \in RootPieces' : Only("bitmap", b)' /\ Only("upcase", t)' /\ Held(b, t)'
  BY <1>2, <1>3, <1>5, Zenon DEF Claims
<1>9. QED
  BY <1>1, <1>2, <1>6, <1>7, <1>8 DEF Claims

LEMMA StepClaims == IInv /\ Claims /\ [Next]_vars => Claims'
<1> SUFFICES ASSUME IInv, Claims, [Next]_vars PROVE Claims'
  OBVIOUS
<1>1. Typed /\ Opened /\ Deep
  BY DEF IInv
<1>2. CASE HarmBoot \/ HarmFat \/ HarmEntry
  BY <1>1, <1>2, HarmClaims
<1>3. CASE UNCHANGED vars
  BY <1>3, StillClaims
<1>4. QED
  BY <1>1, <1>2, <1>3, OpenClaims, SystemClaims, ReturnClaims, SkipClaims, ReadSetClaims,
     CheckAllocationClaims, CompareClaims DEF Next, Read

\* What is claimed at the end is what a volume that passes promises.
LEMMA ClaimsAreSound == Claims => AcceptedIsSound
<1> SUFFICES ASSUME Claims, reader.result = "Ok" PROVE AcceptedIsSound
  BY DEF AcceptedIsSound
<1> DEFINE L == Len(reader.nodes)
           last(type) == Chained(CHOOSE e \in RootPieces : e.type = type)
           data == [n \in 1 .. L |-> reader.nodes[n].data]
           ends == [k \in 1 .. 2 |-> last(<<"bitmap", "upcase">>[k])]
           things == <<RootData>> \o data \o ends
<1>1. PICK b \in RootPieces, t \in RootPieces : Only("bitmap", b) /\ Only("upcase", t) /\ Held(b, t)
  BY Zenon DEF Claims
<1>2. reader.nodes \in Seq(ToSet(reader.nodes)) /\ reader.claimed = reader.bits \cap InHeap
  BY DEF Claims
<1>3. (CHOOSE e \in RootPieces : e.type = "bitmap") = b /\ (CHOOSE e \in RootPieces : e.type = "upcase") = t
  BY <1>1 DEF Only
<1>4. ends[1] = Chained(b) /\ ends[2] = Chained(t) /\ DOMAIN ends = 1 .. 2
  <2>1. last("bitmap") = Chained(b) /\ last("upcase") = Chained(t)
    BY <1>3
  <2>2. <<"bitmap", "upcase">>[1] = "bitmap" /\ <<"bitmap", "upcase">>[2] = "upcase"
    OBVIOUS
  <2> HIDE DEF last
  <2>3. /\ 1 \in 1 .. 2 /\ 2 \in 1 .. 2 /\ DOMAIN ends = 1 .. 2
        /\ ends[1] = last(<<"bitmap", "upcase">>[1]) /\ ends[2] = last(<<"bitmap", "upcase">>[2])
    OBVIOUS
  <2> HIDE DEF ends
  <2>4. QED
    BY <2>1, <2>2, <2>3
<1>5. L \in Nat /\ DOMAIN reader.nodes = 1 .. L
  BY <1>2
<1>6. Own = [n \in 1 .. L |-> Owned(data[n])]
  BY <1>5 DEF Own
<1> DEFINE V == {RootData, Chained(b), Chained(t)} \cup {data[n] : n \in 1 .. L}
<1>7. data \in Seq(V) /\ Len(data) = L
  <2>1. data \in [1 .. L -> V]
    OBVIOUS
  <2> HIDE DEF data, V, L
  <2>2. QED
    BY <1>5, <2>1, RowIsSeq
<1>8. ends \in Seq(V) /\ Len(ends) = 2
  <2>1. ends \in [1 .. 2 -> V] /\ 2 \in Nat
    <3>1. \A k \in 1 .. 2 : k = 1 \/ k = 2
      OBVIOUS
    <3>2. \A k \in 1 .. 2 : ends[k] \in V
      BY <1>4, <3>1
    <3>3. ends = [k \in 1 .. 2 |-> ends[k]]
      OBVIOUS
    <3> HIDE DEF ends, V
    <3>4. QED
      BY <3>2, <3>3
  <2> HIDE DEF ends, V
  <2>2. QED
    BY <2>1, RowIsSeq
<1>9. <<RootData>> \in Seq(V) /\ Len(<<RootData>>) = 1 /\ <<RootData>>[1] = RootData
  OBVIOUS
<1> HIDE DEF data, ends, V, L
<1>10. /\ DOMAIN things = 1 .. L + 3 /\ things[1] = RootData
       /\ \A n \in 1 .. L : things[1 + n] = data[n]
       /\ things[L + 2] = Chained(b) /\ things[L + 3] = Chained(t)
  <2> DEFINE front == <<RootData>> \o data
  <2>1. /\ front \in Seq(V) /\ Len(front) = 1 + L
        /\ \A i \in 1 .. 1 + L : front[i] = IF i <= 1 THEN RootData ELSE data[i - 1]
    <3>1. /\ front \in Seq(V) /\ Len(front) = Len(<<RootData>>) + Len(data)
          /\ \A i \in 1 .. Len(<<RootData>>) + Len(data) :
               front[i] = IF i <= Len(<<RootData>>) THEN <<RootData>>[i] ELSE data[i - Len(<<RootData>>)]
      BY <1>7, <1>9, ConcatProperties
    <3> HIDE DEF front
    <3>2. \A i \in 1 .. 1 + L : i <= 1 => i = 1
      BY <1>5
    <3>3. QED
      BY <1>7, <1>9, <3>1, <3>2
  <2> HIDE DEF front
  <2>2. /\ front \o ends \in Seq(V) /\ Len(front \o ends) = (1 + L) + 2
        /\ \A i \in 1 .. (1 + L) + 2 :
             (front \o ends)[i] = IF i <= 1 + L THEN front[i] ELSE ends[i - (1 + L)]
    <3>1. /\ front \o ends \in Seq(V) /\ Len(front \o ends) = Len(front) + Len(ends)
          /\ \A i \in 1 .. Len(front) + Len(ends) :
               (front \o ends)[i] = IF i <= Len(front) THEN front[i] ELSE ends[i - Len(front)]
      <4>1. front \in Seq(V) /\ ends \in Seq(V)
        BY <1>8, <2>1
      <4>2. QED
        BY <4>1, ConcatProperties
    <3>2. Len(front) = 1 + L /\ Len(ends) = 2
      BY <1>8, <2>1
    <3> DEFINE whole == front \o ends
    <3>3. /\ whole \in Seq(V) /\ Len(whole) = Len(front) + Len(ends)
          /\ \A i \in 1 .. Len(front) + Len(ends) :
               whole[i] = IF i <= Len(front) THEN front[i] ELSE ends[i - Len(front)]
      BY <3>1
    <3> HIDE DEF whole
    <3>4. /\ whole \in Seq(V) /\ Len(whole) = (1 + L) + 2
          /\ \A i \in 1 .. (1 + L) + 2 :
               whole[i] = IF i <= 1 + L THEN front[i] ELSE ends[i - (1 + L)]
      BY <3>2, <3>3
    <3> USE DEF whole
    <3>5. QED
      BY <3>4
  <2>3. things = front \o ends
    BY DEF front
  <2> HIDE DEF things
  <2>4. /\ things \in Seq(V) /\ Len(things) = L + 3
        /\ \A i \in 1 .. L + 3 : things[i] = IF i <= 1 + L THEN front[i] ELSE ends[i - (1 + L)]
    BY <1>5, <2>2, <2>3
  <2>5. DOMAIN things = 1 .. L + 3
    BY <2>4
  <2>6. things[1] = RootData
    BY <1>5, <2>1, <2>4
  <2>7. \A n \in 1 .. L : things[1 + n] = data[n]
    <3> TAKE n \in 1 .. L
    <3>1. /\ 1 + n \in 1 .. L + 3 /\ 1 + n <= 1 + L /\ 1 + n \in 1 .. 1 + L
          /\ ~(1 + n <= 1) /\ (1 + n) - 1 = n
      BY <1>5
    <3>2. QED
      BY <2>1, <2>4, <3>1
  <2>8. things[L + 2] = ends[1] /\ things[L + 3] = ends[2]
    <3>1. /\ L + 2 \in 1 .. L + 3 /\ ~(L + 2 <= 1 + L) /\ (L + 2) - (1 + L) = 1
          /\ L + 3 \in 1 .. L + 3 /\ ~(L + 3 <= 1 + L) /\ (L + 3) - (1 + L) = 2
      BY <1>5
    <3>2. QED
      BY <2>4, <3>1
  <2>9. QED
    BY <1>4, <2>5, <2>6, <2>7, <2>8
<1> HIDE DEF things
<1>11. /\ Owned(things[1]) = Owned(RootData)
       /\ \A n \in 1 .. L : Owned(things[1 + n]) = Own[n]
       /\ Owned(things[L + 2]) = Owned(Chained(b)) /\ Owned(things[L + 3]) = Owned(Chained(t))
  BY <1>6, <1>10
<1>12. Apart(reader.claimed, Owned(RootData), Owned(Chained(b)), Owned(Chained(t)), Own)
  BY <1>1 DEF Held
<1>13. DOMAIN Own = 1 .. L
  BY <1>6
<1>14. \A n \in 1 .. L + 3 : n = 1 \/ n = L + 2 \/ n = L + 3 \/ (n - 1 \in 1 .. L /\ 1 + (n - 1) = n)
  BY <1>5
<1>15. \A m, n \in DOMAIN things : m # n => Owned(things[m]) \cap Owned(things[n]) = {}
  <2> DEFINE O(n) == Owned(things[n])
  <2>1. O(1) \cap O(L + 2) = {} /\ O(1) \cap O(L + 3) = {} /\ O(L + 2) \cap O(L + 3) = {}
    BY <1>11, <1>12 DEF Apart
  <2>2. \A n \in 1 .. L : O(1 + n) \cap O(1) = {} /\ O(1 + n) \cap O(L + 2) = {} /\ O(1 + n) \cap O(L + 3) = {}
    BY <1>11, <1>12, <1>13 DEF Apart
  <2>3. \A m, n \in 1 .. L : m # n => O(1 + m) \cap O(1 + n) = {}
    BY <1>11, <1>12, <1>13 DEF Apart
  <2> HIDE DEF O
  <2>4. ASSUME NEW m \in 1 .. L + 3, NEW n \in 1 .. L + 3, m # n PROVE O(m) \cap O(n) = {}
    <3>1. CASE m = 1 \/ m = L + 2 \/ m = L + 3
      <4>1. CASE n = 1 \/ n = L + 2 \/ n = L + 3
        BY <2>1, <2>4, <3>1, <4>1
      <4>2. CASE n - 1 \in 1 .. L /\ 1 + (n - 1) = n
        BY <2>2, <3>1, <4>2
      <4>3. QED
        BY <1>14, <4>1, <4>2
    <3>2. CASE m - 1 \in 1 .. L /\ 1 + (m - 1) = m
      <4>1. CASE n = 1 \/ n = L + 2 \/ n = L + 3
        BY <2>2, <3>2, <4>1
      <4>2. CASE n - 1 \in 1 .. L /\ 1 + (n - 1) = n
        <5>1. m - 1 # n - 1
          BY <1>5, <2>4
        <5>2. QED
          BY <2>3, <3>2, <4>2, <5>1
      <4>3. QED
        BY <1>14, <4>1, <4>2
    <3>3. QED
      BY <1>14, <3>1, <3>2
  <2>5. QED
    BY <1>10, <2>4 DEF O
<1>16. UNION {Owned(things[n]) : n \in DOMAIN things} = reader.bits \cap InHeap
  <2>1. reader.claimed = Owned(RootData) \cup Owned(Chained(b)) \cup Owned(Chained(t))
                           \cup UNION {Own[n] : n \in 1 .. L}
    BY <1>12, <1>13 DEF Apart
  <2>2. ASSUME NEW x \in reader.claimed PROVE \E n \in 1 .. L + 3 : x \in Owned(things[n])
    <3>1. 1 \in 1 .. L + 3 /\ L + 2 \in 1 .. L + 3 /\ L + 3 \in 1 .. L + 3
      BY <1>5
    <3>2. CASE x \in Owned(RootData) \cup Owned(Chained(b)) \cup Owned(Chained(t))
      BY <1>11, <3>1, <3>2
    <3>3. CASE \E n \in 1 .. L : x \in Own[n]
      <4>1. PICK n \in 1 .. L : x \in Own[n]
        BY <3>3
      <4>2. 1 + n \in 1 .. L + 3
        BY <1>5
      <4>3. QED
        BY <1>11, <4>1, <4>2
    <3>4. QED
      BY <2>1, <3>2, <3>3
  <2>3. ASSUME NEW n \in 1 .. L + 3, NEW x \in Owned(things[n]) PROVE x \in reader.claimed
    <3>1. CASE n = 1 \/ n = L + 2 \/ n = L + 3
      BY <1>11, <2>1, <3>1
    <3>2. CASE n - 1 \in 1 .. L /\ 1 + (n - 1) = n
      <4>1. x \in Own[n - 1]
        BY <1>11, <3>2
      <4>2. QED
        BY <2>1, <3>2, <4>1
    <3>3. QED
      BY <1>14, <3>1, <3>2
  <2>4. QED
    BY <1>2, <1>10, <2>2, <2>3
<1>17. {n.path : n \in ToSet(reader.nodes)} = {e.path : e \in ToSet(tree)}
  BY DEF Claims
<1>18. QED
  BY <1>15, <1>16, <1>17, Zenon
     DEF AcceptedIsSound, things, data, ends, L, RootPieces, RootData, Chained

\* Whatever changed on a volume, one that the reader accepts holds the names of the
\* tree and no other; the root, the bitmap, the up-case table and each file and
\* directory have their clusters for themselves; and the bitmap marks just those
\* clusters of the heap (claim, check_allocation and verify_exfat_with).
THEOREM AcceptedIsSoundAlways == Spec => []AcceptedIsSound
<1>1. QED
  BY SoundAlways, InitClaims, StepClaims, ClaimsAreSound, PTL DEF Spec

=============================================================================
