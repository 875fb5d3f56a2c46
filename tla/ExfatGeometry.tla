--------------------------- MODULE ExfatGeometry ---------------------------
(***************************************************************************)
(* Where the parts of an exFAT volume are: exfat/geometry.rs.  Arithmetic  *)
(* and nothing else.  The sizes are parameters, so that a small volume     *)
(* meets every case that a large one does.                                 *)
(***************************************************************************)
EXTENDS DriveLayout

CONSTANTS
  SmallVolume,    \* the largest volume with clusters of SmallCluster bytes
  MiddleVolume,   \* the largest one with clusters of MiddleCluster bytes
  SmallCluster, MiddleCluster, LargeCluster,
  MAX_CLUSTERS    \* the most clusters that a FAT can count

ASSUME GeometryAssumption ==
  /\ {SmallCluster, MiddleCluster, LargeCluster} \subseteq Nat \ {0}
  /\ {SmallVolume, MiddleVolume, MAX_CLUSTERS} \subseteq Nat

FIRST_CLUSTER == 2

\* The bytes in a cluster: what Windows picks for the size, and at least a sector.
ClusterBytesFor(volume, sector) ==
  LET bytes == IF volume <= SmallVolume THEN SmallCluster
               ELSE IF volume <= MiddleVolume THEN MiddleCluster ELSE LargeCluster
  IN  IF bytes < sector THEN sector ELSE bytes

\* Four bytes for each cluster, and for the two entries before the first.
FatSectors(clusters, sector) == DivCeil((clusters + 2) * 4, sector)

\* Geometry::new: at most one geometry.  The FAT is long enough for every
\* cluster that would fit behind its first sector, so for those that the heap
\* really has; the record keeps the length that those need.
Geometry(volume, sector) ==
  LET sectors == volume \div sector
      cluster == ClusterBytesFor(volume, sector) \div sector
      align   == ALIGN \div sector
      most    == (sectors - align) \div cluster
      heap    == DivCeil(align + FatSectors(most, sector), align) * align
      fit     == (sectors - heap) \div cluster
      count   == IF fit < MAX_CLUSTERS THEN fit ELSE MAX_CLUSTERS
  IN  IF sectors < align \/ sectors < heap \/ count = 0
         \/ \E n \in {align, FatSectors(count, sector), heap} : n > U32
      THEN {}
      ELSE {[sectorBytes |-> sector, clusterSectors |-> cluster, volumeSectors |-> sectors,
             fatOffset |-> align, fatLength |-> FatSectors(count, sector),
             heapOffset |-> heap, clusterCount |-> count]}

ClusterBytes(g)        == g.clusterSectors * g.sectorBytes
ClustersFor(g, bytes)  == DivCeil(bytes, ClusterBytes(g))
BitmapBytes(g)         == DivCeil(g.clusterCount, 8)
Clusters(g)            == FIRST_CLUSTER .. g.clusterCount + 1

\* The first sector of a cluster, and one past its last.
ClusterSector(g, c)    == g.heapOffset + (c - FIRST_CLUSTER) * g.clusterSectors

\* A mistake: the heap may run past the end of the volume.
FitsItselfLoose(g) ==
  /\ g.fatOffset >= 24
  /\ g.fatOffset + g.fatLength <= g.heapOffset
  /\ g.fatLength * g.sectorBytes >= (g.clusterCount + 2) * 4
  /\ g.clusterCount > 0

\* What the reader asks of a geometry that a boot sector gives: the FAT is
\* behind the boot regions and before the heap, has an entry for each cluster,
\* and the heap ends on the volume.
FitsItself(g) ==
  /\ g.fatOffset >= 24
  /\ g.fatOffset + g.fatLength <= g.heapOffset
  /\ g.fatLength * g.sectorBytes >= (g.clusterCount + 2) * 4
  /\ g.heapOffset + g.clusterCount * g.clusterSectors <= g.volumeSectors
  /\ g.clusterCount > 0

=============================================================================
