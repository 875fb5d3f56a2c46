----------------------------- MODULE MCSectorIo -----------------------------
(***************************************************************************)
(* SectorIo on a target of a few sectors.  No action reads reply, so two   *)
(* states that differ only there go the same ways: io is the view, and the *)
(* step that gave the reply is still held against PlainBuffer.             *)
(***************************************************************************)
EXTENDS SectorIo, TLC

CONSTANTS v1, v2

MCValues  == {v1, v2}
AnyValue  == Permutations(MCValues)
StoreView == io

\* A write of whole sectors puts one value in all the cells of a sector.  The
\* writes of pieces bring about every other content.
Blocks == {bytes \in RunData : \A s \in DOMAIN bytes : \A c, d \in Cells : bytes[s][c] = bytes[s][d]}

MCNext ==
  \/ \E bytes \in Blocks : WriteRun(bytes)
  \/ \E s \in Sectors, piece \in PieceData : WritePiece(s, piece)
  \/ \E run \in Runs : ReadRun(run)
  \/ \E s \in Sectors, piece \in Pieces \cup {Cells} : ReadPiece(s, piece)
  \/ Flush
  \/ Drop

MCSpec == Init /\ [][MCNext]_vars
=============================================================================
