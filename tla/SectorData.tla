----------------------------- MODULE SectorData -----------------------------
(***************************************************************************)
(* The bytes of a target that is addressed in sectors, and the words that  *)
(* SectorIo and the promise it keeps (PlainBuffer) share.  A byte is a     *)
(* cell of a sector; its value is opaque.                                  *)
(***************************************************************************)
EXTENDS Integers, FiniteSets

CONSTANTS
  NumSectors,   \* the length of the target, in sectors
  SectorBytes,  \* the bytes of one sector
  Values        \* what one byte can hold

ASSUME SizesAssumption ==
  /\ NumSectors \in Nat \ {0}
  /\ SectorBytes \in Nat \ {0}
  /\ Values # {}

Sectors == 0 .. NumSectors - 1
Cells   == 0 .. SectorBytes - 1
Content == [Cells -> Values]

\* Runs of whole sectors, and the proper pieces of one sector.  One turn of
\* the loops in SectorIo::read and SectorIo::write covers one of the two.
Runs   == {a .. b : a, b \in Sectors} \ {{}}
Pieces == {a .. b : a, b \in Cells} \ {{}, Cells}

\* The bytes of one turn of a write: of whole sectors, or of one piece.
RunData   == UNION {[run -> Content] : run \in Runs}
PieceData == UNION {[piece -> Values] : piece \in Pieces}

\* The functions from some part of S into T; the one with an empty domain.
Partial(S, T) == UNION {[D -> T] : D \in SUBSET S}
Nothing       == [x \in {} |-> x]

\* f where it is defined, and g elsewhere.
Over(f, g) ==
  [x \in DOMAIN f \cup DOMAIN g |-> IF x \in DOMAIN f THEN f[x] ELSE g[x]]

\* f with x added, or its value changed, to v.
Put(f, x, v) == [y \in DOMAIN f \cup {x} |-> IF y = x THEN v ELSE f[y]]

Without(f, S) == [x \in DOMAIN f \ S |-> f[x]]

\* A call and what it gave back: its kind, Ok or Err, and the bytes that it
\* was to write or that it read, by sector and cell.
Answer(op, ok, bytes) == [op |-> op, ok |-> ok, bytes |-> bytes]

Reply == [op    : {"none", "write", "read", "flush", "drop"},
          ok    : BOOLEAN,
          bytes : Partial(Sectors, Partial(Cells, Values))]

=============================================================================
