----------------------------- MODULE DiscImage -----------------------------
(***************************************************************************)
(* What both file systems of an image share: the image and the check of    *)
(* each read (image.rs), the nodes of a tree (node.rs), and the walk from a *)
(* root down, which both walk.rs do with a call for each directory.        *)
(*                                                                         *)
(* A sector is a descriptor for a reader that takes all of it, and SECTOR  *)
(* units for a reader that takes bytes.  An error of the reader is always  *)
(* Error::Image, so what may fail gives a set: empty where it does.        *)
(***************************************************************************)
EXTENDS Integers, FiniteSets, SequencesExt

CONSTANTS
  SECTOR,    \* units of a sector
  DEEPEST,   \* the deepest directory that a walk goes into
  FIRST,     \* the sector of the first descriptor
  BadNames   \* empty, `.` and `..`, and each name with `/` or that is no text

ASSUME DiscAssumption == SECTOR \in Nat \ {0} /\ {DEEPEST, FIRST} \subseteq Nat

VARIABLES
  image,   \* the image: its length in units, and its sectors
  pc,      \* what prepare and IsoSource::new do
  result,  \* how they ended
  walk     \* the calls of walk_dir, the directories seen, and the nodes found

Fault(why) == pc' = "end" /\ result' = why

\* Image::check and sector.
InImage(at, length) == at + length <= image.length
SectorIn(number)    == InImage(number * SECTOR, SECTOR)

\* read_at, of what is in the image.
Bytes(at, length) ==
  [k \in 1 .. length |-> image.disc[(at + k - 1) \div SECTOR].units[((at + k - 1) % SECTOR) + 1]]

Descriptor(number) == image.disc[number].desc

Sectors(length) == (length + SECTOR - 1) \div SECTOR

Node(path, kind, size, extents) == [path |-> path, kind |-> kind, size |-> size, extents |-> extents]

----------------------------------------------------------------------------
(* The walk.                                                               *)

Top == Last(walk.stack)

\* The frame on top, changed, and a node more.
OnTop(frame) == [walk EXCEPT !.stack = Append(Front(@), frame)]
With(w, nodes) == [w EXCEPT !.nodes = @ \cup nodes]

\* A mistake: only a directory above counts as seen.
EnterTwice(w, key, frames) ==
  IF Len(w.stack) > DEEPEST \/ frames = {} THEN Fault("Image") /\ UNCHANGED walk
  ELSE \E frame \in frames :
         /\ walk' = [w EXCEPT !.seen = @ \cup {key}, !.stack = Append(@, frame)]
         /\ pc' = "walk" /\ UNCHANGED result

\* The start of walk_dir, of the directory at key, whose bytes are in frames if
\* they can be read.
Enter(w, key, frames) ==
  IF Len(w.stack) > DEEPEST \/ key \in w.seen \/ frames = {}
  THEN Fault("Image") /\ UNCHANGED walk
  ELSE \E frame \in frames :
         /\ walk' = [w EXCEPT !.seen = @ \cup {key}, !.stack = Append(@, frame)]
         /\ pc' = "walk" /\ UNCHANGED result

\* The end of walk_dir.
Leave ==
  /\ walk' = [walk EXCEPT !.stack = Front(@)]
  /\ pc' = IF Len(walk.stack) = 1 THEN "built" ELSE "walk"
  /\ UNCHANGED result

=============================================================================
