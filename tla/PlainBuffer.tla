----------------------------- MODULE PlainBuffer -----------------------------
(***************************************************************************)
(* What a caller of SectorIo may rely on, with no word about sectors in a  *)
(* cache or runs that wait: a plain array of bytes (mem) in front of a     *)
(* target (target) that is sometimes behind it.  The tests of              *)
(* sector_io.rs compare SectorIo with a plain buffer in the same way       *)
(* (agrees_with_a_plain_buffer); this module adds what holds when the      *)
(* target refuses an access.                                               *)
(***************************************************************************)
EXTENDS SectorData

VARIABLES
  mem,     \* what a read gives, [Sectors -> Content]
  target,  \* what the target holds, [Sectors -> Content]
  reply    \* the outcome of the last call

vars == <<mem, target, reply>>

\* A sector of the target changes only to what the caller sees there, before
\* or after the call: no byte from nowhere, and none of an older write.
Settles ==
  /\ target' \in [Sectors -> Content]
  /\ \A s \in Sectors : target'[s] \in {target[s], mem[s], mem'[s]}

Init ==
  /\ mem \in [Sectors -> Content]
  /\ target = mem
  /\ reply = Answer("none", TRUE, Nothing)

WriteDone(bytes) ==
  /\ reply' = Answer("write", TRUE, bytes)
  /\ mem' = [s \in Sectors |->
               IF s \in DOMAIN bytes THEN Over(bytes[s], mem[s]) ELSE mem[s]]
  /\ Settles

\* A write that failed leaves each sector it named as it was, as it should
\* have become, or as the target has it, and every other sector alone.
WriteFailed(bytes) ==
  /\ reply' = Answer("write", FALSE, bytes)
  /\ mem' \in [Sectors -> Content]
  /\ \A s \in Sectors :
       mem'[s] \in IF s \in DOMAIN bytes
                   THEN {mem[s], Over(bytes[s], mem[s]), target[s]}
                   ELSE {mem[s]}
  /\ Settles

Write(bytes) == WriteDone(bytes) \/ WriteFailed(bytes)

ReadDone(run, piece) ==
  /\ reply' = Answer("read", TRUE, [s \in run |-> [c \in piece |-> mem[s][c]]])
  /\ mem' = mem
  /\ Settles

ReadFailed ==
  /\ reply' = Answer("read", FALSE, Nothing)
  /\ mem' = mem
  /\ Settles

FlushDone ==
  /\ reply' = Answer("flush", TRUE, Nothing)
  /\ mem' = mem
  /\ target' = mem

\* A flush that failed loses nothing: the caller may try again.
FlushFailed ==
  /\ reply' = Answer("flush", FALSE, Nothing)
  /\ mem' = mem
  /\ Settles

\* The buffer goes, and a new one opens over the same target.
DropDone ==
  /\ reply' = Answer("drop", TRUE, Nothing)
  /\ mem' = mem
  /\ target' = mem

DropFailed ==
  /\ reply' = Answer("drop", FALSE, Nothing)
  /\ mem' \in [Sectors -> Content]
  /\ \A s \in Sectors : mem'[s] \in {target[s], mem[s]}
  /\ target' = mem'

Next ==
  \/ /\ reply'.op = "write"
     /\ \/ \E bytes \in RunData : Write(bytes)
        \/ \E s \in Sectors, bytes \in PieceData : Write([x \in {s} |-> bytes])
  \/ /\ reply'.op = "read"
     /\ \/ \E run \in Runs : ReadDone(run, Cells)
        \/ \E s \in Sectors, piece \in Pieces : ReadDone({s}, piece)
  \/ ReadFailed
  \/ FlushDone
  \/ FlushFailed
  \/ DropDone
  \/ DropFailed

Spec == Init /\ [][Next]_vars

=============================================================================
