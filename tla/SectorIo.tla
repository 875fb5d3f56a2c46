------------------------------ MODULE SectorIo ------------------------------
(***************************************************************************)
(* SectorIo of burnout-core (sector_io.rs): byte access over a target that *)
(* takes whole sectors.  A piece of a sector is changed in a small         *)
(* write-back cache; a run of whole sectors goes round the cache, and may  *)
(* wait to be joined with the run that follows it.                         *)
(*                                                                         *)
(* One action is one turn of the loop in read or in write, with the whole  *)
(* chain of calls that turn makes, or one flush, or one drop.  The loop    *)
(* adds no state of its own: its next turn is a call at the next position  *)
(* with the bytes that are left, and that call is enabled here already.    *)
(*                                                                         *)
(* The target may refuse any access.  A refused write of several sectors   *)
(* leaves some first part of them on the target, as write_all can.         *)
(***************************************************************************)
EXTENDS SectorData

CONSTANTS
  Capacity,      \* how many sectors the cache holds
  MergeSectors   \* MERGE_BYTES, in sectors

ASSUME LimitsAssumption ==
  /\ Capacity \in Nat \ {0}
  /\ MergeSectors \in Nat \ {0}

VARIABLES
  io,     \* the fields of SectorIo: the target, the cache, the waiting run
  reply   \* the outcome of the last call

vars == <<io, reply>>

Slot == [bytes : Content, dirty : BOOLEAN]

\* waiting maps each sector of the waiting run to its bytes: waiting_at is the
\* least sector of its domain, and waiting.len() the size of its domain.
Io == [inner   : [Sectors -> Content],
       cache   : Partial(Sectors, Slot),
       waiting : Partial(Sectors, Content)]

\* The fields hold what their Rust types and the sector size say.
TypeOK == io \in Io /\ reply \in Reply

----------------------------------------------------------------------------
(* The helpers.  Each gives the outcomes that a call in the fields x may   *)
(* have: Ok or Err, with the fields it leaves.                             *)

Done(x)   == [ok |-> TRUE,  io |-> x]
Failed(x) == [ok |-> FALSE, io |-> x]

\* inner.write_all: every sector, or those below some sector and an error.
InnerWrite(x, bytes) ==
  {Done([x EXCEPT !.inner = Over(bytes, @)])} \cup
  {Failed([x EXCEPT !.inner = Over(Without(bytes, m .. NumSectors), @)]) :
     m \in DOMAIN bytes}

SendWaiting(x) ==
  IF DOMAIN x.waiting = {}
  THEN {Done(x)}
  ELSE {IF o.ok THEN Done([o.io EXCEPT !.waiting = Nothing]) ELSE o :
          o \in InnerWrite(x, x.waiting)}

\* A mistake: a read that starts past the first waiting sector misses the run.
SendWaitingUnderItsStart(x, run) ==
  IF \E s \in run \cap DOMAIN x.waiting : s - 1 \notin DOMAIN x.waiting
  THEN SendWaiting(x)
  ELSE {Done(x)}

SendWaitingUnder(x, run) ==
  IF run \cap DOMAIN x.waiting # {} THEN SendWaiting(x) ELSE {Done(x)}

\* A mistake: every run that overlaps nothing joins the waiting run.
FollowsAfterAGap(x, run) ==
  /\ run \cap DOMAIN x.waiting = {}
  /\ DOMAIN x.waiting # {}

\* The run starts at the byte where the waiting run ends.
Follows(x, run) ==
  /\ run \cap DOMAIN x.waiting = {}
  /\ \E s \in run : s - 1 \in DOMAIN x.waiting

\* A long run goes straight through; a short one waits, until enough wait.
Join(x, bytes) ==
  IF Cardinality(DOMAIN bytes) >= MergeSectors
  THEN UNION {IF o.ok THEN InnerWrite(o.io, bytes) ELSE {o} : o \in SendWaiting(x)}
  ELSE LET joined == [x EXCEPT !.waiting = Over(bytes, @)]
       IN  IF Cardinality(DOMAIN joined.waiting) >= MergeSectors
           THEN SendWaiting(joined)
           ELSE {Done(joined)}

SendRun(x, bytes) ==
  UNION {IF o.ok THEN Join(o.io, bytes) ELSE {o} :
           o \in IF Follows(x, DOMAIN bytes) THEN {Done(x)} ELSE SendWaiting(x)}

Dirty(x) == {s \in DOMAIN x.cache : x.cache[s].dirty}

\* A mistake: every slot is marked clean, whichever write failed.
WrittenBackAndForgotten(x, written, marked) ==
  [x EXCEPT
     !.inner = [s \in Sectors |->
                  IF s \in written THEN x.cache[s].bytes ELSE x.inner[s]],
     !.cache = [s \in DOMAIN x.cache |-> [x.cache[s] EXCEPT !.dirty = FALSE]]]

\* write_back has put `written` on the target and marked `marked` clean.
WrittenBack(x, written, marked) ==
  [x EXCEPT
     !.inner = [s \in Sectors |->
                  IF s \in written THEN x.cache[s].bytes ELSE x.inner[s]],
     !.cache = [s \in DOMAIN x.cache |->
                  IF s \in marked THEN [x.cache[s] EXCEPT !.dirty = FALSE] ELSE x.cache[s]]]

\* The dirty sectors go back lowest first, one write for each run of them.
\* A write that fails at sector m of the run that starts at sector f leaves
\* the sectors below m written, and of those the ones below f marked clean.
WriteBack(x) ==
  {Done(WrittenBack(x, Dirty(x), Dirty(x)))} \cup
  {Failed(WrittenBack(x, {s \in Dirty(x) : s < fm[2]}, {s \in Dirty(x) : s < fm[1]})) :
     fm \in {p \in Dirty(x) \X Dirty(x) :
               /\ p[1] - 1 \notin Dirty(x)
               /\ p[1] .. p[2] \subseteq Dirty(x)
               /\ p[1] <= p[2]}}

\* Make room for one more sector: a full cache is written back and emptied.
Evict(x) ==
  IF Cardinality(DOMAIN x.cache) >= Capacity
  THEN {IF o.ok THEN Done([o.io EXCEPT !.cache = Nothing]) ELSE o : o \in WriteBack(x)}
  ELSE {Done(x)}

\* inner.read_exact of one sector into the cache.
Fetch(x, s) ==
  {Failed(x),
   Done([x EXCEPT !.cache = Put(@, s, [bytes |-> x.inner[s], dirty |-> FALSE])])}

Load(x, s) ==
  IF s \in DOMAIN x.cache
  THEN {Done(x)}
  ELSE UNION {IF o.ok
              THEN UNION {IF p.ok THEN Fetch(p.io, s) ELSE {p} :
                            p \in SendWaitingUnder(o.io, {s})}
              ELSE {o} : o \in Evict(x)}

\* A mistake: only the first sector of the run leaves the cache.
UncacheFirst(x, run) == [x EXCEPT !.cache = Without(@, {s \in run : s - 1 \notin run})]

\* A cached copy of a sector of the run is older than what goes out.
Uncache(x, run) == [x EXCEPT !.cache = Without(@, run)]

\* Copy a piece into the cached sector s.
Change(x, s, piece) ==
  [x EXCEPT !.cache = Put(@, s, [bytes |-> Over(piece, @[s].bytes), dirty |-> TRUE])]

----------------------------------------------------------------------------
(* The turns of read and write, flush and drop.                            *)

Init ==
  /\ io \in [inner : [Sectors -> Content], cache : {Nothing}, waiting : {Nothing}]
  /\ reply = Answer("none", TRUE, Nothing)

WriteRun(bytes) ==
  \E o \in SendRun(Uncache(io, DOMAIN bytes), bytes) :
    /\ io' = o.io
    /\ reply' = Answer("write", o.ok, bytes)

WritePiece(s, piece) ==
  \E o \in Load(io, s) :
    /\ io' = IF o.ok THEN Change(o.io, s, piece) ELSE o.io
    /\ reply' = Answer("write", o.ok, [x \in {s} |-> piece])

\* A run of sectors that are not cached comes from the target.
ReadRun(run) ==
  /\ run \cap DOMAIN io.cache = {}
  /\ \E o \in SendWaitingUnder(io, run), ok \in BOOLEAN :
       /\ io' = o.io
       /\ reply' = Answer("read", o.ok /\ ok,
                          IF o.ok /\ ok THEN [s \in run |-> o.io.inner[s]] ELSE Nothing)

\* A piece of a sector, or the whole of a cached one, comes from the cache.
ReadPiece(s, piece) ==
  /\ piece = Cells => s \in DOMAIN io.cache
  /\ \E o \in Load(io, s) :
       /\ io' = o.io
       /\ reply' = Answer("read", o.ok,
                          IF o.ok
                          THEN [i \in {s} |-> [c \in piece |-> o.io.cache[s].bytes[c]]]
                          ELSE Nothing)

\* Also sync: inner.flush or inner.sync may still fail after the writes.
Flush ==
  \E o \in UNION {IF w.ok THEN WriteBack(w.io) ELSE {w} : w \in SendWaiting(io)},
     ok \in BOOLEAN :
    /\ io' = o.io
    /\ reply' = Answer("flush", o.ok /\ ok, Nothing)

\* Drop writes back what it can and reports nothing; with_cache then puts a
\* new SectorIo over the same target.  reply says what drop cannot say.
Drop ==
  \E w \in SendWaiting(io) : \E o \in WriteBack(w.io) :
    /\ io' = [inner |-> o.io.inner, cache |-> Nothing, waiting |-> Nothing]
    /\ reply' = Answer("drop", w.ok /\ o.ok, Nothing)

Next ==
  \/ \E bytes \in RunData : WriteRun(bytes)
  \/ \E s \in Sectors, piece \in PieceData : WritePiece(s, piece)
  \/ \E run \in Runs : ReadRun(run)
  \/ \E s \in Sectors, piece \in Pieces \cup {Cells} : ReadPiece(s, piece)
  \/ Flush
  \/ Drop

Spec == Init /\ [][Next]_vars

----------------------------------------------------------------------------
(* Properties                                                              *)

\* The waiting sectors are one unbroken run, so that send_waiting can put them
\* on the target in one write at waiting_at.
WaitingIsOneRun == DOMAIN io.waiting \in Runs \cup {{}}

\* No sector waits and is cached at once (sector_io.rs says so of `waiting`):
\* otherwise the older of the two would go out over the newer.
NeverInBoth == DOMAIN io.cache \cap DOMAIN io.waiting = {}

\* A cached sector that is not marked as changed equals the target's, also
\* after a write-back that failed half way: eviction drops it unwritten.
CleanSlotsAgree ==
  \A s \in DOMAIN io.cache \ Dirty(io) : io.cache[s].bytes = io.inner[s]

\* What a read would give: the waiting bytes, the cached ones, or the target's.
Seen(x) ==
  [s \in Sectors |-> IF s \in DOMAIN x.waiting THEN x.waiting[s]
                     ELSE IF s \in DOMAIN x.cache THEN x.cache[s].bytes
                     ELSE x.inner[s]]

Buffer == INSTANCE PlainBuffer WITH mem <- Seen(io), target <- io.inner

\* Whatever accesses the target refuses, SectorIo behaves as a plain buffer
\* over the target: a read gives the last bytes written, a flush that returns
\* Ok has put every one of them on the target, a call that fails harms no
\* sector it did not name, and the target only ever gets bytes that were seen.
ImplementsPlainBuffer == Buffer!Spec

=============================================================================
