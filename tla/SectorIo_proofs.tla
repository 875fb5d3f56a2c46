--------------------------- MODULE SectorIo_proofs ---------------------------
(***************************************************************************)
(* SectorIo keeps its invariants and implements PlainBuffer, for every     *)
(* size of the target, of a sector, of the cache and of the merged write.  *)
(*                                                                         *)
(* The argument goes helper by helper, as the code is built.  A helper     *)
(* that is given sound fields leaves sound fields and shows the caller the *)
(* same bytes (Keeps); only Change, Join and Uncache show other bytes.     *)
(***************************************************************************)
EXTENDS SectorIo, TLAPS

\* The fields are of their types, no sector is in two places that may
\* disagree, and a slot that is not dirty can be dropped.
Sound(x) ==
  /\ x \in Io
  /\ DOMAIN x.cache \cap DOMAIN x.waiting = {}
  /\ \A s \in DOMAIN x.cache : ~x.cache[s].dirty => x.cache[s].bytes = x.inner[s]

\* From x to y the caller sees the same bytes, and the target takes only them.
Keeps(x, y) ==
  /\ Sound(y)
  /\ Seen(y) = Seen(x)
  /\ \A s \in Sectors : y.inner[s] \in {x.inner[s], Seen(x)[s]}

IInv == Sound(io) /\ reply \in Reply

----------------------------------------------------------------------------
(* Partial functions and records of the fields.                            *)

\* A partial function is a function from its own domain.
LEMMA PartialFun ==
  ASSUME NEW S, NEW T, NEW f
  PROVE  f \in Partial(S, T) <=> f \in [DOMAIN f -> T] /\ DOMAIN f \subseteq S
  BY DEF Partial

\* The empty function is a partial function of every type.
LEMMA NothingPartial ==
  ASSUME NEW S, NEW T
  PROVE  /\ Nothing \in Partial(S, T)
         /\ DOMAIN Nothing = {}
  BY DEF Partial, Nothing

\* Over a total function, a partial one gives a total one.
LEMMA OverTotal ==
  ASSUME NEW S, NEW T, NEW f \in Partial(S, T), NEW g \in [S -> T]
  PROVE  /\ Over(f, g) \in [S -> T]
         /\ \A s \in S : Over(f, g)[s] = IF s \in DOMAIN f THEN f[s] ELSE g[s]
  BY PartialFun DEF Over

\* Over a partial function, a partial one gives the union of the two.
LEMMA OverPartial ==
  ASSUME NEW S, NEW T, NEW f \in Partial(S, T), NEW g \in Partial(S, T)
  PROVE  /\ Over(f, g) \in Partial(S, T)
         /\ DOMAIN Over(f, g) = DOMAIN f \cup DOMAIN g
         /\ \A s \in DOMAIN f \cup DOMAIN g :
              Over(f, g)[s] = IF s \in DOMAIN f THEN f[s] ELSE g[s]
<1>1. /\ f \in [DOMAIN f -> T] /\ DOMAIN f \subseteq S
      /\ g \in [DOMAIN g -> T] /\ DOMAIN g \subseteq S
  BY PartialFun
<1>2. /\ Over(f, g) \in [DOMAIN f \cup DOMAIN g -> T]
      /\ DOMAIN Over(f, g) = DOMAIN f \cup DOMAIN g
  BY <1>1 DEF Over
<1>3. Over(f, g) \in Partial(S, T)
  BY <1>1, <1>2, PartialFun
<1> QED
  BY <1>2, <1>3 DEF Over

\* A partial function with one more value.
LEMMA PutPartial ==
  ASSUME NEW S, NEW T, NEW f \in Partial(S, T), NEW s \in S, NEW v \in T
  PROVE  Put(f, s, v) \in Partial(S, T)
<1>1. f \in [DOMAIN f -> T] /\ DOMAIN f \subseteq S
  BY PartialFun
<1>2. /\ Put(f, s, v) \in [DOMAIN f \cup {s} -> T]
      /\ DOMAIN Put(f, s, v) = DOMAIN f \cup {s}
  BY <1>1 DEF Put
<1> QED
  BY <1>1, <1>2, PartialFun

\* A restriction of a partial function is one.
LEMMA WithoutPartial ==
  ASSUME NEW S, NEW T, NEW f \in Partial(S, T), NEW R \in SUBSET Int
  PROVE  /\ Without(f, R) \in Partial(S, T)
         /\ DOMAIN Without(f, R) = DOMAIN f \ R
         /\ \A s \in DOMAIN f \ R : Without(f, R)[s] = f[s]
<1>1. f \in [DOMAIN f -> T] /\ DOMAIN f \subseteq S
  BY PartialFun
<1>2. /\ Without(f, R) \in [DOMAIN f \ R -> T]
      /\ DOMAIN Without(f, R) = DOMAIN f \ R
  BY <1>1 DEF Without
<1>3. Without(f, R) \in Partial(S, T)
  BY <1>1, <1>2, PartialFun
<1> QED
  BY <1>2, <1>3 DEF Without

\* What the caller sees is a content for every sector.
LEMMA SeenType ==
  ASSUME NEW x \in Io
  PROVE  /\ Seen(x) \in [Sectors -> Content]
         /\ \A s \in Sectors :
              Seen(x)[s] = IF s \in DOMAIN x.waiting THEN x.waiting[s]
                           ELSE IF s \in DOMAIN x.cache THEN x.cache[s].bytes
                           ELSE x.inner[s]
<1>1. /\ x.waiting \in [DOMAIN x.waiting -> Content]
      /\ x.cache \in [DOMAIN x.cache -> Slot]
      /\ x.inner \in [Sectors -> Content]
  BY PartialFun DEF Io
<1> QED
  BY <1>1 DEF Seen, Slot

\* Fields that keep what is seen over two calls keep it over both.
LEMMA KeepsTransitive ==
  ASSUME NEW x, NEW y, NEW z, Keeps(x, y), Keeps(y, z)
  PROVE  Keeps(x, z)
  BY DEF Keeps

\* A call that changes no field keeps what is seen.
LEMMA KeepsReflexive ==
  ASSUME NEW x, Sound(x)
  PROVE  Keeps(x, x)
  BY DEF Keeps

----------------------------------------------------------------------------
(* The helpers that only move bytes: each of them Keeps what is seen.      *)

\* A write to the target changes the target alone: each sector it names to its
\* new bytes, all of them when it returns Ok.
LEMMA InnerWriteOutcome ==
  ASSUME NEW x \in Io, NEW bytes \in Partial(Sectors, Content),
         NEW o \in InnerWrite(x, bytes)
  PROVE  /\ o.ok \in BOOLEAN
         /\ o.io \in Io
         /\ o.io.cache = x.cache
         /\ o.io.waiting = x.waiting
         /\ \A s \in Sectors :
              o.io.inner[s] = x.inner[s] \/ (s \in DOMAIN bytes /\ o.io.inner[s] = bytes[s])
         /\ o.ok => \A s \in DOMAIN bytes : o.io.inner[s] = bytes[s]
<1>1. x.inner \in [Sectors -> Content]
  BY DEF Io
<1>2. CASE o = Done([x EXCEPT !.inner = Over(bytes, @)])
  <2>1. /\ Over(bytes, x.inner) \in [Sectors -> Content]
        /\ \A s \in Sectors :
             Over(bytes, x.inner)[s] = IF s \in DOMAIN bytes THEN bytes[s] ELSE x.inner[s]
    BY <1>1, OverTotal
  <2>2. DOMAIN bytes \subseteq Sectors
    BY PartialFun
  <2> QED
    BY <1>2, <2>1, <2>2 DEF Done, Io
<1>3. CASE \E m \in DOMAIN bytes :
             o = Failed([x EXCEPT !.inner = Over(Without(bytes, m .. NumSectors), @)])
  <2>1. PICK m \in DOMAIN bytes :
          o = Failed([x EXCEPT !.inner = Over(Without(bytes, m .. NumSectors), @)])
    BY <1>3
  <2> DEFINE unwritten == m .. NumSectors
             w == Without(bytes, unwritten)
  <2> unwritten \in SUBSET Int
    BY PartialFun DEF Sectors
  <2> HIDE DEF unwritten
  <2>2. /\ w \in Partial(Sectors, Content)
        /\ DOMAIN w = DOMAIN bytes \ unwritten
        /\ \A s \in DOMAIN bytes \ unwritten : w[s] = bytes[s]
    BY WithoutPartial
  <2> HIDE DEF w
  <2>3. /\ Over(w, x.inner) \in [Sectors -> Content]
        /\ \A s \in Sectors :
             Over(w, x.inner)[s] = IF s \in DOMAIN w THEN w[s] ELSE x.inner[s]
    BY <1>1, <2>2, OverTotal
  <2>4. o = Failed([x EXCEPT !.inner = Over(w, @)])
    BY <2>1 DEF w, unwritten
  <2> QED
    BY <2>2, <2>3, <2>4 DEF Failed, Io
<1> QED
  BY <1>2, <1>3 DEF InnerWrite

\* Sending the waiting run, or failing to, Keeps; sent, nothing waits.
LEMMA SendWaitingKeeps ==
  ASSUME NEW x, Sound(x), NEW o \in SendWaiting(x)
  PROVE  /\ o.ok \in BOOLEAN
         /\ Keeps(x, o.io)
         /\ o.io.cache = x.cache
         /\ o.io.waiting \in {x.waiting, Nothing}
         /\ o.ok => DOMAIN o.io.waiting = {}
<1>1. x \in Io /\ x.waiting \in Partial(Sectors, Content)
  BY DEF Sound, Io
<1>2. CASE DOMAIN x.waiting = {}
  <2>1. o = Done(x)
    BY <1>2 DEF SendWaiting
  <2> QED
    BY <1>2, <2>1, KeepsReflexive DEF Done
<1>3. CASE DOMAIN x.waiting # {}
  <2>1. PICK w \in InnerWrite(x, x.waiting) :
          o = IF w.ok THEN Done([w.io EXCEPT !.waiting = Nothing]) ELSE w
    BY <1>3 DEF SendWaiting
  <2>2. /\ w.ok \in BOOLEAN
        /\ w.io \in Io
        /\ w.io.cache = x.cache
        /\ w.io.waiting = x.waiting
        /\ \A s \in Sectors :
             w.io.inner[s] = x.inner[s] \/ (s \in DOMAIN x.waiting /\ w.io.inner[s] = x.waiting[s])
        /\ w.ok => \A s \in DOMAIN x.waiting : w.io.inner[s] = x.waiting[s]
    BY <1>1, InnerWriteOutcome
  <2>3. /\ o.ok = w.ok
        /\ o.io.cache = x.cache
        /\ o.io.inner = w.io.inner
        /\ o.io.waiting = IF w.ok THEN Nothing ELSE x.waiting
        /\ o.io \in Io
    BY <2>1, <2>2, NothingPartial DEF Done, Io
  <2>4. DOMAIN x.cache \subseteq Sectors
    BY <1>1, PartialFun DEF Io
  <2>5. Sound(o.io)
    BY <2>2, <2>3, <2>4, NothingPartial DEF Sound
  <2>6. \A s \in Sectors : Seen(o.io)[s] = Seen(x)[s]
    BY <1>1, <2>2, <2>3, SeenType, NothingPartial DEF Sound
  <2>7. Seen(o.io) = Seen(x)
    BY <1>1, <2>3, <2>6, SeenType
  <2>8. \A s \in Sectors : o.io.inner[s] \in {x.inner[s], Seen(x)[s]}
    BY <1>1, <2>2, <2>3, SeenType
  <2> QED
    BY <2>2, <2>3, <2>5, <2>7, <2>8, NothingPartial DEF Keeps
<1> QED
  BY <1>2, <1>3

\* Before a read of some sectors, the waiting run is sent if it holds any.
LEMMA SendWaitingUnderKeeps ==
  ASSUME NEW x, Sound(x), NEW run, NEW o \in SendWaitingUnder(x, run)
  PROVE  /\ o.ok \in BOOLEAN
         /\ Keeps(x, o.io)
         /\ o.io.cache = x.cache
         /\ o.ok => run \cap DOMAIN o.io.waiting = {}
<1>1. CASE run \cap DOMAIN x.waiting = {}
  <2>1. o = Done(x)
    BY <1>1 DEF SendWaitingUnder
  <2> QED
    BY <1>1, <2>1, KeepsReflexive DEF Done
<1>2. CASE run \cap DOMAIN x.waiting # {}
  BY <1>2, SendWaitingKeeps DEF SendWaitingUnder
<1> QED
  BY <1>1, <1>2

\* A write-back that marks no more than it wrote Keeps.
LEMMA WrittenBackKeeps ==
  ASSUME NEW x, Sound(x),
         NEW written \in SUBSET Dirty(x), NEW marked \in SUBSET written
  PROVE  /\ Keeps(x, WrittenBack(x, written, marked))
         /\ WrittenBack(x, written, marked).waiting = x.waiting
         /\ DOMAIN WrittenBack(x, written, marked).cache = DOMAIN x.cache
         /\ \A s \in DOMAIN x.cache :
              s \in marked \/ ~x.cache[s].dirty => ~WrittenBack(x, written, marked).cache[s].dirty
<1> DEFINE y == WrittenBack(x, written, marked)
<1>1. /\ x \in Io
      /\ x.inner \in [Sectors -> Content]
      /\ x.cache \in [DOMAIN x.cache -> Slot]
      /\ DOMAIN x.cache \subseteq Sectors
  BY PartialFun DEF Sound, Io
<1>2. /\ y.waiting = x.waiting
      /\ y.inner = [s \in Sectors |-> IF s \in written THEN x.cache[s].bytes ELSE x.inner[s]]
      /\ y.cache = [s \in DOMAIN x.cache |->
                      IF s \in marked THEN [x.cache[s] EXCEPT !.dirty = FALSE] ELSE x.cache[s]]
      /\ y.inner \in [Sectors -> Content] /\ y.cache \in Partial(Sectors, Slot) => y \in Io
  BY <1>1 DEF WrittenBack, Io
<1> HIDE DEF y
<1>3. \A s \in DOMAIN x.cache :
        /\ x.cache[s].bytes \in Content
        /\ [x.cache[s] EXCEPT !.dirty = FALSE] \in Slot
        /\ [x.cache[s] EXCEPT !.dirty = FALSE].bytes = x.cache[s].bytes
        /\ ~[x.cache[s] EXCEPT !.dirty = FALSE].dirty
  BY <1>1 DEF Slot
<1>4. written \subseteq DOMAIN x.cache
  BY DEF Dirty
<1>5. y.inner \in [Sectors -> Content]
  <2>1. \A s \in Sectors : (IF s \in written THEN x.cache[s].bytes ELSE x.inner[s]) \in Content
    BY <1>1, <1>3, <1>4
  <2> QED
    BY <1>2, <2>1
<1>6. /\ y.cache \in [DOMAIN x.cache -> Slot]
      /\ DOMAIN y.cache = DOMAIN x.cache
      /\ \A s \in DOMAIN x.cache : y.cache[s].bytes = x.cache[s].bytes
      /\ \A s \in marked : ~y.cache[s].dirty
      /\ \A s \in DOMAIN x.cache \ marked : y.cache[s] = x.cache[s]
  <2>1. \A s \in DOMAIN x.cache : y.cache[s] =
          IF s \in marked THEN [x.cache[s] EXCEPT !.dirty = FALSE] ELSE x.cache[s]
    BY <1>2
  <2>2. y.cache \in [DOMAIN x.cache -> Slot]
    <3>1. \A s \in DOMAIN x.cache : y.cache[s] \in Slot
      BY <1>1, <1>3, <2>1
    <3>2. y.cache = [s \in DOMAIN x.cache |-> y.cache[s]]
      BY <1>2
    <3> QED
      BY <3>1, <3>2
  <2> QED
    BY <1>3, <1>4, <2>1, <2>2
<1>7. y \in Io
  <2>1. y.cache \in Partial(Sectors, Slot)
    BY <1>1, <1>6, PartialFun
  <2> QED
    BY <1>1, <1>2, <1>5, <2>1 DEF Io
<1>8. Sound(y)
  <2>1. \A s \in DOMAIN y.cache : ~y.cache[s].dirty => y.cache[s].bytes = y.inner[s]
    BY <1>1, <1>2, <1>6 DEF Sound
  <2> QED
    BY <1>2, <1>6, <1>7, <2>1 DEF Sound
<1>9. \A s \in Sectors : Seen(y)[s] = Seen(x)[s]
  <2>1. \A s \in written : y.inner[s] = x.cache[s].bytes
    BY <1>1, <1>2, <1>4
  <2>2. \A s \in Sectors \ DOMAIN x.cache : y.inner[s] = x.inner[s]
    BY <1>1, <1>2, <1>4
  <2>3. \A s \in Sectors : Seen(y)[s] = IF s \in DOMAIN x.waiting THEN x.waiting[s]
                                       ELSE IF s \in DOMAIN x.cache THEN x.cache[s].bytes
                                       ELSE x.inner[s]
    BY <1>2, <1>6, <1>7, <2>2, SeenType
  <2> QED
    BY <1>1, <2>3, SeenType
<1>10. Seen(y) = Seen(x)
  BY <1>1, <1>7, <1>9, SeenType
<1>11. \A s \in Sectors : y.inner[s] \in {x.inner[s], Seen(x)[s]}
  BY <1>1, <1>2, <1>4, SeenType DEF Sound
<1> QED
  BY <1>2, <1>6, <1>8, <1>10, <1>11 DEF Keeps, y

\* write_back Keeps, and an Ok leaves no slot dirty.
LEMMA WriteBackKeeps ==
  ASSUME NEW x, Sound(x), NEW o \in WriteBack(x)
  PROVE  /\ o.ok \in BOOLEAN
         /\ Keeps(x, o.io)
         /\ o.io.waiting = x.waiting
         /\ DOMAIN o.io.cache = DOMAIN x.cache
         /\ o.ok => \A s \in DOMAIN o.io.cache : ~o.io.cache[s].dirty
<1>1. CASE o = Done(WrittenBack(x, Dirty(x), Dirty(x)))
  <2> DEFINE y == WrittenBack(x, Dirty(x), Dirty(x))
  <2>1. \A s \in DOMAIN x.cache : s \in Dirty(x) \/ ~x.cache[s].dirty
    BY DEF Dirty
  <2>2. /\ Keeps(x, y)
        /\ y.waiting = x.waiting
        /\ DOMAIN y.cache = DOMAIN x.cache
        /\ \A s \in DOMAIN x.cache : ~y.cache[s].dirty
    BY <2>1, WrittenBackKeeps
  <2> HIDE DEF y
  <2>3. o = Done(y)
    BY <1>1 DEF y
  <2> QED
    BY <2>2, <2>3 DEF Done
<1>2. CASE \E fm \in Dirty(x) \X Dirty(x) :
             /\ fm[1] <= fm[2]
             /\ o = Failed(WrittenBack(x, {s \in Dirty(x) : s < fm[2]}, {s \in Dirty(x) : s < fm[1]}))
  <2>1. PICK fm \in Dirty(x) \X Dirty(x) :
             /\ fm[1] <= fm[2]
             /\ o = Failed(WrittenBack(x, {s \in Dirty(x) : s < fm[2]}, {s \in Dirty(x) : s < fm[1]}))
    BY <1>2
  <2> DEFINE written == {s \in Dirty(x) : s < fm[2]}
             marked  == {s \in Dirty(x) : s < fm[1]}
  <2>2. Dirty(x) \subseteq Int
    <3>1. DOMAIN x.cache \subseteq Sectors
      BY PartialFun DEF Sound, Io
    <3> QED
      BY <3>1 DEF Dirty, Sectors
  <2>3. written \in SUBSET Dirty(x) /\ marked \in SUBSET written
    BY <2>1, <2>2
  <2>4. o = Failed(WrittenBack(x, written, marked))
    BY <2>1
  <2> HIDE DEF written, marked
  <2> QED
    BY <2>3, <2>4, WrittenBackKeeps DEF Failed
<1> QED
  BY <1>1, <1>2 DEF WriteBack

\* Emptying a full cache Keeps: nothing in it differs from the target by then.
LEMMA EvictKeeps ==
  ASSUME NEW x, Sound(x), NEW o \in Evict(x)
  PROVE  /\ o.ok \in BOOLEAN
         /\ Keeps(x, o.io)
         /\ DOMAIN o.io.cache \subseteq DOMAIN x.cache
<1>1. CASE o = Done(x)
  BY <1>1, KeepsReflexive DEF Done
<1>2. CASE \E w \in WriteBack(x) :
             o = IF w.ok THEN Done([w.io EXCEPT !.cache = Nothing]) ELSE w
  <2>1. PICK w \in WriteBack(x) :
          o = IF w.ok THEN Done([w.io EXCEPT !.cache = Nothing]) ELSE w
    BY <1>2
  <2>2. /\ w.ok \in BOOLEAN
        /\ Keeps(x, w.io)
        /\ DOMAIN w.io.cache = DOMAIN x.cache
        /\ w.ok => \A s \in DOMAIN w.io.cache : ~w.io.cache[s].dirty
    BY WriteBackKeeps
  <2>3. CASE ~w.ok
    BY <2>1, <2>2, <2>3
  <2>4. CASE w.ok
    <3> DEFINE y == [w.io EXCEPT !.cache = Nothing]
    <3>1. w.io \in Io
      BY <2>2 DEF Keeps, Sound
    <3>2. /\ y \in Io
          /\ y.inner = w.io.inner
          /\ y.waiting = w.io.waiting
          /\ y.cache = Nothing
      BY <3>1, NothingPartial DEF Io
    <3>3. o = Done(y)
      BY <2>1, <2>4
    <3> HIDE DEF y
    <3>4. Sound(y)
      BY <3>2, NothingPartial DEF Sound
    <3>5. \A s \in Sectors : Seen(y)[s] = Seen(w.io)[s]
      <4>1. \A s \in DOMAIN w.io.cache : w.io.cache[s].bytes = w.io.inner[s]
        BY <2>2, <2>4 DEF Keeps, Sound
      <4>2. \A s \in Sectors : Seen(y)[s] = IF s \in DOMAIN w.io.waiting
                                           THEN w.io.waiting[s] ELSE w.io.inner[s]
        BY <3>2, SeenType, NothingPartial
      <4> QED
        BY <3>1, <4>1, <4>2, SeenType
    <3>6. Seen(y) = Seen(w.io)
      BY <3>1, <3>2, <3>5, SeenType
    <3> QED
      BY <2>2, <3>2, <3>3, <3>4, <3>6, NothingPartial DEF Keeps, Done
  <2> QED
    BY <2>2, <2>3, <2>4
<1> QED
  BY <1>1, <1>2 DEF Evict

\* A fetched sector is clean and shows the bytes that were seen before, if no
\* newer ones wait.
LEMMA FetchKeeps ==
  ASSUME NEW x, Sound(x), NEW s \in Sectors,
         s \notin DOMAIN x.waiting, s \notin DOMAIN x.cache,
         NEW o \in Fetch(x, s)
  PROVE  /\ o.ok \in BOOLEAN
         /\ Keeps(x, o.io)
         /\ o.ok => s \in DOMAIN o.io.cache
<1>1. CASE o = Failed(x)
  BY <1>1, KeepsReflexive DEF Failed
<1>2. CASE o = Done([x EXCEPT !.cache = Put(@, s, [bytes |-> x.inner[s], dirty |-> FALSE])])
  <2> DEFINE slot == [bytes |-> x.inner[s], dirty |-> FALSE]
             cache == Put(x.cache, s, slot)
             y == [x EXCEPT !.cache = cache]
  <2>1. /\ x \in Io
        /\ x.inner \in [Sectors -> Content]
        /\ x.cache \in Partial(Sectors, Slot)
    BY DEF Sound, Io
  <2>2. /\ slot \in Slot
        /\ slot.bytes = x.inner[s]
        /\ ~slot.dirty
    BY <2>1 DEF Slot
  <2> HIDE DEF slot
  <2>3. /\ cache \in Partial(Sectors, Slot)
        /\ DOMAIN cache = {s} \cup DOMAIN x.cache
        /\ cache[s] = slot
        /\ \A i \in DOMAIN x.cache : cache[i] = x.cache[i]
    <3>1. cache \in Partial(Sectors, Slot)
      BY <2>1, <2>2, PutPartial
    <3>2. /\ DOMAIN cache = {s} \cup DOMAIN x.cache
          /\ cache[s] = slot
      BY DEF Put
    <3>3. \A i \in DOMAIN x.cache : cache[i] = x.cache[i]
      BY DEF Put
    <3> QED
      BY <3>1, <3>2, <3>3
  <2>4. o = Done(y)
    BY <1>2 DEF slot
  <2> HIDE DEF cache
  <2>5. /\ y \in Io
        /\ y.inner = x.inner
        /\ y.waiting = x.waiting
        /\ y.cache = cache
    BY <2>1, <2>3 DEF Io
  <2> HIDE DEF y
  <2>6. Sound(y)
    BY <2>2, <2>3, <2>5 DEF Sound
  <2>7. \A i \in Sectors : Seen(y)[i] = Seen(x)[i]
    BY <2>1, <2>2, <2>3, <2>5, SeenType
  <2>8. Seen(y) = Seen(x)
    BY <2>1, <2>5, <2>7, SeenType
  <2> QED
    BY <2>3, <2>4, <2>5, <2>6, <2>8 DEF Keeps, Done
<1> QED
  BY <1>1, <1>2 DEF Fetch

\* load Keeps, and an Ok leaves the sector in the cache.
LEMMA LoadKeeps ==
  ASSUME NEW x, Sound(x), NEW s \in Sectors, NEW o \in Load(x, s)
  PROVE  /\ o.ok \in BOOLEAN
         /\ Keeps(x, o.io)
         /\ o.ok => s \in DOMAIN o.io.cache
<1>1. CASE s \in DOMAIN x.cache
  <2>1. o = Done(x)
    BY <1>1 DEF Load
  <2> QED
    BY <1>1, <2>1, KeepsReflexive DEF Done
<1>2. CASE s \notin DOMAIN x.cache
  <2>1. PICK e \in Evict(x) :
          o \in IF e.ok
                THEN UNION {IF p.ok THEN Fetch(p.io, s) ELSE {p} :
                              p \in SendWaitingUnder(e.io, {s})}
                ELSE {e}
    BY <1>2 DEF Load
  <2>2. e.ok \in BOOLEAN /\ Keeps(x, e.io) /\ DOMAIN e.io.cache \subseteq DOMAIN x.cache
    BY EvictKeeps
  <2>3. CASE ~e.ok
    BY <2>1, <2>2, <2>3
  <2>4. CASE e.ok
    <3>1. PICK p \in SendWaitingUnder(e.io, {s}) :
            o \in IF p.ok THEN Fetch(p.io, s) ELSE {p}
      BY <2>1, <2>4
    <3>2. /\ p.ok \in BOOLEAN
          /\ Keeps(e.io, p.io)
          /\ p.io.cache = e.io.cache
          /\ p.ok => s \notin DOMAIN p.io.waiting
      BY <2>2, SendWaitingUnderKeeps DEF Keeps
    <3>3. Keeps(x, p.io)
      BY <2>2, <3>2, KeepsTransitive
    <3>4. CASE ~p.ok
      BY <3>1, <3>2, <3>3, <3>4
    <3>5. CASE p.ok
      <4>1. s \notin DOMAIN p.io.cache
        BY <1>2, <2>2, <3>2
      <4>2. /\ o.ok \in BOOLEAN
            /\ Keeps(p.io, o.io)
            /\ o.ok => s \in DOMAIN o.io.cache
        BY <3>1, <3>2, <3>5, <4>1, FetchKeeps DEF Keeps
      <4> QED
        BY <3>3, <4>2, KeepsTransitive
    <3> QED
      BY <3>2, <3>4, <3>5
  <2> QED
    BY <2>2, <2>3, <2>4
<1> QED
  BY <1>1, <1>2

----------------------------------------------------------------------------
(* The helpers that change what is seen.                                   *)

\* The bytes of a run are a partial function of the sectors.
LEMMA RunDataType ==
  ASSUME NEW bytes \in RunData
  PROVE  /\ bytes \in Partial(Sectors, Content)
         /\ DOMAIN bytes \in Runs
         /\ DOMAIN bytes \subseteq Sectors
         /\ bytes \in [DOMAIN bytes -> Content]
<1>1. PICK run \in Runs : bytes \in [run -> Content]
  BY DEF RunData
<1>2. run \subseteq Sectors
  <2>1. PICK a \in Sectors, b \in Sectors : run = a .. b
    BY DEF Runs
  <2> QED
    BY <2>1, SizesAssumption DEF Sectors
<1> QED
  BY <1>1, <1>2, PartialFun

\* The bytes of a piece over a content give a content.
LEMMA PieceDataType ==
  ASSUME NEW piece \in PieceData, NEW c \in Content
  PROVE  /\ DOMAIN piece \subseteq Cells
         /\ DOMAIN piece \in Pieces
         /\ piece \in Partial(Cells, Values)
         /\ Over(piece, c) \in Content
<1>1. PICK cells \in Pieces : piece \in [cells -> Values]
  BY DEF PieceData
<1>2. cells \subseteq Cells
  <2>1. PICK a \in Cells, b \in Cells : cells = a .. b
    BY DEF Pieces
  <2> QED
    BY <2>1, SizesAssumption DEF Cells
<1>3. piece \in Partial(Cells, Values)
  BY <1>1, <1>2, PartialFun
<1>4. Over(piece, c) \in [Cells -> Values]
  BY <1>3, OverTotal DEF Content
<1> QED
  BY <1>1, <1>2, <1>3, <1>4 DEF Content

\* A piece copied into a cached sector shows there and nowhere else.
LEMMA ChangeSees ==
  ASSUME NEW x, Sound(x), NEW s \in DOMAIN x.cache, NEW piece \in PieceData
  PROVE  /\ Sound(Change(x, s, piece))
         /\ Change(x, s, piece).inner = x.inner
         /\ \A i \in Sectors : Seen(Change(x, s, piece))[i] =
               IF i = s THEN Over(piece, Seen(x)[i]) ELSE Seen(x)[i]
<1> DEFINE slot == [bytes |-> Over(piece, x.cache[s].bytes), dirty |-> TRUE]
           cache == Put(x.cache, s, slot)
           y == Change(x, s, piece)
<1>1. /\ x \in Io
      /\ x.cache \in Partial(Sectors, Slot)
      /\ x.cache \in [DOMAIN x.cache -> Slot]
      /\ DOMAIN x.cache \subseteq Sectors
      /\ s \notin DOMAIN x.waiting
  BY PartialFun DEF Sound, Io
<1>2. x.cache[s].bytes \in Content
  BY <1>1 DEF Slot
<1>3. /\ slot \in Slot
      /\ slot.bytes = Over(piece, x.cache[s].bytes)
      /\ slot.dirty
  BY <1>2, PieceDataType DEF Slot
<1> HIDE DEF slot
<1>4. cache \in Partial(Sectors, Slot)
  BY <1>1, <1>3, PutPartial
<1>5. /\ DOMAIN cache = DOMAIN x.cache
      /\ cache[s] = slot
      /\ \A i \in DOMAIN x.cache : i # s => cache[i] = x.cache[i]
  BY DEF Put
<1>6. y = [x EXCEPT !.cache = cache]
  BY DEF Change, slot
<1> HIDE DEF cache, y
<1>7. /\ y \in Io
      /\ y.inner = x.inner
      /\ y.waiting = x.waiting
      /\ y.cache = cache
  BY <1>1, <1>4, <1>6 DEF Io
<1>8. Sound(y)
  BY <1>3, <1>5, <1>7 DEF Sound
<1>9. \A i \in Sectors : Seen(y)[i] = IF i = s THEN Over(piece, Seen(x)[i]) ELSE Seen(x)[i]
  BY <1>1, <1>3, <1>5, <1>7, SeenType
<1> QED
  BY <1>7, <1>8, <1>9 DEF y

\* A sector that leaves the cache unwritten shows the target's bytes.
LEMMA UncacheSees ==
  ASSUME NEW x, Sound(x), NEW run \in SUBSET Int
  PROVE  /\ Sound(Uncache(x, run))
         /\ Uncache(x, run).inner = x.inner
         /\ run \cap DOMAIN Uncache(x, run).cache = {}
         /\ \A i \in Sectors : Seen(Uncache(x, run))[i] =
               IF i \in run \ DOMAIN x.waiting THEN x.inner[i] ELSE Seen(x)[i]
<1> DEFINE cache == Without(x.cache, run)
           y == Uncache(x, run)
<1>1. x \in Io /\ x.cache \in Partial(Sectors, Slot)
  BY DEF Sound, Io
<1>2. cache \in Partial(Sectors, Slot)
  BY <1>1, WithoutPartial
<1>3. /\ DOMAIN cache = DOMAIN x.cache \ run
      /\ \A i \in DOMAIN cache : cache[i] = x.cache[i]
  BY DEF Without
<1>4. y = [x EXCEPT !.cache = cache]
  BY DEF Uncache
<1> HIDE DEF cache, y
<1>5. /\ y \in Io
      /\ y.inner = x.inner
      /\ y.waiting = x.waiting
      /\ y.cache = cache
  BY <1>1, <1>2, <1>4 DEF Io
<1>6. Sound(y)
  BY <1>3, <1>5 DEF Sound
<1>7. \A i \in Sectors : Seen(y)[i] =
        IF i \in run \ DOMAIN x.waiting THEN x.inner[i] ELSE Seen(x)[i]
  BY <1>1, <1>3, <1>5, SeenType
<1> QED
  BY <1>3, <1>5, <1>6, <1>7 DEF y

\* From x to y the caller sees the bytes of a run, or of none or some of its
\* sectors when the call failed, and the target takes only what is seen.
Takes(x, y, bytes, ok) ==
  /\ Sound(y)
  /\ \A s \in Sectors \ DOMAIN bytes : Seen(y)[s] = Seen(x)[s]
  /\ \A s \in DOMAIN bytes : Seen(y)[s] = bytes[s] \/ (~ok /\ Seen(y)[s] = Seen(x)[s])
  /\ \A s \in Sectors : y.inner[s] \in {x.inner[s], Seen(x)[s], Seen(y)[s]}

\* A call that Keeps may go before one that Takes.
LEMMA KeepsThenTakes ==
  ASSUME NEW x, NEW y, NEW z, NEW bytes, NEW ok, Keeps(x, y), Takes(y, z, bytes, ok)
  PROVE  Takes(x, z, bytes, ok)
  BY DEF Keeps, Takes

\* A call that Keeps may follow one that Takes.
LEMMA TakesThenKeeps ==
  ASSUME NEW x, NEW y, NEW z, NEW bytes, NEW ok, Takes(x, y, bytes, ok), Keeps(y, z)
  PROVE  Takes(x, z, bytes, ok)
  BY DEF Keeps, Takes

\* A run that goes straight to the target, round a cache that holds none of it
\* and with nothing waiting.
LEMMA ThroughTakes ==
  ASSUME NEW x, Sound(x), NEW bytes \in RunData,
         DOMAIN bytes \cap DOMAIN x.cache = {}, DOMAIN x.waiting = {},
         NEW o \in InnerWrite(x, bytes)
  PROVE  o.ok \in BOOLEAN /\ Takes(x, o.io, bytes, o.ok)
<1>1. x \in Io /\ bytes \in Partial(Sectors, Content) /\ DOMAIN bytes \subseteq Sectors
  BY RunDataType DEF Sound
<1>2. /\ o.ok \in BOOLEAN
      /\ o.io \in Io
      /\ o.io.cache = x.cache
      /\ o.io.waiting = x.waiting
      /\ \A s \in Sectors :
           o.io.inner[s] = x.inner[s] \/ (s \in DOMAIN bytes /\ o.io.inner[s] = bytes[s])
      /\ o.ok => \A s \in DOMAIN bytes : o.io.inner[s] = bytes[s]
  BY <1>1, InnerWriteOutcome
<1>3. DOMAIN x.cache \subseteq Sectors
  BY <1>1, PartialFun DEF Io
<1>4. Sound(o.io)
  BY <1>2, <1>3 DEF Sound
<1>5. \A s \in Sectors : /\ Seen(x)[s] = IF s \in DOMAIN x.cache THEN x.cache[s].bytes ELSE x.inner[s]
                        /\ Seen(o.io)[s] = IF s \in DOMAIN x.cache THEN x.cache[s].bytes ELSE o.io.inner[s]
  BY <1>1, <1>2, SeenType
<1>6. \A s \in Sectors \ DOMAIN bytes : Seen(o.io)[s] = Seen(x)[s]
  BY <1>2, <1>5
<1>7. \A s \in DOMAIN bytes : Seen(o.io)[s] = bytes[s] \/ (~o.ok /\ Seen(o.io)[s] = Seen(x)[s])
  BY <1>1, <1>2, <1>5
<1>8. \A s \in Sectors : o.io.inner[s] \in {x.inner[s], Seen(x)[s], Seen(o.io)[s]}
  BY <1>1, <1>2, <1>5
<1> QED
  BY <1>2, <1>4, <1>6, <1>7, <1>8 DEF Takes

\* A run that waits shows at once; the target gets nothing yet.
LEMMA WaitTakes ==
  ASSUME NEW x, Sound(x), NEW bytes \in RunData,
         DOMAIN bytes \cap DOMAIN x.cache = {}
  PROVE  Takes(x, [x EXCEPT !.waiting = Over(bytes, @)], bytes, TRUE)
<1> DEFINE waiting == Over(bytes, x.waiting)
           y == [x EXCEPT !.waiting = waiting]
<1>1. /\ x \in Io
      /\ x.waiting \in Partial(Sectors, Content)
      /\ bytes \in Partial(Sectors, Content)
      /\ DOMAIN bytes \subseteq Sectors
  BY RunDataType DEF Sound, Io
<1>2. waiting \in Partial(Sectors, Content)
  BY <1>1, OverPartial
<1>3. /\ DOMAIN waiting = DOMAIN bytes \cup DOMAIN x.waiting
      /\ \A s \in DOMAIN waiting :
           waiting[s] = IF s \in DOMAIN bytes THEN bytes[s] ELSE x.waiting[s]
  BY DEF Over
<1> HIDE DEF waiting
<1>4. /\ y \in Io
      /\ y.inner = x.inner
      /\ y.cache = x.cache
      /\ y.waiting = waiting
  BY <1>1, <1>2 DEF Io
<1>5. y = [x EXCEPT !.waiting = Over(bytes, @)]
  BY DEF waiting
<1> HIDE DEF y
<1>6. Sound(y)
  BY <1>3, <1>4 DEF Sound
<1>7. \A s \in Sectors :
        Seen(y)[s] = IF s \in DOMAIN bytes THEN bytes[s] ELSE Seen(x)[s]
  BY <1>1, <1>3, <1>4, SeenType
<1>8. Takes(x, y, bytes, TRUE)
  BY <1>1, <1>4, <1>6, <1>7 DEF Takes
<1> QED
  BY <1>5, <1>8

\* The run joins the waiting one, or goes straight through.
LEMMA JoinTakes ==
  ASSUME NEW x, Sound(x), NEW bytes \in RunData,
         DOMAIN bytes \cap DOMAIN x.cache = {}, NEW o \in Join(x, bytes)
  PROVE  o.ok \in BOOLEAN /\ Takes(x, o.io, bytes, o.ok)
<1>1. CASE Cardinality(DOMAIN bytes) >= MergeSectors
  <2>1. PICK w \in SendWaiting(x) :
          o \in IF w.ok THEN InnerWrite(w.io, bytes) ELSE {w}
    BY <1>1 DEF Join
  <2>2. /\ w.ok \in BOOLEAN
        /\ Keeps(x, w.io)
        /\ w.io.cache = x.cache
        /\ w.ok => DOMAIN w.io.waiting = {}
    BY SendWaitingKeeps
  <2>3. CASE w.ok
    <3>1. o.ok \in BOOLEAN /\ Takes(w.io, o.io, bytes, o.ok)
      BY <2>1, <2>2, <2>3, ThroughTakes DEF Keeps
    <3> QED
      BY <2>2, <3>1, KeepsThenTakes
  <2>4. CASE ~w.ok
    <3>1. o = w
      BY <2>1, <2>4
    <3>2. DOMAIN bytes \subseteq Sectors
      BY RunDataType
    <3> QED
      BY <2>2, <2>4, <3>1, <3>2 DEF Keeps, Takes
  <2> QED
    BY <2>2, <2>3, <2>4
<1>2. CASE ~(Cardinality(DOMAIN bytes) >= MergeSectors)
  <2> DEFINE joined == [x EXCEPT !.waiting = Over(bytes, @)]
  <2>1. Takes(x, joined, bytes, TRUE)
    BY WaitTakes
  <2>2. o \in SendWaiting(joined) \/ o = Done(joined)
    BY <1>2 DEF Join
  <2> HIDE DEF joined
  <2>3. Sound(joined)
    BY <2>1 DEF Takes
  <2>4. o.ok \in BOOLEAN /\ Keeps(joined, o.io)
    <3>1. CASE o \in SendWaiting(joined)
      BY <2>3, <3>1, SendWaitingKeeps
    <3>2. CASE o = Done(joined)
      BY <2>3, <3>2, KeepsReflexive DEF Done
    <3> QED
      BY <2>2, <3>1, <3>2
  <2>5. Takes(x, o.io, bytes, TRUE)
    BY <2>1, <2>4, TakesThenKeeps
  <2> QED
    BY <2>4, <2>5 DEF Takes
<1> QED
  BY <1>1, <1>2

\* send_run: the waiting run goes first when this one does not follow it.
LEMMA SendRunTakes ==
  ASSUME NEW x, Sound(x), NEW bytes \in RunData,
         DOMAIN bytes \cap DOMAIN x.cache = {}, NEW o \in SendRun(x, bytes)
  PROVE  o.ok \in BOOLEAN /\ Takes(x, o.io, bytes, o.ok)
<1>1. PICK w \in IF Follows(x, DOMAIN bytes) THEN {Done(x)} ELSE SendWaiting(x) :
        o \in IF w.ok THEN Join(w.io, bytes) ELSE {w}
  BY DEF SendRun
<1>2. w.ok \in BOOLEAN /\ Keeps(x, w.io) /\ w.io.cache = x.cache
  <2>1. CASE w \in SendWaiting(x)
    BY <2>1, SendWaitingKeeps
  <2>2. CASE w = Done(x)
    BY <2>2, KeepsReflexive DEF Done
  <2> QED
    BY <1>1, <2>1, <2>2
<1>3. CASE w.ok
  <2>1. o.ok \in BOOLEAN /\ Takes(w.io, o.io, bytes, o.ok)
    BY <1>1, <1>2, <1>3, JoinTakes DEF Keeps
  <2> QED
    BY <1>2, <2>1, KeepsThenTakes
<1>4. CASE ~w.ok
  <2>1. o = w
    BY <1>1, <1>4
  <2>2. DOMAIN bytes \subseteq Sectors
    BY RunDataType
  <2> QED
    BY <1>2, <1>4, <2>1, <2>2 DEF Keeps, Takes
<1> QED
  BY <1>2, <1>3, <1>4

----------------------------------------------------------------------------
(* Every action keeps the invariant, and is an action of PlainBuffer.      *)

\* PlainBuffer is about the same sectors, cells and bytes.
LEMMA BufferTerms ==
  /\ Buffer!Sectors = Sectors
  /\ Buffer!Cells = Cells
  /\ Buffer!Content = Content
  /\ Buffer!Runs = Runs
  /\ Buffer!Pieces = Pieces
  /\ Buffer!RunData = RunData
  /\ Buffer!PieceData = PieceData
  /\ Buffer!Nothing = Nothing
  /\ \A f, g : Buffer!Over(f, g) = Over(f, g)
  /\ \A op, ok, bytes : Buffer!Answer(op, ok, bytes) = Answer(op, ok, bytes)
  BY DEF Buffer!Sectors, Sectors, Buffer!Cells, Cells, Buffer!Content, Content,
         Buffer!Runs, Runs, Buffer!Pieces, Pieces, Buffer!RunData, RunData,
         Buffer!PieceData, PieceData, Buffer!Nothing, Nothing, Buffer!Over, Over,
         Buffer!Answer, Answer

\* A whole content over another leaves nothing of the other.
LEMMA OverFull ==
  ASSUME NEW b \in Content, NEW c \in Content
  PROVE  Over(b, c) = b
  BY DEF Over, Content

\* Contents are partial functions of the cells.
LEMMA ContentPartial ==
  Content \subseteq Partial(Cells, Values)
  BY PartialFun DEF Content

\* When the target is of its type, only known sectors of it change, and
\* Settles says so of a step of PlainBuffer.
LEMMA SettlesHolds ==
  ASSUME Sound(io)', \A s \in Sectors : io.inner'[s] \in {io.inner[s], Seen(io)[s], Seen(io)'[s]}
  PROVE  Buffer!Settles
  BY BufferTerms DEF Buffer!Settles, Sound, Io

\* write, where it reaches whole sectors, is a write of the plain buffer.
LEMMA WriteRunStep ==
  ASSUME IInv, NEW bytes \in RunData, WriteRun(bytes)
  PROVE  IInv' /\ Buffer!Write(bytes)
<1> DEFINE x == Uncache(io, DOMAIN bytes)
<1>1. PICK o \in SendRun(x, bytes) : io' = o.io /\ reply' = Answer("write", o.ok, bytes)
  BY DEF WriteRun
<1>2. /\ bytes \in Partial(Sectors, Content)
      /\ bytes \in [DOMAIN bytes -> Content]
      /\ DOMAIN bytes \subseteq Sectors
      /\ DOMAIN bytes \in SUBSET Int
  BY RunDataType DEF Sectors
<1>3. /\ Sound(x)
      /\ x.inner = io.inner
      /\ DOMAIN bytes \cap DOMAIN x.cache = {}
      /\ \A s \in Sectors : Seen(x)[s] =
           IF s \in DOMAIN bytes \ DOMAIN io.waiting THEN io.inner[s] ELSE Seen(io)[s]
  BY <1>2, UncacheSees DEF IInv
<1> HIDE DEF x
<1>4. o.ok \in BOOLEAN /\ Takes(x, io', bytes, o.ok)
  BY <1>1, <1>3, SendRunTakes
<1>5. Sound(io')
  BY <1>4 DEF Takes
<1>6. reply' \in Reply
  <2>1. bytes \in Partial(Sectors, Partial(Cells, Values))
    BY <1>2, ContentPartial, PartialFun
  <2> QED
    BY <1>1, <1>4, <2>1 DEF Answer, Reply
<1>7. Seen(io) \in [Sectors -> Content] /\ Seen(io') \in [Sectors -> Content]
  BY <1>5, SeenType DEF IInv, Sound
<1>8. \A s \in DOMAIN bytes : Over(bytes[s], Seen(io)[s]) = bytes[s]
  BY <1>2, <1>7, OverFull
<1>9. \A s \in Sectors : io'.inner[s] \in {io.inner[s], Seen(io)[s], Seen(io')[s]}
  BY <1>3, <1>4 DEF Takes
<1>10. Buffer!Settles
  BY <1>5, <1>9, SettlesHolds
<1>11. CASE o.ok
  <2>1. \A s \in Sectors :
          Seen(io')[s] = IF s \in DOMAIN bytes THEN Over(bytes[s], Seen(io)[s]) ELSE Seen(io)[s]
    BY <1>2, <1>3, <1>4, <1>8, <1>11 DEF Takes
  <2>2. Seen(io') = [s \in Sectors |->
          IF s \in DOMAIN bytes THEN Over(bytes[s], Seen(io)[s]) ELSE Seen(io)[s]]
    BY <1>7, <2>1
  <2>3. reply' = Answer("write", TRUE, bytes)
    BY <1>1, <1>4, <1>11
  <2>4. Buffer!WriteDone(bytes)
    BY <1>10, <2>2, <2>3, BufferTerms DEF Buffer!WriteDone
  <2> QED
    BY <1>5, <1>6, <2>4 DEF IInv, Buffer!Write
<1>12. CASE ~o.ok
  <2>1. \A s \in Sectors \ DOMAIN bytes : Seen(io')[s] = Seen(io)[s]
    BY <1>3, <1>4 DEF Takes
  <2>2. \A s \in DOMAIN bytes :
          Seen(io')[s] \in {Seen(io)[s], Over(bytes[s], Seen(io)[s]), io.inner[s]}
    BY <1>2, <1>3, <1>4, <1>8 DEF Takes
  <2>3. reply' = Answer("write", FALSE, bytes)
    BY <1>1, <1>4, <1>12
  <2>4. Buffer!WriteFailed(bytes)
    BY <1>7, <1>10, <2>1, <2>2, <2>3, BufferTerms DEF Buffer!WriteFailed
  <2> QED
    BY <1>5, <1>6, <2>4 DEF IInv, Buffer!Write
<1> QED
  BY <1>4, <1>11, <1>12

\* write, where it reaches a piece of a sector, is a write of the plain buffer.
LEMMA WritePieceStep ==
  ASSUME IInv, NEW s \in Sectors, NEW piece \in PieceData, WritePiece(s, piece)
  PROVE  IInv' /\ Buffer!Write([i \in {s} |-> piece])
<1> DEFINE bytes == [i \in {s} |-> piece]
<1>1. PICK o \in Load(io, s) :
        /\ io' = IF o.ok THEN Change(o.io, s, piece) ELSE o.io
        /\ reply' = Answer("write", o.ok, bytes)
  BY DEF WritePiece
<1>2. o.ok \in BOOLEAN /\ Keeps(io, o.io) /\ (o.ok => s \in DOMAIN o.io.cache)
  BY LoadKeeps DEF IInv
<1>3. DOMAIN bytes = {s} /\ bytes[s] = piece
  OBVIOUS
<1>4. bytes \in Partial(Sectors, Partial(Cells, Values))
  <2>1. Seen(io)[s] \in Content
    BY SeenType DEF IInv, Sound
  <2>2. piece \in Partial(Cells, Values)
    BY <2>1, PieceDataType
  <2>3. bytes \in [{s} -> Partial(Cells, Values)]
    BY <2>2
  <2> QED
    BY <1>3, <2>3, PartialFun
<1> HIDE DEF bytes
<1>5. reply' \in Reply
  BY <1>1, <1>2, <1>4 DEF Answer, Reply
<1>6. CASE o.ok
  <2>1. /\ Sound(io')
        /\ io'.inner = o.io.inner
        /\ \A i \in Sectors : Seen(io')[i] =
             IF i = s THEN Over(piece, Seen(o.io)[i]) ELSE Seen(o.io)[i]
    BY <1>1, <1>2, <1>6, ChangeSees DEF Keeps
  <2>2. Seen(io) \in [Sectors -> Content] /\ Seen(io') \in [Sectors -> Content]
    BY <2>1, SeenType DEF IInv, Sound
  <2>3. Seen(io') = [i \in Sectors |->
          IF i \in DOMAIN bytes THEN Over(bytes[i], Seen(io)[i]) ELSE Seen(io)[i]]
    BY <1>2, <1>3, <2>1, <2>2 DEF Keeps
  <2>4. Buffer!Settles
    BY <1>2, <2>1, SettlesHolds DEF Keeps
  <2>5. reply' = Answer("write", TRUE, bytes)
    BY <1>1, <1>2, <1>6
  <2>6. Buffer!WriteDone(bytes)
    BY <2>3, <2>4, <2>5, BufferTerms DEF Buffer!WriteDone
  <2> QED
    BY <1>5, <2>1, <2>6 DEF IInv, Buffer!Write, bytes
<1>7. CASE ~o.ok
  <2>1. Keeps(io, io')
    BY <1>1, <1>2, <1>7
  <2>2. Seen(io') \in [Sectors -> Content]
    BY <2>1, SeenType DEF Keeps, Sound
  <2>3. Buffer!Settles
    BY <2>1, SettlesHolds DEF Keeps
  <2>4. reply' = Answer("write", FALSE, bytes)
    BY <1>1, <1>2, <1>7
  <2>5. Buffer!WriteFailed(bytes)
    BY <2>1, <2>2, <2>3, <2>4, BufferTerms DEF Buffer!WriteFailed, Keeps
  <2> QED
    BY <1>5, <2>1, <2>5 DEF IInv, Buffer!Write, bytes, Keeps
<1> QED
  BY <1>2, <1>6, <1>7

\* What reads and flushes have in common: nothing that is seen changes.
LEMMA KeepsStep ==
  ASSUME IInv, Keeps(io, io')
  PROVE  /\ Sound(io)'
         /\ Seen(io)' = Seen(io)
         /\ Seen(io) \in [Sectors -> Content]
         /\ Buffer!Settles
  BY SeenType, SettlesHolds DEF IInv, Keeps, Sound

\* read, where it reaches uncached sectors, is a read of the plain buffer.
LEMMA ReadRunStep ==
  ASSUME IInv, NEW run \in Runs, ReadRun(run)
  PROVE  /\ IInv'
         /\ reply'.op = "read"
         /\ Buffer!ReadDone(run, Cells) \/ Buffer!ReadFailed
<1>1. PICK o \in SendWaitingUnder(io, run), ok \in BOOLEAN :
        /\ io' = o.io
        /\ reply' = Answer("read", o.ok /\ ok,
                           IF o.ok /\ ok THEN [s \in run |-> o.io.inner[s]] ELSE Nothing)
  BY DEF ReadRun
<1>2. /\ o.ok \in BOOLEAN
      /\ Keeps(io, io')
      /\ io'.cache = io.cache
      /\ o.ok => run \cap DOMAIN io'.waiting = {}
  BY <1>1, SendWaitingUnderKeeps DEF IInv
<1>3. run \cap DOMAIN io.cache = {}
  BY DEF ReadRun
<1>4. run \subseteq Sectors
  BY SizesAssumption DEF Runs, Sectors
<1>5. CASE o.ok /\ ok
  <2>1. \A s \in run : io'.inner[s] = Seen(io)[s] /\ Seen(io)[s] \in Content
    <3>1. \A s \in run : Seen(io')[s] = io'.inner[s]
      BY <1>2, <1>3, <1>4, <1>5, SeenType DEF Keeps, Sound
    <3> QED
      BY <1>2, <1>4, <3>1, KeepsStep
  <2> DEFINE bytes == [s \in run |-> io'.inner[s]]
             seen  == [s \in run |-> [c \in Cells |-> Seen(io)[s][c]]]
  <2>2. bytes = seen
    BY <2>1 DEF Content
  <2>3. bytes \in [run -> Content]
    BY <2>1
  <2>4. DOMAIN bytes = run
    OBVIOUS
  <2>5. reply' = Answer("read", TRUE, bytes)
    BY <1>1, <1>5
  <2> HIDE DEF bytes
  <2>6. bytes \in Partial(Sectors, Partial(Cells, Values))
    BY <1>4, <2>3, <2>4, ContentPartial, PartialFun
  <2>7. reply' \in Reply /\ reply'.op = "read"
    BY <2>5, <2>6 DEF Answer, Reply
  <2>8. Buffer!ReadDone(run, Cells)
    BY <1>2, <2>2, <2>5, KeepsStep, BufferTerms DEF Buffer!ReadDone
  <2> QED
    BY <1>2, <2>7, <2>8, KeepsStep DEF IInv
<1>6. CASE ~(o.ok /\ ok)
  <2>1. reply' = Answer("read", FALSE, Nothing)
    BY <1>1, <1>2, <1>6
  <2>2. reply' \in Reply /\ reply'.op = "read"
    BY <2>1, NothingPartial DEF Answer, Reply
  <2>3. Buffer!ReadFailed
    BY <1>2, <2>1, KeepsStep, BufferTerms DEF Buffer!ReadFailed
  <2> QED
    BY <1>2, <2>2, <2>3, KeepsStep DEF IInv
<1> QED
  BY <1>5, <1>6

\* read, where it reaches the cache, is a read of the plain buffer.
LEMMA ReadPieceStep ==
  ASSUME IInv, NEW s \in Sectors, NEW piece \in Pieces \cup {Cells}, ReadPiece(s, piece)
  PROVE  /\ IInv'
         /\ reply'.op = "read"
         /\ Buffer!ReadDone({s}, piece) \/ Buffer!ReadFailed
<1>1. PICK o \in Load(io, s) :
        /\ io' = o.io
        /\ reply' = Answer("read", o.ok,
                           IF o.ok
                           THEN [i \in {s} |-> [c \in piece |-> o.io.cache[s].bytes[c]]]
                           ELSE Nothing)
  BY DEF ReadPiece
<1>2. o.ok \in BOOLEAN /\ Keeps(io, io') /\ (o.ok => s \in DOMAIN io'.cache)
  BY <1>1, LoadKeeps DEF IInv
<1>3. piece \subseteq Cells
  BY SizesAssumption DEF Pieces, Cells
<1>4. CASE o.ok
  <2>1. io'.cache[s].bytes = Seen(io)[s] /\ Seen(io)[s] \in Content
    <3>1. Seen(io')[s] = io'.cache[s].bytes
      BY <1>2, <1>4, SeenType DEF Keeps, Sound
    <3> QED
      BY <1>2, <3>1, KeepsStep
  <2> DEFINE part  == [c \in piece |-> Seen(io)[s][c]]
             bytes == [i \in {s} |-> [c \in piece |-> io'.cache[s].bytes[c]]]
             seen  == [i \in {s} |-> [c \in piece |-> Seen(io)[i][c]]]
  <2>2. bytes = seen
    BY <2>1
  <2>3. part \in [piece -> Values] /\ DOMAIN part = piece
    BY <1>3, <2>1 DEF Content
  <2>4. part \in Partial(Cells, Values)
    BY <1>3, <2>3, PartialFun
  <2>5. bytes \in [{s} -> Partial(Cells, Values)] /\ DOMAIN bytes = {s}
    BY <2>1, <2>4
  <2>6. reply' = Answer("read", TRUE, bytes)
    BY <1>1, <1>4
  <2> HIDE DEF bytes
  <2>7. bytes \in Partial(Sectors, Partial(Cells, Values))
    BY <2>5, PartialFun
  <2>8. reply' \in Reply /\ reply'.op = "read"
    BY <2>6, <2>7 DEF Answer, Reply
  <2>9. Buffer!ReadDone({s}, piece)
    BY <1>2, <2>2, <2>6, KeepsStep, BufferTerms DEF Buffer!ReadDone
  <2> QED
    BY <1>2, <2>8, <2>9, KeepsStep DEF IInv
<1>5. CASE ~o.ok
  <2>1. reply' = Answer("read", FALSE, Nothing)
    BY <1>1, <1>2, <1>5
  <2>2. reply' \in Reply /\ reply'.op = "read"
    BY <2>1, NothingPartial DEF Answer, Reply
  <2>3. Buffer!ReadFailed
    BY <1>2, <2>1, KeepsStep, BufferTerms DEF Buffer!ReadFailed
  <2> QED
    BY <1>2, <2>2, <2>3, KeepsStep DEF IInv
<1> QED
  BY <1>2, <1>4, <1>5

\* With nothing dirty and nothing waiting, the target holds all that is seen.
LEMMA AllWritten ==
  ASSUME NEW x, Sound(x), DOMAIN x.waiting = {},
         \A s \in DOMAIN x.cache : ~x.cache[s].dirty
  PROVE  x.inner = Seen(x)
<1>1. \A s \in Sectors : x.inner[s] = Seen(x)[s]
  BY SeenType DEF Sound
<1>2. x.inner \in [Sectors -> Content] /\ Seen(x) \in [Sectors -> Content]
  BY SeenType DEF Sound, Io
<1> QED
  BY <1>1, <1>2

\* flush and sync: an Ok means that the target holds all that is seen.
LEMMA FlushStep ==
  ASSUME IInv, Flush
  PROVE  IInv' /\ (Buffer!FlushDone \/ Buffer!FlushFailed)
<1>1. PICK w \in SendWaiting(io) : \E o \in IF w.ok THEN WriteBack(w.io) ELSE {w},
                                      ok \in BOOLEAN :
        io' = o.io /\ reply' = Answer("flush", o.ok /\ ok, Nothing)
  BY DEF Flush
<1>2. PICK o \in IF w.ok THEN WriteBack(w.io) ELSE {w}, ok \in BOOLEAN :
        io' = o.io /\ reply' = Answer("flush", o.ok /\ ok, Nothing)
  BY <1>1
<1>3. /\ w.ok \in BOOLEAN
      /\ Keeps(io, w.io)
      /\ w.ok => DOMAIN w.io.waiting = {}
  BY SendWaitingKeeps DEF IInv
<1>4. /\ o.ok \in BOOLEAN
      /\ Keeps(io, io')
      /\ o.ok => io'.inner = Seen(io')
  <2>1. CASE w.ok
    <3>1. /\ o.ok \in BOOLEAN
          /\ Keeps(w.io, o.io)
          /\ o.io.waiting = w.io.waiting
          /\ o.ok => \A s \in DOMAIN o.io.cache : ~o.io.cache[s].dirty
      BY <1>2, <1>3, <2>1, WriteBackKeeps DEF Keeps
    <3>2. Keeps(io, o.io)
      BY <1>3, <3>1, KeepsTransitive
    <3> QED
      BY <1>2, <1>3, <2>1, <3>1, <3>2, AllWritten DEF Keeps
  <2>2. CASE ~w.ok
    BY <1>2, <1>3, <2>2
  <2> QED
    BY <1>3, <2>1, <2>2
<1>5. reply' \in Reply
  BY <1>2, NothingPartial DEF Answer, Reply
<1>6. CASE o.ok /\ ok
  <2>1. reply' = Answer("flush", TRUE, Nothing)
    BY <1>2, <1>6
  <2>2. Buffer!FlushDone
    BY <1>4, <1>6, <2>1, KeepsStep, BufferTerms DEF Buffer!FlushDone
  <2> QED
    BY <1>4, <1>5, <2>2, KeepsStep DEF IInv
<1>7. CASE ~(o.ok /\ ok)
  <2>1. reply' = Answer("flush", FALSE, Nothing)
    BY <1>2, <1>4, <1>7
  <2>2. Buffer!FlushFailed
    BY <1>4, <2>1, KeepsStep, BufferTerms DEF Buffer!FlushFailed
  <2> QED
    BY <1>4, <1>5, <2>2, KeepsStep DEF IInv
<1> QED
  BY <1>6, <1>7

\* Fields with nothing cached and nothing waiting show the target.
LEMMA EmptySees ==
  ASSUME NEW x, x.inner \in [Sectors -> Content],
         x = [inner |-> x.inner, cache |-> Nothing, waiting |-> Nothing]
  PROVE  Sound(x) /\ Seen(x) = x.inner
<1>1. /\ x \in Io
      /\ x.cache = Nothing
      /\ x.waiting = Nothing
  BY NothingPartial DEF Io
<1>2. Sound(x)
  BY <1>1, NothingPartial DEF Sound
<1>3. \A s \in Sectors : Seen(x)[s] = x.inner[s]
  BY <1>1, NothingPartial, SeenType
<1> QED
  BY <1>1, <1>2, <1>3, SeenType

\* Drop, and with_cache over the target that is left.
LEMMA DropStep ==
  ASSUME IInv, Drop
  PROVE  IInv' /\ (Buffer!DropDone \/ Buffer!DropFailed)
<1>1. PICK w \in SendWaiting(io) : \E o \in WriteBack(w.io) :
        /\ io' = [inner |-> o.io.inner, cache |-> Nothing, waiting |-> Nothing]
        /\ reply' = Answer("drop", w.ok /\ o.ok, Nothing)
  BY DEF Drop
<1>2. PICK o \in WriteBack(w.io) :
        /\ io' = [inner |-> o.io.inner, cache |-> Nothing, waiting |-> Nothing]
        /\ reply' = Answer("drop", w.ok /\ o.ok, Nothing)
  BY <1>1
<1>3. /\ w.ok \in BOOLEAN
      /\ Keeps(io, w.io)
      /\ w.ok => DOMAIN w.io.waiting = {}
  BY SendWaitingKeeps DEF IInv
<1>4. /\ o.ok \in BOOLEAN
      /\ Keeps(w.io, o.io)
      /\ o.io.waiting = w.io.waiting
      /\ o.ok => \A s \in DOMAIN o.io.cache : ~o.io.cache[s].dirty
  BY <1>3, WriteBackKeeps DEF Keeps
<1>5. Keeps(io, o.io)
  BY <1>3, <1>4, KeepsTransitive
<1>6. io'.inner = o.io.inner /\ io'.inner \in [Sectors -> Content]
  BY <1>2, <1>5 DEF Keeps, Sound, Io
<1>7. Sound(io)' /\ Seen(io)' = io'.inner
  BY <1>2, <1>6, EmptySees
<1>8. reply' \in Reply
  BY <1>2, <1>3, <1>4, NothingPartial DEF Answer, Reply
<1>9. CASE w.ok /\ o.ok
  <2>1. reply' = Answer("drop", TRUE, Nothing)
    BY <1>2, <1>9
  <2>2. io'.inner = Seen(io)
    BY <1>3, <1>4, <1>5, <1>6, <1>9, AllWritten DEF Keeps
  <2>3. Buffer!DropDone
    BY <1>7, <2>1, <2>2, BufferTerms DEF Buffer!DropDone
  <2> QED
    BY <1>7, <1>8, <2>3 DEF IInv
<1>10. CASE ~(w.ok /\ o.ok)
  <2>1. reply' = Answer("drop", FALSE, Nothing)
    BY <1>2, <1>3, <1>4, <1>10
  <2>2. \A s \in Sectors : io'.inner[s] \in {io.inner[s], Seen(io)[s]}
    BY <1>5, <1>6 DEF Keeps
  <2>3. Buffer!DropFailed
    BY <1>6, <1>7, <2>1, <2>2, BufferTerms DEF Buffer!DropFailed
  <2> QED
    BY <1>7, <1>8, <2>3 DEF IInv
<1> QED
  BY <1>3, <1>4, <1>9, <1>10

----------------------------------------------------------------------------
(* The theorems.                                                           *)

\* A new SectorIo is sound, and starts as a plain buffer does.
LEMMA InitStep ==
  ASSUME Init
  PROVE  IInv /\ Buffer!Init
<1>1. /\ io.inner \in [Sectors -> Content]
      /\ io = [inner |-> io.inner, cache |-> Nothing, waiting |-> Nothing]
  BY DEF Init
<1>2. Sound(io) /\ Seen(io) = io.inner
  BY <1>1, EmptySees
<1>3. reply \in Reply
  BY NothingPartial DEF Init, Answer, Reply
<1> QED
  BY <1>1, <1>2, <1>3, BufferTerms DEF IInv, Init, Buffer!Init

\* Every step keeps the invariant and is a step, or a stutter, of PlainBuffer.
LEMMA NextStep ==
  ASSUME IInv, [Next]_vars
  PROVE  IInv' /\ [Buffer!Next]_(Buffer!vars)
<1>1. ASSUME NEW bytes \in RunData, WriteRun(bytes)
      PROVE  IInv' /\ Buffer!Next
  <2>1. reply'.op = "write"
    BY <1>1 DEF WriteRun, Answer
  <2> QED
    BY <1>1, <2>1, WriteRunStep, BufferTerms DEF Buffer!Next
<1>2. ASSUME NEW s \in Sectors, NEW piece \in PieceData, WritePiece(s, piece)
      PROVE  IInv' /\ Buffer!Next
  <2>1. reply'.op = "write"
    BY <1>2 DEF WritePiece, Answer
  <2> QED
    BY <1>2, <2>1, WritePieceStep, BufferTerms DEF Buffer!Next
<1>3. ASSUME NEW run \in Runs, ReadRun(run)
      PROVE  IInv' /\ Buffer!Next
  BY <1>3, ReadRunStep, BufferTerms DEF Buffer!Next
<1>4. ASSUME NEW s \in Sectors, NEW piece \in Pieces \cup {Cells}, ReadPiece(s, piece)
      PROVE  IInv' /\ Buffer!Next
  <2>1. IInv' /\ reply'.op = "read" /\ (Buffer!ReadDone({s}, piece) \/ Buffer!ReadFailed)
    BY <1>4, ReadPieceStep
  <2>2. {s} \in Runs
    <3>1. {s} = s .. s
      BY DEF Sectors
    <3>2. \E a, b \in Sectors : {s} = a .. b
      BY <3>1
    <3> QED
      BY <3>2 DEF Runs
  <2>3. piece \in Pieces \/ piece = Cells
    OBVIOUS
  <2> QED
    BY <2>1, <2>2, <2>3, BufferTerms DEF Buffer!Next
<1>5. ASSUME Flush
      PROVE  IInv' /\ Buffer!Next
  BY <1>5, FlushStep DEF Buffer!Next
<1>6. ASSUME Drop
      PROVE  IInv' /\ Buffer!Next
  BY <1>6, DropStep DEF Buffer!Next
<1>7. CASE UNCHANGED vars
  <2>1. io' = io /\ reply' = reply
    BY <1>7 DEF vars
  <2> QED
    BY <2>1 DEF IInv, Buffer!vars
<1> QED
  BY <1>1, <1>2, <1>3, <1>4, <1>5, <1>6, <1>7 DEF Next

\* Every reachable state is sound.
THEOREM SoundAlways == Spec => []IInv
<1>1. Init => IInv
  BY InitStep
<1>2. IInv /\ [Next]_vars => IInv'
  BY NextStep
<1> QED
  BY <1>1, <1>2, PTL DEF Spec

\* The fields of SectorIo and its replies always have their types.
THEOREM TypeCorrect == Spec => []TypeOK
<1>1. IInv => TypeOK
  BY DEF IInv, Sound, TypeOK
<1> QED
  BY <1>1, SoundAlways, PTL

\* No sector ever waits to be written while it is in the cache.
THEOREM NeverInBothPlaces == Spec => []NeverInBoth
<1>1. IInv => NeverInBoth
  BY DEF IInv, Sound, NeverInBoth
<1> QED
  BY <1>1, SoundAlways, PTL

\* A slot that is not marked as changed always equals the target's sector, so
\* the cache may be emptied after a write-back without a byte being lost.
THEOREM CleanSlotsAlwaysAgree == Spec => []CleanSlotsAgree
<1>1. IInv => CleanSlotsAgree
  BY DEF IInv, Sound, CleanSlotsAgree, Dirty
<1> QED
  BY <1>1, SoundAlways, PTL

\* SectorIo is a plain buffer over its target, whichever accesses the target
\* refuses and whatever the sizes are.
THEOREM IsAPlainBuffer == Spec => ImplementsPlainBuffer
<1>1. Init => Buffer!Init
  BY InitStep
<1>2. IInv /\ [Next]_vars => [Buffer!Next]_(Buffer!vars)
  BY NextStep
<1> QED
  BY <1>1, <1>2, SoundAlways, PTL DEF Spec, Buffer!Spec, ImplementsPlainBuffer

----------------------------------------------------------------------------
(* The waiting sectors are one run.                                        *)

OneRun(x) == DOMAIN x.waiting \in Runs \cup {{}}

\* A call that leaves the waiting run as it is, or has sent it.
Sends(x, y) == y.waiting \in {x.waiting, Nothing}

LEMMA SendsKeepsOneRun ==
  ASSUME NEW x, NEW y, OneRun(x), Sends(x, y)
  PROVE  OneRun(y)
BY NothingPartial DEF OneRun, Sends

LEMMA IsRun ==
  ASSUME NEW a \in Sectors, NEW b \in Sectors, NEW r, r = a .. b, r # {}
  PROVE  r \in Runs
BY DEF Runs

\* Two runs, of which the second starts where the first one ends, are one.
LEMMA RunsJoin ==
  ASSUME NEW r \in Runs, NEW w \in Runs, r \cap w = {}, NEW s \in r, s - 1 \in w
  PROVE  r \cup w \in Runs
<1>1. PICK a \in Sectors, b \in Sectors : r = a .. b /\ a <= b
  BY SizesAssumption DEF Runs, Sectors
<1>2. PICK c \in Sectors, d \in Sectors : w = c .. d /\ c <= d
  BY SizesAssumption DEF Runs, Sectors
<1>3. a \in Int /\ b \in Int /\ c \in Int /\ d \in Int /\ s \in Int
  BY <1>1, <1>2, SizesAssumption DEF Sectors
<1>4. s = d + 1
  <2>1. s \notin w /\ s - 1 <= d /\ c <= s - 1
    BY <1>2, <1>3
  <2> QED
    BY <1>2, <1>3, <2>1
<1>5. a = s
  <2>1. a <= s /\ s <= b
    BY <1>1, <1>3
  <2>2. s - 1 \notin r
    BY <1>2
  <2> QED
    BY <1>1, <1>3, <2>1, <2>2
<1>6. r \cup w = c .. b
  BY <1>1, <1>2, <1>3, <1>4, <1>5
<1> QED
  BY <1>1, <1>6, IsRun

LEMMA LoadSends ==
  ASSUME NEW x, Sound(x), NEW s \in Sectors, NEW o \in Load(x, s)
  PROVE  Sends(x, o.io)
<1>1. CASE s \in DOMAIN x.cache
  BY <1>1 DEF Load, Done, Sends
<1>2. CASE s \notin DOMAIN x.cache
  <2>1. PICK e \in Evict(x) :
          o \in IF e.ok
                THEN UNION {IF p.ok THEN Fetch(p.io, s) ELSE {p} :
                              p \in SendWaitingUnder(e.io, {s})}
                ELSE {e}
    BY <1>2 DEF Load
  <2>2. Sound(e.io) /\ e.io \in Io
    BY EvictKeeps DEF Keeps, Sound
  <2>3. e.io.waiting = x.waiting
    <3>1. CASE e = Done(x)
      BY <3>1 DEF Done
    <3>2. ASSUME NEW w \in WriteBack(x),
                 e = IF w.ok THEN Done([w.io EXCEPT !.cache = Nothing]) ELSE w
          PROVE  e.io.waiting = x.waiting
      <4>1. w.io.waiting = x.waiting /\ w.io \in Io
        BY WriteBackKeeps DEF Keeps, Sound
      <4>2. [w.io EXCEPT !.cache = Nothing].waiting = w.io.waiting
        BY <4>1 DEF Io
      <4> QED
        BY <3>2, <4>1, <4>2 DEF Done
    <3> QED
      BY <3>1, <3>2 DEF Evict
  <2>4. ASSUME NEW p \in SendWaitingUnder(e.io, {s}),
               o \in IF p.ok THEN Fetch(p.io, s) ELSE {p}
        PROVE  Sends(x, o.io)
    <3>1. Keeps(e.io, p.io)
      BY <2>2, SendWaitingUnderKeeps
    <3>2. Sends(e.io, p.io)
      BY <2>2, SendWaitingKeeps DEF SendWaitingUnder, Sends, Done
    <3>3. p.io \in Io
      BY <3>1 DEF Keeps, Sound
    <3>4. o.io.waiting = p.io.waiting
      BY <2>4, <3>3 DEF Fetch, Done, Failed, Io
    <3> QED
      BY <2>3, <3>2, <3>4 DEF Sends
  <2> QED
    BY <2>1, <2>3, <2>4 DEF Sends
<1> QED
  BY <1>1, <1>2

\* The run that joins the waiting one follows it, or finds none.
LEMMA JoinKeepsOneRun ==
  ASSUME NEW x, Sound(x), OneRun(x), NEW bytes \in RunData,
         DOMAIN bytes \cap DOMAIN x.cache = {},
         DOMAIN x.waiting = {} \/ Follows(x, DOMAIN bytes),
         NEW o \in Join(x, bytes)
  PROVE  OneRun(o.io)
<1>1. bytes \in Partial(Sectors, Content) /\ DOMAIN bytes \in Runs
  BY RunDataType
<1>2. CASE Cardinality(DOMAIN bytes) >= MergeSectors
  <2>1. PICK w \in SendWaiting(x) :
          o \in IF w.ok THEN InnerWrite(w.io, bytes) ELSE {w}
    BY <1>2 DEF Join
  <2>2. Keeps(x, w.io) /\ Sends(x, w.io)
    BY SendWaitingKeeps DEF Sends
  <2>3. w.io \in Io
    BY <2>2 DEF Keeps, Sound
  <2>4. o.io.waiting = w.io.waiting
    BY <1>1, <2>1, <2>3, InnerWriteOutcome
  <2> QED
    BY <2>2, <2>4, SendsKeepsOneRun DEF Sends
<1>3. CASE ~(Cardinality(DOMAIN bytes) >= MergeSectors)
  <2> DEFINE joined == [x EXCEPT !.waiting = Over(bytes, @)]
  <2>1. Sound(joined)
    BY WaitTakes DEF Takes
  <2>2. joined.waiting = Over(bytes, x.waiting)
    BY DEF Sound, Io
  <2>3. o \in SendWaiting(joined) \/ o = Done(joined)
    BY <1>3 DEF Join
  <2> HIDE DEF joined
  <2>4. OneRun(joined)
    <3>1. DOMAIN joined.waiting = DOMAIN bytes \cup DOMAIN x.waiting
      BY <2>2 DEF Over
    <3>2. CASE DOMAIN x.waiting = {}
      BY <1>1, <3>1, <3>2 DEF OneRun
    <3>3. CASE DOMAIN x.waiting # {} /\ Follows(x, DOMAIN bytes)
      <4>1. DOMAIN x.waiting \in Runs
        BY <3>3 DEF OneRun
      <4>2. DOMAIN bytes \cup DOMAIN x.waiting \in Runs
        BY <1>1, <3>3, <4>1, RunsJoin DEF Follows
      <4> QED
        BY <3>1, <4>2 DEF OneRun
    <3> QED
      BY <3>2, <3>3
  <2>5. Sends(joined, o.io)
    BY <2>1, <2>3, SendWaitingKeeps DEF Sends, Done
  <2> QED
    BY <2>4, <2>5, SendsKeepsOneRun
<1> QED
  BY <1>2, <1>3

LEMMA WriteRunKeepsOneRun ==
  ASSUME IInv, OneRun(io), NEW bytes \in RunData, WriteRun(bytes)
  PROVE  OneRun(io)'
<1> DEFINE x == Uncache(io, DOMAIN bytes)
<1>1. PICK o \in SendRun(x, bytes) : io' = o.io
  BY DEF WriteRun
<1>2. DOMAIN bytes \in Runs /\ DOMAIN bytes \subseteq Sectors
  BY RunDataType
<1>3. Sound(x) /\ DOMAIN bytes \cap DOMAIN x.cache = {}
  <2>1. DOMAIN bytes \in SUBSET Int
    BY <1>2, SizesAssumption DEF Sectors
  <2> QED
    BY <2>1, UncacheSees DEF IInv
<1>4. x.waiting = io.waiting
  BY DEF Uncache, IInv, Sound, Io
<1> HIDE DEF x
<1>5. OneRun(x)
  BY <1>4 DEF OneRun
<1>6. PICK w \in IF Follows(x, DOMAIN bytes) THEN {Done(x)} ELSE SendWaiting(x) :
        o \in IF w.ok THEN Join(w.io, bytes) ELSE {w}
  BY <1>1 DEF SendRun
<1>7. CASE Follows(x, DOMAIN bytes)
  <2>1. w = Done(x)
    BY <1>6, <1>7
  <2>2. o \in Join(x, bytes)
    BY <1>6, <2>1 DEF Done
  <2> QED
    BY <1>1, <1>3, <1>5, <1>7, <2>2, JoinKeepsOneRun DEF OneRun
<1>8. CASE ~Follows(x, DOMAIN bytes)
  <2>1. w \in SendWaiting(x)
    BY <1>6, <1>8
  <2>2. /\ Keeps(x, w.io) /\ Sends(x, w.io) /\ w.io.cache = x.cache
        /\ w.ok => DOMAIN w.io.waiting = {}
    BY <1>3, <2>1, SendWaitingKeeps DEF Sends
  <2>3. OneRun(w.io)
    BY <1>5, <2>2, SendsKeepsOneRun
  <2>4. CASE w.ok
    BY <1>1, <1>3, <1>6, <2>2, <2>3, <2>4, JoinKeepsOneRun DEF Keeps, OneRun
  <2>5. CASE ~w.ok
    BY <1>1, <1>6, <2>3, <2>5 DEF OneRun
  <2> QED
    BY <2>4, <2>5
<1> QED
  BY <1>7, <1>8

\* The waiting sectors are one run at every moment, so that one write at the
\* first of them puts them all on the target (send_waiting).
THEOREM WaitingIsOneRunAlways == Spec => []WaitingIsOneRun
<1>1. Init => WaitingIsOneRun
  BY NothingPartial DEF Init, WaitingIsOneRun
<1>2. IInv /\ WaitingIsOneRun /\ [Next]_vars => WaitingIsOneRun'
  <2> SUFFICES ASSUME IInv, OneRun(io), [Next]_vars PROVE OneRun(io)'
    BY DEF WaitingIsOneRun, OneRun
  <2>1. ASSUME NEW bytes \in RunData, WriteRun(bytes) PROVE OneRun(io)'
    BY <2>1, WriteRunKeepsOneRun
  <2>2. ASSUME NEW s \in Sectors, NEW piece \in PieceData, WritePiece(s, piece)
        PROVE  OneRun(io)'
    <3>1. PICK o \in Load(io, s) : io' = IF o.ok THEN Change(o.io, s, piece) ELSE o.io
      BY <2>2 DEF WritePiece
    <3>2. Sends(io, o.io) /\ o.io \in Io
      BY LoadSends, LoadKeeps DEF IInv, Keeps, Sound
    <3>3. Change(o.io, s, piece).waiting = o.io.waiting
      BY <3>2 DEF Change, Io
    <3>4. Sends(io, io')
      BY <3>1, <3>2, <3>3 DEF Sends
    <3> QED
      BY <3>4, SendsKeepsOneRun
  <2>3. ASSUME NEW run \in Runs, ReadRun(run) PROVE OneRun(io)'
    <3>1. PICK o \in SendWaitingUnder(io, run) : io' = o.io
      BY <2>3 DEF ReadRun
    <3>2. Sends(io, io')
      BY <3>1, SendWaitingKeeps DEF SendWaitingUnder, Sends, Done, IInv
    <3> QED
      BY <3>2, SendsKeepsOneRun
  <2>4. ASSUME NEW s \in Sectors, NEW piece \in Pieces \cup {Cells}, ReadPiece(s, piece)
        PROVE  OneRun(io)'
    <3>1. Sends(io, io')
      BY <2>4, LoadSends DEF ReadPiece, IInv
    <3> QED
      BY <3>1, SendsKeepsOneRun
  <2>5. CASE Flush
    <3>1. PICK w \in SendWaiting(io) : io' \in {o.io : o \in IF w.ok THEN WriteBack(w.io) ELSE {w}}
      BY <2>5 DEF Flush
    <3>2. Sends(io, w.io) /\ Sound(w.io)
      BY SendWaitingKeeps DEF Sends, IInv, Keeps
    <3>3. io'.waiting = w.io.waiting
      BY <3>1, <3>2, WriteBackKeeps
    <3> QED
      BY <3>2, <3>3, SendsKeepsOneRun DEF Sends
  <2>6. CASE Drop
    <3>1. io'.waiting = Nothing
      BY <2>6 DEF Drop
    <3> QED
      BY <3>1, NothingPartial DEF OneRun
  <2>7. CASE UNCHANGED vars
    BY <2>7 DEF vars, OneRun
  <2> QED
    BY <2>1, <2>2, <2>3, <2>4, <2>5, <2>6, <2>7 DEF Next
<1> QED
  BY <1>1, <1>2, SoundAlways, PTL DEF Spec

=============================================================================
