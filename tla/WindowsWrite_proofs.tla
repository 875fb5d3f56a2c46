------------------------ MODULE WindowsWrite_proofs ------------------------
(***************************************************************************)
(* The safety properties of WindowsWrite, for each host, each drive that   *)
(* loses some of its parts, and each step at which the write stops, fails  *)
(* or is unplugged.                                                        *)
(*                                                                         *)
(* All of them follow from one inductive invariant, IInv: what the place   *)
(* in the program tells of `reached`, of the open SectorIo and of the host *)
(* (Phases), what the drive shows when Order has come to a step (Shows)    *)
(* and what its medium may hold by then (MayHold), what an open SectorIo   *)
(* holds (Buffered), and what the check has read (Read).                   *)
(***************************************************************************)
EXTENDS WindowsWrite, TLAPS

\* The steps of Order at which a SectorIo is open.
OpenSteps == {8, 10, 12, 13, 14}

\* What the place in write_windows_mode tells of REACHED, of the SectorIo that
\* is open, of the error that waits and of the host.
Phases ==
  /\ work.pc = "open" => /\ reached = "Nothing" /\ work.at = 1 /\ ~work.prepared
                         /\ work.cause = "none" /\ work.result = "none"
  /\ work.pc = "write" => reached = "Writing"
  /\ work.pc \in {"shut", "reopen", "table"} => reached = "Written"
  /\ work.pc \in {"fat32", "exfat"} => reached = "Checking"
  /\ work.pc = "eject" => reached = "Checked"
  /\ work.pc # "end" => ~work.differs /\ work.result = "none"
  /\ reached \in {"Nothing", "Writing"} => ~work.differs /\ ~host.wrote
  /\ work.pc = "shut" => ~host.wrote
  /\ host.kind = "windows" /\ work.pc = "write" /\ ~work.prepared => work.at = 1
  /\ work.mem # Closed => reached = "Writing" /\ work.at \in OpenSteps
  /\ work.pc = "write" => (work.mem # Closed <=> work.at \in OpenSteps)
  /\ work.cause # "none" => /\ work.cause # "VolumeFull" /\ work.at \in OpenSteps
                            /\ work.pc = "write" \/ (work.pc = "end" /\ work.result = work.cause)

\* What the drive shows while Order has come to step `at`, part by part.
Shows(seen, at) ==
  /\ seen["mbr"] \in IF at = 1 THEN {"Old", "Zero"} ELSE IF at <= 5 THEN {"Zero"} ELSE {"New"}
  /\ seen["gpt"] \in IF at = 1 THEN {"Old", "Zero"} ELSE {"Zero"}
  /\ seen["gptCopy"] \in IF at <= 4 THEN {"Old", "Zero"} ELSE {"Zero"}
  /\ seen["mbr"] = "Old" => seen["gpt"] = "Old" /\ seen["gptCopy"] = "Old"
  /\ seen["fatBoot"] \in IF at <= 2 THEN {"Old"} ELSE IF at <= 7 THEN {"Zero"}
                         ELSE IF at <= 14 THEN Contents \ {"Old"} ELSE {"New"}
  /\ seen["fatData"] \in IF at <= 7 THEN {"Old"} ELSE IF at <= 14 THEN Contents ELSE {"New"}
  /\ seen["exBoot"]  \in IF at <= 3 THEN {"Old"} ELSE IF at <= 22 THEN {"Zero"} ELSE {"New"}
  /\ seen["exCopy"]  \in IF at <= 3 THEN {"Old"} ELSE IF at <= 21 THEN {"Zero"} ELSE {"New"}
  /\ seen["exEnd"]   \in IF at <= 4 THEN {"Old"} ELSE IF at <= 19 THEN {"Zero"} ELSE {"New"}
  /\ seen["exFat"]   \in IF at <= 16 THEN {"Old"} ELSE {"New"}
  /\ seen["exRoot"]  \in IF at <= 17 THEN {"Old"} ELSE {"New"}
  /\ seen["exItems"] \in IF at <= 18 THEN {"Old"} ELSE {"New"}

\* The parts of the exFAT volume that its boot regions make valid.
Rest == {"exFat", "exRoot", "exItems", "exEnd"}

\* A good drive on Windows, where each flush reaches the medium: no boot region
\* of exFAT is on it before the rest is.
MayHold ==
  host.kind = "windows" /\ host.lost = {} /\ work.pc = "write" =>
    IF work.at <= 20
    THEN \A b \in {"exBoot", "exCopy"} : drive.may[b] \subseteq {"Old", "Zero"}
    ELSE \A p \in Rest : drive.may[p] = {"New"}

\* A SectorIo is open under the new table only.  It never holds the head of the
\* old volume, and once a volume is unmounted and repaired with no error it
\* holds what belongs there.
Buffered ==
  work.mem # Closed =>
    /\ drive.seen["mbr"] = "New"
    /\ work.mem["fatBoot"] # "Old"
    /\ work.pc = "write" /\ work.cause = "none" /\ work.at \in {13, 14} => work.mem["fatBoot"] = "New"
    /\ work.pc = "write" /\ work.cause = "none" /\ work.at = 14 => work.mem["fatData"] = "New"

\* What the finished drive shows.
Final(p) == IF p \in {"gpt", "gptCopy"} THEN "Zero" ELSE "New"

\* Between the end of the write and the start of the check.
Kept ==
  work.pc \in {"shut", "reopen", "table"} /\ ~host.wrote /\ host.lost = {} =>
    \A p \in Parts : drive.seen[p] = Final(p) /\ drive.may[p] = {Final(p)}

\* The handle of the check sees the medium, and each stage that is passed agreed.
Read ==
  /\ work.pc \in {"table", "fat32", "exfat"} => \A p \in Parts : drive.may[p] = {drive.seen[p]}
  /\ work.pc \in {"fat32", "exfat"} => Agrees("mbr")
  /\ work.pc = "exfat" => \A p \in FatParts : Agrees(p)

\* The inductive invariant, apart from the types.
Facts ==
  /\ Phases /\ MayHold /\ Buffered /\ Kept /\ Read
  /\ work.pc = "open" => \A p \in Parts : drive.seen[p] = "Old"
  /\ work.pc = "write" => Shows(drive.seen, work.at)
  /\ reached = "Nothing" => \A p \in Parts : drive.seen[p] = "Old"  /\ drive.may[p] = {"Old"}
  /\ NoOldUnderTheNewTable /\ ExfatBootComesLast /\ RefusedTreeLeavesTheVolume
  /\ WrittenIsOnTheMedium /\ CheckProves

IInv == TypeOK /\ Facts

-----------------------------------------------------------------------------
(* The order of the writes.                                                *)

\* The 24 steps, one by one: the first ten are of the table and the format of
\* FAT32, then come its files, the exFAT volume and the sync.
LEMMA OrderIs ==
  /\ Len(Order) = 24
  /\ Order[1] = Put(<<"mbr", "gpt">>, "Zero", {"Io"})
  /\ Order[2] = Put(<<"fatBoot">>, "Zero", {"Io"})
  /\ Order[3] = Put(<<"exBoot", "exCopy">>, "Zero", {"Io"})
  /\ Order[4] = Put(<<"exEnd", "gptCopy">>, "Zero", {"Io"})
  /\ Order[5] = Put(<<"mbr">>, "New", {"Io"})
  /\ Order[6] = Do("flush") /\ Order[7] = Do("format") /\ Order[8] = Do("close")
  /\ Order[9] = Do("count") /\ Order[10] = Do("close") /\ Order[11] = Do("copy")
  /\ Order[12] = Do("unmount") /\ Order[13] = Do("repair") /\ Order[14] = Do("close")
  /\ Order[15] = Do("place")
  /\ Order[16] = Put(<<"exFat">>, "New", {"Io"})
  /\ Order[17] = Put(<<"exRoot">>, "New", {"Io"})
  /\ Order[18] = Put(<<"exItems">>, "New", {"Io", "Source", "CannotCopy"})
  /\ Order[19] = Put(<<"exEnd">>, "New", {"Io", "Source", "CannotCopy"})
  /\ Order[20] = Do("flush")
  /\ Order[21] = Put(<<"exCopy">>, "New", {"Io"})
  /\ Order[22] = Put(<<"exBoot">>, "New", {"Io"})
  /\ Order[23] = Do("flush") /\ Order[24] = Do("sync")
BY DEF Order, WriteTable, FormatFat32, CopyToFat32, WriteExfat


\* The steps at which each operation comes.
LEMMA StepsAre ==
  ASSUME NEW at \in 1 .. 24
  PROVE  /\ Order[at].op = "put" <=> at \in {1, 2, 3, 4, 5, 16, 17, 18, 19, 21, 22}
         /\ Order[at].op = "flush" <=> at \in {6, 20, 23}
         /\ Order[at].op = "format" <=> at = 7
         /\ Order[at].op = "count" <=> at = 9
         /\ Order[at].op = "close" <=> at \in {8, 10, 14}
         /\ Order[at].op = "copy" <=> at = 11
         /\ Order[at].op = "unmount" <=> at = 12
         /\ Order[at].op = "repair" <=> at = 13
         /\ Order[at].op = "place" <=> at = 15
         /\ Order[at].op = "sync" <=> at = 24
<1>1. /\ \A i \in {1, 2, 3, 4, 5, 16, 17, 18, 19, 21, 22} : Order[i].op = "put"
      /\ \A i \in {6, 20, 23} : Order[i].op = "flush"
      /\ \A i \in {8, 10, 14} : Order[i].op = "close"
  BY OrderIs DEF Put, Do
<1>2. /\ Order[7].op = "format" /\ Order[9].op = "count" /\ Order[11].op = "copy"
      /\ Order[12].op = "unmount" /\ Order[13].op = "repair" /\ Order[15].op = "place"
      /\ Order[24].op = "sync"
  BY OrderIs DEF Do
<1>3. at \in {1, 2, 3, 4, 5, 16, 17, 18, 19, 21, 22} \cup {6, 20, 23} \cup {8, 10, 14}
             \cup {7, 9, 11, 12, 13, 15, 24}
  OBVIOUS
<1>4. QED
  BY <1>1, <1>2, <1>3

-----------------------------------------------------------------------------
(* The drive under a write, whole or broken off.                           *)

Drive == [seen : [Parts -> Contents], may : [Parts -> SUBSET Contents]]

Host == [kind : {"linux", "macos", "windows"}, lost : SUBSET Parts, held : BOOLEAN,
         readOnly : BOOLEAN, wrote : BOOLEAN]

Work == [pc : {"open", "write", "shut", "reopen", "table", "fat32", "exfat", "eject", "end"},
         at : 1 .. 24, prepared : BOOLEAN, mem : {Closed} \cup [FatParts -> Contents],
         cause : Errors \cup {"none"}, differs : BOOLEAN, result : Errors \cup {"none", "ok"}]

Reached == {"Nothing", "Writing", "Written", "Checking", "Checked"}

\* TypeOK, variable by variable; that a SectorIo is open inside its step is in
\* Phases as well.
LEMMA Typed ==
  TypeOK => work \in Work /\ reached \in Reached /\ drive \in Drive /\ host \in Host
BY OrderIs DEF TypeOK, Work, Reached, Drive, Host

\* A write shows at once, and the medium has it or what it had.
LEMMA WroteIs ==
  ASSUME drive \in Drive, NEW on \in SUBSET Parts, NEW data \in [on -> Contents]
  PROVE  /\ Wrote(data) \in Drive
         /\ \A p \in on : /\ Wrote(data).seen[p] = data[p]
                          /\ drive.may[p] \subseteq Wrote(data).may[p]
                          /\ Wrote(data).may[p] \subseteq drive.may[p] \cup {data[p]}
         /\ \A p \in Parts \ on : /\ Wrote(data).seen[p] = drive.seen[p]
                                  /\ Wrote(data).may[p] = drive.may[p]
<1>1. DOMAIN data = on
  OBVIOUS
<1>2. \A p \in Parts :
        /\ (IF p \in DOMAIN data THEN data[p] ELSE drive.seen[p]) \in Contents
        /\ (IF p \in DOMAIN data \ host.lost THEN drive.may[p] \cup {data[p]} ELSE drive.may[p])
             \in SUBSET Contents
  BY DEF Drive
<1>3. Wrote(data) \in Drive
  BY <1>1, <1>2 DEF Wrote, Drive
<1>4. ASSUME NEW p \in on
      PROVE  /\ Wrote(data).seen[p] = data[p]
             /\ drive.may[p] \subseteq Wrote(data).may[p]
             /\ Wrote(data).may[p] \subseteq drive.may[p] \cup {data[p]}
  BY <1>1 DEF Wrote
<1>5. ASSUME NEW p \in Parts \ on
      PROVE  Wrote(data).seen[p] = drive.seen[p] /\ Wrote(data).may[p] = drive.may[p]
  BY <1>1 DEF Wrote
<1>6. QED
  BY <1>3, <1>4, <1>5

\* After a sync the medium has what the drive shows, but for lost parts.
LEMMA SettledIs ==
  ASSUME NEW d \in Drive
  PROVE  /\ Settled(d) \in Drive /\ Settled(d).seen = d.seen
         /\ \A p \in Parts : Settled(d).may[p] = IF p \in host.lost THEN d.may[p] ELSE {d.seen[p]}
BY DEF Settled, Drive

\* A write of one content gives it to each of its parts.
LEMMA AsIs ==
  ASSUME NEW parts \in Seq(Parts), NEW as \in Contents
  PROVE  As(parts, as) \in [{parts[i] : i \in DOMAIN parts} -> {as}]
BY DEF As

\* What is left of the content of a write that broke off.
Pieces(as) == {as} \cup (IF as = "Zero" THEN {} ELSE {"Torn"})

\* What a write that broke off may leave: the other parts are as they were, and
\* each of its parts is old, new or torn; and the first one goes first.
Left(d, parts, as) ==
  /\ d \in Drive
  /\ \A p \in Parts :
       /\ d.seen[p] \in {drive.seen[p]} \cup Pieces(as)
       /\ d.may[p] \subseteq drive.may[p] \cup Pieces(as)
       /\ p \notin {parts[i] : i \in DOMAIN parts} =>
            d.seen[p] = drive.seen[p] /\ d.may[p] = drive.may[p]
  /\ \/ \A p \in Parts : d.seen[p] = drive.seen[p] /\ d.may[p] = drive.may[p]
     \/ d.seen[parts[1]] \in Pieces(as)

\* A write of some of its parts, whole or torn, leaves no other changed.
LEMMA WroteLeaves ==
  ASSUME drive \in Drive, NEW parts \in Seq(Parts), NEW as \in Contents,
         NEW some \in SUBSET Parts, NEW data \in [some -> Contents],
         some \subseteq {parts[i] : i \in DOMAIN parts},
         \A p \in some : data[p] \in Pieces(as),
         some = {} \/ parts[1] \in some
  PROVE  Left(Wrote(data), parts, as)
<1>1. /\ Wrote(data) \in Drive
      /\ \A p \in some : /\ Wrote(data).seen[p] = data[p]
                         /\ drive.may[p] \subseteq Wrote(data).may[p]
                         /\ Wrote(data).may[p] \subseteq drive.may[p] \cup {data[p]}
      /\ \A p \in Parts \ some : /\ Wrote(data).seen[p] = drive.seen[p]
                                 /\ Wrote(data).may[p] = drive.may[p]
  BY WroteIs
<1>2. some # {} => Wrote(data).seen[parts[1]] \in Pieces(as)
  BY <1>1
<1>3. some = {} => \A p \in Parts : /\ Wrote(data).seen[p] = drive.seen[p]
                                    /\ Wrote(data).may[p] = drive.may[p]
  BY <1>1
<1>4. \A p \in Parts :
        /\ Wrote(data).seen[p] \in {drive.seen[p]} \cup Pieces(as)
        /\ Wrote(data).may[p] \subseteq drive.may[p] \cup Pieces(as)
  <2> TAKE p \in Parts
  <2>1. CASE p \in some
    BY <1>1, <2>1
  <2>2. CASE p \notin some
    BY <1>1, <2>2
  <2>3. QED
    BY <2>1, <2>2
<1>5. \A p \in Parts : p \notin {parts[i] : i \in DOMAIN parts} =>
        Wrote(data).seen[p] = drive.seen[p] /\ Wrote(data).may[p] = drive.may[p]
  BY <1>1
<1>6. QED
  BY <1>1, <1>2, <1>3, <1>4, <1>5 DEF Left

\* The pieces of a write that broke off are such a choice.
LEMMA BrokenIs ==
  ASSUME drive \in Drive, NEW parts \in Seq(Parts), NEW as \in Contents,
         NEW d \in Broken(parts, as)
  PROVE  Left(d, parts, as)
<1>1. ASSUME NEW n \in 0 .. Len(parts) PROVE Left(Wrote(As(SubSeq(parts, 1, n), as)), parts, as)
  <2> DEFINE some == {parts[i] : i \in 1 .. n}
             data == As(SubSeq(parts, 1, n), as)
  <2>1. DOMAIN SubSeq(parts, 1, n) = 1 .. n /\ \A i \in 1 .. n : SubSeq(parts, 1, n)[i] = parts[i]
    OBVIOUS
  <2>2. data = [p \in some |-> as]
    BY <2>1 DEF As
  <2>3. /\ some \in SUBSET Parts /\ some \subseteq {parts[i] : i \in DOMAIN parts}
        /\ some = {} \/ parts[1] \in some
    OBVIOUS
  <2>4. data \in [some -> Contents] /\ \A p \in some : data[p] \in Pieces(as)
    BY <2>2 DEF Pieces
  <2> HIDE DEF some, data
  <2>5. Left(Wrote(data), parts, as)
    BY <2>3, <2>4, WroteLeaves
  <2>6. QED
    BY <2>5 DEF data
<1>2. ASSUME NEW n \in 1 .. Len(parts), as # "Zero"
      PROVE  Left(Wrote([p \in {parts[i] : i \in 1 .. n} |->
                           IF p = parts[n] THEN "Torn" ELSE as]), parts, as)
  <2> DEFINE some == {parts[i] : i \in 1 .. n}
             data == [p \in some |-> IF p = parts[n] THEN "Torn" ELSE as]
  <2>1. /\ some \in SUBSET Parts /\ some \subseteq {parts[i] : i \in DOMAIN parts}
        /\ parts[1] \in some
    OBVIOUS
  <2>2. data \in [some -> Contents] /\ \A p \in some : data[p] \in Pieces(as)
    BY <1>2 DEF Contents, Pieces
  <2> HIDE DEF some, data
  <2>3. Left(Wrote(data), parts, as)
    BY <2>1, <2>2, WroteLeaves
  <2>4. QED
    BY <2>3 DEF some, data
<1>3. \/ \E n \in 0 .. Len(parts) : d = Wrote(As(SubSeq(parts, 1, n), as))
      \/ \E n \in 1 .. Len(parts) : as # "Zero" /\
           d = Wrote([p \in {parts[i] : i \in 1 .. n} |-> IF p = parts[n] THEN "Torn" ELSE as])
  BY DEF Broken
<1>4. QED
  BY <1>1, <1>2, <1>3

-----------------------------------------------------------------------------
(* What the steps have in common.                                          *)

\* The types of a step, field by field.
LEMMA TypedNext ==
  ASSUME work' \in Work, reached' \in Reached, drive' \in Drive, host' \in Host, Phases'
  PROVE  TypeOK'
<1>1. work'.pc = "write" =>
        (work'.mem # Closed <=> Order[work'.at].op \in {"unmount", "repair", "close"})
  <2>1. work'.at \in 1 .. 24
    BY DEF Work
  <2>2. Order[work'.at].op \in {"unmount", "repair", "close"} <=> work'.at \in OpenSteps
    BY <2>1, StepsAre DEF OpenSteps
  <2>3. QED
    BY <2>2 DEF Phases
<1>2. QED
  BY <1>1, OrderIs DEF TypeOK, Work, Reached, Drive, Host

\* An error that ends the work and leaves the drive and the host alone; a full
\* volume is one of the placement alone.
LEMMA FailKeeps ==
  ASSUME IInv, NEW e \in Errors, Fail(e), UNCHANGED <<reached, drive, host>>,
         work.cause = "none", work.pc # "end",
         e = "VolumeFull" => work.pc = "write" /\ work.at = 15
  PROVE  IInv'
<1>1. work \in Work /\ reached \in Reached /\ drive \in Drive /\ host \in Host /\ Facts
  BY Typed DEF IInv
<1>2. /\ work'.pc = "end" /\ work'.result = e /\ work'.at = work.at /\ work'.mem = work.mem
      /\ work'.cause = work.cause /\ work'.prepared = work.prepared
      /\ work'.differs = work.differs /\ work' \in Work
  BY <1>1 DEF Fail, Work
<1>3. Phases'
  BY <1>1, <1>2 DEF Facts, Phases
<1>4. MayHold' /\ Buffered' /\ Kept' /\ Read'
  BY <1>1, <1>2 DEF Facts, MayHold, Buffered, Kept, Read
<1>5. NoOldUnderTheNewTable'
  BY <1>1, <1>2 DEF Facts, NoOldUnderTheNewTable
<1>6. ExfatBootComesLast'
  BY <1>1, <1>2 DEF Facts, ExfatBootComesLast
<1>7. RefusedTreeLeavesTheVolume'
  <2>1. CASE e = "VolumeFull"
    <3>1. Shows(drive.seen, 15)
      BY <1>1, <2>1 DEF Facts
    <3>2. QED
      BY <3>1 DEF RefusedTreeLeavesTheVolume, Shows, ExfatParts
  <2>2. CASE e # "VolumeFull"
    BY <1>2, <2>2 DEF RefusedTreeLeavesTheVolume
  <2>3. QED
    BY <2>1, <2>2
<1>8. WrittenIsOnTheMedium'
  <2>1. reached = "Written" => work.pc \in {"shut", "reopen", "table"}
    BY <1>1 DEF Facts, Phases, Work
  <2>2. reached = "Written" /\ ~host.wrote /\ host.lost = {} =>
          \A p \in Parts : drive.may[p] = {Final(p)}
    BY <1>1, <2>1 DEF Facts, Kept
  <2>3. QED
    BY <2>2 DEF WrittenIsOnTheMedium, Final
<1>9. CheckProves'
  BY <1>1, <1>2 DEF Facts, CheckProves
<1>10. Facts'
  BY <1>1, <1>2, <1>3, <1>4, <1>5, <1>6, <1>7, <1>8, <1>9 DEF Facts
<1>11. QED
  BY <1>1, <1>2, <1>3, <1>10, TypedNext DEF IInv

\* Steps of Order that leave the drive alone: what it shows suits the next step.
LEMMA ShowsOn ==
  ASSUME NEW seen \in [Parts -> Contents], NEW at \in {6, 7, 9, 11, 12, 13, 15, 20, 23},
         Shows(seen, at)
  PROVE  Shows(seen, at + 1)
BY DEF Shows, Parts, FatParts, ExfatParts, Contents

\* A step of Order that leaves the drive alone: the SectorIo, the error that
\* waits and the place change.
LEMMA QuietKeeps ==
  ASSUME IInv, work' \in Work, UNCHANGED <<reached, drive, host>>,
         work.pc = "write", work.at \in {7, 9, 11, 12, 13, 15},
         work'.pc = "write", work'.at = work.at + 1, work'.prepared = work.prepared,
         work'.result = work.result, work'.differs = work.differs,
         work'.cause # "VolumeFull", work'.cause # "none" => work'.at \in OpenSteps,
         work'.mem # Closed <=> work'.at \in OpenSteps,
         Buffered'
  PROVE  IInv'
<1>1. work \in Work /\ reached \in Reached /\ drive \in Drive /\ host \in Host /\ Facts
  BY Typed DEF IInv
<1>2. Phases'
  BY <1>1 DEF Facts, Phases
<1>3. MayHold' /\ Kept' /\ Read'
  BY <1>1 DEF Facts, MayHold, Kept, Read
<1>4. Shows(drive.seen, work.at)'
  <2>1. drive.seen \in [Parts -> Contents] /\ Shows(drive.seen, work.at)
    BY <1>1 DEF Facts, Drive
  <2>2. QED
    BY <2>1, ShowsOn
<1>5. NoOldUnderTheNewTable'
  BY <1>1 DEF Facts, NoOldUnderTheNewTable
<1>6. ExfatBootComesLast'
  BY <1>1 DEF Facts, ExfatBootComesLast
<1>7. RefusedTreeLeavesTheVolume'
  BY <1>1 DEF Facts, RefusedTreeLeavesTheVolume
<1>8. WrittenIsOnTheMedium' /\ CheckProves'
  BY <1>1 DEF Facts, Phases, WrittenIsOnTheMedium, CheckProves
<1>9. Facts'
  BY <1>1, <1>2, <1>3, <1>4, <1>5, <1>6, <1>7, <1>8 DEF Facts
<1>10. QED
  BY <1>1, <1>2, <1>9, TypedNext DEF IInv

\* While the write goes on, the properties follow from what the drive shows and
\* what its medium may hold.
LEMMA WritingKeeps ==
  ASSUME work' \in Work, reached' \in Reached, drive' \in Drive, host' \in Host,
         work'.pc = "write", Phases', MayHold', Buffered', Shows(drive'.seen, work'.at)
  PROVE  IInv'
<1>1. reached' = "Writing" /\ work'.result = "none"
  BY DEF Phases
<1>2. Kept' /\ Read'
  BY DEF Kept, Read
<1>3. NoOldUnderTheNewTable'
  <2>1. CASE work'.at <= 5
    BY <2>1 DEF NoOldUnderTheNewTable, Shows, Parts, FatParts, ExfatParts
  <2>2. CASE work'.at > 5
    BY <2>2 DEF NoOldUnderTheNewTable, Shows, Contents, Work
  <2>3. QED
    BY <2>1, <2>2 DEF Work
<1>4. ExfatBootComesLast'
  <2>1. CASE work'.at <= 20
    <3>1. drive'.seen["exBoot"] \in {"Old", "Zero"}
      BY <2>1 DEF Shows, Work
    <3>2. host'.kind = "windows" /\ host'.lost = {} =>
            \A b \in {"exBoot", "exCopy"} : drive'.may[b] \cap {"Torn", "New"} = {}
      BY <2>1 DEF MayHold
    <3>3. QED
      BY <3>1, <3>2 DEF ExfatBootComesLast
  <2>2. CASE work'.at \in {21, 22, 23, 24}
    <3>1. \A p \in Rest : drive'.seen[p] = "New"
      BY <2>2 DEF Shows, Rest
    <3>2. drive'.seen["exBoot"] \in {"Torn", "New"} => drive'.seen["exCopy"] = "New"
      BY <2>2 DEF Shows
    <3>3. host'.kind = "windows" /\ host'.lost = {} => \A p \in Rest : drive'.may[p] = {"New"}
      BY <2>2 DEF MayHold
    <3>4. QED
      BY <3>1, <3>2, <3>3 DEF ExfatBootComesLast, Rest
  <2>3. QED
    BY <2>1, <2>2 DEF Work
<1>5. RefusedTreeLeavesTheVolume' /\ WrittenIsOnTheMedium' /\ CheckProves'
  BY <1>1 DEF RefusedTreeLeavesTheVolume, WrittenIsOnTheMedium, CheckProves
<1>6. Facts'
  BY <1>1, <1>2, <1>3, <1>4, <1>5 DEF Facts
<1>7. QED
  BY <1>6, TypedNext DEF IInv

\* From the end of the write on, only what the medium holds counts.
LEMMA LaterKeeps ==
  ASSUME work' \in Work, reached' \in Reached, drive' \in Drive, host' \in Host,
         work'.pc \notin {"open", "write"}, work'.mem = Closed, work'.result # "VolumeFull",
         reached' \in {"Written", "Checking", "Checked"},
         Phases', Kept', Read', WrittenIsOnTheMedium', CheckProves'
  PROVE  IInv'
<1>1. MayHold' /\ Buffered'
  BY DEF MayHold, Buffered
<1>2. NoOldUnderTheNewTable' /\ ExfatBootComesLast' /\ RefusedTreeLeavesTheVolume'
  BY DEF NoOldUnderTheNewTable, ExfatBootComesLast, RefusedTreeLeavesTheVolume
<1>3. Facts'
  BY <1>1, <1>2 DEF Facts
<1>4. QED
  BY <1>3, TypedNext DEF IInv

-----------------------------------------------------------------------------
(* The writes.                                                             *)

\* The parts of a step of Order that writes.
Named(parts) == {parts[i] : i \in DOMAIN parts}

\* Where the writes of Order stand, and what each writes.
LEMMA PutsAre ==
  /\ Order[1].as = "Zero" /\ Named(Order[1].parts) = {"mbr", "gpt"} /\ Order[1].parts[1] = "mbr"
  /\ Order[2].as = "Zero" /\ Named(Order[2].parts) = {"fatBoot"}
  /\ Order[3].as = "Zero" /\ Named(Order[3].parts) = {"exBoot", "exCopy"}
  /\ Order[4].as = "Zero" /\ Named(Order[4].parts) = {"exEnd", "gptCopy"}
  /\ Order[5].as = "New"  /\ Named(Order[5].parts) = {"mbr"}
  /\ Order[16].as = "New" /\ Named(Order[16].parts) = {"exFat"}
  /\ Order[17].as = "New" /\ Named(Order[17].parts) = {"exRoot"}
  /\ Order[18].as = "New" /\ Named(Order[18].parts) = {"exItems"}
  /\ Order[19].as = "New" /\ Named(Order[19].parts) = {"exEnd"}
  /\ Order[21].as = "New" /\ Named(Order[21].parts) = {"exCopy"}
  /\ Order[22].as = "New" /\ Named(Order[22].parts) = {"exBoot"}
BY OrderIs DEF Put, Named

\* A write of these parts belongs to step `at`; at the first, that of
\* clear_table too, which comes before it on Windows.
Puts(at, parts, as) ==
  /\ at \in {1, 2, 3, 4, 5, 16, 17, 18, 19, 21, 22}
  /\ as = IF at <= 4 THEN "Zero" ELSE "New"
  /\ at = 1  => /\ parts[1] = "mbr"
                /\ Named(parts) \in {{"mbr", "gpt"}, {"mbr", "gpt", "gptCopy"}}
  /\ at = 2  => Named(parts) = {"fatBoot"}
  /\ at = 3  => Named(parts) = {"exBoot", "exCopy"}
  /\ at = 4  => Named(parts) = {"exEnd", "gptCopy"}
  /\ at = 5  => Named(parts) = {"mbr"}
  /\ at = 16 => Named(parts) = {"exFat"}
  /\ at = 17 => Named(parts) = {"exRoot"}
  /\ at = 18 => Named(parts) = {"exItems"}
  /\ at = 19 => Named(parts) = {"exEnd"}
  /\ at = 21 => Named(parts) = {"exCopy"}
  /\ at = 22 => Named(parts) = {"exBoot"}

\* A write of Order is one of Puts.
LEMMA PutIs ==
  ASSUME NEW at \in {1, 2, 3, 4, 5, 16, 17, 18, 19, 21, 22}
  PROVE  Puts(at, Order[at].parts, Order[at].as)
<1>1. CASE at \in {1, 2, 3, 4, 5}
  BY <1>1, PutsAre DEF Puts
<1>2. CASE at \in {16, 17, 18, 19, 21, 22}
  BY <1>2, PutsAre DEF Puts
<1>3. QED
  BY <1>1, <1>2

\* The writes name parts and contents.
LEMMA PutsAreTyped ==
  ASSUME NEW at \in {1, 2, 3, 4, 5, 16, 17, 18, 19, 21, 22}
  PROVE  /\ Order[at].parts \in Seq(Parts) /\ Named(Order[at].parts) \in SUBSET Parts
         /\ Order[at].as \in {"Zero", "New"}
         /\ Order[at].errors \subseteq {"Io", "Source", "CannotCopy"}
<1> DEFINE tuples == {<<"mbr", "gpt">>, <<"exBoot", "exCopy">>, <<"exEnd", "gptCopy">>}
                       \cup {<<p>> : p \in Parts}
<1>1. Order[at].parts \in tuples
  BY OrderIs DEF Put, Parts, FatParts, ExfatParts
<1>2. ASSUME NEW parts \in tuples PROVE parts \in Seq(Parts)
  <2>1. CASE parts = <<"mbr", "gpt">>
    BY <2>1 DEF Parts
  <2>2. CASE parts = <<"exBoot", "exCopy">>
    BY <2>2 DEF Parts, ExfatParts
  <2>3. CASE parts = <<"exEnd", "gptCopy">>
    BY <2>3 DEF Parts, ExfatParts
  <2>4. CASE parts \in {<<p>> : p \in Parts}
    <3>1. PICK p \in Parts : parts = <<p>>
      BY <2>4
    <3>2. <<p>> \in Seq(Parts)
      OBVIOUS
    <3>3. QED
      BY <3>1, <3>2
  <2>5. QED
    BY <2>1, <2>2, <2>3, <2>4
<1>3. Order[at].as \in {"Zero", "New"} /\ Order[at].errors \subseteq {"Io", "Source", "CannotCopy"}
  BY OrderIs DEF Put
<1>4. Order[at].parts \in Seq(Parts)
  BY <1>1, <1>2
<1>5. Named(Order[at].parts) \in SUBSET Parts
  BY <1>4 DEF Named
<1>6. QED
  BY <1>3, <1>4, <1>5

\* A whole step of Order that writes.
LEMMA PutShows ==
  ASSUME NEW seen \in [Parts -> Contents], NEW now \in [Parts -> Contents],
         NEW at \in {1, 2, 3, 4, 5, 16, 17, 18, 19, 21, 22}, Shows(seen, at),
         \A p \in Parts : now[p] = IF p \in Named(Order[at].parts) THEN Order[at].as ELSE seen[p]
  PROVE  Shows(now, at + 1)
<1> USE PutsAre DEF Parts, FatParts, ExfatParts
<1>1. CASE at = 1 BY <1>1 DEF Shows
<1>2. CASE at = 2 BY <1>2 DEF Shows
<1>3. CASE at = 3 BY <1>3 DEF Shows
<1>4. CASE at = 4 BY <1>4 DEF Shows
<1>5. CASE at = 5 BY <1>5 DEF Shows
<1>6. CASE at \in {16, 17, 18} BY <1>6 DEF Shows
<1>7. CASE at \in {19, 21, 22} BY <1>7 DEF Shows
<1>8. QED BY <1>1, <1>2, <1>3, <1>4, <1>5, <1>6, <1>7

\* The drive is whole and old at the start.
LEMMA InitKeeps == Init => IInv
<1> SUFFICES ASSUME Init PROVE IInv
  OBVIOUS
<1>1. /\ work.pc = "open" /\ work.at = 1 /\ work.mem = Closed /\ work.cause = "none"
      /\ work.result = "none" /\ work.prepared = FALSE /\ work.differs = FALSE
      /\ reached = "Nothing" /\ host.wrote = FALSE
  BY DEF Init
<1>2. \A p \in Parts : drive.seen[p] = "Old" /\ drive.may[p] = {"Old"}
  BY DEF Init
<1>3. TypeOK
  <2>1. work \in Work
    BY DEF Init, Work, Errors
  <2>2. drive \in Drive
    BY DEF Init, Drive, Contents
  <2>3. host \in Host
    BY DEF Init, Host
  <2>4. QED
    BY <1>1, <2>1, <2>2, <2>3, OrderIs DEF TypeOK, Work, Drive, Host
<1>4. Phases
  BY <1>1 DEF Phases
<1>5. MayHold /\ Buffered /\ Kept /\ Read
  BY <1>1 DEF MayHold, Buffered, Kept, Read
<1>6. NoOldUnderTheNewTable
  BY <1>2 DEF NoOldUnderTheNewTable, Parts, FatParts, ExfatParts
<1>7. ExfatBootComesLast
  BY <1>2 DEF ExfatBootComesLast, Parts, FatParts, ExfatParts
<1>8. RefusedTreeLeavesTheVolume /\ WrittenIsOnTheMedium /\ CheckProves
  BY <1>1 DEF RefusedTreeLeavesTheVolume, WrittenIsOnTheMedium, CheckProves
<1>9. QED
  BY <1>1, <1>2, <1>3, <1>4, <1>5, <1>6, <1>7, <1>8 DEF IInv, Facts

\* The drive opens, or the command ends with it untouched.
LEMMA OpenKeeps ==
  ASSUME IInv, Open
  PROVE  IInv'
<1>1. work \in Work /\ reached \in Reached /\ drive \in Drive /\ host \in Host /\ Facts
  BY Typed DEF IInv
<1>2. ASSUME NEW e \in {"Io", "DriveChanged"}, Fail(e), UNCHANGED <<reached, host>>
      PROVE  IInv'
  BY <1>1, <1>2, FailKeeps DEF Open, Errors, Facts, Phases
<1>3. CASE /\ work' = [work EXCEPT !.pc = "write"] /\ reached' = "Writing"
           /\ host' = [host EXCEPT !.held = TRUE]
  <2>1. /\ work.pc = "open" /\ UNCHANGED drive /\ work'.pc = "write" /\ work'.at = work.at
        /\ work'.mem = work.mem /\ work'.cause = work.cause /\ work'.prepared = work.prepared
        /\ work'.result = work.result /\ work'.differs = work.differs /\ work' \in Work
        /\ host' \in Host /\ host'.kind = host.kind /\ host'.wrote = host.wrote
    BY <1>1, <1>3 DEF Open, Work, Host
  <2>2. /\ work.at = 1 /\ work.mem = Closed /\ work.cause = "none" /\ ~work.differs
        /\ ~host.wrote /\ work.result = "none" /\ reached = "Nothing"
    BY <1>1, <2>1 DEF Facts, Phases
  <2>3. \A p \in Parts : drive.seen[p] = "Old" /\ drive.may[p] = {"Old"}
    BY <1>1, <2>2 DEF Facts
  <2>4. Phases'
    BY <1>3, <2>1, <2>2 DEF Phases, OpenSteps
  <2>5. MayHold' /\ Buffered' /\ Kept' /\ Read'
    BY <2>1, <2>2, <2>3 DEF MayHold, Buffered, Kept, Read, Parts, FatParts, ExfatParts
  <2>6. Shows(drive.seen, work.at)'
    BY <2>1, <2>2, <2>3 DEF Shows, Parts, FatParts, ExfatParts
  <2>7. NoOldUnderTheNewTable'
    BY <2>1, <2>3 DEF NoOldUnderTheNewTable, Parts, FatParts, ExfatParts
  <2>8. ExfatBootComesLast'
    BY <2>1, <2>3 DEF ExfatBootComesLast, Parts, FatParts, ExfatParts
  <2>9. RefusedTreeLeavesTheVolume' /\ WrittenIsOnTheMedium' /\ CheckProves'
    BY <1>3, <2>1, <2>2 DEF RefusedTreeLeavesTheVolume, WrittenIsOnTheMedium, CheckProves
  <2>10. Facts'
    BY <1>3, <2>1, <2>4, <2>5, <2>6, <2>7, <2>8, <2>9 DEF Facts
  <2>11. QED
    BY <1>1, <1>3, <2>1, <2>4, <2>10, TypedNext DEF IInv, Reached
<1>4. QED
  BY <1>2, <1>3 DEF Open

\* A write that broke off ends the work, with whatever it left.
LEMMA BrokenPutKeeps ==
  ASSUME IInv, work.pc = "write", work.mem = Closed,
         work' \in Work, host' \in Host, UNCHANGED reached,
         host'.kind = host.kind, host'.lost = host.lost, host'.wrote = host.wrote,
         work'.pc = "end", work'.at = work.at, work'.mem = Closed, work'.cause = "none",
         work'.result \in {"Io", "Source", "CannotCopy"}, ~work'.differs,
         NEW parts \in Seq(Parts), NEW as \in {"Zero", "New"}, Left(drive', parts, as),
         Puts(work.at, parts, as)
  PROVE  IInv'
<1>1. work \in Work /\ reached \in Reached /\ drive \in Drive /\ host \in Host /\ Facts
  BY Typed DEF IInv
<1>2. /\ reached = "Writing" /\ ~host.wrote /\ Shows(drive.seen, work.at) /\ work.cause = "none"
  BY <1>1 DEF Facts, Phases
<1>3. Phases'
  BY <1>2 DEF Phases
<1>4. MayHold' /\ Buffered' /\ Kept' /\ Read'
  BY DEF MayHold, Buffered, Kept, Read
<1>5. /\ drive' \in Drive
      /\ \A p \in Parts :
           /\ drive'.seen[p] \in {drive.seen[p]} \cup Pieces(as)
           /\ drive'.may[p] \subseteq drive.may[p] \cup Pieces(as)
           /\ p \notin Named(parts) =>
                drive'.seen[p] = drive.seen[p] /\ drive'.may[p] = drive.may[p]
      /\ \/ \A p \in Parts : drive'.seen[p] = drive.seen[p] /\ drive'.may[p] = drive.may[p]
         \/ drive'.seen[parts[1]] \in Pieces(as)
  BY DEF Left, Named
<1> DEFINE seen == drive.seen
           now  == drive'.seen
<1> HIDE DEF now, seen
<1>6. /\ Puts(work.at, parts, as) /\ Shows(seen, work.at)
      /\ \A p \in Parts : /\ now[p] \in {seen[p]} \cup Pieces(as)
                          /\ p \notin Named(parts) => now[p] = seen[p]
      /\ (\A p \in Parts : now[p] = seen[p]) \/ now[parts[1]] \in Pieces(as)
  BY <1>2, <1>5 DEF now, seen
<1>7. NoOldUnderTheNewTable'
  <2> USE <1>6 DEF Pieces, Parts, FatParts, ExfatParts
  <2>1. /\ now["mbr"] = "New" =>
             \A p \in {"gpt", "gptCopy", "fatBoot", "exBoot", "exCopy"} : now[p] # "Old"
        /\ now["mbr"] = "Old" => \A p \in Parts : now[p] = "Old"
    <3>1. CASE work.at = 1
      <4>1. as = "Zero" /\ parts[1] = "mbr" /\ Named(parts) \subseteq {"mbr", "gpt", "gptCopy"}
        BY <3>1 DEF Puts
      <4>2. now["mbr"] # "New"
        BY <3>1, <4>1 DEF Shows
      <4>3. now["mbr"] = "Old" => \A p \in Parts : now[p] = seen[p]
        BY <4>1
      <4>4. seen["mbr"] = "Old" => \A p \in Parts : seen[p] = "Old"
        BY <3>1 DEF Shows
      <4>5. QED
        BY <4>2, <4>3, <4>4
    <3>2. CASE work.at \in {2, 3, 4}
      <4>1. "mbr" \notin Named(parts) /\ seen["mbr"] = "Zero"
        BY <3>2 DEF Puts, Shows
      <4>2. QED
        BY <4>1
    <3>3. CASE work.at = 5
      <4>1. Named(parts) = {"mbr"} /\ as = "New"
        BY <3>3 DEF Puts
      <4>2. \A p \in {"gpt", "gptCopy", "fatBoot", "exBoot", "exCopy"} :
              seen[p] = "Zero" /\ now[p] = seen[p]
        BY <3>3, <4>1 DEF Shows
      <4>3. now["mbr"] # "Old"
        BY <3>3, <4>1 DEF Shows
      <4>4. QED
        BY <4>2, <4>3
    <3>4. CASE work.at \in {16, 17, 18, 19, 21, 22}
      <4>1. Named(parts) \subseteq ExfatParts /\ as = "New"
        BY <3>4 DEF Puts
      <4>2. \A p \in {"mbr", "gpt", "gptCopy", "fatBoot"} : now[p] = seen[p]
        BY <4>1
      <4>3. /\ seen["mbr"] = "New" /\ seen["gpt"] = "Zero" /\ seen["gptCopy"] = "Zero"
            /\ seen["fatBoot"] = "New" /\ seen["exBoot"] = "Zero"
            /\ seen["exCopy"] \in {"Zero", "New"}
        BY <3>4 DEF Shows
      <4>4. now["exBoot"] # "Old" /\ now["exCopy"] # "Old"
        BY <4>1, <4>3
      <4>5. QED
        BY <4>2, <4>3, <4>4
    <3>5. QED
      BY <3>1, <3>2, <3>3, <3>4 DEF Puts
  <2>2. QED
    BY <2>1 DEF NoOldUnderTheNewTable, now
<1>8. ExfatBootComesLast'
  <2>1. CASE work.at \in {21, 22}
    <3>1. as = "New" /\ Named(parts) = {IF work.at = 21 THEN "exCopy" ELSE "exBoot"}
      BY <2>1, <1>6 DEF Puts
    <3>2. Rest \subseteq Parts \ Named(parts)
      BY <2>1, <3>1 DEF Rest, Parts, ExfatParts
    <3>3. \A p \in Rest : now[p] = seen[p] /\ drive'.may[p] = drive.may[p]
      BY <3>2, <1>5, <1>6
    <3>4. \A p \in Rest : seen[p] = "New"
      BY <2>1, <1>6 DEF Shows, Rest
    <3>5. host.kind = "windows" /\ host.lost = {} => \A p \in Rest : drive.may[p] = {"New"}
      BY <2>1, <1>1 DEF Facts, MayHold
    <3>6. now["exBoot"] \in {"Torn", "New"} => now["exCopy"] = "New"
      <4>1. {"exBoot", "exCopy"} \subseteq Parts
        BY DEF Parts, ExfatParts
      <4>2. CASE work.at = 21
        <5>1. now["exBoot"] = seen["exBoot"] /\ seen["exBoot"] = "Zero"
          BY <4>1, <4>2, <3>1, <1>6 DEF Shows
        <5>2. QED
          BY <5>1
      <4>3. CASE work.at = 22
        <5>1. now["exCopy"] = seen["exCopy"] /\ seen["exCopy"] = "New"
          BY <4>1, <4>3, <3>1, <1>6 DEF Shows
        <5>2. QED
          BY <5>1
      <4>4. QED
        BY <2>1, <4>2, <4>3
    <3>7. QED
      BY <3>3, <3>4, <3>5, <3>6 DEF ExfatBootComesLast, Rest, now
  <2>2. CASE work.at \notin {21, 22}
    <3>1. as = "Zero" \/ Named(parts) \cap {"exBoot", "exCopy"} = {}
      BY <2>2, <1>6 DEF Puts
    <3>2. \A b \in {"exBoot", "exCopy"} : b \in Parts
      BY DEF Parts, ExfatParts
    <3>3. \A b \in {"exBoot", "exCopy"} :
            now[b] \in {seen[b], "Zero"} /\ drive'.may[b] \subseteq drive.may[b] \cup {"Zero"}
      BY <3>1, <3>2, <1>5, <1>6 DEF Pieces
    <3>4. seen["exBoot"] \in {"Old", "Zero"} /\ work.at <= 20
      BY <2>2, <1>6 DEF Shows, Puts
    <3>5. now["exBoot"] \notin {"Torn", "New"}
      BY <3>3, <3>4
    <3>6. host.kind = "windows" /\ host.lost = {} =>
            \A b \in {"exBoot", "exCopy"} : drive.may[b] \subseteq {"Old", "Zero"}
      BY <3>4, <1>1 DEF Facts, MayHold
    <3>7. host.kind = "windows" /\ host.lost = {} =>
            \A b \in {"exBoot", "exCopy"} : drive'.may[b] \cap {"Torn", "New"} = {}
      BY <3>3, <3>6
    <3>8. QED
      BY <3>5, <3>7 DEF ExfatBootComesLast, now
  <2>3. QED
    BY <2>1, <2>2
<1>9. RefusedTreeLeavesTheVolume' /\ WrittenIsOnTheMedium' /\ CheckProves'
  BY <1>2 DEF RefusedTreeLeavesTheVolume, WrittenIsOnTheMedium, CheckProves
<1>10. Facts'
  BY <1>2, <1>3, <1>4, <1>7, <1>8, <1>9 DEF Facts
<1>11. QED
  BY <1>1, <1>3, <1>5, <1>10, TypedNext DEF IInv

\* On Windows the tables go first.
LEMMA PrepareKeeps ==
  ASSUME IInv, Prepare
  PROVE  IInv'
<1>1. work \in Work /\ reached \in Reached /\ drive \in Drive /\ host \in Host /\ Facts
  BY Typed DEF IInv
<1> DEFINE areas == <<"mbr", "gpt", "gptCopy">>
<1>2. /\ work.pc = "write" /\ ~work.prepared /\ host.kind = "windows" /\ UNCHANGED reached
      /\ host' = [host EXCEPT !.readOnly = FALSE]
  BY DEF Prepare, At, Unprepared
<1>3. host' \in Host /\ host'.kind = host.kind /\ host'.lost = host.lost /\ host'.wrote = host.wrote
  BY <1>1, <1>2 DEF Host
<1>4. /\ work.at = 1 /\ work.mem = Closed /\ work.cause = "none" /\ ~work.differs /\ ~host.wrote
      /\ work.result = "none" /\ reached = "Writing" /\ Shows(drive.seen, 1)
  BY <1>1, <1>2 DEF Facts, Phases, OpenSteps
<1>5. areas \in Seq(Parts) /\ Named(areas) = {"mbr", "gpt", "gptCopy"} /\ areas[1] = "mbr"
  BY DEF Named, Parts, FatParts, ExfatParts
<1>6. \A b \in {"exBoot", "exCopy"} : b \in Parts \ Named(areas) /\ drive.seen[b] = "Old"
  BY <1>4, <1>5 DEF Shows, Parts, FatParts, ExfatParts
<1>7. CASE drive' = Wrote(As(areas, "Zero")) /\ work' = [work EXCEPT !.prepared = TRUE]
  <2>1. /\ work'.pc = "write" /\ work'.at = 1 /\ work'.mem = Closed /\ work'.cause = "none"
        /\ work'.prepared /\ work'.result = "none" /\ ~work'.differs /\ work' \in Work
    BY <1>1, <1>2, <1>4, <1>7 DEF Work
  <2> DEFINE data == As(areas, "Zero")
  <2>2. data \in [Named(areas) -> {"Zero"}]
    BY <1>5, AsIs DEF Contents, Named
  <2>3. data \in [Named(areas) -> Contents] /\ Named(areas) \in SUBSET Parts
        /\ \A p \in Named(areas) : data[p] = "Zero"
    BY <1>5, <2>2 DEF Contents, Parts, FatParts, ExfatParts
  <2> HIDE DEF data, areas
  <2>4. /\ drive' \in Drive
        /\ \A p \in Named(areas) : drive'.seen[p] = "Zero"
        /\ \A p \in Parts \ Named(areas) : /\ drive'.seen[p] = drive.seen[p]
                                           /\ drive'.may[p] = drive.may[p]
    BY <1>1, <1>7, <2>3, WroteIs DEF data
  <2>5. Phases'
    BY <1>2, <1>3, <1>4, <2>1 DEF Phases, OpenSteps
  <2>6. MayHold'
    BY <1>1, <1>2, <1>3, <1>4, <1>6, <2>1, <2>4 DEF Facts, MayHold
  <2>7. Buffered' /\ Kept' /\ Read'
    BY <2>1 DEF Buffered, Kept, Read
  <2>8. Shows(drive.seen, work.at)'
    BY <1>4, <1>5, <2>1, <2>4 DEF Shows, Parts, FatParts, ExfatParts
  <2>9. NoOldUnderTheNewTable'
    BY <1>5, <2>4 DEF NoOldUnderTheNewTable
  <2>10. drive'.seen["exBoot"] = "Old" /\ drive'.may["exBoot"] = drive.may["exBoot"]
         /\ drive'.may["exCopy"] = drive.may["exCopy"]
    BY <1>6, <2>4
  <2>11. ExfatBootComesLast'
    <3>1. host.kind = "windows" /\ host.lost = {} =>
            \A b \in {"exBoot", "exCopy"} : drive.may[b] \cap {"Torn", "New"} = {}
      BY <1>1, <1>2, <1>4 DEF Facts, MayHold
    <3>2. QED
      BY <1>3, <2>10, <3>1 DEF ExfatBootComesLast
  <2>12. RefusedTreeLeavesTheVolume' /\ WrittenIsOnTheMedium' /\ CheckProves'
    BY <1>2, <1>4, <2>1 DEF RefusedTreeLeavesTheVolume, WrittenIsOnTheMedium, CheckProves
  <2>13. Facts'
    BY <1>2, <1>4, <2>1, <2>5, <2>6, <2>7, <2>8, <2>9, <2>11, <2>12 DEF Facts
  <2>14. QED
    BY <1>1, <1>2, <1>3, <2>1, <2>4, <2>5, <2>13, TypedNext DEF IInv
<1>8. CASE drive' \in Broken(areas, "Zero") /\ Fail("Io")
  <2>1. /\ work'.pc = "end" /\ work'.at = 1 /\ work'.mem = Closed /\ work'.cause = "none"
        /\ work'.result = "Io" /\ ~work'.differs /\ work' \in Work
    BY <1>1, <1>2, <1>4, <1>8 DEF Work, Fail, Errors
  <2> HIDE DEF areas
  <2>2. Left(drive', areas, "Zero")
    BY <1>1, <1>5, <1>8, BrokenIs DEF Contents
  <2>3. QED
    BY <1>1, <1>2, <1>3, <1>4, <1>5, <2>1, <2>2, BrokenPutKeeps DEF Puts
<1>9. QED
  BY <1>7, <1>8 DEF Prepare

\* A write brings the drive to the next step, or breaks off within it.
LEMMA WritePartsKeeps ==
  ASSUME IInv, WriteParts
  PROVE  IInv'
<1>1. work \in Work /\ reached \in Reached /\ drive \in Drive /\ host \in Host /\ Facts
  BY Typed DEF IInv
<1> DEFINE at == work.at
           parts == Order[at].parts
           as == Order[at].as
<1>2. /\ work.pc = "write" /\ UNCHANGED <<reached, host>>
      /\ host.kind = "windows" => work.prepared
      /\ at \in {1, 2, 3, 4, 5, 16, 17, 18, 19, 21, 22}
  BY <1>1, StepsAre DEF WriteParts, At, Step, Unprepared, Work
<1>3. /\ work.mem = Closed /\ work.cause = "none" /\ ~work.differs /\ ~host.wrote
      /\ work.result = "none" /\ reached = "Writing" /\ Shows(drive.seen, at) /\ MayHold
  BY <1>1, <1>2 DEF Facts, Phases, OpenSteps
<1>4. /\ parts \in Seq(Parts) /\ Named(parts) \in SUBSET Parts /\ as \in {"Zero", "New"}
      /\ Order[at].errors \subseteq {"Io", "Source", "CannotCopy"} /\ Puts(at, parts, as)
  <2>1. Puts(at, parts, as)
    BY <1>2, PutIs
  <2>2. QED
    BY <1>2, <2>1, PutsAreTyped
<1>5. \/ drive' = Wrote(As(parts, as)) /\ work' = Advance
      \/ drive' \in Broken(parts, as) /\ \E e \in Order[at].errors : Fail(e)
  BY DEF WriteParts, Step
<1>6. as \in Contents /\ {"Io", "Source", "CannotCopy"} \subseteq Errors
  BY <1>4 DEF Contents, Errors
<1>7. CASE drive' = Wrote(As(parts, as)) /\ work' = Advance
  <2>1. /\ work' \in Work /\ work'.pc = "write" /\ work'.at = at + 1 /\ work'.mem = Closed
        /\ work'.cause = "none" /\ work'.prepared = work.prepared /\ work'.result = "none"
        /\ ~work'.differs
    BY <1>1, <1>2, <1>3, <1>7 DEF Work, Advance
  <2> DEFINE data == As(parts, as)
             on == Named(parts)
  <2>2. data \in [on -> {as}]
    BY <1>4, <1>6, AsIs DEF Named
  <2>3. data \in [on -> Contents] /\ \A p \in on : data[p] = as
    BY <1>6, <2>2
  <2> HIDE DEF data, on
  <2>4. /\ drive' \in Drive
        /\ \A p \in on : /\ drive'.seen[p] = data[p] /\ drive'.may[p] \subseteq drive.may[p] \cup {data[p]}
        /\ \A p \in Parts \ on : drive'.seen[p] = drive.seen[p] /\ drive'.may[p] = drive.may[p]
    <3>1. on \in SUBSET Parts /\ drive' = Wrote(data)
      BY <1>4, <1>7 DEF data, on
    <3>2. QED
      BY <1>1, <2>3, <3>1, WroteIs
  <2>5. /\ \A p \in on : drive'.seen[p] = as /\ drive'.may[p] \subseteq drive.may[p] \cup {as}
        /\ \A p \in Parts \ on : drive'.seen[p] = drive.seen[p] /\ drive'.may[p] = drive.may[p]
    BY <2>3, <2>4
  <2>6. Phases'
    BY <1>2, <1>3, <2>1 DEF Phases, OpenSteps
  <2>7. MayHold'
    <3>1. SUFFICES ASSUME host.kind = "windows", host.lost = {}
                   PROVE  IF at + 1 <= 20
                          THEN \A b \in {"exBoot", "exCopy"} : drive'.may[b] \subseteq {"Old", "Zero"}
                          ELSE \A p \in Rest : drive'.may[p] = {"New"}
      BY <1>2, <2>1 DEF MayHold
    <3>2. CASE at <= 19
      <4>1. \A b \in {"exBoot", "exCopy"} : drive.may[b] \subseteq {"Old", "Zero"}
        BY <1>2, <1>3, <3>1, <3>2 DEF MayHold
      <4>2. as = "Zero" \/ on \cap {"exBoot", "exCopy"} = {}
        BY <1>2, <1>4, <3>2 DEF Puts, on
      <4>3. {"exBoot", "exCopy"} \subseteq Parts
        BY DEF Parts, ExfatParts
      <4>4. QED
        BY <1>2, <2>5, <3>2, <4>1, <4>2, <4>3
    <3>3. CASE at \in {21, 22}
      <4>1. \A p \in Rest : drive.may[p] = {"New"}
        BY <1>3, <1>2, <3>1, <3>3 DEF MayHold
      <4>2. Rest \subseteq Parts \ on
        BY <1>4, <3>3 DEF Puts, on, Rest, Parts, ExfatParts
      <4>3. QED
        BY <2>5, <3>3, <4>1, <4>2
    <3>4. QED
      BY <1>2, <3>2, <3>3
  <2>8. Shows(drive'.seen, work'.at)
    <3>1. drive.seen \in [Parts -> Contents] /\ drive'.seen \in [Parts -> Contents]
      BY <1>1, <2>4 DEF Drive
    <3>2. \A p \in Parts : drive'.seen[p] = IF p \in Named(parts) THEN as ELSE drive.seen[p]
      BY <2>5 DEF on
    <3>3. QED
      BY <1>2, <1>3, <2>1, <3>1, <3>2, PutShows
  <2>9. Buffered'
    BY <2>1 DEF Buffered
  <2>10. QED
    BY <1>1, <1>2, <2>1, <2>4, <2>6, <2>7, <2>8, <2>9, WritingKeeps
<1>8. CASE drive' \in Broken(parts, as) /\ \E e \in Order[at].errors : Fail(e)
  <2>1. PICK e \in {"Io", "Source", "CannotCopy"} : Fail(e)
    BY <1>4, <1>8
  <2>2. /\ work'.pc = "end" /\ work'.at = at /\ work'.mem = Closed /\ work'.cause = "none"
        /\ work'.result = e /\ ~work'.differs /\ work' \in Work
    BY <1>1, <1>2, <1>3, <1>6, <2>1 DEF Work, Fail
  <2>3. Left(drive', parts, as)
    BY <1>1, <1>4, <1>6, <1>8, BrokenIs
  <2> HIDE DEF parts, as
  <2>4. QED
    BY <1>1, <1>2, <1>3, <1>4, <2>2, <2>3, BrokenPutKeeps
<1>9. QED
  BY <1>5, <1>7, <1>8

\* A flush brings the medium level on Windows and changes nothing shown.
LEMMA FlushKeeps ==
  ASSUME IInv, Flush
  PROVE  IInv'
<1>1. work \in Work /\ reached \in Reached /\ drive \in Drive /\ host \in Host /\ Facts
  BY Typed DEF IInv
<1>2. work.pc = "write" /\ work.at \in {6, 20, 23} /\ UNCHANGED <<reached, host>>
  BY <1>1, StepsAre DEF Flush, At, Step, Work
<1>3. /\ work.mem = Closed /\ work.cause = "none" /\ ~work.differs /\ ~host.wrote
      /\ work.result = "none" /\ reached = "Writing" /\ Shows(drive.seen, work.at) /\ MayHold
      /\ host.kind = "windows" => work.prepared
  BY <1>1, <1>2 DEF Facts, Phases, OpenSteps
<1>4. CASE drive' = Flushed(drive) /\ work' = Advance
  <2>1. /\ work' \in Work /\ work'.pc = "write" /\ work'.at = work.at + 1 /\ work'.mem = Closed
        /\ work'.cause = "none" /\ work'.prepared = work.prepared /\ work'.result = "none"
        /\ ~work'.differs
    BY <1>1, <1>2, <1>3, <1>4 DEF Work, Advance
  <2>2. /\ drive' \in Drive /\ drive'.seen = drive.seen
        /\ host.kind = "windows" /\ host.lost = {} =>
             \A p \in Parts : drive'.may[p] = {drive.seen[p]}
    BY <1>1, <1>4, SettledIs DEF Flushed
  <2>3. Shows(drive'.seen, work'.at)
    BY <1>1, <1>2, <1>3, <2>1, <2>2, ShowsOn DEF Drive
  <2>4. Phases'
    BY <1>2, <1>3, <2>1 DEF Phases, OpenSteps
  <2>5. MayHold'
    <3>1. SUFFICES ASSUME host.kind = "windows", host.lost = {}
                   PROVE  IF work.at + 1 <= 20
                          THEN \A b \in {"exBoot", "exCopy"} : drive'.may[b] \subseteq {"Old", "Zero"}
                          ELSE \A p \in Rest : drive'.may[p] = {"New"}
      BY <1>2, <2>1 DEF MayHold
    <3>2. CASE work.at = 6
      BY <1>3, <2>2, <3>1, <3>2 DEF Shows, Parts, ExfatParts
    <3>3. CASE work.at \in {20, 23}
      BY <1>3, <2>2, <3>1, <3>3 DEF Shows, Rest, Parts, ExfatParts
    <3>4. QED
      BY <1>2, <3>2, <3>3
  <2>6. Buffered'
    BY <2>1 DEF Buffered
  <2>7. QED
    BY <1>1, <1>2, <2>1, <2>2, <2>3, <2>4, <2>5, <2>6, WritingKeeps
<1>5. CASE UNCHANGED drive /\ Fail("Io")
  BY <1>2, <1>3, <1>5, FailKeeps DEF Errors
<1>6. QED
  BY <1>4, <1>5 DEF Flush

-----------------------------------------------------------------------------
(* The steps of FAT32, through a SectorIo.                                 *)

\* An open SectorIo has a content for each part of the FAT32 volume.
LEMMA OpenIs ==
  ASSUME NEW mem \in [FatParts -> Contents]
  PROVE  mem # Closed
<1>1. DOMAIN mem = FatParts /\ DOMAIN Closed = {}
  BY DEF Closed
<1>2. QED
  BY <1>1 DEF FatParts

\* The next step of Order, with this SectorIo and this error that waits.
With(mem, e) ==
  [pc |-> work.pc, at |-> work.at + 1, prepared |-> work.prepared, mem |-> mem, cause |-> e,
   differs |-> work.differs, result |-> work.result]

\* Going on changes the step and what is buffered.
LEMMA NextIs ==
  ASSUME work \in Work, work.at < 24, NEW mem \in {Closed} \cup [FatParts -> Contents],
         NEW e \in Errors \cup {"none"}, work' = With(mem, e)
  PROVE  /\ work' \in Work /\ work'.pc = work.pc /\ work'.at = work.at + 1
         /\ work'.mem = mem /\ work'.cause = e /\ work'.prepared = work.prepared
         /\ work'.result = work.result /\ work'.differs = work.differs
<1> DEFINE next == With(mem, e)
<1>1. /\ work.at + 1 \in 1 .. 24 /\ work.prepared \in BOOLEAN /\ work.differs \in BOOLEAN
      /\ work.result \in Errors \cup {"none", "ok"}
      /\ work.pc \in {"open", "write", "shut", "reopen", "table", "fat32", "exfat", "eject", "end"}
  BY DEF Work
<1>2. next \in Work
  BY <1>1 DEF Work, With
<1>3. /\ next.pc = work.pc /\ next.at = work.at + 1 /\ next.mem = mem /\ next.cause = e
      /\ next.prepared = work.prepared /\ next.result = work.result
      /\ next.differs = work.differs
  BY DEF With
<1> HIDE DEF next
<1>4. QED
  BY <1>2, <1>3 DEF next

\* The format buffers the head of the new volume.
LEMMA FormatKeeps ==
  ASSUME IInv, Format
  PROVE  IInv'
<1>1. work \in Work /\ reached \in Reached /\ drive \in Drive /\ host \in Host /\ Facts
  BY Typed DEF IInv
<1>2. work.pc = "write" /\ work.at = 7 /\ UNCHANGED <<reached, drive, host>>
  BY <1>1, StepsAre DEF Format, At, Step, Work
<1>3. work.cause = "none" /\ Shows(drive.seen, 7)
  BY <1>1, <1>2 DEF Facts, Phases, OpenSteps
<1>4. ASSUME NEW mem \in [FatParts -> Contents], NEW e \in {"none", "Io"},
             work' = [Advance EXCEPT !.mem = mem, !.cause = e], mem["fatBoot"] # "Old"
      PROVE  IInv'
  <2>1. /\ work' \in Work /\ work'.pc = "write" /\ work'.at = 8 /\ work'.mem = mem
        /\ work'.cause = e /\ work'.prepared = work.prepared /\ work'.result = work.result
        /\ work'.differs = work.differs
    <3>1. work' = With(mem, e)
      BY <1>1, <1>4 DEF With, Advance, Work
    <3>2. e \in Errors \cup {"none"} /\ work.at < 24
      BY <1>2, <1>4 DEF Errors
    <3>3. QED
      BY <1>1, <1>2, <3>1, <3>2, NextIs
  <2>2. Buffered'
    BY <1>2, <1>3, <1>4, <2>1 DEF Buffered, Shows
  <2>3. QED
    BY <1>2, <1>4, <2>1, <2>2, OpenIs, QuietKeeps DEF OpenSteps
<1>5. ASSUME NEW done \in SUBSET FatParts
      PROVE  /\ [p \in FatParts |-> IF p \in done THEN "Empty" ELSE drive.seen[p]]
                  \in [FatParts -> Contents]
             /\ (IF "fatBoot" \in done THEN "Empty" ELSE drive.seen["fatBoot"]) # "Old"
  BY <1>1, <1>3 DEF Drive, Shows, Parts, Contents
<1>6. ASSUME NEW done \in SUBSET FatParts,
             work' = [Advance EXCEPT !.cause = "Io",
                        !.mem = [p \in FatParts |-> IF p \in done THEN "Empty" ELSE drive.seen[p]]]
      PROVE  IInv'
  <2> DEFINE mem == [p \in FatParts |-> IF p \in done THEN "Empty" ELSE drive.seen[p]]
  <2>1. mem \in [FatParts -> Contents] /\ mem["fatBoot"] # "Old"
    BY <1>5 DEF FatParts
  <2>2. work' = [Advance EXCEPT !.mem = mem, !.cause = "Io"]
    BY <1>6
  <2> HIDE DEF mem
  <2>3. QED
    BY <1>4, <2>1, <2>2
<1>7. ASSUME work' = [Advance EXCEPT !.mem = [p \in FatParts |-> "Empty"]]
      PROVE  IInv'
  <2> DEFINE mem == [p \in FatParts |-> "Empty"]
  <2>1. mem \in [FatParts -> Contents] /\ mem["fatBoot"] # "Old"
    BY DEF FatParts, Contents
  <2>2. work' = [Advance EXCEPT !.mem = mem, !.cause = "none"]
    BY <1>1, <1>3, <1>7 DEF Advance, Work
  <2> HIDE DEF mem
  <2>3. QED
    BY <1>4, <2>1, <2>2
<1>8. Fail("PartitionTooSmall") => IInv'
  BY <1>2, <1>3, FailKeeps DEF Errors
<1>9. QED
  BY <1>6, <1>7, <1>8 DEF Format

\* The count of the clusters reads the volume through a buffer of its own.
LEMMA CountKeeps ==
  ASSUME IInv, Count
  PROVE  IInv'
<1>1. work \in Work /\ reached \in Reached /\ drive \in Drive /\ host \in Host /\ Facts
  BY Typed DEF IInv
<1>2. work.pc = "write" /\ work.at = 9 /\ UNCHANGED <<reached, drive, host>>
  BY <1>1, StepsAre DEF Count, At, Step, Work
<1>3. Shows(drive.seen, 9)
  BY <1>1, <1>2 DEF Facts
<1> DEFINE mem == [p \in FatParts |-> drive.seen[p]]
<1>4. mem \in [FatParts -> Contents] /\ mem["fatBoot"] # "Old"
  BY <1>1, <1>3 DEF Drive, Shows, Parts, FatParts, Contents
<1>5. PICK e \in {"none", "Io"} : work' = [Advance EXCEPT !.mem = mem, !.cause = e]
  BY DEF Count
<1> HIDE DEF mem
<1>6. /\ work' \in Work /\ work'.pc = "write" /\ work'.at = 10 /\ work'.mem = mem
      /\ work'.cause = e /\ work'.prepared = work.prepared /\ work'.result = work.result
      /\ work'.differs = work.differs
  <2>1. work' = With(mem, e)
    BY <1>1, <1>5 DEF With, Advance, Work
  <2>2. e \in Errors \cup {"none"} /\ work.at < 24
    BY <1>2, <1>5 DEF Errors
  <2>3. QED
    BY <1>1, <1>2, <1>4, <2>1, <2>2, NextIs
<1>7. Buffered'
  BY <1>2, <1>3, <1>4, <1>6 DEF Buffered, Shows
<1>8. QED
  BY <1>2, <1>4, <1>6, <1>7, OpenIs, QuietKeeps DEF OpenSteps

\* The files are buffered, or an error waits for the unmount.
LEMMA CopyKeeps ==
  ASSUME IInv, Copy
  PROVE  IInv'
<1>1. work \in Work /\ reached \in Reached /\ drive \in Drive /\ host \in Host /\ Facts
  BY Typed DEF IInv
<1>2. work.pc = "write" /\ work.at = 11 /\ UNCHANGED <<reached, drive, host>>
  BY <1>1, StepsAre DEF Copy, At, Step, Work
<1>3. work.cause = "none" /\ Shows(drive.seen, 11)
  BY <1>1, <1>2 DEF Facts, Phases, OpenSteps
<1> DEFINE mem == [p \in FatParts |-> "Part"]
<1>4. mem \in [FatParts -> Contents] /\ mem["fatBoot"] # "Old"
  BY DEF FatParts, Contents
<1>5. ASSUME NEW e \in {"none", "Io", "Source", "CannotCopy"},
             work' = [Advance EXCEPT !.mem = mem, !.cause = e]
      PROVE  IInv'
  <2> HIDE DEF mem
  <2>1. /\ work' \in Work /\ work'.pc = "write" /\ work'.at = 12 /\ work'.mem = mem
        /\ work'.cause = e /\ work'.prepared = work.prepared /\ work'.result = work.result
        /\ work'.differs = work.differs
    <3>1. work' = With(mem, e)
      BY <1>1, <1>5 DEF With, Advance, Work
    <3>2. e \in Errors \cup {"none"} /\ work.at < 24
      BY <1>2, <1>5 DEF Errors
    <3>3. QED
      BY <1>1, <1>2, <1>4, <3>1, <3>2, NextIs
  <2>2. Buffered'
    BY <1>2, <1>3, <1>4, <2>1 DEF Buffered, Shows
  <2>3. QED
    BY <1>2, <1>4, <1>5, <2>1, <2>2, OpenIs, QuietKeeps DEF OpenSteps
<1>6. ASSUME NEW e \in {"Source", "FileTooLarge"}, Fail(e)
      PROVE  IInv'
  BY <1>2, <1>3, <1>6, FailKeeps DEF Errors
<1>7. QED
  BY <1>5, <1>6 DEF Copy

\* The unmount buffers the end of the volume, also behind an error.
LEMMA UnmountKeeps ==
  ASSUME IInv, Unmount
  PROVE  IInv'
<1>1. work \in Work /\ reached \in Reached /\ drive \in Drive /\ host \in Host /\ Facts
  BY Typed DEF IInv
<1>2. work.pc = "write" /\ work.at = 12 /\ UNCHANGED <<reached, drive, host>>
  BY <1>1, StepsAre DEF Unmount, At, Step, Work
<1>3. /\ work.mem \in [FatParts -> Contents] /\ work.mem["fatBoot"] # "Old"
      /\ drive.seen["mbr"] = "New" /\ work.cause \in (Errors \cup {"none"}) \ {"VolumeFull"}
  BY <1>1, <1>2 DEF Facts, Phases, OpenSteps, Buffered, Work, Errors
<1>4. ASSUME NEW mem \in [FatParts -> Contents],
             NEW e \in (Errors \cup {"none"}) \ {"VolumeFull"}, work' = With(mem, e),
             mem["fatBoot"] # "Old", e = "none" => mem["fatBoot"] = "New"
      PROVE  IInv'
  <2>1. /\ work' \in Work /\ work'.pc = "write" /\ work'.at = 13 /\ work'.mem = mem
        /\ work'.cause = e /\ work'.prepared = work.prepared /\ work'.result = work.result
        /\ work'.differs = work.differs
    BY <1>1, <1>2, <1>4, NextIs
  <2>2. Buffered'
    BY <1>2, <1>3, <1>4, <2>1 DEF Buffered
  <2>3. QED
    BY <1>2, <1>4, <2>1, <2>2, OpenIs, QuietKeeps DEF OpenSteps
<1>5. CASE work' = [Advance EXCEPT !.mem["fatBoot"] = "New"]
  <2> DEFINE mem == [work.mem EXCEPT !["fatBoot"] = "New"]
  <2>1. mem \in [FatParts -> Contents] /\ mem["fatBoot"] = "New"
    BY <1>3 DEF FatParts, Contents
  <2>2. work' = With(mem, work.cause)
    BY <1>1, <1>5 DEF With, Advance, Work
  <2> HIDE DEF mem
  <2>3. QED
    BY <1>3, <1>4, <2>1, <2>2
<1>6. CASE work' = [Advance EXCEPT !.cause = IF @ = "none" THEN "Io" ELSE @]
  <2> DEFINE e == IF work.cause = "none" THEN "Io" ELSE work.cause
  <2>1. e \in (Errors \cup {"none"}) \ {"VolumeFull"} /\ e # "none"
    BY <1>3 DEF Errors
  <2>2. work' = With(work.mem, e)
    BY <1>1, <1>6 DEF With, Advance, Work
  <2> HIDE DEF e
  <2>3. QED
    BY <1>3, <1>4, <2>1, <2>2
<1>7. QED
  BY <1>5, <1>6 DEF Unmount

\* The dot entries are repaired in a buffer of their own.
LEMMA RepairKeeps ==
  ASSUME IInv, Repair
  PROVE  IInv'
<1>1. work \in Work /\ reached \in Reached /\ drive \in Drive /\ host \in Host /\ Facts
  BY Typed DEF IInv
<1>2. work.pc = "write" /\ work.at = 13 /\ UNCHANGED <<reached, drive, host>>
  BY <1>1, StepsAre DEF Repair, At, Step, Work
<1>3. /\ work.mem \in [FatParts -> Contents] /\ work.mem["fatBoot"] # "Old"
      /\ drive.seen["mbr"] = "New" /\ work.cause \in (Errors \cup {"none"}) \ {"VolumeFull"}
      /\ work.cause = "none" => work.mem["fatBoot"] = "New"
  BY <1>1, <1>2 DEF Facts, Phases, OpenSteps, Buffered, Work, Errors
<1>4. ASSUME NEW mem \in [FatParts -> Contents],
             NEW e \in (Errors \cup {"none"}) \ {"VolumeFull"}, work' = With(mem, e),
             mem["fatBoot"] = work.mem["fatBoot"],
             e = "none" => mem["fatBoot"] = "New" /\ mem["fatData"] = "New"
      PROVE  IInv'
  <2>1. /\ work' \in Work /\ work'.pc = "write" /\ work'.at = 14 /\ work'.mem = mem
        /\ work'.cause = e /\ work'.prepared = work.prepared /\ work'.result = work.result
        /\ work'.differs = work.differs
    BY <1>1, <1>2, <1>4, NextIs
  <2>2. Buffered'
    BY <1>2, <1>3, <1>4, <2>1 DEF Buffered
  <2>3. QED
    BY <1>2, <1>4, <2>1, <2>2, OpenIs, QuietKeeps DEF OpenSteps
<1>5. CASE work.cause = "none" /\ work' = [Advance EXCEPT !.mem["fatData"] = "New"]
  <2> DEFINE mem == [work.mem EXCEPT !["fatData"] = "New"]
  <2>1. /\ mem \in [FatParts -> Contents] /\ mem["fatData"] = "New"
        /\ mem["fatBoot"] = work.mem["fatBoot"]
    BY <1>3 DEF FatParts, Contents
  <2>2. work' = With(mem, "none")
    BY <1>1, <1>5 DEF With, Advance, Work
  <2> HIDE DEF mem
  <2>3. QED
    BY <1>3, <1>4, <1>5, <2>1, <2>2
<1>6. CASE work.cause = "none" /\ work' = [Advance EXCEPT !.cause = "Io"]
  <2>1. work' = With(work.mem, "Io")
    BY <1>1, <1>6 DEF With, Advance, Work
  <2>2. QED
    BY <1>3, <1>4, <2>1 DEF Errors
<1>7. CASE work.cause # "none" /\ work' = Advance
  <2>1. work' = With(work.mem, work.cause)
    BY <1>1, <1>7 DEF With, Advance, Work
  <2>2. QED
    BY <1>3, <1>4, <1>7, <2>1
<1>8. QED
  BY <1>5, <1>6, <1>7 DEF Repair

\* Whatever a SectorIo puts on the drive, in the FAT32 volume alone, with the
\* rest of the step in `work`.
LEMMA BufferedIs ==
  ASSUME IInv, work.mem # Closed, NEW some \in SUBSET FatParts
  PROVE  LET d == Wrote([p \in some |-> work.mem[p]])
         IN  /\ d \in Drive
             /\ \A p \in some : d.seen[p] = work.mem[p]
             /\ \A p \in Parts \ some : d.seen[p] = drive.seen[p] /\ d.may[p] = drive.may[p]
             /\ d.seen["fatBoot"] # "Old" \/ drive.seen["fatBoot"] = "Old"
<1>1. work \in Work /\ drive \in Drive /\ Facts
  BY Typed DEF IInv
<1>2. work.mem \in [FatParts -> Contents] /\ work.mem["fatBoot"] # "Old"
  BY <1>1 DEF Work, Facts, Buffered
<1> DEFINE data == [p \in some |-> work.mem[p]]
<1>3. /\ data \in [some -> Contents] /\ some \in SUBSET Parts
      /\ \A p \in some : data[p] = work.mem[p]
  BY <1>2 DEF Parts
<1> HIDE DEF data
<1>4. /\ Wrote(data) \in Drive
      /\ \A p \in some : Wrote(data).seen[p] = data[p]
      /\ \A p \in Parts \ some : /\ Wrote(data).seen[p] = drive.seen[p]
                                 /\ Wrote(data).may[p] = drive.may[p]
  BY <1>1, <1>3, WroteIs
<1>5. Wrote(data).seen["fatBoot"] # "Old" \/ drive.seen["fatBoot"] = "Old"
  BY <1>2, <1>3, <1>4 DEF Parts, FatParts
<1>6. QED
  BY <1>3, <1>4, <1>5 DEF data

\* The buffer may put what it holds on the drive early.
LEMMA WriteBackKeeps ==
  ASSUME IInv, WriteBack
  PROVE  IInv'
<1>1. work \in Work /\ reached \in Reached /\ drive \in Drive /\ host \in Host /\ Facts
  BY Typed DEF IInv
<1>2. work.mem # Closed /\ UNCHANGED <<work, reached, host>>
  BY DEF WriteBack
<1>3. PICK p \in FatParts : drive' = Wrote([q \in {p} |-> work.mem[q]])
  BY DEF WriteBack
<1>4. /\ drive' \in Drive
      /\ \A q \in Parts \ FatParts : drive'.seen[q] = drive.seen[q] /\ drive'.may[q] = drive.may[q]
      /\ drive'.seen["fatBoot"] # "Old" \/ drive.seen["fatBoot"] = "Old"
  BY <1>2, <1>3, BufferedIs DEF Parts
<1>5. /\ reached = "Writing" /\ work.at \in OpenSteps /\ drive.seen["mbr"] = "New"
      /\ Phases /\ Buffered
  BY <1>1, <1>2 DEF Facts, Phases, Buffered
<1>6. /\ drive'.seen["mbr"] = "New" /\ drive'.seen["gpt"] = drive.seen["gpt"]
      /\ drive'.seen["gptCopy"] = drive.seen["gptCopy"]
      /\ \A q \in ExfatParts : drive'.seen[q] = drive.seen[q] /\ drive'.may[q] = drive.may[q]
  BY <1>4, <1>5 DEF Parts, FatParts, ExfatParts
<1>7. Phases' /\ Buffered'
  BY <1>2, <1>5, <1>6 DEF Phases, Buffered
<1>8. MayHold'
  BY <1>1, <1>2, <1>6 DEF Facts, MayHold, ExfatParts, Rest
<1>9. CASE work.pc = "write"
  <2>1. Shows(drive.seen, work.at)
    BY <1>1, <1>9 DEF Facts
  <2>2. drive'.seen["fatBoot"] \in Contents \ {"Old"} /\ drive'.seen["fatData"] \in Contents
    BY <1>4, <1>5, <2>1 DEF Shows, OpenSteps, Drive, Parts, FatParts
  <2>3. Shows(drive'.seen, work'.at)
    BY <1>2, <1>5, <1>6, <2>1, <2>2 DEF Shows, OpenSteps, ExfatParts
  <2>4. QED
    BY <1>1, <1>2, <1>4, <1>7, <1>8, <1>9, <2>3, WritingKeeps
<1>10. CASE work.pc # "write"
  <2>1. work.pc = "end"
    BY <1>1, <1>5, <1>10 DEF Phases, Work
  <2>2. Kept' /\ Read'
    BY <1>2, <2>1 DEF Kept, Read
  <2>3. NoOldUnderTheNewTable'
    BY <1>1, <1>2, <1>4, <1>5, <1>6 DEF Facts, NoOldUnderTheNewTable, ExfatParts
  <2>4. ExfatBootComesLast'
    BY <1>1, <1>2, <1>6 DEF Facts, ExfatBootComesLast, ExfatParts
  <2>5. RefusedTreeLeavesTheVolume'
    BY <1>1, <1>2, <1>6 DEF Facts, RefusedTreeLeavesTheVolume
  <2>6. WrittenIsOnTheMedium' /\ CheckProves'
    BY <1>2, <1>5 DEF WrittenIsOnTheMedium, CheckProves
  <2>7. Facts'
    BY <1>2, <1>5, <1>7, <1>8, <2>1, <2>2, <2>3, <2>4, <2>5, <2>6 DEF Facts
  <2>8. QED
    BY <1>1, <1>2, <1>4, <1>7, <2>7, TypedNext DEF IInv
<1>11. QED
  BY <1>9, <1>10

\* What over_sectors leaves on the drive in the end, after a flush or without.
LEMMA ClosedIs ==
  ASSUME IInv, work.pc = "write", work.mem # Closed, UNCHANGED <<reached, host>>,
         NEW some \in SUBSET FatParts,
         drive' \in {Wrote([p \in some |-> work.mem[p]]), Flushed(Wrote([p \in some |-> work.mem[p]]))}
  PROVE  /\ drive' \in Drive
         /\ \A p \in some : drive'.seen[p] = work.mem[p]
         /\ \A p \in Parts \ some : drive'.seen[p] = drive.seen[p]
         /\ drive'.seen["fatBoot"] # "Old" \/ drive.seen["fatBoot"] = "Old"
         /\ host.kind = "windows" /\ host.lost = {} =>
              \A b \in {"exBoot", "exCopy"} : drive'.may[b] \subseteq {"Old", "Zero"}
<1>1. work \in Work /\ reached \in Reached /\ drive \in Drive /\ host \in Host /\ Facts
  BY Typed DEF IInv
<1> DEFINE d == Wrote([p \in some |-> work.mem[p]])
<1>2. /\ d \in Drive
      /\ \A p \in some : d.seen[p] = work.mem[p]
      /\ \A p \in Parts \ some : d.seen[p] = drive.seen[p] /\ d.may[p] = drive.may[p]
      /\ d.seen["fatBoot"] # "Old" \/ drive.seen["fatBoot"] = "Old"
  BY BufferedIs
<1>3. drive' \in {d, Flushed(d)}
  OBVIOUS
<1> HIDE DEF d
<1>4. work.at \in OpenSteps /\ Shows(drive.seen, work.at) /\ MayHold
  BY <1>1 DEF Facts, Phases
<1>5. \A b \in {"exBoot", "exCopy"} : b \in Parts \ some /\ drive.seen[b] = "Zero"
  BY <1>4 DEF Shows, OpenSteps, Parts, FatParts, ExfatParts
<1>6. drive' \in Drive /\ drive'.seen = d.seen
  BY <1>2, <1>3, SettledIs DEF Flushed
<1>7. host.kind = "windows" /\ host.lost = {} =>
        \A b \in {"exBoot", "exCopy"} : drive'.may[b] \subseteq {"Old", "Zero"}
  <2>1. SUFFICES ASSUME host.kind = "windows", host.lost = {}, NEW b \in {"exBoot", "exCopy"}
                 PROVE  drive'.may[b] \subseteq {"Old", "Zero"}
    OBVIOUS
  <2>2. d.may[b] \subseteq {"Old", "Zero"} /\ d.seen[b] = "Zero"
    BY <1>2, <1>4, <1>5, <2>1 DEF MayHold, OpenSteps
  <2>3. drive' = d \/ drive'.may[b] = {d.seen[b]}
    BY <1>2, <1>3, <1>5, <2>1, SettledIs DEF Flushed
  <2>4. QED
    BY <2>2, <2>3
<1>8. QED
  BY <1>2, <1>6, <1>7

\* A flush that is Ok puts all of it there.
LEMMA CloseVolumeKeeps ==
  ASSUME IInv, CloseVolume
  PROVE  IInv'
<1>1. work \in Work /\ reached \in Reached /\ drive \in Drive /\ host \in Host /\ Facts
  BY Typed DEF IInv
<1>2. work.pc = "write" /\ work.at \in {8, 10, 14} /\ UNCHANGED <<reached, host>>
  BY <1>1, StepsAre DEF CloseVolume, At, Step, Work
<1>3. /\ work.mem # Closed /\ reached = "Writing" /\ ~host.wrote /\ ~work.differs
      /\ Shows(drive.seen, work.at) /\ Phases /\ Buffered
      /\ work.result = "none" /\ (host.kind = "windows" => work.prepared)
  BY <1>1, <1>2 DEF Facts, Phases, OpenSteps
<1>4. work.mem = [p \in FatParts |-> work.mem[p]] /\ work.mem \in [FatParts -> Contents]
  BY <1>1, <1>3 DEF Work
<1>5. ASSUME NEW some \in SUBSET FatParts, NEW e \in Errors \ {"VolumeFull"}, Fail(e),
             drive' \in {Wrote([p \in some |-> work.mem[p]]),
                         Flushed(Wrote([p \in some |-> work.mem[p]]))},
             work.cause \in {"none", e}
      PROVE  IInv'
  <2>1. /\ work' \in Work /\ work'.pc = "end" /\ work'.at = work.at /\ work'.mem = work.mem
        /\ work'.cause = work.cause /\ work'.result = e /\ ~work'.differs
    BY <1>1, <1>3, <1>5 DEF Work, Fail
  <2>2. /\ drive' \in Drive /\ \A p \in Parts \ FatParts : drive'.seen[p] = drive.seen[p]
        /\ drive'.seen["fatBoot"] # "Old" \/ drive.seen["fatBoot"] = "Old"
        /\ host.kind = "windows" /\ host.lost = {} =>
             \A b \in {"exBoot", "exCopy"} : drive'.may[b] \subseteq {"Old", "Zero"}
    BY <1>2, <1>3, <1>5, ClosedIs
  <2>3. /\ drive.seen["mbr"] = "New" /\ drive.seen["gpt"] = "Zero" /\ drive.seen["gptCopy"] = "Zero"
        /\ drive.seen["fatBoot"] # "Old" /\ drive.seen["exBoot"] = "Zero"
        /\ drive.seen["exCopy"] = "Zero"
    BY <1>2, <1>3 DEF Shows
  <2>4. /\ drive'.seen["mbr"] = "New" /\ drive'.seen["gpt"] = "Zero"
        /\ drive'.seen["gptCopy"] = "Zero" /\ drive'.seen["fatBoot"] # "Old"
        /\ drive'.seen["exBoot"] = "Zero" /\ drive'.seen["exCopy"] = "Zero"
    BY <2>2, <2>3 DEF Parts, FatParts, ExfatParts
  <2>5. Phases'
    BY <1>2, <1>3, <1>5, <2>1 DEF Phases, OpenSteps
  <2>6. MayHold' /\ Buffered' /\ Kept' /\ Read'
    BY <1>3, <2>1, <2>4 DEF MayHold, Buffered, Kept, Read
  <2>7. NoOldUnderTheNewTable'
    BY <2>4 DEF NoOldUnderTheNewTable
  <2>8. ExfatBootComesLast'
    BY <1>2, <2>2, <2>4 DEF ExfatBootComesLast
  <2>9. RefusedTreeLeavesTheVolume' /\ WrittenIsOnTheMedium' /\ CheckProves'
    BY <1>2, <1>3, <2>1 DEF RefusedTreeLeavesTheVolume, WrittenIsOnTheMedium, CheckProves
  <2>10. Facts'
    BY <1>2, <1>3, <2>1, <2>5, <2>6, <2>7, <2>8, <2>9 DEF Facts
  <2>11. QED
    BY <1>1, <1>2, <2>1, <2>2, <2>5, <2>10, TypedNext DEF IInv
<1>6. CASE /\ drive' = Flushed(Wrote(work.mem)) /\ work.cause = "none"
           /\ work' = [Advance EXCEPT !.mem = Closed]
  <2>1. /\ work' \in Work /\ work'.pc = "write" /\ work'.at = work.at + 1 /\ work'.mem = Closed
        /\ work'.cause = "none" /\ work'.prepared = work.prepared /\ work'.result = "none"
        /\ ~work'.differs
    <3>1. work' = With(Closed, "none")
      BY <1>1, <1>6 DEF With, Advance, Work
    <3>2. QED
      BY <1>1, <1>2, <1>3, <3>1, NextIs
  <2>2. /\ drive' \in Drive
        /\ \A p \in FatParts : drive'.seen[p] = work.mem[p]
        /\ \A p \in Parts \ FatParts : drive'.seen[p] = drive.seen[p]
        /\ host.kind = "windows" /\ host.lost = {} =>
             \A b \in {"exBoot", "exCopy"} : drive'.may[b] \subseteq {"Old", "Zero"}
    <3>1. drive' = Flushed(Wrote([p \in FatParts |-> work.mem[p]]))
      BY <1>4, <1>6
    <3>2. QED
      BY <1>2, <1>3, <3>1, ClosedIs
  <2>3. /\ drive'.seen["fatBoot"] \in Contents \ {"Old"} /\ drive'.seen["fatData"] \in Contents
        /\ work.at = 14 => drive'.seen["fatBoot"] = "New" /\ drive'.seen["fatData"] = "New"
    BY <1>2, <1>3, <1>4, <1>6, <2>2 DEF Buffered, FatParts
  <2>4. Shows(drive'.seen, work'.at)
    BY <1>2, <1>3, <2>1, <2>2, <2>3 DEF Shows, Parts, FatParts, ExfatParts
  <2>5. Phases'
    BY <1>2, <1>3, <2>1 DEF Phases, OpenSteps
  <2>6. MayHold' /\ Buffered'
    BY <1>2, <2>1, <2>2 DEF MayHold, Buffered
  <2>7. QED
    BY <1>1, <1>2, <2>1, <2>2, <2>4, <2>5, <2>6, WritingKeeps
<1>7. work.cause # "none" => work.cause \in Errors \ {"VolumeFull"}
  BY <1>1, <1>3 DEF Phases, Work
<1>8. CASE /\ drive' = Flushed(Wrote(work.mem)) /\ work.cause # "none" /\ Fail(work.cause)
  <2>1. drive' = Flushed(Wrote([p \in FatParts |-> work.mem[p]]))
    BY <1>4, <1>8
  <2>2. QED
    BY <1>5, <1>7, <1>8, <2>1
<1>9. CASE /\ \E done \in SUBSET FatParts : drive' = Wrote([p \in done |-> work.mem[p]])
           /\ Fail(IF work.cause = "none" THEN "Io" ELSE work.cause)
  <2>1. PICK done \in SUBSET FatParts : drive' = Wrote([p \in done |-> work.mem[p]])
    BY <1>9
  <2>2. PICK e \in Errors \ {"VolumeFull"} : Fail(e) /\ work.cause \in {"none", e}
    BY <1>7, <1>9 DEF Errors
  <2>3. QED
    BY <1>5, <2>1, <2>2
<1>10. QED
  BY <1>6, <1>8, <1>9 DEF CloseVolume

-----------------------------------------------------------------------------
(* The exFAT volume and the sync.                                          *)

\* A tree that does not fit ends the write before the volume is touched.
LEMMA PlaceKeeps ==
  ASSUME IInv, Place
  PROVE  IInv'
<1>1. work \in Work /\ reached \in Reached /\ drive \in Drive /\ host \in Host /\ Facts
  BY Typed DEF IInv
<1>2. work.pc = "write" /\ work.at = 15 /\ UNCHANGED <<reached, drive, host>>
  BY <1>1, StepsAre DEF Place, At, Step, Work
<1>3. work.mem = Closed /\ work.cause = "none"
  BY <1>1, <1>2 DEF Facts, Phases, OpenSteps
<1>4. CASE work' = Advance
  <2>1. work' = With(Closed, "none")
    BY <1>1, <1>3, <1>4 DEF With, Advance, Work
  <2>2. /\ work' \in Work /\ work'.pc = "write" /\ work'.at = 16 /\ work'.mem = Closed
        /\ work'.cause = "none" /\ work'.prepared = work.prepared
        /\ work'.result = work.result /\ work'.differs = work.differs
    BY <1>1, <1>2, <2>1, NextIs
  <2>3. Buffered'
    BY <2>2 DEF Buffered
  <2>4. QED
    BY <1>2, <2>2, <2>3, QuietKeeps DEF OpenSteps
<1>5. CASE \E e \in {"Source", "PartitionTooSmall", "VolumeFull"} : Fail(e)
  BY <1>2, <1>3, <1>5, FailKeeps DEF Errors
<1>6. QED
  BY <1>4, <1>5 DEF Place

\* The sync puts the finished drive on the medium.
LEMMA SyncKeeps ==
  ASSUME IInv, Sync
  PROVE  IInv'
<1>1. work \in Work /\ reached \in Reached /\ drive \in Drive /\ host \in Host /\ Facts
  BY Typed DEF IInv
<1>2. work.pc = "write" /\ work.at = 24 /\ UNCHANGED host
  BY <1>1, StepsAre DEF Sync, At, Step, Work
<1>3. /\ work.mem = Closed /\ work.cause = "none" /\ ~work.differs /\ ~host.wrote
      /\ work.result = "none" /\ Shows(drive.seen, 24)
  BY <1>1, <1>2 DEF Facts, Phases, OpenSteps
<1>4. CASE /\ drive' = Settled(drive) /\ reached' = "Written"
           /\ work' = [work EXCEPT !.pc = "shut"]
  <2>1. /\ work' \in Work /\ work'.pc = "shut" /\ work'.mem = Closed /\ work'.cause = "none"
        /\ work'.result = "none" /\ ~work'.differs
    BY <1>1, <1>3, <1>4 DEF Work
  <2>2. /\ drive' \in Drive /\ drive'.seen = drive.seen
        /\ host.lost = {} => \A p \in Parts : drive'.may[p] = {drive.seen[p]}
    BY <1>1, <1>4, SettledIs
  <2>3. \A p \in Parts : drive.seen[p] = Final(p)
    BY <1>3 DEF Shows, Final, Parts, FatParts, ExfatParts
  <2>4. Phases'
    BY <1>2, <1>3, <1>4, <2>1 DEF Phases
  <2>5. Kept' /\ Read' /\ WrittenIsOnTheMedium' /\ CheckProves'
    BY <1>2, <1>4, <2>1, <2>2, <2>3 DEF Kept, Read, WrittenIsOnTheMedium, CheckProves, Final
  <2>6. QED
    BY <1>1, <1>2, <1>4, <2>1, <2>2, <2>4, <2>5, LaterKeeps DEF Reached
<1>5. CASE UNCHANGED <<drive, reached>> /\ Fail("Io")
  BY <1>2, <1>3, <1>5, FailKeeps DEF Errors
<1>6. QED
  BY <1>4, <1>5 DEF Sync

\* The places of the check, and of the handles before and after it.
LEMMA LaterIs ==
  ASSUME IInv, work.pc \in {"shut", "reopen", "table", "fat32", "exfat", "eject"}
  PROVE  /\ work.mem = Closed /\ work.cause = "none" /\ ~work.differs /\ work.result = "none"
         /\ reached = IF work.pc \in {"shut", "reopen", "table"} THEN "Written"
                      ELSE IF work.pc = "eject" THEN "Checked" ELSE "Checking"
         /\ Phases /\ Kept /\ Read /\ CheckProves
BY DEF IInv, Facts, Phases

\* The handle of the write is closed.
LEMMA ShutKeeps ==
  ASSUME IInv, Shut
  PROVE  IInv'
<1>1. work \in Work /\ reached \in Reached /\ drive \in Drive /\ host \in Host /\ Facts
  BY Typed DEF IInv
<1>2. work.pc = "shut" /\ UNCHANGED <<reached, drive>> /\ work' = [work EXCEPT !.pc = "reopen"]
  BY DEF Shut
<1>3. PICK mark \in BOOLEAN : host' = [host EXCEPT !.held = FALSE, !.readOnly = mark]
  BY DEF Shut
<1>4. /\ work.mem = Closed /\ work.cause = "none" /\ ~work.differs /\ work.result = "none"
      /\ reached = "Written" /\ Phases /\ Kept
  BY <1>2, LaterIs
<1>5. /\ work' \in Work /\ work'.pc = "reopen" /\ work'.mem = Closed /\ work'.cause = "none"
      /\ work'.result = "none" /\ ~work'.differs
  BY <1>1, <1>2, <1>4 DEF Work
<1>6. /\ host' \in Host /\ host'.wrote = host.wrote /\ host'.lost = host.lost
      /\ host'.kind = host.kind
  BY <1>1, <1>3 DEF Host
<1>7. Phases'
  BY <1>2, <1>4, <1>5, <1>6 DEF Phases
<1>8. Kept' /\ Read' /\ WrittenIsOnTheMedium' /\ CheckProves'
  BY <1>2, <1>4, <1>5, <1>6 DEF Kept, Read, WrittenIsOnTheMedium, CheckProves, Final
<1>9. QED
  BY <1>1, <1>2, <1>4, <1>5, <1>6, <1>7, <1>8, LaterKeeps

-----------------------------------------------------------------------------
(* The check.                                                              *)

\* The check opens a handle of its own, which sees the medium.
LEMMA ReopenKeeps ==
  ASSUME IInv, Reopen
  PROVE  IInv'
<1>1. work \in Work /\ reached \in Reached /\ drive \in Drive /\ host \in Host /\ Facts
  BY Typed DEF IInv
<1>2. work.pc = "reopen" /\ UNCHANGED reached
  BY DEF Reopen
<1>3. /\ work.mem = Closed /\ work.cause = "none" /\ ~work.differs /\ work.result = "none"
      /\ reached = "Written" /\ Phases /\ Kept
  BY <1>2, LaterIs
<1> DEFINE medium == [p \in Parts |-> IF p \in host.lost THEN "Old" ELSE drive.seen[p]]
<1>4. CASE /\ work' = [work EXCEPT !.pc = "table", !.prepared = FALSE]
           /\ host' = [host EXCEPT !.held = TRUE]
           /\ drive' = [seen |-> medium, may |-> [p \in Parts |-> {medium[p]}]]
  <2>1. /\ work' \in Work /\ work'.pc = "table" /\ work'.mem = Closed /\ work'.cause = "none"
        /\ work'.result = "none" /\ ~work'.differs
    BY <1>1, <1>3, <1>4 DEF Work
  <2>2. host' \in Host /\ host'.lost = host.lost /\ host'.wrote = host.wrote
    BY <1>1, <1>4 DEF Host
  <2>3. medium \in [Parts -> Contents] /\ (host.lost = {} => medium = drive.seen)
    BY <1>1 DEF Drive, Contents
  <2> HIDE DEF medium
  <2>4. /\ drive' \in Drive /\ drive'.seen = medium
        /\ \A p \in Parts : drive'.may[p] = {drive'.seen[p]}
    BY <1>4, <2>3 DEF Drive
  <2>5. Phases'
    BY <1>2, <1>3, <2>1, <2>2 DEF Phases
  <2>6. Kept'
    BY <1>2, <1>3, <2>2, <2>3, <2>4 DEF Kept
  <2>7. Read' /\ WrittenIsOnTheMedium' /\ CheckProves'
    BY <1>2, <1>3, <2>1, <2>4 DEF Read, WrittenIsOnTheMedium, CheckProves
  <2>8. QED
    BY <1>1, <1>2, <1>3, <2>1, <2>2, <2>4, <2>5, <2>6, <2>7, LaterKeeps
<1>5. CASE Fail("Io") /\ UNCHANGED <<drive, host>>
  BY <1>2, <1>3, <1>5, FailKeeps DEF Errors
<1>6. QED
  BY <1>4, <1>5 DEF Reopen

\* A stage of the check that finds a difference.
LEMMA DiffersKeeps ==
  ASSUME IInv, work.pc \in {"table", "fat32", "exfat"}, UNCHANGED <<reached, drive, host>>,
         NEW e \in {"VolumeDiffers", "Io"},
         work' = [work EXCEPT !.pc = "end", !.result = e, !.differs = TRUE]
  PROVE  IInv'
<1>1. work \in Work /\ reached \in Reached /\ drive \in Drive /\ host \in Host /\ Facts
  BY Typed DEF IInv
<1>2. /\ work.mem = Closed /\ work.cause = "none" /\ reached \in {"Written", "Checking"}
      /\ Phases
  BY LaterIs
<1>3. /\ work' \in Work /\ work'.pc = "end" /\ work'.mem = Closed /\ work'.cause = "none"
      /\ work'.result = e /\ work'.differs
  BY <1>1, <1>2 DEF Work, Errors
<1>4. Phases'
  BY <1>2, <1>3 DEF Phases
<1>5. Kept' /\ Read' /\ WrittenIsOnTheMedium' /\ CheckProves'
  BY <1>2, <1>3 DEF Kept, Read, WrittenIsOnTheMedium, CheckProves
<1>6. QED
  BY <1>1, <1>2, <1>3, <1>4, <1>5, LaterKeeps

\* The table agrees, or the command ends.
LEMMA CheckTableKeeps ==
  ASSUME IInv, CheckTable
  PROVE  IInv'
<1>1. work \in Work /\ reached \in Reached /\ drive \in Drive /\ host \in Host /\ Facts
  BY Typed DEF IInv
<1>2. /\ work.pc = "table" /\ UNCHANGED <<drive, host>>
      /\ reached' = IF work'.pc = "fat32" THEN "Checking" ELSE reached
  BY DEF CheckTable
<1>3. /\ work.mem = Closed /\ work.cause = "none" /\ ~work.differs /\ work.result = "none"
      /\ reached = "Written" /\ Phases /\ Kept /\ Read
  BY <1>2, LaterIs
<1>4. CASE Agrees("mbr") /\ work' = [work EXCEPT !.pc = "fat32"]
  <2>1. /\ work' \in Work /\ work'.pc = "fat32" /\ work'.mem = Closed /\ work'.cause = "none"
        /\ work'.result = "none" /\ ~work'.differs /\ reached' = "Checking"
    BY <1>1, <1>2, <1>3, <1>4 DEF Work
  <2>2. Phases'
    BY <1>2, <1>3, <2>1 DEF Phases
  <2>3. Kept' /\ Read' /\ WrittenIsOnTheMedium' /\ CheckProves'
    BY <1>2, <1>3, <1>4, <2>1 DEF Kept, Read, Agrees, WrittenIsOnTheMedium, CheckProves
  <2>4. QED
    BY <1>1, <1>2, <2>1, <2>2, <2>3, LaterKeeps DEF Reached
<1>5. ASSUME NEW e \in {"VolumeDiffers"},
             work' = [work EXCEPT !.pc = "end", !.result = e, !.differs = TRUE]
      PROVE  IInv'
  <2>1. work'.pc = "end"
    BY <1>1, <1>5 DEF Work
  <2>2. QED
    BY <1>2, <1>5, <2>1, DiffersKeeps
<1>6. CASE Fail("Io")
  <2>1. work'.pc = "end"
    BY <1>1, <1>6 DEF Work, Fail
  <2>2. QED
    BY <1>2, <1>3, <1>6, <2>1, FailKeeps DEF Errors
<1>7. QED
  BY <1>4, <1>5, <1>6 DEF CheckTable, Stage

\* The FAT32 volume agrees, or the command ends.
LEMMA CheckFat32Keeps ==
  ASSUME IInv, CheckFat32
  PROVE  IInv'
<1>1. work \in Work /\ reached \in Reached /\ drive \in Drive /\ host \in Host /\ Facts
  BY Typed DEF IInv
<1>2. work.pc = "fat32" /\ UNCHANGED <<reached, drive, host>>
  BY DEF CheckFat32
<1>3. /\ work.mem = Closed /\ work.cause = "none" /\ ~work.differs /\ work.result = "none"
      /\ reached = "Checking" /\ Phases /\ Read
  BY <1>2, LaterIs
<1>4. CASE (\A p \in FatParts : Agrees(p)) /\ work' = [work EXCEPT !.pc = "exfat"]
  <2>1. /\ work' \in Work /\ work'.pc = "exfat" /\ work'.mem = Closed /\ work'.cause = "none"
        /\ work'.result = "none" /\ ~work'.differs
    BY <1>1, <1>3, <1>4 DEF Work
  <2>2. Phases'
    BY <1>2, <1>3, <2>1 DEF Phases
  <2>3. Kept' /\ Read' /\ WrittenIsOnTheMedium' /\ CheckProves'
    BY <1>2, <1>3, <1>4, <2>1 DEF Kept, Read, Agrees, WrittenIsOnTheMedium, CheckProves
  <2>4. QED
    BY <1>1, <1>2, <1>3, <2>1, <2>2, <2>3, LaterKeeps
<1>5. ASSUME NEW e \in {"VolumeDiffers", "Io"},
             work' = [work EXCEPT !.pc = "end", !.result = e, !.differs = TRUE]
      PROVE  IInv'
  BY <1>2, <1>5, DiffersKeeps
<1>6. CASE Fail("Io")
  BY <1>2, <1>3, <1>6, FailKeeps DEF Errors
<1>7. QED
  BY <1>4, <1>5, <1>6 DEF CheckFat32, Stage

\* The exFAT volume agrees, or the command ends.
LEMMA CheckExfatKeeps ==
  ASSUME IInv, CheckExfat
  PROVE  IInv'
<1>1. work \in Work /\ reached \in Reached /\ drive \in Drive /\ host \in Host /\ Facts
  BY Typed DEF IInv
<1>2. /\ work.pc = "exfat" /\ UNCHANGED <<drive, host>>
      /\ reached' = IF work'.pc = "eject" THEN "Checked" ELSE reached
  BY DEF CheckExfat
<1>3. /\ work.mem = Closed /\ work.cause = "none" /\ ~work.differs /\ work.result = "none"
      /\ reached = "Checking" /\ Phases /\ Read
  BY <1>2, LaterIs
<1>4. CASE (\A p \in ExfatParts : Agrees(p)) /\ work' = [work EXCEPT !.pc = "eject"]
  <2>1. /\ work' \in Work /\ work'.pc = "eject" /\ work'.mem = Closed /\ work'.cause = "none"
        /\ work'.result = "none" /\ ~work'.differs /\ reached' = "Checked"
    BY <1>1, <1>2, <1>3, <1>4 DEF Work
  <2>2. Phases'
    BY <1>2, <1>3, <2>1 DEF Phases
  <2>3. \A p \in Parts \ {"gpt", "gptCopy"} : Agrees(p) /\ drive.may[p] = {drive.seen[p]}
    BY <1>2, <1>3, <1>4 DEF Read, Parts
  <2>4. CheckProves'
    BY <1>2, <2>3 DEF CheckProves, Agrees
  <2>5. Kept' /\ Read' /\ WrittenIsOnTheMedium'
    BY <2>1 DEF Kept, Read, WrittenIsOnTheMedium
  <2>6. QED
    BY <1>1, <1>2, <2>1, <2>2, <2>4, <2>5, LaterKeeps DEF Reached
<1>5. ASSUME NEW e \in {"VolumeDiffers", "Io"},
             work' = [work EXCEPT !.pc = "end", !.result = e, !.differs = TRUE]
      PROVE  IInv'
  <2>1. work'.pc = "end"
    BY <1>1, <1>5 DEF Work
  <2>2. QED
    BY <1>2, <1>5, <2>1, DiffersKeeps
<1>6. CASE Fail("Io")
  <2>1. work'.pc = "end"
    BY <1>1, <1>6 DEF Work, Fail
  <2>2. QED
    BY <1>2, <1>3, <1>6, <2>1, FailKeeps DEF Errors
<1>7. QED
  BY <1>4, <1>5, <1>6 DEF CheckExfat, Stage

\* An eject ends the command with what it has.
LEMMA EjectKeeps ==
  ASSUME IInv, Eject
  PROVE  IInv'
<1>1. work \in Work /\ reached \in Reached /\ drive \in Drive /\ host \in Host /\ Facts
  BY Typed DEF IInv
<1>2. /\ work.pc = "eject" /\ UNCHANGED <<reached, drive>>
      /\ work' = [work EXCEPT !.pc = "end", !.result = "ok"]
      /\ host' = [host EXCEPT !.held = FALSE]
  BY DEF Eject
<1>3. /\ work.mem = Closed /\ work.cause = "none" /\ ~work.differs
      /\ reached = "Checked" /\ Phases /\ CheckProves
  BY <1>2, LaterIs
<1>4. /\ work' \in Work /\ work'.pc = "end" /\ work'.mem = Closed /\ work'.cause = "none"
      /\ work'.result = "ok" /\ ~work'.differs
  BY <1>1, <1>2, <1>3 DEF Work
<1>5. host' \in Host /\ host'.wrote = host.wrote /\ host'.kind = host.kind
  BY <1>1, <1>2 DEF Host
<1>6. Phases'
  BY <1>2, <1>3, <1>4, <1>5 DEF Phases
<1>7. Kept' /\ Read' /\ WrittenIsOnTheMedium' /\ CheckProves'
  BY <1>2, <1>3, <1>4 DEF Kept, Read, WrittenIsOnTheMedium, CheckProves
<1>8. QED
  BY <1>1, <1>2, <1>3, <1>4, <1>5, <1>6, <1>7, LaterKeeps

\* The host may write only between the write and the check.
LEMMA HostWritesKeeps ==
  ASSUME IInv, HostWrites
  PROVE  IInv'
<1>1. work \in Work /\ reached \in Reached /\ drive \in Drive /\ host \in Host /\ Facts
  BY Typed DEF IInv
<1>2. /\ work.pc = "reopen" /\ UNCHANGED <<work, reached>>
      /\ host' = [host EXCEPT !.wrote = TRUE]
  BY DEF HostWrites
<1>3. PICK p \in Parts : drive' = Wrote([q \in {p} |-> "Other"])
  BY DEF HostWrites
<1>4. /\ work.mem = Closed /\ work.cause = "none" /\ ~work.differs /\ work.result = "none"
      /\ reached = "Written" /\ Phases
  BY <1>2, LaterIs
<1>5. host' \in Host /\ host'.wrote /\ host'.kind = host.kind
  BY <1>1, <1>2 DEF Host
<1>6. drive' \in Drive
  <2> DEFINE data == [q \in {p} |-> "Other"]
  <2>1. data \in [{p} -> Contents] /\ {p} \in SUBSET Parts /\ drive' = Wrote(data)
    BY <1>3 DEF Contents
  <2> HIDE DEF data
  <2>2. QED
    BY <1>1, <2>1, WroteIs
<1>7. Phases'
  BY <1>2, <1>4, <1>5 DEF Phases
<1>8. Kept' /\ Read' /\ WrittenIsOnTheMedium' /\ CheckProves'
  BY <1>2, <1>4, <1>5 DEF Kept, Read, WrittenIsOnTheMedium, CheckProves
<1>9. QED
  BY <1>1, <1>2, <1>4, <1>5, <1>6, <1>7, <1>8, LaterKeeps

-----------------------------------------------------------------------------
(* The theorems.                                                           *)

\* Each step of the command or of the host keeps the invariant.
LEMMA StepKeeps ==
  ASSUME IInv, [Next]_vars
  PROVE  IInv'
<1>1. CASE UNCHANGED vars
  BY <1>1 DEF vars, IInv, TypeOK, Facts, Phases, MayHold, Buffered, Kept, Read, Agrees, Shows,
              NoOldUnderTheNewTable, ExfatBootComesLast, RefusedTreeLeavesTheVolume,
              WrittenIsOnTheMedium, CheckProves
<1>2. CASE Next
  BY <1>2, OpenKeeps, PrepareKeeps, WritePartsKeeps, FlushKeeps, FormatKeeps, CountKeeps,
     CopyKeeps, UnmountKeeps, RepairKeeps, WriteBackKeeps, CloseVolumeKeeps, PlaceKeeps,
     SyncKeeps, ShutKeeps, ReopenKeeps, CheckTableKeeps, CheckFat32Keeps, CheckExfatKeeps,
     EjectKeeps, HostWritesKeeps DEF Next
<1>3. QED
  BY <1>1, <1>2

THEOREM InvariantAlways == Spec => []IInv
<1>1. Init => IInv
  BY InitKeeps
<1>2. IInv /\ [Next]_vars => IInv'
  BY StepKeeps
<1>3. QED
  BY <1>1, <1>2, PTL DEF Spec

\* The variables keep their types, and a SectorIo is open only inside the step of
\* the code that owns it.
THEOREM TypeOKAlways == Spec => []TypeOK
<1>1. IInv => TypeOK
  BY DEF IInv
<1>2. QED
  BY <1>1, InvariantAlways, PTL

\* Wherever the write stops, nothing of the old drive is left under the new
\* table: write_table puts zero over each old head before the table itself.
THEOREM NoOldUnderTheNewTableAlways == Spec => []NoOldUnderTheNewTable
<1>1. IInv => NoOldUnderTheNewTable
  BY DEF IInv, Facts
<1>2. QED
  BY <1>1, InvariantAlways, PTL

\* No boot region of exFAT is there, on the drive or on the medium of a good one
\* that Windows writes, before the volume behind it.
THEOREM ExfatBootComesLastAlways == Spec => []ExfatBootComesLast
<1>1. IInv => ExfatBootComesLast
  BY DEF IInv, Facts
<1>2. QED
  BY <1>1, InvariantAlways, PTL

\* A tree that place refuses leaves the exFAT partition as write_table left it.
THEOREM RefusedTreeLeavesTheVolumeAlways == Spec => []RefusedTreeLeavesTheVolume
<1>1. IInv => RefusedTreeLeavesTheVolume
  BY DEF IInv, Facts
<1>2. QED
  BY <1>1, InvariantAlways, PTL

\* From the sync on, the medium of a good drive holds all that was to be
\* written, until the host writes: no piece of it is left in a SectorIo.
THEOREM WrittenIsOnTheMediumAlways == Spec => []WrittenIsOnTheMedium
<1>1. IInv => WrittenIsOnTheMedium
  BY DEF IInv, Facts
<1>2. QED
  BY <1>1, InvariantAlways, PTL

\* "Checked" is only reported over a medium that holds the table and both
\* volumes, whatever the drive lost and whatever the host wrote.
THEOREM CheckProvesAlways == Spec => []CheckProves
<1>1. IInv => CheckProves
  BY DEF IInv, Facts
<1>2. QED
  BY <1>1, InvariantAlways, PTL

\* The error that waits for an unmount and a flush is the one that is reported:
\* neither of them, failing in its turn, takes its place.
THEOREM ErrorIsTheCauseAlways == Spec => ErrorIsTheCause
<1> DEFINE Stays == work.cause # "none" =>
                      work'.cause = work.cause /\ work'.result \in {"none", work.cause}
<1>1. IInv /\ [Next]_vars => [Stays]_vars
  <2>1. SUFFICES ASSUME IInv, Next, work.cause # "none"
                 PROVE  work'.cause = work.cause /\ work'.result \in {"none", work.cause}
    OBVIOUS
  <2>2. work \in Work /\ Phases
    BY <2>1, Typed DEF IInv, Facts
  <2>3. /\ work.at \in OpenSteps
        /\ (work.pc = "write" /\ work.result = "none")
           \/ (work.pc = "end" /\ work.result = work.cause)
    BY <2>1, <2>2 DEF Phases
  <2>4. /\ ~At("put") /\ ~At("flush") /\ ~At("format") /\ ~At("count") /\ ~At("copy")
        /\ ~At("place") /\ ~At("sync")
    BY <2>2, <2>3, StepsAre DEF At, Step, OpenSteps, Work
  <2>5. ~Prepare /\ ~WriteParts /\ ~Flush /\ ~Format /\ ~Count /\ ~Copy /\ ~Place /\ ~Sync
    BY <2>4 DEF Prepare, WriteParts, Flush, Format, Count, Copy, Place, Sync
  <2>6. ~Open /\ ~Shut /\ ~Reopen /\ ~CheckTable /\ ~CheckFat32 /\ ~CheckExfat /\ ~Eject /\ ~HostWrites
    BY <2>3 DEF Open, Shut, Reopen, CheckTable, CheckFat32, CheckExfat, Eject, HostWrites
  <2>7. CASE Unmount
    <3>1. work' \in {[Advance EXCEPT !.mem["fatBoot"] = "New"], Advance}
      BY <2>1, <2>2, <2>7 DEF Unmount, Advance, Work
    <3>2. work'.cause = work.cause /\ work'.result = work.result
      BY <2>2, <3>1 DEF Advance, Work
    <3>3. QED
      BY <2>3, <3>2
  <2>8. CASE Repair
    BY <2>1, <2>2, <2>3, <2>8 DEF Repair, Advance, Work
  <2>9. CASE WriteBack
    BY <2>3, <2>9 DEF WriteBack
  <2>10. CASE CloseVolume
    BY <2>1, <2>2, <2>10 DEF CloseVolume, Fail, Work
  <2>11. QED
    BY <2>1, <2>5, <2>6, <2>7, <2>8, <2>9, <2>10 DEF Next
<1>2. QED
  BY <1>1, InvariantAlways, PTL DEF Spec, ErrorIsTheCause

=============================================================================
