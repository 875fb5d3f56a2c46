-------------------------- MODULE RawWrite_proofs --------------------------
(***************************************************************************)
(* The safety properties of RawWrite, for every length of the image and of *)
(* the drive, every size of a sector and of a block, and every place where *)
(* Windows looks for a table.                                              *)
(*                                                                         *)
(* All of them follow from one inductive invariant, IInv.  Its parts say   *)
(* what the place in the program tells of `reached` and of the handle      *)
(* (Phases), how the counters of write_image go together (Counted), what   *)
(* the drive holds by then (Laid, Outside, Kept), what is left of an old   *)
(* table (Cleared, HeadBare), and what the check has seen (Seen).          *)
(***************************************************************************)
EXTENDS RawWrite, TLAPS

\* What the place in write_raw tells of REACHED and of the open handle.
Phases ==
  /\ work.pc \in {"unmount", "open"} =>
       reached = (IF work.checks THEN "Written" ELSE "Nothing") /\ ~host.held
  /\ work.pc = "start" => reached = "Nothing"
  /\ work.pc \in {"first", "block", "write", "sync"} => reached = "Writing"
  /\ work.pc = "close" => reached = "Written" /\ ~work.checks
  /\ work.pc = "check" => reached = "Written" /\ work.checks
  /\ work.pc = "compare" => reached = "Checking"
  /\ work.pc = "eject" => reached = "Checked"
  /\ reached \in {"Nothing", "Writing"} => ~work.checks
  /\ reached \in {"Checking", "Checked"} => work.checks
  /\ work.pc \notin {"unmount", "open", "end"} => host.held
  /\ host.wrote => work.checks

\* The bytes that are read, the block that waits to be written, and the
\* position in the target.  A block that ends inside a sector is the last one,
\* or comes short in a file that gives no more.
Counted ==
  /\ work.pc \in {"unmount", "open", "start", "first"} /\ ~work.checks =>
       work.read = 0 /\ work.first = 0
  /\ reached # "Nothing" => host.source <= work.size
  /\ work.pc \in {"block", "write"} =>
       /\ work.first <= work.read /\ work.read <= work.size
       /\ work.first = 0 => work.size = 0
       /\ work.first = SectorCount(work.first) * SectorBytes \/ work.read = work.first
  /\ work.pc = "block" =>
       /\ work.at = SectorCount(work.read)
       /\ \/ work.read = work.size
          \/ work.read = work.at * SectorBytes
          \/ host.source <= work.read
  /\ work.pc = "write" /\ work.out.from # 0 =>
       /\ work.out.got > 0
       /\ work.out.from = work.at * SectorBytes
       /\ work.first <= work.out.from
       /\ work.read = work.out.from + work.out.got
       /\ \/ work.read = work.size
          \/ work.read = (work.at + SectorCount(work.out.got)) * SectorBytes
          \/ host.source <= work.read
  /\ work.pc = "write" /\ work.out.from = 0 =>
       work.read = work.size /\ work.out.got = work.first /\ work.at = 0

\* Before the first write on Windows, no block but the first has been read.
Fresh ==
  /\ work.pc \in {"start", "first"} => ~work.prepared
  /\ host.kind = "windows" /\ ~work.prepared =>
       /\ work.pc = "block" => work.read = work.first
       /\ work.pc = "write" => IF work.out.from = 0 THEN work.size = work.first
                               ELSE work.out.from = work.first

\* The sectors from..to hold what belongs there.
Whole(from, to) == \A s \in from .. to : drive.seen[s] = Image(work.size)[s]

\* What the drive holds, step by step: nothing of the image, its blocks after
\* the first one, and then all of it.
Laid ==
  /\ work.pc = "first" => \A s \in Sectors : drive.seen[s] = All(Old)
  /\ work.pc \in {"block", "write"} =>
       \A s \in TableBlock : drive.seen[s] \in {All(Old), All(Zero)}
  /\ work.pc = "block" /\ (work.read = work.size \/ work.read = work.at * SectorBytes) =>
       Whole(SectorCount(work.first), work.at - 1)
  /\ work.pc = "write" /\ work.out.from # 0 =>
       Whole(SectorCount(work.first), work.at - 1)
  /\ work.pc = "write" /\ work.out.from = 0 =>
       Whole(SectorCount(work.first), SectorCount(work.size) - 1)
  /\ work.pc = "sync" => Whole(0, SectorCount(work.size) - 1)
  /\ reached = "Written" /\ ~work.checks => Whole(0, SectorCount(work.size) - 1)
  /\ \A s \in host.lost : drive.may[s] = {All(Old)}

\* What a sector past the image can hold before the host writes.
Spare(s) == {All(Old)} \cup {All(Zero) : x \in TableAreas \cap {s}}
Outside ==
  ~host.wrote /\ reached \in {"Writing", "Written"} =>
    \A s \in Sectors \ ImageSectors(work.size) :
      drive.seen[s] \in Spare(s) /\ drive.may[s] \subseteq Spare(s)

\* What the check reads is on the medium, and it has compared what it read.
Seen ==
  /\ work.checks /\ host.held => \A s \in Sectors : drive.may[s] = {drive.seen[s]}
  /\ reached \in {"Checking", "Checked"} /\ ~work.differs =>
       \A i \in 0 .. work.read - 1 : SeenByte(i) = i
  /\ reached = "Checked" => work.read = work.size /\ ~work.differs
  /\ work.checks /\ host.lost = {} /\ ~host.wrote =>
       \A i \in 0 .. work.size - 1 : SeenByte(i) = i
  /\ host.kind = "macos" =>
       host.guarded /\ ~host.wrote /\ (work.checks \/ host.held => ~host.mounted)

\* After the sync no write is on its way to a good drive, until the host writes.
Kept ==
  reached \in {"Written", "Checking", "Checked"} /\ host.lost = {} /\ ~host.wrote =>
    \A s \in Sectors : drive.may[s] = {drive.seen[s]}

\* On Windows nothing of the image is there before the clears, and nothing of
\* the old tables after them.
Cleared ==
  host.kind = "windows" /\ ~work.checks =>
    IF work.prepared
    THEN \A s \in TableAreas : \A c \in Cells : drive.seen[s][c] # Old
    ELSE \A s \in Sectors : \A c \in Cells : drive.seen[s][c] < 0

\* And the head keeps its zeros until the first block goes out.
HeadBare ==
  host.kind = "windows" /\ work.prepared /\ work.pc \in {"block", "write"} =>
    \A s \in TableAreas \cap TableBlock : drive.seen[s] = All(Zero)

\* The inductive invariant, apart from the types.
Facts ==
  /\ Phases /\ Counted /\ Fresh /\ Laid /\ Outside /\ Seen /\ Kept /\ Cleared /\ HeadBare
  /\ NothingIsNothing /\ WrittenIsOnTheMedium /\ TableComesLast /\ GuardsHold

IInv == TypeOK /\ Facts

LEMMA DivMod ==
  ASSUME NEW n \in Nat, NEW d \in Nat \ {0}
  PROVE  /\ n \div d \in Nat /\ n % d \in 0 .. d - 1
         /\ n = (n \div d) * d + (n % d)
  OBVIOUS

LEMMA Rising ==
  ASSUME NEW a \in Int, NEW b \in Int, NEW d \in Nat \ {0}, a * d < b * d
  PROVE  a < b
  OBVIOUS

LEMMA Count ==
  ASSUME NEW n \in Nat
  PROVE  /\ SectorCount(n) \in Nat
         /\ n <= SectorCount(n) * SectorBytes
         /\ SectorCount(n) * SectorBytes < n + SectorBytes
<1>1. SectorBytes \in Nat \ {0} BY SizesAssumption
<1>2. n + SectorBytes - 1 \in Nat BY <1>1
<1> DEFINE k == (n + SectorBytes - 1) \div SectorBytes
           r == (n + SectorBytes - 1) % SectorBytes
<1>3. /\ k \in Nat /\ r \in 0 .. SectorBytes - 1
      /\ n + SectorBytes - 1 = k * SectorBytes + r
  BY <1>1, <1>2, DivMod
<1>4. SectorCount(n) = k BY DEF SectorCount
<1> HIDE DEF k, r
<1>5. k * SectorBytes \in Nat BY <1>1, <1>3
<1>6. QED BY <1>1, <1>3, <1>4, <1>5

LEMMA CountIs ==
  ASSUME NEW n \in Nat, NEW k \in Int, n <= k * SectorBytes, k * SectorBytes < n + SectorBytes
  PROVE  SectorCount(n) = k
<1>1. SectorBytes \in Nat \ {0} BY SizesAssumption
<1> DEFINE m == SectorCount(n)
<1>2. m \in Nat /\ n <= m * SectorBytes /\ m * SectorBytes < n + SectorBytes BY Count
<1> HIDE DEF m
<1>3. m * SectorBytes < (k + 1) * SectorBytes BY <1>1, <1>2
<1>4. k * SectorBytes < (m + 1) * SectorBytes BY <1>1, <1>2
<1>5. m < k + 1 /\ k < m + 1 BY <1>1, <1>2, <1>3, <1>4, Rising
<1>6. QED BY <1>5, <1>2 DEF m

LEMMA CountGrows ==
  ASSUME NEW m \in Nat, NEW n \in Nat, m <= n
  PROVE  SectorCount(m) <= SectorCount(n)
<1>1. SectorBytes \in Nat \ {0} BY SizesAssumption
<1> DEFINE a == SectorCount(m)  b == SectorCount(n)
<1>2. a \in Nat /\ b \in Nat /\ a * SectorBytes < m + SectorBytes /\ n <= b * SectorBytes BY Count
<1> HIDE DEF a, b
<1>3. a * SectorBytes < (b + 1) * SectorBytes BY <1>1, <1>2
<1>4. a < b + 1 BY <1>1, <1>2, <1>3, Rising
<1>5. QED BY <1>2, <1>4 DEF a, b

LEMMA CountAdds ==
  ASSUME NEW a \in Nat, NEW n \in Nat
  PROVE  SectorCount(a * SectorBytes + n) = a + SectorCount(n)
<1>1. SectorBytes \in Nat \ {0} BY SizesAssumption
<1> DEFINE b == SectorCount(n)
<1>2. b \in Nat /\ n <= b * SectorBytes /\ b * SectorBytes < n + SectorBytes BY Count
<1> HIDE DEF b
<1>3. (a + b) * SectorBytes = a * SectorBytes + b * SectorBytes BY <1>1, <1>2
<1>4. a * SectorBytes + n \in Nat BY <1>1
<1>5. a * SectorBytes \in Nat /\ b * SectorBytes \in Nat BY <1>1, <1>2
<1>6. a + b \in Int BY <1>2
<1>7. a * SectorBytes + n <= (a + b) * SectorBytes /\ (a + b) * SectorBytes < a * SectorBytes + n + SectorBytes
  BY <1>1, <1>2, <1>3, <1>5
<1>8. SectorCount(a * SectorBytes + n) = a + b BY <1>4, <1>6, <1>7, CountIs
<1>9. QED BY <1>8 DEF b

LEMMA ImageFits ==
  ASSUME NEW n \in 0 .. ImageBytes
  PROVE  SectorCount(n) <= DriveSectors
<1>1. SectorBytes \in Nat \ {0} /\ DriveSectors \in Nat /\ ImageBytes \in Nat BY SizesAssumption
<1> DEFINE a == SectorCount(n)
<1>2. a \in Nat /\ a * SectorBytes < n + SectorBytes BY Count, <1>1
<1> HIDE DEF a
<1>3. n <= DriveSectors * SectorBytes BY SizesAssumption
<1>4. a * SectorBytes < (DriveSectors + 1) * SectorBytes BY <1>1, <1>2, <1>3
<1>5. a < DriveSectors + 1 BY <1>1, <1>2, <1>4, Rising
<1>6. QED BY <1>1, <1>2, <1>5 DEF a

LEMMA BlockIsTyped ==
  ASSUME NEW from \in Nat, NEW got \in Nat, NEW at \in Nat, from + got <= ImageBytes,
         NEW s \in at .. at + SectorCount(got) - 1
  PROVE  Block(from, got, at)[s] \in [Cells -> Bytes]
<1>1. SectorBytes \in Nat \ {0} /\ ImageBytes \in Nat BY SizesAssumption
<1>2. SectorCount(got) \in Nat BY Count
<1> SUFFICES ASSUME NEW c \in Cells
             PROVE  LET i == (s - at) * SectorBytes + c
                    IN  (IF i < got THEN from + i ELSE Zero) \in Bytes
  BY <1>2 DEF Block
<1>3. s - at \in Nat /\ c \in Nat BY <1>1, <1>2 DEF Cells
<1>4. (s - at) * SectorBytes \in Nat BY <1>1, <1>3
<1> DEFINE i == (s - at) * SectorBytes + c
<1>5. i \in Nat BY <1>3, <1>4
<1> HIDE DEF i
<1>6. (IF i < got THEN from + i ELSE Zero) \in Bytes BY <1>1, <1>5 DEF Bytes
<1>7. QED BY <1>6 DEF i

LEMMA BlockIsNew ==
  ASSUME NEW from \in Nat, NEW got \in Nat, NEW at \in Nat,
         NEW s \in at .. at + SectorCount(got) - 1, NEW c \in Cells
  PROVE  Block(from, got, at)[s][c] # Old
<1>1. SectorBytes \in Nat \ {0} BY SizesAssumption
<1>2. s - at \in Nat /\ c \in Nat BY <1>1, Count DEF Cells
<1>3. (s - at) * SectorBytes \in Nat BY <1>1, <1>2
<1> DEFINE i == (s - at) * SectorBytes + c
<1>4. i \in Nat BY <1>2, <1>3
<1>5. Block(from, got, at)[s][c] = IF i < got THEN from + i ELSE Zero BY DEF Block
<1> HIDE DEF i
<1>6. QED BY <1>4, <1>5 DEF Old, Zero

LEMMA BlockIsImage ==
  ASSUME NEW size \in 0 .. ImageBytes, NEW got \in Nat, NEW at \in Nat,
         at * SectorBytes + got <= size,
         \/ at * SectorBytes + got = size
         \/ at * SectorBytes + got = (at + SectorCount(got)) * SectorBytes,
         NEW s \in at .. at + SectorCount(got) - 1
  PROVE  Block(at * SectorBytes, got, at)[s] = Image(size)[s]
<1>1. SectorBytes \in Nat \ {0} /\ ImageBytes \in Nat BY SizesAssumption
<1>2. SectorCount(got) \in Nat BY Count
<1> DEFINE from == at * SectorBytes
<1>3. from \in Nat BY <1>1
<1>4. SectorCount(from + got) = at + SectorCount(got) BY CountAdds
<1>5. at + SectorCount(got) <= SectorCount(size) BY <1>1, <1>3, <1>4, CountGrows
<1>6. s \in 0 .. 0 + SectorCount(size) - 1 BY <1>1, <1>2, <1>5, Count
<1>7. ASSUME NEW c \in Cells
      PROVE  LET i == (s - at) * SectorBytes + c
                 j == (s - 0) * SectorBytes + c
             IN  (IF i < got THEN from + i ELSE Zero) = (IF j < size THEN 0 + j ELSE Zero)
  <2>1. c \in 0 .. SectorBytes - 1 BY DEF Cells
  <2>2. (s - at) * SectorBytes = s * SectorBytes - from BY <1>1, <1>2
  <2>3. s * SectorBytes \in Nat BY <1>1, <1>6
  <2>4. CASE from + got = size BY <1>1, <1>3, <2>1, <2>2, <2>3, <2>4
  <2>5. CASE from + got = (at + SectorCount(got)) * SectorBytes
    <3>1. s + 1 <= at + SectorCount(got) BY <1>2
    <3>2. (s + 1) * SectorBytes <= (at + SectorCount(got)) * SectorBytes
      BY <3>1, <1>1, <1>2
    <3>3. s * SectorBytes + SectorBytes <= from + got BY <3>2, <2>5, <1>1, <1>6
    <3>4. QED BY <1>1, <1>3, <2>1, <2>2, <2>3, <3>3
  <2>6. QED BY <2>4, <2>5
<1>8. Block(from, got, at)[s] =
        [c \in Cells |-> LET i == (s - at) * SectorBytes + c
                         IN  IF i < got THEN from + i ELSE Zero]
  BY DEF Block
<1>9. Image(size)[s] =
        [c \in Cells |-> LET i == (s - 0) * SectorBytes + c
                         IN  IF i < size THEN 0 + i ELSE Zero]
  BY <1>6 DEF Image, Block
<1> HIDE DEF from
<1>10. QED BY <1>7, <1>8, <1>9 DEF from

LEMMA ImageByte ==
  ASSUME NEW n \in 0 .. ImageBytes, NEW i \in 0 .. n - 1
  PROVE  /\ i \div SectorBytes \in 0 .. SectorCount(n) - 1
         /\ i % SectorBytes \in Cells
         /\ Image(n)[i \div SectorBytes][i % SectorBytes] = i
<1>1. SectorBytes \in Nat \ {0} /\ ImageBytes \in Nat BY SizesAssumption
<1> DEFINE s == i \div SectorBytes  c == i % SectorBytes
<1>0. i \in Nat BY <1>1
<1>2. s \in Nat /\ c \in 0 .. SectorBytes - 1 /\ i = s * SectorBytes + c
  BY <1>0, <1>1, DivMod, Zenon
<1>3. SectorCount(n) \in Nat /\ n <= SectorCount(n) * SectorBytes BY <1>1, Count
<1> HIDE DEF s, c
<1>4. s * SectorBytes < SectorCount(n) * SectorBytes BY <1>1, <1>2, <1>3
<1>5. s < SectorCount(n) BY <1>1, <1>2, <1>3, <1>4, Rising
<1>6. s \in 0 .. 0 + SectorCount(n) - 1 /\ c \in Cells BY <1>1, <1>2, <1>3, <1>5 DEF Cells
<1>7. Image(n)[s][c] = IF (s - 0) * SectorBytes + c < n THEN 0 + ((s - 0) * SectorBytes + c) ELSE Zero
  BY <1>6 DEF Image, Block
<1>8. (s - 0) * SectorBytes + c = i BY <1>1, <1>2
<1>9. Image(n)[s][c] = i BY <1>7, <1>8, <1>1
<1>10. QED BY <1>6, <1>9, <1>3 DEF s, c

-----------------------------------------------------------------------------
(* What the steps have in common.                                          *)

\* TypeOK, variable by variable.
Work == [pc : Steps, checks : BOOLEAN, size : 0 .. ImageBytes, first : 0 .. BlockBytes,
         read : 0 .. ImageBytes, out : [from : 0 .. ImageBytes, got : 0 .. BlockBytes],
         at : 0 .. DriveSectors, prepared : BOOLEAN, differs : BOOLEAN, left : 0 .. OpenTries,
         result : Errors \cup {"none", "ok", "stopped"}]
Drive == [seen : [Sectors -> [Cells -> Bytes]], may : [Sectors -> SUBSET [Cells -> Bytes]]]
Host == [kind : {"linux", "macos", "windows"}, source : 0 .. ImageBytes, lost : SUBSET Sectors,
         plugged : BOOLEAN, held : BOOLEAN, mounted : BOOLEAN, busy : BOOLEAN,
         guarded : BOOLEAN, offline : BOOLEAN, readOnly : BOOLEAN, wrote : BOOLEAN]
Words == {"none", "nothing", "part", "unchecked", "checked", "report"}
Reached == {"Nothing", "Writing", "Written", "Checking", "Checked"}

LEMMA Typed ==
  TypeOK <=> work \in Work /\ reached \in Reached /\ told \in Words /\ drive \in Drive /\ host \in Host
BY DEF TypeOK, Work, Drive, Host, Words, Reached

LEMMA TypedNext ==
  ASSUME work' \in Work, reached' \in Reached, told' \in Words, drive' \in Drive, host' \in Host
  PROVE  TypeOK'
BY DEF TypeOK, Work, Drive, Host, Words, Reached

Counters == <<work.checks, work.size, work.first, work.read, work.out, work.at, work.prepared,
              work.differs>>

\* A step that leaves the drive and the counters alone: it ends the work, or
\* takes the drive once more, or is one of the host.
LEMMA QuietKeeps ==
  ASSUME Facts,
         work.size \in Int, work.read \in Int, host.source \in Int, host'.source \in Int,
         UNCHANGED <<reached, drive>>, UNCHANGED Counters,
         host'.kind = host.kind, host'.lost = host.lost, host'.wrote = host.wrote,
         host'.guarded = host.guarded, host'.source <= host.source,
         \/ work'.pc \in {work.pc, "end"}
         \/ {work.pc, work'.pc} \subseteq {"unmount", "open"},
         host'.held = host.held \/ (work'.pc = "end" /\ ~host'.held),
         host'.mounted => host.mounted \/ ~host.guarded
  PROVE  Facts'
<1> USE DEF Facts, Counters
<1>1. Phases' BY DEF Phases
<1>2. Counted' BY DEF Counted
<1>3. Fresh' BY DEF Fresh
<1>4. Laid' BY DEF Laid, Whole, TableBlock
<1>5. Outside' BY DEF Outside
<1>6. Seen' BY DEF Seen, SeenByte
<1>7. NothingIsNothing' BY DEF NothingIsNothing
<1>8. WrittenIsOnTheMedium' BY DEF WrittenIsOnTheMedium
<1>9. TableComesLast' BY DEF TableComesLast, TableBlock
<1>10. HeadBare' BY DEF HeadBare, TableBlock
<1>11. GuardsHold' BY DEF GuardsHold
<1>12. Kept' BY DEF Kept
<1>13. Cleared' BY DEF Cleared
<1> QED BY <1>1, <1>2, <1>3, <1>4, <1>5, <1>6, <1>7, <1>8, <1>9, <1>10, <1>11, <1>12, <1>13

\* An error that leaves the drive and the host alone.
LEMMA FailKeeps ==
  ASSUME IInv, NEW e \in Errors, Fail(e), UNCHANGED <<reached, drive, host>>
  PROVE  IInv'
<1>1. work \in Work /\ drive \in Drive /\ host \in Host /\ reached \in Reached
  BY Typed DEF IInv
<1>2. /\ work' = [work EXCEPT !.pc = "end", !.result = e]
      /\ told' \in Words
  BY DEF Fail, Note, Words
<1>3. work' \in Work BY <1>1, <1>2 DEF Work, Steps
<1>4. work'.pc = "end" /\ UNCHANGED Counters BY <1>1, <1>2 DEF Work, Counters
<1>5. work.size \in Int /\ work.read \in Int /\ host.source \in Int
  BY <1>1, SizesAssumption DEF Work, Host
<1>6. Facts' BY <1>4, <1>5, QuietKeeps DEF IInv
<1>7. TypeOK' BY <1>1, <1>2, <1>3, TypedNext
<1> QED BY <1>6, <1>7 DEF IInv

LEMMA BusyKeeps ==
  ASSUME IInv, Busy, work.pc \in {"unmount", "open"}, UNCHANGED <<reached, drive, host>>
  PROVE  IInv'
<1>1. CASE work.checks /\ work.left > 1
  <2>1. work \in Work /\ drive \in Drive /\ host \in Host /\ reached \in Reached /\ told \in Words
    BY Typed DEF IInv
  <2>2. work' = [work EXCEPT !.pc = "unmount", !.left = work.left - 1] /\ told' = told
    BY <1>1 DEF Busy
  <2>3. work.left - 1 \in 0 .. OpenTries BY <1>1, <2>1, SizesAssumption DEF Work
  <2>4. work' \in Work BY <2>1, <2>2, <2>3 DEF Work, Steps
  <2>5. work'.pc = "unmount" /\ UNCHANGED Counters BY <2>1, <2>2 DEF Work, Counters
  <2>6. work.size \in Int /\ work.read \in Int /\ host.source \in Int
    BY <2>1, SizesAssumption DEF Work, Host
  <2>7. Facts' BY <2>5, <2>6, QuietKeeps DEF IInv
  <2> QED BY <2>1, <2>2, <2>4, <2>7, TypedNext DEF IInv
<1>2. CASE ~(work.checks /\ work.left > 1)
  BY <1>2, FailKeeps DEF Busy, Errors
<1> QED BY <1>1, <1>2

-----------------------------------------------------------------------------
(* The steps that leave the drive and the counters alone.                  *)

LEMMA UnmountKeeps == IInv /\ Unmount => IInv'
<1> SUFFICES ASSUME IInv, Unmount PROVE IInv'
  OBVIOUS
<1>1. CASE /\ host' = IF host.kind = "windows" THEN host ELSE [host EXCEPT !.mounted = FALSE]
           /\ work' = [work EXCEPT !.pc = "open"]
           /\ UNCHANGED told
  <2>1. work \in Work /\ drive \in Drive /\ host \in Host /\ reached \in Reached /\ told \in Words
    BY Typed DEF IInv
  <2>2. work.pc = "unmount" /\ UNCHANGED <<reached, drive>> BY DEF Unmount
  <2>3. work' \in Work /\ work'.pc = "open" /\ UNCHANGED Counters
    BY <1>1, <2>1 DEF Work, Steps, Counters
  <2>4. /\ host' \in Host
        /\ host'.kind = host.kind /\ host'.lost = host.lost /\ host'.wrote = host.wrote
        /\ host'.guarded = host.guarded /\ host'.source = host.source /\ host'.held = host.held
        /\ host'.mounted => host.mounted
    BY <1>1, <2>1 DEF Host
  <2>5. work.size \in Int /\ work.read \in Int /\ host.source \in Int
    BY <2>1, SizesAssumption DEF Work, Host
  <2>6. Facts' BY <2>2, <2>3, <2>4, <2>5, QuietKeeps DEF IInv
  <2> QED BY <1>1, <2>1, <2>2, <2>3, <2>4, <2>6, TypedNext DEF IInv
<1>2. CASE Busy /\ UNCHANGED host
  BY <1>2, BusyKeeps DEF Unmount
<1>3. CASE Fail("Io") /\ UNCHANGED host
  BY <1>3, FailKeeps DEF Unmount, Errors
<1> QED BY <1>1, <1>2, <1>3 DEF Unmount

LEMMA EjectKeeps == IInv /\ Eject => IInv'
<1> SUFFICES ASSUME IInv, Eject PROVE IInv'
  OBVIOUS
<1>1. work \in Work /\ drive \in Drive /\ host \in Host /\ reached \in Reached
  BY Typed DEF IInv
<1>2. work' \in Work /\ work'.pc = "end" /\ UNCHANGED Counters
  BY <1>1 DEF Eject, Work, Steps, Counters
<1>3. /\ host' \in Host
      /\ host'.kind = host.kind /\ host'.lost = host.lost /\ host'.wrote = host.wrote
      /\ host'.guarded = host.guarded /\ host'.source = host.source /\ ~host'.held
      /\ host'.mounted = host.mounted
  BY <1>1 DEF Eject, Host
<1>4. UNCHANGED <<reached, drive>> /\ told' \in Words BY DEF Eject, Words
<1>5. work.size \in Int /\ work.read \in Int /\ host.source \in Int
  BY <1>1, SizesAssumption DEF Work, Host
<1>6. Facts' BY <1>2, <1>3, <1>4, <1>5, QuietKeeps DEF IInv
<1> QED BY <1>1, <1>2, <1>3, <1>4, <1>6, TypedNext DEF IInv

LEMMA SignalKeeps == IInv /\ Signal => IInv'
<1> SUFFICES ASSUME IInv, Signal PROVE IInv'
  OBVIOUS
<1>1. work \in Work /\ drive \in Drive /\ host \in Host /\ reached \in Reached
  BY Typed DEF IInv
<1>2. work' \in Work /\ work'.pc = "end" /\ UNCHANGED Counters
  BY <1>1 DEF Signal, Work, Steps, Counters
<1>3. UNCHANGED <<reached, drive, host>> /\ told' \in Words
  BY <1>1 DEF Signal, Stopped, Words, Reached
<1>4. work.size \in Int /\ work.read \in Int /\ host.source \in Int
  BY <1>1, SizesAssumption DEF Work, Host
<1>5. Facts' BY <1>2, <1>3, <1>4, QuietKeeps DEF IInv
<1> QED BY <1>1, <1>2, <1>3, <1>5, TypedNext DEF IInv

\* The plug, the image file, a mount and a program that uses it.
LEMMA AroundKeeps == IInv /\ (Unplug \/ Shrink \/ HostMounts \/ HostUses) => IInv'
<1> SUFFICES ASSUME IInv, Unplug \/ Shrink \/ HostMounts \/ HostUses PROVE IInv'
  OBVIOUS
<1>1. work \in Work /\ drive \in Drive /\ host \in Host /\ reached \in Reached /\ told \in Words
  BY Typed DEF IInv
<1>2. UNCHANGED <<work, reached, told, drive>> BY DEF Unplug, Shrink, HostMounts, HostUses
<1>3. /\ host' \in Host
      /\ host'.kind = host.kind /\ host'.lost = host.lost /\ host'.wrote = host.wrote
      /\ host'.guarded = host.guarded /\ host'.held = host.held
      /\ host'.source <= host.source
      /\ host'.mounted => host.mounted \/ ~host.guarded
  <2> DEFINE Same == /\ host'.kind = host.kind /\ host'.lost = host.lost
                     /\ host'.wrote = host.wrote /\ host'.guarded = host.guarded
                     /\ host'.held = host.held
  <2>1. ImageBytes \in Nat /\ host.source \in Int BY <1>1, SizesAssumption DEF Host
  <2>2. CASE Unplug
    <3>1. host' = [host EXCEPT !.plugged = FALSE, !.mounted = FALSE, !.busy = FALSE]
      BY <2>2 DEF Unplug
    <3>2. host' \in Host /\ Same /\ host'.source = host.source BY <1>1, <3>1 DEF Host
    <3>3. ~host'.mounted BY <1>1, <3>1 DEF Host
    <3> QED BY <2>1, <3>2, <3>3
  <2>3. CASE Shrink BY <1>1, <2>1, <2>3 DEF Shrink, Host
  <2>4. CASE HostMounts
    <3>1. host' = [host EXCEPT !.mounted = TRUE] /\ ~host.guarded
      BY <2>4 DEF HostMounts
    <3>2. host' \in Host /\ Same /\ host'.source = host.source BY <1>1, <3>1 DEF Host
    <3> QED BY <2>1, <3>1, <3>2
  <2>5. CASE HostUses
    <3>1. host' = [host EXCEPT !.busy = ~host.busy] BY <2>5 DEF HostUses
    <3>2. host' \in Host /\ Same /\ host'.source = host.source BY <1>1, <3>1 DEF Host
    <3>3. host'.mounted = host.mounted BY <1>1, <3>1 DEF Host
    <3> QED BY <2>1, <3>2, <3>3
  <2> QED BY <2>2, <2>3, <2>4, <2>5
<1>4. work.size \in Int /\ work.read \in Int /\ host.source \in Int /\ host'.source \in Int
  BY <1>1, <1>3, SizesAssumption DEF Work, Host
<1>5. work'.pc = work.pc /\ UNCHANGED Counters BY <1>2 DEF Counters
<1>6. Facts' BY <1>2, <1>3, <1>4, <1>5, QuietKeeps DEF IInv
<1> QED BY <1>1, <1>2, <1>3, <1>6, TypedNext DEF IInv

-----------------------------------------------------------------------------
(* The steps of the write.                                                 *)

LEMMA AllTyped ==
  /\ {All(Old), All(Zero), All(Other)} \subseteq [Cells -> Bytes]
  /\ \A c \in Cells : ~(All(Old)[c] >= 0) /\ ~(All(Zero)[c] >= 0)
  /\ \A c \in Cells : All(Old)[c] < 0 /\ All(Zero)[c] < 0 /\ All(Zero)[c] # Old
BY DEF All, Old, Zero, Other, Bytes

LEMMA NoSectors == SectorCount(0) = 0 /\ ImageSectors(0) = {}
<1>1. SectorBytes \in Nat \ {0} BY SizesAssumption
<1>2. SectorCount(0) = 0 BY <1>1, CountIs
<1> QED BY <1>2 DEF ImageSectors

LEMMA ImageInDrive ==
  ASSUME NEW n \in 0 .. ImageBytes
  PROVE  ImageSectors(n) \subseteq Sectors
<1>1. ImageBytes \in Nat /\ DriveSectors \in Nat /\ n \in Nat BY SizesAssumption
<1>2. SectorCount(n) <= DriveSectors /\ SectorCount(n) \in Nat BY <1>1, ImageFits, Count
<1> QED BY <1>1, <1>2 DEF ImageSectors, Sectors

LEMMA OpenKeeps == IInv /\ Open => IInv'
<1> SUFFICES ASSUME IInv, Open PROVE IInv'
  OBVIOUS
<1> DEFINE Taken == /\ host.plugged
                    /\ host' = [host EXCEPT !.held = TRUE, !.mounted = FALSE]
                    /\ work' = [work EXCEPT !.pc = IF work.checks THEN "check" ELSE "start",
                                            !.at = 0, !.prepared = FALSE]
                    /\ drive' = Settled([s \in Sectors |-> IF s \in host.lost THEN All(Old)
                                                           ELSE drive.seen[s]])
                    /\ UNCHANGED told
<1>1. CASE Taken
  <2>1. work \in Work /\ drive \in Drive /\ host \in Host /\ reached \in Reached /\ told \in Words
    BY Typed DEF IInv
  <2>2. work.pc = "open" /\ reached' = reached BY DEF Open
  <2>3. /\ work' \in Work
        /\ work'.pc = IF work.checks THEN "check" ELSE "start"
        /\ work'.checks = work.checks /\ work'.size = work.size /\ work'.first = work.first
        /\ work'.read = work.read /\ work'.differs = work.differs /\ ~work'.prepared
    <3> DEFINE pc == IF work.checks THEN "check" ELSE "start"
    <3>1. pc \in Steps /\ 0 \in 0 .. DriveSectors BY SizesAssumption DEF Steps
    <3>2. work' = [work EXCEPT !.pc = pc, !.at = 0, !.prepared = FALSE] BY <1>1
    <3> HIDE DEF pc
    <3>3. /\ work' \in Work /\ work'.pc = pc
          /\ work'.checks = work.checks /\ work'.size = work.size /\ work'.first = work.first
          /\ work'.read = work.read /\ work'.differs = work.differs /\ ~work'.prepared
      BY <2>1, <3>1, <3>2 DEF Work
    <3> QED BY <3>3 DEF pc
  <2>4. /\ host' \in Host
        /\ host'.kind = host.kind /\ host'.lost = host.lost /\ host'.wrote = host.wrote
        /\ host'.guarded = host.guarded /\ host'.source = host.source
        /\ host'.held /\ ~host'.mounted
    BY <1>1, <2>1 DEF Host
  <2>5. /\ Phases /\ Counted /\ Laid /\ Outside /\ Seen /\ NothingIsNothing /\ GuardsHold
        /\ Kept /\ WrittenIsOnTheMedium
    BY DEF IInv, Facts
  <2>6. \A s \in Sectors :
          /\ drive'.seen[s] = IF s \in host.lost THEN All(Old) ELSE drive.seen[s]
          /\ drive'.may[s] = {drive'.seen[s]}
    BY <1>1, <2>5 DEF Settled, Laid
  <2>7. drive' \in Drive BY <1>1, <2>1, AllTyped DEF Settled, Drive
  <2>8. Phases' BY <2>2, <2>3, <2>4, <2>5 DEF Phases
  <2>9. Counted' BY <2>2, <2>3, <2>4, <2>5 DEF Counted, Phases
  <2>10. Fresh' /\ HeadBare' BY <2>3 DEF Fresh, HeadBare
  <2>11. ~work.checks => \A s \in Sectors : drive'.seen[s] = All(Old)
    BY <2>2, <2>5, <2>6 DEF NothingIsNothing, Phases
  <2>12. host.lost \subseteq Sectors BY <2>1 DEF Host
  <2>13. Laid'
    <3>1. \A s \in host.lost : drive'.may[s] = {All(Old)} BY <2>6, <2>12
    <3>2. reached = "Written" => work.checks BY <2>2, <2>5 DEF Phases
    <3> QED BY <2>2, <2>3, <2>4, <3>1, <3>2 DEF Laid
  <2>14. Outside' BY <2>2, <2>3, <2>4, <2>5, <2>6 DEF Outside, Spare, Phases
  <2>15. Seen'
    <3>1. reached \notin {"Checking", "Checked"} BY <2>2, <2>5 DEF Phases
    <3>2. ASSUME work.checks, host.lost = {}, ~host.wrote, NEW i \in 0 .. work.size - 1
          PROVE  SeenByte(i)' = i
      <4>1. i \div SectorBytes \in Sectors
        <5>1. work.size \in 0 .. ImageBytes BY <2>1 DEF Work
        <5>2. i \div SectorBytes \in 0 .. SectorCount(work.size) - 1 BY <5>1, ImageByte
        <5> QED BY <5>1, <5>2, ImageInDrive DEF ImageSectors
      <4>2. SeenByte(i) = i BY <3>2, <2>5 DEF Seen
      <4> QED BY <3>2, <4>1, <4>2, <2>6 DEF SeenByte
    <3> QED BY <2>2, <2>3, <2>4, <2>5, <2>6, <3>1, <3>2 DEF Seen
  <2>16. NothingIsNothing' BY <2>2, <2>5, <2>6, <2>11, <2>12 DEF NothingIsNothing, Phases
  <2>17. WrittenIsOnTheMedium'
    <3>1. CASE reached \in {"Written", "Checking", "Checked"} /\ host.lost = {} /\ ~host.wrote
      <4>1. \A s \in Sectors : drive'.may[s] = drive.may[s] BY <3>1, <2>5, <2>6 DEF Kept
      <4>2. PICK n \in work.size .. ImageBytes :
              /\ reached = "Written" => n = work.size
              /\ \A s \in ImageSectors(n) : drive.may[s] = {Image(n)[s]}
        BY <3>1, <2>5 DEF WrittenIsOnTheMedium
      <4>3. n \in 0 .. ImageBytes BY <2>1, <4>2, SizesAssumption DEF Work
      <4>4. \A s \in ImageSectors(n) : drive'.may[s] = {Image(n)[s]}
        BY <4>1, <4>2, <4>3, ImageInDrive
      <4> QED BY <4>2, <4>4, <2>2, <2>3 DEF WrittenIsOnTheMedium
    <3>2. CASE ~(reached \in {"Written", "Checking", "Checked"} /\ host.lost = {} /\ ~host.wrote)
      BY <3>2, <2>2, <2>4 DEF WrittenIsOnTheMedium
    <3> QED BY <3>1, <3>2
  <2>18. TableComesLast'
    <3>1. CASE work.checks BY <3>1, <2>3 DEF TableComesLast
    <3>2. CASE ~work.checks
      <4>1. work.first = 0 BY <3>2, <2>2, <2>5 DEF Counted
      <4> QED BY <4>1, <2>3, NoSectors DEF TableComesLast, TableBlock
    <3> QED BY <3>1, <3>2
  <2>19. GuardsHold' BY <2>3, <2>4, <2>5 DEF GuardsHold
  <2>20. Kept' BY <2>6 DEF Kept
  <2>21. Cleared' BY <2>3, <2>11, AllTyped DEF Cleared
  <2> QED BY <2>1, <2>2, <1>1, <2>3, <2>4, <2>7, <2>8, <2>9, <2>10, <2>13, <2>14, <2>15,
             <2>16, <2>17, <2>18, <2>19, <2>20, <2>21, TypedNext DEF IInv, Facts
<1>2. CASE Busy /\ UNCHANGED <<drive, host>>
  BY <1>2, BusyKeeps DEF Open
<1>3. CASE Fail("Io") /\ UNCHANGED <<drive, host>>
  BY <1>3, FailKeeps DEF Open, Errors
<1> QED BY <1>1, <1>2, <1>3 DEF Open

\* How many bytes of the image come next.
LEMMA NextBlockIs ==
  ASSUME work \in Work, host \in Host, work.read <= work.size
  PROVE  /\ NextBlock \in 0 .. BlockBytes
         /\ work.read + NextBlock \in 0 .. work.size
         /\ NextBlock > 0 => host.source > work.read
         /\ \/ NextBlock = BlockBytes
            \/ work.read + NextBlock = work.size
            \/ host.source <= work.read + NextBlock
<1>1. BlockBytes \in Nat BY SizesAssumption DEF BlockBytes
<1>2. work.read \in Nat /\ work.size \in Nat /\ host.source \in Nat
  BY SizesAssumption DEF Work, Host
<1> HIDE DEF BlockBytes
<1> QED BY <1>1, <1>2 DEF NextBlock, Filled, Least

\* A whole block fills its sectors.
LEMMA WholeBlock == BlockBytes \in Nat \ {0} /\ SectorCount(BlockBytes) * SectorBytes = BlockBytes
<1>1. SectorBytes \in Nat \ {0} /\ BlockSectors \in Nat \ {0} BY SizesAssumption
<1>2. SectorCount(BlockSectors * SectorBytes + 0) = BlockSectors + SectorCount(0)
  BY <1>1, CountAdds
<1>3. BlockSectors * SectorBytes \in Nat \ {0} BY <1>1
<1> QED BY <1>1, <1>2, <1>3, NoSectors DEF BlockBytes

LEMMA StartWriteKeeps == IInv /\ StartWrite => IInv'
<1> SUFFICES ASSUME IInv, StartWrite PROVE IInv'
  OBVIOUS
<1> DEFINE Started == /\ reached' = "Writing"
                      /\ work' = [work EXCEPT !.pc = "first", !.size = host.source]
                      /\ UNCHANGED told
<1>1. CASE Started
  <2>1. work \in Work /\ drive \in Drive /\ host \in Host /\ reached \in Reached /\ told \in Words
    BY Typed DEF IInv
  <2>2. work.pc = "start" /\ UNCHANGED <<drive, host>> BY DEF StartWrite
  <2>3. host.source \in 0 .. ImageBytes BY <2>1 DEF Host
  <2>4. /\ work' \in Work /\ work'.pc = "first" /\ work'.size = host.source
        /\ work'.checks = work.checks /\ work'.first = work.first /\ work'.read = work.read
        /\ work'.prepared = work.prepared /\ work'.differs = work.differs
    BY <1>1, <2>1, <2>3 DEF Work, Steps
  <2>5. /\ Phases /\ Counted /\ Fresh /\ Laid /\ Seen /\ NothingIsNothing /\ GuardsHold /\ Cleared
    BY DEF IInv, Facts
  <2>6. reached = "Nothing" /\ ~work.checks /\ host.held BY <2>2, <2>5 DEF Phases
  <2>7. work.read = 0 /\ work.first = 0 BY <2>2, <2>5, <2>6 DEF Counted
  <2>8. \A s \in Sectors : drive.seen[s] = All(Old) /\ drive.may[s] = {All(Old)}
    BY <2>5, <2>6 DEF NothingIsNothing
  <2>9. Phases' BY <1>1, <2>2, <2>4, <2>5, <2>6 DEF Phases
  <2>10. Counted' BY <1>1, <2>2, <2>3, <2>4, <2>7, SizesAssumption DEF Counted
  <2>11. Fresh' BY <2>2, <2>4, <2>5 DEF Fresh
  <2>12. Laid' BY <1>1, <2>2, <2>4, <2>5, <2>8 DEF Laid
  <2>13. Outside' BY <2>2, <2>8 DEF Outside, Spare
  <2>14. Seen' BY <1>1, <2>2, <2>4, <2>5, <2>6 DEF Seen
  <2>15. NothingIsNothing' /\ WrittenIsOnTheMedium' BY <1>1 DEF NothingIsNothing, WrittenIsOnTheMedium
  <2>16. TableComesLast' BY <2>4, <2>7, NoSectors DEF TableComesLast, TableBlock
  <2>17. HeadBare' BY <2>4 DEF HeadBare
  <2>18. GuardsHold' BY <2>2, <2>4, <2>5 DEF GuardsHold
  <2>19. reached' \in Reached BY <1>1 DEF Reached
  <2>20. Kept' BY <1>1 DEF Kept
  <2>21. Cleared' BY <2>2, <2>4, <2>5 DEF Cleared
  <2> QED BY <1>1, <2>1, <2>2, <2>4, <2>9, <2>10, <2>11, <2>12, <2>13, <2>14, <2>15, <2>16,
             <2>17, <2>18, <2>19, <2>20, <2>21, TypedNext DEF IInv, Facts
<1>2. CASE Fail("Io") /\ UNCHANGED reached
  BY <1>2, FailKeeps DEF StartWrite, Errors
<1> QED BY <1>1, <1>2 DEF StartWrite

LEMMA ReadFirstKeeps == IInv /\ ReadFirst => IInv'
<1> SUFFICES ASSUME IInv, ReadFirst PROVE IInv'
  OBVIOUS
<1> DEFINE n == NextBlock
<1>1. CASE /\ n > 0 \/ work.size = 0
           /\ work' = [work EXCEPT !.pc = "block", !.first = n, !.read = n, !.at = SectorCount(n)]
           /\ UNCHANGED told
  <2>1. work \in Work /\ drive \in Drive /\ host \in Host /\ reached \in Reached /\ told \in Words
    BY Typed DEF IInv
  <2>2. work.pc = "first" /\ UNCHANGED <<reached, drive, host>> BY DEF ReadFirst
  <2>3. /\ Phases /\ Counted /\ Fresh /\ Laid /\ Outside /\ Seen /\ GuardsHold /\ Cleared
    BY DEF IInv, Facts
  <2>4. reached = "Writing" /\ ~work.checks /\ host.held /\ work.read = 0
    BY <2>2, <2>3 DEF Phases, Counted
  <2>5. work.size \in 0 .. ImageBytes /\ work.size \in Nat /\ ImageBytes \in Nat
    BY <2>1, SizesAssumption DEF Work
  <2>6. /\ n \in 0 .. BlockBytes /\ n \in Nat /\ n <= work.size
        /\ n = BlockBytes \/ n = work.size \/ host.source <= n
    BY <2>1, <2>4, <2>5, NextBlockIs, WholeBlock
  <2> HIDE DEF n
  <2>21. n \in 0 .. ImageBytes BY <2>5, <2>6
  <2>7. SectorCount(n) \in 0 .. DriveSectors
    BY <2>21, <2>6, Count, ImageFits, SizesAssumption
  <2>8. /\ work' \in Work /\ work'.pc = "block" /\ work'.size = work.size
        /\ work'.first = n /\ work'.read = n /\ work'.at = SectorCount(n)
        /\ work'.checks = work.checks /\ work'.prepared = work.prepared
        /\ work'.differs = work.differs
    BY <1>1, <2>1, <2>21, <2>6, <2>7 DEF Work, Steps
  <2>9. Phases' BY <2>2, <2>3, <2>4, <2>8 DEF Phases
  <2>10. Counted'
    <3>1. n = 0 => work.size = 0 BY <1>1, <2>6
    <3>2. n = BlockBytes => n = SectorCount(n) * SectorBytes BY WholeBlock
    <3>3. host.source <= work.size BY <2>3, <2>4 DEF Counted
    <3> QED BY <2>2, <2>6, <2>8, <3>1, <3>2, <3>3 DEF Counted
  <2>11. Fresh' BY <2>2, <2>8 DEF Fresh
  <2>12. \A s \in Sectors : drive.seen[s] = All(Old) BY <2>2, <2>3 DEF Laid
  <2>13. ImageSectors(n) \subseteq Sectors BY <2>5, <2>6, ImageInDrive
  <2>14. Laid'
    <3>1. SectorCount(n) .. SectorCount(n) - 1 = {} BY <2>7
    <3>2. Whole(SectorCount(work.first), work.at - 1)' BY <2>8, <3>1 DEF Whole
    <3>3. \A s \in TableBlock' : drive'.seen[s] \in {All(Old), All(Zero)}
      BY <2>2, <2>8, <2>12, <2>13 DEF TableBlock
    <3>4. \A s \in host.lost : drive.may[s] = {All(Old)} BY <2>3 DEF Laid
    <3> QED BY <2>2, <2>4, <2>8, <3>2, <3>3, <3>4 DEF Laid
  <2>15. Outside' BY <2>2, <2>3, <2>8 DEF Outside
  <2>16. Seen' BY <2>2, <2>3, <2>4, <2>8 DEF Seen
  <2>17. NothingIsNothing' /\ WrittenIsOnTheMedium'
    BY <2>2, <2>4 DEF NothingIsNothing, WrittenIsOnTheMedium
  <2>18. TableComesLast'
    <3>1. \A s \in ImageSectors(n) : \A c \in Cells : ~(drive'.seen[s][c] >= 0)
      BY <2>2, <2>12, <2>13, AllTyped
    <3> QED BY <2>8, <3>1 DEF TableComesLast, TableBlock
  <2>19. HeadBare' BY <2>2, <2>3, <2>8 DEF HeadBare, Fresh
  <2>20. GuardsHold' BY <2>2, <2>3, <2>8 DEF GuardsHold
  <2>22. Kept' BY <2>2, <2>4 DEF Kept
  <2>23. Cleared' BY <2>2, <2>3, <2>8 DEF Cleared
  <2> QED BY <1>1, <2>1, <2>2, <2>8, <2>9, <2>10, <2>11, <2>14, <2>15, <2>16, <2>17, <2>18,
             <2>19, <2>20, <2>22, <2>23, TypedNext DEF IInv, Facts
<1>2. CASE \E e \in NextBlockErrors : Fail(e)
  BY <1>2, FailKeeps DEF ReadFirst, NextBlockErrors, Errors
<1> QED BY <1>1, <1>2 DEF ReadFirst

LEMMA ReadBlockKeeps == IInv /\ ReadBlock => IInv'
<1> SUFFICES ASSUME IInv, ReadBlock PROVE IInv'
  OBVIOUS
<1> DEFINE n == NextBlock
<1>1. CASE /\ n > 0
           /\ work' = [work EXCEPT !.pc = "write", !.read = work.read + n,
                                   !.out = [from |-> work.read, got |-> n]]
           /\ UNCHANGED told
  <2>1. work \in Work /\ drive \in Drive /\ host \in Host /\ reached \in Reached /\ told \in Words
    BY Typed DEF IInv
  <2>2. work.pc = "block" /\ work.read < work.size /\ UNCHANGED <<reached, drive, host>>
    BY DEF ReadBlock
  <2>3. /\ Phases /\ Counted /\ Fresh /\ Laid /\ Outside /\ Seen /\ GuardsHold
        /\ TableComesLast /\ HeadBare /\ Cleared
    BY DEF IInv, Facts
  <2>4. reached = "Writing" /\ ~work.checks /\ host.held BY <2>2, <2>3 DEF Phases
  <2>5. /\ work.size \in 0 .. ImageBytes /\ work.size \in Nat /\ ImageBytes \in Nat
        /\ work.read \in Nat /\ work.first \in Nat /\ work.at \in Nat /\ host.source \in Nat
    BY <2>1, SizesAssumption, WholeBlock DEF Work, Host
  <2>6. /\ n \in 0 .. BlockBytes /\ n \in Nat /\ work.read + n <= work.size
        /\ host.source > work.read
        /\ n = BlockBytes \/ work.read + n = work.size \/ host.source <= work.read + n
    BY <1>1, <2>1, <2>2, <2>5, NextBlockIs, WholeBlock
  <2> HIDE DEF n
  <2>7. /\ work' \in Work /\ work'.pc = "write" /\ work'.size = work.size
        /\ work'.first = work.first /\ work'.read = work.read + n /\ work'.at = work.at
        /\ work'.out.from = work.read /\ work'.out.got = n
        /\ work'.checks = work.checks /\ work'.prepared = work.prepared
        /\ work'.differs = work.differs
    <3>1. /\ [from |-> work.read, got |-> n] \in [from : 0 .. ImageBytes, got : 0 .. BlockBytes]
          /\ work.read + n \in 0 .. ImageBytes
      BY <2>1, <2>5, <2>6 DEF Work
    <3> QED BY <1>1, <2>1, <3>1 DEF Work, Steps
  <2>8. /\ work.read = work.at * SectorBytes
        /\ work.first <= work.read /\ work.read # 0
        /\ work.first = SectorCount(work.first) * SectorBytes
    <3>1. work.read = work.at * SectorBytes /\ work.at = SectorCount(work.read)
      BY <2>2, <2>3, <2>5, <2>6 DEF Counted
    <3>2. work.first <= work.read /\ (work.first = 0 => work.size = 0)
      BY <2>2, <2>3 DEF Counted
    <3>3. work.first = SectorCount(work.first) * SectorBytes \/ work.read = work.first
      BY <2>2, <2>3 DEF Counted
    <3> QED BY <2>2, <2>5, <3>1, <3>2, <3>3
  <2>9. Phases' BY <2>2, <2>3, <2>4, <2>7 DEF Phases
  <2>10. Counted'
    <3>1. n = BlockBytes => work.read + n = (work.at + SectorCount(n)) * SectorBytes
      <4>1. SectorCount(n) \in Nat /\ SectorBytes \in Nat BY <2>6, Count, SizesAssumption
      <4>2. (work.at + SectorCount(n)) * SectorBytes
              = work.at * SectorBytes + SectorCount(n) * SectorBytes
        BY <4>1, <2>5
      <4> QED BY <4>2, <2>8, WholeBlock
    <3>2. host.source <= work.size /\ (work.first = 0 => work.size = 0)
      BY <2>2, <2>3, <2>4 DEF Counted
    <3> QED BY <1>1, <2>2, <2>4, <2>5, <2>6, <2>7, <2>8, <3>1, <3>2 DEF Counted
  <2>11. Fresh' BY <2>2, <2>3, <2>7, <2>8 DEF Fresh
  <2>12. Laid'
    <3>1. Whole(SectorCount(work.first), work.at - 1)' BY <2>2, <2>3, <2>7, <2>8 DEF Laid, Whole
    <3> QED BY <2>2, <2>3, <2>4, <2>7, <2>8, <3>1 DEF Laid, TableBlock
  <2>13. Outside' BY <2>2, <2>3, <2>7 DEF Outside
  <2>14. Seen' BY <2>2, <2>3, <2>4, <2>7 DEF Seen
  <2>15. NothingIsNothing' /\ WrittenIsOnTheMedium'
    BY <2>2, <2>4 DEF NothingIsNothing, WrittenIsOnTheMedium
  <2>16. TableComesLast' BY <2>2, <2>3, <2>7 DEF TableComesLast, TableBlock
  <2>17. HeadBare' BY <2>2, <2>3, <2>7 DEF HeadBare, TableBlock
  <2>18. GuardsHold' BY <2>2, <2>3, <2>7 DEF GuardsHold
  <2>19. Kept' BY <2>2, <2>4 DEF Kept
  <2>20. Cleared' BY <2>2, <2>3, <2>7 DEF Cleared
  <2> QED BY <1>1, <2>1, <2>2, <2>7, <2>9, <2>10, <2>11, <2>12, <2>13, <2>14, <2>15, <2>16,
             <2>17, <2>18, <2>19, <2>20, TypedNext DEF IInv, Facts
<1>2. CASE \E e \in NextBlockErrors : Fail(e)
  BY <1>2, FailKeeps DEF ReadBlock, NextBlockErrors, Errors
<1> QED BY <1>1, <1>2 DEF ReadBlock

LEMMA SeekFirstKeeps == IInv /\ SeekFirst => IInv'
<1> SUFFICES ASSUME IInv, SeekFirst PROVE IInv'
  OBVIOUS
<1>1. work \in Work /\ drive \in Drive /\ host \in Host /\ reached \in Reached /\ told \in Words
  BY Typed DEF IInv
<1>2. work.pc = "block" /\ work.read = work.size /\ UNCHANGED <<reached, told, drive, host>>
  BY DEF SeekFirst
<1>3. /\ Phases /\ Counted /\ Fresh /\ Laid /\ Outside /\ Seen /\ GuardsHold
      /\ TableComesLast /\ HeadBare /\ Cleared
  BY DEF IInv, Facts
<1>4. reached = "Writing" /\ ~work.checks /\ host.held BY <1>2, <1>3 DEF Phases
<1>5. /\ work' \in Work /\ work'.pc = "write" /\ work'.size = work.size
      /\ work'.first = work.first /\ work'.read = work.read /\ work'.at = 0
      /\ work'.out.from = 0 /\ work'.out.got = work.first
      /\ work'.checks = work.checks /\ work'.prepared = work.prepared
      /\ work'.differs = work.differs
  <2>1. /\ [from |-> 0, got |-> work.first] \in [from : 0 .. ImageBytes, got : 0 .. BlockBytes]
        /\ 0 \in 0 .. DriveSectors
    BY <1>1, SizesAssumption DEF Work
  <2>2. work' = [work EXCEPT !.pc = "write", !.out = [from |-> 0, got |-> work.first], !.at = 0]
    BY DEF SeekFirst
  <2> QED BY <1>1, <2>1, <2>2 DEF Work, Steps
<1>6. Phases' BY <1>2, <1>3, <1>4, <1>5 DEF Phases
<1>7. Counted' BY <1>2, <1>3, <1>4, <1>5 DEF Counted
<1>8. Fresh' BY <1>2, <1>3, <1>5 DEF Fresh
<1>9. Laid'
  <2>1. work.at = SectorCount(work.size) BY <1>2, <1>3 DEF Counted
  <2>2. Whole(SectorCount(work.first), SectorCount(work.size) - 1)'
    BY <1>2, <1>3, <1>5, <2>1 DEF Laid, Whole
  <2> QED BY <1>2, <1>3, <1>4, <1>5, <2>2 DEF Laid, TableBlock
<1>10. Outside' BY <1>2, <1>3, <1>5 DEF Outside
<1>11. Seen' BY <1>2, <1>3, <1>4, <1>5 DEF Seen
<1>12. NothingIsNothing' /\ WrittenIsOnTheMedium'
  BY <1>2, <1>4 DEF NothingIsNothing, WrittenIsOnTheMedium
<1>13. TableComesLast' BY <1>2, <1>3, <1>5 DEF TableComesLast, TableBlock
<1>14. HeadBare' BY <1>2, <1>3, <1>5 DEF HeadBare, TableBlock
<1>15. GuardsHold' BY <1>2, <1>3, <1>5 DEF GuardsHold
<1>16. Kept' BY <1>2, <1>4 DEF Kept
<1>17. Cleared' BY <1>2, <1>3, <1>5 DEF Cleared
<1> QED BY <1>1, <1>2, <1>5, <1>6, <1>7, <1>8, <1>9, <1>10, <1>11, <1>12, <1>13, <1>14, <1>15, <1>16, <1>17,
           TypedNext DEF IInv, Facts

LEMMA WroteIs ==
  ASSUME drive \in Drive, host \in Host, NEW data, drive' = Wrote(data),
         \A s \in DOMAIN data \cap Sectors : data[s] \in [Cells -> Bytes]
  PROVE  /\ drive' \in Drive
         /\ \A s \in Sectors :
              /\ drive'.seen[s] = IF s \in DOMAIN data THEN data[s] ELSE drive.seen[s]
              /\ drive'.may[s] \subseteq drive.may[s] \cup {drive'.seen[s]}
              /\ s \in host.lost => drive'.may[s] = drive.may[s]
<1>1. /\ drive' = [seen |-> drive'.seen, may |-> drive'.may]
      /\ drive'.seen = [s \in Sectors |-> IF s \in DOMAIN data THEN data[s] ELSE drive.seen[s]]
      /\ drive'.may = [s \in Sectors |-> IF s \in DOMAIN data \ host.lost
                                         THEN drive.may[s] \cup {data[s]} ELSE drive.may[s]]
  BY DEF Wrote
<1>2. /\ \A s \in Sectors : drive.seen[s] \in [Cells -> Bytes]
      /\ \A s \in Sectors : drive.may[s] \in SUBSET [Cells -> Bytes]
  BY DEF Drive
<1> HIDE DEF Drive
<1>3. drive'.seen \in [Sectors -> [Cells -> Bytes]] BY <1>1, <1>2
<1>4. drive'.may \in [Sectors -> SUBSET [Cells -> Bytes]] BY <1>1, <1>2
<1>5. drive' \in Drive BY <1>1, <1>3, <1>4 DEF Drive
<1> QED BY <1>1, <1>5

\* A write that breaks off in the middle.  It puts no byte of the image where
\* the table goes, or all of the rest is already there.
LEMMA PartKeeps ==
  ASSUME IInv, work.pc = "write", NEW data, drive' = Wrote(data), Fail("Io"),
         \A s \in DOMAIN data \cap Sectors : data[s] \in [Cells -> Bytes],
         \A s \in (DOMAIN data \cap Sectors) \ ImageSectors(work.size) : data[s] \in Spare(s),
         \/ \A s \in DOMAIN data \cap TableBlock : \A c \in Cells : ~(data[s][c] >= 0)
         \/ work.out.from = 0 /\ DOMAIN data \subseteq TableBlock,
         host.kind = "windows" => \A s \in DOMAIN data \cap Sectors : \A c \in Cells :
           IF work.prepared THEN data[s][c] # Old ELSE data[s][c] < 0,
         reached' = reached,
         host' \in Host, host'.kind = host.kind, host'.lost = host.lost,
         host'.wrote = host.wrote, host'.guarded = host.guarded,
         host'.source = host.source, host'.held = host.held, host'.mounted = host.mounted
  PROVE  IInv'
<1>1. work \in Work /\ drive \in Drive /\ host \in Host /\ reached \in Reached
  BY Typed DEF IInv
<1>2. /\ Phases /\ Counted /\ Laid /\ Outside /\ Seen /\ GuardsHold /\ Cleared
  BY DEF IInv, Facts
<1>3. reached = "Writing" /\ ~work.checks /\ host.held BY <1>2 DEF Phases
<1>4. /\ work' \in Work /\ work'.pc = "end" /\ work'.size = work.size
      /\ work'.first = work.first /\ work'.read = work.read
      /\ work'.checks = work.checks /\ work'.differs = work.differs
      /\ work'.prepared = work.prepared
  BY <1>1 DEF Fail, Work, Steps, Errors
<1>5. told' \in Words BY DEF Fail, Note, Words
<1>6. /\ drive' \in Drive
      /\ \A s \in Sectors :
           /\ drive'.seen[s] = IF s \in DOMAIN data THEN data[s] ELSE drive.seen[s]
           /\ drive'.may[s] \subseteq drive.may[s] \cup {drive'.seen[s]}
           /\ s \in host.lost => drive'.may[s] = drive.may[s]
  BY <1>1, WroteIs
<1>7. /\ work.size \in 0 .. ImageBytes /\ work.first \in 0 .. ImageBytes
      /\ work.first \in Nat /\ work.size \in Nat /\ ImageBytes \in Nat
  BY <1>1, <1>2, SizesAssumption, WholeBlock DEF Work, Counted
<1>8. TableBlock \subseteq Sectors /\ ImageSectors(work.size) \subseteq Sectors
  BY <1>7, ImageInDrive DEF TableBlock
<1>9. Phases' BY <1>2, <1>3, <1>4 DEF Phases
<1>10. Counted' BY <1>2, <1>3, <1>4 DEF Counted
<1>11. Fresh' /\ HeadBare' BY <1>4 DEF Fresh, HeadBare
<1>12. Laid'
  <2>1. host.lost \subseteq Sectors BY <1>1 DEF Host
  <2> QED BY <1>2, <1>3, <1>4, <1>6, <2>1 DEF Laid
<1>13. Outside'
  <2>1. ASSUME ~host.wrote, NEW s \in Sectors \ ImageSectors(work.size)
        PROVE  drive'.seen[s] \in Spare(s) /\ drive'.may[s] \subseteq Spare(s)
    <3>1. drive.seen[s] \in Spare(s) /\ drive.may[s] \subseteq Spare(s)
      BY <2>1, <1>2, <1>3 DEF Outside
    <3>2. drive'.seen[s] \in Spare(s) BY <3>1, <1>6
    <3> QED BY <3>1, <3>2, <1>6
  <2>2. Sectors' = Sectors /\ ImageSectors(work.size)' = ImageSectors(work.size) BY <1>4
  <2> QED BY <1>3, <2>1, <2>2 DEF Outside, Spare, TableAreas
<1>14. Seen' BY <1>2, <1>3, <1>4 DEF Seen
<1>15. NothingIsNothing' /\ WrittenIsOnTheMedium'
  BY <1>3 DEF NothingIsNothing, WrittenIsOnTheMedium
<1>16. TableComesLast'
  <2>1. \A s \in TableBlock : \A c \in Cells : ~(drive.seen[s][c] >= 0)
    BY <1>2, AllTyped DEF Laid
  <2>2. CASE \A s \in DOMAIN data \cap TableBlock : \A c \in Cells : ~(data[s][c] >= 0)
    <3>1. \A s \in TableBlock : \A c \in Cells : ~(drive'.seen[s][c] >= 0)
      BY <2>1, <2>2, <1>6, <1>8
    <3> QED BY <3>1, <1>4 DEF TableComesLast, TableBlock
  <2>3. CASE work.out.from = 0 /\ DOMAIN data \subseteq TableBlock
    <3>1. Whole(SectorCount(work.first), SectorCount(work.size) - 1) BY <1>2, <2>3 DEF Laid
    <3>2. SectorCount(work.first) \in Nat /\ SectorCount(work.size) \in Nat BY <1>7, Count
    <3>3. \A s \in ImageSectors(work.size) \ TableBlock : drive.seen[s] = Image(work.size)[s]
      BY <3>1, <3>2 DEF Whole, TableBlock, ImageSectors
    <3>4. \A s \in ImageSectors(work.size) \ TableBlock : drive'.seen[s] = Image(work.size)[s]
      BY <3>3, <2>3, <1>6, <1>8
    <3> QED BY <3>4, <1>4 DEF TableComesLast, TableBlock
  <2> QED BY <2>2, <2>3
<1>17. GuardsHold' BY <1>2, <1>4 DEF GuardsHold
<1>19. Kept' BY <1>3 DEF Kept
<1>20. Cleared' BY <1>2, <1>3, <1>4, <1>6 DEF Cleared, TableAreas
<1>18. TypeOK' BY <1>1, <1>4, <1>5, <1>6, TypedNext
<1> QED BY <1>9, <1>10, <1>11, <1>12, <1>13, <1>14, <1>15, <1>16, <1>17, <1>18, <1>19, <1>20 DEF IInv, Facts

\* The table areas are cleared before anything of the image is on the drive.
LEMMA PrepareKeeps == IInv /\ Prepare => IInv'
<1> SUFFICES ASSUME IInv, Prepare PROVE IInv'
  OBVIOUS
<1> DEFINE cleared == [s \in TableAreas |-> All(Zero)]
           taken   == [host EXCEPT !.offline = TRUE, !.readOnly = FALSE]
<1>1. work \in Work /\ drive \in Drive /\ host \in Host /\ reached \in Reached /\ told \in Words
  BY Typed DEF IInv
<1>2. work.pc = "write" /\ MustPrepare /\ reached' = reached BY DEF Prepare
<1>3. /\ taken \in Host
      /\ taken.kind = host.kind /\ taken.lost = host.lost /\ taken.wrote = host.wrote
      /\ taken.guarded = host.guarded /\ taken.source = host.source
      /\ taken.held = host.held /\ taken.mounted = host.mounted
  BY <1>1 DEF Host
<1>4. /\ \A s \in TableAreas : cleared[s] = All(Zero)
      /\ DOMAIN cleared = TableAreas /\ TableAreas \subseteq Sectors
  BY DEF TableAreas
<1> HIDE DEF cleared, taken
<1>5. CASE /\ host' = taken
           /\ drive' = Wrote(cleared)
           /\ work' = [work EXCEPT !.prepared = TRUE]
           /\ UNCHANGED told
  <2>1. /\ Phases /\ Counted /\ Fresh /\ Laid /\ Outside /\ Seen /\ GuardsHold
    BY DEF IInv, Facts
  <2>2. reached = "Writing" /\ ~work.checks /\ host.held BY <1>2, <2>1 DEF Phases
  <2>3. /\ work' \in Work /\ work'.pc = work.pc /\ work'.size = work.size
        /\ work'.first = work.first /\ work'.read = work.read /\ work'.at = work.at
        /\ work'.out = work.out /\ work'.checks = work.checks /\ work'.prepared
        /\ work'.differs = work.differs
    BY <1>1, <1>5 DEF Work
  <2>4. /\ drive' \in Drive
        /\ \A s \in Sectors :
             /\ drive'.seen[s] = IF s \in TableAreas THEN All(Zero) ELSE drive.seen[s]
             /\ drive'.may[s] \subseteq drive.may[s] \cup {drive'.seen[s]}
             /\ s \in host.lost => drive'.may[s] = drive.may[s]
    <3>1. \A s \in DOMAIN cleared \cap Sectors : cleared[s] \in [Cells -> Bytes]
      BY <1>4, AllTyped
    <3> QED BY <1>1, <1>4, <1>5, <3>1, WroteIs
  <2>5. /\ work.size \in 0 .. ImageBytes /\ work.first \in 0 .. ImageBytes
        /\ work.first \in Nat /\ work.size \in Nat /\ work.at \in Nat
    BY <1>1, <1>2, <2>1, SizesAssumption, WholeBlock DEF Work, Counted
  <2>6. TableBlock \subseteq Sectors BY <2>5, ImageInDrive DEF TableBlock
  <2>7. Phases' BY <1>3, <1>5, <1>2, <2>1, <2>2, <2>3 DEF Phases
  <2>8. Counted' BY <1>3, <1>5, <1>2, <2>1, <2>3 DEF Counted
  <2>9. Fresh' BY <1>2, <2>3 DEF Fresh
  <2>10. \A s \in TableBlock : drive'.seen[s] \in {All(Old), All(Zero)}
    BY <1>2, <2>1, <2>4, <2>6 DEF Laid
  <2>11. Laid'
    <3>1. CASE work.out.from = 0
      <4>1. work.size = work.first BY <3>1, <1>2, <2>1 DEF Fresh, MustPrepare
      <4>2. SectorCount(work.first) .. SectorCount(work.size) - 1 = {} BY <4>1, <2>5, Count
      <4>3. Whole(SectorCount(work.first), SectorCount(work.size) - 1)'
        BY <2>3, <4>2 DEF Whole
      <4>4. host.lost \subseteq Sectors BY <1>1 DEF Host
      <4> QED BY <1>2, <1>3, <1>5, <2>1, <2>2, <2>3, <2>4, <2>10, <3>1, <4>3, <4>4
              DEF Laid, TableBlock
    <3>2. CASE work.out.from # 0
      <4>1. work.first = work.at * SectorBytes
        BY <3>2, <1>2, <2>1 DEF Fresh, Counted, MustPrepare
      <4>2. SectorCount(work.first) = work.at
        <5>1. work.at * SectorBytes + 0 = work.first BY <4>1, <2>5
        <5>2. work.at + SectorCount(0) = work.at BY <2>5, NoSectors
        <5> QED BY <5>1, <5>2, <2>5, CountAdds
      <4>3. SectorCount(work.first) .. work.at - 1 = {} BY <4>2, <2>5
      <4>4. Whole(SectorCount(work.first), work.at - 1)' BY <2>3, <4>3 DEF Whole
      <4>5. host.lost \subseteq Sectors BY <1>1 DEF Host
      <4> QED BY <1>2, <1>3, <1>5, <2>1, <2>2, <2>3, <2>4, <2>10, <3>2, <4>4, <4>5
              DEF Laid, TableBlock
    <3> QED BY <3>1, <3>2
  <2>12. Outside'
    <3>1. ASSUME ~host.wrote, NEW s \in Sectors \ ImageSectors(work.size)
          PROVE  drive'.seen[s] \in Spare(s) /\ drive'.may[s] \subseteq Spare(s)
      <4>1. drive.seen[s] \in Spare(s) /\ drive.may[s] \subseteq Spare(s)
        BY <3>1, <2>1, <2>2 DEF Outside
      <4>2. s \in TableAreas => All(Zero) \in Spare(s) BY DEF Spare
      <4>3. drive'.seen[s] \in Spare(s) BY <4>1, <4>2, <2>4
      <4> QED BY <4>1, <4>3, <2>4
    <3>2. Sectors' = Sectors /\ ImageSectors(work.size)' = ImageSectors(work.size) BY <2>3
    <3> QED BY <1>3, <1>5, <2>2, <3>1, <3>2 DEF Outside, Spare, TableAreas
  <2>13. Seen' BY <1>2, <1>3, <1>5, <2>1, <2>2, <2>3 DEF Seen
  <2>14. NothingIsNothing' /\ WrittenIsOnTheMedium'
    BY <1>2, <2>2 DEF NothingIsNothing, WrittenIsOnTheMedium
  <2>15. TableComesLast'
    <3>1. \A s \in TableBlock : \A c \in Cells : ~(drive'.seen[s][c] >= 0)
      BY <2>10, AllTyped
    <3> QED BY <3>1, <2>3 DEF TableComesLast, TableBlock
  <2>16. HeadBare'
    <3>1. \A s \in TableAreas : drive'.seen[s] = All(Zero) BY <1>4, <2>4
    <3> QED BY <3>1 DEF HeadBare, TableAreas
  <2>18. Kept' BY <1>2, <2>2 DEF Kept
  <2>19. Cleared' BY <1>4, <2>3, <2>4, AllTyped DEF Cleared, TableAreas
  <2>17. GuardsHold' BY <1>3, <1>5, <2>1, <2>3 DEF GuardsHold
  <2> QED BY <1>1, <1>2, <1>3, <1>5, <2>3, <2>4, <2>7, <2>8, <2>9, <2>11, <2>12, <2>13, <2>14,
             <2>15, <2>16, <2>17, <2>18, <2>19, TypedNext DEF IInv, Facts
<1>6. ASSUME NEW m \in TableAreas, host' = taken, drive' = Wrote(Below(cleared, m)), Fail("Io")
      PROVE  IInv'
  <2> DEFINE data == Below(cleared, m)
  <2>1. DOMAIN data \subseteq TableAreas /\ \A s \in DOMAIN data : data[s] = All(Zero)
    BY <1>4 DEF Below
  <2> HIDE DEF data
  <2>2. /\ \A s \in DOMAIN data \cap Sectors : data[s] \in [Cells -> Bytes]
        /\ \A s \in DOMAIN data \cap TableBlock : \A c \in Cells : ~(data[s][c] >= 0)
    BY <2>1, AllTyped
  <2>3. \A s \in (DOMAIN data \cap Sectors) \ ImageSectors(work.size) : data[s] \in Spare(s)
    BY <2>1 DEF Spare
  <2>4. drive' = Wrote(data) BY <1>6 DEF data
  <2>5. \A s \in DOMAIN data \cap Sectors : \A c \in Cells : data[s][c] < 0 /\ data[s][c] # Old
    BY <2>1, AllTyped
  <2> QED BY <1>2, <1>3, <1>6, <2>2, <2>3, <2>4, <2>5, PartKeeps
<1>7. CASE Fail("Io") /\ UNCHANGED <<drive, host>>
  BY <1>7, <1>2, FailKeeps DEF Errors
<1> QED BY <1>5, <1>6, <1>7 DEF Prepare, cleared, taken

\* Where the block lies that waits to be written.
LEMMA BlockFits ==
  ASSUME IInv, work.pc = "write"
  PROVE  LET data == Block(work.out.from, work.out.got, work.at)
         IN  /\ DOMAIN data = work.at .. work.at + SectorCount(work.out.got) - 1
             /\ DOMAIN data \subseteq ImageSectors(work.size)
             /\ DOMAIN data \subseteq Sectors
             /\ \A s \in DOMAIN data : data[s] \in [Cells -> Bytes]
             /\ work.out.from = work.at * SectorBytes
             /\ work.out.from + work.out.got <= work.size
             /\ work.at + SectorCount(work.out.got) \in 0 .. SectorCount(work.size)
             /\ SectorCount(work.out.from + work.out.got) = work.at + SectorCount(work.out.got)
             /\ work.out.from # 0 => DOMAIN data \cap TableBlock = {}
             /\ work.out.from = 0 => DOMAIN data = TableBlock
<1> DEFINE from == work.out.from  got == work.out.got  at == work.at
           data == Block(from, got, at)
<1>1. work \in Work BY Typed DEF IInv
<1>2. Counted BY DEF IInv, Facts
<1>3. /\ from \in Nat /\ got \in Nat /\ at \in Nat /\ work.size \in Nat /\ work.first \in Nat
      /\ work.read \in Nat /\ work.size <= ImageBytes /\ work.size \in 0 .. ImageBytes
      /\ ImageBytes \in Nat
  BY <1>1, SizesAssumption, WholeBlock DEF Work
<1>4. SectorBytes \in Nat \ {0} BY SizesAssumption
<1>5. from = at * SectorBytes
  <2>1. CASE from = 0
    <3>1. at = 0 BY <2>1, <1>2 DEF Counted
    <3> QED BY <2>1, <3>1, <1>4
  <2>2. CASE from # 0 BY <2>2, <1>2 DEF Counted
  <2> QED BY <2>1, <2>2
<1>6. from + got <= work.size
  <2>1. CASE from = 0 BY <2>1, <1>2, <1>3 DEF Counted
  <2>2. CASE from # 0 BY <2>2, <1>2, <1>3 DEF Counted
  <2> QED BY <2>1, <2>2
<1>7. DOMAIN data = at .. at + SectorCount(got) - 1 BY DEF Block
<1>8. /\ SectorCount(got) \in Nat /\ SectorCount(from) \in Nat /\ SectorCount(work.first) \in Nat
      /\ SectorCount(work.size) \in Nat
  BY <1>3, Count
<1>9. SectorCount(from + got) = at + SectorCount(got) BY <1>3, <1>5, CountAdds
<1>10. at + SectorCount(got) <= SectorCount(work.size) BY <1>3, <1>6, <1>9, CountGrows
<1>11. ASSUME NEW s \in DOMAIN data PROVE data[s] \in [Cells -> Bytes]
  <2>1. s \in at .. at + SectorCount(got) - 1 /\ from + got <= ImageBytes
    BY <1>3, <1>6, <1>7, <1>11
  <2> QED BY <1>3, <2>1, BlockIsTyped
<1>12. DOMAIN data \subseteq ImageSectors(work.size)
  BY <1>3, <1>7, <1>8, <1>10 DEF ImageSectors
<1>13. DOMAIN data \subseteq Sectors BY <1>12, <1>3, ImageInDrive
<1>14. from # 0 => DOMAIN data \cap TableBlock = {}
  <2> SUFFICES ASSUME from # 0 PROVE DOMAIN data \cap TableBlock = {}
    OBVIOUS
  <2>1. work.first <= from BY <1>2 DEF Counted
  <2>2. SectorCount(from) = at
    <3>1. at * SectorBytes + 0 = from /\ at + SectorCount(0) = at BY <1>3, <1>5, NoSectors
    <3> QED BY <3>1, <1>3, CountAdds
  <2>3. SectorCount(work.first) <= at BY <1>3, <2>1, <2>2, CountGrows
  <2> QED BY <1>3, <1>7, <1>8, <2>3 DEF TableBlock, ImageSectors
<1>15. from = 0 => DOMAIN data = TableBlock
  <2>1. from = 0 => at = 0 /\ got = work.first BY <1>2 DEF Counted
  <2> QED BY <2>1, <1>7, <1>8 DEF TableBlock, ImageSectors
<1> QED BY <1>3, <1>5, <1>6, <1>7, <1>8, <1>9, <1>10, <1>11, <1>12, <1>13, <1>14, <1>15

LEMMA WriteBlockKeeps == IInv /\ WriteBlock => IInv'
<1> SUFFICES ASSUME IInv, WriteBlock PROVE IInv'
  OBVIOUS
<1> DEFINE data == Block(work.out.from, work.out.got, work.at)
<1>1. work \in Work /\ drive \in Drive /\ host \in Host /\ reached \in Reached /\ told \in Words
  BY Typed DEF IInv
<1>2. work.pc = "write" /\ ~MustPrepare /\ UNCHANGED <<reached, host>> BY DEF WriteBlock
<1>3. /\ DOMAIN data = work.at .. work.at + SectorCount(work.out.got) - 1
      /\ DOMAIN data \subseteq ImageSectors(work.size)
      /\ DOMAIN data \subseteq Sectors
      /\ \A s \in DOMAIN data : data[s] \in [Cells -> Bytes]
      /\ work.out.from = work.at * SectorBytes
      /\ work.out.from + work.out.got <= work.size
      /\ work.at + SectorCount(work.out.got) \in 0 .. SectorCount(work.size)
      /\ SectorCount(work.out.from + work.out.got) = work.at + SectorCount(work.out.got)
      /\ work.out.from # 0 => DOMAIN data \cap TableBlock = {}
      /\ work.out.from = 0 => DOMAIN data = TableBlock
  BY <1>2, BlockFits
<1>4. ASSUME work.out.from + work.out.got = work.size
          \/ work.out.from + work.out.got
               = (work.at + SectorCount(work.out.got)) * SectorBytes,
             NEW s \in DOMAIN data
      PROVE  data[s] = Image(work.size)[s]
  <2> DEFINE at == work.at  got == work.out.got
  <2>1. at \in Nat /\ got \in Nat /\ work.size \in 0 .. ImageBytes
    BY <1>1, SizesAssumption, WholeBlock DEF Work
  <2>2. s \in at .. at + SectorCount(got) - 1 BY <1>3, <1>4
  <2>3. /\ at * SectorBytes + got <= work.size
        /\ \/ at * SectorBytes + got = work.size
           \/ at * SectorBytes + got = (at + SectorCount(got)) * SectorBytes
    BY <1>3, <1>4
  <2> HIDE DEF at, got
  <2>4. Block(at * SectorBytes, got, at)[s] = Image(work.size)[s]
    BY <2>1, <2>2, <2>3, BlockIsImage
  <2> QED BY <1>3, <2>4 DEF at, got
<1>7. \A s \in DOMAIN data : \A c \in Cells : data[s][c] # Old
  <2>1. work.out.from \in Nat /\ work.out.got \in Nat /\ work.at \in Nat
    BY <1>1, SizesAssumption, WholeBlock DEF Work
  <2> QED BY <1>3, <2>1, BlockIsNew
<1>8. host.kind = "windows" /\ ~work.prepared => DOMAIN data = {}
  <2>1. SUFFICES ASSUME host.kind = "windows", ~work.prepared PROVE DOMAIN data = {}
    OBVIOUS
  <2>2. work.out.got \in Nat /\ work.at \in Nat BY <1>1, SizesAssumption, WholeBlock DEF Work
  <2>3. work.out.got = 0 BY <1>2, <2>1, <2>2 DEF MustPrepare
  <2> QED BY <1>3, <2>2, <2>3, NoSectors
<1> HIDE DEF data
<1>5. CASE /\ drive' = Wrote(data)
           /\ work' = [work EXCEPT !.pc = IF work.out.from = 0 THEN "sync" ELSE "block",
                                   !.at = work.at + SectorCount(work.out.got)]
           /\ UNCHANGED told
  <2>1. /\ Phases /\ Counted /\ Fresh /\ Laid /\ Outside /\ Seen /\ GuardsHold /\ HeadBare
        /\ TableComesLast /\ Cleared
    BY DEF IInv, Facts
  <2>2. reached = "Writing" /\ ~work.checks /\ host.held BY <1>2, <2>1 DEF Phases
  <2>3. /\ work.size \in 0 .. ImageBytes /\ work.size \in Nat /\ work.first \in Nat
        /\ work.read \in Nat /\ work.at \in Nat /\ work.out.got \in Nat /\ work.out.from \in Nat
        /\ SectorCount(work.size) \in 0 .. DriveSectors /\ SectorCount(work.first) \in Nat
        /\ SectorCount(work.out.got) \in Nat
    <3>1. /\ work.size \in 0 .. ImageBytes /\ work.size \in Nat /\ work.first \in Nat
          /\ work.read \in Nat /\ work.at \in Nat /\ work.out.got \in Nat /\ work.out.from \in Nat
          /\ DriveSectors \in Nat
      BY <1>1, SizesAssumption, WholeBlock DEF Work
    <3> QED BY <3>1, Count, ImageFits
  <2>4. /\ work' \in Work /\ work'.pc = IF work.out.from = 0 THEN "sync" ELSE "block"
        /\ work'.size = work.size /\ work'.first = work.first /\ work'.read = work.read
        /\ work'.at = work.at + SectorCount(work.out.got)
        /\ work'.out = work.out /\ work'.checks = work.checks /\ work'.prepared = work.prepared
        /\ work'.differs = work.differs
    <3> DEFINE pc == IF work.out.from = 0 THEN "sync" ELSE "block"
               at == work.at + SectorCount(work.out.got)
    <3>1. pc \in Steps /\ at \in 0 .. DriveSectors BY <1>3, <2>3, SizesAssumption DEF Steps
    <3>2. work' = [work EXCEPT !.pc = pc, !.at = at] BY <1>5
    <3> HIDE DEF pc, at
    <3>3. /\ work' \in Work /\ work'.pc = pc /\ work'.at = at
          /\ work'.size = work.size /\ work'.first = work.first /\ work'.read = work.read
          /\ work'.out = work.out /\ work'.checks = work.checks
          /\ work'.prepared = work.prepared /\ work'.differs = work.differs
      BY <1>1, <3>1, <3>2 DEF Work
    <3> QED BY <3>3 DEF pc, at
  <2>5. /\ drive' \in Drive
        /\ \A s \in Sectors :
             /\ drive'.seen[s] = IF s \in DOMAIN data THEN data[s] ELSE drive.seen[s]
             /\ drive'.may[s] \subseteq drive.may[s] \cup {drive'.seen[s]}
             /\ s \in host.lost => drive'.may[s] = drive.may[s]
    BY <1>1, <1>3, <1>5, WroteIs
  <2>6. TableBlock \subseteq ImageSectors(work.size) /\ ImageSectors(work.size) \subseteq Sectors
    <3>1. work.first <= work.size BY <1>2, <2>1, <2>3 DEF Counted
    <3>2. SectorCount(work.first) <= SectorCount(work.size) BY <2>3, <3>1, CountGrows
    <3> QED BY <2>3, <3>2, ImageInDrive DEF TableBlock, ImageSectors
  <2>7. host.lost \subseteq Sectors BY <1>1 DEF Host
  <2>8. Phases' BY <1>2, <2>1, <2>2, <2>4 DEF Phases
  <2>9. Counted'
    <3>1. CASE work.out.from = 0 BY <3>1, <1>2, <2>1, <2>4 DEF Counted
    <3>2. CASE work.out.from # 0
      <4>1. work.read = work.out.from + work.out.got BY <3>2, <1>2, <2>1 DEF Counted
      <4>2. work'.at = SectorCount(work'.read) BY <4>1, <1>3, <2>4
      <4> QED BY <3>2, <4>1, <4>2, <1>2, <2>1, <2>4 DEF Counted
    <3> QED BY <3>1, <3>2
  <2>10. Fresh'
    <3>1. work.out.from # 0 => work.out.got > 0 BY <1>2, <2>1 DEF Counted
    <3> QED BY <3>1, <1>2, <2>4 DEF Fresh, MustPrepare
  <2>11. \A s \in host.lost : drive'.may[s] = {All(Old)} BY <2>1, <2>5, <2>7 DEF Laid
  <2>12. Laid'
    <3>1. CASE work.out.from # 0
      <4>1. \A s \in TableBlock : drive'.seen[s] \in {All(Old), All(Zero)}
        BY <3>1, <1>2, <1>3, <2>1, <2>5, <2>6 DEF Laid
      <4>2. ASSUME work.read = work.size
                \/ work.read = (work.at + SectorCount(work.out.got)) * SectorBytes,
                   NEW s \in SectorCount(work.first) .. work.at + SectorCount(work.out.got) - 1
            PROVE  drive'.seen[s] = Image(work.size)[s]
        <5>1. work.read = work.out.from + work.out.got BY <3>1, <1>2, <2>1 DEF Counted
        <5>2. s \in Sectors
          <6>1. s \in 0 .. SectorCount(work.size) - 1 BY <1>3, <2>3, <4>2
          <6> QED BY <6>1, <2>6 DEF ImageSectors
        <5>3. CASE s \in DOMAIN data BY <1>4, <4>2, <5>1, <5>2, <5>3, <2>5
        <5>4. CASE s \notin DOMAIN data
          <6>1. s \in SectorCount(work.first) .. work.at - 1 BY <5>4, <1>3, <2>3
          <6>2. Whole(SectorCount(work.first), work.at - 1) BY <3>1, <1>2, <2>1 DEF Laid
          <6> QED BY <5>2, <5>4, <6>1, <6>2, <2>5 DEF Whole
        <5> QED BY <5>3, <5>4
      <4>3. ASSUME (work.read = work.size \/ work.read = work.at * SectorBytes)'
            PROVE  Whole(SectorCount(work.first), work.at - 1)'
        <5>1. \/ work.read = work.size
              \/ work.read = (work.at + SectorCount(work.out.got)) * SectorBytes
          BY <4>3, <2>4
        <5>2. \A s \in SectorCount(work.first) .. work.at + SectorCount(work.out.got) - 1 :
                drive'.seen[s] = Image(work.size)[s]
          BY <5>1, <4>2
        <5>3. /\ work'.first = work.first /\ work'.size = work.size
              /\ work'.at = work.at + SectorCount(work.out.got)
          BY <2>4
        <5>4. \A s \in SectorCount(work'.first) .. work'.at - 1 :
                drive'.seen[s] = Image(work'.size)[s]
          <6>1. work'.at - 1 = work.at + SectorCount(work.out.got) - 1 BY <5>3, <2>3
          <6> QED BY <5>2, <5>3, <6>1
        <5> QED BY <5>4 DEF Whole
      <4>4. (\A s \in TableBlock : drive.seen[s] \in {All(Old), All(Zero)})'
        BY <4>1, <2>4 DEF TableBlock
      <4>5. work'.pc = "block" BY <3>1, <2>4
      <4> QED BY <4>3, <4>4, <4>5, <1>2, <2>2, <2>11 DEF Laid
    <3>2. CASE work.out.from = 0
      <4>1. work.at = 0 /\ work.out.got = work.first /\ work.read = work.size
        BY <3>2, <1>2, <2>1 DEF Counted
      <4>2. ASSUME NEW s \in 0 .. SectorCount(work.size) - 1
            PROVE  drive'.seen[s] = Image(work.size)[s]
        <5>1. s \in Sectors BY <2>3, <2>6 DEF ImageSectors
        <5>2. CASE s \in DOMAIN data
          <6>1. \/ work.out.from + work.out.got = work.size
                \/ work.out.from + work.out.got
                     = (work.at + SectorCount(work.out.got)) * SectorBytes
            <7>1. work.first = SectorCount(work.first) * SectorBytes \/ work.first = work.size
              BY <4>1, <1>2, <2>1 DEF Counted
            <7> QED BY <3>2, <4>1, <7>1, <2>3
          <6> QED BY <1>4, <5>1, <5>2, <6>1, <2>5
        <5>3. CASE s \notin DOMAIN data
          <6>1. s \in SectorCount(work.first) .. SectorCount(work.size) - 1
            BY <5>3, <3>2, <1>3, <2>3 DEF TableBlock, ImageSectors
          <6>2. Whole(SectorCount(work.first), SectorCount(work.size) - 1)
            BY <3>2, <1>2, <2>1 DEF Laid
          <6> QED BY <5>1, <5>3, <6>1, <6>2, <2>5 DEF Whole
        <5> QED BY <5>2, <5>3
      <4> QED BY <3>2, <4>2, <1>2, <2>2, <2>4, <2>11 DEF Laid, Whole
    <3> QED BY <3>1, <3>2
  <2>13. Outside'
    <3>1. ASSUME ~host.wrote, NEW s \in Sectors \ ImageSectors(work.size)
          PROVE  drive'.seen[s] \in Spare(s) /\ drive'.may[s] \subseteq Spare(s)
      <4>1. drive.seen[s] \in Spare(s) /\ drive.may[s] \subseteq Spare(s)
        BY <3>1, <2>1, <2>2 DEF Outside
      <4>2. drive'.seen[s] = drive.seen[s] BY <1>3, <2>5
      <4> QED BY <4>1, <4>2, <2>5
    <3>2. Sectors' = Sectors /\ ImageSectors(work.size)' = ImageSectors(work.size) BY <2>4
    <3> QED BY <1>2, <2>2, <3>1, <3>2 DEF Outside, Spare, TableAreas
  <2>14. Seen' BY <1>2, <2>1, <2>2, <2>4 DEF Seen
  <2>15. NothingIsNothing' /\ WrittenIsOnTheMedium'
    BY <1>2, <2>2 DEF NothingIsNothing, WrittenIsOnTheMedium
  <2>16. TableComesLast'
    <3>1. CASE work.out.from # 0
      <4>1. \A s \in TableBlock : \A c \in Cells : ~(drive'.seen[s][c] >= 0)
        <5>1. \A s \in TableBlock : drive'.seen[s] \in {All(Old), All(Zero)}
          BY <3>1, <1>2, <1>3, <2>1, <2>5, <2>6 DEF Laid
        <5> QED BY <5>1, AllTyped
      <4> QED BY <4>1, <2>4 DEF TableComesLast, TableBlock
    <3>2. CASE work.out.from = 0
      <4>1. work'.pc = "sync" BY <3>2, <2>4
      <4>2. Whole(0, SectorCount(work.size) - 1)' BY <2>12, <4>1 DEF Laid
      <4> QED BY <4>2, <2>4 DEF Whole, TableComesLast, ImageSectors
    <3> QED BY <3>1, <3>2
  <2>17. HeadBare'
    <3>1. ASSUME work.out.from # 0, host.kind = "windows", work.prepared
          PROVE  \A s \in TableAreas \cap TableBlock : drive'.seen[s] = All(Zero)
      BY <3>1, <1>2, <1>3, <2>1, <2>5, <2>6 DEF HeadBare
    <3> QED BY <3>1, <1>2, <2>4 DEF HeadBare, TableBlock, TableAreas
  <2>18. GuardsHold' BY <1>2, <2>1, <2>4 DEF GuardsHold
  <2>19. Kept' BY <1>2, <2>2 DEF Kept
  <2>20. Cleared' BY <1>2, <1>7, <1>8, <2>1, <2>2, <2>4, <2>5 DEF Cleared, TableAreas
  <2> QED BY <1>1, <1>2, <1>5, <2>4, <2>5, <2>8, <2>9, <2>10, <2>12, <2>13, <2>14, <2>15, <2>16,
             <2>17, <2>18, <2>19, <2>20, TypedNext DEF IInv, Facts
<1>6. ASSUME NEW m \in DOMAIN data, drive' = Wrote(Below(data, m)), Fail("Io")
      PROVE  IInv'
  <2> DEFINE part == Below(data, m)
  <2>1. DOMAIN part \subseteq DOMAIN data /\ \A s \in DOMAIN part : part[s] = data[s]
    BY DEF Below
  <2>2. drive' = Wrote(part) BY <1>6
  <2> HIDE DEF part
  <2>3. \A s \in DOMAIN part \cap Sectors : part[s] \in [Cells -> Bytes] BY <1>3, <2>1
  <2>4. \A s \in (DOMAIN part \cap Sectors) \ ImageSectors(work.size) : part[s] \in Spare(s)
    BY <1>3, <2>1
  <2>5. \/ \A s \in DOMAIN part \cap TableBlock : \A c \in Cells : ~(part[s][c] >= 0)
        \/ work.out.from = 0 /\ DOMAIN part \subseteq TableBlock
    BY <1>3, <2>1
  <2>6. host.kind = "windows" => \A s \in DOMAIN part \cap Sectors : \A c \in Cells :
           IF work.prepared THEN part[s][c] # Old ELSE part[s][c] < 0
    BY <1>7, <1>8, <2>1
  <2> QED BY <1>1, <1>2, <1>6, <2>2, <2>3, <2>4, <2>5, <2>6, PartKeeps
<1> QED BY <1>5, <1>6 DEF WriteBlock, data

LEMMA SyncKeeps == IInv /\ Sync => IInv'
<1> SUFFICES ASSUME IInv, Sync PROVE IInv'
  OBVIOUS
<1>1. CASE /\ drive' = Settled(drive.seen)
           /\ reached' = "Written"
           /\ work' = [work EXCEPT !.pc = "close"]
           /\ UNCHANGED told
  <2>1. work \in Work /\ drive \in Drive /\ host \in Host /\ reached \in Reached /\ told \in Words
    BY Typed DEF IInv
  <2>2. work.pc = "sync" /\ UNCHANGED host BY DEF Sync
  <2>3. /\ Phases /\ Counted /\ Laid /\ Outside /\ Seen /\ GuardsHold /\ TableComesLast /\ Cleared
    BY DEF IInv, Facts
  <2>4. reached = "Writing" /\ ~work.checks /\ host.held BY <2>2, <2>3 DEF Phases
  <2>5. /\ work' \in Work /\ work'.pc = "close" /\ work'.size = work.size
        /\ work'.first = work.first /\ work'.read = work.read /\ work'.checks = work.checks
        /\ work'.differs = work.differs /\ work'.prepared = work.prepared
    BY <1>1, <2>1 DEF Work, Steps
  <2>6. /\ drive'.seen = drive.seen
        /\ \A s \in Sectors :
             drive'.may[s] = IF s \in host.lost THEN drive.may[s] ELSE {drive.seen[s]}
    BY <1>1 DEF Settled
  <2>7. drive' \in Drive BY <1>1, <2>1 DEF Settled, Drive
  <2>8. Phases' BY <1>1, <2>2, <2>3, <2>4, <2>5 DEF Phases
  <2>9. Counted' BY <1>1, <2>2, <2>3, <2>4, <2>5 DEF Counted
  <2>10. Fresh' /\ HeadBare' BY <2>5 DEF Fresh, HeadBare
  <2>11. Whole(0, SectorCount(work.size) - 1) BY <2>2, <2>3 DEF Laid
  <2>12. Laid'
    <3>1. Whole(0, SectorCount(work.size) - 1)' BY <2>5, <2>6, <2>11 DEF Whole
    <3>2. host.lost \subseteq Sectors BY <2>1 DEF Host
    <3> QED BY <2>2, <2>3, <2>5, <2>6, <3>1, <3>2 DEF Laid
  <2>13. Outside'
    <3>1. ASSUME ~host.wrote, NEW s \in Sectors \ ImageSectors(work.size)
          PROVE  drive'.seen[s] \in Spare(s) /\ drive'.may[s] \subseteq Spare(s)
      BY <3>1, <2>3, <2>4, <2>6 DEF Outside
    <3>2. Sectors' = Sectors /\ ImageSectors(work.size)' = ImageSectors(work.size) BY <2>5
    <3> QED BY <2>2, <3>1, <3>2 DEF Outside, Spare, TableAreas
  <2>14. Seen' BY <1>1, <2>2, <2>3, <2>4, <2>5 DEF Seen
  <2>15. NothingIsNothing' BY <1>1 DEF NothingIsNothing
  <2>16. WrittenIsOnTheMedium'
    <3>1. work.size \in 0 .. ImageBytes BY <2>1 DEF Work
    <3>2. ImageSectors(work.size) \subseteq Sectors BY <3>1, ImageInDrive
    <3>3. ASSUME host.lost = {}, NEW s \in ImageSectors(work.size)
          PROVE  drive'.may[s] = {Image(work.size)[s]}
      BY <3>2, <3>3, <2>6, <2>11 DEF Whole, ImageSectors
    <3>4. work'.size \in work'.size .. ImageBytes BY <2>5, <3>1, SizesAssumption
    <3> QED BY <2>2, <2>5, <3>3, <3>4 DEF WrittenIsOnTheMedium
  <2>17. TableComesLast' BY <2>3, <2>5, <2>6 DEF TableComesLast, TableBlock
  <2>18. GuardsHold' BY <2>2, <2>3, <2>5 DEF GuardsHold
  <2>19. reached' \in Reached BY <1>1 DEF Reached
  <2>20. Kept' BY <2>2, <2>6 DEF Kept
  <2>21. Cleared' BY <2>2, <2>3, <2>4, <2>5, <2>6 DEF Cleared
  <2> QED BY <1>1, <2>1, <2>2, <2>5, <2>7, <2>8, <2>9, <2>10, <2>12, <2>13, <2>14, <2>15, <2>16,
             <2>17, <2>18, <2>19, <2>20, <2>21, TypedNext DEF IInv, Facts
<1>2. CASE Fail("Io") /\ UNCHANGED <<drive, reached>>
  BY <1>2, FailKeeps DEF Sync, Errors
<1> QED BY <1>1, <1>2 DEF Sync

\* The bytes of a whole image, where the check looks for them.
LEMMA WholeIsSeen ==
  ASSUME work \in Work, Whole(0, SectorCount(work.size) - 1), NEW i \in 0 .. work.size - 1
  PROVE  SeenByte(i) = i
<1>1. work.size \in 0 .. ImageBytes BY DEF Work
<1>2. /\ i \div SectorBytes \in 0 .. SectorCount(work.size) - 1
      /\ Image(work.size)[i \div SectorBytes][i % SectorBytes] = i
  BY <1>1, ImageByte
<1> QED BY <1>2 DEF Whole, SeenByte

LEMMA CloseKeeps == IInv /\ Close => IInv'
<1> SUFFICES ASSUME IInv, Close PROVE IInv'
  OBVIOUS
<1>1. work \in Work /\ drive \in Drive /\ host \in Host /\ reached \in Reached /\ told \in Words
  BY Typed DEF IInv
<1>2. work.pc = "close" /\ UNCHANGED <<reached, told, drive>> BY DEF Close
<1>3. /\ Phases /\ Counted /\ Laid /\ Outside /\ Seen /\ GuardsHold
      /\ Kept /\ WrittenIsOnTheMedium
  BY DEF IInv, Facts
<1>4. reached = "Written" /\ ~work.checks /\ host.held BY <1>2, <1>3 DEF Phases
<1>5. /\ work' \in Work /\ work'.pc = "unmount" /\ work'.size = work.size
      /\ work'.checks /\ work'.differs = work.differs
  BY <1>1 DEF Close, Work, Steps
<1>6. /\ host' \in Host
      /\ host'.kind = host.kind /\ host'.lost = host.lost /\ host'.wrote = host.wrote
      /\ host'.guarded = host.guarded /\ host'.source = host.source /\ ~host'.held
      /\ host'.mounted = host.mounted
  <2>1. PICK mark \in BOOLEAN :
          host' = [host EXCEPT !.held = FALSE, !.readOnly = host.readOnly \/ mark]
    BY DEF Close
  <2>2. (host.readOnly \/ mark) \in BOOLEAN OBVIOUS
  <2> DEFINE readOnly == host.readOnly \/ mark
  <2> HIDE DEF readOnly
  <2>3. host' = [host EXCEPT !.held = FALSE, !.readOnly = readOnly] /\ readOnly \in BOOLEAN
    BY <2>1, <2>2 DEF readOnly
  <2> QED BY <1>1, <2>3 DEF Host
<1>7. Phases' BY <1>2, <1>3, <1>4, <1>5, <1>6 DEF Phases
<1>8. Counted' BY <1>2, <1>3, <1>4, <1>5, <1>6 DEF Counted
<1>9. Fresh' /\ HeadBare' BY <1>5 DEF Fresh, HeadBare
<1>10. Laid' BY <1>2, <1>3, <1>5, <1>6 DEF Laid
<1>11. Outside' BY <1>2, <1>3, <1>5, <1>6 DEF Outside
<1>12. Seen'
  <2>1. Whole(0, SectorCount(work.size) - 1) BY <1>3, <1>4 DEF Laid
  <2>2. \A i \in 0 .. work.size - 1 : SeenByte(i) = i BY <1>1, <2>1, WholeIsSeen
  <2>3. \A i \in 0 .. work'.size - 1 : SeenByte(i)' = i BY <1>2, <1>5, <2>2 DEF SeenByte
  <2> QED BY <1>2, <1>3, <1>4, <1>5, <1>6, <2>3 DEF Seen
<1>13. NothingIsNothing' BY <1>2, <1>4 DEF NothingIsNothing
<1>14. WrittenIsOnTheMedium' BY <1>2, <1>3, <1>5, <1>6 DEF WrittenIsOnTheMedium
<1>16. TableComesLast' BY <1>5 DEF TableComesLast
<1>17. Kept' BY <1>2, <1>3, <1>6 DEF Kept
<1>18. Cleared' BY <1>5 DEF Cleared
<1>15. GuardsHold' BY <1>3, <1>5, <1>6 DEF GuardsHold
<1> QED BY <1>1, <1>2, <1>5, <1>6, <1>7, <1>8, <1>9, <1>10, <1>11, <1>12, <1>13, <1>14, <1>15, <1>16,
           <1>17, <1>18,
           TypedNext DEF IInv, Facts

-----------------------------------------------------------------------------
(* The steps of the check, and the writes of the host before it.           *)

LEMMA StartCheckKeeps == IInv /\ StartCheck => IInv'
<1> SUFFICES ASSUME IInv, StartCheck PROVE IInv'
  OBVIOUS
<1>1. CASE /\ reached' = "Checking"
           /\ work' = [work EXCEPT !.pc = "compare", !.size = host.source, !.read = 0]
           /\ UNCHANGED told
  <2>1. work \in Work /\ drive \in Drive /\ host \in Host /\ reached \in Reached /\ told \in Words
    BY Typed DEF IInv
  <2>2. work.pc = "check" /\ UNCHANGED <<drive, host>> BY DEF StartCheck
  <2>3. /\ Phases /\ Counted /\ Laid /\ Seen /\ GuardsHold /\ Kept /\ WrittenIsOnTheMedium
    BY DEF IInv, Facts
  <2>4. reached = "Written" /\ work.checks /\ host.held BY <2>2, <2>3 DEF Phases
  <2>5. /\ host.source \in 0 .. ImageBytes /\ host.source \in Int /\ work.size \in Int
        /\ 0 \in 0 .. ImageBytes
    BY <2>1, SizesAssumption DEF Work, Host
  <2>6. /\ work' \in Work /\ work'.pc = "compare" /\ work'.size = host.source
        /\ work'.read = 0 /\ work'.checks = work.checks /\ work'.differs = work.differs
    BY <1>1, <2>1, <2>5 DEF Work, Steps
  <2>7. Phases' BY <1>1, <2>2, <2>3, <2>4, <2>6 DEF Phases
  <2>8. Counted' BY <1>1, <2>2, <2>4, <2>5, <2>6 DEF Counted
  <2>9. Fresh' /\ HeadBare' BY <2>6 DEF Fresh, HeadBare
  <2>10. Laid' BY <1>1, <2>2, <2>3, <2>4, <2>6 DEF Laid
  <2>11. Outside' BY <1>1 DEF Outside
  <2>12. Seen'
    <3>1. host.source <= work.size BY <2>3, <2>4 DEF Counted
    <3>2. 0 .. host.source - 1 \subseteq 0 .. work.size - 1 BY <2>5, <3>1
    <3>3. (work.checks /\ host.lost = {} /\ ~host.wrote)' =>
            \A i \in 0 .. host.source - 1 : SeenByte(i)' = i
      BY <2>2, <2>3, <2>6, <3>2 DEF Seen, SeenByte
    <3> QED BY <1>1, <2>2, <2>3, <2>4, <2>6, <3>3 DEF Seen
  <2>13. NothingIsNothing' /\ TableComesLast'
    BY <1>1, <2>4, <2>6 DEF NothingIsNothing, TableComesLast
  <2>16. WrittenIsOnTheMedium'
    <3>1. host.source <= work.size BY <2>3, <2>4 DEF Counted
    <3>2. work.size .. ImageBytes \subseteq host.source .. ImageBytes BY <2>5, <3>1
    <3> QED BY <1>1, <2>2, <2>3, <2>4, <2>6, <3>2 DEF WrittenIsOnTheMedium
  <2>17. Kept' BY <2>2, <2>3, <2>4 DEF Kept
  <2>18. Cleared' BY <2>4, <2>6 DEF Cleared
  <2>14. GuardsHold' BY <2>2, <2>3, <2>6 DEF GuardsHold
  <2>15. reached' \in Reached BY <1>1 DEF Reached
  <2> QED BY <1>1, <2>1, <2>2, <2>6, <2>7, <2>8, <2>9, <2>10, <2>11, <2>12, <2>13, <2>14, <2>15,
             <2>16, <2>17, <2>18,
             TypedNext DEF IInv, Facts
<1>2. CASE Fail("Io") /\ UNCHANGED reached
  BY <1>2, FailKeeps DEF StartCheck, Errors
<1> QED BY <1>1, <1>2 DEF StartCheck

LEMMA CompareKeeps == IInv /\ Compare => IInv'
<1> SUFFICES ASSUME IInv, Compare PROVE IInv'
  OBVIOUS
<1> DEFINE got == Filled(work.read, Least(BlockBytes, work.size - work.read))
           found == \E i \in work.read .. work.read + got - 1 : SeenByte(i) # i
<1>1. CASE /\ got > 0
           /\ work' = [work EXCEPT !.read = work.read + got, !.differs = work.differs \/ found]
           /\ UNCHANGED told
  <2>1. work \in Work /\ drive \in Drive /\ host \in Host /\ reached \in Reached /\ told \in Words
    BY Typed DEF IInv
  <2>2. work.pc = "compare" /\ work.read < work.size /\ UNCHANGED <<reached, drive, host>>
    BY DEF Compare
  <2>3. /\ Phases /\ Counted /\ Laid /\ Seen /\ GuardsHold /\ Kept /\ WrittenIsOnTheMedium
    BY DEF IInv, Facts
  <2>4. reached = "Checking" /\ work.checks /\ host.held BY <2>2, <2>3 DEF Phases
  <2>5. /\ work.size \in Nat /\ work.read \in Nat /\ ImageBytes \in Nat
        /\ work.size <= ImageBytes
    BY <2>1, SizesAssumption DEF Work
  <2>6. got \in Nat /\ work.read + got \in 0 .. ImageBytes /\ work.read + got <= work.size
    <3>1. got = NextBlock BY DEF NextBlock
    <3> QED BY <2>1, <2>2, <2>5, <3>1, NextBlockIs, WholeBlock
  <2> HIDE DEF got
  <2>7. (work.differs \/ found) \in BOOLEAN OBVIOUS
  <2> DEFINE differs == work.differs \/ found
  <2>8. /\ work' \in Work /\ work'.pc = "compare" /\ work'.size = work.size
        /\ work'.read = work.read + got /\ work'.checks = work.checks
        /\ work'.differs = differs
    <3> HIDE DEF differs
    <3>1. work' = [work EXCEPT !.read = work.read + got, !.differs = differs]
          /\ differs \in BOOLEAN
      BY <1>1, <2>7 DEF differs
    <3> QED BY <2>1, <2>2, <2>6, <3>1 DEF Work
  <2>9. Phases' BY <2>2, <2>3, <2>4, <2>8 DEF Phases
  <2>10. Counted' BY <2>2, <2>3, <2>4, <2>8 DEF Counted
  <2>11. Fresh' /\ HeadBare' BY <2>8 DEF Fresh, HeadBare
  <2>12. Laid' BY <2>2, <2>3, <2>4, <2>8 DEF Laid
  <2>13. Outside' BY <2>2, <2>4 DEF Outside
  <2>14. Seen'
    <3>1. ASSUME ~differs, NEW i \in 0 .. work.read + got - 1 PROVE SeenByte(i) = i
      <4>1. CASE i < work.read BY <3>1, <4>1, <2>3, <2>4, <2>5 DEF Seen
      <4>2. CASE i >= work.read
        <5>1. i \in work.read .. work.read + got - 1 BY <4>2, <2>5, <2>6
        <5> QED BY <3>1, <5>1
      <4> QED BY <4>1, <4>2, <2>5, <2>6
    <3>2. \A i : SeenByte(i)' = SeenByte(i) BY <2>2 DEF SeenByte
    <3> HIDE DEF differs
    <3>3. ASSUME ~work'.differs, NEW i \in 0 .. work'.read - 1 PROVE SeenByte(i)' = i
      <4>1. ~differs BY <3>3, <2>8, Zenon
      <4>2. work'.read = work.read + got BY <2>8, Zenon
      <4>3. i \in 0 .. work.read + got - 1 BY <4>2, <2>5, <2>6
      <4> QED BY <3>1, <3>2, <4>1, <4>3
    <3>4. host' = host /\ drive' = drive /\ reached' = "Checking" BY <2>2, <2>4
    <3>5. work.checks /\ host.lost = {} /\ ~host.wrote =>
            \A i \in 0 .. work'.size - 1 : SeenByte(i)' = i
      BY <2>3, <2>8, <3>2 DEF Seen
    <3>6. \A s \in Sectors : drive.may[s] = {drive.seen[s]} BY <2>3, <2>4 DEF Seen
    <3>7. host.kind = "macos" =>
            host.guarded /\ ~host.wrote /\ (work.checks \/ host.held => ~host.mounted)
      BY <2>3 DEF Seen
    <3>8. work'.checks = work.checks BY <2>8
    <3> QED BY <3>3, <3>4, <3>5, <3>6, <3>7, <3>8 DEF Seen
  <2>15. NothingIsNothing' /\ TableComesLast'
    BY <2>2, <2>4, <2>8 DEF NothingIsNothing, TableComesLast
  <2>17. work'.size = work.size /\ work'.checks = work.checks BY <2>8
  <2>18. WrittenIsOnTheMedium' BY <2>2, <2>3, <2>4, <2>17 DEF WrittenIsOnTheMedium
  <2>19. Kept' BY <2>2, <2>3, <2>4 DEF Kept
  <2>20. Cleared' BY <2>4, <2>17 DEF Cleared
  <2>16. GuardsHold'
    <3>1. found => host.lost # {} \/ host.wrote
      <4>1. work.read .. work.read + got - 1 \subseteq 0 .. work.size - 1 BY <2>5, <2>6
      <4> QED BY <4>1, <2>3, <2>4 DEF Seen
    <3>2. host.kind = "macos" => ~host.wrote BY <2>3 DEF Seen
    <3>3. differs => host.lost # {} \/ (host.wrote /\ host.kind # "macos")
      BY <2>3, <3>1, <3>2 DEF GuardsHold
    <3> HIDE DEF differs
    <3> QED BY <2>2, <2>8, <3>3 DEF GuardsHold
  <2> QED BY <1>1, <2>1, <2>2, <2>8, <2>9, <2>10, <2>11, <2>12, <2>13, <2>14, <2>15, <2>16, <2>18, <2>19, <2>20,
             TypedNext DEF IInv, Facts
<1>2. ASSUME NEW e \in {"ImageEnded", "DriveEnded", "Io"}, Fail(e) PROVE IInv'
  BY <1>2, FailKeeps DEF Compare, Errors
<1> QED BY <1>1, <1>2 DEF Compare

LEMMA FinishCheckKeeps == IInv /\ FinishCheck => IInv'
<1> SUFFICES ASSUME IInv, FinishCheck PROVE IInv'
  OBVIOUS
<1>1. CASE work.differs
  BY <1>1, FailKeeps DEF FinishCheck, Errors
<1>2. CASE ~work.differs
  <2>1. work \in Work /\ drive \in Drive /\ host \in Host /\ reached \in Reached /\ told \in Words
    BY Typed DEF IInv
  <2>2. /\ work.pc = "compare" /\ work.read = work.size /\ UNCHANGED <<drive, host, told>>
        /\ reached' = "Checked" /\ work' = [work EXCEPT !.pc = "eject"]
    BY <1>2 DEF FinishCheck
  <2>3. /\ Phases /\ Counted /\ Laid /\ Seen /\ GuardsHold /\ Kept /\ WrittenIsOnTheMedium
    BY DEF IInv, Facts
  <2>4. reached = "Checking" /\ work.checks /\ host.held BY <2>2, <2>3 DEF Phases
  <2>5. /\ work' \in Work /\ work'.pc = "eject" /\ work'.size = work.size
        /\ work'.read = work.read /\ work'.checks = work.checks
        /\ work'.differs = work.differs
    BY <2>1, <2>2 DEF Work, Steps
  <2>6. Phases' BY <2>2, <2>3, <2>4, <2>5 DEF Phases
  <2>7. Counted' BY <2>2, <2>3, <2>4, <2>5 DEF Counted
  <2>8. Fresh' /\ HeadBare' BY <2>5 DEF Fresh, HeadBare
  <2>9. Laid' BY <2>2, <2>3, <2>5 DEF Laid
  <2>10. Outside' BY <2>2 DEF Outside
  <2>11. Seen' BY <1>2, <2>2, <2>3, <2>4, <2>5 DEF Seen, SeenByte
  <2>12. NothingIsNothing' /\ TableComesLast'
    BY <2>2, <2>4, <2>5 DEF NothingIsNothing, TableComesLast
  <2>15. WrittenIsOnTheMedium' BY <2>2, <2>3, <2>4, <2>5 DEF WrittenIsOnTheMedium
  <2>16. Kept' BY <2>2, <2>3, <2>4 DEF Kept
  <2>17. Cleared' BY <2>4, <2>5 DEF Cleared
  <2>13. GuardsHold' BY <2>2, <2>3, <2>5 DEF GuardsHold
  <2>14. reached' \in Reached BY <2>2 DEF Reached
  <2> QED BY <2>1, <2>2, <2>5, <2>6, <2>7, <2>8, <2>9, <2>10, <2>11, <2>12, <2>13, <2>14,
             <2>15, <2>16, <2>17,
             TypedNext DEF IInv, Facts
<1> QED BY <1>1, <1>2

LEMMA HostWritesKeeps == IInv /\ HostWrites => IInv'
<1> SUFFICES ASSUME IInv, HostWrites PROVE IInv'
  OBVIOUS
<1>1. work \in Work /\ drive \in Drive /\ host \in Host /\ reached \in Reached /\ told \in Words
  BY Typed DEF IInv
<1>2. /\ work.pc # "end" /\ work.checks /\ ~host.held
      /\ host.mounted \/ host.kind = "windows"
      /\ UNCHANGED <<work, reached, told>>
  BY DEF HostWrites, Running
<1>3. PICK t \in Sectors : drive' = Wrote([x \in {t} |-> All(Other)])
  BY DEF HostWrites
<1>4. /\ Phases /\ Counted /\ Fresh /\ Laid /\ Seen /\ GuardsHold /\ HeadBare
  BY DEF IInv, Facts
<1>5. work.pc \in {"unmount", "open"} /\ reached = "Written" BY <1>2, <1>4 DEF Phases
<1>6. /\ host' \in Host
      /\ host'.kind = host.kind /\ host'.lost = host.lost /\ host'.wrote
      /\ host'.guarded = host.guarded /\ host'.source = host.source
      /\ host'.held = host.held /\ host'.mounted = host.mounted
  <2>1. host' = [host EXCEPT !.wrote = TRUE] BY DEF HostWrites
  <2> QED BY <1>1, <2>1 DEF Host
<1>7. drive' \in Drive /\ \A s \in Sectors : s \in host.lost => drive'.may[s] = drive.may[s]
  <2> DEFINE data == [x \in {t} |-> All(Other)]
  <2>1. \A s \in DOMAIN data \cap Sectors : data[s] \in [Cells -> Bytes] BY AllTyped
  <2>2. drive' = Wrote(data) BY <1>3
  <2> HIDE DEF data
  <2> QED BY <1>1, <2>1, <2>2, WroteIs
<1>8. Phases' BY <1>2, <1>4, <1>5, <1>6 DEF Phases
<1>9. Counted' BY <1>2, <1>4, <1>5, <1>6 DEF Counted
<1>10. Fresh' /\ HeadBare' BY <1>2, <1>5 DEF Fresh, HeadBare
<1>11. Laid'
  <2>1. host.lost \subseteq Sectors BY <1>1 DEF Host
  <2> QED BY <1>2, <1>4, <1>5, <1>6, <1>7, <2>1 DEF Laid
<1>12. Outside' BY <1>6 DEF Outside
<1>13. Seen'
  <2>1. host.kind # "macos" BY <1>2, <1>4 DEF Seen
  <2> QED BY <1>2, <1>5, <1>6, <2>1 DEF Seen
<1>14. NothingIsNothing' /\ WrittenIsOnTheMedium' /\ TableComesLast'
  BY <1>2, <1>5, <1>6 DEF NothingIsNothing, WrittenIsOnTheMedium, TableComesLast
<1>16. Kept' BY <1>6 DEF Kept
<1>17. Cleared' BY <1>2 DEF Cleared
<1>15. GuardsHold'
  <2>1. host.kind # "macos" BY <1>2, <1>4 DEF Seen
  <2> QED BY <1>6, <2>1 DEF GuardsHold
<1> QED BY <1>1, <1>2, <1>6, <1>7, <1>8, <1>9, <1>10, <1>11, <1>12, <1>13, <1>14, <1>15,
           <1>16, <1>17,
           TypedNext DEF IInv, Facts

-----------------------------------------------------------------------------
(* The invariant, and what follows from it.                                *)

LEMMA InitHolds == Init => IInv
<1> SUFFICES ASSUME Init PROVE IInv
  OBVIOUS
<1>1. SectorBytes \in Nat \ {0} /\ BlockSectors \in Nat /\ ImageBytes \in Nat /\ OpenTries \in Nat
      /\ DriveSectors \in Nat /\ BlockBytes \in Nat
  BY SizesAssumption, WholeBlock
<1>2. work = [pc |-> "unmount", checks |-> FALSE, size |-> 0, first |-> 0, read |-> 0,
              out |-> [from |-> 0, got |-> 0], at |-> 0, prepared |-> FALSE,
              differs |-> FALSE, left |-> OpenTries, result |-> "none"]
  BY DEF Init
<1>3. work \in Work BY <1>1, <1>2 DEF Work, Steps
<1>4. /\ work.pc = "unmount" /\ ~work.checks /\ work.size = 0 /\ work.first = 0
      /\ work.read = 0 /\ ~work.prepared /\ ~work.differs
  BY <1>2
<1>5. /\ reached = "Nothing" /\ told = "none"
      /\ drive = [seen |-> [s \in Sectors |-> All(Old)], may |-> [s \in Sectors |-> {All(Old)}]]
  BY DEF Init
<1>6. drive \in Drive /\ \A s \in Sectors : drive.seen[s] = All(Old) /\ drive.may[s] = {All(Old)}
  BY <1>5, AllTyped DEF Drive
<1>7. /\ host \in Host /\ host.lost \subseteq Sectors
      /\ ~host.held /\ ~host.wrote /\ host.guarded = (host.kind = "macos")
  <2>1. {{}} \cup {{s} : s \in Sectors} \subseteq SUBSET Sectors OBVIOUS
  <2>2. ImageBytes \in 0 .. ImageBytes BY <1>1
  <2>3. /\ host \in [kind : {"linux", "macos", "windows"}, source : {ImageBytes},
               lost : {{}} \cup {{s} : s \in Sectors}, plugged : {TRUE}, held : {FALSE},
               mounted : BOOLEAN, busy : {FALSE}, guarded : BOOLEAN,
               offline : BOOLEAN, readOnly : BOOLEAN, wrote : {FALSE}]
        /\ host.guarded = (host.kind = "macos")
    BY DEF Init
  <2> DEFINE losses == {{}} \cup {{s} : s \in Sectors}
  <2>4. losses \subseteq SUBSET Sectors BY <2>1
  <2>5. /\ host \in [kind : {"linux", "macos", "windows"}, source : {ImageBytes},
               lost : losses, plugged : {TRUE}, held : {FALSE},
               mounted : BOOLEAN, busy : {FALSE}, guarded : BOOLEAN,
               offline : BOOLEAN, readOnly : BOOLEAN, wrote : {FALSE}]
    BY <2>3
  <2> HIDE DEF losses
  <2>6. host \in Host /\ host.lost \subseteq Sectors /\ ~host.held /\ ~host.wrote
    BY <2>2, <2>4, <2>5 DEF Host
  <2> QED BY <2>3, <2>6
<1>8. TypeOK BY <1>3, <1>5, <1>6, <1>7, Typed DEF Words, Reached
<1>9. Phases BY <1>4, <1>5, <1>7 DEF Phases
<1>10. Counted /\ Fresh BY <1>4, <1>5 DEF Counted, Fresh
<1>11. Laid BY <1>4, <1>5, <1>6, <1>7 DEF Laid
<1>12. Outside /\ Seen BY <1>4, <1>5, <1>7 DEF Outside, Seen
<1>13. NothingIsNothing /\ WrittenIsOnTheMedium BY <1>5, <1>6 DEF NothingIsNothing, WrittenIsOnTheMedium
<1>14. TableComesLast BY <1>4, NoSectors DEF TableComesLast, TableBlock
<1>15. HeadBare /\ GuardsHold BY <1>4 DEF HeadBare, GuardsHold
<1>16. Kept /\ Cleared BY <1>4, <1>5, <1>6, AllTyped DEF Kept, Cleared
<1> QED BY <1>8, <1>9, <1>10, <1>11, <1>12, <1>13, <1>14, <1>15, <1>16 DEF IInv, Facts

LEMMA StutterKeeps == IInv /\ UNCHANGED vars => IInv'
<1> SUFFICES ASSUME IInv, UNCHANGED vars PROVE IInv'
  OBVIOUS
<1> USE DEF vars
<1>1. TypeOK' BY DEF IInv, TypeOK
<1>2. UNCHANGED <<work, reached, drive, host>> OBVIOUS
<1> HIDE DEF vars
<1>3. work \in Work /\ host \in Host BY Typed DEF IInv
<1>4. work.size \in Int /\ work.read \in Int /\ host.source \in Int
  BY <1>3, SizesAssumption DEF Work, Host
<1>5. Facts' BY <1>2, <1>4, QuietKeeps DEF IInv, Counters
<1> QED BY <1>1, <1>5 DEF IInv

\* The inductive invariant holds at every moment of every write.
THEOREM SoundAlways == Spec => []IInv
<1>1. Init => IInv
  BY InitHolds
<1>2. IInv /\ [Next]_vars => IInv'
  <2> SUFFICES ASSUME IInv, [Next]_vars PROVE IInv'
    OBVIOUS
  <2>1. CASE Program
    BY <2>1, UnmountKeeps, OpenKeeps, StartWriteKeeps, ReadFirstKeeps, ReadBlockKeeps,
       SeekFirstKeeps, PrepareKeeps, WriteBlockKeeps, SyncKeeps, CloseKeeps, StartCheckKeeps,
       CompareKeeps, FinishCheckKeeps, EjectKeeps
    DEF Program
  <2>2. CASE Around
    BY <2>2, SignalKeeps, AroundKeeps, HostWritesKeeps DEF Around
  <2>3. CASE UNCHANGED vars
    BY <2>3, StutterKeeps
  <2> QED
    BY <2>1, <2>2, <2>3 DEF Next
<1> QED
  BY <1>1, <1>2, PTL DEF Spec

\* The variables of the raw write keep their types, for every size: no counter of
\* write_image passes the image, no block the drive, no try falls below zero.
THEOREM TypeCorrect == Spec => []TypeOK
<1>1. IInv => TypeOK BY DEF IInv
<1> QED BY <1>1, SoundAlways, PTL

\* When stop.rs says that nothing was written, no byte of the drive changed.
THEOREM NothingIsNothingAlways == Spec => []NothingIsNothing
<1>1. IInv => NothingIsNothing BY DEF IInv, Facts
<1> QED BY <1>1, SoundAlways, PTL

\* After the end of write_image, through the check and after it, a good drive holds
\* the whole image on its medium until the host writes there.
THEOREM WrittenIsOnTheMediumAlways == Spec => []WrittenIsOnTheMedium
<1>1. IInv => WrittenIsOnTheMedium BY DEF IInv, Facts
<1> QED BY <1>1, SoundAlways, PTL

\* The first block, with the table, is on the drive only over the whole image.
THEOREM TableComesLastAlways == Spec => []TableComesLast
<1>1. IInv => TableComesLast BY DEF IInv, Facts
<1> QED BY <1>1, SoundAlways, PTL

\* On Windows no old table, at either end, stands beside a byte of the image, and
\* the head holds no table from the clears on until the first block goes out.
THEOREM NoTableHalfWayAlways == Spec => []NoTableHalfWay
<1>1. IInv => NoTableHalfWay BY DEF IInv, Facts, Cleared, HeadBare, NoTableHalfWay
<1> QED BY <1>1, SoundAlways, PTL

\* A check that ends well, while it still holds the drive, has seen every byte of
\* the image on the medium (verify_image).
THEOREM CheckProvesAlways == Spec => []CheckProves
<1>1. IInv => CheckProves
  <2> SUFFICES ASSUME IInv, reached = "Checked", host.held,
                      NEW i \in 0 .. work.size - 1,
                      NEW content \in drive.may[i \div SectorBytes]
               PROVE  content[i % SectorBytes] = i
    BY DEF CheckProves
  <2>1. Phases /\ Seen BY DEF IInv, Facts
  <2>2. work.size \in 0 .. ImageBytes BY Typed DEF IInv, Work
  <2>3. i \div SectorBytes \in Sectors
    BY <2>2, ImageByte, ImageInDrive DEF ImageSectors
  <2>4. drive.may[i \div SectorBytes] = {drive.seen[i \div SectorBytes]}
    BY <2>1, <2>3 DEF Phases, Seen
  <2>5. SeenByte(i) = i BY <2>1, <2>2 DEF Seen
  <2> QED BY <2>4, <2>5 DEF SeenByte
<1> QED BY <1>1, SoundAlways, PTL

\* The guard of macOS and the mark of Windows keep the host off a written drive.
THEOREM GuardsHoldAlways == Spec => []GuardsHold
<1>1. IInv => GuardsHold BY DEF IInv, Facts
<1> QED BY <1>1, SoundAlways, PTL

\* The write changes no sector past the image, but for a table that Windows clears.
THEOREM StaysInItsSectorsAlways == Spec => []StaysInItsSectors
<1>1. IInv => StaysInItsSectors
  BY DEF IInv, Facts, Outside, Spare, StaysInItsSectors
<1> QED BY <1>1, SoundAlways, PTL

=============================================================================
