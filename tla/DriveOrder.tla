------------------------------ MODULE DriveOrder ------------------------------
(***************************************************************************)
(* A drive of the list (burnout-core/src/drive.rs), the order of the list   *)
(* and the number that a person types (listing.rs).  A name is its runs of  *)
(* digits and of other characters, each one with its number or with its     *)
(* place among the runs of its length.                                      *)
(***************************************************************************)
EXTENDS Integers, Sequences, FiniteSets

CONSTANT Runs  \* the runs of each name: [digits, number, length, rank]

DigitRun  == [digits : {TRUE}, number : Nat, length : Nat, rank : {0}]
LetterRun == [digits : {FALSE}, number : {0}, length : Nat, rank : Nat]

Run == DigitRun \cup LetterRun

\* A name is its runs: two names with the same runs are one name.
ASSUME RunsAssumption ==
  /\ \A n \in DOMAIN Runs : Runs[n] \in Seq(Run)
  /\ \A a, b \in DOMAIN Runs : Runs[a] = Runs[b] => a = b

\* DriveInfo.  A drive is removable when its medium comes out, or when the whole
\* drive does.
DriveInfo(id, size, system, bus, medium, external, readOnly) ==
  [id |-> id, size |-> size, system |-> system, bus |-> bus,
   removable |-> medium \/ external, readOnly |-> readOnly]

\* Before, level or after: the order of two numbers as -1, 0 or 1.
Sign(a, b) == IF a < b THEN -1 ELSE IF a = b THEN 0 ELSE 1

Then(first, second) == IF first # 0 THEN first ELSE second

\* A mistake: letters compare as bytes do, and the length does not count.
CompareRunsAsBytes(x, y) ==
  CASE x.digits /\ y.digits  -> Sign(x.number, y.number)
    [] x.digits /\ ~y.digits -> -1
    [] ~x.digits /\ y.digits -> 1
    [] OTHER                 -> Sign(x.rank, y.rank)

\* Digits compare as a number, and letters by their length first: sdz comes
\* before sdaa, as the kernel gives the names out.
CompareRuns(x, y) ==
  CASE x.digits /\ y.digits  -> Then(Sign(x.number, y.number), Sign(x.length, y.length))
    [] x.digits /\ ~y.digits -> -1
    [] ~x.digits /\ y.digits -> 1
    [] OTHER                 -> Then(Sign(x.length, y.length), Sign(x.rank, y.rank))

\* natural_cmp: the first run that differs decides, and then the length.
NaturalCmp(a, b) ==
  LET both  == (1 .. Len(Runs[a])) \cap (1 .. Len(Runs[b]))
      apart == {k \in both : CompareRuns(Runs[a][k], Runs[b][k]) # 0}
      first == CHOOSE k \in apart : \A j \in apart : k <= j
  IN  IF apart = {} THEN Sign(Len(Runs[a]), Len(Runs[b]))
      ELSE CompareRuns(Runs[a][first], Runs[b][first])

\* in_list_order: a stable sort by name.
InListOrder(drives) ==
  LET ahead(i, j) == \/ NaturalCmp(drives[i].id, drives[j].id) < 0
                     \/ NaturalCmp(drives[i].id, drives[j].id) = 0 /\ i < j
      place(i)    == 1 + Cardinality({j \in DOMAIN drives : ahead(j, i)})
  IN  [k \in DOMAIN drives |-> drives[CHOOSE i \in DOMAIN drives : place(i) = k]]

\* by_index: the drive that a number names, at most one.
ByIndex(drives, index) == {drives[i] : i \in DOMAIN drives \cap {index}}
=============================================================================
