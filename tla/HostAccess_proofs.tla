-------------------------- MODULE HostAccess_proofs --------------------------
(***************************************************************************)
(* Safety of HostAccess, for every set of machines and every name: the     *)
(* number that a person types names the same drive in both lists unless a  *)
(* drive came or went before it, nothing of the drive is mounted while it  *)
(* is open, and the list marks just the drives that the system lies on.    *)
(*                                                                         *)
(* First natural_cmp is shown to be an order in which no two names are     *)
(* level, and the number of a drive in the list to be the rank of its name *)
(* among the names of the machine.  Then the inductive invariant, IInv:    *)
(* the machine is a sound one (Hardware), the number is the rank of what   *)
(* was shown in the list (Numbered), each place in the command tells of    *)
(* the locks, of the request and of the thread (Asking, Guarded), and what *)
(* the host can name of the drive is not mounted (Freed).                  *)
(*                                                                         *)
(* Then the walk: what walk_slaves of Linux finds is, on finite devices    *)
(* and even in a circle of them, what they lead to (WalkSlavesIs), and     *)
(* that is what a device lies on (WalkIsBeneath).  The recursions of the   *)
(* model are solved by a closed form, and any other solution agrees with   *)
(* it, by the least number of steps at which it would not.  Then the marks *)
(* of a list (MarksOfTheList), on a machine that tells what its system     *)
(* lies on (HostTells).  Last the command: until a drive is chosen the     *)
(* machine goes on telling, and the list that was read stays marked as it  *)
(* must be (MarksAreExactAlways).                                          *)
(***************************************************************************)
EXTENDS HostTruth, FiniteSetTheorems, TLAPS

-----------------------------------------------------------------------------
(* The order of the names (natural_cmp)                                    *)

\* A set of numbers that is not empty has a least one.
LEMMA LeastOf ==
  ASSUME NEW S \in SUBSET Nat, S # {}
  PROVE  \E k \in S : \A j \in S : k <= j
<1>1. \A j, k \in Nat : j < k => <<j, k>> \in OpToRel(<, Nat)
  BY Zenon DEF OpToRel
<1>2. PICK k \in S : \A j \in S : ~(<<j, k>> \in OpToRel(<, Nat))
  BY NatLessThanWellFounded, WFMin
<1>3. \A j \in S : ~(j < k)
  BY <1>1, <1>2
<1>4. QED
  BY <1>3

\* How a run of digits or of letters comes before another.
Ahead(x, y) ==
  \/ /\ x \in DigitRun /\ y \in DigitRun
     /\ x.number < y.number \/ (x.number = y.number /\ x.length < y.length)
  \/ x \in DigitRun /\ y \in LetterRun
  \/ /\ x \in LetterRun /\ y \in LetterRun
     /\ x.length < y.length \/ (x.length = y.length /\ x.rank < y.rank)

\* The fields of the two kinds of run, and the two fields that tell it apart.
LEMMA DigitRuns ==
  ASSUME NEW x \in DigitRun
  PROVE  /\ x.digits
         /\ x.number \in Nat /\ x.length \in Nat
         /\ x = [digits |-> TRUE, number |-> x.number, length |-> x.length, rank |-> 0]
<1>1. x.digits
  BY DEF DigitRun
<1>2. x.number \in Nat /\ x.length \in Nat
  BY DEF DigitRun
<1>3. x = [digits |-> TRUE, number |-> x.number, length |-> x.length, rank |-> 0]
  BY DEF DigitRun
<1>4. QED
  BY <1>1, <1>2, <1>3

\* Nor does the order of two runs of letters hide anything: their lengths and ranks.
LEMMA LetterRuns ==
  ASSUME NEW x \in LetterRun
  PROVE  /\ ~x.digits
         /\ x.length \in Nat /\ x.rank \in Nat
         /\ x = [digits |-> FALSE, number |-> 0, length |-> x.length, rank |-> x.rank]
<1>1. ~x.digits
  BY DEF LetterRun
<1>2. x.length \in Nat /\ x.rank \in Nat
  BY DEF LetterRun
<1>3. x = [digits |-> FALSE, number |-> 0, length |-> x.length, rank |-> x.rank]
  BY DEF LetterRun
<1>4. QED
  BY <1>1, <1>2, <1>3

\* Two runs are level only when they are one run.
LEMMA RunsCompare ==
  ASSUME NEW x \in Run, NEW y \in Run
  PROVE  /\ CompareRuns(x, y) < 0 <=> Ahead(x, y)
         /\ CompareRuns(x, y) = 0 <=> x = y
<1>1. CASE x \in DigitRun /\ y \in DigitRun
  <2>1. x.digits /\ y.digits
    BY <1>1, DigitRuns
  <2>2. x.number \in Nat /\ x.length \in Nat /\ y.number \in Nat /\ y.length \in Nat
    BY <1>1, DigitRuns
  <2>3. x \notin LetterRun /\ y \notin LetterRun
    BY <2>1, LetterRuns
  <2>4. x = y <=> x.number = y.number /\ x.length = y.length
    <3>1. x = [digits |-> TRUE, number |-> x.number, length |-> x.length, rank |-> 0]
      BY <1>1, DigitRuns
    <3>2. y = [digits |-> TRUE, number |-> y.number, length |-> y.length, rank |-> 0]
      BY <1>1, DigitRuns
    <3>3. QED
      BY <3>1, <3>2, Zenon
  <2>5. CompareRuns(x, y) < 0 <=>
          x.number < y.number \/ (x.number = y.number /\ x.length < y.length)
    BY <2>1, <2>2 DEF CompareRuns, Sign, Then
  <2>6. CompareRuns(x, y) = 0 <=> x.number = y.number /\ x.length = y.length
    BY <2>1, <2>2 DEF CompareRuns, Sign, Then
  <2>7. QED
    BY <1>1, <2>3, <2>4, <2>5, <2>6 DEF Ahead
<1>2. CASE x \in LetterRun /\ y \in LetterRun
  <2>1. ~x.digits /\ ~y.digits
    BY <1>2, LetterRuns
  <2>2. x.length \in Nat /\ x.rank \in Nat /\ y.length \in Nat /\ y.rank \in Nat
    BY <1>2, LetterRuns
  <2>3. x \notin DigitRun /\ y \notin DigitRun
    BY <2>1, DigitRuns
  <2>4. x = y <=> x.length = y.length /\ x.rank = y.rank
    BY <1>2, LetterRuns
  <2>5. CompareRuns(x, y) < 0 <=>
          x.length < y.length \/ (x.length = y.length /\ x.rank < y.rank)
    BY <2>1, <2>2 DEF CompareRuns, Sign, Then
  <2>6. CompareRuns(x, y) = 0 <=> x.length = y.length /\ x.rank = y.rank
    BY <2>1, <2>2 DEF CompareRuns, Sign, Then
  <2>7. QED
    BY <1>2, <2>3, <2>4, <2>5, <2>6 DEF Ahead
<1>3. CASE x \in DigitRun /\ y \in LetterRun
  <2>1. x.digits /\ ~y.digits
    BY <1>3, DigitRuns, LetterRuns
  <2>2. CompareRuns(x, y) = -1
    BY <2>1 DEF CompareRuns
  <2>3. QED
    BY <1>3, <2>1, <2>2 DEF Ahead
<1>4. CASE x \in LetterRun /\ y \in DigitRun
  <2>1. ~x.digits /\ y.digits
    BY <1>4, DigitRuns, LetterRuns
  <2>2. CompareRuns(x, y) = 1
    BY <2>1 DEF CompareRuns
  <2>3. x \notin DigitRun /\ y \notin LetterRun
    BY <2>1, DigitRuns, LetterRuns
  <2>4. QED
    BY <2>1, <2>2, <2>3 DEF Ahead
<1>5. QED
  BY <1>1, <1>2, <1>3, <1>4 DEF Run

\* Of two runs one comes before the other, and the order goes on along three.
LEMMA RunsAreOrdered ==
  ASSUME NEW x \in Run, NEW y \in Run, NEW z \in Run
  PROVE  /\ Ahead(x, y) \/ Ahead(y, x) \/ x = y
         /\ Ahead(x, y) => ~Ahead(y, x)
         /\ (Ahead(x, y) /\ Ahead(y, z)) => Ahead(x, z)
<1>1. \A v \in DigitRun : v.number \in Nat /\ v.length \in Nat /\ v \notin LetterRun
  BY DigitRuns, LetterRuns
<1>2. \A v \in LetterRun : v.length \in Nat /\ v.rank \in Nat
  BY LetterRuns
<1>3. \A v, w \in DigitRun : v.number = w.number /\ v.length = w.length => v = w
  BY DigitRuns
<1>4. \A v, w \in LetterRun : v.length = w.length /\ v.rank = w.rank => v = w
  BY LetterRuns
<1>5. Ahead(x, y) \/ Ahead(y, x) \/ x = y
  BY <1>1, <1>2, <1>3, <1>4 DEF Ahead, Run
<1>6. Ahead(x, y) => ~Ahead(y, x)
  BY <1>1, <1>2 DEF Ahead, Run
<1>7. (Ahead(x, y) /\ Ahead(y, z)) => Ahead(x, z)
  BY <1>1, <1>2 DEF Ahead, Run
<1>8. QED
  BY <1>5, <1>6, <1>7

\* The run at which a name comes before another: all runs ahead of it are the
\* same, and there the name has none left or a run that comes before.
FirstAt(a, b, k) ==
  /\ k \in Nat \ {0} /\ k <= Len(Runs[b]) /\ k - 1 <= Len(Runs[a])
  /\ \A j \in 1 .. k - 1 : Runs[a][j] = Runs[b][j]
  /\ k <= Len(Runs[a]) => CompareRuns(Runs[a][k], Runs[b][k]) < 0

\* A name comes before another by the first run that differs, or by being its start.
LEMMA ComesBefore ==
  ASSUME NEW a \in DOMAIN Runs, NEW b \in DOMAIN Runs
  PROVE  NaturalCmp(a, b) < 0 <=> \E k \in Nat : FirstAt(a, b, k)
<1> DEFINE both  == (1 .. Len(Runs[a])) \cap (1 .. Len(Runs[b]))
           apart == {k \in both : CompareRuns(Runs[a][k], Runs[b][k]) # 0}
           first == CHOOSE k \in apart : \A j \in apart : k <= j
<1>1. Runs[a] \in Seq(Run) /\ Runs[b] \in Seq(Run)
  BY RunsAssumption
<1>2. \A k \in both : Runs[a][k] \in Run /\ Runs[b][k] \in Run
  BY <1>1
<1>3. \A k \in both : CompareRuns(Runs[a][k], Runs[b][k]) = 0 <=> Runs[a][k] = Runs[b][k]
  BY <1>2, RunsCompare
<1>4. CASE apart = {}
  <2>1. \A k \in both : Runs[a][k] = Runs[b][k]
    BY <1>3, <1>4
  <2>2. \A k \in both : CompareRuns(Runs[a][k], Runs[b][k]) = 0
    BY <1>4
  <2>3. NaturalCmp(a, b) = Sign(Len(Runs[a]), Len(Runs[b]))
    BY <1>4 DEF NaturalCmp
  <2>4. NaturalCmp(a, b) < 0 <=> Len(Runs[a]) < Len(Runs[b])
    BY <2>3, <1>1 DEF Sign
  <2>5. Len(Runs[a]) < Len(Runs[b]) => FirstAt(a, b, Len(Runs[a]) + 1)
    BY <2>1, <1>1 DEF FirstAt
  <2>6. ASSUME NEW k \in Nat, FirstAt(a, b, k) PROVE Len(Runs[a]) < Len(Runs[b])
    BY <2>2, <2>6, <1>1 DEF FirstAt
  <2>7. Len(Runs[a]) + 1 \in Nat
    BY <1>1
  <2>8. QED
    BY <2>4, <2>5, <2>6, <2>7
<1>5. CASE apart # {}
  <2>0. apart \in SUBSET Nat
    BY <1>1
  <2>1. \E k \in apart : \A j \in apart : k <= j
    <3> HIDE DEF apart
    <3>1. QED
      BY <1>5, <2>0, LeastOf
  <2>2. first \in apart /\ \A j \in apart : first <= j
    BY <2>1
  <2>3. NaturalCmp(a, b) = CompareRuns(Runs[a][first], Runs[b][first])
    BY <1>5 DEF NaturalCmp
  <2> HIDE DEF first
  <2>4. \A j \in 1 .. first - 1 : Runs[a][j] = Runs[b][j]
    BY <2>2, <1>3, <1>1
  <2>5. NaturalCmp(a, b) < 0 => FirstAt(a, b, first)
    BY <2>2, <2>3, <2>4, <1>1 DEF FirstAt
  <2>6. ASSUME NEW k \in Nat, FirstAt(a, b, k) PROVE NaturalCmp(a, b) < 0
    <3>1. first \in Nat /\ first <= Len(Runs[a]) /\ Len(Runs[a]) \in Nat
      BY <2>2, <1>1
    <3>2. ~(first < k)
      BY <2>6, <2>2, <1>3, <1>1 DEF FirstAt
    <3>3. k <= Len(Runs[a])
      BY <3>1, <3>2
    <3>4. k \in apart
      BY <3>3, <2>6, <1>1 DEF FirstAt
    <3>5. k = first
      BY <3>1, <3>2, <3>4, <2>2
    <3>6. QED
      BY <3>3, <3>5, <2>6, <2>3 DEF FirstAt
  <2>7. first \in Nat
    BY <2>2, <1>1
  <2>8. QED
    BY <2>5, <2>6, <2>7
<1>6. QED
  BY <1>4, <1>5

\* natural_cmp agrees with the order in which a host gives its names.
LEMMA GivenComesBefore ==
  ASSUME NEW a \in DOMAIN Runs, NEW b \in DOMAIN Runs, GivenBefore(a, b)
  PROVE  NaturalCmp(a, b) < 0
<1>1. /\ Runs[a] \in Seq(Run) /\ Runs[b] \in Seq(Run)
      /\ Len(Runs[a]) \in Nat /\ Len(Runs[b]) \in Nat
  BY RunsAssumption
<1>2. PICK k \in DOMAIN Runs[a] \cap DOMAIN Runs[b] :
        /\ \A j \in 1 .. k - 1 : Runs[a][j] = Runs[b][j]
        /\ CountsOn(Runs[a][k], Runs[b][k])
  BY DEF GivenBefore
<1>3. k \in Nat \ {0} /\ k <= Len(Runs[a]) /\ k <= Len(Runs[b])
  BY <1>1, <1>2
<1>4. Runs[a][k] \in Run /\ Runs[b][k] \in Run
  BY <1>1, <1>3
<1>5. \A x \in DigitRun : x.digits
  BY DigitRuns
<1>6. \A x \in LetterRun : ~x.digits
  BY LetterRuns
<1>7. Ahead(Runs[a][k], Runs[b][k])
  BY <1>2, <1>4, <1>5, <1>6 DEF CountsOn, Ahead, Run
<1>8. FirstAt(a, b, k)
  BY <1>1, <1>2, <1>3, <1>4, <1>7, RunsCompare DEF FirstAt
<1>9. QED
  BY <1>3, <1>8, ComesBefore

\* natural_cmp puts the names in one order: of two names one comes before the
\* other, and the order goes on along three.
LEMMA NamesAreOrdered ==
  ASSUME NEW a \in DOMAIN Runs, NEW b \in DOMAIN Runs, NEW c \in DOMAIN Runs
  PROVE  /\ ~(NaturalCmp(a, a) < 0)
         /\ NaturalCmp(a, b) < 0 \/ NaturalCmp(b, a) < 0 \/ a = b
         /\ (NaturalCmp(a, b) < 0 /\ NaturalCmp(b, c) < 0) => NaturalCmp(a, c) < 0
<1>1. /\ Runs[a] \in Seq(Run) /\ Runs[b] \in Seq(Run) /\ Runs[c] \in Seq(Run)
      /\ Len(Runs[a]) \in Nat /\ Len(Runs[b]) \in Nat /\ Len(Runs[c]) \in Nat
  BY RunsAssumption
<1>2. \A x \in {a, b, c} : \A k \in 1 .. Len(Runs[x]) : Runs[x][k] \in Run
  BY <1>1
<1>3. \A x, y \in Run : CompareRuns(x, y) < 0 <=> Ahead(x, y)
  BY RunsCompare
<1>4. ~(NaturalCmp(a, a) < 0)
  <2>1. ASSUME NEW k \in Nat, FirstAt(a, a, k) PROVE FALSE
    <3>1. k \in 1 .. Len(Runs[a]) /\ CompareRuns(Runs[a][k], Runs[a][k]) < 0
      BY <2>1, <1>1 DEF FirstAt
    <3>2. QED
      BY <3>1, <1>2, <1>3, RunsAreOrdered
  <2>2. QED
    BY <2>1, ComesBefore
<1>5. ASSUME a # b PROVE NaturalCmp(a, b) < 0 \/ NaturalCmp(b, a) < 0
  <2> DEFINE apart == {k \in Nat \ {0} : \/ k > Len(Runs[a]) \/ k > Len(Runs[b])
                                         \/ Runs[a][k] # Runs[b][k]}
  <2>1. Len(Runs[a]) + 1 \in apart /\ apart \in SUBSET Nat
    BY <1>1
  <2> HIDE DEF apart
  <2>2. PICK k \in apart : \A j \in apart : k <= j
    BY <2>1, LeastOf
  <2> USE DEF apart
  <2>3. /\ k \in Nat \ {0} /\ k <= Len(Runs[a]) + 1 /\ k <= Len(Runs[b]) + 1
        /\ \A j \in 1 .. k - 1 : Runs[a][j] = Runs[b][j]
    BY <2>2, <1>1
  <2>4. CASE k > Len(Runs[a]) /\ k > Len(Runs[b])
    <3>1. Len(Runs[a]) = Len(Runs[b]) /\ k = Len(Runs[a]) + 1
      BY <2>3, <2>4, <1>1
    <3>2. \A j \in 1 .. Len(Runs[a]) : Runs[a][j] = Runs[b][j]
      BY <2>3, <3>1, <1>1
    <3>3. Runs[a] = Runs[b]
      BY <3>1, <3>2, <1>1
    <3>4. QED
      BY <3>3, <1>5, RunsAssumption
  <2>5. CASE k > Len(Runs[a]) /\ k <= Len(Runs[b])
    <3>1. FirstAt(a, b, k)
      BY <2>3, <2>5, <1>1 DEF FirstAt
    <3>2. QED
      BY <3>1, <2>3, ComesBefore
  <2>6. CASE k <= Len(Runs[a]) /\ k > Len(Runs[b])
    <3>1. FirstAt(b, a, k)
      BY <2>3, <2>6, <1>1 DEF FirstAt
    <3>2. QED
      BY <3>1, <2>3, ComesBefore
  <2>7. CASE k <= Len(Runs[a]) /\ k <= Len(Runs[b])
    <3>1. Runs[a][k] \in Run /\ Runs[b][k] \in Run /\ Runs[a][k] # Runs[b][k]
      BY <2>2, <2>3, <2>7, <1>1, <1>2
    <3>2. \/ CompareRuns(Runs[a][k], Runs[b][k]) < 0
          \/ CompareRuns(Runs[b][k], Runs[a][k]) < 0
      BY <3>1, <1>3, RunsAreOrdered
    <3>3. FirstAt(a, b, k) \/ FirstAt(b, a, k)
      BY <3>2, <2>3, <2>7, <1>1 DEF FirstAt
    <3>4. QED
      BY <3>3, <2>3, ComesBefore
  <2>8. QED
    BY <2>3, <2>4, <2>5, <2>6, <2>7, <1>1
<1>6. ASSUME NaturalCmp(a, b) < 0, NaturalCmp(b, c) < 0 PROVE NaturalCmp(a, c) < 0
  <2>1. PICK k \in Nat : FirstAt(a, b, k)
    BY <1>6, ComesBefore
  <2>2. PICK l \in Nat : FirstAt(b, c, l)
    BY <1>6, ComesBefore
  <2>3. CASE k < l
    <3>1. \A j \in 1 .. k - 1 : Runs[a][j] = Runs[c][j]
      BY <2>1, <2>2, <2>3, <1>1 DEF FirstAt
    <3>2. Runs[b][k] = Runs[c][k]
      BY <2>1, <2>2, <2>3, <1>1 DEF FirstAt
    <3>3. FirstAt(a, c, k)
      BY <3>1, <3>2, <2>1, <2>2, <2>3, <1>1 DEF FirstAt
    <3>4. QED
      BY <3>3, ComesBefore
  <2>4. CASE l < k
    <3>1. \A j \in 1 .. l - 1 : Runs[a][j] = Runs[c][j]
      BY <2>1, <2>2, <2>4, <1>1 DEF FirstAt
    <3>2. Runs[a][l] = Runs[b][l]
      <4>1. l \in 1 .. k - 1
        BY <2>1, <2>2, <2>4 DEF FirstAt
      <4>2. QED
        BY <4>1, <2>1 DEF FirstAt
    <3>3. FirstAt(a, c, l)
      BY <3>1, <3>2, <2>1, <2>2, <2>4, <1>1 DEF FirstAt
    <3>4. QED
      BY <3>3, ComesBefore
  <2>5. CASE k = l
    <3>1. \A j \in 1 .. k - 1 : Runs[a][j] = Runs[c][j]
      BY <2>1, <2>2, <2>5, <1>1 DEF FirstAt
    <3>2. ASSUME k <= Len(Runs[a]) PROVE CompareRuns(Runs[a][k], Runs[c][k]) < 0
      <4>1. /\ Runs[a][k] \in Run /\ Runs[b][k] \in Run /\ Runs[c][k] \in Run
        BY <3>2, <2>1, <2>2, <2>5, <1>1, <1>2 DEF FirstAt
      <4>2. Ahead(Runs[a][k], Runs[b][k]) /\ Ahead(Runs[b][k], Runs[c][k])
        BY <4>1, <3>2, <2>1, <2>2, <2>5, <1>3 DEF FirstAt
      <4>3. QED
        BY <4>1, <4>2, <1>3, RunsAreOrdered
    <3>3. FirstAt(a, c, k)
      BY <3>1, <3>2, <2>1, <2>2, <2>5, <1>1 DEF FirstAt
    <3>4. QED
      BY <3>3, ComesBefore
  <2>6. QED
    BY <2>3, <2>4, <2>5
<1>7. QED
  BY <1>4, <1>5, <1>6

\* Names that compare level are one name.
LEMMA LevelNamesAreOne ==
  ASSUME NEW a \in DOMAIN Runs, NEW b \in DOMAIN Runs, NaturalCmp(a, b) = 0
  PROVE  a = b
<1> DEFINE both  == (1 .. Len(Runs[a])) \cap (1 .. Len(Runs[b]))
           apart == {k \in both : CompareRuns(Runs[a][k], Runs[b][k]) # 0}
           first == CHOOSE k \in apart : \A j \in apart : k <= j
<1>1. /\ Runs[a] \in Seq(Run) /\ Runs[b] \in Seq(Run)
      /\ Len(Runs[a]) \in Nat /\ Len(Runs[b]) \in Nat
  BY RunsAssumption
<1>2. CASE apart = {}
  <2>1. Sign(Len(Runs[a]), Len(Runs[b])) = 0
    BY <1>2 DEF NaturalCmp
  <2>2. Len(Runs[a]) = Len(Runs[b])
    BY <2>1, <1>1 DEF Sign
  <2>3. \A k \in 1 .. Len(Runs[a]) : CompareRuns(Runs[a][k], Runs[b][k]) = 0
    BY <1>2, <2>2
  <2>4. \A k \in 1 .. Len(Runs[a]) : Runs[a][k] = Runs[b][k]
    BY <2>2, <2>3, <1>1, RunsCompare
  <2>5. Runs[a] = Runs[b]
    BY <2>2, <2>4, <1>1
  <2>6. QED
    BY <2>5, RunsAssumption
<1>3. CASE apart # {}
  <2>1. apart \in SUBSET Nat
    BY <1>1
  <2>2. \E k \in apart : \A j \in apart : k <= j
    <3> HIDE DEF apart
    <3>1. QED
      BY <1>3, <2>1, LeastOf
  <2>3. first \in apart
    BY <2>2
  <2>4. CompareRuns(Runs[a][first], Runs[b][first]) = 0
    BY <1>3 DEF NaturalCmp
  <2>5. QED
    BY <2>3, <2>4
<1>4. QED
  BY <1>2, <1>3

-----------------------------------------------------------------------------
(* The number of a drive is the rank of its name.                          *)

\* The number that in_list_order gives to a name of S.
Rank(S, n) == 1 + Cardinality({x \in S : NaturalCmp(x, n) < 0})

\* Ranks are numbers from 1 up, one for each name.
LEMMA EachRankIsOneName ==
  ASSUME NEW S \in SUBSET DOMAIN Runs, IsFiniteSet(S)
  PROVE  /\ \A n \in S : Rank(S, n) \in 1 .. Cardinality(S)
         /\ \A a, b \in S : Rank(S, a) = Rank(S, b) => a = b
         /\ \A k \in 1 .. Cardinality(S) : \E n \in S : Rank(S, n) = k
<1> DEFINE before(n) == {x \in S : NaturalCmp(x, n) < 0}
<1>0. \A n \in S : Rank(S, n) = 1 + Cardinality(before(n))
  BY DEF Rank
<1>1. Cardinality(S) \in Nat
  BY FS_CardinalityType
<1>2. \A n \in S : IsFiniteSet(before(n)) /\ Cardinality(before(n)) \in Nat
  BY FS_Subset, FS_CardinalityType
<1>3. ASSUME NEW n \in S
      PROVE  Rank(S, n) \in 1 .. Cardinality(S)
  <2>1. before(n) \in SUBSET (S \ {n})
    BY NamesAreOrdered
  <2>2. IsFiniteSet(S \ {n}) /\ Cardinality(S \ {n}) = Cardinality(S) - 1
    BY FS_RemoveElement
  <2>3. Cardinality(before(n)) <= Cardinality(S) - 1
    BY <2>1, <2>2, FS_Subset
  <2>4. QED
    <3> HIDE DEF before
    <3>1. QED
      BY <2>3, <1>1, <1>2, <1>0
<1>4. ASSUME NEW a \in S, NEW b \in S, NaturalCmp(a, b) < 0
      PROVE  Rank(S, a) < Rank(S, b)
  <2>1. a \notin before(a)
    BY NamesAreOrdered
  <2>2. before(a) \cup {a} \in SUBSET before(b)
    BY <1>4, NamesAreOrdered
  <2>3. Cardinality(before(a) \cup {a}) = Cardinality(before(a)) + 1
    BY <1>2, <2>1, FS_AddElement
  <2>4. Cardinality(before(a) \cup {a}) <= Cardinality(before(b))
    BY <1>2, <2>2, FS_Subset
  <2>5. QED
    <3> HIDE DEF before
    <3>1. QED
      BY <2>3, <2>4, <1>2, <1>0
<1>5. ASSUME NEW a \in S, NEW b \in S, Rank(S, a) = Rank(S, b)
      PROVE  a = b
  <2>1. Rank(S, a) \in Int
    BY <1>3, <1>1
  <2>2. QED
    BY <2>1, <1>4, <1>5, NamesAreOrdered
<1>6. ASSUME NEW k \in 1 .. Cardinality(S)
      PROVE  \E n \in S : Rank(S, n) = k
  <2> DEFINE f == [n \in S |-> Rank(S, n)]
             T == 1 .. Cardinality(S)
  <2>1. f \in Injection(S, T)
    BY <1>3, <1>5 DEF Injection, IsInjective
  <2>2. IsFiniteSet(T) /\ Cardinality(T) = Cardinality(S)
    BY <1>1, FS_Interval
  <2>3. f \in Surjection(S, T)
    BY <2>1, <2>2, FS_Injection
  <2>4. QED
    BY <2>3 DEF Surjection
<1>7. QED
  BY <1>3, <1>5, <1>6

\* Names that come or go after a name leave it its number.
LEMMA NamesAfterKeepTheRank ==
  ASSUME NEW S \in SUBSET DOMAIN Runs, NEW T \in SUBSET DOMAIN Runs, NEW n \in S,
         \A x \in (S \ T) \cup (T \ S) : NaturalCmp(n, x) < 0
  PROVE  n \in T /\ Rank(T, n) = Rank(S, n)
<1>1. ASSUME NEW x \in (S \ T) \cup (T \ S)
      PROVE  ~(NaturalCmp(x, n) < 0) /\ x # n
  <2>1. NaturalCmp(n, x) < 0 /\ x \in DOMAIN Runs /\ n \in DOMAIN Runs
    OBVIOUS
  <2>2. QED
    BY <2>1, NamesAreOrdered
<1>2. n \in T
  BY <1>1
<1>3. \A x : x \in T /\ NaturalCmp(x, n) < 0 <=> x \in S /\ NaturalCmp(x, n) < 0
  BY <1>1
<1>4. {x \in T : NaturalCmp(x, n) < 0} = {x \in S : NaturalCmp(x, n) < 0}
  BY <1>3
<1>5. QED
  BY <1>2, <1>4 DEF Rank

Ids(drives) == {d.id : d \in drives}

\* in_list_order: whatever the order in which the host gives the drives, number
\* k has the drive whose name has rank k.
THEOREM NumbersAreRanks ==
  ASSUME NEW drives, NEW found \in SetToSeqs(drives),
         IsFiniteSet(Ids(drives)), Ids(drives) \subseteq DOMAIN Runs,
         \A c, d \in drives : c.id = d.id => c = d
  PROVE  /\ DOMAIN InListOrder(found) = 1 .. Cardinality(Ids(drives))
         /\ \A k \in DOMAIN InListOrder(found) :
              /\ InListOrder(found)[k] \in drives
              /\ Rank(Ids(drives), InListOrder(found)[k].id) = k
<1> DEFINE D == 1 .. Cardinality(drives)
           ids == Ids(drives)
           ahead(i, j) == \/ NaturalCmp(found[i].id, found[j].id) < 0
                          \/ NaturalCmp(found[i].id, found[j].id) = 0 /\ i < j
           place(i)    == 1 + Cardinality({j \in DOMAIN found : ahead(j, i)})
           id          == [d \in drives |-> d.id]
           taken(k)    == CHOOSE i \in DOMAIN found : place(i) = k
<1>1. id \in Injection(drives, ids) /\ id \in Surjection(drives, ids)
  BY DEF Ids, Injection, Surjection, IsInjective
<1>2. IsFiniteSet(drives) /\ Cardinality(drives) = Cardinality(ids)
  <2>1. IsFiniteSet(drives)
    BY <1>1, FS_Injection
  <2>2. Cardinality(drives) = Cardinality(ids)
    BY <1>1, FS_Injection
  <2>3. QED
    BY <2>1, <2>2
<1>3. found \in [D -> drives] /\ \A i, j \in D : i # j => found[i] # found[j]
  BY DEF SetToSeqs
<1>4. \A i \in D : found[i].id \in ids /\ found[i].id \in DOMAIN Runs
  BY <1>3 DEF Ids
<1>5. \A i, j \in D : found[i].id = found[j].id => i = j
  BY <1>3
<1>6. found \in Surjection(D, drives)
  <2>1. found \in Injection(D, drives)
    BY <1>3 DEF Injection, IsInjective
  <2>2. Cardinality(D) = Cardinality(drives)
    BY <1>2, FS_CardinalityType, FS_Interval
  <2>3. QED
    BY <2>1, <2>2, <1>2, FS_Injection
<1>7. \A x \in ids : \E i \in D : found[i].id = x
  BY <1>6 DEF Ids, Surjection
<1>8. ASSUME NEW i \in D
      PROVE  place(i) = Rank(ids, found[i].id)
  <2> DEFINE A == {j \in DOMAIN found : ahead(j, i)}
             B == {x \in ids : NaturalCmp(x, found[i].id) < 0}
             g == [j \in A |-> found[j].id]
  <2>1. \A j \in D : ahead(j, i) <=> NaturalCmp(found[j].id, found[i].id) < 0
    <3>1. ASSUME NEW j \in D, NaturalCmp(found[j].id, found[i].id) = 0 PROVE ~(j < i)
      <4>1. j = i
        BY <3>1, <1>4, <1>5, LevelNamesAreOne
      <4>2. QED
        BY <4>1
    <3>2. QED
      BY <3>1
  <2>2. A = {j \in D : NaturalCmp(found[j].id, found[i].id) < 0}
    BY <2>1, <1>3
  <2>3. A \subseteq D /\ IsFiniteSet(A)
    <3>1. IsFiniteSet(D)
      BY <1>2, FS_CardinalityType, FS_Interval
    <3>2. QED
      BY <2>2, <3>1, FS_Subset
  <2>4. g \in Injection(A, B) /\ g \in Surjection(A, B)
    <3> HIDE DEF A
    <3>1. \A j \in A : found[j].id \in B
      BY <2>2, <1>4
    <3>2. \A x \in B : \E j \in A : found[j].id = x
      BY <2>2, <1>7
    <3>3. \A j, l \in A : found[j].id = found[l].id => j = l
      BY <2>3, <1>5
    <3> HIDE DEF B
    <3>4. QED
      BY <3>1, <3>2, <3>3 DEF Injection, Surjection, IsInjective
  <2>5. Cardinality(B) = Cardinality(A)
    <3> HIDE DEF A, B, g
    <3>1. ExistsBijection(A, B)
      BY <2>4 DEF ExistsBijection, Bijection
    <3>2. QED
      BY <3>1, <2>3, FS_Bijection
  <2>6. QED
    BY <2>5 DEF Rank
<1>9. ASSUME NEW k \in D
      PROVE  taken(k) \in D /\ Rank(ids, found[taken(k)].id) = k
  <2>1. PICK n \in ids : Rank(ids, n) = k
    BY <1>2, EachRankIsOneName
  <2>2. PICK i \in D : found[i].id = n
    BY <1>7
  <2>3. place(i) = k
    BY <2>1, <2>2, <1>8
  <2> HIDE DEF place
  <2>4. taken(k) \in D /\ place(taken(k)) = k
    BY <2>2, <2>3, <1>3
  <2>5. QED
    BY <2>4, <1>8
<1>10. InListOrder(found) = [k \in D |-> found[taken(k)]]
  BY <1>3 DEF InListOrder
<1> HIDE DEF taken
<1>11. QED
  BY <1>2, <1>3, <1>9, <1>10
-----------------------------------------------------------------------------
(* The machine                                                             *)

\* What a host is made of, whatever is mounted and connected.
Sound(m) ==
  /\ m.kind \in {"linux", "macos", "windows"}
  /\ m = [field \in Fields(m.kind) |-> m[field]]

\* The fields that the actions change are fields of the machine of their host.
LEMMA FieldsOfHosts ==
  /\ \A kind : {"kind", "spare", "used", "plugged", "next", "gone"} \subseteq Fields(kind)
  /\ {"disks", "above", "slaves", "mounts"} \subseteq Fields("linux")
  /\ {"nodes", "parent", "root", "volumes", "mounted"} \subseteq Fields("macos")
  /\ {"answers", "volumes", "windows", "mounted"} \subseteq Fields("windows")
  BY DEF Fields

\* What is mounted is all that a mount changes.
LEMMA MountingIs ==
  ASSUME NEW m, Sound(m), NEW S
  PROVE  LET x == Mounting(m, S)
         IN  /\ x.kind = m.kind /\ Sound(x)
             /\ Mounted(x) = S
             /\ x.spare = m.spare /\ x.plugged = m.plugged /\ x.used = m.used
             /\ m.kind = "linux" => x.disks = m.disks /\ Devices(x) = Devices(m)
             /\ m.kind = "macos" => x.nodes = m.nodes
             /\ m.kind = "windows" => x.answers = m.answers
             /\ m.kind # "linux" => x.volumes = m.volumes
<1>1. CASE m.kind = "linux"
  BY <1>1, FieldsOfHosts DEF Sound, Mounting, Mounted, Devices
<1>2. CASE m.kind = "macos"
  BY <1>2, FieldsOfHosts DEF Sound, Mounting, Mounted, Devices
<1>3. CASE m.kind = "windows"
  BY <1>3, FieldsOfHosts DEF Sound, Mounting, Mounted, Devices
<1>4. QED
  BY <1>1, <1>2, <1>3 DEF Sound

\* Nor does a drive that comes or goes change what is mounted, or what lies on what.
LEMMA PluggedIs ==
  ASSUME NEW m, Sound(m)
  PROVE  LET x == Plugged(m)
         IN  /\ x.kind = m.kind /\ Sound(x)
             /\ Mounted(x) = Mounted(m)
             /\ x.spare = m.spare /\ x.plugged = TRUE /\ x.used = m.used
             /\ m.kind = "linux" => Devices(x) = Devices(m)
             /\ m.kind # "linux" => x.volumes = m.volumes
<1>1. CASE m.kind = "linux"
  BY <1>1, FieldsOfHosts DEF Sound, Plugged, Mounted, Devices
<1>2. CASE m.kind = "macos"
  BY <1>2, FieldsOfHosts DEF Sound, Plugged, Mounted, Devices
<1>3. CASE m.kind = "windows"
  BY <1>3, FieldsOfHosts DEF Sound, Plugged, Mounted, Devices
<1>4. QED
  BY <1>1, <1>2, <1>3 DEF Sound

\* It is one whether a drive comes or goes before a mount or after it.
LEMMA PluggedThenMounting ==
  ASSUME NEW m, Sound(m), NEW S
  PROVE  Plugged(Mounting(m, S)) = Mounting(Plugged(m), S)
<1>1. CASE m.kind = "linux"
  BY <1>1, FieldsOfHosts DEF Sound, Plugged, Mounting
<1>2. CASE m.kind = "macos"
  BY <1>2, FieldsOfHosts DEF Sound, Plugged, Mounting
<1>3. CASE m.kind = "windows"
  BY <1>3, FieldsOfHosts DEF Sound, Plugged, Mounting
<1>4. QED
  BY <1>1, <1>2, <1>3 DEF Sound

\* The devices, media or disks that a host lists, and the name of each.
Units(m) ==
  CASE m.kind = "linux"   -> {n \in DOMAIN m.disks : IsListable(m, n)}
    [] m.kind = "macos"   -> {n \in Media(m) : IsListedMedia(m, n)}
    [] m.kind = "windows" -> {n \in Enumerated(m) : Readable(m.answers[n]) /\ m.answers[n].size > 0}

NameOf(m, n) == IF m.kind = "macos" THEN CHOOSE name \in Name(m, n) : TRUE ELSE n

\* One line of the list for each unit, and one unit for each name.
LEMMA ListIsOfUnits ==
  ASSUME NEW m, m.kind \in {"linux", "macos", "windows"}
  PROVE  /\ \A d \in ListOf(m) : \E n \in Units(m) : d.id = NameOf(m, n)
         /\ \A n \in Units(m) : \E d \in ListOf(m) : d.id = NameOf(m, n)
         /\ (m.kind = "macos" => \A x, y \in DOMAIN m.nodes : x # y => Name(m, x) \cap Name(m, y) = {})
              => \A c, d \in ListOf(m) : c.id = d.id => c = d
<1>1. CASE m.kind = "linux"
  <2>1. \A n, system : LinuxDrive(m, n, system).id = n
    BY DEF LinuxDrive, DriveInfo
  <2>2. ListOf(m) = {LinuxDrive(m, n, LinuxSystem(m)) : n \in Units(m)}
    BY <1>1 DEF ListOf, LinuxDrives, Units
  <2>3. QED
    BY <1>1, <2>1, <2>2 DEF NameOf
<1>2. CASE m.kind = "windows"
  <2>1. \A n, system : WindowsDrive(m, n, system).id = n
    BY DEF WindowsDrive, DriveInfo
  <2>2. ListOf(m) = {WindowsDrive(m, n, WindowsSystem(m)) : n \in Units(m)}
    BY <1>2 DEF ListOf, WindowsDrives, Units
  <2>3. QED
    BY <1>2, <2>1, <2>2 DEF NameOf
<1>3. CASE m.kind = "macos"
  <2>1. \A n, system : MacosDrive(m, n, system).id = CHOOSE name \in Name(m, n) : TRUE
    BY DEF MacosDrive, DriveInfo
  <2>2. ListOf(m) = {MacosDrive(m, n, MacosSystem(m)) : n \in Units(m)}
    BY <1>3 DEF ListOf, MacosDrives, Units
  <2>3. \A n \in Units(m) : n \in DOMAIN m.nodes /\ Name(m, n) # {}
    BY <1>3 DEF Units, Media, IsListedMedia
  <2>4. \A n \in Units(m) : NameOf(m, n) \in Name(m, n)
    BY <1>3, <2>3 DEF NameOf
  <2>5. \A n, system : MacosDrive(m, n, system).id = NameOf(m, n)
    BY <1>3, <2>1 DEF NameOf
  <2>6. QED
    BY <1>3, <2>2, <2>3, <2>4, <2>5
<1>4. QED
  BY <1>1, <1>2, <1>3

\* The names of a machine do not depend on what is mounted.
LEMMA MountingKeepsTheNames ==
  ASSUME NEW m, Sound(m), NEW S
  PROVE  /\ Names(Mounting(m, S)) = Names(m)
         /\ WellNamed(Mounting(m, S)) <=> WellNamed(m)
<1> DEFINE x == Mounting(m, S)
<1>1. x.kind = m.kind /\ m.kind \in {"linux", "macos", "windows"}
  BY MountingIs DEF Sound
<1>2. /\ m.kind = "linux" => x.disks = m.disks
      /\ m.kind = "macos" => x.nodes = m.nodes
      /\ m.kind = "windows" => x.answers = m.answers
  BY MountingIs
<1> HIDE DEF x
<1>3. m.kind = "macos" => \A n : Name(x, n) = Name(m, n)
  BY <1>2 DEF Name, As, Get, Converted
<1>4. Units(x) = Units(m)
  <2>1. CASE m.kind = "linux"
    BY <2>1, <1>1, <1>2 DEF Units, IsListable
  <2>2. CASE m.kind = "macos"
    <3>1. Media(x) = Media(m)
      BY <2>2, <1>2 DEF Media
    <3>2. \A n, key : Get(x, n, key) = Get(m, n, key)
      BY <2>2, <1>2 DEF Get
    <3>3. \A n : IsListedMedia(x, n) <=> IsListedMedia(m, n)
      BY <2>2, <1>2, <1>3, <3>2 DEF IsListedMedia, IsPhysicalWhole, IsWhole
    <3>4. QED
      BY <2>2, <1>1, <3>1, <3>3 DEF Units
  <2>3. CASE m.kind = "windows"
    BY <2>3, <1>1, <1>2 DEF Units, Enumerated
  <2>4. QED
    BY <1>1, <2>1, <2>2, <2>3
<1>5. \A n : NameOf(x, n) = NameOf(m, n)
  <2>1. CASE m.kind = "macos"
    BY <2>1, <1>1, <1>3 DEF NameOf
  <2>2. CASE m.kind # "macos"
    BY <2>2, <1>1 DEF NameOf
  <2>3. QED
    BY <2>1, <2>2
<1>6. Names(x) = Names(m)
  <2>1. \A y \in {x, m} : Names(y) = {NameOf(y, n) : n \in Units(y)}
    <3>1. ASSUME NEW y \in {x, m}
          PROVE  Names(y) = {NameOf(y, n) : n \in Units(y)}
      <4>1. y.kind \in {"linux", "macos", "windows"}
        BY <1>1
      <4>2. QED
        BY <4>1, ListIsOfUnits DEF Names
    <3>2. QED
      BY <3>1
  <2>2. QED
    BY <2>1, <1>4, <1>5
<1>7. WellNamed(x) <=> WellNamed(m)
  BY <1>1, <1>2, <1>3, <1>6 DEF WellNamed
<1>8. QED
  BY <1>6, <1>7 DEF x

-----------------------------------------------------------------------------
(* The inductive invariant                                                 *)

\* The hardware of a machine: its names, also after a drive comes or goes.
Hardware ==
  /\ Sound(machine) /\ WellNamed(machine)
  /\ ~machine.plugged => WellNamed(Plugged(machine))
  /\ machine.kind = "windows" =>
       Mounted(machine) \cup machine.spare \subseteq DOMAIN machine.volumes

\* What a step can do to the machine.
Remounted == \E S : /\ machine' = Mounting(machine, S)
                    /\ S \subseteq Mounted(machine) \cup machine.spare

Connects == ~machine.plugged /\ machine' = Plugged(machine)

\* Each step leaves the machine, mounts or unmounts, or connects the drive.
LEMMA MachineSteps ==
  ASSUME [Next]_vars
  PROVE  UNCHANGED machine \/ Remounted \/ Connects
<1> USE DEF Remounted
<1>1. CASE Command
  <2>1. CASE Umount
    <3>1. PICK p \in Deepest(caller.left) :
            LET volumes == {v \in machine.mounts : v.point = p}
            IN  UNCHANGED machine \/ machine' = Without(machine, volumes)
      BY <2>1 DEF Umount
    <3>2. QED
      BY <3>1 DEF Without
  <2>2. CASE LockVolume
    <3>1. PICK v \in caller.left : UNCHANGED machine \/ machine' = Without(machine, {v})
      BY <2>2 DEF LockVolume
    <3>2. QED
      BY <3>1 DEF Without
  <2>3. CASE List \/ Type \/ ListAgain \/ KeepUnmounted \/ Ready \/ ReadMounts \/ Umounted
    BY <2>3 DEF List, Type, ListAgain, KeepUnmounted, Ready, ReadMounts, Umounted
  <2>4. CASE OpenLinux \/ Settle \/ Heard \/ Deadline \/ OpenMacos \/ OpenWindows
    BY <2>4 DEF OpenLinux, Settle, Heard, Deadline, OpenMacos, OpenWindows
  <2>5. CASE OpenPhysical \/ CloseDrive \/ LetGo \/ Join
    BY <2>5 DEF OpenPhysical, CloseDrive, LetGo, Join
  <2>6. QED
    BY <1>1, <2>1, <2>2, <2>3, <2>4, <2>5 DEF Command
<1>2. CASE Refuser
  BY <1>2 DEF Refuser, Register, Unregister
<1>3. CASE Arbitrate
  BY <1>3 DEF Arbitrate, Remounted, Without
<1>4. CASE Mount
  BY <1>4 DEF Mount, Remounted, With
<1>5. CASE Plug
  BY <1>5 DEF Plug, Connects
<1>6. CASE UNCHANGED vars
  BY <1>6 DEF vars
<1>7. QED
  BY <1>1, <1>2, <1>3, <1>4, <1>5, <1>6 DEF Next

\* So the machine stays one of those that the run may start on.
LEMMA HardwareStep ==
  ASSUME Hardware, [Next]_vars
  PROVE  Hardware'
<1>1. CASE UNCHANGED machine
  BY <1>1 DEF Hardware, Sound, WellNamed, Names
<1>2. CASE Remounted
  <2>1. PICK S : machine' = Mounting(machine, S) /\ S \subseteq Mounted(machine) \cup machine.spare
    BY <1>2 DEF Remounted
  <2> DEFINE x == Mounting(machine, S)
  <2>2. Sound(x) /\ x.kind = machine.kind /\ x.plugged = machine.plugged
    BY MountingIs DEF Hardware
  <2>3. WellNamed(x)
    BY MountingKeepsTheNames DEF Hardware
  <2>4. ASSUME ~machine.plugged PROVE WellNamed(Plugged(x))
    <3>1. Sound(Plugged(machine))
      BY PluggedIs DEF Hardware
    <3>2. QED
      BY <2>4, <3>1, PluggedThenMounting, MountingKeepsTheNames DEF Hardware
  <2>5. x.kind = "windows" => Mounted(x) \cup x.spare \subseteq DOMAIN x.volumes
    BY <2>1, MountingIs DEF Hardware
  <2> HIDE DEF x
  <2>6. Sound(x) /\ WellNamed(x)
        /\ (~x.plugged => WellNamed(Plugged(x)))
        /\ (x.kind = "windows" => Mounted(x) \cup x.spare \subseteq DOMAIN x.volumes)
    BY <2>2, <2>3, <2>4, <2>5
  <2>7. machine' = x
    BY <2>1 DEF x
  <2>8. QED
    BY <2>6, <2>7 DEF Hardware
<1>3. CASE Connects
  <2> DEFINE x == Plugged(machine)
  <2>1. machine' = x /\ ~machine.plugged
    BY <1>3 DEF Connects
  <2>2. Sound(x) /\ x.kind = machine.kind /\ x.plugged = TRUE
    BY PluggedIs DEF Hardware
  <2>3. WellNamed(x)
    BY <2>1 DEF Hardware
  <2>4. x.kind = "windows" => Mounted(x) \cup x.spare \subseteq DOMAIN x.volumes
    BY PluggedIs DEF Hardware
  <2> HIDE DEF x
  <2>5. QED
    BY <2>1, <2>2, <2>3, <2>4 DEF Hardware
<1>4. QED
  BY <1>1, <1>2, <1>3, MachineSteps

\* The names stay, but for the one step at which a drive comes or goes.
LEMMA NamesStay ==
  ASSUME Hardware, [Next]_vars
  PROVE  \/ Names(machine') = Names(machine) /\ machine'.plugged = machine.plugged
         \/ ~machine.plugged /\ machine'.plugged = TRUE
<1>1. CASE UNCHANGED machine
  BY <1>1
<1>2. CASE Remounted
  <2>1. PICK S : machine' = Mounting(machine, S)
    BY <1>2 DEF Remounted
  <2>2. Sound(machine)
    BY DEF Hardware
  <2> DEFINE x == Mounting(machine, S)
  <2>3. Names(x) = Names(machine) /\ x.plugged = machine.plugged
    BY <2>2, MountingKeepsTheNames, MountingIs
  <2> HIDE DEF x
  <2>4. machine' = x
    BY <2>1 DEF x
  <2>5. QED
    BY <2>3, <2>4
<1>3. CASE Connects
  <2>1. machine' = Plugged(machine) /\ ~machine.plugged
    BY <1>3 DEF Connects
  <2>2. QED
    BY <2>1, PluggedIs DEF Hardware
<1>4. QED
  BY <1>1, <1>2, <1>3, MachineSteps

\* The list of the command numbers the names of the machine.
LEMMA ListIsNumbered ==
  ASSUME Hardware, NEW found \in SetToSeqs(ListOf(machine))
  PROVE  /\ DOMAIN InListOrder(found) = 1 .. Cardinality(Names(machine))
         /\ \A k \in DOMAIN InListOrder(found) :
              /\ InListOrder(found)[k].id \in Names(machine)
              /\ Rank(Names(machine), InListOrder(found)[k].id) = k
<1>1. IsFiniteSet(Names(machine)) /\ Names(machine) \subseteq DOMAIN Runs
  BY DEF Hardware, WellNamed
<1>2. \A c, d \in ListOf(machine) : c.id = d.id => c = d
  BY ListIsOfUnits DEF Hardware, Sound, WellNamed
<1>3. Names(machine) = Ids(ListOf(machine))
  BY DEF Names, Ids
<1>4. QED
  BY <1>1, <1>2, <1>3, NumbersAreRanks DEF Ids

CallerFields ==
  {"pc", "list", "number", "shown", "target", "left", "locks", "handle", "loop", "why"}

Shape ==
  /\ caller = [field \in CallerFields |-> caller[field]]
  /\ refusal = [field \in {"pc", "stop", "answer"} |-> refusal[field]]

\* Before a drive is chosen.
Choosing == {"list", "type", "again"}

\* From the choice of the drive to the eject.
Working == {"guard", "ready", "unmount", "umount", "open", "lock", "held", "eject"}

\* The number on the screen is the rank of the name that was shown, among the
\* names of the list; those are the names of the machine until a drive comes or
\* goes, and a drive is chosen by its rank among the names that there are then.
Numbered ==
  /\ IsFiniteSet(Listed) /\ Listed \subseteq DOMAIN Runs
  /\ \A k \in DOMAIN caller.list : Rank(Listed, caller.list[k].id) = k
  /\ caller.pc \in {"list", "type"} => caller.number = 0
  /\ caller.number # 0 => caller.shown \in Listed /\ Rank(Listed, caller.shown) = caller.number
  /\ ~machine.plugged /\ (At("type") \/ caller.number # 0) => Listed = Names(machine)
  /\ NumberNamesTheDrive
  /\ ~machine.plugged /\ caller.target # None => caller.target = caller.shown
  /\ caller.pc \in Choosing => caller.target = None
  /\ ~machine.plugged /\ caller.pc \in Working => caller.target \in Names(machine)

\* What the rest of the command leaves of the choice.
Chosen ==
  /\ caller'.number = caller.number /\ caller'.shown = caller.shown
  /\ caller'.target = caller.target
  /\ caller'.pc \in Working => caller.pc \in Working
  /\ caller'.pc \in Choosing => caller.pc \in Choosing
  /\ caller'.list = caller.list
  /\ caller'.pc \in {"list", "type"} => caller'.pc = caller.pc

\* What an error leaves of the command.
LEMMA FailIs ==
  ASSUME Shape, NEW why, Fail(why)
  PROVE  /\ caller'.pc = "let_go" /\ ~caller'.handle /\ caller'.locks = {}
         /\ caller'.loop = caller.loop
         /\ caller' = [field \in CallerFields |-> caller'[field]]
         /\ Chosen
  BY DEF Shape, Fail, CallerFields, Chosen, Choosing, Working

\* What the next step leaves of the command.
LEMMA GoIs ==
  ASSUME Shape, NEW pc, Go(pc)
  PROVE  /\ caller'.pc = pc
         /\ \A field \in CallerFields \ {"pc"} : caller'[field] = caller[field]
         /\ caller' = [field \in CallerFields |-> caller'[field]]
  BY DEF Shape, Go, CallerFields

\* A request and its run loop are of the unmount or of the eject, on macOS.
Asking ==
  /\ request # "none" => machine.kind = "macos"
  /\ request \in {"sent", "done", "busy", "refused"} => Asks
  /\ caller.loop => request \in {"sent", "done", "busy", "refused"}

\* The list, Type and ListAgain choose the drive; no other step touches the choice.
LEMMA CallerSteps ==
  ASSUME Shape, Asking, [Next]_vars
  PROVE  List \/ Type \/ ListAgain \/ Chosen
<1> USE DEF At, CallerFields, Choosing, Working, Chosen
<1>1. CASE KeepUnmounted \/ Ready
  BY <1>1, FailIs, GoIs DEF KeepUnmounted, Ready
<1>2. CASE ReadMounts \/ Umount \/ Umounted \/ OpenLinux
  <2>1. CASE \E why : Fail(why)
    BY <2>1, FailIs
  <2>2. CASE ReadMounts
    BY <2>1, <2>2 DEF ReadMounts, Shape
  <2>3. CASE Umount
    BY <2>1, <2>3 DEF Umount, Shape
  <2>4. CASE Umounted
    BY <2>4, GoIs DEF Umounted
  <2>5. CASE OpenLinux
    BY <2>1, <2>5 DEF OpenLinux, Shape
  <2>6. QED
    BY <1>2, <2>2, <2>3, <2>4, <2>5
<1>3. CASE Settle \/ Heard \/ Deadline \/ OpenMacos
  <2>1. CASE \E why : Fail(why)
    BY <2>1, FailIs
  <2>2. CASE Settle
    BY <2>1, <2>2, GoIs DEF Settle, Asks, Shape
  <2>3. ASSUME NEW result, Settled(result), caller.loop PROVE Chosen
    BY <2>3 DEF Settled, Shape, Asking, Asks
  <2>4. CASE Heard \/ Deadline
    BY <2>3, <2>4 DEF Heard, Deadline
  <2>5. CASE OpenMacos
    BY <2>1, <2>5 DEF OpenMacos, Shape
  <2>6. QED
    BY <1>3, <2>2, <2>4, <2>5
<1>4. CASE OpenWindows \/ LockVolume \/ OpenPhysical
  <2>1. CASE \E why : Fail(why)
    BY <2>1, FailIs
  <2>2. CASE OpenWindows
    BY <2>1, <2>2 DEF OpenWindows, Shape
  <2>3. CASE LockVolume
    BY <2>1, <2>3 DEF LockVolume, Shape
  <2>4. CASE OpenPhysical
    BY <2>1, <2>4 DEF OpenPhysical, Shape
  <2>5. QED
    BY <1>4, <2>2, <2>3, <2>4
<1>5. CASE CloseDrive \/ LetGo \/ Join
  <2>1. CASE CloseDrive
    BY <2>1 DEF CloseDrive, Shape
  <2>2. CASE LetGo \/ Join
    BY <2>2, GoIs DEF LetGo, Join
  <2>3. QED
    BY <1>5, <2>1, <2>2
<1>6. CASE Refuser \/ Arbitrate \/ Mount \/ Plug \/ UNCHANGED vars
  BY <1>6 DEF Refuser, Register, Unregister, Arbitrate, Mount, Plug, vars
<1>7. QED
  BY <1>1, <1>2, <1>3, <1>4, <1>5, <1>6 DEF Next, Command

\* A listing numbers by rank, and what comes or goes after a name leaves it its rank.
LEMMA NumberedStep ==
  ASSUME Hardware, Shape, Asking, Numbered, [Next]_vars
  PROVE  Numbered'
<1>2. ASSUME Chosen PROVE Numbered'
  <2>1. Listed' = Listed
    BY <1>2 DEF Chosen, Listed
  <2>2. CASE Names(machine') = Names(machine) /\ machine'.plugged = machine.plugged
    <3>1. Since' = Since
      BY <2>1, <2>2 DEF Since
    <3>2. NumberNamesTheDrive'
      BY <1>2, <3>1 DEF Chosen, Numbered, NumberNamesTheDrive
    <3>3. QED
      BY <1>2, <2>1, <2>2, <3>2 DEF Chosen, Numbered, At
  <2>3. CASE ~machine.plugged /\ machine'.plugged = TRUE
    <3>1. NumberNamesTheDrive'
      BY <1>2, <2>3 DEF Chosen, Numbered, NumberNamesTheDrive
    <3>2. QED
      BY <1>2, <2>1, <2>3, <3>1 DEF Chosen, Numbered, At
  <2>4. QED
    BY <2>2, <2>3, NamesStay
<1>3. CASE List
  <2>1. CASE \E why \in {"Host"} : Fail(why)
    BY <1>2, <2>1, FailIs
  <2>2. CASE \E found \in SetToSeqs(ListOf(machine)) :
               caller' = [caller EXCEPT !.pc = "type", !.list = InListOrder(found)]
    <3>1. PICK found \in SetToSeqs(ListOf(machine)) :
            caller' = [caller EXCEPT !.pc = "type", !.list = InListOrder(found)]
      BY <2>2
    <3> DEFINE list == InListOrder(found)
    <3>2. /\ caller'.list = list /\ caller'.pc = "type"
          /\ caller'.number = caller.number /\ caller'.shown = caller.shown
          /\ caller'.target = caller.target
      BY <3>1 DEF Shape, CallerFields
    <3>3. machine' = machine /\ caller.pc = "list"
      BY <1>3 DEF List, At
    <3>4. /\ DOMAIN list = 1 .. Cardinality(Names(machine))
          /\ \A k \in DOMAIN list : list[k].id \in Names(machine) /\ Rank(Names(machine), list[k].id) = k
      BY ListIsNumbered
    <3> HIDE DEF list
    <3>5. Listed' = Names(machine)
      <4>1. Names(machine) \in SUBSET DOMAIN Runs /\ IsFiniteSet(Names(machine))
        BY DEF Hardware, WellNamed
      <4>2. \A n \in Names(machine) : \E k \in DOMAIN list : list[k].id = n
        BY <3>4, <4>1, EachRankIsOneName
      <4>3. Listed' = {list[i].id : i \in DOMAIN list}
        BY <3>2 DEF Listed
      <4>4. QED
        BY <3>4, <4>2, <4>3
    <3>6. IsFiniteSet(Names(machine)) /\ Names(machine) \subseteq DOMAIN Runs
      BY DEF Hardware, WellNamed
    <3>7. caller.number = 0 /\ caller.target = None
      BY <3>3 DEF Numbered, Choosing
    <3>8. NumberNamesTheDrive'
      BY <3>2, <3>7 DEF NumberNamesTheDrive
    <3>9. QED
      BY <3>2, <3>3, <3>4, <3>5, <3>6, <3>7, <3>8 DEF Numbered, At, Choosing, Working
  <2>3. QED
    BY <1>3, <2>1, <2>2 DEF List
<1>4. CASE Type
  <2>1. PICK i \in {0} \cup DOMAIN caller.list :
          caller' = [caller EXCEPT !.pc = "again", !.number = i,
                                   !.shown = IF i = 0 THEN None ELSE caller.list[i].id]
    BY <1>4 DEF Type
  <2>2. machine' = machine /\ At("type")
    BY <1>4 DEF Type
  <2>3. /\ caller'.pc = "again" /\ caller'.number = i /\ caller'.target = caller.target
        /\ i # 0 => caller'.shown = caller.list[i].id
        /\ caller'.list = caller.list
    BY <2>1 DEF Shape, CallerFields
  <2>4. caller.target = None
    BY <2>2 DEF Numbered, At, Choosing
  <2>5. Listed' = Listed
    BY <2>3 DEF Listed
  <2>6. i # 0 => caller.list[i].id \in Listed /\ Rank(Listed, caller.list[i].id) = i
    BY DEF Numbered, Listed
  <2>7. NumberNamesTheDrive'
    BY <2>3, <2>4 DEF NumberNamesTheDrive
  <2>8. QED
    BY <2>2, <2>3, <2>4, <2>5, <2>6, <2>7 DEF Numbered, At, Choosing, Working
<1>5. CASE ListAgain
  <2>1. CASE \E why \in {"Host", "NoSuchDrive", "Refused"} : Fail(why)
    BY <1>2, <2>1, FailIs
  <2>2. CASE \E found \in SetToSeqs(ListOf(machine)) :
               \E d \in ByIndex(InListOrder(found), caller.number) :
                 caller' = [caller EXCEPT !.pc = "guard", !.target = d.id]
    <3>1. PICK found \in SetToSeqs(ListOf(machine)) :
               \E d \in ByIndex(InListOrder(found), caller.number) :
                 caller' = [caller EXCEPT !.pc = "guard", !.target = d.id]
      BY <2>2
    <3> DEFINE list == InListOrder(found)
               k    == caller.number
    <3>2. k \in DOMAIN list /\ caller' = [caller EXCEPT !.pc = "guard", !.target = list[k].id]
      BY <3>1 DEF ByIndex
    <3>3. /\ k \in 1 .. Cardinality(Names(machine))
          /\ list[k].id \in Names(machine) /\ Rank(Names(machine), list[k].id) = k
      BY <3>2, ListIsNumbered
    <3> HIDE DEF list
    <3>4. /\ caller'.pc = "guard" /\ caller'.target = list[k].id
          /\ caller'.number = k /\ caller'.shown = caller.shown /\ caller'.list = caller.list
      BY <3>2 DEF Shape, CallerFields
    <3>5. k # 0
      BY <3>3
    <3>6. caller.shown \in Listed /\ Rank(Listed, caller.shown) = k
      BY <3>5 DEF Numbered
    <3>7. ASSUME \A n \in Since : GivenBefore(caller.shown, n)
          PROVE  list[k].id = caller.shown
      <4>1. /\ Listed \in SUBSET DOMAIN Runs /\ Names(machine) \in SUBSET DOMAIN Runs
            /\ IsFiniteSet(Names(machine))
        BY DEF Numbered, Hardware, WellNamed
      <4>2. \A n \in Since : NaturalCmp(caller.shown, n) < 0
        BY <3>6, <3>7, <4>1, GivenComesBefore DEF Since
      <4>3. caller.shown \in Names(machine) /\ Rank(Names(machine), caller.shown) = k
        BY <3>6, <4>1, <4>2, NamesAfterKeepTheRank DEF Since
      <4>4. QED
        BY <3>3, <4>1, <4>3, EachRankIsOneName
    <3>8. ~machine.plugged => list[k].id = caller.shown
      <4>1. ~machine.plugged => Listed = Names(machine)
        BY <3>5 DEF Numbered
      <4>2. ~machine.plugged => Since = {}
        BY <4>1 DEF Since
      <4>3. QED
        BY <3>7, <4>2
    <3>9. machine' = machine /\ caller.pc = "again"
      BY <1>5 DEF ListAgain, At
    <3>10. Listed' = Listed /\ Since' = Since
      BY <3>4, <3>9 DEF Listed, Since
    <3>11. NumberNamesTheDrive'
      BY <3>4, <3>7, <3>10 DEF NumberNamesTheDrive
    <3>12. QED
      BY <3>3, <3>4, <3>8, <3>9, <3>10, <3>11 DEF Numbered, At, Choosing, Working
  <2>3. QED
    BY <1>5, <2>1, <2>2 DEF ListAgain
<1>6. QED
  BY <1>2, <1>3, <1>4, <1>5, CallerSteps

-----------------------------------------------------------------------------
(* Nothing is mounted meanwhile                                            *)

\* Where the command is, and what that tells of the host, of the lock and of the
\* thread that refuses mounts.
Guarded ==
  /\ At("umount") => machine.kind = "linux"
  /\ At("ready") \/ At("eject") => machine.kind = "macos"
  /\ At("lock") => machine.kind = "windows"
  /\ At("open") => machine.kind \in {"linux", "macos"}
  /\ caller.handle <=> At("held")
  /\ caller.pc \notin {"lock", "held"} => caller.locks = {}
  /\ refusal.stop => At("join") \/ At("done")
  /\ caller.pc \in Choosing \cup {"guard"} => refusal.pc = "none" /\ refusal.answer = "none"
  /\ refusal.answer = "ok" /\ ~refusal.stop => refusal.pc = "serving"
  /\ machine.kind = "macos" /\ caller.pc \in {"unmount", "open", "held", "eject"} =>
       refusal.answer = "ok"

\* Nothing of the drive is mounted where the host can name it.
Freed ==
  /\ machine.kind = "linux" /\ At("held") => MountedOn(machine, caller.target) = {}
  /\ machine.kind = "macos" /\ (\/ caller.pc \in {"open", "held", "eject"}
                                \/ At("unmount") /\ request = "done") =>
       MountedOn(machine, caller.target) = {}
  /\ machine.kind = "windows" /\ caller.pc \in {"lock", "held"} =>
       /\ VolumesOnDisk(machine, caller.target) \subseteq caller.left \cup caller.locks
       /\ caller.locks \cap Mounted(machine) = {}
       /\ At("held") => caller.left = {}

\* No step makes another host of the machine.
LEMMA KindStays ==
  ASSUME Hardware, [Next]_vars
  PROVE  machine'.kind = machine.kind
<1>1. CASE Remounted
  BY <1>1, MountingIs DEF Remounted, Hardware
<1>2. CASE Connects
  BY <1>2, PluggedIs DEF Connects, Hardware
<1>3. QED
  BY <1>1, <1>2, MachineSteps

\* On Linux a drive that is chosen has its own name.
LEMMA LinuxNames ==
  ASSUME NEW m, m.kind = "linux"
  PROVE  Names(m) \subseteq DOMAIN m.disks
  BY ListIsOfUnits DEF Names, Units, NameOf

\* A volume lies on the same drives whatever is mounted.
LEMMA MountingKeepsTheCarriers ==
  ASSUME NEW m, Sound(m), NEW S
  PROVE  /\ \A v : Carriers(Mounting(m, S), v) = Carriers(m, v)
         /\ \A drive : MountedOn(Mounting(m, S), drive) = {v \in S : drive \in Carriers(m, v)}
         /\ m.kind = "windows" =>
              \A drive : VolumesOnDisk(Mounting(m, S), drive) = VolumesOnDisk(m, drive)
<1> DEFINE x == Mounting(m, S)
<1>1. /\ x.kind = m.kind /\ Mounted(x) = S
      /\ m.kind = "linux" => x.disks = m.disks /\ Devices(x) = Devices(m)
      /\ m.kind # "linux" => x.volumes = m.volumes
  BY MountingIs
<1> HIDE DEF x
<1>2. \A v : Carriers(x, v) = Carriers(m, v)
  <2>1. CASE m.kind = "linux"
    BY <1>1, <2>1 DEF Carriers
  <2>2. CASE m.kind = "macos"
    BY <1>1, <2>2 DEF Carriers
  <2>3. CASE m.kind = "windows"
    BY <1>1, <2>3 DEF Carriers
  <2>4. QED
    BY <2>1, <2>2, <2>3 DEF Sound
<1>3. \A drive : MountedOn(x, drive) = {v \in S : drive \in Carriers(m, v)}
  BY <1>1, <1>2 DEF MountedOn
<1>4. m.kind = "windows" => \A drive : VolumesOnDisk(x, drive) = VolumesOnDisk(m, drive)
  BY <1>1 DEF VolumesOnDisk, Extents
<1>5. QED
  BY <1>2, <1>3, <1>4 DEF x

\* A drive that was there carries no more volumes after another came or went,
\* or when it went itself.
LEMMA PluggedMountsNothing ==
  ASSUME NEW m, Sound(m), NEW drive \in Names(m)
  PROVE  /\ MountedOn(Plugged(m), drive) \subseteq MountedOn(m, drive)
         /\ m.kind = "windows" => VolumesOnDisk(Plugged(m), drive) = VolumesOnDisk(m, drive)
<1> DEFINE x == Plugged(m)
<1>1. /\ x.kind = m.kind /\ Mounted(x) = Mounted(m)
      /\ m.kind = "linux" => Devices(x) = Devices(m)
      /\ m.kind # "linux" => x.volumes = m.volumes
  BY PluggedIs
<1> HIDE DEF x
<1>3. \A v : drive \in Carriers(x, v) => drive \in Carriers(m, v)
  <2>1. CASE m.kind = "linux"
    <3>1. drive \in DOMAIN m.disks
      BY <2>1, LinuxNames
    <3>2. QED
      BY <1>1, <2>1, <3>1 DEF Carriers
  <2>2. CASE m.kind = "macos"
    BY <1>1, <2>2 DEF Carriers
  <2>3. CASE m.kind = "windows"
    BY <1>1, <2>3 DEF Carriers
  <2>4. QED
    BY <2>1, <2>2, <2>3 DEF Sound
<1>4. MountedOn(x, drive) \subseteq MountedOn(m, drive)
  BY <1>1, <1>3 DEF MountedOn
<1>5. m.kind = "windows" => VolumesOnDisk(x, drive) = VolumesOnDisk(m, drive)
  BY <1>1 DEF VolumesOnDisk, Extents
<1>6. QED
  BY <1>4, <1>5 DEF x

\* What each step of the command leaves of the caller, field by field.
Steps(pc, left, locks, handle, loop) ==
  /\ caller' = [field \in CallerFields |-> caller'[field]]
  /\ caller'.pc = pc /\ caller'.left = left /\ caller'.locks = locks
  /\ caller'.handle = handle /\ caller'.loop = loop

Fails == \E left : Steps("let_go", left, {}, FALSE, caller.loop)

Goes(pc) == Steps(pc, caller.left, caller.locks, caller.handle, caller.loop)

\* An error drops the locks and the handle.
LEMMA FailSteps ==
  ASSUME Shape, NEW why, Fail(why)
  PROVE  Fails
  BY DEF Shape, Fail, Fails, Steps, CallerFields

\* Going on changes the place alone.
LEMMA GoSteps ==
  ASSUME Shape, NEW pc, Go(pc)
  PROVE  Goes(pc)
  BY DEF Shape, Go, Goes, Steps, CallerFields

\* The places and locks after each step that chooses the drive.
LEMMA ChoosingSteps ==
  ASSUME Shape
  PROVE  /\ List => Fails \/ Goes("type")
         /\ Type => Goes("again")
         /\ ListAgain => Fails \/ Goes("guard")
<1>1. List => Fails \/ Goes("type")
  <2>1. ASSUME NEW list, caller' = [caller EXCEPT !.pc = "type", !.list = list]
        PROVE  Goes("type")
    BY <2>1 DEF Shape, Goes, Steps, CallerFields
  <2>2. QED
    BY <2>1, FailSteps DEF List
<1>2. Type => Goes("again")
  <2>1. ASSUME NEW i, NEW shown,
               caller' = [caller EXCEPT !.pc = "again", !.number = i, !.shown = shown]
        PROVE  Goes("again")
    BY <2>1 DEF Shape, Goes, Steps, CallerFields
  <2>2. QED
    BY <2>1 DEF Type
<1>3. ListAgain => Fails \/ Goes("guard")
  <2>1. ASSUME NEW id, caller' = [caller EXCEPT !.pc = "guard", !.target = id]
        PROVE  Goes("guard")
    BY <2>1 DEF Shape, Goes, Steps, CallerFields
  <2>2. QED
    BY <2>1, FailSteps DEF ListAgain
<1>4. QED
  BY <1>1, <1>2, <1>3

\* The places and locks after each step that gains the handle.
LEMMA OpeningSteps ==
  ASSUME Shape
  PROVE  /\ ReadMounts => Fails \/ \E left : Steps("umount", left, caller.locks, caller.handle, caller.loop)
         /\ Umount => Fails \/ \E left : Steps("umount", left, caller.locks, caller.handle, caller.loop)
         /\ OpenLinux => \/ Fails
                        \/ /\ MountedOn(machine, caller.target) = {}
                           /\ Steps("held", caller.left, caller.locks, TRUE, caller.loop)
         /\ OpenMacos => Fails \/ Steps("held", caller.left, caller.locks, TRUE, caller.loop)
         /\ OpenWindows => \/ Fails
                          \/ Steps("lock", VolumesOnDisk(machine, caller.target), caller.locks,
                                   caller.handle, caller.loop)
         /\ LockVolume => \/ Fails /\ UNCHANGED machine
                         \/ \E v \in caller.left :
                              /\ machine' = Without(machine, {v})
                              /\ Steps("lock", caller.left \ {v}, caller.locks \cup {v},
                                       caller.handle, caller.loop)
         /\ OpenPhysical => Fails \/ Steps("held", caller.left, caller.locks, TRUE, caller.loop)
         /\ CloseDrive => \E pc \in {"eject", "let_go"} :
              /\ pc = "eject" => machine.kind = "macos"
              /\ Steps(pc, caller.left, {}, FALSE, caller.loop)
<1> USE DEF Shape, Steps, CallerFields
<1>1. ReadMounts => Fails \/ \E left : Steps("umount", left, caller.locks, caller.handle, caller.loop)
  BY FailSteps DEF ReadMounts
<1>2. Umount => Fails \/ \E left : Steps("umount", left, caller.locks, caller.handle, caller.loop)
  <2>1. ASSUME NEW p, At("umount"), caller' = [caller EXCEPT !.left = @ \ {p}]
        PROVE  Steps("umount", caller.left \ {p}, caller.locks, caller.handle, caller.loop)
    BY <2>1 DEF At
  <2> HIDE DEF Steps
  <2>2. QED
    BY <2>1, FailSteps DEF Umount
<1>3. OpenLinux => \/ Fails
                   \/ /\ MountedOn(machine, caller.target) = {}
                      /\ Steps("held", caller.left, caller.locks, TRUE, caller.loop)
  BY FailSteps DEF OpenLinux
<1>4. OpenMacos => Fails \/ Steps("held", caller.left, caller.locks, TRUE, caller.loop)
  BY FailSteps DEF OpenMacos
<1>5. OpenWindows => \/ Fails
                     \/ Steps("lock", VolumesOnDisk(machine, caller.target), caller.locks,
                              caller.handle, caller.loop)
  BY FailSteps DEF OpenWindows
<1>6. LockVolume => \/ Fails /\ UNCHANGED machine
                    \/ \E v \in caller.left :
                         /\ machine' = Without(machine, {v})
                         /\ Steps("lock", caller.left \ {v}, caller.locks \cup {v},
                                  caller.handle, caller.loop)
  <2>1. ASSUME NEW v, At("lock"),
               caller' = [caller EXCEPT !.left = @ \ {v}, !.locks = @ \cup {v}]
        PROVE  Steps("lock", caller.left \ {v}, caller.locks \cup {v}, caller.handle, caller.loop)
    BY <2>1 DEF At
  <2> HIDE DEF Steps
  <2>2. QED
    BY <2>1, FailSteps DEF LockVolume
<1>7. OpenPhysical => Fails \/ Steps("held", caller.left, caller.locks, TRUE, caller.loop)
  BY FailSteps DEF OpenPhysical
<1>8. CloseDrive => \E pc \in {"eject", "let_go"} :
              /\ pc = "eject" => machine.kind = "macos"
              /\ Steps(pc, caller.left, {}, FALSE, caller.loop)
  <2>1. ASSUME NEW pc, caller' = [caller EXCEPT !.pc = pc, !.handle = FALSE, !.locks = {}]
        PROVE  Steps(pc, caller.left, {}, FALSE, caller.loop)
    BY <2>1
  <2> HIDE DEF Steps
  <2>2. QED
    BY <2>1 DEF CloseDrive
<1>9. QED
  BY <1>1, <1>2, <1>3, <1>4, <1>5, <1>6, <1>7, <1>8

\* The places after a request to Disk Arbitration.
LEMMA SettlingSteps ==
  ASSUME Shape, Asking
  PROVE  /\ Settle => \/ /\ request' = "sent"
                         /\ Steps(caller.pc, caller.left, caller.locks, caller.handle, TRUE)
                      \/ UNCHANGED request /\ (Fails \/ Goes("let_go"))
         /\ Heard => \/ Steps("let_go", caller.left, caller.locks, caller.handle, FALSE)
                     \/ /\ At("unmount") /\ request = "done"
                        /\ Steps("open", caller.left, caller.locks, caller.handle, FALSE)
         /\ Deadline => Steps("let_go", caller.left, caller.locks, caller.handle, FALSE)
<1> USE DEF Shape, CallerFields
<1>1. Settle => \/ /\ request' = "sent"
                   /\ Steps(caller.pc, caller.left, caller.locks, caller.handle, TRUE)
                \/ UNCHANGED request /\ (Fails \/ Goes("let_go"))
  <2>1. ASSUME caller' = [caller EXCEPT !.loop = TRUE]
        PROVE  Steps(caller.pc, caller.left, caller.locks, caller.handle, TRUE)
    BY <2>1 DEF Steps
  <2>2. QED
    BY <2>1, FailSteps, GoSteps DEF Settle
<1>2. ASSUME NEW result, Settled(result)
      PROVE  \/ Steps("let_go", caller.left, caller.locks, caller.handle, FALSE)
             \/ /\ At("unmount") /\ result = "Ok"
                /\ Steps("open", caller.left, caller.locks, caller.handle, FALSE)
  BY <1>2 DEF Settled, Steps
<1>3. \A answer \in {"done", "busy", "refused"} : Said(answer) = "Ok" => answer = "done"
  BY DEF Said
<1> HIDE DEF Shape, CallerFields
<1>4. Heard => \/ Steps("let_go", caller.left, caller.locks, caller.handle, FALSE)
               \/ /\ At("unmount") /\ request = "done"
                  /\ Steps("open", caller.left, caller.locks, caller.handle, FALSE)
  <2>1. Heard => Settled(Said(request)) /\ request \in {"done", "busy", "refused"}
    BY DEF Heard
  <2>2. QED
    BY <2>1, <1>2, <1>3
<1>5. Deadline => Steps("let_go", caller.left, caller.locks, caller.handle, FALSE)
  <2>1. Deadline => Settled("Host")
    BY DEF Deadline
  <2>2. "Host" # "Ok"
    OBVIOUS
  <2>3. QED
    BY <2>1, <2>2, <1>2
<1>6. QED
  BY <1>1, <1>4, <1>5

\* No step takes a field from the command or from the thread.
LEMMA ShapeStep ==
  ASSUME Shape, Asking, [Next]_vars
  PROVE  Shape'
<1>1. caller' = [field \in CallerFields |-> caller'[field]]
  <2>1. CASE List \/ Type \/ ListAgain
    BY <2>1, ChoosingSteps DEF Fails, Goes, Steps
  <2>2. CASE \/ ReadMounts \/ Umount \/ OpenLinux \/ OpenMacos
             \/ OpenWindows \/ LockVolume \/ OpenPhysical \/ CloseDrive
    BY <2>2, OpeningSteps DEF Fails, Steps
  <2>3. CASE Settle \/ Heard \/ Deadline
    BY <2>3, SettlingSteps DEF Fails, Goes, Steps
  <2>4. CASE KeepUnmounted \/ Ready \/ Umounted \/ LetGo \/ Join
    BY <2>4, FailSteps, GoSteps DEF KeepUnmounted, Ready, Umounted, LetGo, Join, Fails, Goes, Steps
  <2>5. CASE Refuser \/ Arbitrate \/ Mount \/ Plug \/ UNCHANGED vars
    BY <2>5 DEF Refuser, Register, Unregister, Arbitrate, Mount, Plug, vars, Shape
  <2>6. QED
    BY <2>1, <2>2, <2>3, <2>4, <2>5 DEF Next, Command
<1>2. refusal' = [field \in {"pc", "stop", "answer"} |-> refusal'[field]]
  <2>1. CASE KeepUnmounted \/ LetGo \/ Refuser
    BY <2>1 DEF KeepUnmounted, LetGo, Refuser, Register, Unregister, Shape
  <2>2. CASE UNCHANGED refusal
    BY <2>2 DEF Shape
  <2>3. QED
    BY <2>1, <2>2 DEF Next, Command, List, Type, ListAgain, Ready, ReadMounts, Umount, Umounted,
       OpenLinux, Settle, Heard, Deadline, OpenMacos, OpenWindows, LockVolume, OpenPhysical,
       CloseDrive, Join, Arbitrate, Mount, Plug, vars
<1>3. QED
  BY <1>1, <1>2 DEF Shape

\* A request is sent, waits and is heard at one place of the command.
LEMMA AskingStep ==
  ASSUME Hardware, Shape, Asking, [Next]_vars
  PROVE  Asking'
<1> USE DEF Asking, Asks, At
<1>1. machine'.kind = machine.kind
  BY KindStays
<1>2. CASE List \/ Type \/ ListAgain
  BY <1>1, <1>2, ChoosingSteps DEF List, Type, ListAgain, Fails, Goes, Steps
<1>3. CASE \/ ReadMounts \/ Umount \/ OpenLinux \/ OpenMacos
           \/ OpenWindows \/ LockVolume \/ OpenPhysical \/ CloseDrive
  <2>1. ~caller.loop /\ request \notin {"sent", "done", "busy", "refused"} /\ UNCHANGED request
    BY <1>3 DEF ReadMounts, Umount, OpenLinux, OpenMacos, OpenWindows, LockVolume, OpenPhysical,
       CloseDrive
  <2>2. ~caller'.loop
    BY <1>3, <2>1, OpeningSteps DEF Fails, Steps
  <2>3. QED
    BY <1>1, <2>1, <2>2
<1>4. CASE Settle
  <2>1. Asks /\ request = "none"
    BY <1>4 DEF Settle
  <2>2. \/ request' = "sent" /\ caller'.pc = caller.pc
        \/ request' = "none" /\ caller'.loop = caller.loop /\ caller'.pc = "let_go"
    BY <1>4, <2>1, SettlingSteps DEF Fails, Goes, Steps
  <2>3. QED
    BY <1>1, <2>1, <2>2
<1>5. CASE Heard \/ Deadline
  BY <1>1, <1>5, SettlingSteps DEF Heard, Deadline, Steps
<1>6. CASE KeepUnmounted \/ Ready \/ Umounted \/ LetGo \/ Join
  BY <1>1, <1>6, FailSteps, GoSteps DEF KeepUnmounted, Ready, Umounted, LetGo, Join, Fails, Goes, Steps
<1>7. CASE Arbitrate
  BY <1>1, <1>7 DEF Arbitrate
<1>8. CASE Refuser \/ Mount \/ Plug \/ UNCHANGED vars
  BY <1>1, <1>8 DEF Refuser, Register, Unregister, Mount, Plug, vars
<1>9. QED
  BY <1>2, <1>3, <1>4, <1>5, <1>6, <1>7, <1>8 DEF Next, Command

\* Each step keeps the locks, the handle and the thread where the place says.
LEMMA GuardedStep ==
  ASSUME Hardware, Shape, Asking, Guarded, [Next]_vars
  PROVE  Guarded'
<1> USE DEF Guarded, At, Choosing
<1>1. machine'.kind = machine.kind /\ machine.kind \in {"linux", "macos", "windows"}
  BY KindStays DEF Hardware, Sound
<1>2. ASSUME Fails, UNCHANGED refusal, caller.pc \notin {"let_go", "join", "done"}
      PROVE  Guarded'
  BY <1>1, <1>2 DEF Fails, Steps
<1>3. CASE List \/ Type \/ ListAgain
  <2>1. UNCHANGED refusal /\ caller.pc \in Choosing
    BY <1>3 DEF List, Type, ListAgain
  <2>2. CASE Goes("type") \/ Goes("again") \/ Goes("guard")
    BY <1>1, <2>1, <2>2 DEF Goes, Steps
  <2>3. QED
    BY <1>2, <1>3, <2>1, <2>2, ChoosingSteps
<1>4. CASE KeepUnmounted
  <2>1. At("guard") /\ Go(IF machine.kind = "macos" THEN "ready" ELSE "unmount")
        /\ \/ machine.kind = "macos" /\ refusal' = [refusal EXCEPT !.pc = "new"]
           \/ machine.kind # "macos" /\ UNCHANGED refusal
    BY <1>4 DEF KeepUnmounted
  <2>2. refusal'.stop = refusal.stop /\ refusal'.answer = refusal.answer
    BY <2>1 DEF Shape
  <2>3. Goes(IF machine.kind = "macos" THEN "ready" ELSE "unmount")
    BY <2>1, GoSteps
  <2>4. QED
    BY <1>1, <2>1, <2>2, <2>3 DEF Goes, Steps
<1>5. CASE Ready
  <2>1. CASE refusal.answer = "ok" /\ Go("unmount")
    BY <1>1, <1>5, <2>1, GoSteps DEF Ready, Goes, Steps
  <2>2. QED
    BY <1>2, <1>5, <2>1, FailSteps DEF Ready
<1>6. CASE ReadMounts \/ Umount
  <2>1. UNCHANGED refusal /\ machine.kind = "linux" /\ caller.pc \in {"unmount", "umount"}
    BY <1>6 DEF ReadMounts, Umount
  <2>2. CASE \E left : Steps("umount", left, caller.locks, caller.handle, caller.loop)
    BY <1>1, <2>1, <2>2 DEF Steps
  <2>3. QED
    BY <1>2, <1>6, <2>1, <2>2, OpeningSteps
<1>7. CASE Umounted
  BY <1>1, <1>7, GoSteps DEF Umounted, Goes, Steps
<1>8. CASE OpenLinux \/ OpenMacos \/ OpenPhysical
  <2>1. UNCHANGED refusal /\ caller.pc \in {"open", "lock"}
    BY <1>8 DEF OpenLinux, OpenMacos, OpenPhysical
  <2>2. CASE Steps("held", caller.left, caller.locks, TRUE, caller.loop)
    BY <1>1, <2>1, <2>2 DEF Steps
  <2>3. QED
    BY <1>2, <1>8, <2>1, <2>2, OpeningSteps
<1>9. CASE Settle
  <2>1. Asks /\ UNCHANGED refusal
    BY <1>9 DEF Settle
  <2>2. CASE Steps(caller.pc, caller.left, caller.locks, caller.handle, TRUE)
    BY <1>1, <2>1, <2>2 DEF Steps
  <2>3. CASE Goes("let_go")
    BY <1>1, <2>1, <2>3 DEF Goes, Steps, Asks
  <2>4. QED
    BY <1>2, <1>9, <2>1, <2>2, <2>3, SettlingSteps DEF Asks
<1>10. CASE Heard \/ Deadline
  <2>1. Asks /\ UNCHANGED refusal
    BY <1>10 DEF Heard, Deadline, Asking
  <2>2. CASE Steps("let_go", caller.left, caller.locks, caller.handle, FALSE)
    BY <1>1, <2>1, <2>2 DEF Steps, Asks
  <2>3. CASE At("unmount") /\ Steps("open", caller.left, caller.locks, caller.handle, FALSE)
    BY <1>1, <2>1, <2>3 DEF Steps, Asks
  <2>4. QED
    BY <1>10, <2>2, <2>3, SettlingSteps
<1>11. CASE OpenWindows \/ LockVolume
  <2>1. UNCHANGED refusal /\ machine.kind = "windows" /\ caller.pc \in {"unmount", "lock"}
    BY <1>11 DEF OpenWindows, LockVolume
  <2>2. CASE \E left, locks : Steps("lock", left, locks, caller.handle, caller.loop)
    BY <1>1, <2>1, <2>2 DEF Steps
  <2>3. QED
    BY <1>2, <1>11, <2>1, <2>2, OpeningSteps
<1>12. CASE CloseDrive
  <2>1. UNCHANGED refusal /\ At("held")
    BY <1>12 DEF CloseDrive
  <2>2. PICK pc \in {"eject", "let_go"} : /\ pc = "eject" => machine.kind = "macos"
                                         /\ Steps(pc, caller.left, {}, FALSE, caller.loop)
    BY <1>12, OpeningSteps
  <2>3. QED
    BY <1>1, <2>1, <2>2 DEF Steps
<1>13. CASE LetGo
  <2>1. At("let_go") /\ Goes("join") /\ refusal' = [refusal EXCEPT !.stop = TRUE]
    BY <1>13, GoSteps DEF LetGo
  <2>2. refusal'.stop = TRUE /\ refusal'.answer = refusal.answer
    BY <2>1 DEF Shape
  <2>3. caller'.pc = "join" /\ caller'.locks = {} /\ (caller'.handle <=> caller'.pc = "held")
    BY <2>1 DEF Goes, Steps
  <2>4. refusal'.stop
    BY <2>2
  <2>5. QED
    BY <1>1, <2>3, <2>4
<1>14. CASE Join
  BY <1>1, <1>14, GoSteps DEF Join, Goes, Steps
<1>15. CASE Register
  <2>1. /\ refusal.pc = "new" /\ UNCHANGED caller
        /\ \/ refusal'.pc = "serving" /\ refusal'.answer = "ok"
           \/ refusal'.answer = "failed"
        /\ refusal'.stop = refusal.stop
    BY <1>15 DEF Register, Shape
  <2>2. QED
    BY <1>1, <2>1
<1>16. CASE Unregister
  <2>1. /\ refusal.stop /\ UNCHANGED caller
        /\ refusal'.answer = refusal.answer /\ refusal'.stop = refusal.stop
    BY <1>16 DEF Unregister, Shape
  <2>2. QED
    BY <1>1, <2>1
<1>17. CASE Arbitrate \/ Mount \/ Plug \/ UNCHANGED vars
  BY <1>1, <1>17 DEF Arbitrate, Mount, Plug, vars
<1>18. QED
  BY <1>3, <1>4, <1>5, <1>6, <1>7, <1>8, <1>9, <1>10, <1>11, <1>12, <1>13, <1>14, <1>15, <1>16, <1>17
     DEF Next, Command, Refuser

\* Where the command and the request stay as they are, a mount that the host
\* allows, or a drive that comes or goes, leaves the drive of the command free.
LEMMA FreedBesides ==
  ASSUME Hardware, Shape, Numbered, Guarded, Freed, Mount \/ Plug
  PROVE  Freed'
<1> DEFINE drive == caller.target
<1>1. UNCHANGED <<caller, request>>
  BY DEF Mount, Plug
<1>2. Sound(machine)
  BY DEF Hardware
<1>3. CASE Mount
  <2>1. PICK v \in machine.spare \ Mounted(machine) :
          /\ CASE machine.kind = "linux"   -> ~(caller.handle /\ drive \in Carriers(machine, v))
               [] machine.kind = "macos"   -> ~Refuses(v)
               [] machine.kind = "windows" -> v \notin caller.locks
          /\ machine' = Mounting(machine, Mounted(machine) \cup {v})
    BY <1>3 DEF Mount, With
  <2>2. machine'.kind = machine.kind /\ Mounted(machine') = Mounted(machine) \cup {v}
    BY <1>2, <2>1, MountingIs
  <2>3. /\ MountedOn(machine', drive) =
             {w \in Mounted(machine) \cup {v} : drive \in Carriers(machine, w)}
        /\ machine.kind = "windows" =>
             VolumesOnDisk(machine', drive) = VolumesOnDisk(machine, drive)
    BY <1>2, <2>1, MountingKeepsTheCarriers
  <2>4. drive \notin Carriers(machine, v) => MountedOn(machine', drive) = MountedOn(machine, drive)
    BY <2>3 DEF MountedOn
  <2>5. CASE machine.kind = "linux"
    <3>1. caller.pc = "held" => drive \notin Carriers(machine, v)
      <4>1. caller.pc = "held" => caller.handle
        BY DEF Guarded, At
      <4>2. ~(caller.handle /\ drive \in Carriers(machine, v))
        BY <2>1, <2>5
      <4>3. QED
        BY <4>1, <4>2
    <3>2. QED
      BY <1>1, <2>2, <2>4, <2>5, <3>1 DEF Freed, At
  <2>6. CASE machine.kind = "macos"
    <3>1. caller.pc \in {"unmount", "open", "held", "eject"} => drive \notin Carriers(machine, v)
      BY <2>1, <2>6 DEF Refuses, Guarded, At
    <3>2. QED
      BY <1>1, <2>2, <2>4, <2>6, <3>1 DEF Freed, At
  <2>7. CASE machine.kind = "windows"
    <3>1. v \notin caller.locks
      BY <2>1, <2>7
    <3>2. QED
      BY <1>1, <2>2, <2>3, <2>7, <3>1 DEF Freed, At
  <2>8. QED
    BY <1>2, <2>5, <2>6, <2>7 DEF Sound
<1>4. CASE Plug
  <2>1. ~machine.plugged /\ machine' = Plugged(machine)
    BY <1>4 DEF Plug
  <2>2. machine'.kind = machine.kind /\ Mounted(machine') = Mounted(machine)
    BY <1>2, <2>1, PluggedIs
  <2>3. caller.pc \in Working =>
          /\ MountedOn(machine', drive) \subseteq MountedOn(machine, drive)
          /\ machine.kind = "windows" =>
               VolumesOnDisk(machine', drive) = VolumesOnDisk(machine, drive)
    BY <1>2, <2>1, PluggedMountsNothing DEF Numbered
  <2>4. QED
    BY <1>1, <2>2, <2>3 DEF Freed, At, Working
<1>5. QED
  BY <1>3, <1>4

\* An unmount that Disk Arbitration did leaves nothing of the drive mounted.
LEMMA FreedByArbitration ==
  ASSUME Hardware, Asking, Freed, Arbitrate
  PROVE  Freed'
<1> DEFINE drive == caller.target
           volumes == MountedOn(machine, drive)
<1>1. PICK answer \in {"done", "busy", "refused"} :
        /\ request' = IF request = "sent" THEN answer ELSE "over"
        /\ machine' = IF answer = "done" THEN Without(machine, volumes) ELSE machine
  BY DEF Arbitrate
<1>2. machine.kind = "macos" /\ UNCHANGED caller /\ Sound(machine)
  BY DEF Arbitrate, Asking, Hardware
<1>3. CASE answer = "done"
  <2>1. machine' = Mounting(machine, Mounted(machine) \ volumes)
    BY <1>1, <1>3 DEF Without
  <2>2. /\ machine'.kind = "macos"
        /\ MountedOn(machine', drive) =
             {v \in Mounted(machine) \ volumes : drive \in Carriers(machine, v)}
    BY <1>2, <2>1, MountingIs, MountingKeepsTheCarriers
  <2>3. MountedOn(machine', drive) = {}
    BY <2>2 DEF MountedOn
  <2>4. QED
    BY <1>2, <2>2, <2>3 DEF Freed
<1>4. CASE answer # "done"
  <2>1. machine' = machine /\ request' # "done"
    BY <1>1, <1>4
  <2>2. QED
    BY <1>2, <2>1 DEF Freed, At
<1>5. QED
  BY <1>3, <1>4

\* A volume of Windows is unmounted under its lock, and the lock keeps it so.
LEMMA FreedByLocks ==
  ASSUME Hardware, Shape, Asking, Guarded, Freed, LockVolume, ~Fails
  PROVE  Freed'
<1>1. PICK v \in caller.left :
        /\ machine' = Mounting(machine, Mounted(machine) \ {v})
        /\ Steps("lock", caller.left \ {v}, caller.locks \cup {v}, caller.handle, caller.loop)
  BY OpeningSteps DEF Without
<1>2. machine.kind = "windows" /\ At("lock") /\ Sound(machine)
  BY DEF LockVolume, Guarded, Hardware
<1>3. caller'.target = caller.target
  <2>1. CASE \E why : Fail(why)
    BY <2>1, FailSteps
  <2>2. QED
    BY <2>1 DEF LockVolume, Shape, CallerFields
<1>4. /\ machine'.kind = "windows" /\ Mounted(machine') = Mounted(machine) \ {v}
      /\ VolumesOnDisk(machine', caller'.target) = VolumesOnDisk(machine, caller.target)
  BY <1>1, <1>2, <1>3, MountingIs, MountingKeepsTheCarriers
<1>5. /\ caller'.pc = "lock" /\ caller'.left = caller.left \ {v}
      /\ caller'.locks = caller.locks \cup {v}
  BY <1>1 DEF Steps
<1>6. /\ VolumesOnDisk(machine, caller.target) \subseteq caller.left \cup caller.locks
      /\ caller.locks \cap Mounted(machine) = {}
  BY <1>2 DEF Freed, At
<1>7. /\ VolumesOnDisk(machine', caller'.target) \subseteq caller'.left \cup caller'.locks
      /\ caller'.locks \cap Mounted(machine') = {}
  BY <1>4, <1>5, <1>6
<1>8. QED
  BY <1>4, <1>5, <1>7 DEF Freed, At

\* Each step that opens the drive finds it free, and no mount takes it back.
LEMMA FreedStep ==
  ASSUME Hardware, Shape, Asking, Numbered, Guarded, Freed, [Next]_vars
  PROVE  Freed'
<1> DEFINE Calm == {"unmount", "open", "held", "eject", "lock"}
<1>1. machine'.kind = machine.kind /\ machine.kind \in {"linux", "macos", "windows"}
  BY KindStays DEF Hardware, Sound
<1>2. ASSUME caller'.pc \notin Calm PROVE Freed'
  BY <1>2 DEF Freed, At
<1>3. ASSUME Fails PROVE Freed'
  BY <1>2, <1>3 DEF Fails, Steps
<1>4. CASE List \/ Type \/ ListAgain
  <2>1. CASE Goes("type") \/ Goes("again") \/ Goes("guard")
    BY <1>2, <2>1 DEF Goes, Steps
  <2>2. QED
    BY <1>3, <1>4, <2>1, ChoosingSteps
<1>5. ASSUME Chosen PROVE caller'.target = caller.target
  BY <1>5 DEF Chosen
<1>6. CASE KeepUnmounted
  <2>1. Goes(IF machine.kind = "macos" THEN "ready" ELSE "unmount")
    BY <1>6, GoSteps DEF KeepUnmounted
  <2>2. caller'.pc = "ready" \/ (caller'.pc = "unmount" /\ machine.kind # "macos")
    BY <2>1 DEF Goes, Steps
  <2>3. QED
    BY <1>1, <2>2 DEF Freed, At
<1>7. CASE Ready
  <2>1. CASE Goes("unmount")
    <3>1. request' # "done"
      BY <1>7 DEF Ready, Asking, Asks, At
    <3>2. caller'.pc = "unmount"
      BY <2>1 DEF Goes, Steps
    <3>3. QED
      BY <3>1, <3>2 DEF Freed, At
  <2>2. QED
    BY <1>3, <1>7, <2>1, FailSteps, GoSteps DEF Ready
<1>8. CASE ReadMounts \/ Umount
  <2>1. CASE \E left : Steps("umount", left, caller.locks, caller.handle, caller.loop)
    BY <1>2, <2>1 DEF Steps
  <2>2. QED
    BY <1>3, <1>8, <2>1, OpeningSteps
<1>9. CASE Umounted
  <2>1. machine.kind = "linux" /\ Goes("open")
    BY <1>9, GoSteps DEF Umounted, Guarded
  <2>2. QED
    BY <1>1, <2>1 DEF Goes, Steps, Freed, At
<1>10. CASE OpenLinux
  <2>1. UNCHANGED machine /\ machine.kind = "linux"
    BY <1>10 DEF OpenLinux
  <2>2. CASE /\ MountedOn(machine, caller.target) = {}
             /\ Steps("held", caller.left, caller.locks, TRUE, caller.loop)
    <3>1. caller'.target = caller.target
      BY <1>2, <1>5, <1>10, CallerSteps DEF OpenLinux, List, Type, ListAgain, At
    <3>2. QED
      BY <1>1, <2>1, <2>2, <3>1 DEF Freed, Steps
  <2>3. QED
    BY <1>3, <1>10, <2>2, OpeningSteps
<1>11. CASE OpenMacos
  <2>1. UNCHANGED machine /\ machine.kind = "macos" /\ At("open")
    BY <1>11 DEF OpenMacos
  <2>2. CASE Steps("held", caller.left, caller.locks, TRUE, caller.loop)
    <3>1. caller'.target = caller.target
      BY <1>5, <2>1, CallerSteps DEF List, Type, ListAgain, At
    <3>2. MountedOn(machine, caller.target) = {}
      BY <2>1 DEF Freed, At
    <3>3. QED
      BY <2>1, <3>1, <3>2 DEF Freed
  <2>3. QED
    BY <1>3, <1>11, <2>2, OpeningSteps
<1>12. CASE Settle
  <2>1. UNCHANGED machine /\ Asks
    BY <1>12 DEF Settle
  <2>2. CASE /\ request' = "sent"
             /\ Steps(caller.pc, caller.left, caller.locks, caller.handle, TRUE)
    <3>1. caller'.target = caller.target /\ caller'.pc = caller.pc
      BY <1>5, <2>1, <2>2, CallerSteps DEF List, Type, ListAgain, At, Asks, Steps
    <3>2. QED
      BY <2>1, <2>2, <3>1 DEF Freed, At, Asks
  <2>3. CASE Goes("let_go")
    BY <1>2, <2>3 DEF Goes, Steps
  <2>4. QED
    BY <1>3, <1>12, <2>2, <2>3, SettlingSteps
<1>13. CASE Heard
  <2>1. UNCHANGED machine /\ Asks
    BY <1>13 DEF Heard, Asking
  <2>2. CASE Steps("let_go", caller.left, caller.locks, caller.handle, FALSE)
    BY <1>2, <2>2 DEF Steps
  <2>3. CASE /\ At("unmount") /\ request = "done"
             /\ Steps("open", caller.left, caller.locks, caller.handle, FALSE)
    <3>1. caller'.target = caller.target
      BY <1>5, <2>3, CallerSteps DEF List, Type, ListAgain, At
    <3>2. MountedOn(machine, caller.target) = {}
      BY <2>1, <2>3 DEF Freed, Asks
    <3>3. QED
      BY <1>1, <2>1, <3>1, <3>2 DEF Freed, Asks
  <2>4. QED
    BY <1>13, <2>2, <2>3, SettlingSteps
<1>14. CASE Deadline
  BY <1>2, <1>14, SettlingSteps DEF Steps
<1>15. CASE OpenWindows
  <2>1. UNCHANGED machine /\ machine.kind = "windows" /\ At("unmount")
    BY <1>15 DEF OpenWindows
  <2>2. CASE Steps("lock", VolumesOnDisk(machine, caller.target), caller.locks,
                   caller.handle, caller.loop)
    <3>1. caller'.target = caller.target
      BY <1>5, <2>1, CallerSteps DEF List, Type, ListAgain, At
    <3>2. caller.locks = {}
      BY <2>1 DEF Guarded, At
    <3>3. QED
      BY <2>1, <2>2, <3>1, <3>2 DEF Freed, At, Steps
  <2>3. QED
    BY <1>3, <1>15, <2>2, OpeningSteps
<1>16. CASE LockVolume
  BY <1>3, <1>16, FreedByLocks
<1>17. CASE OpenPhysical
  <2>1. UNCHANGED machine /\ At("lock") /\ caller.left = {} /\ machine.kind = "windows"
    BY <1>17 DEF OpenPhysical, Guarded
  <2>2. CASE Steps("held", caller.left, caller.locks, TRUE, caller.loop)
    <3>1. caller'.target = caller.target
      BY <1>5, <2>1, CallerSteps DEF List, Type, ListAgain, At
    <3>2. QED
      BY <2>1, <2>2, <3>1 DEF Freed, At, Steps
  <2>3. QED
    BY <1>3, <1>17, <2>2, OpeningSteps
<1>18. CASE CloseDrive
  <2>1. UNCHANGED machine /\ At("held")
    BY <1>18 DEF CloseDrive
  <2>2. caller'.pc = "let_go" \/ (caller'.pc = "eject" /\ machine.kind = "macos")
    BY <1>18, OpeningSteps DEF Steps
  <2>3. caller'.target = caller.target
    BY <1>5, <2>1, CallerSteps DEF List, Type, ListAgain, At
  <2>4. QED
    BY <2>1, <2>2, <2>3 DEF Freed, At
<1>19. CASE LetGo \/ Join
  <2>1. Goes("join") \/ Goes("done")
    BY <1>19, GoSteps DEF LetGo, Join
  <2>2. QED
    BY <1>2, <2>1 DEF Goes, Steps
<1>20. CASE Refuser \/ UNCHANGED vars
  BY <1>20 DEF Refuser, Register, Unregister, vars, Freed, At
<1>21. QED
  BY <1>4, <1>6, <1>7, <1>8, <1>9, <1>10, <1>11, <1>12, <1>13, <1>14, <1>15, <1>16, <1>17, <1>18,
     <1>19, <1>20, FreedByArbitration, FreedBesides DEF Next, Command

-----------------------------------------------------------------------------
(* The theorems                                                            *)

IInv == Hardware /\ Shape /\ Asking /\ Numbered /\ Guarded /\ Freed

\* The command starts with nothing chosen, sent, locked or started.
LEMMA InitIInv == Init => IInv
<1> SUFFICES ASSUME Init PROVE IInv
  OBVIOUS
<1>1. Hardware
  <2>1. machine \in Machines
    BY DEF Init
  <2>2. Sound(machine)
    BY <2>1, MachinesAssumption DEF Sound
  <2>3. machine.kind = "windows" => Mounted(machine) \cup machine.spare \subseteq DOMAIN machine.volumes
    BY <2>1, MachinesAssumption DEF Mounted
  <2>4. QED
    BY <2>1, <2>2, <2>3, NamesAssumption DEF Hardware
<1>2. Shape
  BY DEF Init, Shape, CallerFields
<1>3. Asking /\ Guarded
  BY DEF Init, Asking, Guarded, At, Choosing
<1>4. Numbered
  <2>1. Listed = {}
    BY DEF Init, Listed
  <2>2. QED
    BY <2>1, FS_EmptySet DEF Init, Numbered, NumberNamesTheDrive, At, Choosing, Working
<1>5. Freed
  BY DEF Init, Freed, At
<1>6. QED
  BY <1>1, <1>2, <1>3, <1>4, <1>5 DEF IInv

\* Each part of the invariant survives a step of the command, of the host or of the person.
LEMMA StepIInv == IInv /\ [Next]_vars => IInv'
  BY HardwareStep, ShapeStep, AskingStep, NumberedStep, GuardedStep, FreedStep DEF IInv

\* The inductive invariant of the drive access, for every set of machines.
THEOREM InvariantAlways == Spec => []IInv
<1>1. Init => IInv
  BY InitIInv
<1>2. IInv /\ [Next]_vars => IInv'
  BY StepIInv
<1>3. QED
  BY <1>1, <1>2, PTL DEF Spec

\* The number that the person typed names for the write the drive that it named
\* in the list, where every drive that came or went meanwhile has a name after
\* it: in_list_order does not depend on the order of the host, and natural_cmp
\* counts as the host does.
THEOREM NumberNamesTheDriveAlways == Spec => []NumberNamesTheDrive
<1>1. IInv => NumberNamesTheDrive
  BY DEF IInv, Numbered
<1>2. QED
  BY <1>1, InvariantAlways, PTL

\* While the drive is open nothing of it is mounted, and on macOS from the
\* unmount to the eject: by the exclusive open on Linux, the thread that refuses
\* mounts on macOS, the locks on Windows.
THEOREM NothingMountedMeanwhileAlways == Spec => []NothingMountedMeanwhile
<1>1. ASSUME IInv PROVE NothingMountedMeanwhile
  <2> USE <1>1
  <2>1. machine.kind \in {"linux", "macos", "windows"} /\ (caller.handle <=> caller.pc = "held")
    BY DEF IInv, Hardware, Sound, Guarded, At
  <2>2. CASE machine.kind = "linux" \/ machine.kind = "macos"
    BY <2>1, <2>2 DEF IInv, Freed, NothingMountedMeanwhile, Known, At
  <2>3. CASE machine.kind = "windows"
    <3>1. SUFFICES ASSUME caller.pc = "held", NEW v \in Known(machine, caller.target)
                   PROVE  FALSE
      BY <2>1, <2>3 DEF NothingMountedMeanwhile
    <3>2. /\ v \in Mounted(machine) /\ caller.target \in machine.volumes[v].disks
          /\ machine.volumes[v].asked /\ machine.volumes[v].named
          /\ Cardinality(machine.volumes[v].disks) <= ROOM
      BY <2>3, <3>1 DEF Known, MountedOn, Carriers
    <3>3. v \in DOMAIN machine.volumes
      BY <2>3, <3>2 DEF IInv, Hardware
    <3>4. v \in VolumesOnDisk(machine, caller.target)
      BY <3>2, <3>3 DEF VolumesOnDisk, Extents, DiskExtents
    <3>5. v \in caller.locks
      BY <2>3, <3>1, <3>4 DEF IInv, Freed, At
    <3>6. QED
      BY <2>3, <3>1, <3>2, <3>5 DEF IInv, Freed, At
  <2>4. QED
    BY <2>1, <2>2, <2>3
<1>2. QED
  BY <1>1, InvariantAlways, PTL

-----------------------------------------------------------------------------
(* What the system lies on                                                 *)

\* A set as a sequence has the elements of the set.
LEMMA SetAsSeq ==
  ASSUME NEW S, IsFiniteSet(S)
  PROVE  SetToSeq(S) \in Seq(S) /\ ToSet(SetToSeq(S)) = S
<1>1. Cardinality(S) \in Nat /\ ExistsBijection(1 .. Cardinality(S), S)
  BY FS_CardinalityType
<1>2. PICK f \in [1 .. Cardinality(S) -> S] :
        /\ \A a, b \in 1 .. Cardinality(S) : f[a] = f[b] => a = b
        /\ \A t \in S : \E s \in 1 .. Cardinality(S) : f[s] = t
  BY <1>1, Zenon DEF ExistsBijection, Bijection, Injection, Surjection, IsInjective
<1>3. IsInjective(f)
  BY <1>2 DEF IsInjective
<1>4. SetToSeq(S) \in [1 .. Cardinality(S) -> S] /\ IsInjective(SetToSeq(S))
  BY <1>3, Zenon DEF SetToSeq
<1> DEFINE g == SetToSeq(S)
<1>5. g \in Injection(1 .. Cardinality(S), S)
  BY <1>4, Zenon DEF Injection
<1>6. g \in Surjection(1 .. Cardinality(S), S)
  BY <1>1, <1>5, FS_Injection, FS_Interval
<1>7. \A t \in S : \E s \in 1 .. Cardinality(S) : g[s] = t
  BY <1>6, Zenon DEF Surjection
<1>8. g \in [1 .. Cardinality(S) -> S]
  BY <1>4
<1> HIDE DEF g
<1>9. g \in Seq(S) /\ DOMAIN g = 1 .. Cardinality(S)
  BY <1>1, <1>8
<1>10. ToSet(g) = S
  BY <1>7, <1>8, <1>9 DEF ToSet
<1>11. QED
  BY <1>9, <1>10 DEF g

-----------------------------------------------------------------------------
(* The walk over the slaves of a device (walk_slaves)                      *)

\* The walk does not leave the names, and each device hands on only so many.
Within(d, names) == \A n \in names : Under(d, n) \in SUBSET names /\ IsFiniteSet(Under(d, n))

\* The names that a device hands the walk on to: none for a drive.
Onward(d, n) == IF IsDriveName(n) THEN {} ELSE Under(d, n)

\* The names that hold what the walk has still to visit and all that these
\* hand it on to, where nobody comes to a name that was seen.
Holds(d, todo, seen, C) ==
  /\ todo \ seen \subseteq C
  /\ \A y \in C : Onward(d, y) \ seen \subseteq C

\* The names that the walk will come to: the fewest that hold.
ToCome(d, names, todo, seen) == {x \in names : \A C \in SUBSET names : Holds(d, todo, seen, C) => x \in C}

\* What is to come holds the names to visit and all that they lead to.
LEMMA ToComeHolds ==
  ASSUME NEW d, NEW names, Within(d, names),
         NEW todo \in SUBSET names, NEW seen
  PROVE  LET A == ToCome(d, names, todo, seen)
         IN  A \in SUBSET names /\ Holds(d, todo, seen, A)
<1> DEFINE A == ToCome(d, names, todo, seen)
<1>1. A \in SUBSET names /\ todo \ seen \subseteq A
  BY DEF ToCome, Holds
<1>2. ASSUME NEW y \in A, NEW x \in Onward(d, y) \ seen
      PROVE  x \in A
  <2>1. x \in names
    BY <1>1, <1>2 DEF Onward, Within
  <2>2. ASSUME NEW C \in SUBSET names, Holds(d, todo, seen, C)
        PROVE  x \in C
    <3>1. y \in C
      BY <1>2, <2>2 DEF ToCome
    <3>2. QED
      BY <1>2, <2>2, <3>1 DEF Holds
  <2>3. QED
    BY <2>1, <2>2 DEF ToCome
<1>3. QED
  BY <1>1, <1>2 DEF Holds

\* A visit takes one name away, and comes to what it hands on.
Passes(d, names, n, rest, seen, all, on, more) ==
  /\ n \in names /\ rest \in SUBSET names /\ n \notin seen
  /\ \A x : x \in all <=> x = n \/ x \in rest
  /\ \A x : x \in on <=> x \in Onward(d, n) \/ x \in rest
  /\ \A x : x \in more <=> x = n \/ x \in seen

\* A visit comes to its name, and to all that this name and the rest lead to.
LEMMA ToComeOfVisit ==
  ASSUME NEW d, NEW names, Within(d, names), NEW n, NEW rest, NEW seen, NEW all, NEW on, NEW more,
         Passes(d, names, n, rest, seen, all, on, more)
  PROVE  ToCome(d, names, all, seen) = {n} \cup ToCome(d, names, on, more)
<1> USE DEF Passes
<1> DEFINE here  == ToCome(d, names, all, seen)
           there == ToCome(d, names, on, more)
<1>1. on \in SUBSET names /\ all \in SUBSET names
  BY DEF Onward, Within
<1>2. here \in SUBSET names /\ Holds(d, all, seen, here)
  BY <1>1, ToComeHolds
<1>3. there \in SUBSET names /\ Holds(d, on, more, there)
  BY <1>1, ToComeHolds
<1>4. Holds(d, on, more, here \ {n})
  BY <1>2 DEF Holds
<1>5. n \in here
  BY <1>2 DEF Holds
<1>6. here \ {n} \in SUBSET names
  BY <1>2
<1>7. there \subseteq here
  <2> HIDE DEF here
  <2>1. QED
    BY <1>4, <1>6 DEF ToCome
<1>8. Holds(d, all, seen, {n} \cup there)
  BY <1>3 DEF Holds
<1>9. here \subseteq {n} \cup there
  BY <1>3, <1>8 DEF ToCome
<1>10. QED
  BY ONLY <1>5, <1>7, <1>9

\* With no name left to visit nothing is to come.
LEMMA ToComeOfNothing ==
  ASSUME NEW d, NEW names, NEW seen
  PROVE  ToCome(d, names, {}, seen) = {}
<1>1. Holds(d, {}, seen, {})
  BY DEF Holds
<1>2. QED
  BY <1>1 DEF ToCome

\* A name that was seen counts for nothing.
LEMMA ToComeOfSeen ==
  ASSUME NEW d, NEW names, NEW rest, NEW seen, NEW n \in seen, NEW all, all = {n} \cup rest
  PROVE  ToCome(d, names, all, seen) = ToCome(d, names, rest, seen)
<1>1. all \ seen = rest \ seen
  OBVIOUS
<1>2. \A C : Holds(d, all, seen, C) <=> Holds(d, rest, seen, C)
  BY <1>1 DEF Holds
<1>3. QED
  BY <1>2 DEF ToCome

\* The drives of some names.
DrivesIn(S) == {x \in S : IsDriveName(x)}

\* What the walk finds in the end, from any point of it.
Finds(d, names, todo, found, seen) == found \cup DrivesIn(ToCome(d, names, ToSet(todo), seen))

\* A sequence that is not empty is its head and its tail.
LEMMA SeqParts ==
  ASSUME NEW S, NEW s \in Seq(S), s # <<>>
  PROVE  /\ Head(s) \in S /\ Tail(s) \in Seq(S) /\ Len(Tail(s)) = Len(s) - 1 /\ Len(s) \in Nat \ {0}
         /\ ToSet(s) = {Head(s)} \cup ToSet(Tail(s)) /\ ToSet(Tail(s)) \in SUBSET S
<1>1. Len(s) \in Nat \ {0} /\ DOMAIN s = 1 .. Len(s)
  OBVIOUS
<1>2. Head(s) = s[1] /\ Head(s) \in S
  BY <1>1
<1>3. Tail(s) \in Seq(S) /\ Len(Tail(s)) = Len(s) - 1
  BY <1>1
<1>4. \A i \in 1 .. Len(s) - 1 : Tail(s)[i] = s[i + 1]
  BY <1>1
<1>5. DOMAIN Tail(s) = 1 .. Len(s) - 1
  BY <1>3
<1>6. ToSet(Tail(s)) = {s[i + 1] : i \in 1 .. Len(s) - 1}
  BY <1>4, <1>5 DEF ToSet
<1>7. \A j \in 1 .. Len(s) : j = 1 \/ \E i \in 1 .. Len(s) - 1 : j = i + 1
  <2>1. TAKE j \in 1 .. Len(s)
  <2>2. j = 1 \/ (j - 1 \in 1 .. Len(s) - 1 /\ j = (j - 1) + 1)
    BY <1>1
  <2>3. QED
    BY <2>2
<1>8. ToSet(s) = {s[1]} \cup {s[i + 1] : i \in 1 .. Len(s) - 1}
  <2>1. ToSet(s) = {s[j] : j \in 1 .. Len(s)}
    BY <1>1 DEF ToSet
  <2>2. 1 \in 1 .. Len(s) /\ \A i \in 1 .. Len(s) - 1 : i + 1 \in 1 .. Len(s)
    BY <1>1
  <2>3. QED
    BY <2>1, <2>2, <1>7
<1>9. ToSet(Tail(s)) \in SUBSET S
  <2>1. \A i \in 1 .. Len(s) - 1 : s[i + 1] \in S
    BY <1>1
  <2>2. QED
    BY <2>1, <1>6
<1>10. QED
  BY <1>1, <1>2, <1>3, <1>6, <1>8, <1>9

\* Two sequences in a row have the elements of both.
LEMMA SeqsJoined ==
  ASSUME NEW S, NEW s \in Seq(S), NEW t \in Seq(S)
  PROVE  s \o t \in Seq(S) /\ ToSet(s \o t) = ToSet(s) \cup ToSet(t)
<1>1. /\ Len(s) \in Nat /\ Len(t) \in Nat /\ DOMAIN s = 1 .. Len(s) /\ DOMAIN t = 1 .. Len(t)
      /\ s \o t \in Seq(S) /\ Len(s \o t) = Len(s) + Len(t) /\ DOMAIN (s \o t) = 1 .. Len(s) + Len(t)
  OBVIOUS
<1>2. \A i \in 1 .. Len(s) : (s \o t)[i] = s[i]
  OBVIOUS
<1>3. \A i \in 1 .. Len(t) : (s \o t)[Len(s) + i] = t[i]
  OBVIOUS
<1>4. \A i \in 1 .. Len(s) + Len(t) : i \in 1 .. Len(s) \/ \E k \in 1 .. Len(t) : i = Len(s) + k
  <2>1. TAKE i \in 1 .. Len(s) + Len(t)
  <2>2. i \in 1 .. Len(s) \/ (i - Len(s) \in 1 .. Len(t) /\ i = Len(s) + (i - Len(s)))
    BY <1>1
  <2>3. QED
    BY <2>2
<1>5. /\ \A i \in 1 .. Len(s) : i \in 1 .. Len(s) + Len(t)
      /\ \A k \in 1 .. Len(t) : Len(s) + k \in 1 .. Len(s) + Len(t)
  BY <1>1
<1>6. ToSet(s \o t) = ToSet(s) \cup ToSet(t)
  <2> HIDE <1>1
  <2>1. \A x \in ToSet(s \o t) : x \in ToSet(s) \cup ToSet(t)
    <3>1. TAKE x \in ToSet(s \o t)
    <3>2. PICK i \in 1 .. Len(s) + Len(t) : x = (s \o t)[i]
      BY <1>1, <3>1 DEF ToSet
    <3>3. CASE i \in 1 .. Len(s)
      <4>1. x = s[i]
        BY <1>2, <3>2, <3>3
      <4>2. QED
        BY <1>1, <3>3, <4>1 DEF ToSet
    <3>4. CASE \E k \in 1 .. Len(t) : i = Len(s) + k
      <4>1. PICK k \in 1 .. Len(t) : i = Len(s) + k
        BY <3>4
      <4>2. x = t[k]
        BY <1>3, <3>2, <4>1
      <4>3. QED
        BY <1>1, <4>1, <4>2 DEF ToSet
    <3>5. QED
      BY <1>4, <3>2, <3>3, <3>4
  <2>2. \A x \in ToSet(s) : x \in ToSet(s \o t)
    BY <1>1, <1>2, <1>5 DEF ToSet
  <2>3. \A x \in ToSet(t) : x \in ToSet(s \o t)
    BY <1>1, <1>3, <1>5 DEF ToSet
  <2>4. QED
    BY <2>1, <2>2, <2>3
<1>7. QED
  BY <1>1, <1>6

\* A point of the walk.
Point(todo, found, seen) == [todo |-> todo, found |-> found, seen |-> seen]

\* A walk over finitely many names, at a point of it.
Walking(d, names, todo, found, seen) ==
  /\ Within(d, names) /\ IsFiniteSet(names)
  /\ todo \in Seq(names) /\ found \in SUBSET names /\ seen \in SUBSET names

\* The name at the head was visited before.
IsSeen(todo, seen) == Head(todo) \in seen

\* How many names it has not seen.
Left(names, seen) == Cardinality(names \ seen)

\* A visit to a name that was seen does nothing.
LEMMA VisitSeen ==
  ASSUME NEW d, NEW names, NEW todo, NEW found, NEW seen,
         Walking(d, names, todo, found, seen), todo # <<>>, IsSeen(todo, seen)
  PROVE  \E on :
           /\ Walking(d, names, on, found, seen) /\ Len(on) < Len(todo)
           /\ Visit(d, Point(todo, found, seen)) = Point(on, found, seen)
           /\ Finds(d, names, on, found, seen) = Finds(d, names, todo, found, seen)
<1> USE DEF Walking, IsSeen
<1>1. Visit(d, Point(todo, found, seen)) = Point(Tail(todo), found, seen)
  BY DEF Visit, Point
<1>2. /\ Tail(todo) \in Seq(names) /\ ToSet(todo) = {Head(todo)} \cup ToSet(Tail(todo))
      /\ Len(Tail(todo)) < Len(todo)
  BY SeqParts
<1>3. ToCome(d, names, ToSet(todo), seen) = ToCome(d, names, ToSet(Tail(todo)), seen)
  BY <1>2, ToComeOfSeen
<1>4. QED
  BY <1>1, <1>2, <1>3 DEF Finds

\* Any other visit loses nothing of what the walk finds in the end, and leaves
\* fewer names to see.
LEMMA VisitNew ==
  ASSUME NEW d, NEW names, NEW todo, NEW found, NEW seen,
         Walking(d, names, todo, found, seen), todo # <<>>, ~IsSeen(todo, seen)
  PROVE  \E on, more, gone :
           /\ Walking(d, names, on, more, gone) /\ Left(names, gone) < Left(names, seen)
           /\ Visit(d, Point(todo, found, seen)) = Point(on, more, gone)
           /\ Finds(d, names, on, more, gone) = Finds(d, names, todo, found, seen)
<1> USE DEF Walking, IsSeen
<1> DEFINE n == Head(todo)
           rest == ToSet(Tail(todo))
           gone == seen \cup {n}
           LeadsTo(on, more) == Visit(d, Point(todo, found, seen)) = Point(on, more, gone)
<1>1. n \in names /\ Tail(todo) \in Seq(names) /\ ToSet(todo) = {n} \cup rest /\ rest \in SUBSET names
  BY SeqParts
<1> HIDE DEF rest
<1>2. \E on \in Seq(names), more \in SUBSET names :
        /\ LeadsTo(on, more)
        /\ ToSet(on) = Onward(d, n) \cup rest /\ more = found \cup DrivesIn({n})
  <2>1. CASE IsDriveName(n)
    <3>1. LeadsTo(Tail(todo), found \cup {n})
      BY <2>1 DEF Visit, Point
    <3>2. Onward(d, n) = {} /\ DrivesIn({n}) = {n}
      BY <2>1 DEF Onward, DrivesIn
    <3> HIDE DEF LeadsTo
    <3>3. ToSet(Tail(todo)) = Onward(d, n) \cup rest /\ found \cup {n} \in SUBSET names
      BY <1>1, <3>2 DEF rest
    <3>4. QED
      BY <1>1, <3>1, <3>2, <3>3
  <2>2. CASE ~IsDriveName(n)
    <3> DEFINE under == SetToSeq(Under(d, n))
               on    == under \o Tail(todo)
    <3>1. LeadsTo(on, found)
      BY <2>2 DEF Visit, Point
    <3>2. Onward(d, n) = Under(d, n) /\ DrivesIn({n}) = {}
      BY <2>2 DEF Onward, DrivesIn
    <3>3. Under(d, n) \in SUBSET names /\ IsFiniteSet(Under(d, n))
      BY <1>1 DEF Within
    <3>4. under \in Seq(Under(d, n)) /\ ToSet(under) = Under(d, n)
      BY <3>3, SetAsSeq
    <3> HIDE DEF under, LeadsTo
    <3>5. under \in Seq(names)
      BY <3>3, <3>4
    <3>6. on \in Seq(names) /\ ToSet(on) = ToSet(under) \cup ToSet(Tail(todo))
      BY <1>1, <3>5, SeqsJoined
    <3> HIDE DEF on
    <3>7. ToSet(on) = Onward(d, n) \cup rest /\ found = found \cup DrivesIn({n})
      BY <3>2, <3>4, <3>6 DEF rest
    <3>8. QED
      BY <3>1, <3>6, <3>7
  <2>3. QED
    BY <2>1, <2>2
<1>3. PICK on \in Seq(names), more \in SUBSET names :
        /\ LeadsTo(on, more)
        /\ ToSet(on) = Onward(d, n) \cup rest /\ more = found \cup DrivesIn({n})
  BY <1>2
<1> HIDE DEF LeadsTo
<1>4. ToCome(d, names, ToSet(todo), seen) = {n} \cup ToCome(d, names, ToSet(on), gone)
  <2> HIDE DEF n
  <2>1. \A x : x \in ToSet(todo) <=> x = n \/ x \in rest
    BY <1>1
  <2>2. \A x : x \in ToSet(on) <=> x \in Onward(d, n) \/ x \in rest
    BY <1>3
  <2>3. Passes(d, names, n, rest, seen, ToSet(todo), ToSet(on), gone)
    BY <1>1, <2>1, <2>2 DEF Passes, n
  <2> HIDE DEF gone
  <2>4. QED
    BY <2>3, ToComeOfVisit
<1>5. Finds(d, names, on, more, gone) = Finds(d, names, todo, found, seen)
  BY <1>3, <1>4 DEF Finds, DrivesIn
<1>6. Left(names, gone) < Left(names, seen)
  <2> DEFINE left == names \ seen
  <2>1. IsFiniteSet(left) /\ names \ gone = left \ {n} /\ n \in left
    BY <1>1, FS_Difference
  <2> HIDE DEF left, gone, n
  <2>2. Cardinality(left \ {n}) = Cardinality(left) - 1 /\ Cardinality(left) \in Nat
    BY <2>1, FS_RemoveElement, FS_CardinalityType
  <2>3. Cardinality(names \ gone) = Cardinality(left \ {n})
    BY <2>1, Zenon
  <2>4. QED
    BY <2>2, <2>3 DEF left, Left
<1>7. gone \in SUBSET names
  BY <1>1
<1> HIDE DEF gone
<1>8. QED
  BY <1>3, <1>5, <1>6, <1>7 DEF LeadsTo

\* The recursion of walk_slaves.
Follows(f, d, names) ==
  f = [walk \in Walks(names) |-> IF walk.todo = <<>> THEN walk.found ELSE f[Visit(d, walk)]]

\* What the walk finds in the end, as a function of the point it is at.
LEMMA FindsFollows ==
  ASSUME NEW d, NEW names, Within(d, names), IsFiniteSet(names)
  PROVE  Follows([walk \in Walks(names) |-> Finds(d, names, walk.todo, walk.found, walk.seen)], d, names)
<1> DEFINE f == [walk \in Walks(names) |-> Finds(d, names, walk.todo, walk.found, walk.seen)]
<1>1. ASSUME NEW todo, NEW found, NEW seen, Walking(d, names, todo, found, seen)
      PROVE  f[Point(todo, found, seen)] = Finds(d, names, todo, found, seen)
  BY <1>1 DEF Walking, Walks, Point
<1> HIDE DEF f
<1>2. ASSUME NEW todo, NEW found, NEW seen, Walking(d, names, todo, found, seen)
      PROVE  f[Point(todo, found, seen)]
               = IF todo = <<>> THEN found ELSE f[Visit(d, Point(todo, found, seen))]
  <2>1. CASE todo = <<>>
    <3>1. ToSet(todo) = {}
      BY <2>1 DEF ToSet
    <3>2. Finds(d, names, todo, found, seen) = found
      BY <3>1, ToComeOfNothing DEF Finds, DrivesIn
    <3>3. QED
      BY <1>1, <1>2, <2>1, <3>2
  <2>2. CASE todo # <<>> /\ IsSeen(todo, seen)
    BY <1>1, <1>2, <2>2, VisitSeen
  <2>3. CASE todo # <<>> /\ ~IsSeen(todo, seen)
    BY <1>1, <1>2, <2>3, VisitNew
  <2>4. QED
    BY <2>1, <2>2, <2>3
<1>3. \A walk \in Walks(names) : f[walk] = IF walk.todo = <<>> THEN walk.found ELSE f[Visit(d, walk)]
  <2>1. TAKE walk \in Walks(names)
  <2>2. /\ walk = Point(walk.todo, walk.found, walk.seen)
        /\ Walking(d, names, walk.todo, walk.found, walk.seen)
    BY DEF Walks, Point, Walking
  <2>3. QED
    BY <1>2, <2>2
<1>4. f = [walk \in Walks(names) |-> f[walk]]
  BY DEF f
<1>5. QED
  BY <1>3, <1>4 DEF Follows, f

\* It is the only function that the recursion has: with each visit a name more is
\* seen, or there is one less to visit.
LEMMA FollowsIsFinds ==
  ASSUME NEW d, NEW names, Within(d, names), IsFiniteSet(names), NEW f, Follows(f, d, names)
  PROVE  \A todo, found, seen : Walking(d, names, todo, found, seen) =>
           f[Point(todo, found, seen)] = Finds(d, names, todo, found, seen)
<1> DEFINE Wrong(todo, found, seen) ==
             /\ Walking(d, names, todo, found, seen)
             /\ f[Point(todo, found, seen)] # Finds(d, names, todo, found, seen)
<1>1. ASSUME NEW todo, NEW found, NEW seen, Walking(d, names, todo, found, seen)
      PROVE  /\ todo = <<>> => f[Point(todo, found, seen)] = found
             /\ todo # <<>> => f[Point(todo, found, seen)] = f[Visit(d, Point(todo, found, seen))]
  <2>1. Point(todo, found, seen) \in Walks(names)
    BY <1>1 DEF Walks, Point, Walking
  <2>2. Point(todo, found, seen).todo = todo /\ Point(todo, found, seen).found = found
    BY DEF Point
  <2>3. QED
    BY <2>1, <2>2 DEF Follows
<1>2. ASSUME NEW todo, NEW found, NEW seen, Wrong(todo, found, seen)
      PROVE  \E t, g, s : /\ Wrong(t, g, s)
                          /\ \/ s = seen /\ Len(t) < Len(todo)
                             \/ Left(names, s) < Left(names, seen)
  <2>1. CASE todo = <<>>
    <3>1. ToSet(todo) = {}
      BY <2>1 DEF ToSet
    <3>2. Finds(d, names, todo, found, seen) = found
      BY <3>1, ToComeOfNothing DEF Finds, DrivesIn
    <3>3. QED
      BY <1>1, <1>2, <2>1, <3>2
  <2>2. CASE todo # <<>> /\ IsSeen(todo, seen)
    <3>1. PICK on : /\ Walking(d, names, on, found, seen) /\ Len(on) < Len(todo)
                    /\ Visit(d, Point(todo, found, seen)) = Point(on, found, seen)
                    /\ Finds(d, names, on, found, seen) = Finds(d, names, todo, found, seen)
      BY <1>2, <2>2, VisitSeen
    <3>2. Wrong(on, found, seen)
      BY <1>1, <1>2, <2>2, <3>1
    <3> HIDE DEF Wrong
    <3>3. QED
      BY <3>1, <3>2
  <2>3. CASE todo # <<>> /\ ~IsSeen(todo, seen)
    <3>1. PICK on, more, gone :
            /\ Walking(d, names, on, more, gone) /\ Left(names, gone) < Left(names, seen)
            /\ Visit(d, Point(todo, found, seen)) = Point(on, more, gone)
            /\ Finds(d, names, on, more, gone) = Finds(d, names, todo, found, seen)
      BY <1>2, <2>3, VisitNew
    <3>2. Wrong(on, more, gone)
      BY <1>1, <1>2, <2>3, <3>1
    <3> HIDE DEF Wrong
    <3>3. QED
      BY <3>1, <3>2
  <2>4. QED
    BY <2>1, <2>2, <2>3
<1>3. ASSUME NEW todo, NEW found, NEW seen, Wrong(todo, found, seen)
      PROVE  Left(names, seen) \in Nat /\ Len(todo) \in Nat
  <2>1. IsFiniteSet(names \ seen) /\ todo \in Seq(names)
    BY <1>3, FS_Difference DEF Walking
  <2>2. QED
    BY <2>1, FS_CardinalityType DEF Left
<1> HIDE DEF Wrong
<1>4. ASSUME NEW a, NEW b, NEW c, Wrong(a, b, c)
      PROVE  FALSE
  <2> DEFINE Lefts == {k \in Nat : \E t, g, s : Wrong(t, g, s) /\ Left(names, s) = k}
  <2>1. Lefts # {} /\ Lefts \in SUBSET Nat
    BY <1>3, <1>4
  <2>2. PICK k \in Lefts : \A j \in Lefts : k <= j
    BY <2>1, LeastOf
  <2> DEFINE Lens == {l \in Nat : \E t, g, s : Wrong(t, g, s) /\ Left(names, s) = k /\ Len(t) = l}
  <2>3. Lens # {} /\ Lens \in SUBSET Nat
    BY <1>3
  <2>4. PICK l \in Lens : \A j \in Lens : l <= j
    BY <2>3, LeastOf
  <2>5. PICK t, g, s : Wrong(t, g, s) /\ Left(names, s) = k /\ Len(t) = l
    BY <2>4
  <2>6. PICK t2, g2, s2 : /\ Wrong(t2, g2, s2)
                          /\ (s2 = s /\ Len(t2) < Len(t)) \/ Left(names, s2) < Left(names, s)
    BY <1>2, <2>5
  <2>7. /\ Left(names, s2) \in Nat /\ Len(t2) \in Nat
        /\ Left(names, s) \in Nat /\ Len(t) \in Nat
    BY <1>3, <2>5, <2>6
  <2>8. CASE Left(names, s2) < Left(names, s)
    <3>1. Left(names, s2) \in Lefts
      BY <2>6, <2>7
    <3>2. QED
      BY <2>2, <2>5, <2>7, <2>8, <3>1
  <2>9. CASE s2 = s /\ Len(t2) < Len(t)
    <3>1. Len(t2) \in Lens
      BY <2>5, <2>6, <2>7, <2>9
    <3>2. QED
      BY <2>4, <2>5, <2>7, <2>9, <3>1
  <2>10. QED
    BY <2>6, <2>8, <2>9
<1>5. QED
  BY <1>4 DEF Wrong

\* T is what f makes of S.
IsImage(S, f, T) == \A y : y \in T <=> \E x \in S : y = f[x]

\* What a function makes of a finite set is a finite set.
LEMMA ImageIsFinite ==
  ASSUME NEW S, IsFiniteSet(S), NEW f, NEW T, IsImage(S, f, T)
  PROVE  IsFiniteSet(T)
<1> DEFINE g == [x \in S |-> f[x]]
<1>1. g \in [S -> T] /\ \A y \in T : \E x \in S : g[x] = y
  BY DEF IsImage
<1>2. g \in Surjection(S, T)
  BY <1>1, Zenon DEF Surjection
<1>3. QED
  BY <1>2, FS_Surjection

\* The names of a machine are finitely many, and the walk stays within them.
LEMMA NamesOfTheWalk ==
  ASSUME NEW d, FiniteDevices(d), NEW start
  PROVE  IsFiniteSet({start} \cup Connected(d)) /\ Within(d, {start} \cup Connected(d))
<1> DEFINE Part(n) == {n} \cup Slaves(d, n) \cup Under(d, n)
<1>1. Connected(d) = UNION {Part(n) : n \in DOMAIN d.slaves}
  BY DEF Connected, Under
<1>2. \A n : IsFiniteSet(Slaves(d, n)) /\ IsFiniteSet(Under(d, n))
  <2>1. TAKE n
  <2>2. IsFiniteSet(Slaves(d, n))
    BY FS_EmptySet DEF Slaves, FiniteDevices
  <2> DEFINE f == [x \in Slaves(d, n) |-> PartitionToDisk(d, x)]
  <2>3. IsImage(Slaves(d, n), f, Under(d, n))
    BY DEF Under, IsImage
  <2>4. IsFiniteSet(Under(d, n))
    BY <2>2, <2>3, ImageIsFinite
  <2>5. QED
    BY <2>2, <2>4
<1>3. \A n : IsFiniteSet(Part(n))
  <2>1. TAKE n
  <2>2. IsFiniteSet({n}) /\ IsFiniteSet({n} \cup Slaves(d, n))
    BY <1>2, FS_Singleton, FS_Union
  <2>3. QED
    BY <1>2, <2>2, FS_Union
<1>4. \A n : n \notin DOMAIN d.slaves => Under(d, n) = {}
  BY DEF Under, Slaves
<1> HIDE DEF Part
<1>5. IsFiniteSet({Part(n) : n \in DOMAIN d.slaves})
  <2> DEFINE f == [n \in DOMAIN d.slaves |-> Part(n)]
             T == {Part(n) : n \in DOMAIN d.slaves}
  <2>1. IsImage(DOMAIN d.slaves, f, T)
    BY DEF IsImage
  <2> HIDE DEF f, T
  <2>2. IsFiniteSet(T)
    BY <2>1, ImageIsFinite DEF FiniteDevices
  <2>3. QED
    BY <2>2 DEF T
<1>6. IsFiniteSet(Connected(d))
  BY <1>1, <1>3, <1>5, FS_UNION
<1>7. IsFiniteSet({start} \cup Connected(d))
  BY <1>6, FS_Singleton, FS_Union
<1>8. \A n \in DOMAIN d.slaves : Under(d, n) \subseteq Connected(d)
  BY <1>1 DEF Part
<1>9. QED
  BY <1>2, <1>4, <1>7, <1>8 DEF Within

\* walk_slaves finds the drives that the devices lead to, on any finite machine,
\* whatever lies on what.
LEMMA WalkSlavesIs ==
  ASSUME NEW d, FiniteDevices(d), NEW start
  PROVE  WalkSlaves(d, start) = DrivesIn(ToCome(d, {start} \cup Connected(d), {start}, {}))
<1> DEFINE names == {start} \cup Connected(d)
           walk == CHOOSE f : Follows(f, d, names)
<1>1. WalkSlaves(d, start) = walk[Point(<<start>>, {}, {})]
  BY DEF WalkSlaves, Follows, Point
<1>2. IsFiniteSet(names) /\ Within(d, names)
  BY NamesOfTheWalk
<1>3. start \in names
  OBVIOUS
<1> HIDE DEF names
<1>4. \E f : Follows(f, d, names)
  BY <1>2, FindsFollows, Zenon
<1>5. Follows(walk, d, names)
  BY <1>4, Zenon
<1> HIDE DEF walk
<1>6. Walking(d, names, <<start>>, {}, {})
  BY <1>2, <1>3 DEF Walking
<1>7. walk[Point(<<start>>, {}, {})] = Finds(d, names, <<start>>, {}, {})
  BY <1>2, <1>5, <1>6, FollowsIsFinds
<1>8. ToSet(<<start>>) = {start}
  BY DEF ToSet
<1>9. QED
  BY <1>1, <1>7, <1>8 DEF Finds, names

-----------------------------------------------------------------------------
(* All that lies beneath (Beneath, BeneathNode)                            *)

\* What lies next below some nodes.
Below(B, over) == UNION {B[x] : x \in over}

\* A set of nodes that nothing leads out of.
Shut(N, B, C) == C \in SUBSET N /\ Below(B, C) \subseteq C

\* The fewest nodes that hold these, and all that lies below them.
AllBelow(N, B, over) == {x \in N : \A C : Shut(N, B, C) /\ over \subseteq C => x \in C}

\* Finitely many nodes, each on some of them.
Layers(N, B) == IsFiniteSet(N) /\ \A x \in N : B[x] \in SUBSET N

\* The recursion that goes down.
GoesDown(f, N, B) ==
  f = [over \in SUBSET N |-> IF Below(B, over) \subseteq over THEN over ELSE f[over \cup Below(B, over)]]

\* Nothing leads out of all that lies below.
LEMMA AllBelowIsShut ==
  ASSUME NEW N, NEW B, Layers(N, B), NEW over \in SUBSET N
  PROVE  Shut(N, B, AllBelow(N, B, over)) /\ over \subseteq AllBelow(N, B, over)
<1> DEFINE A == AllBelow(N, B, over)
<1>1. A \in SUBSET N /\ over \subseteq A
  BY DEF AllBelow
<1>2. ASSUME NEW x \in A, NEW y \in B[x]
      PROVE  y \in A
  <2>1. y \in N
    BY <1>1 DEF Layers
  <2>2. ASSUME NEW C, Shut(N, B, C), over \subseteq C
        PROVE  y \in C
    <3>1. x \in C
      BY <2>2 DEF AllBelow
    <3>2. QED
      BY <2>2, <3>1 DEF Shut, Below
  <2>3. QED
    BY <2>1, <2>2 DEF AllBelow
<1>3. Below(B, A) \subseteq A
  BY <1>2 DEF Below
<1>4. QED
  BY <1>1, <1>3 DEF Shut

\* One step down leaves out nothing and adds nothing.
LEMMA OneStepDown ==
  ASSUME NEW N, NEW B, Layers(N, B), NEW over \in SUBSET N, NEW more, more = over \cup Below(B, over)
  PROVE  /\ more \in SUBSET N
         /\ AllBelow(N, B, more) = AllBelow(N, B, over)
         /\ Below(B, over) \subseteq over => AllBelow(N, B, over) = over
<1>1. more \in SUBSET N
  BY DEF Layers, Below
<1>2. ASSUME NEW C, Shut(N, B, C)
      PROVE  over \subseteq C <=> more \subseteq C
  BY <1>2 DEF Shut, Below
<1>3. AllBelow(N, B, more) = AllBelow(N, B, over)
  BY <1>2 DEF AllBelow
<1>4. ASSUME Below(B, over) \subseteq over
      PROVE  AllBelow(N, B, over) = over
  <2>1. Shut(N, B, over)
    BY <1>4 DEF Shut
  <2>2. QED
    BY <2>1, AllBelowIsShut DEF AllBelow
<1>5. QED
  BY <1>1, <1>3, <1>4

\* All that lies below solves the recursion that goes down.
LEMMA AllBelowGoesDown ==
  ASSUME NEW N, NEW B, Layers(N, B)
  PROVE  GoesDown([over \in SUBSET N |-> AllBelow(N, B, over)], N, B)
<1> DEFINE f == [over \in SUBSET N |-> AllBelow(N, B, over)]
<1>1. ASSUME NEW over \in SUBSET N
      PROVE  f[over] = IF Below(B, over) \subseteq over THEN over ELSE f[over \cup Below(B, over)]
  <2> DEFINE more == over \cup Below(B, over)
  <2>1. /\ more \in SUBSET N
        /\ AllBelow(N, B, more) = AllBelow(N, B, over)
        /\ Below(B, over) \subseteq over => AllBelow(N, B, over) = over
    BY OneStepDown
  <2>2. QED
    BY <2>1
<1>2. QED
  BY <1>1 DEF GoesDown

\* Any solution of that recursion is all that lies below: each step down leaves
\* fewer nodes outside.
LEMMA GoingDownIsAllBelow ==
  ASSUME NEW N, NEW B, Layers(N, B), NEW f, GoesDown(f, N, B)
  PROVE  \A over \in SUBSET N : f[over] = AllBelow(N, B, over)
<1> DEFINE Wrong(over) == over \in SUBSET N /\ f[over] # AllBelow(N, B, over)
           left(over) == Cardinality(N \ over)
<1>1. ASSUME NEW over, Wrong(over)
      PROVE  \E more : Wrong(more) /\ left(more) < left(over)
  <2> DEFINE more == over \cup Below(B, over)
  <2>1. f[over] = IF Below(B, over) \subseteq over THEN over ELSE f[more]
    BY <1>1 DEF GoesDown
  <2>2. /\ more \in SUBSET N
        /\ AllBelow(N, B, more) = AllBelow(N, B, over)
        /\ Below(B, over) \subseteq over => AllBelow(N, B, over) = over
    BY <1>1, OneStepDown
  <2>3. ~(Below(B, over) \subseteq over)
    BY <1>1, <2>1, <2>2
  <2>4. PICK y \in Below(B, over) : y \notin over
    BY <2>3
  <2>5. left(more) < left(over)
    <3> DEFINE a == N \ over
               b == N \ more
    <3>1. IsFiniteSet(a) /\ b \in SUBSET a /\ y \in a /\ y \notin b
      BY <1>1, <2>2, <2>4, FS_Difference DEF Layers
    <3> HIDE DEF a, b
    <3>2. Cardinality(b) <= Cardinality(a) /\ Cardinality(b) # Cardinality(a)
      BY <3>1, FS_Subset
    <3>3. Cardinality(a) \in Nat /\ Cardinality(b) \in Nat
      BY <3>1, FS_Subset, FS_CardinalityType
    <3>4. Cardinality(b) < Cardinality(a)
      BY <3>2, <3>3
    <3>5. QED
      BY <3>4 DEF a, b
  <2>6. Wrong(more)
    BY <1>1, <2>1, <2>2, <2>3
  <2>7. QED
    BY <2>5, <2>6
<1>2. ASSUME NEW over, Wrong(over)
      PROVE  left(over) \in Nat
  BY <1>2, FS_Difference, FS_CardinalityType DEF Layers
<1> HIDE DEF Wrong, left
<1>3. ASSUME NEW c, Wrong(c)
      PROVE  FALSE
  <2> DEFINE Lefts == {k \in Nat : \E over : Wrong(over) /\ left(over) = k}
  <2>1. Lefts # {} /\ Lefts \in SUBSET Nat
    BY <1>2, <1>3
  <2>2. PICK k \in Lefts : \A j \in Lefts : k <= j
    BY <2>1, LeastOf
  <2>3. PICK over : Wrong(over) /\ left(over) = k
    OBVIOUS
  <2>4. PICK more : Wrong(more) /\ left(more) < left(over)
    BY <1>1, <2>3
  <2>5. left(more) \in Lefts
    BY <1>2, <2>4
  <2>6. QED
    BY <1>2, <2>2, <2>3, <2>4, <2>5
<1>4. QED
  BY <1>3 DEF Wrong

\* The devices that the recursion of Beneath goes through.
BeneathNames(d, n) == {n, PartitionToDisk(d, n)} \cup Connected(d)

\* What each of them sits on.
BelowDevice(d, n) == [x \in BeneathNames(d, n) |-> {PartitionToDisk(d, x)} \cup Slaves(d, x)]

\* Beneath is all that lies below a device.
LEMMA BeneathIs ==
  ASSUME NEW d, NEW n, Layers(BeneathNames(d, n), BelowDevice(d, n))
  PROVE  Beneath(d, n) = AllBelow(BeneathNames(d, n), BelowDevice(d, n), {n})
<1> DEFINE N == BeneathNames(d, n)
           B == BelowDevice(d, n)
           below(x) == {PartitionToDisk(d, x)} \cup Slaves(d, x)
           Rec(f) == f = [over \in SUBSET ({n, PartitionToDisk(d, n)} \cup Connected(d)) |->
                            IF UNION {below(x) : x \in over} \subseteq over THEN over
                            ELSE f[over \cup UNION {below(x) : x \in over}]]
           down == CHOOSE f : Rec(f)
<1>1. Beneath(d, n) = down[{n}]
  BY DEF Beneath
<1>2. \A over \in SUBSET N : Below(B, over) = UNION {below(x) : x \in over}
  BY DEF Below, BelowDevice
<1>3. \A f : Rec(f) <=> GoesDown(f, N, B)
  BY <1>2 DEF GoesDown, BeneathNames
<1>4. n \in N
  BY DEF BeneathNames
<1> HIDE DEF N, B, Rec
<1>5. \E f : Rec(f)
  BY <1>3, AllBelowGoesDown, Zenon DEF N, B
<1>6. Rec(down)
  BY <1>5, Zenon
<1> HIDE DEF down
<1>7. down[{n}] = AllBelow(N, B, {n})
  BY <1>3, <1>4, <1>6, GoingDownIsAllBelow DEF N, B
<1>8. QED
  BY <1>1, <1>7 DEF N, B

-----------------------------------------------------------------------------
(* walk_slaves comes to what lies beneath                                  *)

\* A disk is its own disk, and only a disk has slaves.
LEMMA DiskOfDisk ==
  ASSUME NEW d, Tidy(d), NEW n
  PROVE  /\ PartitionToDisk(d, n) \notin DOMAIN d.above
         /\ PartitionToDisk(d, PartitionToDisk(d, n)) = PartitionToDisk(d, n)
         /\ n \notin DOMAIN d.above => PartitionToDisk(d, n) = n
         /\ n \in DOMAIN d.slaves => PartitionToDisk(d, n) = n
         /\ n \notin DOMAIN d.slaves => Slaves(d, n) = {}
  BY DEF Tidy, PartitionToDisk, Slaves

\* The devices of a tidy machine are finite layers.
LEMMA LayersOfDevices ==
  ASSUME NEW d, Tidy(d), FiniteDevices(d), NEW n
  PROVE  Layers(BeneathNames(d, n), BelowDevice(d, n))
<1> DEFINE N == BeneathNames(d, n)
           B == BelowDevice(d, n)
<1>1. IsFiniteSet(N)
  <2>1. IsFiniteSet({n} \cup Connected(d))
    BY NamesOfTheWalk
  <2>2. IsFiniteSet({n} \cup Connected(d) \cup {PartitionToDisk(d, n)})
    BY <2>1, FS_AddElement
  <2>3. N = {n} \cup Connected(d) \cup {PartitionToDisk(d, n)}
    BY DEF BeneathNames
  <2>4. QED
    BY <2>2, <2>3, Zenon
<1>2. \A x \in DOMAIN d.slaves : /\ Slaves(d, x) \subseteq Connected(d)
                                  /\ \A y \in Slaves(d, x) : PartitionToDisk(d, y) \in Connected(d)
  BY DEF Connected
<1>3. \A x \in Connected(d) : PartitionToDisk(d, x) \in Connected(d)
  <2>1. TAKE x \in Connected(d)
  <2>2. \/ x \in DOMAIN d.slaves
        \/ \E y \in DOMAIN d.slaves : x \in Slaves(d, y)
        \/ \E y \in DOMAIN d.slaves : \E z \in Slaves(d, y) : x = PartitionToDisk(d, z)
    BY DEF Connected
  <2>3. QED
    BY <1>2, <2>2, DiskOfDisk
<1>4. \A x \in N : {PartitionToDisk(d, x)} \cup Slaves(d, x) \subseteq N
  BY <1>2, <1>3, DiskOfDisk DEF BeneathNames
<1>5. QED
  BY <1>1, <1>4 DEF Layers, BelowDevice

\* walk_slaves takes a way of its own through the devices and stops at drives;
\* it comes to the drives that a device really lies on.
THEOREM WalkIsBeneath ==
  ASSUME NEW d, Tidy(d), FiniteDevices(d), DrivesSitOnNothing(d), NEW n,
         NEW x, x \notin DOMAIN d.above
  PROVE  x \in WalkSlaves(d, PartitionToDisk(d, n)) <=> x \in Beneath(d, n) /\ IsDriveName(x)
<1> DEFINE s == PartitionToDisk(d, n)
           W == {s} \cup Connected(d)
           R == ToCome(d, W, {s}, {})
           N == BeneathNames(d, n)
           B == BelowDevice(d, n)
           A == AllBelow(N, B, {n})
<1>1. x \in WalkSlaves(d, s) <=> x \in R /\ IsDriveName(x)
  BY WalkSlavesIs DEF DrivesIn
<1>2. Layers(N, B)
  BY LayersOfDevices
<1>3. Beneath(d, n) = A
  BY <1>2, BeneathIs
<1>4. \A y \in N : B[y] = {PartitionToDisk(d, y)} \cup Slaves(d, y)
  BY DEF BelowDevice
<1>5. n \in N /\ s \in N /\ W \subseteq N
  BY DEF BeneathNames
<1>6. Within(d, W)
  BY NamesOfTheWalk
<1> HIDE DEF N, B, A, W, R
<1>7. Shut(N, B, A) /\ n \in A
  <2>1. {n} \in SUBSET N
    BY <1>5
  <2>2. QED
    BY <1>2, <2>1, AllBelowIsShut DEF A
<1>8. R \in SUBSET W /\ Holds(d, {s}, {}, R)
  <2>1. {s} \in SUBSET W
    BY DEF W
  <2>2. QED
    BY <1>6, <2>1, ToComeHolds DEF R
<1>9. ASSUME x \in R
      PROVE  x \in A
  <2> DEFINE C == A \cap W
  <2>1. s \in C
    BY <1>4, <1>5, <1>7 DEF Shut, Below, W
  <2>2. ASSUME NEW y \in C, NEW z \in Onward(d, y)
        PROVE  z \in C
    <3>1. PICK t \in Slaves(d, y) : z = PartitionToDisk(d, t)
      BY <2>2 DEF Onward, Under
    <3>2. t \in A
      BY <1>4, <1>7, <2>2 DEF Shut, Below
    <3>3. z \in A
      BY <1>4, <1>7, <3>1, <3>2 DEF Shut, Below
    <3>4. z \in W
      BY <1>6, <2>2 DEF Within, Onward
    <3>5. QED
      BY <3>3, <3>4
  <2>3. C \in SUBSET W /\ Holds(d, {s}, {}, C)
    BY <2>1, <2>2 DEF Holds
  <2> HIDE DEF C
  <2>4. x \in C
    BY <1>9, <2>3 DEF R, ToCome
  <2>5. QED
    BY <2>4 DEF C
<1>10. ASSUME x \in A
       PROVE  x \in R
  <2> DEFINE C == {y \in N : PartitionToDisk(d, y) \in R}
  <2>1. n \in C
    BY <1>5, <1>8 DEF Holds
  <2>2. ASSUME NEW y \in C, NEW z \in B[y]
        PROVE  z \in C
    <3>1. z \in N
      BY <1>2, <2>2 DEF Layers
    <3>2. CASE z = PartitionToDisk(d, y)
      BY <2>2, <3>1, <3>2, DiskOfDisk
    <3>3. CASE z \in Slaves(d, y)
      <4>1. y \in DOMAIN d.slaves /\ y \in R /\ ~IsDriveName(y)
        BY <2>2, <3>3, DiskOfDisk DEF DrivesSitOnNothing
      <4>2. PartitionToDisk(d, z) \in Onward(d, y)
        BY <3>3, <4>1 DEF Onward, Under
      <4>3. PartitionToDisk(d, z) \in R
        BY <1>8, <4>1, <4>2 DEF Holds
      <4>4. QED
        BY <3>1, <4>3
    <3>4. QED
      BY <1>4, <2>2, <3>2, <3>3
  <2>3. Shut(N, B, C)
    BY <2>2 DEF Shut, Below
  <2>4. {n} \subseteq C
    BY <2>1
  <2> HIDE DEF C
  <2>5. x \in C
    BY <1>10, <2>3, <2>4 DEF A, AllBelow
  <2>6. QED
    BY <2>5, DiskOfDisk DEF C
<1>11. QED
  BY <1>1, <1>3, <1>9, <1>10

-----------------------------------------------------------------------------
(* The lines of mountinfo                                                  *)

\* What sysfs says of the devices is all that the walk reads of a machine.
LEMMA DevicesAre ==
  ASSUME NEW m, NEW n
  PROVE  /\ Devices(m).above = m.above /\ Devices(m).slaves = m.slaves
         /\ PartitionToDisk(Devices(m), n) = PartitionToDisk(m, n)
         /\ Slaves(Devices(m), n) = Slaves(m, n)
  BY DEF Devices, PartitionToDisk, Slaves

\* The drives that the walk finds from what carries a mount are its carriers.
LEMMA BaseDisksAreCarriers ==
  ASSUME NEW m, m.kind = "linux", Orderly(m), NEW volume, NEW x \in DOMAIN m.disks
  PROVE  x \in BaseDisks(m, PartitionToDisk(m, volume.on)) <=> x \in Carriers(m, volume)
<1> DEFINE d == Devices(m)
           n == volume.on
<1>1. x \notin DOMAIN d.above
  BY DevicesAre DEF Orderly
<1>2. Tidy(d) /\ FiniteDevices(d) /\ DrivesSitOnNothing(d)
  BY DEF Orderly
<1>3. PartitionToDisk(d, n) = PartitionToDisk(m, n)
  BY DevicesAre
<1> HIDE DEF d, n
<1>4. x \in WalkSlaves(d, PartitionToDisk(d, n)) <=> x \in Beneath(d, n) /\ IsDriveName(x)
  BY <1>1, <1>2, WalkIsBeneath
<1>5. QED
  BY <1>3, <1>4 DEF BaseDisks, Carriers, d, n

\* A line that names a device leads to the disk of what carries the mount.
LEMMA BehindIs ==
  ASSUME NEW m, Orderly(m), NEW x, LineIsTrue(m, x), NamesADevice(m, x)
  PROVE  Behind(m, x) = {PartitionToDisk(m, x.on)}
<1>1. \A n : PartitionToDisk(m, PartitionToDisk(m, n)) = PartitionToDisk(m, n)
  <2> DEFINE d == Devices(m)
  <2>1. Tidy(d)
    BY DEF Orderly
  <2>2. \A n : PartitionToDisk(d, n) = PartitionToDisk(m, n)
    BY DevicesAre
  <2> HIDE DEF d
  <2>3. \A n : PartitionToDisk(d, PartitionToDisk(d, n)) = PartitionToDisk(d, n)
    BY <2>1, DiskOfDisk
  <2>4. QED
    BY <2>2, <2>3
<1>2. CASE x.number # "0"
  <2>1. DiskForDev(m, x.number) = {PartitionToDisk(m, x.number)}
    BY <1>2 DEF DiskForDev, PartitionToDisk, LineIsTrue, Devs, Orderly
  <2>2. QED
    BY <1>1, <1>2, <2>1 DEF Behind, LineIsTrue
<1>3. CASE x.number = "0"
  BY <1>3 DEF Behind, LineIsTrue, NamesADevice, Orderly
<1>4. QED
  BY <1>2, <1>3

\* A line that names no device leads to no drive that the kernel shows.
LEMMA NothingBehind ==
  ASSUME NEW m, Orderly(m), NEW x, ~NamesADevice(m, x)
  PROVE  DrivesUnder(m, x) \cap DOMAIN m.disks = {}
<1> DEFINE d == Devices(m)
           s == x.source
           W == {s} \cup Connected(d)
<1>1. Behind(m, x) \subseteq {s} /\ s \notin Devs(m)
  BY DEF Behind, NamesADevice, PartitionToDisk, Devs
<1>2. Slaves(d, s) = {}
  BY <1>1, DevicesAre DEF Slaves, Orderly, Devs
<1>3. Holds(d, {s}, {}, {s})
  BY <1>2 DEF Holds, Onward, Under
<1>4. {s} \in SUBSET W
  OBVIOUS
<1>5. ToCome(d, W, {s}, {}) \subseteq {s}
  <2> HIDE DEF W, s, d
  <2>1. QED
    BY <1>3, <1>4 DEF ToCome
<1>6. FiniteDevices(d)
  BY DEF Orderly
<1> HIDE DEF d
<1>7. WalkSlaves(d, s) \subseteq {s}
  BY <1>5, <1>6, WalkSlavesIs DEF DrivesIn
<1>8. DrivesUnder(m, x) \subseteq {s}
  BY <1>1, <1>7 DEF DrivesUnder, BaseDisks, d
<1>9. QED
  BY <1>1, <1>8 DEF Devs

\* A line that names a device leads to the drives that carry the mount.
LEMMA DrivesUnderAreCarriers ==
  ASSUME NEW m, m.kind = "linux", Orderly(m), NEW x, LineIsTrue(m, x), NamesADevice(m, x),
         NEW n \in DOMAIN m.disks
  PROVE  n \in DrivesUnder(m, x) <=> n \in Carriers(m, x)
  BY BehindIs, BaseDisksAreCarriers DEF DrivesUnder

\* Finitely many mounts lie on finitely many disks.
LEMMA DisksOfMountsAreFinite ==
  ASSUME NEW m, IsFiniteSet(m.mounts), NEW T,
         \A y : y \in T => \E x \in m.mounts : y = PartitionToDisk(m, x.on)
  PROVE  IsFiniteSet(T)
<1> DEFINE lies == [x \in m.mounts |-> PartitionToDisk(m, x.on)]
           all == {lies[x] : x \in m.mounts}
<1>1. IsImage(m.mounts, lies, all)
  BY DEF IsImage
<1>2. T \subseteq all
  OBVIOUS
<1> HIDE DEF lies, all
<1>3. IsFiniteSet(all)
  BY <1>1, ImageIsFinite
<1>4. QED
  BY <1>2, <1>3, FS_Subset

\* The same of a loop device: the one device that holds its file carries it.
LEMMA LoopDisksAreCertain ==
  ASSUME NEW m, m.kind = "linux", LinuxTells(m), NEW n \in DOMAIN m.disks
  PROVE  n \in LoopBackedDisks(m) <=> n \in CertainLoop(m)
<1> DEFINE loops == {x.source : x \in m.mounts} \cap DOMAIN m.backing
           code(l) == UNION {Behind(m, c) : c \in Candidates(m, l)}
           real(l) == {PartitionToDisk(m, x.on) : x \in {y \in m.mounts : HoldsFileOf(m, y, l) /\ ~IsLoop(y.on)}}
           found(l) == UNION {DrivesUnder(m, c) : c \in Candidates(m, l)}
           under(l) == Carriers(m, [on |-> m.backing[l].on])
<1>1. n \in LoopBackedDisks(m) <=> \E l \in loops : Cardinality(code(l)) = 1 /\ n \in found(l)
  <2>1. \A l \in DOMAIN m.backing : IsLoop(l)
    BY DEF LinuxTells, LoopIsTold
  <2> DEFINE at == {x \in m.mounts : IsLoop(x.source) /\ x.source \in DOMAIN m.backing}
  <2>2. \A l : l \in loops <=> \E x \in at : l = x.source
    BY <2>1
  <2>3. LoopBackedDisks(m) = UNION {IF Cardinality(code(x.source)) = 1 THEN found(x.source) ELSE {} : x \in at}
    BY DEF LoopBackedDisks
  <2> HIDE DEF at, loops, code, found
  <2>4. QED
    BY <2>2, <2>3
<1>2. n \in CertainLoop(m) <=> \E l \in loops : Cardinality(real(l)) = 1 /\ n \in under(l)
  <2>1. CertainLoop(m) = UNION {IF Cardinality(real(l)) = 1 THEN under(l) ELSE {} : l \in loops}
    BY DEF CertainLoop, HoldsFileOf
  <2> HIDE DEF loops, real, under
  <2>2. QED
    BY <2>1
<1>3. ASSUME NEW l \in loops
      PROVE  /\ code(l) = real(l)
             /\ Cardinality(real(l)) = 1 => (n \in found(l) <=> n \in under(l))
  <2>1. LoopIsTold(m, l) /\ Orderly(m)
    BY <1>3 DEF LinuxTells
  <2>2. Candidates(m, l) = {x \in m.mounts : HoldsFileOf(m, x, l) /\ ~IsLoop(x.on)}
    BY <2>1 DEF Candidates, HoldsFileOf, LoopIsTold
  <2>3. \A c \in Candidates(m, l) : LineIsTrue(m, c) /\ NamesADevice(m, c)
    BY <2>1, <2>2 DEF LoopIsTold
  <2>4. \A c \in Candidates(m, l) : Behind(m, c) = {PartitionToDisk(m, c.on)}
    BY <2>1, <2>3, BehindIs
  <2>5. code(l) = real(l)
    BY <2>2, <2>4
  <2>6. PICK x \in Candidates(m, l) : PartitionToDisk(m, x.on) = PartitionToDisk(m, m.backing[l].on)
    BY <1>3, <2>1, <2>2 DEF LoopIsTold
  <2>7. ASSUME Cardinality(real(l)) = 1
        PROVE  \A c \in Candidates(m, l) : Behind(m, c) = {PartitionToDisk(m, m.backing[l].on)}
    <3>1. \A c \in Candidates(m, l) : PartitionToDisk(m, c.on) \in real(l)
      BY <2>2
    <3> HIDE DEF real
    <3>2. PICK r : real(l) = {r}
      <4>1. IsFiniteSet(m.mounts)
        BY <2>1 DEF Orderly
      <4>2. \A y : y \in real(l) => \E z \in m.mounts : y = PartitionToDisk(m, z.on)
        BY DEF real
      <4> HIDE DEF real
      <4>3. IsFiniteSet(real(l))
        BY <4>1, <4>2, DisksOfMountsAreFinite
      <4>4. QED
        BY <2>7, <4>3, FS_Singleton
    <3>3. QED
      BY <2>4, <2>6, <3>1, <3>2
  <2>8. Cardinality(real(l)) = 1 => found(l) = BaseDisks(m, PartitionToDisk(m, m.backing[l].on))
    <3> HIDE DEF real
    <3>1. QED
      BY <2>6, <2>7 DEF DrivesUnder
  <2>9. n \in BaseDisks(m, PartitionToDisk(m, m.backing[l].on)) <=> n \in under(l)
    <3> DEFINE v == [on |-> m.backing[l].on]
    <3>1. v.on = m.backing[l].on
      OBVIOUS
    <3> HIDE DEF v
    <3>2. n \in BaseDisks(m, PartitionToDisk(m, v.on)) <=> n \in Carriers(m, v)
      BY <2>1, BaseDisksAreCarriers
    <3>3. QED
      BY <3>1, <3>2 DEF v
  <2>10. QED
    BY <2>5, <2>8, <2>9
<1> HIDE DEF loops, code, real, found, under
<1>4. QED
  BY <1>1, <1>2, <1>3

\* What the list marks of a Linux machine is what its system needs.
LEMMA LinuxMarks ==
  ASSUME NEW m, m.kind = "linux", LinuxTells(m), NEW n \in DOMAIN m.disks
  PROVE  n \in LinuxSystem(m) <=> n \in Needed(m)
<1>1. Orderly(m) /\ \A x \in m.mounts : x.point \in MARKED => LineIsTrue(m, x)
  BY DEF LinuxTells
<1>2. (\E x \in m.mounts : x.point \in MARKED /\ n \in DrivesUnder(m, x)) <=> n \in NamedRoot(m)
  <2>1. \A x \in m.mounts : x.point \in MARKED =>
          (n \in DrivesUnder(m, x) <=> NamesADevice(m, x) /\ n \in Carriers(m, x))
    <3>1. TAKE x \in m.mounts
    <3>2. HAVE x.point \in MARKED
    <3>3. CASE NamesADevice(m, x)
      BY <1>1, <3>2, <3>3, DrivesUnderAreCarriers
    <3>4. CASE ~NamesADevice(m, x)
      BY <1>1, <3>4, NothingBehind
    <3>5. QED
      BY <3>3, <3>4
  <2>2. n \in NamedRoot(m) <=>
          \E x \in m.mounts : x.point \in MARKED /\ NamesADevice(m, x) /\ n \in Carriers(m, x)
    BY DEF NamedRoot, NamesADevice, Devs
  <2>3. QED
    BY <2>1, <2>2
<1>3. \A s : n \in BaseDisks(m, PartitionToDisk(m, s)) <=> n \in Carriers(m, [on |-> s])
  <2>1. TAKE s
  <2> DEFINE v == [on |-> s]
  <2>2. v.on = s
    OBVIOUS
  <2> HIDE DEF v
  <2>3. n \in BaseDisks(m, PartitionToDisk(m, v.on)) <=> n \in Carriers(m, v)
    BY <1>1, BaseDisksAreCarriers
  <2>4. QED
    BY <2>2, <2>3 DEF v
<1>4. n \in LoopBackedDisks(m) <=> n \in CertainLoop(m)
  BY LoopDisksAreCertain
<1>5. n \in LinuxSystem(m) <=>
        \/ \E x \in m.mounts : x.point \in MARKED /\ n \in DrivesUnder(m, x)
        \/ \E s \in m.swaps : n \in BaseDisks(m, PartitionToDisk(m, s))
        \/ n \in LoopBackedDisks(m)
  BY DEF LinuxSystem
<1>6. n \in Needed(m) <=>
        \/ n \in NamedRoot(m)
        \/ \E s \in m.swaps : n \in Carriers(m, [on |-> s])
        \/ n \in CertainLoop(m)
  BY DEF Needed
<1>7. QED
  BY <1>2, <1>3, <1>4, <1>5, <1>6

-----------------------------------------------------------------------------
(* The record of the device registry                                       *)

\* A way up the registry, one parent after the other.
WayUp(m, n, c) ==
  /\ c \in Seq(DOMAIN m.nodes) /\ c # <<>> /\ c[1] = n
  /\ \A i \in 1 .. Len(c) - 1 : m.parent[c[i]] # Nothing /\ c[i + 1] = m.parent[c[i]]

\* A sequence with one more element before it.
LEMMA OneBefore ==
  ASSUME NEW S, NEW x \in S, NEW rest \in Seq(S)
  PROVE  /\ <<x>> \o rest \in Seq(S) /\ Len(<<x>> \o rest) = Len(rest) + 1 /\ (<<x>> \o rest)[1] = x
         /\ \A i \in 1 .. Len(rest) : (<<x>> \o rest)[i + 1] = rest[i]
  OBVIOUS

\* A node alone is a way up.
LEMMA WayUpOfOne ==
  ASSUME NEW m, NEW x \in DOMAIN m.nodes
  PROVE  WayUp(m, x, <<x>>)
<1> DEFINE S == DOMAIN m.nodes
           c == <<x>>
<1>1. c \in Seq(S) /\ Len(c) = 1 /\ c[1] = x /\ c # <<>>
  <2>1. x \in S
    OBVIOUS
  <2> HIDE DEF S
  <2>2. QED
    BY <2>1
<1> HIDE DEF c
<1>2. QED
  BY <1>1 DEF WayUp, c

\* The ways of one more level, from those of the level before.
Climbed(m, k, below) ==
  [x \in DOMAIN m.parent |->
     IF k = 0 \/ m.parent[x] = Nothing THEN <<x>> ELSE <<x>> \o below[m.parent[x]]]

\* The recursion of Chain.
Climbs(f, m, levels) == f = [k \in 0 .. levels |-> Climbed(m, k, f[k - 1])]

\* It has a solution, whatever the number of levels.
LEMMA ClimbsIsThere ==
  ASSUME NEW m, NEW levels \in Nat
  PROVE  \E f : Climbs(f, m, levels)
<1> DEFINE Lacking == {k \in Nat : ~\E f : Climbs(f, m, k)}
<1>1. ASSUME Lacking # {}
      PROVE  FALSE
  <2>1. Lacking \in SUBSET Nat
    OBVIOUS
  <2>2. PICK k \in Lacking : \A j \in Lacking : k <= j
    <3> HIDE DEF Lacking
    <3>1. QED
      BY <1>1, <2>1, LeastOf
  <2>3. k \in Nat /\ ~\E f : Climbs(f, m, k)
    OBVIOUS
  <2>4. CASE k = 0
    <3> DEFINE none == [j \in {} |-> j]
               f == [j \in 0 .. 0 |-> Climbed(m, 0, none)]
    <3>1. \A below : Climbed(m, 0, below) = Climbed(m, 0, none)
      BY DEF Climbed
    <3> HIDE DEF none
    <3>2. f = [j \in 0 .. 0 |-> Climbed(m, j, f[j - 1])]
      <4>1. \A j \in 0 .. 0 : j = 0 /\ Climbed(m, j, f[j - 1]) = Climbed(m, 0, none)
        BY <3>1
      <4>2. QED
        BY <4>1
    <3> HIDE DEF f
    <3>3. Climbs(f, m, 0)
      BY <3>2 DEF Climbs
    <3>4. QED
      BY <2>3, <2>4, <3>3
  <2>5. CASE k # 0
    <3>1. k - 1 \in Nat /\ k - 1 \notin Lacking
      BY <2>2, <2>3, <2>5
    <3>2. PICK g : Climbs(g, m, k - 1)
      BY <3>1
    <3> DEFINE f == [j \in 0 .. k |-> IF j = k THEN Climbed(m, k, g[k - 1]) ELSE g[j]]
    <3>3. \A j \in 0 .. k - 1 : g[j] = Climbed(m, j, g[j - 1])
      BY <3>2 DEF Climbs
    <3>4. ASSUME NEW j \in 0 .. k
          PROVE  f[j] = Climbed(m, j, f[j - 1])
      <4>1. CASE j = k
        <5>1. f[j - 1] = g[k - 1] /\ f[j] = Climbed(m, k, g[k - 1])
          BY <2>3, <2>5, <4>1
        <5>2. QED
          BY <4>1, <5>1
      <4>2. CASE j = 0
        <5>1. \A a, b : Climbed(m, 0, a) = Climbed(m, 0, b)
          BY DEF Climbed
        <5>2. f[j] = g[0] /\ g[0] = Climbed(m, 0, g[0 - 1])
          BY <2>3, <2>5, <3>1, <3>3, <4>2
        <5> HIDE DEF f
        <5>3. QED
          BY <4>2, <5>1, <5>2
      <4>3. CASE j # k /\ j # 0
        <5>1. j \in 0 .. k - 1 /\ f[j] = g[j] /\ f[j - 1] = g[j - 1]
          BY <2>3, <2>5, <4>3
        <5>2. QED
          BY <3>3, <5>1
      <4>4. QED
        BY <4>1, <4>2, <4>3
    <3>5. f = [j \in 0 .. k |-> Climbed(m, j, f[j - 1])]
      <4>1. \A j \in 0 .. k : f[j] = Climbed(m, j, f[j - 1])
        BY <3>4
      <4>2. DOMAIN f = 0 .. k /\ f = [j \in 0 .. k |-> f[j]]
        OBVIOUS
      <4> HIDE DEF f
      <4>3. QED
        BY <4>1, <4>2
    <3> HIDE DEF f
    <3>6. Climbs(f, m, k)
      BY <3>5 DEF Climbs
    <3>7. QED
      BY <2>3, <3>6
  <2>6. QED
    BY <2>4, <2>5
<1>2. QED
  BY <1>1

\* Each solution gives ways up.
LEMMA ClimbsIsAWayUp ==
  ASSUME NEW m, Registry(m), NEW levels \in Nat, NEW f, Climbs(f, m, levels)
  PROVE  \A k \in 0 .. levels : \A x \in DOMAIN m.nodes : WayUp(m, x, f[k][x])
<1> DEFINE Wrong == {k \in 0 .. levels : \E x \in DOMAIN m.nodes : ~WayUp(m, x, f[k][x])}
<1>1. ASSUME Wrong # {}
      PROVE  FALSE
  <2>1. Wrong \in SUBSET Nat
    OBVIOUS
  <2>2. PICK k \in Wrong : \A j \in Wrong : k <= j
    <3> HIDE DEF Wrong
    <3>1. QED
      BY <1>1, <2>1, LeastOf
  <2>3. PICK x \in DOMAIN m.nodes : ~WayUp(m, x, f[k][x])
    OBVIOUS
  <2>4. k \in 0 .. levels /\ f[k] = Climbed(m, k, f[k - 1])
    BY DEF Climbs
  <2> DEFINE p == m.parent[x]
             rest == f[k - 1][p]
  <2>5. f[k][x] = IF k = 0 \/ p = Nothing THEN <<x>> ELSE <<x>> \o rest
    BY <2>4 DEF Climbed, Registry
  <2>6. CASE k = 0 \/ p = Nothing
    <3>1. WayUp(m, x, <<x>>)
      BY WayUpOfOne
    <3>2. QED
      BY <2>3, <2>5, <2>6, <3>1
  <2>7. CASE k # 0 /\ p # Nothing
    <3>1. p \in DOMAIN m.nodes /\ k - 1 \in 0 .. levels /\ k - 1 \notin Wrong
      BY <2>2, <2>4, <2>7 DEF Registry
    <3>2. WayUp(m, p, rest)
      BY <3>1
    <3> HIDE DEF rest
    <3> DEFINE c == <<x>> \o rest
    <3>3. c \in Seq(DOMAIN m.nodes) /\ Len(c) = Len(rest) + 1 /\ c[1] = x
      <4> DEFINE S == DOMAIN m.nodes
      <4>1. x \in S /\ rest \in Seq(S)
        BY <3>2 DEF WayUp
      <4> HIDE DEF S
      <4>2. c \in Seq(S) /\ Len(c) = Len(rest) + 1 /\ c[1] = x
        BY <4>1, OneBefore
      <4>3. QED
        BY <4>2 DEF S
    <3>4. \A i \in 1 .. Len(rest) : c[i + 1] = rest[i]
      <4> DEFINE S == DOMAIN m.nodes
      <4>1. x \in S /\ rest \in Seq(S)
        BY <3>2 DEF WayUp
      <4> HIDE DEF S
      <4>2. QED
        BY <4>1, OneBefore
    <3>5. Len(rest) \in Nat /\ Len(rest) > 0
      BY <3>2 DEF WayUp
    <3>6. ASSUME NEW i \in 1 .. Len(c) - 1
          PROVE  m.parent[c[i]] # Nothing /\ c[i + 1] = m.parent[c[i]]
      <4>1. CASE i = 1
        BY <2>7, <3>2, <3>3, <3>4, <3>5, <4>1 DEF WayUp
      <4>2. CASE i # 1
        <5>1. i - 1 \in 1 .. Len(rest) - 1 /\ c[i] = rest[i - 1] /\ c[i + 1] = rest[i]
          <6>1. i \in 1 .. Len(rest) /\ i - 1 \in 1 .. Len(rest) /\ (i - 1) + 1 = i
            BY <3>3, <3>5, <4>2
          <6>2. c[i + 1] = rest[i] /\ c[(i - 1) + 1] = rest[i - 1]
            BY <3>4, <6>1
          <6> HIDE DEF c
          <6>3. QED
            BY <3>3, <3>5, <6>1, <6>2
        <5> HIDE DEF c
        <5>2. m.parent[rest[i - 1]] # Nothing /\ rest[(i - 1) + 1] = m.parent[rest[i - 1]]
          BY <3>2, <5>1 DEF WayUp
        <5>3. (i - 1) + 1 = i
          OBVIOUS
        <5>4. QED
          BY <5>1, <5>2, <5>3
      <4>3. QED
        BY <4>1, <4>2
    <3>7. WayUp(m, x, c)
      <4> HIDE DEF c
      <4>1. c # <<>>
        BY <3>3, <3>5
      <4>2. QED
        BY <3>3, <3>6, <4>1 DEF WayUp
    <3>8. QED
      BY <2>3, <2>5, <2>7, <3>7
  <2>8. QED
    BY <2>6, <2>7
<1>2. QED
  BY <1>1

\* Chain takes a solution of that recursion.
LEMMA ClimbsOfTheChain ==
  ASSUME NEW m, NEW n
  PROVE  \E f : Climbs(f, m, LEVELS) /\ Chain(m, n) = f[LEVELS][n]
<1> DEFINE Rec(f) == f = [k \in 0 .. LEVELS |->
                            [x \in DOMAIN m.parent |->
                               IF k = 0 \/ m.parent[x] = Nothing THEN <<x>>
                               ELSE <<x>> \o f[k - 1][m.parent[x]]]]
           up == CHOOSE f : Rec(f)
<1>1. Chain(m, n) = up[LEVELS][n]
  BY DEF Chain
<1>2. \A f : Rec(f) <=> Climbs(f, m, LEVELS)
  BY DEF Climbs, Climbed
<1> HIDE DEF Rec
<1>3. LEVELS \in Nat
  BY LevelsAssumption
<1>4. \E f : Rec(f)
  BY <1>2, <1>3, ClimbsIsThere
<1>5. Rec(up)
  BY <1>4, Zenon
<1> HIDE DEF up
<1>6. QED
  BY <1>1, <1>2, <1>5

\* The record of a media is a way up from it.
LEMMA ChainIsAWayUp ==
  ASSUME NEW m, Registry(m), NEW n \in DOMAIN m.nodes
  PROVE  WayUp(m, n, Chain(m, n))
<1>1. PICK f : Climbs(f, m, LEVELS) /\ Chain(m, n) = f[LEVELS][n]
  BY ClimbsOfTheChain
<1>2. LEVELS \in Nat /\ LEVELS \in 0 .. LEVELS
  BY LevelsAssumption
<1>3. QED
  BY <1>1, <1>2, ClimbsIsAWayUp

\* What each node of the registry sits on.
Over(m) == [x \in DOMAIN m.nodes |-> m.nodes[x].over]

\* BeneathNode is all that lies below a node.
LEMMA BeneathNodeIs ==
  ASSUME NEW m, Registry(m), NEW n \in DOMAIN m.nodes
  PROVE  /\ Layers(DOMAIN m.nodes, Over(m))
         /\ BeneathNode(m, n) = AllBelow(DOMAIN m.nodes, Over(m), {n})
<1> DEFINE N == DOMAIN m.nodes
           B == Over(m)
           Rec(f) == f = [over \in SUBSET DOMAIN m.nodes |->
                            IF UNION {m.nodes[x].over : x \in over} \subseteq over THEN over
                            ELSE f[over \cup UNION {m.nodes[x].over : x \in over}]]
           down == CHOOSE f : Rec(f)
<1>1. BeneathNode(m, n) = down[{n}]
  BY DEF BeneathNode
<1>2. \A over \in SUBSET N : Below(B, over) = UNION {m.nodes[x].over : x \in over}
  BY DEF Below, Over
<1>3. \A f : Rec(f) <=> GoesDown(f, N, B)
  BY <1>2 DEF GoesDown
<1>4. {n} \in SUBSET N
  OBVIOUS
<1>5. Layers(N, B)
  BY DEF Layers, Registry, Over
<1> HIDE DEF N, B, Rec
<1>6. \E f : Rec(f)
  BY <1>3, <1>5, AllBelowGoesDown, Zenon
<1>7. Rec(down)
  BY <1>6, Zenon
<1> HIDE DEF down
<1>8. down[{n}] = AllBelow(N, B, {n})
  BY <1>3, <1>4, <1>5, <1>7, GoingDownIsAllBelow
<1>9. QED
  BY <1>1, <1>5, <1>8 DEF N, B

\* The record of a media holds all that it lies on.
LEMMA ChainIsBeneath ==
  ASSUME NEW m, Registry(m), NEW n \in DOMAIN m.nodes, IsRecorded(m, n)
  PROVE  InChain(m, n) = BeneathNode(m, n)
<1> DEFINE N == DOMAIN m.nodes
           B == Over(m)
           A == AllBelow(N, B, {n})
           c == Chain(m, n)
           C == InChain(m, n)
<1>1. A = BeneathNode(m, n) /\ Layers(N, B)
  BY BeneathNodeIs
<1>2. Shut(N, B, A) /\ n \in A
  <2>1. {n} \in SUBSET N
    OBVIOUS
  <2> HIDE DEF N, B
  <2>2. QED
    BY <1>1, <2>1, AllBelowIsShut
<1>3. WayUp(m, n, c)
  BY ChainIsAWayUp
<1>4. C = {c[i] : i \in DOMAIN c}
  BY DEF InChain
<1>5. \A x \in A : B[x] = {m.parent[x]} \ {Nothing} /\ x \in N
  BY <1>1, <1>2 DEF IsRecorded, Over, Shut
<1>6. m.parent[c[Len(c)]] = Nothing
  BY DEF IsRecorded, Last
<1> HIDE DEF N, B, A, c, C
<1>7. Len(c) \in Nat /\ Len(c) > 0 /\ DOMAIN c = 1 .. Len(c) /\ c[1] = n
  BY <1>3 DEF WayUp
<1>8. \A i \in 1 .. Len(c) - 1 : m.parent[c[i]] # Nothing /\ c[i + 1] = m.parent[c[i]]
  BY <1>3 DEF WayUp
<1>9. C \subseteq A
  <2> DEFINE Off == {i \in 1 .. Len(c) : c[i] \notin A}
  <2>1. ASSUME Off # {}
        PROVE  FALSE
    <3>1. Off \in SUBSET Nat
      BY <1>7
    <3>2. PICK i \in Off : \A j \in Off : i <= j
      <4> HIDE DEF Off
      <4>1. QED
        BY <2>1, <3>1, LeastOf
    <3>3. i \in 1 .. Len(c) /\ c[i] \notin A
      OBVIOUS
    <3>4. i # 1
      BY <1>2, <1>7, <3>3
    <3>5. i - 1 \in 1 .. Len(c) - 1 /\ (i - 1) + 1 = i /\ i - 1 \notin Off
      BY <1>7, <3>2, <3>3, <3>4
    <3>6. c[i - 1] \in A /\ i - 1 \in 1 .. Len(c)
      BY <1>7, <3>5
    <3>7. c[i] = m.parent[c[i - 1]] /\ m.parent[c[i - 1]] # Nothing
      BY <1>8, <3>5
    <3>8. c[i] \in B[c[i - 1]]
      BY <1>5, <3>6, <3>7
    <3>9. c[i] \in A
      BY <1>2, <3>6, <3>8 DEF Shut, Below
    <3>10. QED
      BY <3>3, <3>9
  <2>2. QED
    BY <1>4, <1>7, <2>1
<1>10. A \subseteq C
  <2>1. ASSUME NEW x \in C, NEW y \in B[x]
        PROVE  y \in C
    <3>1. PICK i \in 1 .. Len(c) : x = c[i]
      BY <1>4, <1>7
    <3>2. y = m.parent[c[i]] /\ y # Nothing
      BY <1>5, <1>9, <2>1, <3>1
    <3>3. i # Len(c)
      BY <1>6, <3>2
    <3>4. i \in 1 .. Len(c) - 1 /\ i + 1 \in 1 .. Len(c)
      <4> DEFINE l == Len(c)
      <4>1. l \in Nat /\ i \in 1 .. l /\ i # l
        BY <1>7, <3>3
      <4> HIDE DEF l
      <4>2. i \in 1 .. l - 1 /\ i + 1 \in 1 .. l
        BY <4>1
      <4>3. QED
        BY <4>2 DEF l
    <3>5. y = c[i + 1]
      BY <1>8, <3>2, <3>4
    <3>6. QED
      BY <1>4, <1>7, <3>4, <3>5
  <2>2. C \in SUBSET N
    BY <1>5, <1>9
  <2>3. Shut(N, B, C)
    BY <2>1, <2>2 DEF Shut, Below
  <2>4. {n} \subseteq C
    BY <1>4, <1>7
  <2>5. QED
    BY <2>3, <2>4 DEF A, AllBelow
<1>11. QED
  BY <1>1, <1>9, <1>10 DEF C

\* A node has one name or none.
LEMMA OneName ==
  ASSUME NEW m, NEW n, NEW a \in Name(m, n)
  PROVE  Name(m, n) = {a}
  BY DEF Name, As, Get, Converted

\* What the list marks of a Mac is what its system needs.
LEMMA MacosMarks ==
  ASSUME NEW m, m.kind = "macos", MacosTells(m), WellNamed(m),
         NEW x \in Media(m), IsListedMedia(m, x), NEW a \in Name(m, x)
  PROVE  Name(m, x) \subseteq MacosSystem(m) <=> a \in Needed(m)
<1> DEFINE media == UNION {MediaForDev(m, dev) : dev \in m.root}
<1>1. Name(m, x) = {a}
  BY OneName
<1>2. \A y \in DOMAIN m.nodes : a \in Name(m, y) => y = x
  BY <1>1 DEF WellNamed, Media
<1>3. IsPhysicalWhole(m, x) /\ IsWhole(m, x) /\ x \in DOMAIN m.nodes
  BY DEF IsListedMedia, IsPhysicalWhole, Media
<1>4. \A n \in media : n \in DOMAIN m.nodes /\ InChain(m, n) = BeneathNode(m, n)
                       /\ BeneathNode(m, n) \subseteq DOMAIN m.nodes
  <2>1. TAKE n \in media
  <2>2. n \in DOMAIN m.nodes /\ IsRecorded(m, n)
    BY DEF MediaForDev, Media, MacosTells
  <2>3. InChain(m, n) = BeneathNode(m, n)
    BY <2>2, ChainIsBeneath DEF MacosTells
  <2>4. BeneathNode(m, n) \subseteq DOMAIN m.nodes
    BY <2>2, BeneathNodeIs DEF MacosTells, AllBelow
  <2>5. QED
    BY <2>2, <2>3, <2>4
<1>5. a \in MacosSystem(m) <=> \E n \in media : \E w \in WholeDisksAbove(m, n) : a \in Name(m, w)
  BY DEF MacosSystem
<1>6. a \in Needed(m) <=> \E n \in media : \E y \in BeneathNode(m, n) : IsPhysicalWhole(m, y) /\ a \in Name(m, y)
  BY DEF Needed, MacosRoot
<1> HIDE DEF media
<1>7. a \in MacosSystem(m) <=> \E n \in media : x \in BeneathNode(m, n)
  BY <1>1, <1>2, <1>3, <1>4, <1>5 DEF WholeDisksAbove
<1>8. a \in Needed(m) <=> \E n \in media : x \in BeneathNode(m, n)
  BY <1>1, <1>2, <1>3, <1>4, <1>6
<1>9. QED
  BY <1>1, <1>7, <1>8

-----------------------------------------------------------------------------
(* The marks of the list                                                   *)

\* What the list marks is what the running system needs, on any machine that
\* tells what its system lies on.
THEOREM MarksOfTheList ==
  ASSUME NEW m, m.kind \in {"linux", "macos", "windows"}, WellNamed(m), HostTells(m),
         NEW drive \in ListOf(m)
  PROVE  drive.system <=> drive.id \in Needed(m)
<1>1. CASE m.kind = "linux"
  <2>1. PICK n \in DOMAIN m.disks : drive = LinuxDrive(m, n, LinuxSystem(m))
    BY <1>1 DEF ListOf, LinuxDrives
  <2>2. drive.id = n /\ (drive.system <=> n \in LinuxSystem(m))
    BY <2>1 DEF LinuxDrive, DriveInfo
  <2>3. QED
    BY <1>1, <2>2, LinuxMarks DEF HostTells
<1>2. CASE m.kind = "macos"
  <2>1. PICK x \in Media(m) : IsListedMedia(m, x) /\ drive = MacosDrive(m, x, MacosSystem(m))
    BY <1>2 DEF ListOf, MacosDrives
  <2> DEFINE a == CHOOSE name \in Name(m, x) : TRUE
  <2>2. drive.id = a /\ (drive.system <=> Name(m, x) \subseteq MacosSystem(m))
    BY <2>1 DEF MacosDrive, DriveInfo
  <2>3. a \in Name(m, x)
    BY <2>1 DEF IsListedMedia
  <2> HIDE DEF a
  <2>4. QED
    BY <1>2, <2>1, <2>2, <2>3, MacosMarks DEF HostTells
<1>3. CASE m.kind = "windows"
  <2>1. PICK n : drive = WindowsDrive(m, n, WindowsSystem(m))
    BY <1>3 DEF ListOf, WindowsDrives
  <2>2. drive.id = n /\ (drive.system <=> n \in WindowsSystem(m))
    BY <2>1 DEF WindowsDrive, DriveInfo
  <2>3. Needed(m) = WindowsSystem(m)
    BY <1>3 DEF Needed, WindowsSystem
  <2>4. QED
    BY <2>2, <2>3
<1>4. QED
  BY <1>1, <1>2, <1>3

-----------------------------------------------------------------------------
(* What comes and goes while the list is read                              *)

\* A registry with more nodes, and the others as they were.
Grows(m, x) ==
  /\ Registry(m) /\ Registry(x) /\ DOMAIN m.nodes \subseteq DOMAIN x.nodes
  /\ \A y \in DOMAIN m.nodes : x.nodes[y] = m.nodes[y] /\ x.parent[y] = m.parent[y]

\* No node that was there sits on one that comes.
LEMMA BeneathStays ==
  ASSUME NEW m, NEW x, Grows(m, x), NEW n \in DOMAIN m.nodes
  PROVE  BeneathNode(x, n) = BeneathNode(m, n)
<1> DEFINE N == DOMAIN m.nodes
           M == DOMAIN x.nodes
           A == AllBelow(N, Over(m), {n})
           C == AllBelow(M, Over(x), {n})
<1>1. N \subseteq M /\ {n} \in SUBSET N /\ {n} \in SUBSET M
  BY DEF Grows
<1>2. Layers(N, Over(m)) /\ BeneathNode(m, n) = A
  BY BeneathNodeIs DEF Grows
<1>3. Layers(M, Over(x)) /\ BeneathNode(x, n) = C
  BY <1>1, BeneathNodeIs DEF Grows
<1>4. \A y \in N : Over(x)[y] = Over(m)[y]
  BY <1>1 DEF Grows, Over
<1> HIDE DEF N, M
<1>5. Shut(N, Over(m), A) /\ {n} \subseteq A
  BY <1>1, <1>2, AllBelowIsShut
<1>6. Shut(M, Over(x), C) /\ {n} \subseteq C
  BY <1>1, <1>3, AllBelowIsShut
<1> HIDE DEF A, C
<1>7. Shut(M, Over(x), A)
  BY <1>1, <1>4, <1>5 DEF Shut, Below
<1>8. C \subseteq A
  BY <1>5, <1>7 DEF C, AllBelow
<1>9. Shut(N, Over(m), C)
  BY <1>4, <1>5, <1>6, <1>8 DEF Shut, Below
<1>10. A \subseteq C
  BY <1>6, <1>9 DEF A, AllBelow
<1>11. QED
  BY <1>2, <1>3, <1>8, <1>10

\* Nor does a way up come to one.
LEMMA ClimbsStay ==
  ASSUME NEW m, NEW x, Grows(m, x), NEW levels \in Nat,
         NEW f, Climbs(f, m, levels), NEW g, Climbs(g, x, levels)
  PROVE  \A k \in 0 .. levels : \A n \in DOMAIN m.nodes : g[k][n] = f[k][n]
<1> DEFINE Wrong == {k \in 0 .. levels : \E n \in DOMAIN m.nodes : g[k][n] # f[k][n]}
<1>1. ASSUME Wrong # {}
      PROVE  FALSE
  <2>1. Wrong \in SUBSET Nat
    OBVIOUS
  <2>2. PICK k \in Wrong : \A j \in Wrong : k <= j
    <3> HIDE DEF Wrong
    <3>1. QED
      BY <1>1, <2>1, LeastOf
  <2>3. PICK n \in DOMAIN m.nodes : g[k][n] # f[k][n]
    OBVIOUS
  <2>4. k \in 0 .. levels /\ f[k] = Climbed(m, k, f[k - 1]) /\ g[k] = Climbed(x, k, g[k - 1])
    BY DEF Climbs
  <2>5. n \in DOMAIN m.parent /\ n \in DOMAIN x.parent /\ x.parent[n] = m.parent[n]
    BY DEF Grows, Registry
  <2> DEFINE p == m.parent[n]
  <2>6. f[k][n] = IF k = 0 \/ p = Nothing THEN <<n>> ELSE <<n>> \o f[k - 1][p]
    BY <2>4, <2>5 DEF Climbed
  <2>7. g[k][n] = IF k = 0 \/ p = Nothing THEN <<n>> ELSE <<n>> \o g[k - 1][p]
    BY <2>4, <2>5 DEF Climbed
  <2>8. k # 0 /\ p # Nothing
    BY <2>3, <2>6, <2>7
  <2>9. p \in DOMAIN m.nodes /\ k - 1 \in 0 .. levels /\ k - 1 \notin Wrong
    BY <2>2, <2>4, <2>8 DEF Grows, Registry
  <2>10. g[k - 1][p] = f[k - 1][p]
    BY <2>9
  <2> HIDE DEF p
  <2>11. QED
    BY <2>3, <2>6, <2>7, <2>10
<1>2. QED
  BY <1>1

\* So the record of a media that was there stays as it was.
LEMMA ChainStays ==
  ASSUME NEW m, NEW x, Grows(m, x), NEW n \in DOMAIN m.nodes
  PROVE  Chain(x, n) = Chain(m, n)
<1>1. \A y : \E f : Climbs(f, y, LEVELS) /\ Chain(y, n) = f[LEVELS][n]
  BY ClimbsOfTheChain
<1>2. PICK f : Climbs(f, m, LEVELS) /\ Chain(m, n) = f[LEVELS][n]
  BY <1>1
<1>3. PICK g : Climbs(g, x, LEVELS) /\ Chain(x, n) = g[LEVELS][n]
  BY <1>1
<1>4. LEVELS \in Nat /\ LEVELS \in 0 .. LEVELS
  BY LevelsAssumption
<1>5. QED
  BY <1>2, <1>3, <1>4, ClimbsStay

\* More nodes that are not of the root change nothing of what the root needs.
LEMMA GrowingKeepsTheRoot ==
  ASSUME NEW m, NEW x, Grows(m, x), x.root = m.root,
         \A dev \in m.root : MediaForDev(x, dev) = MediaForDev(m, dev)
  PROVE  /\ MacosTells(m) <=> MacosTells(x)
         /\ MacosRoot(x) = MacosRoot(m)
<1> DEFINE media == UNION {MediaForDev(m, dev) : dev \in m.root}
           under == UNION {BeneathNode(m, n) : n \in media}
<1>1. \A dev : MediaForDev(m, dev) \subseteq DOMAIN m.nodes
  BY DEF MediaForDev, Media
<1>2. \A n \in DOMAIN m.nodes : BeneathNode(x, n) = BeneathNode(m, n) /\ Chain(x, n) = Chain(m, n)
  BY BeneathStays, ChainStays
<1>3. \A n \in DOMAIN m.nodes : BeneathNode(m, n) \subseteq DOMAIN m.nodes
  BY BeneathNodeIs DEF Grows, AllBelow
<1>4. \A y \in DOMAIN m.nodes : Name(x, y) = Name(m, y) /\ (IsPhysicalWhole(x, y) <=> IsPhysicalWhole(m, y))
  BY DEF Grows, Name, IsPhysicalWhole, IsWhole, As, Get
<1>5. \A n \in DOMAIN m.nodes : IsRecorded(m, n) <=> IsRecorded(x, n)
  <2>1. TAKE n \in DOMAIN m.nodes
  <2>2. Last(Chain(m, n)) \in DOMAIN m.nodes
    <3>1. WayUp(m, n, Chain(m, n))
      BY ChainIsAWayUp DEF Grows
    <3> DEFINE c == Chain(m, n)
    <3>2. c \in Seq(DOMAIN m.nodes) /\ c # <<>>
      BY <3>1 DEF WayUp
    <3> HIDE DEF c
    <3>3. c[Len(c)] \in DOMAIN m.nodes
      <4> DEFINE S == DOMAIN m.nodes
      <4>1. c \in Seq(S) /\ c # <<>>
        BY <3>2
      <4> HIDE DEF S
      <4>2. c[Len(c)] \in S
        BY <4>1
      <4>3. QED
        BY <4>2 DEF S
    <3>4. QED
      BY <3>3 DEF Last, c
  <2>3. x.parent[Last(Chain(x, n))] = m.parent[Last(Chain(m, n))]
    BY <1>2, <2>2 DEF Grows
  <2>4. BeneathNode(x, n) = BeneathNode(m, n) /\ BeneathNode(m, n) \subseteq DOMAIN m.nodes
    BY <1>2, <1>3
  <2>5. \A y \in BeneathNode(m, n) : x.nodes[y] = m.nodes[y] /\ x.parent[y] = m.parent[y]
    BY <2>4 DEF Grows
  <2>6. QED
    BY <2>3, <2>4, <2>5 DEF IsRecorded
<1>6. MacosTells(m) <=> MacosTells(x)
  BY <1>1, <1>5 DEF MacosTells, Grows
<1>7. UNION {MediaForDev(x, dev) : dev \in x.root} = media
  OBVIOUS
<1>8. media \subseteq DOMAIN m.nodes
  BY <1>1
<1> HIDE DEF media
<1>9. UNION {BeneathNode(x, n) : n \in media} = under /\ under \subseteq DOMAIN m.nodes
  BY <1>2, <1>3, <1>8
<1> HIDE DEF under
<1>10. MacosRoot(x) = UNION {Name(x, y) : y \in {z \in under : IsPhysicalWhole(x, z)}}
  BY <1>7, <1>9 DEF MacosRoot
<1>11. MacosRoot(m) = UNION {Name(m, y) : y \in {z \in under : IsPhysicalWhole(m, z)}}
  BY DEF MacosRoot, under, media
<1>12. \A a : a \in MacosRoot(x) <=> a \in MacosRoot(m)
  BY <1>4, <1>9, <1>10, <1>11
<1>13. QED
  BY <1>6, <1>12

\* A machine of Linux with other mounts, or other drives.
Alike(m, x) ==
  /\ m.kind = "linux" /\ x.kind = "linux"
  /\ x.above = m.above /\ x.slaves = m.slaves /\ x.swaps = m.swaps
  /\ x.backing = m.backing /\ x.holds = m.holds /\ x.spare = m.spare /\ x.next = m.next /\ x.gone = m.gone

\* The mounts that the marks come from are the same, and what they name is there.
MarkedAlike(m, x) ==
  /\ \A y : y.point \in MARKED => (y \in x.mounts <=> y \in m.mounts)
  /\ \A y \in m.mounts : (y.source \in Devs(x) <=> y.source \in Devs(m)) /\ (y.on \in Devs(m) => y.on \in Devs(x))
  /\ \A l \in DOMAIN m.backing :
       /\ (\E y \in x.mounts : y.source = l) <=> (\E y \in m.mounts : y.source = l)
       /\ \A y : HoldsFileOf(m, y, l) => (y \in x.mounts <=> y \in m.mounts)

\* On such machines a device lies on the same drives.
LEMMA AlikeIs ==
  ASSUME NEW m, NEW x, Alike(m, x)
  PROVE  /\ Devices(x) = Devices(m)
         /\ \A n : PartitionToDisk(x, n) = PartitionToDisk(m, n)
         /\ \A v, l : HoldsFileOf(x, v, l) <=> HoldsFileOf(m, v, l)
         /\ \A v, n : (n \in DOMAIN x.disks <=> n \in DOMAIN m.disks) =>
                        (n \in Carriers(x, v) <=> n \in Carriers(m, v))
<1>1. Devices(x) = Devices(m)
  BY DEF Alike, Devices
<1>2. \A n : PartitionToDisk(x, n) = PartitionToDisk(m, n)
  BY DEF Alike, PartitionToDisk
<1>3. \A v, l : HoldsFileOf(x, v, l) <=> HoldsFileOf(m, v, l)
  BY DEF Alike, HoldsFileOf
<1>4. \A v, n : (n \in DOMAIN x.disks <=> n \in DOMAIN m.disks) =>
                  (n \in Carriers(x, v) <=> n \in Carriers(m, v))
  BY <1>1 DEF Alike, Carriers
<1>5. QED
  BY <1>1, <1>2, <1>3, <1>4

\* With the same marked mounts, the other machine tells as much.
LEMMA AlikeTells ==
  ASSUME NEW m, NEW x, Alike(m, x), MarkedAlike(m, x), LinuxTells(m), Orderly(x)
  PROVE  LinuxTells(x)
<1>1. \A y \in m.mounts : LineIsTrue(m, y) => LineIsTrue(x, y)
  BY DEF LineIsTrue, MarkedAlike
<1>2. \A y \in m.mounts : NamesADevice(m, y) => NamesADevice(x, y)
  BY DEF NamesADevice, MarkedAlike
<1>3. \A y \in x.mounts : y.point \in MARKED => LineIsTrue(x, y)
  BY <1>1 DEF MarkedAlike, LinuxTells
<1>4. ASSUME NEW l \in DOMAIN x.backing
      PROVE  LoopIsTold(x, l)
  <2>1. l \in DOMAIN m.backing /\ LoopIsTold(m, l)
    BY DEF Alike, LinuxTells
  <2>2. x.backing[l] = m.backing[l]
    BY DEF Alike
  <2>3. IsLoop(l)
    BY <2>1 DEF LoopIsTold
  <2>4. ASSUME NEW y \in x.mounts, HoldsFileOf(x, y, l)
        PROVE  LineIsTrue(x, y) /\ NamesADevice(x, y) /\ (IsLoop(y.source) <=> IsLoop(y.on))
    <3>1. HoldsFileOf(m, y, l) /\ y \in m.mounts
      BY <2>1, <2>4, AlikeIs DEF MarkedAlike
    <3>2. QED
      BY <1>1, <1>2, <2>1, <3>1 DEF LoopIsTold
  <2>5. ASSUME \E y \in x.mounts : y.source = l
        PROVE  \E y \in x.mounts : /\ HoldsFileOf(x, y, l) /\ ~IsLoop(y.on)
                                   /\ PartitionToDisk(x, y.on) = PartitionToDisk(x, x.backing[l].on)
    <3>1. \E y \in m.mounts : y.source = l
      BY <2>1, <2>5 DEF MarkedAlike
    <3>2. PICK y \in m.mounts : /\ HoldsFileOf(m, y, l) /\ ~IsLoop(y.on)
                                /\ PartitionToDisk(m, y.on) = PartitionToDisk(m, m.backing[l].on)
      BY <2>1, <3>1 DEF LoopIsTold
    <3>3. y \in x.mounts
      BY <2>1, <3>2 DEF MarkedAlike
    <3>4. QED
      BY <2>2, <3>2, <3>3, AlikeIs
  <2>6. QED
    BY <2>3, <2>4, <2>5 DEF LoopIsTold
<1>5. QED
  BY <1>3, <1>4 DEF LinuxTells

\* And its system needs the same drives, of those that both have or neither.
LEMMA AlikeNeeds ==
  ASSUME NEW m, NEW x, Alike(m, x), MarkedAlike(m, x), NEW n, n \in DOMAIN x.disks <=> n \in DOMAIN m.disks
  PROVE  n \in Needed(x) <=> n \in Needed(m)
<1> DEFINE Named(w) == {y \in w.mounts : y.point \in MARKED /\ NamesADevice(w, y)}
           Loops(w) == {y.source : y \in w.mounts} \cap DOMAIN w.backing
           Lie(w, l) == {PartitionToDisk(w, z.on) : z \in {y \in w.mounts : HoldsFileOf(w, y, l) /\ ~IsLoop(y.on)}}
<1>1. \A w : n \in NamedRoot(w) <=> \E y \in Named(w) : n \in Carriers(w, y)
  BY DEF NamedRoot, NamesADevice, Devs
<1>2. \A y : y \in Named(x) <=> y \in Named(m)
  BY DEF MarkedAlike, NamesADevice
<1>3. n \in NamedRoot(x) <=> n \in NamedRoot(m)
  <2> HIDE DEF Named
  <2>1. QED
    BY <1>1, <1>2, AlikeIs
<1>4. \A w : n \in CertainLoop(w) <=>
               \E l \in Loops(w) : Cardinality(Lie(w, l)) = 1 /\ n \in Carriers(w, [on |-> w.backing[l].on])
  <2>1. TAKE w
  <2> DEFINE under(l) == Carriers(w, [on |-> w.backing[l].on])
  <2>2. CertainLoop(w) = UNION {IF Cardinality(Lie(w, l)) = 1 THEN under(l) ELSE {} : l \in Loops(w)}
    BY DEF CertainLoop, HoldsFileOf
  <2> HIDE DEF under, Lie, Loops
  <2>3. n \in CertainLoop(w) <=> \E l \in Loops(w) : Cardinality(Lie(w, l)) = 1 /\ n \in under(l)
    BY <2>2
  <2>4. QED
    BY <2>3 DEF under
<1>5. \A l : l \in Loops(x) <=> l \in Loops(m)
  BY DEF Alike, MarkedAlike
<1>6. \A l \in Loops(m) : Lie(x, l) = Lie(m, l)
  <2>1. TAKE l \in Loops(m)
  <2>2. \A y : y \in x.mounts /\ HoldsFileOf(x, y, l) <=> y \in m.mounts /\ HoldsFileOf(m, y, l)
    BY AlikeIs DEF MarkedAlike
  <2>3. \A t : t \in Lie(x, l) <=> t \in Lie(m, l)
    BY <2>2, AlikeIs
  <2> HIDE DEF Lie
  <2>4. QED
    BY <2>3
<1>7. \A l : n \in Carriers(x, [on |-> x.backing[l].on]) <=> n \in Carriers(m, [on |-> m.backing[l].on])
  BY AlikeIs DEF Alike
<1>8. n \in CertainLoop(x) <=> n \in CertainLoop(m)
  <2> HIDE DEF Loops, Lie
  <2>1. QED
    BY <1>4, <1>5, <1>6, <1>7
<1>9. \A w \in {m, x} : n \in Needed(w) <=> \/ n \in NamedRoot(w) \/ n \in CertainLoop(w)
                                            \/ \E s \in w.swaps : n \in Carriers(w, [on |-> s])
  BY DEF Needed, Alike
<1>10. \A s : n \in Carriers(x, [on |-> s]) <=> n \in Carriers(m, [on |-> s])
  BY AlikeIs
<1>11. x.swaps = m.swaps
  BY DEF Alike
<1>12. QED
  BY <1>3, <1>8, <1>9, <1>10, <1>11

\* What a machine and one that follows it agree on, of the names S.
Continues(m, x, S) ==
  /\ HostTells(x) /\ HostIsSteady(x)
  /\ \A n \in S : n \in Needed(x) <=> n \in Needed(m)

\* The drives that a system of Linux needs are among those that are there.
LEMMA NeededAreDisks ==
  ASSUME NEW m, m.kind = "linux"
  PROVE  Needed(m) \subseteq DOMAIN m.disks
<1>1. \A v : Carriers(m, v) \subseteq DOMAIN m.disks
  BY DEF Carriers
<1>2. NamedRoot(m) \subseteq DOMAIN m.disks
  BY <1>1 DEF NamedRoot
<1>3. CertainLoop(m) \subseteq DOMAIN m.disks
  BY <1>1 DEF CertainLoop
<1>4. UNION {Carriers(m, [on |-> s]) : s \in m.swaps} \subseteq DOMAIN m.disks
  BY <1>1
<1>5. QED
  BY <1>2, <1>3, <1>4 DEF Needed

\* The fields of a Linux machine.
LEMMA LinuxFields ==
  /\ {"disks", "above", "slaves", "mounts", "swaps", "backing", "holds"} \subseteq Fields("linux")
  /\ {"kind", "spare", "plugged", "next", "gone"} \subseteq Fields("linux")
  BY DEF Fields

\* A spare volume that is mounted is not of the running system of Linux.
LEMMA LinuxMounts ==
  ASSUME NEW m, Sound(m), m.kind = "linux", HostTells(m), HostIsSteady(m), NEW v \in m.spare
  PROVE  \A S : Continues(m, Mounting(m, m.mounts \cup {v}), S)
<1> DEFINE M == m.mounts \cup {v}
           x == Mounting(m, M)
<1>1. /\ x.mounts = M /\ x.disks = m.disks /\ x.plugged = m.plugged
      /\ Alike(m, x)
  <2>1. m = [field \in Fields("linux") |-> m[field]] /\ x = [m EXCEPT !.mounts = M]
    BY DEF Sound, Mounting
  <2> HIDE DEF x
  <2>2. QED
    BY <2>1, LinuxFields DEF Alike
<1>2. LinuxTells(m) /\ LinuxIsSteady(m)
  BY DEF HostTells, HostIsSteady
<1> HIDE DEF x
<1>3. Devs(x) = Devs(m) /\ x.spare = m.spare /\ x.next = m.next /\ x.backing = m.backing
  BY <1>1 DEF Devs, Alike
<1>4. MarkedAlike(m, x)
  BY <1>1, <1>2, <1>3 DEF MarkedAlike, LinuxIsSteady
<1>5. Orderly(x)
  <2>1. Devices(x) = Devices(m) /\ x.slaves = m.slaves /\ x.above = m.above
    BY <1>1, AlikeIs DEF Alike
  <2>2. IsFiniteSet(M)
    BY <1>2, FS_AddElement DEF LinuxTells, Orderly
  <2>3. QED
    BY <1>1, <1>2, <1>3, <2>1, <2>2 DEF LinuxTells, Orderly
<1>6. LinuxTells(x)
  BY <1>1, <1>2, <1>4, <1>5, AlikeTells
<1>7. \A n : n \in Needed(x) <=> n \in Needed(m)
  BY <1>1, <1>4, AlikeNeeds
<1>8. LinuxIsSteady(x)
  <2>1. \A y, l : HoldsFileOf(x, y, l) <=> HoldsFileOf(m, y, l)
    BY <1>1, AlikeIs
  <2>2. x.gone = m.gone /\ (x.gone \cap Needed(x) = {} <=> m.gone \cap Needed(m) = {})
    BY <1>1, <1>7 DEF Alike
  <2>3. QED
    BY <1>1, <1>2, <1>3, <2>1, <2>2 DEF LinuxIsSteady
<1>9. x.kind = "linux"
  BY <1>1 DEF Alike
<1>10. QED
  BY <1>6, <1>7, <1>8, <1>9 DEF Continues, HostTells, HostIsSteady, x

\* Nor is a drive that comes to Linux, or a bare one that goes.
LEMMA LinuxPlugs ==
  ASSUME NEW m, Sound(m), m.kind = "linux", HostTells(m), HostIsSteady(m), ~m.plugged
  PROVE  Continues(m, Plugged(m), Names(m))
<1> DEFINE x == Plugged(m)
<1>1. /\ x.mounts = m.mounts /\ DOMAIN x.disks = (DOMAIN m.disks \ m.gone) \cup DOMAIN m.next
      /\ x.plugged = TRUE /\ Alike(m, x)
  <2>1. m = [field \in Fields("linux") |-> m[field]]
        /\ x = [m EXCEPT !.plugged = TRUE, !.disks = Changed(@, m.gone, m.next)]
    BY DEF Sound, Plugged
  <2> HIDE DEF x
  <2>2. x.disks = Changed(m.disks, m.gone, m.next)
    BY <2>1, LinuxFields
  <2>3. DOMAIN x.disks = (DOMAIN m.disks \ m.gone) \cup DOMAIN m.next
    BY <2>2 DEF Changed
  <2>4. QED
    BY <2>1, <2>3, LinuxFields DEF Alike
<1>2. LinuxTells(m) /\ LinuxIsSteady(m)
  BY DEF HostTells, HostIsSteady
<1> HIDE DEF x
<1>3. /\ x.above = m.above /\ x.slaves = m.slaves /\ Devices(x) = Devices(m)
      /\ x.spare = m.spare /\ x.next = m.next /\ x.backing = m.backing
  BY <1>1, AlikeIs DEF Alike
<1>4. /\ \A n : n \in Devs(x) => n \in Devs(m) \cup DOMAIN m.next
      /\ \A n : n \in Devs(m) /\ n \notin m.gone => n \in Devs(x)
  BY <1>1, <1>3 DEF Devs
<1>5. MarkedAlike(m, x)
  <2>1. \A y \in m.mounts : /\ y.source \notin DOMAIN m.next /\ y.source \notin m.gone
                            /\ y.on \notin m.gone
    BY <1>2 DEF LinuxIsSteady
  <2>2. QED
    BY <1>1, <1>4, <2>1 DEF MarkedAlike
<1>6. Orderly(x)
  <2>1. DOMAIN x.disks \cap DOMAIN x.above = {}
    BY <1>1, <1>2, <1>3 DEF LinuxTells, Orderly, LinuxIsSteady, Devs
  <2>2. None \notin Devs(x)
    BY <1>2, <1>4 DEF LinuxTells, Orderly, LinuxIsSteady
  <2>3. DOMAIN x.slaves \subseteq DOMAIN x.disks
    <3>1. \A n \in m.gone : n \notin DOMAIN m.slaves
      BY <1>2 DEF LinuxTells, Orderly, LinuxIsSteady, DrivesSitOnNothing, Devices
    <3>2. QED
      BY <1>1, <1>2, <1>3, <3>1 DEF LinuxTells, Orderly
  <2>4. QED
    BY <1>1, <1>2, <1>3, <2>1, <2>2, <2>3 DEF LinuxTells, Orderly
<1>7. LinuxTells(x)
  BY <1>1, <1>2, <1>5, <1>6, AlikeTells
<1>8. LinuxIsSteady(x)
  <2>1. \A y, l : HoldsFileOf(x, y, l) <=> HoldsFileOf(m, y, l)
    BY <1>1, AlikeIs
  <2>2. QED
    BY <1>1, <1>2, <1>3, <2>1 DEF LinuxIsSteady
<1>9. \A n \in Names(m) : n \in Needed(x) <=> n \in Needed(m)
  <2>1. TAKE n \in Names(m)
  <2>2. n \in DOMAIN m.disks
    BY LinuxNames
  <2>3. CASE n \in m.gone
    <3>1. n \notin DOMAIN x.disks
      BY <1>1, <1>2, <2>2, <2>3 DEF LinuxIsSteady, Devs
    <3>2. x.kind = "linux"
      BY <1>1 DEF Alike
    <3>3. n \notin Needed(x)
      BY <3>1, <3>2, NeededAreDisks
    <3>4. QED
      BY <1>2, <2>3, <3>3 DEF LinuxIsSteady
  <2>4. CASE n \notin m.gone
    BY <1>1, <1>5, <2>2, <2>4, AlikeNeeds
  <2>5. QED
    BY <2>3, <2>4
<1>10. x.kind = "linux"
  BY <1>1 DEF Alike
<1>11. QED
  BY <1>7, <1>8, <1>9, <1>10 DEF Continues, HostTells, HostIsSteady, x

\* The fields of a Mac.
LEMMA MacosFields ==
  /\ {"nodes", "parent", "root", "mounted", "kind", "spare", "plugged", "next", "gone"} \subseteq Fields("macos")
  BY DEF Fields

\* On macOS no mount changes the registry.
LEMMA MacosMounts ==
  ASSUME NEW m, Sound(m), m.kind = "macos", HostTells(m), HostIsSteady(m), NEW S
  PROVE  \A N : Continues(m, Mounting(m, S), N)
<1> DEFINE x == Mounting(m, S)
<1>1. /\ x.nodes = m.nodes /\ x.parent = m.parent /\ x.root = m.root /\ x.plugged = m.plugged
      /\ x.kind = "macos" /\ x.next = m.next /\ x.gone = m.gone
  <2>1. m = [field \in Fields("macos") |-> m[field]] /\ x = [m EXCEPT !.mounted = S]
    BY DEF Sound, Mounting
  <2> HIDE DEF x
  <2>2. QED
    BY <2>1, MacosFields
<1>2. MacosTells(m) /\ MacosIsSteady(m)
  BY DEF HostTells, HostIsSteady
<1>3. Sound(x)
  BY MountingIs
<1>4. Plugged(x) = Mounting(Plugged(m), S) /\ Sound(Plugged(m)) /\ Plugged(m).kind = "macos"
  BY PluggedThenMounting, PluggedIs
<1>5. Plugged(x).nodes = Plugged(m).nodes
  BY <1>4, MountingIs
<1> HIDE DEF x
<1>6. \A dev : MediaForDev(x, dev) = MediaForDev(m, dev)
  BY <1>1 DEF MediaForDev, Media, Get, As
<1>7. \A dev : MediaForDev(Plugged(x), dev) = MediaForDev(Plugged(m), dev)
  BY <1>5 DEF MediaForDev, Media, Get, As
<1>8. Grows(m, x)
  BY <1>1, <1>2 DEF Grows, Registry, MacosTells
<1>9. MacosTells(x) /\ MacosRoot(x) = MacosRoot(m)
  BY <1>1, <1>2, <1>6, <1>8, GrowingKeepsTheRoot
<1>10. MacosIsSteady(x)
  BY <1>1, <1>2, <1>6, <1>7 DEF MacosIsSteady
<1>11. Needed(x) = Needed(m)
  BY <1>1, <1>9 DEF Needed
<1>12. QED
  BY <1>1, <1>9, <1>10, <1>11 DEF Continues, HostTells, HostIsSteady, x

\* A drive that comes to a Mac adds a node beside the others, and one that goes
\* takes a node on which no other sits: what stays is the same in both.
LEMMA MacosPlugs ==
  ASSUME NEW m, Sound(m), m.kind = "macos", HostTells(m), HostIsSteady(m), ~m.plugged
  PROVE  \A S : Continues(m, Plugged(m), S)
<1> DEFINE x == Plugged(m)
           K == DOMAIN m.nodes \ m.gone
           D == DOMAIN m.next
           stays == [nodes |-> [n \in K |-> m.nodes[n]], parent |-> [n \in K |-> m.parent[n]],
                     root |-> m.root]
<1>1. /\ x.nodes = Changed(m.nodes, m.gone, m.next)
      /\ x.parent = Changed(m.parent, m.gone, [n \in D |-> Nothing])
      /\ x.root = m.root /\ x.plugged = TRUE /\ x.kind = "macos"
  <2>1. m = [field \in Fields("macos") |-> m[field]]
        /\ x = [m EXCEPT !.plugged = TRUE, !.nodes = Changed(@, m.gone, m.next),
                         !.parent = Changed(@, m.gone, [n \in D |-> Nothing])]
    BY DEF Sound, Plugged
  <2> HIDE DEF x, D
  <2>2. QED
    BY <2>1, MacosFields
<1>2. MacosTells(m) /\ MacosIsSteady(m) /\ Registry(m)
  BY DEF HostTells, HostIsSteady, MacosTells
<1>3. /\ IsFiniteSet(D) /\ D \cap (DOMAIN m.nodes \cup {Nothing}) = {} /\ \A n \in D : m.next[n].over = {}
      /\ \A n \in DOMAIN m.nodes : m.nodes[n].over \cap m.gone = {} /\ m.parent[n] \notin m.gone
      /\ \A dev \in m.root : MediaForDev(m, dev) \cap m.gone = {} /\ MediaForDev(x, dev) \cap D = {}
  BY <1>2 DEF MacosIsSteady
<1> HIDE DEF x
<1>4. DOMAIN m.parent = DOMAIN m.nodes
  BY <1>2 DEF Registry
<1>5. /\ DOMAIN x.nodes = K \cup D /\ DOMAIN x.parent = K \cup D
      /\ \A n \in D : x.nodes[n] = m.next[n] /\ x.parent[n] = Nothing
      /\ \A n \in K : x.nodes[n] = m.nodes[n] /\ x.parent[n] = m.parent[n]
  BY <1>1, <1>3, <1>4 DEF Changed
<1>6. /\ DOMAIN stays.nodes = K /\ DOMAIN stays.parent = K /\ stays.root = m.root
      /\ \A n \in K : stays.nodes[n] = m.nodes[n] /\ stays.parent[n] = m.parent[n]
  OBVIOUS
<1> HIDE DEF stays
<1>7. Registry(stays)
  <2>1. IsFiniteSet(K)
    BY <1>2, FS_Difference DEF Registry
  <2>2. QED
    BY <1>2, <1>3, <1>6, <2>1 DEF Registry
<1>8. Registry(x)
  <2>1. IsFiniteSet(K \cup D)
    BY <1>3, <1>6, <1>7, FS_Union DEF Registry
  <2>2. \A n \in K : m.nodes[n].over \in SUBSET K /\ m.parent[n] \in K \cup {Nothing}
    BY <1>2, <1>3 DEF Registry
  <2>3. QED
    BY <1>2, <1>3, <1>5, <2>1, <2>2 DEF Registry
<1>9. Grows(stays, m)
  BY <1>2, <1>4, <1>6, <1>7 DEF Grows
<1>10. Grows(stays, x)
  BY <1>5, <1>6, <1>7, <1>8 DEF Grows
<1>11. \A dev \in m.root : /\ MediaForDev(m, dev) = MediaForDev(stays, dev)
                           /\ MediaForDev(x, dev) = MediaForDev(stays, dev)
  <2>1. TAKE dev \in m.root
  <2>2. \A n \in K : /\ Get(x, n, "BSD Major") = Get(stays, n, "BSD Major")
                     /\ Get(x, n, "BSD Minor") = Get(stays, n, "BSD Minor")
                     /\ Get(m, n, "BSD Major") = Get(stays, n, "BSD Major")
                     /\ Get(m, n, "BSD Minor") = Get(stays, n, "BSD Minor")
    BY <1>5, <1>6 DEF Get
  <2>3. \A n \in K : /\ n \in MediaForDev(x, dev) <=> n \in MediaForDev(stays, dev)
                     /\ n \in MediaForDev(m, dev) <=> n \in MediaForDev(stays, dev)
    BY <1>5, <1>6, <2>2 DEF MediaForDev, Media
  <2>4. /\ MediaForDev(x, dev) \subseteq K \cup D /\ MediaForDev(stays, dev) \subseteq K
        /\ MediaForDev(m, dev) \subseteq K \cup m.gone
    BY <1>5, <1>6 DEF MediaForDev, Media
  <2>5. MediaForDev(m, dev) \cap m.gone = {} /\ MediaForDev(x, dev) \cap D = {}
    BY <1>3
  <2> HIDE DEF K, D
  <2>6. QED
    BY <2>3, <2>4, <2>5
<1>12. (MacosTells(stays) <=> MacosTells(m)) /\ MacosRoot(m) = MacosRoot(stays)
  BY <1>6, <1>9, <1>11, GrowingKeepsTheRoot
<1>13. (MacosTells(stays) <=> MacosTells(x)) /\ MacosRoot(x) = MacosRoot(stays)
  BY <1>1, <1>6, <1>10, <1>11, GrowingKeepsTheRoot
<1>14. MacosTells(x) /\ MacosRoot(x) = MacosRoot(m)
  BY <1>2, <1>12, <1>13
<1>15. MacosIsSteady(x)
  BY <1>1 DEF MacosIsSteady
<1>16. Needed(x) = Needed(m)
  BY <1>1, <1>14 DEF Needed
<1>17. QED
  BY <1>1, <1>14, <1>15, <1>16 DEF Continues, HostTells, HostIsSteady, x

\* On Windows the volume of the system does not depend on what comes and goes.
LEMMA WindowsFollows ==
  ASSUME NEW m, Sound(m), m.kind = "windows", NEW S
  PROVE  \A N : Continues(m, Mounting(m, S), N) /\ Continues(m, Plugged(m), N)
<1>1. ASSUME NEW x \in {Mounting(m, S), Plugged(m)}
      PROVE  x.kind = "windows" /\ x.windows = m.windows /\ x.volumes = m.volumes
  <2>1. m = [field \in Fields("windows") |-> m[field]]
        /\ Mounting(m, S) = [m EXCEPT !.mounted = S]
        /\ Plugged(m) = [m EXCEPT !.plugged = TRUE, !.answers = Changed(@, m.gone, m.next)]
    BY DEF Sound, Mounting, Plugged
  <2>2. {"kind", "windows", "volumes"} \subseteq Fields("windows")
    BY DEF Fields
  <2>3. CASE x = Mounting(m, S)
    BY <2>1, <2>2, <2>3
  <2>4. CASE x = Plugged(m)
    BY <2>1, <2>2, <2>4
  <2>5. QED
    BY <2>3, <2>4
<1>2. QED
  BY <1>1 DEF Continues, HostTells, HostIsSteady, Needed

\* On a machine that tells, a mount changes nothing of what its system needs, and
\* what comes and goes nothing of that among the drives that were there.
LEMMA SteadyHosts ==
  ASSUME NEW m, Sound(m), HostTells(m), HostIsSteady(m)
  PROVE  /\ \A v \in m.spare : \A S : Continues(m, With(m, v), S)
         /\ ~m.plugged => Continues(m, Plugged(m), Names(m))
<1>1. CASE m.kind = "linux"
  BY <1>1, LinuxMounts, LinuxPlugs DEF With, Mounted
<1>2. CASE m.kind = "macos"
  BY <1>2, MacosMounts, MacosPlugs DEF With
<1>3. CASE m.kind = "windows"
  BY <1>3, WindowsFollows DEF With
<1>4. QED
  BY <1>1, <1>2, <1>3 DEF Sound

-----------------------------------------------------------------------------
(* The command                                                             *)

\* Until a drive is chosen the machine tells and is steady, nobody asks Disk
\* Arbitration for anything, and each line of the list is marked as it must be.
MarksHold ==
  caller.pc \in Choosing =>
    /\ request = "none"
    /\ HostTells(machine) /\ HostIsSteady(machine)
    /\ At("type") => \A i \in DOMAIN caller.list :
                       caller.list[i].system <=> caller.list[i].id \in Needed(machine)

\* No step but Type and ListAgain chooses, and none goes back to the choice.
LEMMA ChoiceIsFirst ==
  ASSUME Shape, Asking, [Next]_vars, caller'.pc \in Choosing
  PROVE  caller.pc \in Choosing
<1>1. CASE List \/ Type \/ ListAgain
  BY <1>1 DEF List, Type, ListAgain, At, Choosing
<1>2. CASE Chosen
  BY <1>2 DEF Chosen
<1>3. QED
  BY <1>1, <1>2, CallerSteps

\* And nobody asks Disk Arbitration before the choice.
LEMMA NobodyAsks ==
  ASSUME caller.pc \in Choosing, request = "none", ~caller.loop, [Next]_vars
  PROVE  request' = "none"
<1> USE DEF Choosing, At
<1>1. CASE Command
  BY <1>1 DEF Command, List, Type, ListAgain, KeepUnmounted, Ready, ReadMounts, Umount, Umounted, OpenLinux,
     Settle, Asks, Heard, Deadline, OpenMacos, OpenWindows, LockVolume, OpenPhysical, CloseDrive, LetGo, Join
<1>2. CASE Refuser \/ Arbitrate \/ Mount \/ Plug \/ UNCHANGED vars
  BY <1>2 DEF Refuser, Register, Unregister, Arbitrate, Mount, Plug, vars
<1>3. QED
  BY <1>1, <1>2 DEF Next

\* Before the choice, what changes the machine comes from outside.
LEMMA ComesFromOutside ==
  ASSUME caller.pc \in Choosing, request = "none", [Next]_vars
  PROVE  UNCHANGED machine \/ (\E v \in machine.spare : machine' = With(machine, v)) \/ Connects
<1> USE DEF Choosing, At
<1>1. CASE Command
  BY <1>1 DEF Command, List, Type, ListAgain, KeepUnmounted, Ready, ReadMounts, Umount, Umounted, OpenLinux,
     Settle, Asks, Heard, Deadline, OpenMacos, OpenWindows, LockVolume, OpenPhysical, CloseDrive, LetGo, Join
<1>2. CASE Refuser \/ UNCHANGED vars
  BY <1>2 DEF Refuser, Register, Unregister, vars
<1>3. CASE Arbitrate
  BY <1>3 DEF Arbitrate
<1>4. CASE Mount
  BY <1>4 DEF Mount
<1>5. CASE Plug
  BY <1>5 DEF Plug, Connects
<1>6. QED
  BY <1>1, <1>2, <1>3, <1>4, <1>5 DEF Next

\* So the machine tells as before, and needs what it needed of the drives that
\* were listed, which are those of the machine until a drive comes or goes.
LEMMA MachineFollows ==
  ASSUME Hardware, Numbered, caller.pc \in Choosing, MarksHold, [Next]_vars
  PROVE  /\ HostTells(machine') /\ HostIsSteady(machine')
         /\ At("type") => \A n \in Listed : n \in Needed(machine') <=> n \in Needed(machine)
<1>1. HostTells(machine) /\ HostIsSteady(machine) /\ request = "none" /\ Sound(machine)
  BY DEF MarksHold, Hardware
<1>2. CASE UNCHANGED machine
  <2> DEFINE m == machine
             x == machine'
  <2>1. x = m /\ HostTells(m) /\ HostIsSteady(m)
    BY <1>1, <1>2
  <2> HIDE DEF x, m
  <2>2. HostTells(x) /\ HostIsSteady(x) /\ Needed(x) = Needed(m)
    BY <2>1
  <2>3. QED
    BY <2>2 DEF x, m
<1>3. CASE \E v \in machine.spare : machine' = With(machine, v)
  <2>1. PICK v \in machine.spare : machine' = With(machine, v)
    BY <1>3
  <2>2. Continues(machine, With(machine, v), Listed)
    BY <1>1, SteadyHosts
  <2> DEFINE x == With(machine, v)
  <2>3. machine' = x /\ HostTells(x) /\ HostIsSteady(x)
        /\ \A n \in Listed : n \in Needed(x) <=> n \in Needed(machine)
    BY <2>1, <2>2 DEF Continues
  <2> HIDE DEF x
  <2>4. QED
    BY <2>3
<1>4. CASE Connects
  <2> DEFINE x == Plugged(machine)
  <2>1. machine' = x /\ Continues(machine, x, Names(machine)) /\ ~machine.plugged
    BY <1>1, <1>4, SteadyHosts DEF Connects
  <2> HIDE DEF x
  <2>2. HostTells(x) /\ HostIsSteady(x)
        /\ \A n \in Names(machine) : n \in Needed(x) <=> n \in Needed(machine)
    BY <2>1 DEF Continues
  <2>3. At("type") => Listed = Names(machine)
    BY <2>1 DEF Numbered
  <2>4. QED
    BY <2>1, <2>2, <2>3
<1>5. QED
  BY <1>1, <1>2, <1>3, <1>4, ComesFromOutside

\* Each step keeps the marks exact.
LEMMA MarksStep ==
  ASSUME Hardware, Shape, Asking, Numbered, MarksHold, [Next]_vars
  PROVE  MarksHold'
<1> SUFFICES ASSUME caller'.pc \in Choosing
             PROVE  /\ request' = "none" /\ HostTells(machine') /\ HostIsSteady(machine')
                    /\ caller'.pc = "type" =>
                         \A i \in DOMAIN caller'.list :
                           caller'.list[i].system <=> caller'.list[i].id \in Needed(machine')
  BY DEF MarksHold, At
<1>1. caller.pc \in Choosing
  BY ChoiceIsFirst
<1>2. request = "none" /\ HostTells(machine) /\ ~caller.loop
  BY <1>1 DEF MarksHold, Asking
<1>3. request' = "none"
  BY <1>1, <1>2, NobodyAsks
<1>4. /\ HostTells(machine') /\ HostIsSteady(machine')
      /\ At("type") => \A n \in Listed : n \in Needed(machine') <=> n \in Needed(machine)
  BY <1>1, MachineFollows
<1>5. ASSUME caller'.pc = "type", NEW i \in DOMAIN caller'.list
      PROVE  caller'.list[i].system <=> caller'.list[i].id \in Needed(machine')
  <2>1. CASE List
    <3>1. PICK found \in SetToSeqs(ListOf(machine)) :
            caller' = [caller EXCEPT !.pc = "type", !.list = InListOrder(found)]
      BY <1>5, <2>1 DEF List, Fail, Shape, CallerFields
    <3>2. caller'.list = InListOrder(found)
      BY <3>1 DEF Shape, CallerFields
    <3> DEFINE drive == InListOrder(found)[i]
    <3>3. drive \in ListOf(machine)
      <4>1. IsFiniteSet(Names(machine)) /\ Names(machine) \subseteq DOMAIN Runs
        BY DEF Hardware, WellNamed
      <4>2. \A c, d \in ListOf(machine) : c.id = d.id => c = d
        BY ListIsOfUnits DEF Hardware, Sound, WellNamed
      <4>3. Names(machine) = Ids(ListOf(machine))
        BY DEF Names, Ids
      <4>4. QED
        BY <1>5, <3>2, <4>1, <4>2, <4>3, NumbersAreRanks
    <3>4. drive.system <=> drive.id \in Needed(machine)
      BY <1>2, <3>3, MarksOfTheList DEF Hardware, Sound
    <3>5. machine' = machine
      BY <2>1 DEF List
    <3>6. Needed(machine') = Needed(machine)
      <4> DEFINE m == machine
                 x == machine'
      <4>1. x = m
        BY <3>5
      <4> HIDE DEF m, x
      <4>2. Needed(x) = Needed(m)
        BY <4>1
      <4>3. QED
        BY <4>2 DEF m, x
    <3>7. QED
      BY <3>2, <3>4, <3>6
  <2>2. CASE Type \/ ListAgain
    <3>1. "pc" \in CallerFields
      BY DEF CallerFields
    <3>2. CASE Type
      <4>1. PICK j, name : caller' = [caller EXCEPT !.pc = "again", !.number = j, !.shown = name]
        BY <3>2 DEF Type
      <4>2. caller'.pc = "again"
        BY <3>1, <4>1 DEF Shape
      <4>3. QED
        BY <1>5, <4>2
    <3>3. CASE ListAgain
      <4>1. (\E why : Fail(why)) \/ \E id : caller' = [caller EXCEPT !.pc = "guard", !.target = id]
        BY <3>3 DEF ListAgain
      <4>2. caller'.pc \in {"let_go", "guard"}
        BY <3>1, <4>1 DEF Fail, Shape
      <4>3. QED
        BY <1>5, <4>2
    <3>4. QED
      BY <2>2, <3>2, <3>3
  <2>3. CASE Chosen
    <3>1. caller.pc = "type" /\ caller'.list = caller.list
      BY <1>5, <2>3 DEF Chosen
    <3>2. caller.list[i].system <=> caller.list[i].id \in Needed(machine)
      BY <1>1, <1>5, <3>1 DEF MarksHold, At
    <3>3. At("type") /\ caller.list[i].id \in Listed
      BY <1>5, <3>1 DEF At, Listed
    <3>4. QED
      BY <1>4, <3>1, <3>2, <3>3
  <2>4. QED
    BY <2>1, <2>2, <2>3, CallerSteps
<1>6. QED
  BY <1>3, <1>4, <1>5

\* The list that the person reads marks every drive that the running system
\* needs and no other, on every set of machines that tell what their systems lie
\* on: however many devices lie between (walk_slaves of Linux, whole_disks_above
\* of macOS, system_disk_numbers of Windows), whatever is mounted, connected or
\* taken out meanwhile.
THEOREM MarksAreExactAlways ==
  ASSUME \A m \in Machines : HostTells(m) /\ HostIsSteady(m)
  PROVE  Spec => []MarksAreExact
<1>1. Init => MarksHold
  BY DEF Init, MarksHold, At
<1>2. IInv /\ MarksHold /\ [Next]_vars => MarksHold'
  BY MarksStep DEF IInv
<1>3. MarksHold => MarksAreExact
  <2>1. SUFFICES ASSUME MarksHold, At("type")
                 PROVE  Marked = Listed \cap Needed(machine)
    BY DEF MarksAreExact
  <2>2. \A i \in DOMAIN caller.list : caller.list[i].system <=> caller.list[i].id \in Needed(machine)
    BY <2>1 DEF MarksHold, At, Choosing
  <2>3. QED
    BY <2>2 DEF Marked, Listed
<1>4. QED
  BY <1>1, <1>2, <1>3, InvariantAlways, PTL DEF Spec
=============================================================================
