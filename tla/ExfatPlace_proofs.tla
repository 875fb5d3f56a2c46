------------------------- MODULE ExfatPlace_proofs -------------------------
(***************************************************************************)
(* What the arithmetic of plan.rs and exfat/geometry.rs promises, for      *)
(* every drive, sector and tree: partitions that are aligned, apart, on    *)
(* the drive and named by the table without a bit lost, and a volume whose *)
(* FAT and heap fit it.                                                    *)
(*                                                                         *)
(* And the lemmas on sums and on sequences of sequences that the proofs    *)
(* about an exFAT volume and about partition 1 rest on.                    *)
(***************************************************************************)
EXTENDS ExfatPlace, FiniteSetTheorems, SequenceTheorems, TLAPS

----------------------------------------------------------------------------
(* Division.                                                               *)

\* A product grows with each factor.
LEMMA ProductGrows ==
  ASSUME NEW a \in Int, NEW b \in Int, a <= b, NEW n \in Nat
  PROVE  a * n <= b * n
  BY SMT

\* A quotient, by what it is.
LEMMA Quotient ==
  ASSUME NEW a \in Int, NEW b \in Nat \ {0}
  PROVE  /\ a \div b \in Int
         /\ (a \div b) * b <= a
         /\ a < (a \div b + 1) * b
  BY SMT

\* The quotient is the only number of that kind.
LEMMA QuotientIs ==
  ASSUME NEW a \in Int, NEW b \in Nat \ {0}, NEW q \in Int, q * b <= a, a < (q + 1) * b
  PROVE  a \div b = q
<1> DEFINE d == a \div b
<1>1. d \in Int /\ d * b <= a /\ a < (d + 1) * b
  BY Quotient
<1> HIDE DEF d
<1>2. ~(d + 1 <= q)
  <2> SUFFICES ASSUME d + 1 <= q PROVE FALSE
    OBVIOUS
  <2>1. (d + 1) * b <= q * b
    BY <1>1, ProductGrows
  <2>2. (d + 1) * b \in Int /\ q * b \in Int
    BY <1>1
  <2>3. QED
    BY <1>1, <2>1, <2>2
<1>3. ~(q + 1 <= d)
  <2> SUFFICES ASSUME q + 1 <= d PROVE FALSE
    OBVIOUS
  <2>1. (q + 1) * b <= d * b
    BY <1>1, ProductGrows
  <2>2. (q + 1) * b \in Int /\ d * b \in Int
    BY <1>1
  <2>3. QED
    BY <1>1, <2>1, <2>2
<1>4. QED
  BY <1>1, <1>2, <1>3 DEF d

\* A larger number has no smaller quotient.
LEMMA QuotientGrows ==
  ASSUME NEW a \in Int, NEW c \in Int, a <= c, NEW b \in Nat \ {0}
  PROVE  a \div b <= c \div b
<1> DEFINE p == a \div b
           q == c \div b
<1>1. p \in Int /\ q \in Int /\ p * b <= a /\ c < (q + 1) * b
  BY Quotient
<1> HIDE DEF p, q
<1>2. ~(q + 1 <= p)
  <2> SUFFICES ASSUME q + 1 <= p PROVE FALSE
    OBVIOUS
  <2>1. (q + 1) * b <= p * b
    BY <1>1, ProductGrows
  <2>2. (q + 1) * b \in Int /\ p * b \in Int
    BY <1>1
  <2>3. QED
    BY <1>1, <2>1, <2>2
<1>3. QED
  BY <1>1, <1>2 DEF p, q

\* Rounded up: enough, and no unit more.
LEMMA DivCeilIsEnough ==
  ASSUME NEW a \in Int, NEW b \in Nat \ {0}
  PROVE  /\ DivCeil(a, b) \in Int
         /\ a <= DivCeil(a, b) * b
         /\ DivCeil(a, b) * b < a + b
<1> DEFINE n == a + b - 1
           d == n \div b
<1>1. n \in Int
  OBVIOUS
<1>2. d \in Int /\ d * b <= n /\ n < (d + 1) * b
  BY <1>1, Quotient
<1>3. DivCeil(a, b) = d
  BY DEF DivCeil
<1> HIDE DEF d
<1>4. (d + 1) * b = d * b + b /\ d * b \in Int
  BY <1>2
<1>5. QED
  BY <1>2, <1>3, <1>4

\* What is a whole number of units.
Whole(value, unit) == \E n \in Int : value = n * unit

LEMMA WholeSum ==
  ASSUME NEW a \in Int, NEW b \in Int, NEW unit \in Nat \ {0}, Whole(a, unit), Whole(b, unit)
  PROVE  Whole(a + b, unit) /\ Whole(a - b, unit)
<1>1. PICK m \in Int : a = m * unit
  BY DEF Whole
<1>2. PICK n \in Int : b = n * unit
  BY DEF Whole
<1>3. a + b = (m + n) * unit /\ a - b = (m - n) * unit
  BY <1>1, <1>2
<1>4. m + n \in Int /\ m - n \in Int
  BY <1>1, <1>2
<1>5. Whole(a + b, unit)
  BY <1>3, <1>4, Zenon DEF Whole
<1>6. Whole(a - b, unit)
  BY <1>3, <1>4, Zenon DEF Whole
<1>7. QED
  BY <1>5, <1>6

\* A whole number of mebibytes is one of sectors.
LEMMA WholeOfWhole ==
  ASSUME NEW a \in Int, NEW b \in Int, NEW unit \in Nat \ {0}, Whole(a, b), Whole(b, unit)
  PROVE  Whole(a, unit)
<1>1. PICK m \in Int : a = m * b
  BY DEF Whole
<1>2. PICK n \in Int : b = n * unit
  BY DEF Whole
<1>3. a = (m * n) * unit /\ m * n \in Int
  BY <1>1, <1>2
<1>4. QED
  BY <1>3 DEF Whole

LEMMA WholeQuotient ==
  ASSUME NEW a \in Int, NEW unit \in Nat \ {0}, Whole(a, unit)
  PROVE  (a \div unit) * unit = a
<1>1. PICK m \in Int : a = m * unit
  BY DEF Whole
<1>2. (m + 1) * unit = m * unit + unit
  BY <1>1
<1>3. a < (m + 1) * unit /\ m * unit <= a
  BY <1>1, <1>2
<1>4. a \div unit = m
  BY <1>1, <1>3, QuotientIs
<1>5. QED
  BY <1>1, <1>4

LEMMA AlignIsWhole ==
  ASSUME NEW sector \in SECTOR_SIZES
  PROVE  sector \in Nat \ {0} /\ ALIGN \in Nat \ {0} /\ Whole(ALIGN, sector)
<1>1. sector \in Nat \ {0} /\ ALIGN \in Nat \ {0} /\ ALIGN % sector = 0
  BY LayoutAssumption
<1>2. ALIGN = (ALIGN \div sector) * sector /\ ALIGN \div sector \in Int
  BY <1>1, SMT
<1>3. QED
  BY <1>1, <1>2 DEF Whole

----------------------------------------------------------------------------
(* Recursion, sums and sequences of sequences.                             *)

\* A set of numbers that is not empty has a least one.
LEMMA LeastOf ==
  ASSUME NEW S \in SUBSET Nat, S # {}
  PROVE  \E k \in S : \A j \in S : k <= j
<1>1. \A j, k \in Nat : j < k => <<j, k>> \in OpToRel(<, Nat)
  BY Zenon DEF OpToRel
<1>2. PICK k \in S : \A j \in S : ~(<<j, k>> \in OpToRel(<, Nat))
  BY NatLessThanWellFounded, WFMin
<1>3. \A j \in S : ~(j < k)
  BY <1>1, <1>2
<1>4. QED
  BY <1>3

\* Induction over the numbers, with a set in place of a predicate.
LEMMA Counting ==
  ASSUME NEW S, 0 \in S, \A n \in Nat : n \in S => n + 1 \in S
  PROVE  \A n \in Nat : n \in S
<1>1. ASSUME Nat \ S # {} PROVE FALSE
  <2>1. PICK n \in Nat \ S : \A j \in Nat \ S : n <= j
    BY <1>1, LeastOf
  <2>2. n # 0 /\ n - 1 \in Nat /\ n - 1 \in S
    BY <2>1
  <2>3. (n - 1) + 1 \in S
    BY <2>2
  <2>4. QED
    BY <2>1, <2>3
<1>2. QED
  BY <1>1

\* For each base and step there is a function that takes each value from the one
\* before it.
Solvable(V) ==
  \A base \in V : \A step \in [Nat -> [V -> V]] : \A n \in Nat :
    \E f \in [0 .. n -> V] : f[0] = base /\ \A k \in 1 .. n : f[k] = step[k][f[k - 1]]

LEMMA Recursion ==
  ASSUME NEW V
  PROVE  Solvable(V)
<1> SUFFICES ASSUME NEW base \in V, NEW step \in [Nat -> [V -> V]]
             PROVE  \A n \in Nat : \E f \in [0 .. n -> V] :
                      f[0] = base /\ \A k \in 1 .. n : f[k] = step[k][f[k - 1]]
  BY DEF Solvable
<1> DEFINE Solves(f, n) == f[0] = base /\ \A k \in 1 .. n : f[k] = step[k][f[k - 1]]
           S == {n \in Nat : \E f \in [0 .. n -> V] : Solves(f, n)}
<1>1. 0 \in S
  <2>1. [k \in 0 .. 0 |-> base] \in [0 .. 0 -> V] /\ Solves([k \in 0 .. 0 |-> base], 0)
    OBVIOUS
  <2>2. QED
    BY <2>1
<1>2. ASSUME NEW n \in Nat, n \in S
      PROVE  n + 1 \in S
  <2>1. PICK f \in [0 .. n -> V] : Solves(f, n)
    BY <1>2
  <2> DEFINE g == [k \in 0 .. n + 1 |-> IF k = n + 1 THEN step[k][f[n]] ELSE f[k]]
  <2>2. f[n] \in V /\ step[n + 1] \in [V -> V]
    OBVIOUS
  <2>3. g \in [0 .. n + 1 -> V]
    <3>1. ASSUME NEW k \in 0 .. n + 1 PROVE (IF k = n + 1 THEN step[k][f[n]] ELSE f[k]) \in V
      <4>1. CASE k = n + 1
        BY <2>2, <4>1
      <4>2. CASE k # n + 1
        <5>1. k \in 0 .. n
          BY <4>2
        <5>2. QED
          BY <4>2, <5>1
      <4>3. QED
        BY <4>1, <4>2
    <3>2. QED
      BY <3>1
  <2>4. g[n + 1] = step[n + 1][f[n]] /\ \A k \in 0 .. n : g[k] = f[k]
    OBVIOUS
  <2> HIDE DEF g
  <2>5. g[0] = base
    <3>1. 0 \in 0 .. n
      OBVIOUS
    <3>2. QED
      BY <2>1, <2>4, <3>1
  <2>6. ASSUME NEW k \in 1 .. n + 1 PROVE g[k] = step[k][g[k - 1]]
    <3>1. CASE k = n + 1
      <4>1. k - 1 = n /\ n \in 0 .. n
        BY <3>1
      <4>2. QED
        BY <2>4, <3>1, <4>1
    <3>2. CASE k # n + 1
      <4>1. k \in 1 .. n /\ k \in 0 .. n /\ k - 1 \in 0 .. n
        BY <3>2
      <4>2. QED
        BY <2>1, <2>4, <4>1
    <3>3. QED
      BY <3>1, <3>2
  <2>7. Solves(g, n + 1)
    BY <2>5, <2>6
  <2>8. QED
    BY <2>3, <2>7
<1> HIDE DEF S
<1>3. \A n \in Nat : n \in S
  BY <1>1, <1>2, Counting
<1>4. QED
  BY <1>3 DEF S

\* What a sum is: the sums of the first elements, one after the other.
Sums(up, s) == up = [k \in 0 .. Len(s) |-> IF k = 0 THEN 0 ELSE up[k - 1] + s[k]]

LEMMA SumsExist ==
  ASSUME NEW s \in Seq(Int)
  PROVE  \E up \in [0 .. Len(s) -> Int] : Sums(up, s)
<1> DEFINE step == [k \in Nat |-> [v \in Int |-> IF k \in 1 .. Len(s) THEN v + s[k] ELSE 0]]
<1>1. Len(s) \in Nat /\ s \in [1 .. Len(s) -> Int]
  OBVIOUS
<1>2. step \in [Nat -> [Int -> Int]]
  BY <1>1
<1>3. \A k \in 1 .. Len(s) : \A v \in Int : step[k][v] = v + s[k]
  BY <1>1
<1> HIDE DEF step
<1>4. PICK f \in [0 .. Len(s) -> Int] : f[0] = 0 /\ \A k \in 1 .. Len(s) : f[k] = step[k][f[k - 1]]
  <2>1. 0 \in Int
    OBVIOUS
  <2>2. Solvable(Int)
    BY Recursion
  <2>3. \A n \in Nat : \E f \in [0 .. n -> Int] : f[0] = 0 /\ \A k \in 1 .. n : f[k] = step[k][f[k - 1]]
    BY <1>2, <2>1, <2>2 DEF Solvable
  <2>4. QED
    BY <1>1, <2>3, Zenon
<1>5. ASSUME NEW k \in 0 .. Len(s) PROVE f[k] = IF k = 0 THEN 0 ELSE f[k - 1] + s[k]
  <2>1. CASE k = 0
    BY <1>4, <2>1
  <2>2. CASE k # 0
    <3>1. k \in 1 .. Len(s) /\ k - 1 \in 0 .. Len(s)
      BY <1>1, <2>2
    <3>2. QED
      BY <1>3, <1>4, <2>2, <3>1
  <2>3. QED
    BY <2>1, <2>2
<1>6. f = [k \in 0 .. Len(s) |-> f[k]]
  OBVIOUS
<1>7. Sums(f, s)
  BY <1>5, <1>6 DEF Sums
<1>8. QED
  BY <1>7

\* Total is the last of them.
LEMMA TotalIs ==
  ASSUME NEW s \in Seq(Int)
  PROVE  \E up \in [0 .. Len(s) -> Int] : Sums(up, s) /\ Total(s) = up[Len(s)]
<1> DEFINE upTo[k \in 0 .. Len(s)] == IF k = 0 THEN 0 ELSE upTo[k - 1] + s[k]
<1>1. Total(s) = upTo[Len(s)]
  BY DEF Total
<1>2. upTo = CHOOSE up : Sums(up, s)
  BY DEF Sums
<1> HIDE DEF upTo
<1>3. Sums(upTo, s)
  BY <1>2, SumsExist
<1>4. Len(s) \in Nat /\ s \in [1 .. Len(s) -> Int]
  OBVIOUS
<1>5. \A k \in 0 .. Len(s) : upTo[k] \in Int
  <2> DEFINE S == {k \in Nat : k <= Len(s) => upTo[k] \in Int}
  <2>1. \A k \in 0 .. Len(s) : upTo[k] = IF k = 0 THEN 0 ELSE upTo[k - 1] + s[k]
    BY <1>3 DEF Sums
  <2>2. 0 \in S
    BY <1>4, <2>1
  <2>3. ASSUME NEW n \in Nat, n \in S PROVE n + 1 \in S
    <3>1. CASE n + 1 <= Len(s)
      <4>1. n + 1 \in 0 .. Len(s) /\ n + 1 \in 1 .. Len(s) /\ n + 1 # 0 /\ (n + 1) - 1 = n /\ upTo[n] \in Int
        BY <1>4, <2>3, <3>1
      <4>2. upTo[n + 1] = upTo[n] + s[n + 1] /\ s[n + 1] \in Int
        BY <1>4, <2>1, <4>1
      <4>3. QED
        BY <4>1, <4>2
    <3>2. QED
      BY <1>4, <3>1
  <2> HIDE DEF S
  <2>4. \A n \in Nat : n \in S
    BY <2>2, <2>3, Counting
  <2>5. QED
    BY <1>4, <2>4 DEF S
<1>6. upTo = [k \in 0 .. Len(s) |-> upTo[k]]
  <2>1. DOMAIN upTo = 0 .. Len(s) /\ upTo = [k \in DOMAIN upTo |-> upTo[k]]
    BY <1>3 DEF Sums
  <2>2. QED
    BY <2>1
<1>7. upTo \in [0 .. Len(s) -> Int]
  BY <1>5, <1>6
<1>8. QED
  BY <1>1, <1>3, <1>7

LEMMA TotalIsInt ==
  ASSUME NEW s \in Seq(Int)
  PROVE  Total(s) \in Int
<1>1. PICK up \in [0 .. Len(s) -> Int] : Total(s) = up[Len(s)]
  BY TotalIs
<1>2. Len(s) \in 0 .. Len(s)
  OBVIOUS
<1>3. QED
  BY <1>1, <1>2

\* Two sequences in a row have the elements of both.
LEMMA ElementsOfBoth ==
  ASSUME NEW S, NEW s \in Seq(S), NEW t \in Seq(S)
  PROVE  ToSet(s \o t) = ToSet(s) \cup ToSet(t)
<1>1. /\ Len(s) \in Nat /\ Len(t) \in Nat /\ DOMAIN s = 1 .. Len(s) /\ DOMAIN t = 1 .. Len(t)
      /\ DOMAIN (s \o t) = 1 .. Len(s) + Len(t)
  OBVIOUS
<1>2. \A i \in 1 .. Len(s) : (s \o t)[i] = s[i]
  OBVIOUS
<1>3. \A i \in 1 .. Len(t) : (s \o t)[Len(s) + i] = t[i]
  OBVIOUS
<1>4. ASSUME NEW x \in ToSet(s \o t) PROVE x \in ToSet(s) \cup ToSet(t)
  <2>1. PICK i \in 1 .. Len(s) + Len(t) : x = (s \o t)[i]
    BY <1>1 DEF ToSet
  <2>2. CASE i \in 1 .. Len(s)
    <3>1. x = s[i]
      BY <1>2, <2>1, <2>2
    <3>2. QED
      BY <1>1, <2>2, <3>1 DEF ToSet
  <2>3. CASE i \notin 1 .. Len(s)
    <3>1. i - Len(s) \in 1 .. Len(t) /\ i = Len(s) + (i - Len(s))
      BY <1>1, <2>3
    <3>2. x = t[i - Len(s)]
      BY <1>3, <2>1, <3>1
    <3>3. QED
      BY <1>1, <3>1, <3>2 DEF ToSet
  <2>4. QED
    BY <2>2, <2>3
<1>5. ASSUME NEW x \in ToSet(s) \cup ToSet(t) PROVE x \in ToSet(s \o t)
  <2>1. CASE x \in ToSet(s)
    <3>1. PICK i \in 1 .. Len(s) : x = s[i]
      BY <1>1, <2>1 DEF ToSet
    <3>2. i \in 1 .. Len(s) + Len(t) /\ x = (s \o t)[i]
      BY <1>1, <1>2, <3>1
    <3>3. QED
      BY <1>1, <3>2 DEF ToSet
  <2>2. CASE x \in ToSet(t)
    <3>1. PICK i \in 1 .. Len(t) : x = t[i]
      BY <1>1, <2>2 DEF ToSet
    <3>2. Len(s) + i \in 1 .. Len(s) + Len(t) /\ x = (s \o t)[Len(s) + i]
      BY <1>1, <1>3, <3>1
    <3>3. QED
      BY <1>1, <3>2 DEF ToSet
  <2>3. QED
    BY <1>5, <2>1, <2>2
<1>6. QED
  BY <1>4, <1>5

\* A row of n things is a sequence of that length.
LEMMA RowIsSeq ==
  ASSUME NEW S, NEW n \in Nat, NEW f \in [1 .. n -> S]
  PROVE  f \in Seq(S) /\ Len(f) = n
<1>1. f \in Seq(S)
  OBVIOUS
<1>2. DOMAIN f = 1 .. n /\ DOMAIN f = 1 .. Len(f) /\ Len(f) \in Nat
  BY <1>1
<1>3. QED
  BY <1>1, <1>2

\* What one sequence after another is.
Joins(all, s) == all = [i \in 1 .. Len(s) |-> IF i = 1 THEN s[i] ELSE all[i - 1] \o s[i]]

LEMMA JoinsExist ==
  ASSUME NEW S, NEW s \in Seq(Seq(S))
  PROVE  \E all \in [1 .. Len(s) -> Seq(S)] : Joins(all, s)
<1> DEFINE step == [k \in Nat |-> [v \in Seq(S) |->
                      IF k \in 1 .. Len(s) THEN IF k = 1 THEN s[k] ELSE v \o s[k] ELSE <<>>]]
<1>1. Len(s) \in Nat /\ s \in [1 .. Len(s) -> Seq(S)]
  OBVIOUS
<1>2. step \in [Nat -> [Seq(S) -> Seq(S)]]
  <2>1. ASSUME NEW k \in Nat, NEW v \in Seq(S)
        PROVE  (IF k \in 1 .. Len(s) THEN IF k = 1 THEN s[k] ELSE v \o s[k] ELSE <<>>) \in Seq(S)
    <3>1. k \in 1 .. Len(s) => s[k] \in Seq(S)
      BY <1>1
    <3>2. <<>> \in Seq(S)
      OBVIOUS
    <3>3. k \in 1 .. Len(s) => v \o s[k] \in Seq(S)
      BY <3>1
    <3>4. QED
      BY <3>1, <3>2, <3>3, Zenon
  <2>2. QED
    BY <2>1
<1>3. \A k \in 1 .. Len(s) : \A v \in Seq(S) : step[k][v] = IF k = 1 THEN s[k] ELSE v \o s[k]
  BY <1>1
<1> HIDE DEF step
<1>4. PICK f \in [0 .. Len(s) -> Seq(S)] : f[0] = <<>> /\ \A k \in 1 .. Len(s) : f[k] = step[k][f[k - 1]]
  <2>1. <<>> \in Seq(S)
    OBVIOUS
  <2>2. Solvable(Seq(S))
    BY Recursion
  <2>3. \A n \in Nat : \E f \in [0 .. n -> Seq(S)] : f[0] = <<>> /\ \A k \in 1 .. n : f[k] = step[k][f[k - 1]]
    BY <1>2, <2>1, <2>2 DEF Solvable
  <2>4. QED
    BY <1>1, <2>3, Zenon
<1> DEFINE all == [i \in 1 .. Len(s) |-> f[i]]
<1>5. ASSUME NEW k \in 1 .. Len(s) PROVE all[k] = IF k = 1 THEN s[k] ELSE all[k - 1] \o s[k]
  <2> HIDE DEF all
  <2>1. f[k] = IF k = 1 THEN s[k] ELSE f[k - 1] \o s[k]
    <3>1. k - 1 \in 0 .. Len(s)
      BY <1>1
    <3>2. f[k - 1] \in Seq(S)
      BY <3>1
    <3>3. QED
      BY <1>3, <1>4, <3>2
  <2>2. k # 1 => k - 1 \in 1 .. Len(s)
    BY <1>1
  <2>3. QED
    BY <2>1, <2>2 DEF all
<1>6. all \in [1 .. Len(s) -> Seq(S)]
  <2>1. \A i \in 1 .. Len(s) : i \in 0 .. Len(s)
    BY <1>1
  <2>2. QED
    BY <2>1
<1>7. Joins(all, s)
  <2>1. DOMAIN all = 1 .. Len(s) /\ all = [i \in 1 .. Len(s) |-> all[i]]
    OBVIOUS
  <2> HIDE DEF all
  <2>2. QED
    BY <1>5, <2>1 DEF Joins
<1>8. QED
  BY <1>6, <1>7

\* FlattenSeq is the last of them: it has the elements of each sequence, and where
\* all are of one length, as many as there are of them.
LEMMA FlattenIs ==
  ASSUME NEW S, NEW s \in Seq(Seq(S))
  PROVE  /\ FlattenSeq(s) \in Seq(S)
         /\ ToSet(FlattenSeq(s)) = UNION {ToSet(s[i]) : i \in 1 .. Len(s)}
         /\ \A n \in Nat : (\A i \in 1 .. Len(s) : Len(s[i]) = n) => Len(FlattenSeq(s)) = Len(s) * n
<1>1. Len(s) \in Nat /\ s \in [1 .. Len(s) -> Seq(S)]
  OBVIOUS
<1>2. CASE Len(s) = 0
  <2>1. FlattenSeq(s) = s /\ s = <<>>
    BY <1>1, <1>2 DEF FlattenSeq
  <2>2. QED
    BY <1>2, <2>1 DEF ToSet
<1>3. CASE Len(s) # 0
  <2> DEFINE flatten[i \in 1 .. Len(s)] == IF i = 1 THEN s[i] ELSE flatten[i - 1] \o s[i]
  <2>1. FlattenSeq(s) = flatten[Len(s)]
    BY <1>3 DEF FlattenSeq
  <2>2. flatten = CHOOSE all : Joins(all, s)
    BY DEF Joins
  <2> HIDE DEF flatten
  <2>3. Joins(flatten, s)
    BY <2>2, JoinsExist
  <2>4. \A i \in 1 .. Len(s) : flatten[i] = IF i = 1 THEN s[i] ELSE flatten[i - 1] \o s[i]
    BY <2>3 DEF Joins
  <2> DEFINE Right(i) == /\ flatten[i] \in Seq(S)
                         /\ ToSet(flatten[i]) = UNION {ToSet(s[j]) : j \in 1 .. i}
                         /\ \A n \in Nat : (\A j \in 1 .. Len(s) : Len(s[j]) = n) => Len(flatten[i]) = i * n
             R == {n \in Nat : n + 1 <= Len(s) => Right(n + 1)}
  <2>5. 0 \in R
    <3>1. 1 \in 1 .. Len(s)
      BY <1>1, <1>3
    <3>2. flatten[1] = s[1] /\ s[1] \in Seq(S)
      BY <1>1, <2>4, <3>1
    <3>3. {ToSet(s[j]) : j \in 1 .. 1} = {ToSet(s[1])}
      BY SMT
    <3>4. \A n \in Nat : 1 * n = n
      BY SMT
    <3> HIDE DEF Right
    <3>5. Right(1)
      BY <3>1, <3>2, <3>3, <3>4 DEF Right
    <3>6. QED
      BY <3>5
  <2>6. ASSUME NEW n \in Nat, n \in R PROVE n + 1 \in R
    <3>1. SUFFICES ASSUME (n + 1) + 1 <= Len(s) PROVE Right((n + 1) + 1)
      OBVIOUS
    <3> DEFINE i == n + 1
    <3>2. i \in 1 .. Len(s) /\ i + 1 \in 1 .. Len(s) /\ i + 1 # 1 /\ (i + 1) - 1 = i /\ Right(i)
      <4> HIDE DEF Right
      <4>1. QED
        BY <1>1, <2>6, <3>1
    <3> HIDE DEF i
    <3>3. flatten[i + 1] = flatten[i] \o s[i + 1] /\ s[i + 1] \in Seq(S) /\ flatten[i] \in Seq(S)
      BY <1>1, <2>4, <3>2
    <3>4. flatten[i + 1] \in Seq(S)
      BY <3>3
    <3>5. ToSet(flatten[i + 1]) = ToSet(flatten[i]) \cup ToSet(s[i + 1])
      BY <3>3, ElementsOfBoth
    <3>6. UNION {ToSet(s[j]) : j \in 1 .. i + 1} = (UNION {ToSet(s[j]) : j \in 1 .. i}) \cup ToSet(s[i + 1])
      <4>1. 1 .. i + 1 = (1 .. i) \cup {i + 1}
        BY <3>2
      <4>2. QED
        BY <4>1
    <3>7. ASSUME NEW m \in Nat, \A j \in 1 .. Len(s) : Len(s[j]) = m
          PROVE  Len(flatten[i + 1]) = (i + 1) * m
      <4>1. Len(flatten[i]) = i * m /\ Len(s[i + 1]) = m
        BY <3>2, <3>7
      <4>2. Len(flatten[i + 1]) = Len(flatten[i]) + Len(s[i + 1])
        BY <3>3
      <4>3. (i + 1) * m = i * m + m
        BY <3>2
      <4>4. QED
        BY <4>1, <4>2, <4>3
    <3>8. Right(i + 1)
      BY <3>2, <3>4, <3>5, <3>6, <3>7, Zenon
    <3>9. QED
      BY <3>8 DEF i
  <2> HIDE DEF R, Right
  <2>7. \A n \in Nat : n \in R
    BY <2>5, <2>6, Counting
  <2>8. Right(Len(s))
    <3>1. Len(s) - 1 \in Nat /\ (Len(s) - 1) + 1 = Len(s)
      BY <1>1, <1>3
    <3>2. Len(s) - 1 \in R
      BY <2>7, <3>1
    <3>3. QED
      BY <1>1, <3>1, <3>2 DEF R
  <2>9. QED
    BY <2>1, <2>8 DEF Right
<1>4. QED
  BY <1>2, <1>3

----------------------------------------------------------------------------
(* The two partitions.                                                     *)

\* Both partitions are whole mebibytes, the first holds the tree's bytes and ends
\* where the second starts, and neither leaves the drive.
PartitionsHold(l, bytes) ==
  /\ \A e \in {l.boot, l.install} :
       /\ Whole(e.start, ALIGN) /\ Whole(e.length, ALIGN)
       /\ e.start >= ALIGN /\ e.length >= ALIGN
  /\ l.boot.length >= bytes
  /\ End(l.boot) = l.install.start
  /\ End(l.install) <= l.drive

\* The 32 bits of an entry give back the partition, to its last byte.
NamedExactly(l, entry, extent) ==
  entry.first * l.sector = extent.start /\ entry.count * l.sector = extent.length

\* What Refusal leaves of the numbers.
LEMMA Sizes ==
  ASSUME NEW drive \in Nat, NEW sector \in Nat, NEW bytes \in Nat,
         Refusal(drive, sector, bytes) = "none"
  PROVE  /\ sector \in Nat \ {0} /\ ALIGN \in Nat \ {0} /\ Whole(ALIGN, sector)
         /\ BootPart(bytes).start = ALIGN
         /\ BootPart(bytes).length \in Nat /\ Whole(BootPart(bytes).length, ALIGN)
         /\ BootPart(bytes).length >= bytes /\ BootPart(bytes).length >= ALIGN
         /\ InstallEnd(drive, sector) \in Int /\ Whole(InstallEnd(drive, sector), ALIGN)
         /\ InstallEnd(drive, sector) <= drive
         /\ InstallEnd(drive, sector) <= MBR_SECTORS * sector
         /\ InstallEnd(drive, sector) >= ALIGN + BootPart(bytes).length + ALIGN
<1>1. sector \in SECTOR_SIZES /\ ~(InstallEnd(drive, sector) < End(BootPart(bytes)) + ALIGN)
  BY DEF Refusal
<1>2. sector \in Nat \ {0} /\ ALIGN \in Nat \ {0} /\ Whole(ALIGN, sector)
  BY <1>1, AlignIsWhole
<1> DEFINE asked == IF bytes = 0 THEN 1 ELSE bytes
           units == DivCeil(asked, ALIGN)
           least == IF drive < MBR_SECTORS * sector THEN drive ELSE MBR_SECTORS * sector
           mebibytes == least \div ALIGN
<1>3. asked \in Nat \ {0} /\ bytes <= asked
  OBVIOUS
<1>4. /\ BootPart(bytes).start = ALIGN
      /\ BootPart(bytes).length = units * ALIGN
  BY DEF BootPart, RoundUp
<1>5. units \in Int /\ asked <= units * ALIGN
  <2>1. asked \in Int
    BY <1>3
  <2> HIDE DEF asked
  <2>2. DivCeil(asked, ALIGN) \in Int /\ asked <= DivCeil(asked, ALIGN) * ALIGN
    BY <1>2, <2>1, DivCeilIsEnough, Zenon
  <2>3. QED
    BY <2>2, Zenon DEF units
<1>6. units >= 1
  <2> HIDE DEF asked, units
  <2> SUFFICES ASSUME units <= 0 PROVE FALSE
    BY <1>5
  <2>1. units * ALIGN <= 0 * ALIGN
    BY <1>2, <1>5, ProductGrows
  <2>2. units * ALIGN \in Int
    BY <1>2, <1>5
  <2>3. QED
    BY <1>2, <1>3, <1>5, <2>1, <2>2
<1>7. units * ALIGN \in Nat /\ units * ALIGN >= ALIGN
  <2> HIDE DEF units
  <2>1. 1 * ALIGN <= units * ALIGN
    BY <1>2, <1>5, <1>6, ProductGrows
  <2>2. units * ALIGN \in Int
    BY <1>2, <1>5
  <2>3. QED
    BY <1>2, <2>1, <2>2
<1>8. least \in Int /\ least <= drive /\ least <= MBR_SECTORS * sector
  <2>1. MBR_SECTORS * sector \in Int
    BY LayoutAssumption DEF MBR_SECTORS
  <2>2. QED
    BY <2>1
<1>9. InstallEnd(drive, sector) = mebibytes * ALIGN
  BY DEF InstallEnd, RoundDown
<1>10. mebibytes \in Int /\ mebibytes * ALIGN <= least
  <2> HIDE DEF least
  <2>1. QED
    BY <1>2, <1>8, Quotient
<1>11. End(BootPart(bytes)) = ALIGN + units * ALIGN
  BY <1>4 DEF End
<1> HIDE DEF asked, units, least, mebibytes
<1>12. Whole(units * ALIGN, ALIGN) /\ Whole(mebibytes * ALIGN, ALIGN)
  BY <1>5, <1>10, Zenon DEF Whole
<1>13. /\ mebibytes * ALIGN \in Int
       /\ mebibytes * ALIGN <= drive /\ mebibytes * ALIGN <= MBR_SECTORS * sector
  <2>1. mebibytes * ALIGN \in Int /\ MBR_SECTORS * sector \in Int
    BY <1>2, <1>10, LayoutAssumption DEF MBR_SECTORS
  <2>2. QED
    BY <1>8, <1>10, <2>1
<1>14. mebibytes * ALIGN >= ALIGN + units * ALIGN + ALIGN
  BY <1>1, <1>2, <1>7, <1>9, <1>11, <1>13
<1>15. units * ALIGN >= bytes
  <2>1. units * ALIGN \in Int
    BY <1>7
  <2>2. QED
    BY <1>3, <1>5, <2>1
<1>16. QED
  BY <1>2, <1>4, <1>7, <1>9, <1>12, <1>13, <1>14, <1>15

\* For every drive that plan does not refuse, whatever its sectors and its tree.
THEOREM PartitionsHoldAlways ==
  ASSUME NEW drive \in Nat, NEW sector \in Nat, NEW bytes \in Nat,
         Refusal(drive, sector, bytes) = "none"
  PROVE  PartitionsHold(Layout(drive, sector, bytes), bytes)
<1> DEFINE l   == Layout(drive, sector, bytes)
           len == BootPart(bytes).length
           end == InstallEnd(drive, sector)
<1>1. /\ l.boot.start = ALIGN /\ l.boot.length = len
      /\ l.install.start = ALIGN + len /\ l.install.length = end - (ALIGN + len)
      /\ l.drive = drive
  BY Sizes DEF Layout, End, BootPart
<1>2. /\ ALIGN \in Nat \ {0} /\ len \in Nat /\ Whole(len, ALIGN) /\ len >= bytes /\ len >= ALIGN
      /\ end \in Int /\ Whole(end, ALIGN) /\ end <= drive /\ end >= ALIGN + len + ALIGN
  BY Sizes
<1> HIDE DEF l, len, end
<1>3. Whole(ALIGN, ALIGN)
  <2>1. ALIGN = 1 * ALIGN /\ 1 \in Int
    BY <1>2
  <2>2. QED
    BY <2>1, Zenon DEF Whole
<1>4. ALIGN + len \in Int /\ Whole(ALIGN + len, ALIGN)
  BY <1>2, <1>3, WholeSum
<1>5. Whole(end - (ALIGN + len), ALIGN)
  BY <1>2, <1>4, WholeSum
<1>6. \A e \in {l.boot, l.install} :
        /\ Whole(e.start, ALIGN) /\ Whole(e.length, ALIGN)
        /\ e.start >= ALIGN /\ e.length >= ALIGN
  <2>1. ALIGN + len >= ALIGN /\ end - (ALIGN + len) >= ALIGN /\ ALIGN >= ALIGN
    BY <1>2
  <2>2. QED
    BY <1>1, <1>2, <1>3, <1>4, <1>5, <2>1
<1>7. End(l.boot) = l.install.start /\ End(l.install) = end
  BY <1>1, <1>2 DEF End
<1>8. QED
  BY <1>1, <1>2, <1>6, <1>7 DEF PartitionsHold, l

\* A number of bytes in whole sectors below the bound of the table keeps all of
\* its bits there.
LEMMA KeepsItsBits ==
  ASSUME NEW n \in Nat, NEW sector \in Nat \ {0}, Whole(n, sector), n < MBR_SECTORS * sector
  PROVE  ((n \div sector) % MBR_SECTORS) * sector = n
<1> DEFINE q == n \div sector
<1>1. q \in Int /\ q * sector = n
  BY Quotient, WholeQuotient
<1>2. MBR_SECTORS \in Nat \ {0}
  BY LayoutAssumption DEF MBR_SECTORS
<1> HIDE DEF q
<1>3. ~(MBR_SECTORS <= q)
  <2> SUFFICES ASSUME MBR_SECTORS <= q PROVE FALSE
    OBVIOUS
  <2>1. MBR_SECTORS * sector <= q * sector
    BY <1>1, <1>2, ProductGrows
  <2>2. MBR_SECTORS * sector \in Int
    BY <1>2
  <2>3. QED
    BY <1>1, <2>1, <2>2
<1>4. ~(q + 1 <= 0)
  <2> SUFFICES ASSUME q + 1 <= 0 PROVE FALSE
    OBVIOUS
  <2>1. (q + 1) * sector <= 0 * sector
    BY <1>1, ProductGrows
  <2>2. (q + 1) * sector = q * sector + sector /\ q * sector \in Int
    BY <1>1
  <2>3. QED
    BY <1>1, <2>1, <2>2
<1>5. q % MBR_SECTORS = q
  BY <1>1, <1>2, <1>3, <1>4
<1>6. QED
  BY <1>1, <1>5 DEF q

\* The table names both partitions without a bit lost, also on a drive with more
\* sectors than 32 bits count (mbr_bytes after plan).
THEOREM TableNamesThePartitions ==
  ASSUME NEW drive \in Nat, NEW sector \in Nat, NEW bytes \in Nat,
         Refusal(drive, sector, bytes) = "none"
  PROVE  LET l == Layout(drive, sector, bytes)
         IN  NamedExactly(l, Mbr(l)[1], l.boot) /\ NamedExactly(l, Mbr(l)[2], l.install)
<1> DEFINE l   == Layout(drive, sector, bytes)
           len == BootPart(bytes).length
           end == InstallEnd(drive, sector)
           bound == MBR_SECTORS * sector
<1>1. /\ l.boot.start = ALIGN /\ l.boot.length = len
      /\ l.install.start = ALIGN + len /\ l.install.length = end - (ALIGN + len)
      /\ l.sector = sector
  BY Sizes DEF Layout, End, BootPart
<1>2. /\ sector \in Nat \ {0} /\ ALIGN \in Nat \ {0} /\ Whole(ALIGN, sector)
      /\ len \in Nat /\ Whole(len, ALIGN)
      /\ end \in Int /\ Whole(end, ALIGN) /\ end <= bound /\ end >= ALIGN + len + ALIGN
  BY Sizes
<1>3. bound \in Int
  BY <1>2, LayoutAssumption DEF MBR_SECTORS
<1> HIDE DEF l, len, end, bound
<1>4. Whole(len, sector) /\ Whole(end, sector)
  BY <1>2, WholeOfWhole
<1>5. ALIGN + len \in Nat /\ Whole(ALIGN + len, sector)
  BY <1>2, <1>4, WholeSum
<1>6. end - (ALIGN + len) \in Nat /\ Whole(end - (ALIGN + len), sector)
  BY <1>2, <1>4, <1>5, WholeSum
<1>7. ALIGN < bound /\ len < bound /\ ALIGN + len < bound /\ end - (ALIGN + len) < bound
  BY <1>2, <1>3
<1>8. \A n \in {ALIGN, len, ALIGN + len, end - (ALIGN + len)} :
        ((n \div sector) % MBR_SECTORS) * sector = n
  BY <1>2, <1>4, <1>5, <1>6, <1>7, KeepsItsBits DEF bound
<1>9. \A extent, active :
        /\ Entry(l, extent, active).first = (extent.start \div sector) % MBR_SECTORS
        /\ Entry(l, extent, active).count = (extent.length \div sector) % MBR_SECTORS
  BY <1>1 DEF Entry
<1>10. NamedExactly(l, Entry(l, l.boot, TRUE), l.boot)
  <2>1. /\ Entry(l, l.boot, TRUE).first = (ALIGN \div sector) % MBR_SECTORS
        /\ Entry(l, l.boot, TRUE).count = (len \div sector) % MBR_SECTORS
    BY <1>1, <1>9, Zenon
  <2>2. QED
    BY <1>1, <1>8, <2>1, Zenon DEF NamedExactly
<1>11. NamedExactly(l, Entry(l, l.install, FALSE), l.install)
  <2>1. /\ Entry(l, l.install, FALSE).first = ((ALIGN + len) \div sector) % MBR_SECTORS
        /\ Entry(l, l.install, FALSE).count = ((end - (ALIGN + len)) \div sector) % MBR_SECTORS
    BY <1>1, <1>9, Zenon
  <2>2. QED
    BY <1>1, <1>8, <2>1, Zenon DEF NamedExactly
<1>12. QED
  BY <1>10, <1>11 DEF Mbr, l

----------------------------------------------------------------------------
(* The exFAT volume.                                                       *)

\* What Geometry::new gives: the FAT, sized before the clusters are counted, has an
\* entry for each of them and ends before the heap, and the heap ends on the volume.
LEMMA GeometryHolds ==
  ASSUME NEW volume \in Nat, NEW sector \in SECTOR_SIZES, NEW g \in Geometry(volume, sector)
  PROVE  /\ g.sectorBytes = sector /\ g.clusterSectors \in Nat \ {0}
         /\ g.clusterCount \in Nat /\ g.clusterCount > 0
         /\ g.fatOffset = ALIGN \div sector /\ g.heapOffset \in Nat
         /\ g.volumeSectors = volume \div sector
         /\ g.fatOffset + g.fatLength <= g.heapOffset
         /\ g.fatLength * g.sectorBytes >= (g.clusterCount + 2) * 4
         /\ g.heapOffset + g.clusterCount * g.clusterSectors <= g.volumeSectors
<1> DEFINE sectors == volume \div sector
           bytes   == ClusterBytesFor(volume, sector)
           cluster == bytes \div sector
           align   == ALIGN \div sector
           most    == (sectors - align) \div cluster
           fat     == FatSectors(most, sector)
           units   == DivCeil(align + fat, align)
           heap    == units * align
           fit     == (sectors - heap) \div cluster
           count   == IF fit < MAX_CLUSTERS THEN fit ELSE MAX_CLUSTERS
           length  == FatSectors(count, sector)
<1>1. sector \in Nat \ {0} /\ ALIGN \in Nat \ {0}
  BY AlignIsWhole
<1>2. /\ g = [sectorBytes |-> sector, clusterSectors |-> cluster, volumeSectors |-> sectors,
              fatOffset |-> align, fatLength |-> length, heapOffset |-> heap, clusterCount |-> count]
      /\ ~(sectors < align) /\ ~(sectors < heap) /\ count # 0
  BY Zenon DEF Geometry
<1>3. sectors \in Int /\ align \in Int /\ align >= 1
  <2>1. sectors \in Int /\ align \in Int /\ align * sector = ALIGN
    BY <1>1, AlignIsWhole, Quotient, WholeQuotient
  <2> HIDE DEF align, sectors
  <2>2. ~(align <= 0)
    <3> SUFFICES ASSUME align <= 0 PROVE FALSE
      OBVIOUS
    <3>1. align * sector <= 0 * sector
      BY <1>1, <2>1, ProductGrows
    <3>2. QED
      BY <1>1, <2>1, <3>1
  <2>3. QED
    BY <2>1, <2>2
<1>4. cluster \in Nat \ {0}
  <2>1. bytes \in Nat /\ bytes >= sector
    BY <1>1, GeometryAssumption DEF ClusterBytesFor
  <2> HIDE DEF bytes
  <2>2. sector \div sector <= cluster /\ cluster \in Int
    BY <1>1, <2>1, Quotient, QuotientGrows
  <2>3. sector \div sector = 1
    <3>1. 1 * sector <= sector /\ sector < (1 + 1) * sector
      BY <1>1
    <3>2. QED
      BY <1>1, <3>1, QuotientIs
  <2>4. QED
    BY <2>2, <2>3
<1> HIDE DEF sectors, align, cluster
<1>5. most \in Int /\ most >= 0
  <2>1. 0 \div cluster = 0
    <3>1. 0 * cluster <= 0 /\ 0 < (0 + 1) * cluster
      BY <1>4
    <3>2. QED
      BY <1>4, <3>1, QuotientIs
  <2>2. 0 <= sectors - align /\ sectors - align \in Int
    BY <1>2, <1>3
  <2>3. most \in Int /\ 0 \div cluster <= most
    BY <1>4, <2>2, Quotient, QuotientGrows
  <2>4. QED
    BY <2>1, <2>3
<1> HIDE DEF most
<1>6. fat \in Int /\ fat >= 0
  <2>1. (most + 2) * 4 \in Int /\ (most + 2) * 4 >= 0
    BY <1>5
  <2>2. fat \in Int /\ (most + 2) * 4 <= fat * sector
    BY <1>1, <2>1, DivCeilIsEnough DEF FatSectors
  <2> HIDE DEF fat
  <2>3. ~(fat + 1 <= 0)
    <3> SUFFICES ASSUME fat + 1 <= 0 PROVE FALSE
      OBVIOUS
    <3>1. (fat + 1) * sector <= 0 * sector
      BY <1>1, <2>2, ProductGrows
    <3>2. (fat + 1) * sector = fat * sector + sector /\ fat * sector \in Int
      BY <1>1, <2>2
    <3>3. QED
      BY <1>1, <2>1, <2>2, <3>1, <3>2
  <2>4. QED
    BY <2>2, <2>3
<1>7. heap \in Int /\ align + fat <= heap
  <2> HIDE DEF fat
  <2>1. align + fat \in Int /\ align \in Nat \ {0}
    BY <1>3, <1>6
  <2>2. units \in Int /\ align + fat <= units * align
    BY <2>1, DivCeilIsEnough
  <2> HIDE DEF units
  <2>3. QED
    BY <2>1, <2>2
<1> HIDE DEF heap, units
<1>8. fit \in Int /\ fit * cluster <= sectors - heap /\ fit <= most
  <2>1. sectors - heap \in Int /\ sectors - align \in Int /\ sectors - heap <= sectors - align
    BY <1>3, <1>6, <1>7
  <2>2. fit \in Int /\ fit * cluster <= sectors - heap
    BY <1>4, <2>1, Quotient
  <2>3. fit <= most
    BY <1>4, <2>1, QuotientGrows DEF most
  <2>4. QED
    BY <2>2, <2>3
<1>9. fit >= 0
  <2>1. 0 \div cluster = 0
    <3>1. 0 * cluster <= 0 /\ 0 < (0 + 1) * cluster
      BY <1>4
    <3>2. QED
      BY <1>4, <3>1, QuotientIs
  <2>2. 0 <= sectors - heap /\ sectors - heap \in Int
    BY <1>2, <1>3, <1>7
  <2>3. 0 \div cluster <= fit
    BY <1>4, <2>2, QuotientGrows
  <2>4. QED
    BY <1>8, <2>1, <2>3
<1> HIDE DEF fit
<1>10. count \in Nat /\ count > 0 /\ count <= fit /\ count <= most
  BY <1>2, <1>5, <1>8, <1>9, GeometryAssumption
<1> HIDE DEF count
<1>11. heap + count * cluster <= sectors
  <2>1. count * cluster <= fit * cluster
    BY <1>4, <1>8, <1>10, ProductGrows
  <2>2. count * cluster \in Int /\ fit * cluster \in Int
    BY <1>4, <1>8, <1>10
  <2>3. QED
    BY <1>3, <1>7, <1>8, <2>1, <2>2
<1>12. length \in Int /\ (count + 2) * 4 <= length * sector /\ length <= fat
  <2>1. (count + 2) * 4 \in Int /\ (most + 2) * 4 \in Int /\ (count + 2) * 4 <= (most + 2) * 4
    BY <1>5, <1>10
  <2>2. length \in Int /\ (count + 2) * 4 <= length * sector
    BY <1>1, <2>1, DivCeilIsEnough DEF FatSectors
  <2>3. length <= fat
    <3>1. (count + 2) * 4 + sector - 1 <= (most + 2) * 4 + sector - 1
      BY <1>1, <2>1
    <3>2. (count + 2) * 4 + sector - 1 \in Int /\ (most + 2) * 4 + sector - 1 \in Int
      BY <1>1, <2>1
    <3>3. QED
      BY <1>1, <3>1, <3>2, QuotientGrows DEF FatSectors, DivCeil
  <2>4. QED
    BY <2>2, <2>3
<1> HIDE DEF length, fat
<1>13. align + length <= heap
  BY <1>3, <1>6, <1>7, <1>12
<1>14. length * sector >= (count + 2) * 4
  <2>1. length * sector \in Int
    BY <1>1, <1>12
  <2>2. QED
    BY <1>10, <1>12, <2>1
<1>15. heap \in Nat
  BY <1>3, <1>6, <1>7
<1>16. QED
  BY <1>2, <1>4, <1>10, <1>11, <1>13, <1>14, <1>15 DEF sectors, align

\* Every geometry that Geometry::new gives is one that the reader takes.
THEOREM GeometryFits ==
  ASSUME NEW volume \in Nat, NEW sector \in SECTOR_SIZES, ALIGN \div sector >= 24,
         NEW g \in Geometry(volume, sector)
  PROVE  FitsItself(g)
  BY GeometryHolds DEF FitsItself

=============================================================================
