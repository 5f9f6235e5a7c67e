---------------------------- MODULE DigitsProofs ----------------------------
(***************************************************************************)
(* The binary digits an attestor signs, for any number of digits: read     *)
(* back by a wallet, they give the outcome, and the outcome is the nearest *)
(* one to what the contract emitted.  Induction is stated over sets of     *)
(* numbers, and recursion over functions, so that both can be cited.       *)
(***************************************************************************)
EXTENDS Attestor, WellFoundedInduction, TLAPS

-----------------------------------------------------------------------------
\* Every nonempty set of natural numbers has a least element.
LEMMA LeastNumber ==
    ASSUME NEW T \in SUBSET Nat, T # {}
    PROVE  \E x \in T : \A y \in T : x =< y
<1> DEFINE R == OpToRel(<, Nat)
<1>1. IsWellFoundedOn(R, Nat)
  BY NatLessThanWellFounded
<1>2. \A x, y \in Nat : y < x => <<y, x>> \in R
  BY DEF OpToRel
<1> HIDE DEF R
<1>3. PICK x \in T : \A y \in T : ~(<<y, x>> \in R)
  BY <1>1, WFMin
<1>4. ASSUME NEW y \in T PROVE x =< y
  <2>1. x \in Nat /\ y \in Nat /\ ~(y < x)
    BY <1>2, <1>3
  <2> QED  BY <2>1
<1> QED  BY <1>4

\* Induction: a set that holds 0 and the successor of each of its elements
\* holds all natural numbers.
LEMMA SetInduction ==
    ASSUME NEW S \in SUBSET Nat, 0 \in S, \A n \in S : n + 1 \in S
    PROVE  S = Nat
<1> SUFFICES ASSUME Nat \ S # {} PROVE FALSE
  OBVIOUS
<1>1. PICK x \in Nat \ S : \A y \in Nat \ S : x =< y
  BY LeastNumber
<1>2. x - 1 \in S
  BY <1>1
<1> QED  BY <1>1, <1>2

\* f starts at base and goes on by step.
Iterates(f, S, base, step) ==
    /\ f \in [Nat -> S]
    /\ f[0] = base
    /\ \A n \in Nat : f[n + 1] = step[n][f[n]]

\* Recursion: there is a function that starts and goes on in a given way.
LEMMA Recursion ==
    ASSUME NEW S, NEW base, NEW step, base \in S, step \in [Nat -> [S -> S]]
    PROVE  \E f : Iterates(f, S, base, step)
<1> DEFINE Upto(n, g) == /\ g \in [0 .. n -> S] /\ g[0] = base
                         /\ \A i \in 0 .. n - 1 : g[i + 1] = step[i][g[i]]
           A == {n \in Nat : \E g : Upto(n, g)}
<1>1. A = Nat
  <2>1. 0 \in A
    <3>1. Upto(0, [i \in 0 .. 0 |-> base])
      OBVIOUS
    <3> QED  BY <3>1
  <2>2. ASSUME NEW n \in A PROVE n + 1 \in A
    <3>1. PICK g : Upto(n, g)
      OBVIOUS
    <3> DEFINE h == [i \in 0 .. n + 1 |->
                       IF i = n + 1 THEN step[n][g[n]] ELSE g[i]]
    <3>2. n \in Nat /\ g[n] \in S
      BY <3>1
    <3>3. step[n][g[n]] \in S
      BY <3>2
    <3>4. h \in [0 .. n + 1 -> S] /\ h[0] = base
      BY <3>1, <3>2, <3>3
    <3>5. \A i \in 0 .. (n + 1) - 1 : h[i + 1] = step[i][h[i]]
      BY <3>1, <3>2
    <3>6. Upto(n + 1, h)
      BY <3>4, <3>5
    <3> HIDE DEF Upto, h
    <3>7. n + 1 \in Nat /\ \E k : Upto(n + 1, k)
      BY <3>2, <3>6
    <3> QED  BY <3>7
  <2> HIDE DEF A
  <2> QED  BY <2>1, <2>2, SetInduction DEF A
<1>2. ASSUME NEW n \in Nat, NEW m \in Nat, NEW g, NEW h, Upto(n, g), Upto(m, h)
      PROVE  \A i \in Nat : i =< n /\ i =< m => g[i] = h[i]
  <2> DEFINE B == {i \in Nat : i =< n /\ i =< m => g[i] = h[i]}
  <2>1. 0 \in B
    BY <1>2
  <2>2. \A i \in B : i + 1 \in B
    BY <1>2
  <2>3. B = Nat
    <3> HIDE DEF B
    <3> QED  BY <2>1, <2>2, SetInduction DEF B
  <2> QED  BY <2>3
<1> DEFINE G(n) == CHOOSE g : Upto(n, g)
<1>3. \A n \in Nat : Upto(n, G(n))
  <2> SUFFICES ASSUME NEW n \in Nat PROVE Upto(n, G(n))
    OBVIOUS
  <2>1. \E g : Upto(n, g)
    BY <1>1
  <2> HIDE DEF Upto
  <2> QED  BY <2>1
<1> DEFINE f == [n \in Nat |-> G(n)[n]]
<1>4. \A n \in Nat : f[n] \in S /\ f[n + 1] = step[n][f[n]]
  <2> SUFFICES ASSUME NEW n \in Nat PROVE f[n] \in S /\ f[n + 1] = step[n][f[n]]
    OBVIOUS
  <2> HIDE DEF G, Upto
  <2>1. n + 1 \in Nat /\ n =< n /\ n =< n + 1
    OBVIOUS
  <2>2. Upto(n, G(n)) /\ Upto(n + 1, G(n + 1))
    BY <1>3, <2>1
  <2>3. G(n + 1)[n] = G(n)[n]
    BY <2>1, <2>2, <1>2
  <2> USE DEF Upto
  <2> QED  BY <2>2, <2>3
<1>5. f[0] = base
  BY <1>3
<1>6. Iterates(f, S, base, step)
  <2> HIDE DEF G
  <2> QED  BY <1>4, <1>5 DEF Iterates
<1> QED  BY <1>6

-----------------------------------------------------------------------------
\* Pow2 satisfies its recursive definition, and is never 0.
LEMMA Pow2Def ==
    /\ Pow2 \in [Nat -> Nat \ {0}]
    /\ Pow2[0] = 1
    /\ \A k \in Nat : Pow2[k + 1] = 2 * Pow2[k]
<1> DEFINE P == Nat \ {0}
           step == [n \in Nat |-> [v \in P |-> 2 * v]]
<1>1. PICK f : Iterates(f, P, 1, step)
  <2>1. step \in [Nat -> [P -> P]] /\ 1 \in P
    OBVIOUS
  <2> HIDE DEF step, P
  <2> QED  BY <2>1, Recursion
<1>2. \A n \in Nat : f[n + 1] = 2 * f[n]
  BY <1>1 DEF Iterates
<1>3. f = [k \in Nat |-> IF k = 0 THEN 1 ELSE 2 * f[k - 1]]
  <2>1. \A k \in Nat : k # 0 => k - 1 \in Nat /\ f[k] = 2 * f[k - 1]
    BY <1>2
  <2> QED  BY <1>1, <2>1 DEF Iterates
<1>4. Pow2 = [k \in Nat |-> IF k = 0 THEN 1 ELSE 2 * Pow2[k - 1]]
  BY <1>3 DEF Pow2
<1>5. Pow2[0] = 1 /\ \A k \in Nat : Pow2[k + 1] = 2 * Pow2[k]
  BY <1>4
<1>6. Pow2 \in [Nat -> P]
  <2> DEFINE B == {k \in Nat : Pow2[k] \in P}
  <2>1. 0 \in B /\ \A k \in B : k + 1 \in B
    BY <1>5
  <2>2. B = Nat
    <3> HIDE DEF B
    <3> QED  BY <2>1, SetInduction DEF B
  <2> QED  BY <1>4, <2>2
<1> QED  BY <1>5, <1>6

\* A wallet that reads the digits gets the number the attestor wrote, if it
\* fits (format! in attest; the decomposition read by a wallet).
THEOREM DigitsReadBack ==
    ASSUME NEW o \in Nat, o < Pow2[NbDigits]
    PROVE  NumberOf(Digits(o)) = o
<1> USE ConstantsAssumption
<1> DEFINE N == NbDigits
           d == Digits(o)
           g == [i \in 0 .. N |-> o \div Pow2[N - i]]
           Solves(r) == r = [i \in 0 .. N |-> IF i = 0 THEN 0
                                              ELSE 2 * r[i - 1] + d[i]]
           read == CHOOSE r : Solves(r)
<1>1. \A k \in Nat : Pow2[k] \in Nat \ {0} /\ Pow2[k + 1] = 2 * Pow2[k]
  BY Pow2Def
\* The first i digits are the number without its last N - i digits.
<1>2. g[0] = 0
  <2>1. g[0] = o \div Pow2[N]
    OBVIOUS
  <2>2. Pow2[N] \in Nat \ {0}
    BY <1>1
  <2> QED  BY <2>1, <2>2
<1>3. \A i \in 1 .. N : g[i] = 2 * g[i - 1] + d[i]
  <2> SUFFICES ASSUME NEW i \in 1 .. N PROVE g[i] = 2 * g[i - 1] + d[i]
    OBVIOUS
  <2> DEFINE p == Pow2[N - i]
  <2>1. N - i \in Nat /\ p \in Nat \ {0} /\ Pow2[N - (i - 1)] = 2 * p
    <3>1. N - i \in Nat /\ N - (i - 1) = (N - i) + 1
      OBVIOUS
    <3> QED  BY <3>1, <1>1
  <2> HIDE DEF p
  <2>2. g[i] = o \div p /\ g[i - 1] = o \div (2 * p) /\ d[i] = (o \div p) % 2
    BY <2>1 DEF p, Digits
  <2>3. o \div (2 * p) = (o \div p) \div 2
    BY <2>1
  <2>4. o \div p \in Nat
    BY <2>1
  <2> HIDE DEF g, d
  <2> QED  BY <2>2, <2>3, <2>4
<1>4. Solves(g)
  <2> HIDE DEF d
  <2>1. ASSUME NEW i \in 0 .. N
        PROVE  g[i] = IF i = 0 THEN 0 ELSE 2 * g[i - 1] + d[i]
    <3> HIDE DEF g
    <3>1. CASE i = 0
      BY <3>1, <1>2
    <3>2. CASE i \in 1 .. N
      BY <3>2, <1>3
    <3> QED  BY <3>1, <3>2
  <2>2. g = [i \in 0 .. N |-> g[i]]
    OBVIOUS
  <2> HIDE DEF g
  <2> QED  BY <2>1, <2>2
<1>5. Solves(read)
  <2> HIDE DEF Solves
  <2> QED  BY <1>4
<1>6. \A i \in 0 .. N : read[i] = g[i]
  <2> DEFINE B == {i \in Nat : i \in 0 .. N => read[i] = g[i]}
  <2> HIDE DEF g, read, d
  <2>1. 0 \in B
    BY <1>5, <1>2
  <2>2. ASSUME NEW i \in B PROVE i + 1 \in B
    <3> SUFFICES ASSUME i + 1 \in 0 .. N PROVE read[i + 1] = g[i + 1]
      OBVIOUS
    <3>1. i \in 0 .. N /\ i + 1 \in 1 .. N /\ i + 1 # 0 /\ (i + 1) - 1 = i
      OBVIOUS
    <3>2. read[i + 1] = 2 * read[i] + d[i + 1]
      BY <1>5, <3>1
    <3>3. g[i + 1] = 2 * g[i] + d[i + 1]
      BY <1>3, <3>1
    <3> QED  BY <3>1, <3>2, <3>3
  <2>3. B = Nat
    <3> HIDE DEF B
    <3> QED  BY <2>1, <2>2, SetInduction DEF B
  <2> QED  BY <2>3
<1>7. g[N] = o
  BY Pow2Def
<1> QED  BY <1>6, <1>7 DEF NumberOf

\* Math.round(value / 10^precisionShift): the formatted outcome is at most
\* half a unit away, and above in a tie.
LEMMA OutcomeIsNearest ==
    ASSUME NEW raw \in Nat
    PROVE  LET diff == 2 * (FormatOutcome(raw) * Scale - raw)
           IN  /\ FormatOutcome(raw) \in Nat
               /\ -Scale < diff /\ diff =< Scale
<1> USE ConstantsAssumption
<1> DEFINE q == (raw + Scale \div 2) \div Scale
           r == (raw + Scale \div 2) % Scale
<1>1. Scale \div 2 \in Nat /\ 2 * (Scale \div 2) \in {Scale, Scale - 1}
  OBVIOUS
<1>2. q \in Nat /\ r \in 0 .. Scale - 1 /\ raw + Scale \div 2 = Scale * q + r
  OBVIOUS
<1> QED  BY <1>1, <1>2 DEF FormatOutcome

\* What is signed for the outcome a contract emitted has NbDigits digits and
\* reads as the nearest outcome.
LEMMA DigitsDecode ==
    ASSUME NEW raw \in RawOutcomes
    PROVE  LET digits == Digits(FormatOutcome(raw))
               diff == 2 * (NumberOf(digits) * Scale - raw)
           IN  /\ Len(digits) = NbDigits
               /\ -Scale < diff /\ diff =< Scale
<1>1. Len(Digits(FormatOutcome(raw))) = NbDigits
  BY ConstantsAssumption DEF Digits
<1>2. raw \in Nat /\ FormatOutcome(raw) < Pow2[NbDigits]
  BY ConstantsAssumption, OutcomeAssumption
<1>3. NumberOf(Digits(FormatOutcome(raw))) = FormatOutcome(raw)
  BY <1>2, OutcomeIsNearest, DigitsReadBack
<1> QED  BY <1>1, <1>2, <1>3, OutcomeIsNearest
=============================================================================
