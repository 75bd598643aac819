-------------------------- MODULE EditValueProofs --------------------------
(***************************************************************************)
(* Proofs about EditValue, for every width and every text: what is         *)
(* accepted is what spells a number of the type, and a number that is not  *)
(* touched stays. The last section is about strings.                       *)
(***************************************************************************)
EXTENDS EditValue, FiniteSetTheorems, SequenceTheorems, WellFoundedInduction, TLAPS

-----------------------------------------------------------------------------
(* Functions defined step by step.                                         *)

LEMMA LeastNatural ==
  ASSUME NEW T, T \subseteq Nat, T # {}
  PROVE  \E x \in T : \A y \in T : x <= y
<1>1. PICK x \in T : \A y \in T : ~ (<<y, x>> \in OpToRel(<, Nat))
  BY WFMin, NatLessThanWellFounded, Zenon
<1>2. ASSUME NEW y \in T PROVE x <= y
  <2>1. x \in Nat /\ y \in Nat
    OBVIOUS
  <2>2. <<y, x>> \in Nat \X Nat /\ <<y, x>>[1] = y /\ <<y, x>>[2] = x
    BY <2>1
  <2>3. y < x => <<y, x>> \in OpToRel(<, Nat)
    BY <2>2 DEF OpToRel
  <2>4. ~ (y < x)
    BY <1>1, <2>3
  <2> QED BY <2>1, <2>4
<1> QED BY <1>2

LEMMA LeastOf ==
  ASSUME NEW m \in Nat, NEW Good, Good \subseteq 0 .. m, 0 \in Good,
         \A i \in 1 .. m : i - 1 \in Good => i \in Good
  PROVE  Good = 0 .. m
<1> DEFINE Bad == (0 .. m) \ Good
<1>1. SUFFICES ASSUME Bad # {} PROVE FALSE
  OBVIOUS
<1>2. Bad \subseteq Nat
  OBVIOUS
<1>3. PICK n \in Bad : \A i \in Bad : n <= i
  BY <1>1, <1>2, LeastNatural
<1>4. n \in 1 .. m /\ n - 1 \in 0 .. m
  BY <1>3
<1>5. n - 1 \notin Bad
  BY <1>3, <1>4
<1> QED BY <1>3, <1>4, <1>5

\* A value for 0 and a step from each number to the next define a function.
HasSteps(S, c, m, step) ==
  \E f \in [0 .. m -> S] : f[0] = c /\ \A i \in 1 .. m : f[i] = step[<<f[i - 1], i>>]

LEMMA StepByStep ==
  ASSUME NEW S, NEW c \in S, NEW m \in Nat, NEW step \in [S \X (1 .. m) -> S]
  PROVE  HasSteps(S, c, m, step)
<1> DEFINE G(n) == \E f \in [0 .. n -> S] : f[0] = c /\ \A i \in 1 .. n : f[i] = step[<<f[i - 1], i>>]
           Good == {n \in 0 .. m : G(n)}
<1>1. G(0)
  <2>1. [i \in 0 .. 0 |-> c] \in [0 .. 0 -> S]
    OBVIOUS
  <2>2. [i \in 0 .. 0 |-> c][0] = c
    OBVIOUS
  <2>3. 1 .. 0 = {}
    OBVIOUS
  <2> QED BY <2>1, <2>2, <2>3
<1>2. ASSUME NEW n \in 1 .. m, G(n - 1) PROVE G(n)
  <2>1. PICK f \in [0 .. n - 1 -> S] : f[0] = c /\ \A i \in 1 .. n - 1 : f[i] = step[<<f[i - 1], i>>]
    BY <1>2
  <2> DEFINE g == [i \in 0 .. n |-> IF i = n THEN step[<<f[n - 1], n>>] ELSE f[i]]
  <2>2. f[n - 1] \in S /\ step[<<f[n - 1], n>>] \in S
    BY <2>1
  <2>3. g \in [0 .. n -> S]
    BY <2>1, <2>2
  <2>4. /\ g[n] = step[<<f[n - 1], n>>]
        /\ \A i \in 0 .. n - 1 : g[i] = f[i]
    OBVIOUS
  <2> HIDE DEF g
  <2>5. g[0] = c
    BY <2>1, <2>4
  <2>6. ASSUME NEW i \in 1 .. n PROVE g[i] = step[<<g[i - 1], i>>]
    <3>1. g[i - 1] = f[i - 1]
      BY <2>4
    <3>2. CASE i = n
      BY <2>4, <3>1, <3>2
    <3>3. CASE i # n
      <4>1. i \in 1 .. n - 1 /\ i \in 0 .. n - 1
        BY <3>3
      <4> QED BY <2>1, <2>4, <3>1, <4>1
    <3> QED BY <3>2, <3>3
  <2> QED BY <2>3, <2>5, <2>6
<1> HIDE DEF G
<1>3. Good = 0 .. m
  <2>1. 0 \in Good
    BY <1>1
  <2>2. \A i \in 1 .. m : i - 1 \in Good => i \in Good
    BY <1>2
  <2> HIDE DEF Good
  <2> QED BY <2>1, <2>2, LeastOf DEF Good
<1>4. G(m)
  BY <1>3
<1> QED BY <1>4 DEF G, HasSteps

-----------------------------------------------------------------------------
(* Powers of two.                                                          *)

LEMMA PowerIsSubsets ==
  ASSUME NEW n \in Nat
  PROVE  IsFiniteSet(SUBSET (1 .. n)) /\ Cardinality(SUBSET (1 .. n)) = 2 ^ n
<1>1. IsFiniteSet(1 .. n) /\ Cardinality(1 .. n) = n
  <2>1. 1 \in Int /\ n \in Int
    OBVIOUS
  <2>2. IsFiniteSet(1 .. n) /\ Cardinality(1 .. n) = IF 1 > n THEN 0 ELSE n - 1 + 1
    BY <2>1, FS_Interval
  <2> QED BY <2>2
<1> QED BY <1>1, FS_SUBSET

LEMMA PowerIsNatural ==
  ASSUME NEW n \in Nat
  PROVE  2 ^ n \in Nat /\ 2 ^ n >= 1
<1>1. IsFiniteSet(SUBSET (1 .. n)) /\ Cardinality(SUBSET (1 .. n)) = 2 ^ n
  BY PowerIsSubsets
<1>2. SUBSET (1 .. n) # {}
  OBVIOUS
<1>3. Cardinality(SUBSET (1 .. n)) \in Nat /\ Cardinality(SUBSET (1 .. n)) # 0
  BY <1>1, <1>2, FS_CardinalityType, FS_EmptySet
<1> QED BY <1>1, <1>3

LEMMA PowerDoubles ==
  ASSUME NEW n \in Nat
  PROVE  2 ^ (n + 1) = 2 * 2 ^ n
<1> DEFINE A == SUBSET (1 .. n)
           B == SUBSET (1 .. n + 1)
           C == {x \in B : n + 1 \in x}
           f == [x \in A |-> x \cup {n + 1}]
<1>1. IsFiniteSet(A) /\ Cardinality(A) = 2 ^ n
  BY PowerIsSubsets
<1>2. IsFiniteSet(B) /\ Cardinality(B) = 2 ^ (n + 1)
  <2>1. n + 1 \in Nat
    OBVIOUS
  <2> QED BY <2>1, PowerIsSubsets
<1>3. n + 1 \notin 1 .. n /\ 1 .. n + 1 = (1 .. n) \cup {n + 1}
  OBVIOUS
<1>4. B = A \cup C /\ A \cap C = {}
  BY <1>3
<1>5. f \in Injection(A, C) /\ f \in Surjection(A, C)
  <2>1. f \in [A -> C]
    BY <1>3
  <2>2. ASSUME NEW x \in A, NEW y \in A, f[x] = f[y] PROVE x = y
    BY <1>3, <2>2
  <2>3. ASSUME NEW y \in C PROVE \E x \in A : f[x] = y
    <3>1. y \ {n + 1} \in A /\ (y \ {n + 1}) \cup {n + 1} = y
      BY <1>3
    <3> QED BY <3>1
  <2> HIDE DEF f, A, C
  <2> QED BY <2>1, <2>2, <2>3 DEF Injection, IsInjective, Surjection
<1> HIDE DEF f, A, B, C
<1>6. IsFiniteSet(C)
  BY <1>2, <1>4, FS_Subset
<1>7. Cardinality(A) = Cardinality(C)
  BY <1>5, <1>6, FS_Injection
<1>8. Cardinality(B) = Cardinality(A) + Cardinality(C) - Cardinality(A \cap C)
  BY <1>1, <1>4, <1>6, FS_Union
<1>9. Cardinality(A \cap C) = 0
  BY <1>4, FS_EmptySet
<1>10. 2 ^ n \in Nat
  BY PowerIsNatural
<1> QED BY <1>1, <1>2, <1>7, <1>8, <1>9, <1>10

LEMMA PowerRises ==
  ASSUME NEW m \in Nat, NEW n \in Nat, m <= n
  PROVE  2 ^ m <= 2 ^ n
<1>1. SUBSET (1 .. m) \subseteq SUBSET (1 .. n)
  OBVIOUS
<1>2. Cardinality(SUBSET (1 .. m)) <= Cardinality(SUBSET (1 .. n))
  BY <1>1, PowerIsSubsets, FS_Subset
<1> QED BY <1>2, PowerIsSubsets

-----------------------------------------------------------------------------
(* Figures and the number that a sequence of them spells.                  *)

LEMMA FiguresDiffer ==
  /\ DOMAIN Figures = 1 .. 22
  /\ \A i, j \in 1 .. 22 : Figures[i] = Figures[j] => i = j
  /\ \A i \in 1 .. 22 : Figures[i] \notin {"-", "+", "x", "X"}
  /\ Figures[1] = "0"
<1>1. DOMAIN Figures = 1 .. 22
  BY DEF Figures
<1>2. /\ Figures[1] = "0" /\ Figures[2] = "1" /\ Figures[3] = "2" /\ Figures[4] = "3" /\ Figures[5] = "4"
      /\ Figures[6] = "5" /\ Figures[7] = "6" /\ Figures[8] = "7" /\ Figures[9] = "8" /\ Figures[10] = "9"
      /\ Figures[11] = "A" /\ Figures[12] = "B" /\ Figures[13] = "C" /\ Figures[14] = "D" /\ Figures[15] = "E"
      /\ Figures[16] = "F" /\ Figures[17] = "a" /\ Figures[18] = "b" /\ Figures[19] = "c"
      /\ Figures[20] = "d" /\ Figures[21] = "e" /\ Figures[22] = "f"
  BY DEF Figures
<1>3. \A i \in 1 .. 22 : i \in {1, 2, 3, 4, 5, 6, 7, 8, 9, 10, 11, 12, 13, 14, 15, 16, 17, 18, 19, 20, 21, 22}
  OBVIOUS
<1>4. \A i, j \in 1 .. 22 : Figures[i] = Figures[j] => i = j
  BY <1>2, <1>3
<1>5. \A i \in 1 .. 22 : Figures[i] \notin {"-", "+", "x", "X"}
  BY <1>2, <1>3
<1> QED BY <1>1, <1>2, <1>4, <1>5

LEMMA FigureFacts ==
  ASSUME NEW base \in {10, 16}
  PROVE  /\ \A i \in 1 .. base : isFigure(Figures[i], base) /\ ValueOfFigure(Figures[i]) = i - 1
         /\ \A c : isFigure(c, base) => /\ ValueOfFigure(c) \in 0 .. base - 1 /\ ValueOfFigure(c) \in Nat
                                        /\ c \notin {"-", "+", "x", "X"}
<1>1. \A i \in 1 .. base : i \in 1 .. 16 /\ i \in 1 .. 22 /\ i <= 16
  OBVIOUS
<1>2. ASSUME NEW i \in 1 .. 22 PROVE ValueOfFigure(Figures[i]) = IF i <= 16 THEN i - 1 ELSE i - 7
  <2>1. \A j \in DOMAIN Figures : Figures[j] = Figures[i] <=> j = i
    BY FiguresDiffer
  <2>2. (CHOOSE j \in DOMAIN Figures : Figures[j] = Figures[i]) = i
    BY <2>1, FiguresDiffer
  <2>3. ValueOfFigure(Figures[i]) =
          IF (CHOOSE j \in DOMAIN Figures : Figures[j] = Figures[i]) <= 16
          THEN (CHOOSE j \in DOMAIN Figures : Figures[j] = Figures[i]) - 1
          ELSE (CHOOSE j \in DOMAIN Figures : Figures[j] = Figures[i]) - 7
    BY Zenon DEF ValueOfFigure
  <2> QED BY <2>2, <2>3, Zenon
<1>3. ASSUME NEW i \in 1 .. base PROVE isFigure(Figures[i], base)
  <2>1. i \in 1 .. (IF base = 10 THEN 10 ELSE 22)
    OBVIOUS
  <2> QED BY <2>1 DEF isFigure
<1>4. ASSUME NEW i \in 1 .. base PROVE ValueOfFigure(Figures[i]) = i - 1
  BY <1>1, <1>2
<1>5. ASSUME NEW c, isFigure(c, base)
      PROVE  ValueOfFigure(c) \in 0 .. base - 1 /\ ValueOfFigure(c) \in Nat /\ c \notin {"-", "+", "x", "X"}
  <2>1. PICK i \in 1 .. (IF base = 10 THEN 10 ELSE 22) : Figures[i] = c
    BY <1>5 DEF isFigure
  <2>2. i \in 1 .. 22 /\ (base = 10 => i <= 10)
    BY <2>1
  <2>3. ValueOfFigure(c) = IF i <= 16 THEN i - 1 ELSE i - 7
    BY <1>2, <2>1, <2>2
  <2>4. c \notin {"-", "+", "x", "X"}
    BY <2>1, <2>2, FiguresDiffer
  <2> QED BY <2>2, <2>3, <2>4
<1> QED BY <1>3, <1>4, <1>5

AllFigures(s, base) == \A i \in 1 .. Len(s) : isFigure(s[i], base)

\* h[i] is the number that the first i figures spell.
Horner(s, base, h) ==
  /\ h \in [0 .. Len(s) -> Nat] /\ h[0] = 0
  /\ \A i \in 1 .. Len(s) : h[i] = h[i - 1] * base + ValueOfFigure(s[i])

LEMMA HornerExists ==
  ASSUME NEW C, NEW s \in Seq(C), NEW base \in {10, 16}, AllFigures(s, base)
  PROVE  \E h : Horner(s, base, h)
<1> PICK m \in Nat : m = Len(s)
  OBVIOUS
<1> DEFINE step == [x \in Nat \X (1 .. m) |-> x[1] * base + ValueOfFigure(s[x[2]])]
<1>1. \A i \in 1 .. m : ValueOfFigure(s[i]) \in Nat
  BY FigureFacts DEF AllFigures
<1>2. step \in [Nat \X (1 .. m) -> Nat]
  <2>1. ASSUME NEW x \in Nat \X (1 .. m) PROVE x[1] * base + ValueOfFigure(s[x[2]]) \in Nat
    <3>1. x[1] \in Nat /\ x[2] \in 1 .. m
      OBVIOUS
    <3>2. ValueOfFigure(s[x[2]]) \in Nat
      BY <1>1, <3>1
    <3> PICK a \in Nat : a = x[1]
      BY <3>1
    <3> PICK b \in Nat : b = ValueOfFigure(s[x[2]])
      BY <3>2
    <3>3. a * base + b \in Nat
      OBVIOUS
    <3> QED BY <3>3
  <2> QED BY <2>1
<1>3. \A a \in Nat : \A i \in 1 .. m : step[<<a, i>>] = a * base + ValueOfFigure(s[i])
  OBVIOUS
<1> HIDE DEF step
<1> PICK one : one = step
  OBVIOUS
<1>4. PICK f \in [0 .. m -> Nat] : f[0] = 0 /\ \A i \in 1 .. m : f[i] = one[<<f[i - 1], i>>]
  <2>1. 0 \in Nat /\ one \in [Nat \X (1 .. m) -> Nat]
    BY <1>2
  <2>2. HasSteps(Nat, 0, m, one)
    BY <2>1, StepByStep, Zenon
  <2> QED BY <2>2 DEF HasSteps
<1>5. ASSUME NEW i \in 1 .. m PROVE f[i] = f[i - 1] * base + ValueOfFigure(s[i])
  <2>1. f[i - 1] \in Nat
    BY <1>4
  <2> QED BY <1>3, <1>4, <2>1
<1> QED BY <1>4, <1>5 DEF Horner

LEMMA HornerRises ==
  ASSUME NEW C, NEW s \in Seq(C), NEW base \in {10, 16}, AllFigures(s, base), NEW h, Horner(s, base, h),
         NEW i \in 1 .. Len(s)
  PROVE  h[i] \in Nat /\ h[i - 1] \in Nat /\ h[i - 1] <= h[i]
<1>1. i \in 0 .. Len(s) /\ i - 1 \in 0 .. Len(s)
  OBVIOUS
<1>2. h[i] \in Nat /\ h[i - 1] \in Nat /\ h[i] = h[i - 1] * base + ValueOfFigure(s[i])
  BY <1>1 DEF Horner
<1>3. ValueOfFigure(s[i]) \in Nat
  BY FigureFacts DEF AllFigures
<1> QED BY <1>2, <1>3

\* What strtoull has read when it has read i figures.
Upto(s, base) ==
  LET upto[i \in 0 .. Len(s)] == IF i = 0 THEN 0 ELSE NextFigure(upto[i - 1], base, ValueOfFigure(s[i]))
  IN  upto

LEMMA strtoullIs ==
  ASSUME NEW C, NEW s \in Seq(C), NEW base \in {10, 16}, AllFigures(s, base), NEW h, Horner(s, base, h)
  PROVE  strtoull(s, base) = IF h[Len(s)] > ULLONG_MAX THEN ERANGE ELSE h[Len(s)]
<1> PICK m \in Nat : m = Len(s)
  OBVIOUS
<1>1. ULLONG_MAX \in Nat /\ ERANGE \notin Nat
  BY EditAssumption, PowerIsNatural DEF ULLONG_MAX, ERANGE
<1> PICK M \in Nat : M = ULLONG_MAX
  BY <1>1
<1> DEFINE g == [i \in 0 .. m |-> IF h[i] > M THEN ERANGE ELSE h[i]]
<1>2. ASSUME NEW i \in 1 .. m PROVE g[i] = NextFigure(g[i - 1], base, ValueOfFigure(s[i]))
  <2>1. h[i] \in Nat /\ h[i - 1] \in Nat /\ h[i - 1] <= h[i]
    BY HornerRises
  <2>2. h[i] = h[i - 1] * base + ValueOfFigure(s[i])
    BY DEF Horner
  <2>3. g[i] = (IF h[i] > M THEN ERANGE ELSE h[i]) /\ g[i - 1] = IF h[i - 1] > M THEN ERANGE ELSE h[i - 1]
    OBVIOUS
  <2> HIDE DEF g
  <2>4. CASE h[i - 1] > M
    BY <2>1, <2>3, <2>4 DEF NextFigure
  <2>5. CASE ~(h[i - 1] > M)
    <3>1. g[i - 1] = h[i - 1] /\ g[i - 1] # ERANGE
      BY <1>1, <2>1, <2>3, <2>5
    <3> QED BY <2>2, <2>3, <3>1 DEF NextFigure
  <2> QED BY <2>4, <2>5
<1>3. g[0] = 0
  BY DEF Horner
<1>4. g = [i \in 0 .. m |-> IF i = 0 THEN 0 ELSE NextFigure(g[i - 1], base, ValueOfFigure(s[i]))]
  <2>1. g = [i \in 0 .. m |-> g[i]]
    OBVIOUS
  <2> HIDE DEF g
  <2>2. ASSUME NEW i \in 0 .. m
        PROVE  g[i] = IF i = 0 THEN 0 ELSE NextFigure(g[i - 1], base, ValueOfFigure(s[i]))
    <3>1. i = 0 \/ i \in 1 .. m
      OBVIOUS
    <3> QED BY <1>2, <1>3, <3>1
  <2> QED BY <2>1, <2>2, Zenon
<1> DEFINE U == Upto(s, base)
<1>5. U = [i \in 0 .. m |-> IF i = 0 THEN 0 ELSE NextFigure(U[i - 1], base, ValueOfFigure(s[i]))]
  <2> HIDE DEF g
  <2> QED BY <1>4 DEF Upto
<1> HIDE DEF g, U
<1> DEFINE Good == {i \in 0 .. m : U[i] = g[i]}
<1>6. 0 \in Good
  BY <1>3, <1>5
<1>7. ASSUME NEW i \in 1 .. m, i - 1 \in Good PROVE i \in Good
  <2>1. U[i] = NextFigure(U[i - 1], base, ValueOfFigure(s[i])) /\ U[i - 1] = g[i - 1]
    BY <1>5, <1>7
  <2> QED BY <1>2, <2>1
<1>8. Good = 0 .. m
  <2> HIDE DEF Good
  <2>1. Good \subseteq 0 .. m
    BY DEF Good
  <2> QED BY <1>6, <1>7, <2>1, LeastOf
<1>9. U[m] = g[m]
  BY <1>8
<1> QED BY <1>9 DEF U, g, Upto, strtoull

\* The places of Worth and its sums from the right.
Places(s, base) ==
  LET place[i \in 0 .. Len(s)] == IF i = 0 THEN 1 ELSE base * place[i - 1]
  IN  place

Sums(s, base) ==
  LET worth[i \in 0 .. Len(s)] ==
        IF i = 0 THEN 0
        ELSE worth[i - 1] + ValueOfFigure(s[Len(s) - i + 1]) * Places(s, base)[i - 1]
  IN  worth

LEMMA PlacesAre ==
  ASSUME NEW C, NEW s \in Seq(C), NEW base \in {10, 16}
  PROVE  /\ Places(s, base) \in [0 .. Len(s) -> Nat] /\ Places(s, base)[0] = 1
         /\ \A i \in 1 .. Len(s) : Places(s, base)[i] = base * Places(s, base)[i - 1]
<1> PICK m \in Nat : m = Len(s)
  OBVIOUS
<1> PICK step : step = [x \in Nat \X (1 .. m) |-> base * x[1]]
  OBVIOUS
<1>1. step \in [Nat \X (1 .. m) -> Nat] /\ \A a \in Nat : \A i \in 1 .. m : step[<<a, i>>] = base * a
  <2>1. ASSUME NEW x \in Nat \X (1 .. m) PROVE base * x[1] \in Nat
    <3> PICK a \in Nat : a = x[1]
      OBVIOUS
    <3>1. base * a \in Nat
      OBVIOUS
    <3> QED BY <3>1
  <2>2. \A a \in Nat : \A i \in 1 .. m : step[<<a, i>>] = base * a
    OBVIOUS
  <2> QED BY <2>1, <2>2
<1>2. HasSteps(Nat, 1, m, step)
  <2>1. 1 \in Nat
    OBVIOUS
  <2> QED BY <1>1, <2>1, StepByStep, Zenon
<1>3. PICK f \in [0 .. m -> Nat] : f[0] = 1 /\ \A i \in 1 .. m : f[i] = step[<<f[i - 1], i>>]
  BY <1>2 DEF HasSteps
<1>4. f = [i \in 0 .. m |-> IF i = 0 THEN 1 ELSE base * f[i - 1]]
  <2>1. ASSUME NEW i \in 0 .. m PROVE f[i] = IF i = 0 THEN 1 ELSE base * f[i - 1]
    <3>1. CASE i = 0
      BY <1>3, <3>1
    <3>2. CASE i # 0
      <4>1. i \in 1 .. m /\ i - 1 \in 0 .. m
        BY <3>2
      <4> QED BY <1>1, <1>3, <3>2, <4>1
    <3> QED BY <3>1, <3>2
  <2>2. f = [i \in 0 .. m |-> f[i]]
    BY <1>3
  <2> QED BY <2>1, <2>2, Zenon
<1> DEFINE P == Places(s, base)
<1>5. P = [i \in 0 .. m |-> IF i = 0 THEN 1 ELSE base * P[i - 1]]
  BY <1>4 DEF Places
<1> HIDE DEF P
<1>6. P[0] = 1 /\ \A i \in 1 .. m : P[i] = base * P[i - 1]
  <2>1. 0 \in 0 .. m /\ \A i \in 1 .. m : i \in 0 .. m /\ i # 0
    OBVIOUS
  <2>2. \A i \in 0 .. m : P[i] = IF i = 0 THEN 1 ELSE base * P[i - 1]
    BY <1>5, Zenon
  <2> QED BY <2>1, <2>2
<1> DEFINE Good == {i \in 0 .. m : P[i] \in Nat}
<1>7. Good = 0 .. m
  <2>1. 0 \in Good
    BY <1>6
  <2>2. \A i \in 1 .. m : i - 1 \in Good => i \in Good
    BY <1>6
  <2>3. Good \subseteq 0 .. m
    OBVIOUS
  <2> HIDE DEF Good
  <2> QED BY <2>1, <2>2, <2>3, LeastOf
<1>8. P \in [0 .. m -> Nat]
  <2>1. \A i \in 0 .. m : P[i] \in Nat
    BY <1>7
  <2>2. P = [i \in 0 .. m |-> P[i]]
    BY <1>5
  <2> QED BY <2>1, <2>2
<1> QED BY <1>6, <1>8 DEF P

LEMMA SumsAre ==
  ASSUME NEW C, NEW s \in Seq(C), NEW base \in {10, 16}, AllFigures(s, base)
  PROVE  /\ Sums(s, base)[0] = 0
         /\ \A i \in 1 .. Len(s) :
              Sums(s, base)[i] = Sums(s, base)[i - 1] + ValueOfFigure(s[Len(s) - i + 1]) * Places(s, base)[i - 1]
<1> PICK m \in Nat : m = Len(s)
  OBVIOUS
<1> PICK P : P = Places(s, base)
  OBVIOUS
<1>1. P \in [0 .. m -> Nat]
  BY PlacesAre
<1>2. \A i \in 1 .. m : ValueOfFigure(s[m - i + 1]) \in Nat /\ P[i - 1] \in Nat
  <2>1. \A i \in 1 .. m : m - i + 1 \in 1 .. m /\ i - 1 \in 0 .. m
    OBVIOUS
  <2>2. \A i \in 1 .. m : ValueOfFigure(s[i]) \in Nat
    BY FigureFacts DEF AllFigures
  <2> QED BY <1>1, <2>1, <2>2
<1> PICK add : add = [i \in 1 .. m |-> ValueOfFigure(s[m - i + 1]) * P[i - 1]]
  OBVIOUS
<1>3. add \in [1 .. m -> Nat]
  <2>1. \A a, b \in Nat : a * b \in Nat
    OBVIOUS
  <2>2. \A i \in 1 .. m : ValueOfFigure(s[m - i + 1]) * P[i - 1] \in Nat
    BY <1>2, <2>1
  <2> QED BY <2>2
<1> PICK step : step = [x \in Nat \X (1 .. m) |-> x[1] + add[x[2]]]
  OBVIOUS
<1>4. step \in [Nat \X (1 .. m) -> Nat] /\ \A a \in Nat : \A i \in 1 .. m : step[<<a, i>>] = a + add[i]
  <2>1. ASSUME NEW x \in Nat \X (1 .. m) PROVE x[1] + add[x[2]] \in Nat
    <3>1. x[1] \in Nat /\ x[2] \in 1 .. m
      OBVIOUS
    <3>2. add[x[2]] \in Nat
      BY <1>3, <3>1
    <3> QED BY <3>1, <3>2
  <2>2. \A a \in Nat : \A i \in 1 .. m : step[<<a, i>>] = a + add[i]
    OBVIOUS
  <2> QED BY <2>1, <2>2
<1>5. HasSteps(Nat, 0, m, step)
  <2>1. 0 \in Nat
    OBVIOUS
  <2> QED BY <1>4, <2>1, StepByStep, Zenon
<1>6. PICK f \in [0 .. m -> Nat] : f[0] = 0 /\ \A i \in 1 .. m : f[i] = step[<<f[i - 1], i>>]
  BY <1>5 DEF HasSteps
<1> DEFINE v(i) == ValueOfFigure(s[m - i + 1]) * P[i - 1]
<1>7. f = [i \in 0 .. m |-> IF i = 0 THEN 0 ELSE f[i - 1] + v(i)]
  <2>1. ASSUME NEW i \in 0 .. m PROVE f[i] = IF i = 0 THEN 0 ELSE f[i - 1] + v(i)
    <3>1. CASE i = 0
      BY <1>6, <3>1
    <3>2. CASE i # 0
      <4>1. i \in 1 .. m /\ i - 1 \in 0 .. m
        BY <3>2
      <4>2. add[i] = v(i)
        BY <4>1
      <4> HIDE DEF v
      <4>3. f[i - 1] \in Nat /\ f[i] = step[<<f[i - 1], i>>]
        BY <1>6, <4>1
      <4>4. f[i] = f[i - 1] + add[i]
        BY <1>4, <4>1, <4>3
      <4> QED BY <3>2, <4>2, <4>4
    <3> QED BY <3>1, <3>2
  <2> HIDE DEF v
  <2>2. f = [i \in 0 .. m |-> f[i]]
    BY <1>6
  <2> QED BY <2>1, <2>2, Zenon
<1> DEFINE W == Sums(s, base)
<1>8. W = [i \in 0 .. m |-> IF i = 0 THEN 0 ELSE W[i - 1] + v(i)]
  BY <1>7 DEF Sums
<1> HIDE DEF W
<1>9. W[0] = 0 /\ \A i \in 1 .. m : W[i] = W[i - 1] + v(i)
  <2> HIDE DEF v
  <2>1. 0 \in 0 .. m /\ \A i \in 1 .. m : i \in 0 .. m /\ i # 0
    OBVIOUS
  <2>2. \A i \in 0 .. m : W[i] = IF i = 0 THEN 0 ELSE W[i - 1] + v(i)
    BY <1>8, Zenon
  <2> QED BY <2>1, <2>2
<1> QED BY <1>9 DEF W

LEMMA TimesIsNatural ==
  ASSUME NEW x \in Nat, NEW y \in Nat
  PROVE  x * y \in Nat
OBVIOUS

Regrouped(a, b, c, p, w) == a * (b * p) + (w + c * p) = (a * b + c) * p + w

LEMMA Regroup ==
  ASSUME NEW a \in Nat, NEW c \in Nat, NEW p \in Nat, NEW w \in Nat, NEW b \in Nat
  PROVE  Regrouped(a, b, c, p, w)
<1>1. a * (b * p) + c * p = (a * b + c) * p
  OBVIOUS
<1> PICK x \in Nat : x = a * (b * p)
  <2>1. b * p \in Nat
    OBVIOUS
  <2> PICK y \in Nat : y = b * p
    BY <2>1
  <2>2. a * y \in Nat
    OBVIOUS
  <2> QED BY <2>2
<1> PICK y \in Nat : y = c * p
  <2>1. c * p \in Nat
    OBVIOUS
  <2> QED BY <2>1
<1>2. x + (w + y) = (x + y) + w
  OBVIOUS
<1> QED BY <1>1, <1>2 DEF Regrouped

LEMMA WorthIs ==
  ASSUME NEW C, NEW s \in Seq(C), NEW base \in {10, 16}, AllFigures(s, base), NEW h, Horner(s, base, h)
  PROVE  Worth(s, base) = h[Len(s)]
<1> PICK m \in Nat : m = Len(s)
  OBVIOUS
<1> PICK P : P = Places(s, base)
  OBVIOUS
<1> PICK W : W = Sums(s, base)
  OBVIOUS
<1>1. P \in [0 .. m -> Nat] /\ P[0] = 1 /\ \A i \in 1 .. m : P[i] = base * P[i - 1]
  BY PlacesAre
<1>2. W[0] = 0 /\ \A i \in 1 .. m : W[i] = W[i - 1] + ValueOfFigure(s[m - i + 1]) * P[i - 1]
  BY SumsAre
<1>3. h \in [0 .. m -> Nat] /\ h[0] = 0 /\ \A i \in 1 .. m : h[i] = h[i - 1] * base + ValueOfFigure(s[i])
  BY DEF Horner
<1>4. \A i \in 1 .. m : ValueOfFigure(s[i]) \in Nat
  BY FigureFacts DEF AllFigures
<1> DEFINE Good == {i \in 0 .. m : W[i] \in Nat /\ h[m - i] * P[i] + W[i] = h[m]}
<1>5. 0 \in Good
  <2>1. h[m] \in Nat
    BY <1>3
  <2> QED BY <1>1, <1>2, <2>1
<1>6. ASSUME NEW i \in 1 .. m, i - 1 \in Good PROVE i \in Good
  <2> PICK j : j = m - i + 1
    OBVIOUS
  <2>1. j \in 1 .. m /\ j - 1 = m - i /\ j = m - (i - 1) /\ i - 1 \in 0 .. m /\ j - 1 \in 0 .. m
    OBVIOUS
  <2> PICK a \in Nat : a = h[j - 1]
    BY <1>3, <2>1
  <2> PICK c \in Nat : c = ValueOfFigure(s[j])
    BY <1>4, <2>1
  <2> PICK p \in Nat : p = P[i - 1]
    BY <1>1, <2>1
  <2> PICK w \in Nat : w = W[i - 1]
    BY <1>6
  <2>2. h[j] = a * base + c /\ P[i] = base * p /\ W[i] = w + c * p
    BY <1>1, <1>2, <1>3, <2>1
  <2>3. h[j] * p + w = h[m]
    BY <1>6, <2>1
  <2>4. a * (base * p) + (w + c * p) = (a * base + c) * p + w
    <3>1. base \in Nat
      OBVIOUS
    <3> PICK b \in Nat : b = base
      BY <3>1
    <3>2. Regrouped(a, b, c, p, w)
      BY Regroup, Zenon
    <3> QED BY <3>2, Zenon DEF Regrouped
  <2>5. W[i] \in Nat
    <3>1. c * p \in Nat
      BY TimesIsNatural, Zenon
    <3> PICK q \in Nat : q = c * p
      BY <3>1
    <3>2. W[i] = w + q
      BY <2>2, Zenon
    <3>3. w + q \in Nat
      OBVIOUS
    <3> QED BY <3>2, <3>3, Zenon
  <2>6. h[m - i] * P[i] + W[i] = h[m]
    BY <2>1, <2>2, <2>3, <2>4
  <2> QED BY <2>5, <2>6
<1>7. Good = 0 .. m
  <2>1. Good \subseteq 0 .. m
    OBVIOUS
  <2> HIDE DEF Good
  <2> QED BY <1>5, <1>6, <2>1, LeastOf
<1>8. W[m] \in Nat /\ h[m - m] * P[m] + W[m] = h[m]
  BY <1>7
<1>9. W[m] = h[m]
  <2> PICK p \in Nat : p = P[m]
    BY <1>1
  <2>1. h[m - m] = 0 /\ 0 * p = 0
    BY <1>3
  <2> QED BY <1>3, <1>8, <2>1
<1> QED BY <1>9 DEF Worth, Sums, Places

-----------------------------------------------------------------------------
(* Taking a text apart: what parseNumber finds is the only reading.        *)

SignOf(s)    == IF s # <<>> /\ s[1] \in {"-", "+"} THEN 1 ELSE 0
Minus(s)     == SignOf(s) = 1 /\ s[1] = "-"
IsHex(s)     == Len(s) > SignOf(s) + 1 /\ s[SignOf(s) + 1] = "0" /\ s[SignOf(s) + 2] \in {"x", "X"}
BaseOf(s)    == IF IsHex(s) THEN 16 ELSE 10
FiguresOf(s) == SubSeq(s, SignOf(s) + (IF IsHex(s) THEN 3 ELSE 1), Len(s))
NumberOf(s)  == strtoull(FiguresOf(s), BaseOf(s))
IsNumber(s)  == FiguresOf(s) # <<>> /\ \A i \in DOMAIN FiguresOf(s) : isFigure(FiguresOf(s)[i], BaseOf(s))

LEMMA parseNumberIs ==
  ASSUME NEW s, NEW allowNegative
  PROVE  parseNumber(s, allowNegative) =
           IF /\ IsNumber(s)
              /\ NumberOf(s) # ERANGE
              /\ allowNegative \/ ~Minus(s) \/ NumberOf(s) = 0
           THEN [ok |-> TRUE, negative |-> Minus(s), magnitude |-> NumberOf(s)]
           ELSE [ok |-> FALSE, negative |-> Minus(s), magnitude |-> 0]
<1>1. IsNumber(s) <=> FiguresOf(s) # <<>> /\ \A i \in DOMAIN FiguresOf(s) : isFigure(FiguresOf(s)[i], BaseOf(s))
  BY DEF IsNumber
<1> DEFINE sg == SignOf(s)
<1> QED BY Zenon DEF parseNumber, IsNumber, NumberOf, FiguresOf, BaseOf, IsHex, Minus, SignOf

LEMMA RestIs ==
  ASSUME NEW C, NEW s \in Seq(C), NEW k \in 0 .. Len(s)
  PROVE  /\ SubSeq(s, k + 1, Len(s)) \in Seq(C)
         /\ Len(SubSeq(s, k + 1, Len(s))) = Len(s) - k
         /\ DOMAIN SubSeq(s, k + 1, Len(s)) = 1 .. Len(s) - k
         /\ \A i \in 1 .. Len(s) - k : k + i \in 1 .. Len(s) /\ SubSeq(s, k + 1, Len(s))[i] = s[k + i]
OBVIOUS

Joins(s, a, b, c) ==
  /\ Len(s) = Len(a) + Len(b) + Len(c)
  /\ \A i \in 1 .. Len(a) : s[i] = a[i]
  /\ \A i \in 1 .. Len(b) : s[Len(a) + i] = b[i]
  /\ \A i \in 1 .. Len(c) : s[Len(a) + Len(b) + i] = c[i]

LEMMA JoinIs ==
  ASSUME NEW C, NEW a \in Seq(C), NEW b \in Seq(C), NEW c \in Seq(C)
  PROVE  a \o b \o c \in Seq(C) /\ Joins(a \o b \o c, a, b, c)
BY DEF Joins

LEMMA SameSequence ==
  ASSUME NEW C, NEW a \in Seq(C), NEW b \in Seq(C), Len(a) = Len(b), \A i \in 1 .. Len(a) : a[i] = b[i]
  PROVE  a = b
BY SeqEqual, Zenon

Chars == {"-", "+", "0", "x", "X"}

LEMMA SignsAndMarks ==
  /\ \A e \in Signs : e \in Seq(Chars) /\ ((e = <<>> /\ Len(e) = 0) \/ (Len(e) = 1 /\ e[1] \in {"-", "+"}))
  /\ \A e \in Signs : e = <<"-">> <=> Len(e) = 1 /\ e[1] = "-"
  /\ \A e \in Marks : e \in Seq(Chars) /\ ((e = <<>> /\ Len(e) = 0) \/ (Len(e) = 2 /\ e[1] = "0" /\ e[2] \in {"x", "X"} /\ e # <<>>))
<1>1. <<>> \in Seq(Chars) /\ <<"+">> \in Seq(Chars) /\ <<"-">> \in Seq(Chars)
  BY DEF Chars
<1>2. <<"0", "x">> \in Seq(Chars) /\ <<"0", "X">> \in Seq(Chars)
  BY DEF Chars
<1>3. Len(<<>>) = 0 /\ Len(<<"+">>) = 1 /\ Len(<<"-">>) = 1 /\ <<"+">>[1] = "+" /\ <<"-">>[1] = "-"
  OBVIOUS
<1>4. /\ Len(<<"0", "x">>) = 2 /\ <<"0", "x">>[1] = "0" /\ <<"0", "x">>[2] = "x"
      /\ Len(<<"0", "X">>) = 2 /\ <<"0", "X">>[1] = "0" /\ <<"0", "X">>[2] = "X"
  OBVIOUS
<1>5. <<>> # <<"-">> /\ <<"+">> # <<"-">> /\ <<"0", "x">> # <<>> /\ <<"0", "X">> # <<>>
  OBVIOUS
<1> QED BY <1>1, <1>2, <1>3, <1>4, <1>5 DEF Signs, Marks

LEMMA PartsOf ==
  ASSUME NEW C, NEW s \in Seq(C)
  PROVE  /\ SignOf(s) \in {0, 1} /\ SignOf(s) <= Len(s)
         /\ IsHex(s) => SignOf(s) + 2 <= Len(s)
         /\ FiguresOf(s) = SubSeq(s, SignOf(s) + (IF IsHex(s) THEN 2 ELSE 0) + 1, Len(s))
         /\ BaseOf(s) \in {10, 16}
<1>1. SignOf(s) \in {0, 1} /\ SignOf(s) <= Len(s)
  BY DEF SignOf
<1>2. IsHex(s) => SignOf(s) + 2 <= Len(s)
  BY <1>1 DEF IsHex
<1>3. SignOf(s) + (IF IsHex(s) THEN 3 ELSE 1) = SignOf(s) + (IF IsHex(s) THEN 2 ELSE 0) + 1
  BY <1>1
<1> QED BY <1>1, <1>2, <1>3 DEF FiguresOf, BaseOf

LEMMA OnlyReading ==
  ASSUME NEW C, NEW s \in Seq(C), NEW r \in Readings(s)
  PROVE  /\ IsNumber(s) /\ r.figures = FiguresOf(s) /\ Base(r.prefix) = BaseOf(s)
         /\ r.sign = <<"-">> <=> Minus(s)
<1>1. PICK n \in 1 .. Len(s) : r.figures = SubSeq(s, n, Len(s))
  BY DEF Readings
<1>2. r.sign \in Signs /\ r.prefix \in Marks /\ s = r.sign \o r.prefix \o r.figures
  BY DEF Readings
<1>3. \A i \in DOMAIN r.figures : isFigure(r.figures[i], Base(r.prefix))
  BY DEF Readings
<1> PICK sign : sign = r.sign
  OBVIOUS
<1> PICK prefix : prefix = r.prefix
  OBVIOUS
<1> PICK figures : figures = r.figures
  OBVIOUS
<1> PICK m \in Nat : m = Len(s)
  OBVIOUS
<1> PICK k \in 0 .. m - 1 : n = k + 1
  <2>1. n - 1 \in 0 .. m - 1 /\ n = (n - 1) + 1
    OBVIOUS
  <2> QED BY <2>1
<1> PICK l : l = Len(sign)
  OBVIOUS
<1> PICK q : q = Len(prefix)
  OBVIOUS
<1>4. /\ figures \in Seq(C) /\ Len(figures) = m - k /\ DOMAIN figures = 1 .. m - k
      /\ \A i \in 1 .. m - k : figures[i] = s[k + i]
  BY <1>1, RestIs
<1>5. sign \in Seq(Chars) /\ ((sign = <<>> /\ l = 0) \/ (l = 1 /\ sign[1] \in {"-", "+"}))
  BY <1>2, SignsAndMarks
<1>6. /\ prefix \in Seq(Chars)
      /\ (prefix = <<>> /\ q = 0) \/ (q = 2 /\ prefix[1] = "0" /\ prefix[2] \in {"x", "X"} /\ prefix # <<>>)
  BY <1>2, SignsAndMarks
<1>7. /\ m = l + q + (m - k)
      /\ \A i \in 1 .. l : s[i] = sign[i]
      /\ \A i \in 1 .. q : s[l + i] = prefix[i]
  <2> DEFINE D == C \cup Chars
  <2>1. sign \in Seq(D) /\ prefix \in Seq(D) /\ figures \in Seq(D)
    <3>1. C \subseteq D /\ Chars \subseteq D
      OBVIOUS
    <3> HIDE DEF D
    <3> QED BY <1>4, <1>5, <1>6, <3>1
  <2> HIDE DEF D
  <2>2. s = sign \o prefix \o figures
    BY <1>2
  <2>3. Joins(s, sign, prefix, figures)
    <3>1. Joins(sign \o prefix \o figures, sign, prefix, figures)
      BY ONLY <2>1, JoinIs, Zenon
    <3> QED BY ONLY <2>2, <3>1, Zenon
  <2> QED BY <1>4, <2>3, Zenon DEF Joins
<1>8. k = l + q /\ l \in {0, 1} /\ q \in {0, 2}
  <2>1. (l = 0 \/ l = 1) /\ (q = 0 \/ q = 2) /\ m = l + q + (m - k)
    BY <1>5, <1>6, <1>7
  <2> QED BY ONLY <2>1, m \in Nat, k \in 0 .. m - 1
<1>9. \A c : isFigure(c, Base(prefix)) => c \notin {"-", "+", "x", "X"}
  BY FigureFacts DEF Base
<1>10. \A i \in 1 .. m - k : s[k + i] \notin {"-", "+", "x", "X"}
  BY <1>3, <1>4, <1>9
<1>11. s # <<>>
  OBVIOUS
<1>12. SignOf(s) = l
  <2>1. CASE l = 1
    BY <1>5, <1>7, <1>11, <2>1 DEF SignOf
  <2>2. CASE l = 0 /\ q = 0
    <3>1. s[1] \notin {"-", "+"}
      BY <1>8, <1>10, <2>2
    <3> QED BY <2>2, <3>1 DEF SignOf
  <2>3. CASE l = 0 /\ q = 2
    <3>1. s[1] = "0"
      BY <1>6, <1>7, <2>3
    <3> QED BY <2>3, <3>1 DEF SignOf
  <2> QED BY <1>8, <2>1, <2>2, <2>3
<1>13. sign = <<"-">> <=> Minus(s)
  <2>1. sign = <<"-">> <=> l = 1 /\ sign[1] = "-"
    BY <1>2, SignsAndMarks
  <2>2. l = 1 => s[1] = sign[1]
    BY <1>7
  <2> QED BY <1>12, <2>1, <2>2 DEF Minus
<1>14. IsHex(s) <=> q = 2
  <2>1. CASE q = 2
    <3>1. s[l + 1] = "0" /\ s[l + 2] \in {"x", "X"} /\ m > l + 1
      BY <1>6, <1>7, <1>8, <2>1
    <3> QED BY <1>12, <2>1, <3>1 DEF IsHex
  <2>2. CASE q = 0
    <3>1. ASSUME IsHex(s) PROVE FALSE
      <4>1. m > l + 1 /\ s[l + 2] \in {"x", "X"}
        BY <1>12, <3>1 DEF IsHex
      <4>2. k = l /\ 2 \in 1 .. m - k
        BY <1>8, <2>2, <4>1
      <4> QED BY <1>10, <4>1, <4>2
    <3> QED BY <2>2, <3>1
  <2> QED BY <1>8, <2>1, <2>2
<1>15. Base(prefix) = BaseOf(s)
  BY <1>6, <1>14 DEF Base, BaseOf
<1>16. figures = FiguresOf(s)
  <2>1. FiguresOf(s) = SubSeq(s, SignOf(s) + (IF IsHex(s) THEN 2 ELSE 0) + 1, Len(s))
    BY PartsOf
  <2>2. SignOf(s) + (IF IsHex(s) THEN 2 ELSE 0) + 1 = n
    BY <1>8, <1>12, <1>14
  <2> QED BY <1>1, <2>1, <2>2
<1>17. IsNumber(s)
  <2>1. FiguresOf(s) # <<>>
    BY <1>4, <1>16
  <2> QED BY <1>3, <1>15, <1>16, <2>1 DEF IsNumber
<1> QED BY <1>13, <1>15, <1>16, <1>17

LEMMA TheReading ==
  ASSUME NEW C, NEW s \in Seq(C), IsNumber(s)
  PROVE  \E r \in Readings(s) : TRUE
<1> PICK m \in Nat : m = Len(s)
  OBVIOUS
<1> PICK l : l = SignOf(s)
  OBVIOUS
<1> PICK q : q = IF IsHex(s) THEN 2 ELSE 0
  OBVIOUS
<1> PICK k : k = l + q
  OBVIOUS
<1>1. l \in {0, 1} /\ l <= m /\ q \in {0, 2} /\ k \in 0 .. m
  <2>1. /\ SignOf(s) \in {0, 1} /\ SignOf(s) <= Len(s)
        /\ IsHex(s) => SignOf(s) + 2 <= Len(s)
    BY ONLY s \in Seq(C), PartsOf, Zenon
  <2>2. l \in {0, 1} /\ l <= m
    BY <2>1
  <2>3. q \in {0, 2} /\ l + q <= m
    BY <2>1, <2>2
  <2> QED BY <2>2, <2>3
<1>2. FiguresOf(s) = SubSeq(s, k + 1, m)
  BY <1>1, PartsOf
<1> PICK figures : figures = FiguresOf(s)
  OBVIOUS
<1>3. /\ figures \in Seq(C) /\ Len(figures) = m - k /\ DOMAIN figures = 1 .. m - k
      /\ \A i \in 1 .. m - k : figures[i] = s[k + i]
  <2>1. k \in 0 .. Len(s) /\ figures = SubSeq(s, k + 1, Len(s))
    BY <1>1, <1>2
  <2>2. /\ SubSeq(s, k + 1, Len(s)) \in Seq(C) /\ Len(SubSeq(s, k + 1, Len(s))) = Len(s) - k
        /\ DOMAIN SubSeq(s, k + 1, Len(s)) = 1 .. Len(s) - k
        /\ \A i \in 1 .. Len(s) - k : SubSeq(s, k + 1, Len(s))[i] = s[k + i]
    BY ONLY <2>1, s \in Seq(C), RestIs, Zenon
  <2> QED BY ONLY <2>1, <2>2, m = Len(s), Zenon
<1>4. k + 1 \in 1 .. m
  <2>1. figures # <<>>
    BY DEF IsNumber
  <2>2. m - k # 0
    BY <1>3, <2>1
  <2> QED BY ONLY <1>1, <2>2, m \in Nat
<1>5. PICK sign \in Signs : Len(sign) = l /\ (l = 1 => sign[1] = s[1])
  <2>1. CASE l = 0
    <3>1. <<>> \in Signs /\ Len(<<>>) = 0
      BY DEF Signs
    <3> QED BY <2>1, <3>1
  <2>2. CASE l = 1
    <3>1. s[1] \in {"-", "+"}
      BY <2>2 DEF SignOf
    <3>2. <<"-">> \in Signs /\ Len(<<"-">>) = 1 /\ <<"-">>[1] = "-"
      BY DEF Signs
    <3>3. <<"+">> \in Signs /\ Len(<<"+">>) = 1 /\ <<"+">>[1] = "+"
      BY DEF Signs
    <3> QED BY <2>2, <3>1, <3>2, <3>3
  <2> QED BY <1>1, <2>1, <2>2
<1>6. PICK prefix \in Marks : Len(prefix) = q /\ (q = 2 => prefix[1] = s[l + 1] /\ prefix[2] = s[l + 2])
  <2>1. CASE q = 0
    <3>1. <<>> \in Marks /\ Len(<<>>) = 0
      BY DEF Marks
    <3> QED BY <2>1, <3>1
  <2>2. CASE q = 2
    <3>1. s[l + 1] = "0" /\ s[l + 2] \in {"x", "X"}
      BY <2>2 DEF IsHex
    <3>2. <<"0", "x">> \in Marks /\ Len(<<"0", "x">>) = 2 /\ <<"0", "x">>[1] = "0" /\ <<"0", "x">>[2] = "x"
      BY DEF Marks
    <3>3. <<"0", "X">> \in Marks /\ Len(<<"0", "X">>) = 2 /\ <<"0", "X">>[1] = "0" /\ <<"0", "X">>[2] = "X"
      BY DEF Marks
    <3> QED BY <2>2, <3>1, <3>2, <3>3
  <2> QED BY <1>1, <2>1, <2>2
<1>7. Base(prefix) = BaseOf(s)
  <2>1. (prefix = <<>> /\ q = 0) \/ (q = 2 /\ prefix # <<>>)
    BY <1>6, SignsAndMarks
  <2> QED BY <2>1 DEF Base, BaseOf
<1>8. s = sign \o prefix \o figures
  <2> DEFINE D == C \cup Chars
  <2>1. sign \in Seq(D) /\ prefix \in Seq(D) /\ figures \in Seq(D) /\ s \in Seq(D)
    <3>1. C \subseteq D /\ Chars \subseteq D
      OBVIOUS
    <3>2. sign \in Seq(Chars) /\ prefix \in Seq(Chars)
      BY SignsAndMarks
    <3> HIDE DEF D
    <3> QED BY <1>3, <3>1, <3>2
  <2> HIDE DEF D
  <2> PICK join : join = sign \o prefix \o figures
    OBVIOUS
  <2>2. /\ join \in Seq(D) /\ Len(join) = m
        /\ \A i \in 1 .. l : join[i] = sign[i]
        /\ \A i \in 1 .. q : join[l + i] = prefix[i]
        /\ \A i \in 1 .. m - k : join[k + i] = figures[i]
    <3>1. join \in Seq(D) /\ Joins(join, sign, prefix, figures)
      BY ONLY <2>1, join = sign \o prefix \o figures, JoinIs, Zenon
    <3>2. Len(sign) = l /\ Len(prefix) = q /\ Len(figures) = m - k /\ l + q = k
      BY <1>3, <1>5, <1>6
    <3>3. k + (m - k) = m
      BY ONLY <1>1, m \in Nat
    <3> QED BY ONLY <3>1, <3>2, <3>3, Zenon DEF Joins
  <2>3. ASSUME NEW i \in 1 .. m PROVE s[i] = join[i]
    <3>1. CASE i <= l
      BY <1>1, <1>5, <2>2, <3>1
    <3>2. CASE i > l /\ i <= k
      <4>1. q = 2 /\ (i = l + 1 \/ i = l + 2)
        BY ONLY <1>1, <3>2, k = l + q, i \in 1 .. m, m \in Nat
      <4>2. join[l + 1] = prefix[1] /\ join[l + 2] = prefix[2]
        <5>1. 1 \in 1 .. q /\ 2 \in 1 .. q
          BY <4>1
        <5> QED BY ONLY <2>2, <5>1, Zenon
      <4> QED BY <1>6, <4>1, <4>2
    <3>3. CASE i > k
      <4> PICK j \in 1 .. m - k : i = k + j
        <5>1. i - k \in 1 .. m - k /\ i = k + (i - k)
          BY ONLY <1>1, <3>3, i \in 1 .. m, m \in Nat
        <5> QED BY <5>1
      <4> QED BY ONLY <1>3, <2>2, i = k + j, j \in 1 .. m - k, Zenon
    <3>4. i <= l \/ (i > l /\ i <= k) \/ i > k
      BY ONLY <1>1, i \in 1 .. m, m \in Nat
    <3> QED BY ONLY <3>1, <3>2, <3>3, <3>4, Zenon
  <2> QED BY <2>1, <2>2, <2>3, SameSequence
<1> PICK r : r = [sign |-> sign, prefix |-> prefix, figures |-> figures]
  OBVIOUS
<1>9. r.sign = sign /\ r.prefix = prefix /\ r.figures = figures
  OBVIOUS
<1>10. figures \in {SubSeq(s, i, Len(s)) : i \in 1 .. Len(s)}
  BY <1>2, <1>4
<1>11. r \in [sign : Signs, prefix : Marks, figures : {SubSeq(s, i, Len(s)) : i \in 1 .. Len(s)}]
  BY <1>10
<1>12. \A i \in DOMAIN figures : isFigure(figures[i], Base(prefix))
  BY <1>7 DEF IsNumber
<1>13. r \in Readings(s)
  BY <1>8, <1>9, <1>11, <1>12, Zenon DEF Readings
<1> QED BY <1>13

LEMMA SpelledIs ==
  ASSUME NEW C, NEW s \in Seq(C)
  PROVE  Spelled(s) = IF IsNumber(s) THEN {(IF Minus(s) THEN 0 - 1 ELSE 1) * Worth(FiguresOf(s), BaseOf(s))} ELSE {}
<1> DEFINE w(r) == (IF r.sign = <<"-">> THEN 0 - 1 ELSE 1) * Worth(r.figures, Base(r.prefix))
           v    == (IF Minus(s) THEN 0 - 1 ELSE 1) * Worth(FiguresOf(s), BaseOf(s))
<1>1. \A r \in Readings(s) : IsNumber(s) /\ w(r) = v
  BY OnlyReading, Zenon
<1>2. IsNumber(s) => \E r \in Readings(s) : TRUE
  BY TheReading
<1>3. Spelled(s) = {w(r) : r \in Readings(s)}
  BY DEF Spelled
<1> HIDE DEF w, v
<1>4. Spelled(s) = IF IsNumber(s) THEN {v} ELSE {}
  BY <1>1, <1>2, <1>3
<1> QED BY <1>4 DEF v

-----------------------------------------------------------------------------
(* The ranges of the types.                                                *)

LEMMA RangeIs ==
  ASSUME NEW t \in Numbers
  PROVE  \E half, most \in Nat :
           /\ half >= 1 /\ half <= most /\ ULLONG_MAX = 2 * most - 1
           /\ 2 ^ Bits(t) = 2 * half
           /\ Lo(t) = (IF t \in Signed THEN 0 - half ELSE 0)
           /\ Hi(t) = (IF t \in Signed THEN half - 1 ELSE 2 * half - 1)
           /\ 2 ^ LongBits = 2 * most /\ Hi("long_i") = most - 1
           /\ t \in {"long_u", "long_i"} => half = most
<1>1. Bits(t) - 1 \in Nat /\ Bits(t) = (Bits(t) - 1) + 1 /\ Bits(t) <= LongBits /\ LongBits - 1 \in Nat /\ LongBits = (LongBits - 1) + 1
  BY EditAssumption DEF Bits
<1> PICK b \in Nat : b = Bits(t) - 1
  BY <1>1
<1> PICK n \in Nat : n = LongBits - 1
  BY <1>1
<1>2. Bits(t) = b + 1 /\ LongBits = n + 1 /\ b <= n
  BY <1>1
<1>3. 2 ^ (b + 1) = 2 * 2 ^ b /\ 2 ^ (n + 1) = 2 * 2 ^ n /\ 2 ^ b \in Nat /\ 2 ^ b >= 1 /\ 2 ^ n \in Nat
  BY PowerDoubles, PowerIsNatural
<1>4. 2 ^ b <= 2 ^ n
  BY <1>2, PowerRises
<1> PICK half \in Nat : half = 2 ^ b
  BY <1>3
<1> PICK most \in Nat : most = 2 ^ n
  BY <1>3
<1>5. 2 ^ Bits(t) = 2 * half /\ 2 ^ (Bits(t) - 1) = half /\ 2 ^ LongBits = 2 * most /\ 2 ^ (LongBits - 1) = most
  <2>1. Bits(t) - 1 = b /\ LongBits - 1 = n
    OBVIOUS
  <2> QED BY <1>2, <1>3, <2>1
<1>6. half >= 1 /\ half <= most
  BY <1>3, <1>4
<1>7. Lo(t) = (IF t \in Signed THEN 0 - half ELSE 0) /\ Hi(t) = (IF t \in Signed THEN half - 1 ELSE 2 * half - 1)
  BY <1>5, Zenon DEF Lo, Hi
<1>8. ULLONG_MAX = 2 * most - 1
  BY <1>5, Zenon DEF ULLONG_MAX
<1>9. Hi("long_i") = most - 1
  <2>1. Bits("long_i") = LongBits /\ "long_i" \in Signed
    BY DEF Bits, Signed
  <2> QED BY <1>5, <2>1, Zenon DEF Hi
<1>10. t \in {"long_u", "long_i"} => half = most
  BY <1>2, Zenon DEF Bits
<1> QED BY <1>5, <1>6, <1>7, <1>8, <1>9, <1>10

\* A number of the type goes through its own width unchanged.
LEMMA CastKeeps ==
  ASSUME NEW t \in Numbers, NEW v \in Lo(t) .. Hi(t)
  PROVE  Cast(t, v) = v
<1>1. PICK half, most \in Nat :
        /\ half >= 1 /\ 2 ^ Bits(t) = 2 * half
        /\ Lo(t) = (IF t \in Signed THEN 0 - half ELSE 0)
        /\ Hi(t) = (IF t \in Signed THEN half - 1 ELSE 2 * half - 1)
  BY RangeIs
<1> PICK d \in Nat : d = 2 * half
  <2>1. 2 * half \in Nat
    OBVIOUS
  <2> QED BY <2>1
<1> PICK hi : hi = Hi(t)
  OBVIOUS
<1>2. v \in Int /\ v < d /\ 0 - d <= v /\ d > 0 /\ hi \in Int
  BY <1>1
<1>3. Cast(t, v) = IF v % d > hi THEN (v % d) - d ELSE v % d
  BY <1>1 DEF Cast
<1>4. CASE v >= 0
  <2>1. v % d = v
    BY ONLY <1>2, <1>4, d \in Nat
  <2>2. v <= hi
    BY <1>1
  <2> QED BY <1>2, <1>3, <2>1, <2>2
<1>5. CASE v < 0
  <2>1. v % d = v + d
    BY ONLY <1>2, <1>5, d \in Nat
  <2>2. v + d > hi
    BY <1>1, <1>5
  <2> QED BY <1>2, <1>3, <2>1, <2>2
<1> QED BY <1>2, <1>4, <1>5

LEMMA NumberIs ==
  ASSUME NEW C, NEW s \in Seq(C), IsNumber(s)
  PROVE  /\ Worth(FiguresOf(s), BaseOf(s)) \in Nat
         /\ NumberOf(s) = IF Worth(FiguresOf(s), BaseOf(s)) > ULLONG_MAX THEN ERANGE ELSE Worth(FiguresOf(s), BaseOf(s))
<1> PICK f : f = FiguresOf(s)
  OBVIOUS
<1> PICK b : b = BaseOf(s)
  OBVIOUS
<1>1. f \in Seq(C) /\ b \in {10, 16}
  <2>1. /\ SignOf(s) \in {0, 1} /\ SignOf(s) <= Len(s)
        /\ IsHex(s) => SignOf(s) + 2 <= Len(s)
        /\ FiguresOf(s) = SubSeq(s, SignOf(s) + (IF IsHex(s) THEN 2 ELSE 0) + 1, Len(s))
        /\ BaseOf(s) \in {10, 16}
    BY PartsOf, Zenon
  <2> PICK k : k = SignOf(s) + (IF IsHex(s) THEN 2 ELSE 0)
    OBVIOUS
  <2>2. k \in 0 .. Len(s) /\ f = SubSeq(s, k + 1, Len(s))
    <3> PICK m \in Nat : m = Len(s)
      OBVIOUS
    <3> PICK l : l = SignOf(s)
      OBVIOUS
    <3>1. l \in {0, 1} /\ l <= m
      BY <2>1
    <3>2. CASE IsHex(s)
      <4>1. k = l + 2 /\ l + 2 <= m
        BY <2>1, <3>2
      <4>2. k \in 0 .. m
        BY ONLY <3>1, <4>1, m \in Nat
      <4> QED BY <2>1, <4>2
    <3>3. CASE ~IsHex(s)
      <4>1. k = l + 0
        BY <3>3
      <4>2. k \in 0 .. m
        BY ONLY <3>1, <4>1, m \in Nat
      <4> QED BY <2>1, <4>2
    <3> QED BY <3>2, <3>3
  <2>3. SubSeq(s, k + 1, Len(s)) \in Seq(C)
    BY ONLY <2>2, s \in Seq(C), RestIs, Zenon
  <2> QED BY <2>1, <2>2, <2>3
<1>2. AllFigures(f, b)
  BY <1>1 DEF IsNumber, AllFigures
<1>3. PICK h : Horner(f, b, h)
  BY <1>1, <1>2, HornerExists, Zenon
<1>4. Worth(f, b) = h[Len(f)]
  BY <1>1, <1>2, <1>3, WorthIs, Zenon
<1>5. strtoull(f, b) = IF h[Len(f)] > ULLONG_MAX THEN ERANGE ELSE h[Len(f)]
  BY <1>1, <1>2, <1>3, strtoullIs, Zenon
<1>6. h[Len(f)] \in Nat
  <2>1. Len(f) \in 0 .. Len(f)
    BY <1>1
  <2> QED BY <1>3, <2>1 DEF Horner
<1> QED BY <1>4, <1>5, <1>6 DEF NumberOf

\* What parse does with a text that is, or is not, a number.
LEMMA parseIs ==
  ASSUME NEW t \in Numbers, NEW s
  PROVE  LET sound == IsNumber(s) /\ NumberOf(s) # ERANGE /\ (t \in Signed \/ ~Minus(s) \/ NumberOf(s) = 0)
             large == NumberOf(s) > Limit(t, Minus(s))
         IN  /\ ~sound => parse(t, s).problem # "none"
             /\ sound /\ large => parse(t, s).problem # "none"
             /\ sound /\ ~large
                => parse(t, s) = [problem |-> "none",
                                  value |-> IF ~Minus(s) THEN NumberOf(s)
                                            ELSE IF NumberOf(s) = 0 THEN 0
                                            ELSE (0 - Cast("long_i", NumberOf(s) - 1)) - 1]
<1> PICK p : p = parseNumber(s, t \in Signed)
  OBVIOUS
<1> PICK sound \in BOOLEAN : sound <=> IsNumber(s) /\ NumberOf(s) # ERANGE /\ (t \in Signed \/ ~Minus(s) \/ NumberOf(s) = 0)
  OBVIOUS
<1>1. p = IF sound
          THEN [ok |-> TRUE, negative |-> Minus(s), magnitude |-> NumberOf(s)]
          ELSE [ok |-> FALSE, negative |-> Minus(s), magnitude |-> 0]
  BY parseNumberIs, Zenon
<1>2. parse(t, s) = (IF ~p.ok THEN [problem |-> IF s = <<>> THEN "empty" ELSE "invalid", value |-> 0]
                     ELSE IF p.magnitude > Limit(t, p.negative) THEN [problem |-> "range", value |-> 0]
                     ELSE [problem |-> "none",
                           value |-> IF ~p.negative THEN p.magnitude
                                     ELSE IF p.magnitude = 0 THEN 0
                                     ELSE (0 - Cast("long_i", p.magnitude - 1)) - 1])
  BY Zenon DEF parse
<1>3. ASSUME ~sound PROVE parse(t, s).problem # "none"
  <2>1. ~p.ok
    BY <1>1, <1>3
  <2> QED BY <1>2, <2>1
<1>4. ASSUME sound PROVE p.ok /\ p.negative = Minus(s) /\ p.magnitude = NumberOf(s)
  BY <1>1, <1>4
<1>5. ASSUME sound, NumberOf(s) > Limit(t, Minus(s)) PROVE parse(t, s).problem # "none"
  <2>1. parse(t, s) = [problem |-> "range", value |-> 0]
    BY <1>2, <1>4, <1>5, Zenon
  <2> QED BY <2>1
<1>6. ASSUME sound, ~(NumberOf(s) > Limit(t, Minus(s)))
      PROVE  parse(t, s) = [problem |-> "none",
                            value |-> IF ~Minus(s) THEN NumberOf(s)
                                      ELSE IF NumberOf(s) = 0 THEN 0
                                      ELSE (0 - Cast("long_i", NumberOf(s) - 1)) - 1]
  BY <1>2, <1>4, <1>6, Zenon
<1> QED BY <1>3, <1>5, <1>6, Zenon

\* A text is accepted exactly when it spells a number of the type, and as that
\* number: optional sign, decimal or 0x, no octal, the least number too.
LEMMA ParseSpells ==
  ASSUME NEW C, NEW s \in Seq(C), NEW t \in Numbers
  PROVE  Spelled(s) \cap ValuesOf(t) = IF parse(t, s).problem = "none" THEN {parse(t, s).value} ELSE {}
<1> PICK result : result = parse(t, s)
  OBVIOUS
<1>1. CASE ~IsNumber(s)
  <2>1. Spelled(s) = {}
    BY <1>1, SpelledIs
  <2>2. result.problem # "none"
    BY <1>1, parseIs
  <2> QED BY <2>1, <2>2
<1>2. CASE IsNumber(s)
  <2> PICK w : w = Worth(FiguresOf(s), BaseOf(s))
    OBVIOUS
  <2> PICK n : n = NumberOf(s)
    OBVIOUS
  <2> PICK neg \in BOOLEAN : neg <=> Minus(s)
    OBVIOUS
  <2> PICK v : v = IF neg THEN 0 - w ELSE w
    OBVIOUS
  <2>1. w \in Nat /\ n = IF w > ULLONG_MAX THEN ERANGE ELSE w
    BY <1>2, NumberIs, Zenon
  <2>2. PICK half, most \in Nat :
          /\ half >= 1 /\ half <= most /\ ULLONG_MAX = 2 * most - 1
          /\ Lo(t) = (IF t \in Signed THEN 0 - half ELSE 0)
          /\ Hi(t) = (IF t \in Signed THEN half - 1 ELSE 2 * half - 1)
          /\ 2 ^ LongBits = 2 * most /\ Hi("long_i") = most - 1
    BY RangeIs
  <2> PICK lo : lo = Lo(t)
    OBVIOUS
  <2> PICK hi : hi = Hi(t)
    OBVIOUS
  <2> PICK signed \in BOOLEAN : signed <=> t \in Signed
    OBVIOUS
  <2>3. lo = (IF signed THEN 0 - half ELSE 0) /\ hi = (IF signed THEN half - 1 ELSE 2 * half - 1)
    BY <2>2
  <2>4. Spelled(s) = {v} /\ v \in Int
    <3>1. Spelled(s) = {(IF Minus(s) THEN 0 - 1 ELSE 1) * w}
      BY <1>2, SpelledIs
    <3>2. (IF Minus(s) THEN 0 - 1 ELSE 1) * w = v
      <4>1. (0 - 1) * w = 0 - w /\ 1 * w = w
        BY <2>1
      <4> QED BY <4>1
    <3> QED BY <2>1, <3>1, <3>2
  <2>5. ValuesOf(t) = lo .. hi
    BY DEF ValuesOf
  <2> PICK sound \in BOOLEAN : sound <=> n # ERANGE /\ (signed \/ ~neg \/ n = 0)
    OBVIOUS
  <2>6. Limit(t, Minus(s)) = IF neg THEN 0 - lo ELSE hi
    <3>1. (0 - (lo + 1)) + 1 = 0 - lo
      BY <2>2, <2>3
    <3> QED BY <3>1 DEF Limit
  <2> PICK large \in BOOLEAN : large <=> n > Limit(t, Minus(s))
    OBVIOUS
  <2>7. /\ ~sound => result.problem # "none"
        /\ sound /\ large => result.problem # "none"
        /\ sound /\ ~large
           => result = [problem |-> "none",
                        value |-> IF ~neg THEN n
                                  ELSE IF n = 0 THEN 0
                                  ELSE (0 - Cast("long_i", n - 1)) - 1]
    BY <1>2, parseIs
  <2>8. CASE ~sound
    <3>1. v \notin lo .. hi
      <4>1. CASE w > ULLONG_MAX
        BY ONLY <2>1, <2>2, <2>3, <4>1, v = IF neg THEN 0 - w ELSE w, half \in Nat, most \in Nat
      <4>2. CASE ~(w > ULLONG_MAX)
        <5>1. n = w /\ n # ERANGE
          BY <2>1, <4>2 DEF ERANGE
        <5>2. ~signed /\ neg /\ w # 0
          BY <2>8, <5>1
        <5> QED BY <2>1, <2>3, <5>2
      <4> QED BY <4>1, <4>2
    <3> QED BY <2>4, <2>5, <2>7, <2>8, <3>1
  <2>9. CASE sound
    <3>1. n = w /\ (signed \/ ~neg \/ w = 0)
      BY <2>1, <2>9
    <3>2. CASE large
      <4>1. v \notin lo .. hi
        BY <2>1, <2>2, <2>3, <2>6, <3>1, <3>2
      <4> QED BY <2>4, <2>5, <2>7, <2>9, <3>2, <4>1
    <3>3. CASE ~large
      <4>1. v \in lo .. hi
        BY <2>1, <2>2, <2>3, <2>6, <3>1, <3>3
      <4>2. neg /\ n # 0 => Cast("long_i", n - 1) = n - 1
        <5>1. SUFFICES ASSUME neg, n # 0 PROVE Cast("long_i", n - 1) = n - 1
          OBVIOUS
        <5>2. n - 1 \in 0 .. most - 1
          BY <2>1, <2>2, <2>3, <2>6, <3>1, <3>3, <5>1
        <5>3. "long_i" \in Numbers /\ "long_i" \in Signed
          BY DEF Numbers, Signed
        <5>4. n - 1 \in Lo("long_i") .. Hi("long_i")
          <6>1. Lo("long_i") \in Int /\ Lo("long_i") <= 0
            BY <5>3, RangeIs
          <6> QED BY <2>2, <5>2, <6>1
        <5> QED BY <5>3, <5>4, CastKeeps
      <4>3. result.problem = "none" /\ result.value = v
        <5>1. result.problem = "none"
          BY <2>7, <2>9, <3>3
        <5>2. result.value = IF ~neg THEN n ELSE IF n = 0 THEN 0 ELSE (0 - Cast("long_i", n - 1)) - 1
          BY <2>7, <2>9, <3>3
        <5> QED BY <2>1, <3>1, <4>2, <5>1, <5>2
      <4> QED BY <2>4, <2>5, <4>1, <4>3
    <3> QED BY <3>2, <3>3
  <2> QED BY <2>8, <2>9
<1> QED BY <1>1, <1>2

-----------------------------------------------------------------------------
(* The digits of a number, and reading them back.                          *)

LEMMA DivTen ==
  ASSUME NEW n \in Nat, n >= 10
  PROVE  n \div 10 \in 0 .. n - 1 /\ n % 10 \in 0 .. 9 /\ n = (n \div 10) * 10 + (n % 10)
<1> PICK q : q = n \div 10
  OBVIOUS
<1> PICK r : r = n % 10
  OBVIOUS
<1>1. q \in Int /\ r \in 0 .. 9
  OBVIOUS
<1>2. n = 10 * q + r
  BY <1>1
<1> QED BY <1>1, <1>2

Decimals == {Figures[i] : i \in 1 .. 10}

DigitStep(f, m) == IF m < 10 THEN <<Figures[m + 1]>> ELSE Append(f[m \div 10], Figures[(m % 10) + 1])

\* x spells m in decimal figures.
SpellsDecimal(x, m) ==
  /\ x \in Seq(Decimals) /\ x # <<>> /\ AllFigures(x, 10)
  /\ \E h : Horner(x, 10, h) /\ h[Len(x)] = m

LEMMA DecimalsAreFigures ==
  \A i \in 0 .. 9 : Figures[i + 1] \in Decimals /\ isFigure(Figures[i + 1], 10) /\ ValueOfFigure(Figures[i + 1]) = i
<1>1. ASSUME NEW i \in 0 .. 9
      PROVE  Figures[i + 1] \in Decimals /\ isFigure(Figures[i + 1], 10) /\ ValueOfFigure(Figures[i + 1]) = i
  <2> PICK j : j = i + 1
    OBVIOUS
  <2>1. j \in 1 .. 10 /\ j - 1 = i
    OBVIOUS
  <2>2. isFigure(Figures[j], 10) /\ ValueOfFigure(Figures[j]) = j - 1
    BY <2>1, FigureFacts
  <2> QED BY <2>1, <2>2 DEF Decimals
<1> QED BY <1>1

LEMMA OneFigure ==
  ASSUME NEW m \in 0 .. 9
  PROVE  SpellsDecimal(<<Figures[m + 1]>>, m)
<1> PICK c : c = Figures[m + 1]
  OBVIOUS
<1>1. c \in Decimals /\ isFigure(c, 10) /\ ValueOfFigure(c) = m
  BY DecimalsAreFigures
<1>2. <<c>> \in Seq(Decimals) /\ <<c>> # <<>> /\ Len(<<c>>) = 1 /\ <<c>>[1] = c
  BY <1>1
<1> PICK h : h = [i \in 0 .. 1 |-> IF i = 0 THEN 0 ELSE m]
  OBVIOUS
<1>3. h \in [0 .. 1 -> Nat] /\ h[0] = 0 /\ h[1] = m
  OBVIOUS
<1>4. \A i \in 1 .. 1 : i = 1
  OBVIOUS
<1>5. Horner(<<c>>, 10, h)
  <2>1. 0 * 10 + m = m
    OBVIOUS
  <2> QED BY <1>1, <1>2, <1>3, <1>4, <2>1 DEF Horner
<1>6. AllFigures(<<c>>, 10)
  BY <1>1, <1>2, <1>4 DEF AllFigures
<1> QED BY <1>2, <1>3, <1>5, <1>6 DEF SpellsDecimal

LEMMA OneMoreFigure ==
  ASSUME NEW q \in Nat, NEW x, SpellsDecimal(x, q), NEW r \in 0 .. 9
  PROVE  SpellsDecimal(Append(x, Figures[r + 1]), q * 10 + r)
<1> PICK c : c = Figures[r + 1]
  OBVIOUS
<1>1. c \in Decimals /\ isFigure(c, 10) /\ ValueOfFigure(c) = r
  BY DecimalsAreFigures
<1>2. x \in Seq(Decimals) /\ AllFigures(x, 10)
  BY DEF SpellsDecimal
<1> PICK m \in Nat : m = Len(x)
  BY <1>2
<1> PICK y : y = Append(x, c)
  OBVIOUS
<1>3. /\ y \in Seq(Decimals) /\ Len(y) = m + 1 /\ y # <<>> /\ y[m + 1] = c
      /\ \A i \in 1 .. m : y[i] = x[i]
  BY <1>1, <1>2
<1>4. PICK h : Horner(x, 10, h) /\ h[m] = q
  BY DEF SpellsDecimal
<1>5. h \in [0 .. m -> Nat] /\ h[0] = 0 /\ \A i \in 1 .. m : h[i] = h[i - 1] * 10 + ValueOfFigure(x[i])
  BY <1>4 DEF Horner
<1> PICK g : g = [i \in 0 .. m + 1 |-> IF i = m + 1 THEN q * 10 + r ELSE h[i]]
  OBVIOUS
<1>6. g[m + 1] = q * 10 + r /\ \A i \in 0 .. m : g[i] = h[i]
  OBVIOUS
<1>7. g \in [0 .. m + 1 -> Nat]
  <2>1. ASSUME NEW i \in 0 .. m + 1 PROVE (IF i = m + 1 THEN q * 10 + r ELSE h[i]) \in Nat
    <3>1. i = m + 1 \/ i \in 0 .. m
      OBVIOUS
    <3> QED BY <1>5, <3>1
  <2> QED BY <2>1
<1>8. Horner(y, 10, g)
  <2>1. g[0] = 0
    BY <1>5, <1>6
  <2>2. ASSUME NEW i \in 1 .. m + 1 PROVE g[i] = g[i - 1] * 10 + ValueOfFigure(y[i])
    <3>1. CASE i = m + 1
      <4>1. g[i - 1] = q
        BY <1>4, <1>6, <3>1
      <4> QED BY <1>1, <1>3, <1>6, <3>1, <4>1
    <3>2. CASE i # m + 1
      <4>1. i \in 1 .. m /\ i \in 0 .. m /\ i - 1 \in 0 .. m
        BY <3>2
      <4> QED BY <1>3, <1>5, <1>6, <4>1
    <3> QED BY <3>1, <3>2
  <2> QED BY <1>3, <1>7, <2>1, <2>2 DEF Horner
<1>9. AllFigures(y, 10)
  <2>1. ASSUME NEW i \in 1 .. m + 1 PROVE isFigure(y[i], 10)
    <3>1. i = m + 1 \/ i \in 1 .. m
      OBVIOUS
    <3> QED BY <1>1, <1>2, <1>3, <3>1 DEF AllFigures
  <2> QED BY <1>3, <2>1 DEF AllFigures
<1> QED BY <1>3, <1>6, <1>8, <1>9 DEF SpellsDecimal

HasDigits(k) == \E f \in [0 .. k -> Seq(Decimals)] : \A m \in 0 .. k : f[m] = DigitStep(f, m)

LEMMA DigitsExist ==
  ASSUME NEW n \in Nat
  PROVE  HasDigits(n)
<1> DEFINE Good == {k \in 0 .. n : HasDigits(k)}
<1>1. 0 \in Good
  <2> PICK c : c = Figures[0 + 1]
    OBVIOUS
  <2>1. c \in Decimals
    <3>1. 0 \in 0 .. 9
      OBVIOUS
    <3> QED BY <3>1, DecimalsAreFigures
  <2>2. <<c>> \in Seq(Decimals)
    BY <2>1
  <2> PICK f : f = [m \in 0 .. 0 |-> <<c>>]
    OBVIOUS
  <2>3. f \in [0 .. 0 -> Seq(Decimals)] /\ \A m \in 0 .. 0 : f[m] = <<c>> /\ m = 0
    BY <2>2
  <2>4. \A m \in 0 .. 0 : f[m] = DigitStep(f, m)
    BY <2>3 DEF DigitStep
  <2>5. HasDigits(0)
    BY <2>3, <2>4 DEF HasDigits
  <2> QED BY <2>5
<1>2. ASSUME NEW k \in 1 .. n, k - 1 \in Good PROVE k \in Good
  <2>1. PICK f \in [0 .. k - 1 -> Seq(Decimals)] : \A m \in 0 .. k - 1 : f[m] = DigitStep(f, m)
    BY <1>2 DEF HasDigits
  <2>2. k \in Nat
    OBVIOUS
  <2> PICK d : d = DigitStep(f, k)
    OBVIOUS
  <2>3. d \in Seq(Decimals)
    <3>1. CASE k < 10
      <4>1. k \in 0 .. 9 /\ d = <<Figures[k + 1]>>
        BY <3>1 DEF DigitStep
      <4>2. Figures[k + 1] \in Decimals
        BY <4>1, DecimalsAreFigures
      <4> QED BY <4>1, <4>2
    <3>2. CASE ~(k < 10)
      <4>1. k \div 10 \in 0 .. k - 1 /\ k % 10 \in 0 .. 9
        BY <2>2, <3>2, DivTen
      <4> PICK c : c = Figures[(k % 10) + 1]
        OBVIOUS
      <4> PICK x : x = f[k \div 10]
        OBVIOUS
      <4>2. c \in Decimals /\ x \in Seq(Decimals)
        BY <4>1, DecimalsAreFigures
      <4>3. d = Append(x, c)
        BY <3>2 DEF DigitStep
      <4> QED BY <4>2, <4>3
    <3> QED BY <3>1, <3>2
  <2> PICK g : g = [m \in 0 .. k |-> IF m = k THEN d ELSE f[m]]
    OBVIOUS
  <2>4. g[k] = d /\ \A m \in 0 .. k - 1 : g[m] = f[m]
    OBVIOUS
  <2>5. g \in [0 .. k -> Seq(Decimals)]
    <3>1. ASSUME NEW m \in 0 .. k PROVE (IF m = k THEN d ELSE f[m]) \in Seq(Decimals)
      <4>1. m = k \/ m \in 0 .. k - 1
        OBVIOUS
      <4> QED BY <2>3, <4>1
    <3> QED BY <3>1
  <2>6. ASSUME NEW m \in 0 .. k PROVE g[m] = DigitStep(g, m)
    <3>1. DigitStep(g, m) = DigitStep(f, m)
      <4>1. CASE m < 10
        BY <4>1 DEF DigitStep
      <4>2. CASE ~(m < 10)
        <5>1. m \in Nat /\ m >= 10
          BY <4>2
        <5>2. m \div 10 \in 0 .. m - 1
          BY <5>1, DivTen
        <5> PICK j : j = m \div 10
          OBVIOUS
        <5>3. j \in 0 .. k - 1
          BY <5>2
        <5>4. g[j] = f[j]
          BY <2>4, <5>3
        <5> QED BY <5>4 DEF DigitStep
      <4> QED BY <4>1, <4>2
    <3>2. m = k \/ m \in 0 .. k - 1
      OBVIOUS
    <3> QED BY <2>1, <2>4, <3>1, <3>2
  <2>7. HasDigits(k)
    BY <2>5, <2>6 DEF HasDigits
  <2> QED BY <2>7
<1>3. Good = 0 .. n
  <2>1. Good \subseteq 0 .. n
    OBVIOUS
  <2> HIDE DEF Good
  <2> QED BY <1>1, <1>2, <2>1, LeastOf
<1> QED BY <1>3

LEMMA DigitsSpell ==
  ASSUME NEW n \in Nat
  PROVE  SpellsDecimal(Digits(n), n)
<1> DEFINE digits == CHOOSE f : f = [m \in 0 .. n |-> IF m < 10 THEN <<Figures[m + 1]>>
                                                      ELSE Append(f[m \div 10], Figures[(m % 10) + 1])]
<1>1. Digits(n) = digits[n]
  BY DEF Digits
<1>2. PICK f \in [0 .. n -> Seq(Decimals)] : \A m \in 0 .. n : f[m] = DigitStep(f, m)
  BY DigitsExist DEF HasDigits
<1>3. f = [m \in 0 .. n |-> IF m < 10 THEN <<Figures[m + 1]>> ELSE Append(f[m \div 10], Figures[(m % 10) + 1])]
  <2>1. f = [m \in 0 .. n |-> f[m]]
    OBVIOUS
  <2>2. f = [m \in 0 .. n |-> DigitStep(f, m)]
    BY <1>2, <2>1, Zenon
  <2> QED BY <2>2, Zenon DEF DigitStep
<1>4. digits = [m \in 0 .. n |-> IF m < 10 THEN <<Figures[m + 1]>>
                                 ELSE Append(digits[m \div 10], Figures[(m % 10) + 1])]
  BY <1>3, Zenon
<1> HIDE DEF digits
<1>5. \A m \in 0 .. n : digits[m] = DigitStep(digits, m)
  BY <1>4, Zenon DEF DigitStep
<1> DEFINE Bad == {m \in 0 .. n : ~SpellsDecimal(digits[m], m)}
<1>6. Bad = {}
  <2> SUFFICES ASSUME Bad # {} PROVE FALSE
    OBVIOUS
  <2>1. Bad \subseteq Nat /\ Bad # {}
    OBVIOUS
  <2>2. PICK m \in Bad : \A y \in Bad : m <= y
    <3> HIDE DEF Bad
    <3> QED BY <2>1, LeastNatural
  <2>3. m \in 0 .. n /\ ~SpellsDecimal(digits[m], m) /\ digits[m] = DigitStep(digits, m)
    BY <1>5, <2>2
  <2>4. CASE m < 10
    <3>1. m \in 0 .. 9 /\ digits[m] = <<Figures[m + 1]>>
      BY <2>3, <2>4 DEF DigitStep
    <3> QED BY <2>3, <3>1, OneFigure
  <2>5. CASE ~(m < 10)
    <3> PICK q : q = m \div 10
      OBVIOUS
    <3> PICK r : r = m % 10
      OBVIOUS
    <3>1. q \in 0 .. m - 1 /\ r \in 0 .. 9 /\ m = q * 10 + r
      <4>1. m \in Nat /\ m >= 10
        BY <2>3, <2>5
      <4> QED BY <4>1, DivTen
    <3>2. SpellsDecimal(digits[q], q) /\ q \in Nat
      <4>1. q \in 0 .. n /\ q \in Nat /\ ~(m <= q)
        BY <2>3, <3>1
      <4> QED BY <2>2, <4>1
    <3>3. digits[m] = Append(digits[q], Figures[r + 1])
      BY <2>3, <2>5 DEF DigitStep
    <3>4. SpellsDecimal(Append(digits[q], Figures[r + 1]), q * 10 + r)
      BY <3>1, <3>2, OneMoreFigure
    <3> QED BY <2>3, <3>1, <3>3, <3>4
  <2> QED BY <2>4, <2>5
<1> QED BY <1>1, <1>6

DecimalChars == Decimals \cup {"-"}

LEMMA FormatSpells ==
  ASSUME NEW v \in Int
  PROVE  formatDecimal(v) \in Seq(DecimalChars) /\ Spelled(formatDecimal(v)) = {v}
<1> PICK s : s = formatDecimal(v)
  OBVIOUS
<1> PICK n : n = IF v < 0 THEN 0 - v ELSE v
  OBVIOUS
<1>1. n \in Nat /\ v = (IF v < 0 THEN 0 - 1 ELSE 1) * n
  OBVIOUS
<1> PICK x : x = Digits(n)
  OBVIOUS
<1>2. x \in Seq(Decimals) /\ x # <<>> /\ AllFigures(x, 10)
  BY <1>1, DigitsSpell DEF SpellsDecimal
<1>3. PICK h : Horner(x, 10, h) /\ h[Len(x)] = n
  BY <1>1, DigitsSpell DEF SpellsDecimal
<1>4. s = IF v < 0 THEN <<"-">> \o x ELSE x
  BY Zenon DEF formatDecimal
<1> PICK sign : sign = IF v < 0 THEN <<"-">> ELSE <<>>
  OBVIOUS
<1> PICK m \in Nat : m = Len(x)
  BY <1>2
<1> PICK l : l = Len(sign)
  OBVIOUS
<1>5. /\ x \in Seq(DecimalChars) /\ sign \in Seq(DecimalChars) /\ <<>> \in Seq(DecimalChars)
      /\ l \in {0, 1} /\ (v < 0 => l = 1) /\ (~(v < 0) => l = 0)
  <2>1. Decimals \subseteq DecimalChars /\ "-" \in DecimalChars
    BY DEF DecimalChars
  <2>2. <<"-">> \in Seq(DecimalChars) /\ Len(<<"-">>) = 1 /\ Len(<<>>) = 0 /\ <<>> \in Seq(DecimalChars)
    BY <2>1
  <2>3. x \in Seq(DecimalChars)
    BY <1>2, <2>1
  <2> QED BY <2>2, <2>3
<1>6. /\ s \in Seq(DecimalChars) /\ Len(s) = l + m
      /\ \A i \in 1 .. l : s[i] = sign[i]
      /\ \A i \in 1 .. m : s[l + i] = x[i]
  <2>1. CASE v < 0
    <3>1. s = <<"-">> \o x /\ sign = <<"-">> /\ l = 1
      BY <1>4, <1>5, <2>1
    <3> QED BY <1>5, <3>1
  <2>2. CASE ~(v < 0)
    <3>1. s = x /\ l = 0
      BY <1>4, <1>5, <2>2
    <3> QED BY <1>5, <3>1
  <2> QED BY <2>1, <2>2
<1>7. s = sign \o <<>> \o x
  <2> PICK join : join = sign \o <<>> \o x
    OBVIOUS
  <2>1. join \in Seq(DecimalChars) /\ Joins(join, sign, <<>>, x)
    BY <1>5, JoinIs, Zenon
  <2>2. Len(<<>>) = 0 /\ l + 0 = l /\ l + 0 + m = l + m
    BY <1>5
  <2>3. /\ Len(join) = l + m
        /\ \A i \in 1 .. l : join[i] = sign[i]
        /\ \A i \in 1 .. m : join[l + i] = x[i]
    BY <2>1, <2>2 DEF Joins
  <2>4. ASSUME NEW i \in 1 .. l + m PROVE s[i] = join[i]
    <3> PICK j : j = i - l
      OBVIOUS
    <3>1. i \in 1 .. l \/ (j \in 1 .. m /\ i = l + j)
      BY <1>5
    <3> QED BY ONLY <1>6, <2>3, <3>1, Zenon
  <2> QED BY <1>6, <2>1, <2>3, <2>4, SameSequence
<1>8. x = SubSeq(s, l + 1, Len(s)) /\ l + 1 \in 1 .. Len(s)
  <2>1. m >= 1
    BY <1>2
  <2>2. l \in 0 .. Len(s) /\ Len(s) - l = m
    BY <1>5, <1>6
  <2> PICK y : y = SubSeq(s, l + 1, Len(s))
    OBVIOUS
  <2>3. y \in Seq(DecimalChars) /\ Len(y) = m /\ \A i \in 1 .. m : y[i] = s[l + i]
    <3>1. /\ SubSeq(s, l + 1, Len(s)) \in Seq(DecimalChars)
          /\ Len(SubSeq(s, l + 1, Len(s))) = Len(s) - l
          /\ \A i \in 1 .. Len(s) - l : SubSeq(s, l + 1, Len(s))[i] = s[l + i]
      BY ONLY <1>6, <2>2, RestIs, Zenon
    <3> QED BY <2>2, <3>1
  <2>4. x = y
    <3>1. Len(x) = Len(y) /\ \A i \in 1 .. Len(x) : x[i] = y[i]
      BY <1>6, <2>3
    <3> QED BY ONLY <1>5, <2>3, <3>1, SameSequence, Zenon
  <2> QED BY <1>5, <1>6, <2>1, <2>4
<1> PICK r : r = [sign |-> sign, prefix |-> <<>>, figures |-> x]
  OBVIOUS
<1>9. r \in Readings(s)
  <2>1. r.sign = sign /\ r.prefix = <<>> /\ r.figures = x
    OBVIOUS
  <2>2. x \in {SubSeq(s, i, Len(s)) : i \in 1 .. Len(s)}
    BY <1>8
  <2>3. sign \in Signs /\ <<>> \in Marks
    BY DEF Signs, Marks
  <2>4. r \in [sign : Signs, prefix : Marks, figures : {SubSeq(s, i, Len(s)) : i \in 1 .. Len(s)}]
    BY <2>2, <2>3
  <2>5. \A i \in DOMAIN x : isFigure(x[i], Base(<<>>))
    BY <1>2 DEF AllFigures, Base
  <2> QED BY <1>7, <2>1, <2>4, <2>5, Zenon DEF Readings
<1>10. IsNumber(s) /\ x = FiguresOf(s) /\ BaseOf(s) = 10 /\ (sign = <<"-">> <=> Minus(s))
  <2>1. r.sign = sign /\ r.prefix = <<>> /\ r.figures = x
    OBVIOUS
  <2>2. Base(<<>>) = 10
    BY DEF Base
  <2> QED BY <1>6, <1>9, <2>1, <2>2, OnlyReading
<1>11. Minus(s) <=> v < 0
  <2>1. <<>> # <<"-">>
    OBVIOUS
  <2> QED BY <1>10, <2>1
<1>12. Worth(x, 10) = n
  <2>1. 10 \in {10, 16}
    OBVIOUS
  <2> QED BY <1>2, <1>3, <2>1, WorthIs
<1>13. Spelled(s) = {(IF Minus(s) THEN 0 - 1 ELSE 1) * n}
  BY <1>6, <1>10, <1>12, SpelledIs
<1> QED BY <1>1, <1>6, <1>11, <1>13

\* A number of the type, written out and read back, is the same number.
LEMMA FormatParses ==
  ASSUME NEW t \in Numbers, NEW v \in Lo(t) .. Hi(t)
  PROVE  parse(t, formatDecimal(v)) = [problem |-> "none", value |-> v]
<1> PICK s : s = formatDecimal(v)
  OBVIOUS
<1>1. Lo(t) \in Int /\ Hi(t) \in Int
  BY RangeIs
<1>2. v \in Int /\ ValuesOf(t) = Lo(t) .. Hi(t)
  BY <1>1 DEF ValuesOf
<1>3. s \in Seq(DecimalChars) /\ Spelled(s) = {v}
  BY <1>2, FormatSpells
<1>4. {v} = IF parse(t, s).problem = "none" THEN {parse(t, s).value} ELSE {}
  <2>1. Spelled(s) \cap ValuesOf(t) = {v}
    BY <1>2, <1>3
  <2> QED BY <1>3, <2>1, ParseSpells
<1>5. parse(t, s).problem = "none" /\ parse(t, s).value = v
  BY <1>4
<1>6. \E u : parse(t, s) = [problem |-> "none", value |-> u]
  BY <1>5, parseIs, Zenon
<1>7. PICK u : parse(t, s) = [problem |-> "none", value |-> u]
  BY <1>6
<1> QED BY <1>5, <1>7

-----------------------------------------------------------------------------
(* The invariant.                                                          *)

Char == Typed \cup DecimalChars

EditInv ==
  type \in Numbers =>
    /\ stored \in ValuesOf(type) /\ text \in Seq(Char)
    /\ pc = "confirm" => parse(type, text) = [problem |-> "none", value |-> asked]
    /\ pc # "closed" /\ reads /\ ~touched => text = formatDecimal(stored)

LEMMA EmptyIsText == <<>> \in Seq(Char)
OBVIOUS

LEMMA FormatIsText ==
  ASSUME NEW v \in Int
  PROVE  formatDecimal(v) \in Seq(Char)
<1>1. formatDecimal(v) \in Seq(DecimalChars)
  BY FormatSpells
<1>2. DecimalChars \subseteq Char
  BY DEF Char
<1> QED BY <1>1, <1>2

LEMMA ValuesAreIntegers ==
  ASSUME NEW t \in Numbers
  PROVE  ValuesOf(t) = Lo(t) .. Hi(t) /\ ValuesOf(t) \subseteq Int
<1>1. Lo(t) \in Int /\ Hi(t) \in Int
  BY RangeIs
<1> QED BY <1>1 DEF ValuesOf

\* What is accepted is in the range of the type, and no other number is spelled.
LEMMA AcceptedIsSpelled ==
  ASSUME NEW C, NEW s \in Seq(C), NEW t \in Numbers, parse(t, s).problem = "none"
  PROVE  /\ parse(t, s) = [problem |-> "none", value |-> parse(t, s).value]
         /\ Spelled(s) \cap ValuesOf(t) = {parse(t, s).value}
<1>1. Spelled(s) \cap ValuesOf(t) = {parse(t, s).value}
  BY ParseSpells
<1>2. PICK u : parse(t, s) = [problem |-> "none", value |-> u]
  BY parseIs, Zenon
<1> QED BY <1>1, <1>2

LEMMA EditInvInit == Init => EditInv
BY EmptyIsText DEF Init, EditInv

LEMMA EditInvNext == EditInv /\ [Next]_vars => EditInv'
<1> SUFFICES ASSUME EditInv, [Next]_vars, type \in Numbers, type' = type
             PROVE  EditInv'
  <2>1. ASSUME [Next]_vars PROVE type' = type
    BY <2>1 DEF Next, vars, Open, Type, Erase, Enter, Cancel, Decline, Save, Popped
  <2>2. type' \notin Numbers => EditInv'
    BY DEF EditInv
  <2> QED BY <2>1, <2>2
<1>1. /\ stored \in ValuesOf(type) /\ text \in Seq(Char)
      /\ pc = "confirm" => parse(type, text) = [problem |-> "none", value |-> asked]
      /\ pc # "closed" /\ reads /\ ~touched => text = formatDecimal(stored)
  BY DEF EditInv
<1>2. stored \in Int
  BY <1>1, ValuesAreIntegers
<1>3. CASE Open
  <2>1. text' = IF ~reads' THEN <<>> ELSE formatDecimal(stored)
    BY <1>3 DEF Open
  <2>2. text' \in Seq(Char)
    BY <1>2, <2>1, EmptyIsText, FormatIsText
  <2>3. pc' = "edit" /\ stored' = stored
    BY <1>3 DEF Open
  <2> QED BY <1>1, <2>1, <2>2, <2>3 DEF EditInv
<1>4. CASE Type
  <2>1. PICK c \in Typed : text' = IF Len(text) < maxLength THEN Append(text, c) ELSE text
    BY <1>4 DEF Type
  <2>2. text' \in Seq(Char)
    <3>1. c \in Char
      BY DEF Char
    <3>2. Append(text, c) \in Seq(Char)
      BY <1>1, <3>1
    <3> QED BY <1>1, <2>1, <3>2
  <2>3. pc' = "edit" /\ stored' = stored /\ touched'
    BY <1>4 DEF Type
  <2> QED BY <1>1, <2>2, <2>3 DEF EditInv
<1>5. CASE Erase
  <2>1. text' = IF text = <<>> THEN text ELSE Front(text)
    BY <1>5 DEF Erase
  <2>2. text' \in Seq(Char)
    <3>1. text # <<>> => Front(text) \in Seq(Char)
      BY <1>1 DEF Front
    <3> QED BY <1>1, <2>1, <3>1
  <2>3. pc' = "edit" /\ stored' = stored /\ touched'
    BY <1>5 DEF Erase
  <2> QED BY <1>1, <2>2, <2>3 DEF EditInv
<1>6. CASE Enter
  <2>1. pc = "edit" /\ UNCHANGED <<stored, reads, text, touched>>
    BY <1>6 DEF Enter
  <2>2. CASE parse(type, text).problem = "none"
    <3>1. asked' = parse(type, text).value
      BY <1>6, <2>2 DEF Enter
    <3>2. parse(type, text) = [problem |-> "none", value |-> parse(type, text).value]
      BY <1>1, <2>2, AcceptedIsSpelled
    <3>3. parse(type', text') = [problem |-> "none", value |-> asked']
      BY <2>1, <3>1, <3>2
    <3> QED BY <1>1, <2>1, <3>3 DEF EditInv
  <2>3. CASE parse(type, text).problem # "none"
    <3>1. pc' = "edit"
      BY <1>6, <2>3 DEF Enter
    <3> QED BY <1>1, <2>1, <3>1 DEF EditInv
  <2> QED BY <2>2, <2>3
<1>7. CASE Cancel
  <2>1. pc' = "closed" /\ text' = <<>> /\ stored' = stored
    BY <1>7 DEF Cancel, Popped
  <2> QED BY <1>1, <2>1, EmptyIsText DEF EditInv
<1>8. CASE Decline
  <2>1. pc = "confirm" /\ pc' = "edit" /\ UNCHANGED <<stored, reads, text, touched>>
    BY <1>8 DEF Decline
  <2> QED BY <1>1, <2>1 DEF EditInv
<1>9. CASE Save
  <2>1. pc = "confirm" /\ pc' = "closed" /\ text' = <<>> /\ stored' = Cast(type, asked)
    BY <1>9 DEF Save, Popped
  <2>2. asked \in ValuesOf(type)
    <3>1. parse(type, text).problem = "none" /\ parse(type, text).value = asked
      BY <1>1, <2>1
    <3> QED BY <1>1, <3>1, AcceptedIsSpelled
  <2>3. stored' = asked
    BY <2>1, <2>2, CastKeeps, ValuesAreIntegers
  <2> QED BY <2>1, <2>2, <2>3, EmptyIsText DEF EditInv
<1>10. CASE UNCHANGED vars
  BY <1>1, <1>10 DEF EditInv, vars
<1> QED BY <1>3, <1>4, <1>5, <1>6, <1>7, <1>8, <1>9, <1>10 DEF Next

LEMMA EditInvHolds == Spec => []EditInv
BY EditInvInit, EditInvNext, PTL DEF Spec

-----------------------------------------------------------------------------
(* The results.                                                            *)

\* A text is accepted exactly when it spells a number of the value's type, as that
\* number, and what the confirmation is about is a number the text spells:
\* EditValueScreen::parse with parseNumber, for any width of the types.
THEOREM TextsAcceptedAreNumbersSpelled == Spec => []AcceptsWhatItSpells
<1>1. ASSUME EditInv PROVE AcceptsWhatItSpells
  <2> SUFFICES ASSUME type \in Numbers
               PROVE  /\ pc = "edit" => Spelled(text) \cap ValuesOf(type)
                                        = IF parse(type, text).problem = "none" THEN {parse(type, text).value} ELSE {}
                      /\ pc = "confirm" => asked \in Spelled(text) \cap ValuesOf(type)
    BY DEF AcceptsWhatItSpells
  <2>1. text \in Seq(Char)
    BY <1>1 DEF EditInv
  <2>2. ASSUME pc = "confirm" PROVE asked \in Spelled(text) \cap ValuesOf(type)
    <3>1. parse(type, text).problem = "none" /\ parse(type, text).value = asked
      BY <1>1, <2>2 DEF EditInv
    <3> QED BY <2>1, <3>1, AcceptedIsSpelled
  <2> QED BY <2>1, <2>2, ParseSpells
<1> QED BY <1>1, EditInvHolds, PTL

\* A number opened and not touched is accepted as the number stored: formatDecimal
\* and parseNumber invert each other over the whole range of each type.
THEOREM NumberNotTouchedStays == Spec => []UntouchedNumberStays
<1>1. ASSUME EditInv PROVE UntouchedNumberStays
  <2> SUFFICES ASSUME pc = "edit", type \in Numbers, reads, ~touched
               PROVE  parse(type, text) = [problem |-> "none", value |-> stored]
    BY DEF UntouchedNumberStays
  <2>1. text = formatDecimal(stored) /\ stored \in ValuesOf(type)
    BY <1>1 DEF EditInv
  <2> QED BY <2>1, FormatParses, ValuesAreIntegers
<1> QED BY <1>1, EditInvHolds, PTL

\* Saving stores the one number of its type that the text confirmed spells: the cast
\* to the width of the type loses nothing.
THEOREM NumberSavedIsNumberSpelled ==
  Spec => [][ (type \in Numbers /\ Save) => Spelled(text) \cap ValuesOf(type) = {stored'} ]_vars
<1>1. ASSUME EditInv, type \in Numbers, Save
      PROVE  Spelled(text) \cap ValuesOf(type) = {stored'}
  <2>1. pc = "confirm" /\ stored' = Cast(type, asked)
    BY <1>1 DEF Save
  <2>2. parse(type, text).problem = "none" /\ parse(type, text).value = asked /\ text \in Seq(Char)
    BY <1>1, <2>1 DEF EditInv
  <2>3. Spelled(text) \cap ValuesOf(type) = {asked}
    BY <1>1, <2>2, AcceptedIsSpelled
  <2>4. stored' = asked
    BY <1>1, <2>1, <2>3, CastKeeps, ValuesAreIntegers
  <2> QED BY <2>3, <2>4
<1> QED BY <1>1, EditInvHolds, PTL

-----------------------------------------------------------------------------
(* Strings.                                                                *)

Cut(s) == SubSeq(s, 1, IF Len(s) < MaxStringLength THEN Len(s) ELSE MaxStringLength)

StringInv ==
  type = "str" =>
    /\ stored \in Seq(STRING) /\ text \in Seq(STRING)
    /\ pc = "confirm" => asked = text
    /\ pc # "closed" /\ reads /\ ~touched => text = Cut(stored)

LEMMA parseString ==
  ASSUME NEW s
  PROVE  parse("str", s) = [problem |-> "none", value |-> s]
<1>1. "str" \notin Numbers
  BY DEF Numbers, Signed, Unsigned
<1> QED BY <1>1 DEF parse

LEMMA CutIs ==
  ASSUME NEW s \in Seq(STRING)
  PROVE  Cut(s) \in Seq(STRING) /\ (Len(s) <= MaxStringLength => Cut(s) = s)
<1> PICK n \in Nat : n = MaxStringLength
  BY EditAssumption
<1> PICK k \in 0 .. Len(s) : k = IF Len(s) < n THEN Len(s) ELSE n
  OBVIOUS
<1>1. Cut(s) = SubSeq(s, 1, k)
  BY DEF Cut
<1>2. SubSeq(s, 1, k) \in Seq(STRING)
  OBVIOUS
<1>3. Len(s) <= n => k = Len(s)
  OBVIOUS
<1>4. SubSeq(s, 1, Len(s)) = s
  OBVIOUS
<1> QED BY <1>1, <1>2, <1>3, <1>4

LEMMA StringInvInit == Init => StringInv
<1> SUFFICES ASSUME Init, type = "str" PROVE StringInv
  BY DEF StringInv
<1>1. "str" \notin Numbers
  BY DEF Numbers, Signed, Unsigned
<1>2. stored \in Strings /\ text = <<>> /\ pc = "closed"
  BY <1>1 DEF Init, ValuesOf
<1>3. stored \in Seq(STRING) /\ <<>> \in Seq(STRING)
  BY <1>2, EditAssumption
<1> QED BY <1>2, <1>3 DEF StringInv

LEMMA StringInvNext == StringInv /\ [Next]_vars => StringInv'
<1> SUFFICES ASSUME StringInv, [Next]_vars, type = "str", type' = "str"
             PROVE  StringInv'
  <2>1. ASSUME [Next]_vars PROVE type' = type
    BY <2>1 DEF Next, vars, Open, Type, Erase, Enter, Cancel, Decline, Save, Popped
  <2>2. type' # "str" => StringInv'
    BY DEF StringInv
  <2> QED BY <2>1, <2>2
<1>1. /\ stored \in Seq(STRING) /\ text \in Seq(STRING)
      /\ pc = "confirm" => asked = text
      /\ pc # "closed" /\ reads /\ ~touched => text = Cut(stored)
  BY DEF StringInv
<1>2. type \notin Numbers
  BY DEF Numbers, Signed, Unsigned
<1>3. <<>> \in Seq(STRING) /\ maxLength = MaxStringLength
  BY <1>2 DEF maxLength
<1>4. CASE Open
  <2>1. text' = IF ~reads' THEN <<>> ELSE Cut(stored)
    BY <1>2, <1>3, <1>4 DEF Open, Cut
  <2>2. text' \in Seq(STRING)
    BY <1>1, <1>3, <2>1, CutIs
  <2>3. pc' = "edit" /\ stored' = stored
    BY <1>4 DEF Open
  <2> QED BY <1>1, <2>1, <2>2, <2>3 DEF StringInv
<1>5. CASE Type
  <2>1. PICK c \in Typed : text' = IF Len(text) < maxLength THEN Append(text, c) ELSE text
    BY <1>5 DEF Type
  <2>2. text' \in Seq(STRING)
    <3>1. c \in STRING
      BY EditAssumption
    <3>2. Append(text, c) \in Seq(STRING)
      BY <1>1, <3>1
    <3> QED BY <1>1, <2>1, <3>2
  <2>3. pc' = "edit" /\ stored' = stored /\ touched'
    BY <1>5 DEF Type
  <2> QED BY <1>1, <2>2, <2>3 DEF StringInv
<1>6. CASE Erase
  <2>1. text' = IF text = <<>> THEN text ELSE Front(text)
    BY <1>6 DEF Erase
  <2>2. text' \in Seq(STRING)
    <3>1. text # <<>> => Front(text) \in Seq(STRING)
      BY <1>1 DEF Front
    <3> QED BY <1>1, <2>1, <3>1
  <2>3. pc' = "edit" /\ stored' = stored /\ touched'
    BY <1>6 DEF Erase
  <2> QED BY <1>1, <2>2, <2>3 DEF StringInv
<1>7. CASE Enter
  <2>1. pc = "edit" /\ UNCHANGED <<stored, reads, text, touched>>
    BY <1>7 DEF Enter
  <2>2. parse(type, text).problem = "none" /\ parse(type, text).value = text
    BY parseString
  <2>3. asked' = text
    BY <1>7, <2>2 DEF Enter
  <2> QED BY <1>1, <2>1, <2>3 DEF StringInv
<1>8. CASE Cancel
  <2>1. pc' = "closed" /\ text' = <<>> /\ stored' = stored
    BY <1>8 DEF Cancel, Popped
  <2> QED BY <1>1, <1>3, <2>1 DEF StringInv
<1>9. CASE Decline
  <2>1. pc = "confirm" /\ pc' = "edit" /\ UNCHANGED <<stored, reads, text, touched>>
    BY <1>9 DEF Decline
  <2> QED BY <1>1, <2>1 DEF StringInv
<1>10. CASE Save
  <2>1. pc = "confirm" /\ pc' = "closed" /\ text' = <<>> /\ stored' = asked
    BY <1>2, <1>10 DEF Save, Popped
  <2> QED BY <1>1, <1>3, <2>1 DEF StringInv
<1>11. CASE UNCHANGED vars
  BY <1>1, <1>11 DEF StringInv, vars
<1> QED BY <1>4, <1>5, <1>6, <1>7, <1>8, <1>9, <1>10, <1>11 DEF Next

\* A string that fits into the text field, opened and not touched, is what saving
\* stores: that a text is cut (EditValueScreen's constructor, MCEditLongText) happens
\* to longer ones only, and a text that was confirmed is stored as it is shown.
THEOREM StringsThatFitStay ==
  Spec => [][ (type = "str" /\ Save)
              => /\ stored' = text
                 /\ reads /\ ~touched /\ Len(stored) <= MaxStringLength => stored' = stored ]_vars
<1>1. ASSUME StringInv, type = "str", Save
      PROVE  /\ stored' = text
             /\ reads /\ ~touched /\ Len(stored) <= MaxStringLength => stored' = stored
  <2>1. "str" \notin Numbers
    BY DEF Numbers, Signed, Unsigned
  <2>2. pc = "confirm" /\ stored' = asked
    BY <1>1, <2>1 DEF Save
  <2>3. asked = text /\ stored \in Seq(STRING) /\ (reads /\ ~touched => text = Cut(stored))
    BY <1>1, <2>2 DEF StringInv
  <2>4. Len(stored) <= MaxStringLength => Cut(stored) = stored
    BY <2>3, CutIs
  <2> QED BY <2>2, <2>3, <2>4
<1>2. Spec => []StringInv
  BY StringInvInit, StringInvNext, PTL DEF Spec
<1> QED BY <1>1, <1>2, PTL

=============================================================================
