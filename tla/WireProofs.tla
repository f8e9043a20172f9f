----------------------------- MODULE WireProofs -----------------------------
(***************************************************************************)
(* Theorems about Wire, for bytes and integers of any size, any protocol   *)
(* string and ids, any torrent and any number of messages: what either end *)
(* says the other hears, byte for byte written, cut and put together; what *)
(* the peer keeps of it is right.                                          *)
(*                                                                         *)
(* The first part is about the conversions (numbers and their digits, bits *)
(* and pieces, handshakes and messages, the parts of a sequence), the next *)
(* about a stream of packets and a reader of it, the last about the steps. *)
(***************************************************************************)
EXTENDS Wire, SequenceTheorems, WellFoundedInduction, TLAPS

----------------------------------------------------------------------------
(* Recursion and induction.                                                *)

\* A set of natural numbers that is not empty has a least one.
LEMMA Least ==
    ASSUME NEW T, T \subseteq Nat, T # {}
    PROVE  \E m \in T : \A n \in T : m <= n
<1>1. PICK m \in T : \A n \in T : <<n, m>> \notin OpToRel(<, Nat)
  BY NatLessThanWellFounded, WFMin
<1>2. \A n \in T : ~(n < m)
  BY <1>1 DEF OpToRel
<1> QED BY <1>2

\* Induction from 0 to size, over a set of numbers.
LEMMA AllReached ==
    ASSUME NEW size \in Nat, NEW T, 0 \in T,
           \A k \in 1 .. size : k - 1 \in T => k \in T
    PROVE  0 .. size \subseteq T
<1> DEFINE U == {k \in 0 .. size : k \notin T}
<1> SUFFICES ASSUME U # {} PROVE FALSE
  OBVIOUS
<1>1. PICK m \in U : \A n \in U : m <= n
  <2>1. U \subseteq Nat
    OBVIOUS
  <2> HIDE DEF U
  <2> QED BY <2>1, Least
<1>2. m # 0 /\ m \in 1 .. size /\ m - 1 \in 0 .. size
  BY <1>1
<1>3. m - 1 \in T
  BY <1>1, <1>2
<1> QED BY <1>1, <1>2, <1>3

\* What is repeated size times, on the elements of S.
Repeats(f, S, size, first, step) ==
    /\ f \in [0 .. size -> S] /\ f[0] = first
    /\ \A k \in 1 .. size : f[k] = step[<<k, f[k - 1]>>]

\* There is a function that repeats a step.
LEMMA Repeated ==
    ASSUME NEW size \in Nat, NEW S, NEW first \in S, NEW step \in [(1 .. size) \X S -> S]
    PROVE  \E f : Repeats(f, S, size, first, step)
<1> DEFINE Until(f, m) == /\ f \in [0 .. m -> S] /\ f[0] = first
                          /\ \A k \in 1 .. m : f[k] = step[<<k, f[k - 1]>>]
           T == {m \in 0 .. size : \E f : Until(f, m)}
<1>1. 0 \in T
  <2>1. Until([k \in 0 .. 0 |-> first], 0)
    OBVIOUS
  <2> HIDE DEF Until
  <2> QED BY <2>1
<1>2. ASSUME NEW m \in 1 .. size, m - 1 \in T PROVE m \in T
  <2>1. PICK f : Until(f, m - 1)
    BY <1>2
  <2> DEFINE g == [k \in 0 .. m |-> IF k = m THEN step[<<m, f[m - 1]>>] ELSE f[k]]
  <2>2. f[m - 1] \in S /\ step[<<m, f[m - 1]>>] \in S
    BY <2>1
  <2>3. g \in [0 .. m -> S] /\ g[0] = first
    BY <2>1, <2>2
  <2>4. ASSUME NEW k \in 1 .. m PROVE g[k] = step[<<k, g[k - 1]>>]
    <3>1. k - 1 \in 0 .. m - 1 /\ g[k - 1] = f[k - 1]
      OBVIOUS
    <3>2. CASE k = m
      <4>1. g[k] = step[<<k, f[k - 1]>>]
        BY <3>2
      <4> QED BY <3>1, <4>1
    <3>3. CASE k # m
      <4>1. k \in 1 .. m - 1 /\ g[k] = f[k]
        BY <3>3
      <4> QED BY <2>1, <3>1, <4>1
    <3> QED BY <3>2, <3>3
  <2>5. Until(g, m)
    BY <2>3, <2>4
  <2>6. m \in 0 .. size
    OBVIOUS
  <2> HIDE DEF Until, g
  <2> QED BY <2>5, <2>6
<1>3. size \in T
  <2> HIDE DEF T
  <2>1. 0 .. size \subseteq T
    BY <1>1, <1>2, AllReached
  <2> QED BY <2>1
<1> QED BY <1>3 DEF Repeats

----------------------------------------------------------------------------
(* Digits and numbers.                                                     *)

\* A quotient and its remainder.
LEMMA Division ==
    ASSUME NEW n \in Nat, NEW b \in Nat \ {0}
    PROVE  n \div b \in Nat /\ n % b \in 0 .. b - 1 /\ n = b * (n \div b) + (n % b)
OBVIOUS

\* The quotient and the remainder are the only ones.
LEMMA DivisionBack ==
    ASSUME NEW x \in Nat, NEW b \in Nat \ {0}, NEW d \in 0 .. b - 1
    PROVE  b * x + d \in Nat /\ (b * x + d) \div b = x /\ (b * x + d) % b = d
<1>1. b * x \in Nat
  OBVIOUS
<1> QED BY <1>1

\* Without its lowest digit a number that fits still fits.
LEMMA Smaller ==
    ASSUME NEW n \in Nat, NEW u \in Nat, NEW b \in Nat \ {0}, n <= b * u + (b - 1)
    PROVE  n \div b <= u
OBVIOUS

\* With one more digit a number that fits still fits.
LEMMA Larger ==
    ASSUME NEW x \in Nat, NEW y \in Nat, NEW b \in Nat \ {0}, NEW d \in 0 .. b - 1, x <= y
    PROVE  b * x + d <= b * y + (b - 1)
<1>1. b * x <= b * y
  OBVIOUS
<1>2. b * x \in Nat /\ b * y \in Nat
  OBVIOUS
<1> QED BY <1>1, <1>2

\* What is left of n without its k lowest digits.
Cuts(above, n, base, size) ==
    /\ above \in [0 .. size -> Nat] /\ above[0] = n
    /\ \A k \in 1 .. size : above[k] = above[k - 1] \div base

\* What Digits computes, without the recursion.
LEMMA DigitsAre ==
    ASSUME NEW n \in Nat, NEW base \in Nat \ {0}, NEW size \in Nat
    PROVE  \E above : /\ Cuts(above, n, base, size)
                      /\ Digits(n, base, size) = [k \in 1 .. size |-> above[size - k] % base]
<1> DEFINE F(f) == [k \in 0 .. size |-> IF k = 0 THEN n ELSE f[k - 1] \div base]
           above == CHOOSE f : f = F(f)
           step == [p \in (1 .. size) \X Nat |-> p[2] \div base]
<1>1. \A x \in Nat : x \div base \in Nat
  BY Division
<1>2. step \in [(1 .. size) \X Nat -> Nat]
  BY <1>1
<1>3. PICK g : Repeats(g, Nat, size, n, step)
  <2> HIDE DEF step
  <2> QED BY <1>2, Repeated
<1>4. \A k \in 1 .. size : g[k] = g[k - 1] \div base
  <2> SUFFICES ASSUME NEW k \in 1 .. size PROVE g[k] = g[k - 1] \div base
    OBVIOUS
  <2>1. k - 1 \in 0 .. size /\ g[k - 1] \in Nat
    BY <1>3 DEF Repeats
  <2>2. <<k, g[k - 1]>> \in (1 .. size) \X Nat
    BY <2>1
  <2>3. step[<<k, g[k - 1]>>] = g[k - 1] \div base
    BY <2>2
  <2> QED BY <1>3, <2>3 DEF Repeats
<1>5. g = F(g)
  <2>1. g \in [0 .. size -> Nat] /\ g[0] = n
    BY <1>3 DEF Repeats
  <2>2. \A k \in 0 .. size : g[k] = IF k = 0 THEN n ELSE g[k - 1] \div base
    BY <1>4, <2>1
  <2> QED BY <2>1, <2>2
<1>6. above = F(above)
  <2> HIDE DEF F
  <2> QED BY <1>5
<1>7. Digits(n, base, size) = [k \in 1 .. size |-> above[size - k] % base]
  BY DEF Digits
<1> HIDE DEF above
<1>8. \A k \in 0 .. size : above[k] = IF k = 0 THEN n ELSE above[k - 1] \div base
  BY <1>6
<1>9. \A k \in 1 .. size : above[k] = above[k - 1] \div base
  BY <1>8
<1>10. above[0] = n
  BY <1>8
<1>11. \A k \in 0 .. size : above[k] \in Nat
  <2> DEFINE T == {k \in 0 .. size : above[k] \in Nat}
  <2>1. 0 \in T
    BY <1>10
  <2>2. \A k \in 1 .. size : k - 1 \in T => k \in T
    BY <1>1, <1>9
  <2> HIDE DEF T
  <2>3. 0 .. size \subseteq T
    BY <2>1, <2>2, AllReached
  <2> QED BY <2>3 DEF T
<1>12. above \in [0 .. size -> Nat]
  BY <1>6, <1>11
<1>13. Cuts(above, n, base, size)
  BY <1>9, <1>10, <1>12 DEF Cuts
<1> QED BY <1>7, <1>13

\* The numbers that the first digits are.
Sums(upto, digits, base) ==
    /\ upto \in [0 .. Len(digits) -> Nat] /\ upto[0] = 0
    /\ \A k \in 1 .. Len(digits) : upto[k] = base * upto[k - 1] + digits[k]

\* What Numeral computes, without the recursion.
LEMMA NumeralIs ==
    ASSUME NEW digits \in Seq(Nat), NEW base \in Nat \ {0}
    PROVE  \E upto : Sums(upto, digits, base) /\ Numeral(digits, base) = upto[Len(digits)]
<1> DEFINE size == Len(digits)
           F(f) == [k \in 0 .. Len(digits) |-> IF k = 0 THEN 0 ELSE base * f[k - 1] + digits[k]]
           upto == CHOOSE f : f = F(f)
           step == [p \in (1 .. size) \X Nat |-> base * p[2] + digits[p[1]]]
<1>1. size \in Nat /\ \A k \in 1 .. size : digits[k] \in Nat
  OBVIOUS
<1>2. \A k \in 1 .. size, x \in Nat : base * x + digits[k] \in Nat
  <2> SUFFICES ASSUME NEW k \in 1 .. size, NEW x \in Nat PROVE base * x + digits[k] \in Nat
    OBVIOUS
  <2>1. digits[k] \in Nat /\ base * x \in Nat
    BY <1>1
  <2> QED BY <2>1
<1>3. step \in [(1 .. size) \X Nat -> Nat]
  BY <1>2
<1>4. PICK g : Repeats(g, Nat, size, 0, step)
  <2> HIDE DEF step
  <2> QED BY <1>1, <1>3, Repeated
<1>5. \A k \in 1 .. size : g[k] = base * g[k - 1] + digits[k]
  <2> SUFFICES ASSUME NEW k \in 1 .. size PROVE g[k] = base * g[k - 1] + digits[k]
    OBVIOUS
  <2>1. k - 1 \in 0 .. size /\ g[k - 1] \in Nat
    <3>1. k - 1 \in 0 .. size
      BY <1>1
    <3>2. g \in [0 .. size -> Nat]
      BY <1>4 DEF Repeats
    <3> QED BY <3>1, <3>2
  <2>2. <<k, g[k - 1]>> \in (1 .. size) \X Nat
    BY <2>1
  <2>3. step[<<k, g[k - 1]>>] = base * g[k - 1] + digits[k]
    BY <2>2
  <2> QED BY <1>4, <2>3 DEF Repeats
<1>6. g = F(g)
  <2>1. g \in [0 .. size -> Nat] /\ g[0] = 0
    BY <1>4 DEF Repeats
  <2>2. \A k \in 0 .. size : g[k] = IF k = 0 THEN 0 ELSE base * g[k - 1] + digits[k]
    BY <1>1, <1>5, <2>1
  <2> QED BY <2>1, <2>2
<1>7. upto = F(upto)
  <2> HIDE DEF F
  <2> QED BY <1>6
<1>8. Numeral(digits, base) = upto[Len(digits)]
  BY DEF Numeral
<1> HIDE DEF upto
<1>9. \A k \in 0 .. size : upto[k] = IF k = 0 THEN 0 ELSE base * upto[k - 1] + digits[k]
  BY <1>7
<1>10. \A k \in 1 .. size : upto[k] = base * upto[k - 1] + digits[k]
  BY <1>1, <1>9
<1>11. upto[0] = 0
  BY <1>1, <1>9
<1>12. \A k \in 0 .. size : upto[k] \in Nat
  <2> DEFINE T == {k \in 0 .. size : upto[k] \in Nat}
  <2>1. 0 \in T
    BY <1>1, <1>11
  <2>2. ASSUME NEW k \in 1 .. size, k - 1 \in T PROVE k \in T
    <3>1. upto[k] \in Nat
      BY <1>2, <1>10, <2>2
    <3> QED BY <1>1, <3>1
  <2> HIDE DEF T
  <2>3. 0 .. size \subseteq T
    BY <1>1, <2>1, <2>2, AllReached
  <2> QED BY <2>3 DEF T
<1>13. upto \in [0 .. size -> Nat]
  BY <1>7, <1>12
<1>14. Sums(upto, digits, base)
  BY <1>10, <1>11, <1>13 DEF Sums
<1> QED BY <1>8, <1>14

\* The largest number of so many digits: every digit is the largest one.
LEMMA LargestIs ==
    ASSUME NEW base \in Nat \ {0}, NEW size \in Nat
    PROVE  \E most : /\ most \in [0 .. size -> Nat] /\ most[0] = 0
                     /\ \A k \in 1 .. size : most[k] = base * most[k - 1] + (base - 1)
                     /\ Largest(base, size) = most[size]
<1> DEFINE nines == [k \in 1 .. size |-> base - 1]
<1>1. nines \in Seq(Nat) /\ Len(nines) = size /\ \A k \in 1 .. size : nines[k] = base - 1
  OBVIOUS
<1>2. Largest(base, size) = Numeral(nines, base)
  BY DEF Largest
<1> HIDE DEF nines
<1>3. PICK most : Sums(most, nines, base) /\ Numeral(nines, base) = most[Len(nines)]
  BY <1>1, NumeralIs
<1>4. \A k \in 1 .. size : most[k] = base * most[k - 1] + nines[k]
  BY <1>1, <1>3 DEF Sums
<1>5. most \in [0 .. size -> Nat] /\ most[0] = 0
  BY <1>1, <1>3 DEF Sums
<1> QED BY <1>1, <1>2, <1>3, <1>4, <1>5

\* A number that is not too large is the number that its digits are.
LEMMA NumeralOfDigits ==
    ASSUME NEW base \in Nat \ {0}, NEW size \in Nat, NEW n \in Nat, n <= Largest(base, size)
    PROVE  /\ Digits(n, base, size) \in Seq(0 .. base - 1) /\ Len(Digits(n, base, size)) = size
           /\ Numeral(Digits(n, base, size), base) = n
<1> DEFINE digits == Digits(n, base, size)
<1>1. PICK above : Cuts(above, n, base, size) /\ digits = [k \in 1 .. size |-> above[size - k] % base]
  BY DigitsAre
<1> HIDE DEF digits
<1>2. /\ above \in [0 .. size -> Nat] /\ above[0] = n
      /\ \A k \in 1 .. size : above[k] = above[k - 1] \div base
  BY <1>1 DEF Cuts
<1>3. \A k \in 1 .. size : size - k \in 0 .. size /\ above[size - k] \in Nat
  BY <1>2
<1>4. digits \in Seq(0 .. base - 1) /\ Len(digits) = size
  <2>1. \A k \in 1 .. size : above[size - k] % base \in 0 .. base - 1
    BY <1>3, Division
  <2> QED BY <1>1, <2>1
<1>5. PICK most : /\ most \in [0 .. size -> Nat] /\ most[0] = 0
                  /\ \A k \in 1 .. size : most[k] = base * most[k - 1] + (base - 1)
                  /\ Largest(base, size) = most[size]
  BY LargestIs
<1>6. above[size] = 0
  <2> DEFINE T == {k \in 0 .. size : above[k] <= most[size - k]}
  <2>1. 0 \in T
    BY <1>2, <1>5
  <2>2. ASSUME NEW k \in 1 .. size, k - 1 \in T PROVE k \in T
    <3> DEFINE j == size - (k - 1)
    <3>1. k \in 0 .. size /\ k - 1 \in 0 .. size /\ j \in 1 .. size /\ j - 1 = size - k /\ j - 1 \in 0 .. size
      OBVIOUS
    <3>2. above[k - 1] \in Nat /\ most[j - 1] \in Nat /\ above[k - 1] <= most[j]
      BY <1>2, <1>5, <2>2, <3>1
    <3>3. above[k] = above[k - 1] \div base /\ most[j] = base * most[j - 1] + (base - 1)
      BY <1>2, <1>5, <3>1
    <3>4. above[k - 1] \div base <= most[j - 1]
      BY <3>2, <3>3, Smaller
    <3> QED BY <3>1, <3>3, <3>4
  <2> HIDE DEF T
  <2>3. 0 .. size \subseteq T
    BY <2>1, <2>2, AllReached
  <2>4. size \in 0 .. size /\ size - size = 0
    OBVIOUS
  <2>5. above[size] <= most[0] /\ above[size] \in Nat
    BY <1>2, <2>3, <2>4 DEF T
  <2> QED BY <1>5, <2>5
<1>7. PICK upto : Sums(upto, digits, base) /\ Numeral(digits, base) = upto[Len(digits)]
  <2>1. digits \in Seq(Nat)
    BY <1>4
  <2> QED BY <2>1, NumeralIs
<1>8. /\ upto[0] = 0 /\ \A k \in 1 .. size : upto[k] = base * upto[k - 1] + digits[k]
  BY <1>4, <1>7 DEF Sums
<1>9. upto[size] = n
  <2> DEFINE T == {k \in 0 .. size : upto[k] = above[size - k]}
  <2>1. 0 \in T
    BY <1>6, <1>8
  <2>2. ASSUME NEW k \in 1 .. size, k - 1 \in T PROVE k \in T
    <3> DEFINE j == size - (k - 1)
    <3>1. k \in 0 .. size /\ j \in 1 .. size /\ j - 1 = size - k /\ j - 1 \in 0 .. size
      OBVIOUS
    <3>2. upto[k - 1] = above[j] /\ above[j] = above[j - 1] \div base /\ above[j - 1] \in Nat
      BY <1>2, <2>2, <3>1
    <3>3. digits[k] = above[j - 1] % base
      BY <1>1, <3>1
    <3>4. upto[k] = base * upto[k - 1] + digits[k]
      BY <1>8
    <3>5. above[j - 1] = base * (above[j - 1] \div base) + (above[j - 1] % base)
      BY <3>2, Division
    <3> QED BY <3>1, <3>2, <3>3, <3>4, <3>5
  <2> HIDE DEF T
  <2>3. 0 .. size \subseteq T
    BY <2>1, <2>2, AllReached
  <2>4. size \in 0 .. size /\ size - size = 0
    OBVIOUS
  <2>5. upto[size] = above[0]
    BY <2>3, <2>4 DEF T
  <2> QED BY <1>2, <2>5
<1>10. Numeral(digits, base) = n
  BY <1>4, <1>7, <1>9
<1> QED BY <1>4, <1>10 DEF digits

\* Digits are the digits of the number that they are.
LEMMA DigitsOfNumeral ==
    ASSUME NEW base \in Nat \ {0}, NEW digits \in Seq(0 .. base - 1)
    PROVE  /\ Numeral(digits, base) \in 0 .. Largest(base, Len(digits))
           /\ Digits(Numeral(digits, base), base, Len(digits)) = digits
<1> DEFINE size == Len(digits)
           n == Numeral(digits, base)
           again == Digits(n, base, size)
<1>1. size \in Nat /\ \A k \in 1 .. size : digits[k] \in 0 .. base - 1
  OBVIOUS
<1>2. PICK upto : Sums(upto, digits, base) /\ n = upto[size]
  <2>1. digits \in Seq(Nat)
    OBVIOUS
  <2> QED BY <2>1, NumeralIs
<1>3. /\ upto \in [0 .. size -> Nat] /\ upto[0] = 0
      /\ \A k \in 1 .. size : upto[k] = base * upto[k - 1] + digits[k]
  BY <1>2 DEF Sums
<1> HIDE DEF n
<1>4. n \in Nat
  BY <1>1, <1>2, <1>3
<1>5. PICK most : /\ most \in [0 .. size -> Nat] /\ most[0] = 0
                  /\ \A k \in 1 .. size : most[k] = base * most[k - 1] + (base - 1)
                  /\ Largest(base, size) = most[size]
  BY <1>1, LargestIs
<1>6. n <= Largest(base, size)
  <2> DEFINE T == {k \in 0 .. size : upto[k] <= most[k]}
  <2>1. 0 \in T
    BY <1>1, <1>3, <1>5
  <2>2. ASSUME NEW k \in 1 .. size, k - 1 \in T PROVE k \in T
    <3>1. k \in 0 .. size /\ k - 1 \in 0 .. size
      BY <1>1
    <3>2. upto[k - 1] \in Nat /\ most[k - 1] \in Nat /\ upto[k - 1] <= most[k - 1] /\ digits[k] \in 0 .. base - 1
      BY <1>1, <1>3, <1>5, <2>2, <3>1
    <3>3. base * upto[k - 1] + digits[k] <= base * most[k - 1] + (base - 1)
      BY <3>2, Larger
    <3> QED BY <1>3, <1>5, <3>1, <3>3
  <2> HIDE DEF T
  <2>3. 0 .. size \subseteq T
    BY <1>1, <2>1, <2>2, AllReached
  <2>4. size \in T
    BY <1>1, <2>3
  <2> QED BY <1>2, <1>5, <2>4 DEF T
<1>7. PICK above : Cuts(above, n, base, size) /\ again = [k \in 1 .. size |-> above[size - k] % base]
  BY <1>1, <1>4, DigitsAre
<1>8. /\ above \in [0 .. size -> Nat] /\ above[0] = n
      /\ \A k \in 1 .. size : above[k] = above[k - 1] \div base
  BY <1>7 DEF Cuts
<1>9. \A k \in 1 .. size : /\ upto[k] \div base = upto[k - 1] /\ upto[k] % base = digits[k]
  <2> SUFFICES ASSUME NEW k \in 1 .. size
               PROVE  upto[k] \div base = upto[k - 1] /\ upto[k] % base = digits[k]
    OBVIOUS
  <2>1. upto[k - 1] \in Nat /\ digits[k] \in 0 .. base - 1
    <3>1. k - 1 \in 0 .. size
      BY <1>1
    <3> HIDE DEF size
    <3> QED BY <1>1, <1>3, <3>1
  <2>2. (base * upto[k - 1] + digits[k]) \div base = upto[k - 1] /\ (base * upto[k - 1] + digits[k]) % base = digits[k]
    BY <2>1, DivisionBack
  <2> QED BY <1>3, <2>2
<1>10. \A k \in 0 .. size : above[k] = upto[size - k]
  <2> DEFINE T == {k \in 0 .. size : above[k] = upto[size - k]}
  <2>1. 0 \in T
    BY <1>1, <1>2, <1>8
  <2>2. ASSUME NEW k \in 1 .. size, k - 1 \in T PROVE k \in T
    <3> DEFINE j == size - (k - 1)
    <3>1. k \in 0 .. size /\ j \in 1 .. size /\ j - 1 = size - k
      BY <1>1
    <3>2. above[k - 1] = upto[j] /\ above[k] = above[k - 1] \div base /\ upto[j] \div base = upto[j - 1]
      BY <1>8, <1>9, <2>2, <3>1
    <3> QED BY <3>1, <3>2
  <2> HIDE DEF T
  <2>3. 0 .. size \subseteq T
    BY <1>1, <2>1, <2>2, AllReached
  <2> QED BY <2>3 DEF T
<1>11. \A k \in 1 .. size : above[size - k] % base = digits[k]
  <2> SUFFICES ASSUME NEW k \in 1 .. size PROVE above[size - k] % base = digits[k]
    OBVIOUS
  <2>1. size - k \in 0 .. size /\ size - (size - k) = k
    BY <1>1
  <2>2. above[size - k] = upto[k]
    BY <1>10, <2>1
  <2> QED BY <1>9, <2>2
<1>12. again = digits
  <2>1. digits = [k \in 1 .. size |-> digits[k]]
    OBVIOUS
  <2> QED BY <1>7, <1>11, <2>1
<1> QED BY <1>4, <1>6, <1>12 DEF n

----------------------------------------------------------------------------
(* Integers, in memory and on the wire.                                    *)

\* Reversing twice changes nothing.
LEMMA Reversed ==
    ASSUME NEW S, NEW s \in Seq(S)
    PROVE  Reverse(s) \in Seq(S) /\ Len(Reverse(s)) = Len(s) /\ Reverse(Reverse(s)) = s
<1> DEFINE n == Len(s)
           r == Reverse(s)
           b == Reverse(r)
<1>1. n \in Nat /\ \A i \in 1 .. n : s[i] \in S /\ (n - i) + 1 \in 1 .. n /\ (n - ((n - i) + 1)) + 1 = i
  OBVIOUS
<1>2. r = [i \in 1 .. n |-> s[(n - i) + 1]]
  BY DEF Reverse
<1> HIDE DEF n, r
<1>3. r \in Seq(S) /\ Len(r) = n
  BY <1>1, <1>2
<1>4. b = [i \in 1 .. n |-> r[(n - i) + 1]]
  BY <1>3 DEF Reverse
<1> HIDE DEF b
<1>5. b \in Seq(S) /\ Len(b) = n
  BY <1>1, <1>3, <1>4
<1>6. \A i \in 1 .. n : b[i] = s[i]
  BY <1>1, <1>2, <1>4
<1>7. b = s
  BY <1>5, <1>6, SeqEqual DEF n
<1> QED BY <1>3, <1>7 DEF n, r, b

\* The sizes of bytes and integers.
LEMMA Sizes ==
    /\ BitsPerByte \in Nat \ {0} /\ WordBytes \in Nat \ {0}
    /\ Base \in Nat \ {0} /\ Base > Extension + 1 /\ Byte = 0 .. Base - 1
    /\ Largest(Base, WordBytes) \in Nat /\ Largest(2, BitsPerByte) = Base - 1
<1>1. BitsPerByte \in Nat \ {0} /\ WordBytes \in Nat \ {0} /\ Base > Extension + 1
  BY WireAssumption
<1>2. Largest(2, BitsPerByte) \in Nat
  <2>1. PICK most : /\ most \in [0 .. BitsPerByte -> Nat] /\ most[0] = 0
                    /\ \A k \in 1 .. BitsPerByte : most[k] = 2 * most[k - 1] + (2 - 1)
                    /\ Largest(2, BitsPerByte) = most[BitsPerByte]
    <3>1. 2 \in Nat \ {0} /\ BitsPerByte \in Nat
      BY <1>1
    <3> QED BY <3>1, LargestIs
  <2> QED BY <1>1, <2>1
<1>3. Base \in Nat \ {0} /\ Largest(2, BitsPerByte) = Base - 1
  BY <1>2 DEF Base
<1>4. Largest(Base, WordBytes) \in Nat
  <2>1. PICK most : /\ most \in [0 .. WordBytes -> Nat] /\ most[0] = 0
                    /\ \A k \in 1 .. WordBytes : most[k] = Base * most[k - 1] + (Base - 1)
                    /\ Largest(Base, WordBytes) = most[WordBytes]
    BY <1>1, <1>3, LargestIs
  <2> QED BY <1>1, <2>1
<1> QED BY <1>1, <1>3, <1>4 DEF Byte

\* A byte fits in an integer.
LEMMA ByteIsWord == Base - 1 <= Largest(Base, WordBytes)
<1>1. PICK most : /\ most \in [0 .. WordBytes -> Nat] /\ most[0] = 0
                  /\ \A k \in 1 .. WordBytes : most[k] = Base * most[k - 1] + (Base - 1)
                  /\ Largest(Base, WordBytes) = most[WordBytes]
  BY Sizes, LargestIs
<1>2. WordBytes \in 1 .. WordBytes /\ most[WordBytes - 1] \in Nat /\ Base \in Nat \ {0}
  BY <1>1, Sizes
<1>3. Base * most[WordBytes - 1] \in Nat
  BY <1>2
<1> QED BY <1>1, <1>2, <1>3

\* An integer has WordBytes bytes on the wire, and they are its value.
LEMMA WordOnWire ==
    ASSUME NEW n \in Word
    PROVE  /\ BigEndian(n) \in Seq(Byte) /\ Len(BigEndian(n)) = WordBytes
           /\ Numeral(BigEndian(n), Base) = n
<1>1. n \in Nat /\ n <= Largest(Base, WordBytes)
  BY Sizes DEF Word
<1> QED BY <1>1, Sizes, NumeralOfDigits DEF BigEndian, Byte

\* An integer keeps its value from memory to the wire and back.
THEOREM WordRoundTrip ==
    ASSUME NEW n \in Word
    PROVE  /\ Memory(htonl[n]) = BigEndian(n) /\ push_bytes(htonl[n]) = BigEndian(n)
           /\ ntohl[Load(BigEndian(n))] = n
<1> DEFINE d == BigEndian(n)
           r == Reverse(d)
<1>1. d \in Seq(Byte) /\ Len(d) = WordBytes /\ Numeral(d, Base) = n
  BY WordOnWire
<1>2. Byte = 0 .. Base - 1 /\ Base \in Nat \ {0}
  BY Sizes
<1> HIDE DEF d
<1>3. r \in Seq(Byte) /\ Len(r) = WordBytes /\ Reverse(r) = d
  BY <1>1, Reversed
<1> HIDE DEF r
<1>4. BigEndian(Numeral(r, Base)) = r
  <2>1. Digits(Numeral(r, Base), Base, Len(r)) = r
    BY <1>2, <1>3, DigitsOfNumeral
  <2> QED BY <1>3, <2>1 DEF BigEndian
<1>5. htonl[n] = Numeral(r, Base)
  BY DEF htonl, Load, d, r
<1>6. Memory(htonl[n]) = d
  BY <1>3, <1>4, <1>5 DEF Memory
<1>7. ntohl[Load(d)] = n
  <2>1. Load(d) = Numeral(r, Base)
    BY DEF Load, r
  <2>2. ntohl[Load(d)] = Load(r)
    <3>1. Numeral(r, Base) \in Word
      BY <1>2, <1>3, DigitsOfNumeral DEF Word
    <3> QED BY <1>4, <2>1, <3>1 DEF ntohl, htonl
  <2>3. Load(r) = Numeral(d, Base)
    BY <1>3 DEF Load
  <2> QED BY <1>1, <2>2, <2>3
<1> QED BY <1>6, <1>7 DEF d, push_bytes

----------------------------------------------------------------------------
(* Bitfields.                                                              *)

\* The bits of a piece's byte in the field.
BitsIn(set, k) == [j \in 1 .. BitsPerByte |-> IF (k - 1) * BitsPerByte + j - 1 \in set THEN 1 ELSE 0]

\* The bits that Bit finds in a byte are those that the byte was made of.
LEMMA BitsAreDigits ==
    ASSUME NEW set, NEW k \in Nat \ {0}
    PROVE  /\ Numeral(BitsIn(set, k), 2) \in Byte
           /\ \A j \in 1 .. BitsPerByte :
                 Bit(Numeral(BitsIn(set, k), 2), j) <=> (k - 1) * BitsPerByte + j - 1 \in set
<1> DEFINE digits == BitsIn(set, k)
<1>1. BitsPerByte \in Nat
  BY Sizes
<1>2. digits = [j \in 1 .. BitsPerByte |-> IF (k - 1) * BitsPerByte + j - 1 \in set THEN 1 ELSE 0]
  BY DEF BitsIn
<1> HIDE DEF digits
<1>3. digits \in Seq(0 .. 2 - 1) /\ Len(digits) = BitsPerByte
  BY <1>1, <1>2
<1>4. /\ Numeral(digits, 2) \in 0 .. Largest(2, BitsPerByte)
      /\ Digits(Numeral(digits, 2), 2, BitsPerByte) = digits
  <2>1. 2 \in Nat \ {0}
    OBVIOUS
  <2>2. /\ Numeral(digits, 2) \in 0 .. Largest(2, Len(digits))
        /\ Digits(Numeral(digits, 2), 2, Len(digits)) = digits
    BY <1>3, <2>1, DigitsOfNumeral
  <2> QED BY <1>3, <2>2
<1>5. Numeral(digits, 2) \in Byte
  BY <1>4, Sizes
<1>6. \A j \in 1 .. BitsPerByte : Bit(Numeral(digits, 2), j) <=> digits[j] = 1
  BY <1>4 DEF Bit
<1>7. \A j \in 1 .. BitsPerByte : digits[j] = 1 <=> (k - 1) * BitsPerByte + j - 1 \in set
  BY <1>2
<1> QED BY <1>5, <1>6, <1>7 DEF digits

\* Where a bit stands: in which byte, and where in that.
LEMMA BitPlace ==
    ASSUME NEW i \in Nat, NEW b \in Nat \ {0}, NEW n \in Nat
    PROVE  /\ i \div b + 1 \in Nat \ {0} /\ (i % b) + 1 \in 1 .. b
           /\ ((i \div b + 1) - 1) * b + ((i % b) + 1) - 1 = i
           /\ i < n * b => i \div b + 1 \in 1 .. n
<1> DEFINE q == i \div b
           r == i % b
<1>1. q \in Nat /\ r \in 0 .. b - 1 /\ i = b * q + r
  BY Division
<1> HIDE DEF q, r
<1>2. b * q \in Nat /\ q * b = b * q
  BY <1>1
<1>3. (q + 1) - 1 = q /\ (r + 1) - 1 = r
  BY <1>1
<1>4. ((q + 1) - 1) * b + (r + 1) - 1 = i
  BY <1>1, <1>2, <1>3
<1>5. ASSUME i < n * b PROVE q < n
  <2> SUFFICES ASSUME q >= n PROVE FALSE
    BY <1>1
  <2>1. n * b <= q * b
    BY <1>1
  <2> QED BY <1>1, <1>2, <1>5, <2>1
<1> QED BY <1>1, <1>4, <1>5 DEF q, r

\* A bitfield has a bit for every piece, and fits in a message.
LEMMA FieldCovers ==
    /\ FieldSize \in Nat /\ FieldSize * BitsPerByte \in Nat /\ NumPieces <= FieldSize * BitsPerByte
    /\ FieldSize + 1 \in Word
<1>1. NumPieces \in Nat /\ BitsPerByte \in Nat \ {0}
  BY WireAssumption, Sizes DEF Word
<1> DEFINE n == NumPieces + BitsPerByte - 1
           q == n \div BitsPerByte
           r == n % BitsPerByte
<1>2. n \in Nat
  BY <1>1
<1>3. q \in Nat /\ r \in 0 .. BitsPerByte - 1 /\ n = BitsPerByte * q + r
  <2> HIDE DEF n
  <2> QED BY <1>1, <1>2, Division
<1>4. q = FieldSize
  BY DEF FieldSize
<1> HIDE DEF q, r
<1>5. q * BitsPerByte = BitsPerByte * q /\ BitsPerByte * q \in Nat
  BY <1>1, <1>3
<1>6. NumPieces <= q * BitsPerByte
  BY <1>1, <1>3, <1>5
<1>7. FieldSize + 1 \in Word
  <2>1. FieldSize \in 0 .. Largest(Base, WordBytes) - 1
    BY WireAssumption
  <2> QED BY <2>1, Sizes DEF Word
<1> QED BY <1>3, <1>4, <1>5, <1>6, <1>7

\* The bits are the pieces, and the spare ones are not set.
THEOREM FieldRoundTrip ==
    ASSUME NEW set, set \subseteq Pieces
    PROVE  /\ FieldOf(set) \in Seq(Byte) /\ Len(FieldOf(set)) = FieldSize
           /\ \A i \in Nat : Get(Bits(FieldOf(set)), i) <=> i \in set
<1> DEFINE field == FieldOf(set)
           bits == Bits(field)
           B == BitsPerByte
<1>1. field = [k \in 1 .. FieldSize |-> Numeral(BitsIn(set, k), 2)]
  BY DEF FieldOf, BitsIn
<1>2. FieldSize \in Nat /\ FieldSize * B \in Nat /\ B \in Nat \ {0}
  BY FieldCovers, Sizes
<1> HIDE DEF field
<1>3. field \in Seq(Byte) /\ Len(field) = FieldSize
  <2>1. \A k \in 1 .. FieldSize : Numeral(BitsIn(set, k), 2) \in Byte
    BY <1>2, BitsAreDigits
  <2> QED BY <1>1, <1>2, <2>1
<1>4. bits = [i \in 1 .. FieldSize * B |-> Bit(field[(i - 1) \div B + 1], ((i - 1) % B) + 1)]
  BY <1>3 DEF Bits
<1> HIDE DEF bits
<1>5. Len(bits) = FieldSize * B
  BY <1>2, <1>4
<1>6. ASSUME NEW i \in Nat, i < FieldSize * B PROVE bits[i + 1] <=> i \in set
  <2> DEFINE k == i \div B + 1
             j == (i % B) + 1
  <2>1. k \in 1 .. FieldSize /\ k \in Nat \ {0} /\ j \in 1 .. B /\ (k - 1) * B + j - 1 = i
    BY <1>2, <1>6, BitPlace
  <2>2. i + 1 \in 1 .. FieldSize * B /\ i + 1 - 1 = i
    BY <1>2, <1>6
  <2>3. bits[i + 1] = Bit(field[k], j)
    BY <1>4, <2>2
  <2> HIDE DEF k, j
  <2>4. field[k] = Numeral(BitsIn(set, k), 2)
    BY <1>1, <2>1
  <2>5. Bit(Numeral(BitsIn(set, k), 2), j) <=> (k - 1) * B + j - 1 \in set
    BY <2>1, BitsAreDigits
  <2> QED BY <2>1, <2>3, <2>4, <2>5
<1>7. ASSUME NEW i \in set PROVE i \in Nat /\ i < FieldSize * B
  <2>1. i \in 0 .. NumPieces - 1 /\ NumPieces \in Nat /\ NumPieces <= FieldSize * B
    BY WireAssumption, Sizes, FieldCovers DEF Pieces, Word
  <2> QED BY <1>2, <2>1
<1>8. \A i \in Nat : Get(bits, i) <=> i \in set
  BY <1>5, <1>6, <1>7 DEF Get
<1> QED BY <1>3, <1>8 DEF field, bits

\* copy_from makes a bit of every bit.
LEMMA BitsType ==
    ASSUME NEW bytes, Len(bytes) \in Nat
    PROVE  Bits(bytes) \in Seq(BOOLEAN) /\ Len(Bits(bytes)) % BitsPerByte = 0
<1> DEFINE n == Len(bytes) * BitsPerByte
           bits == Bits(bytes)
<1>1. BitsPerByte \in Nat \ {0}
  BY Sizes
<1>2. n \in Nat /\ n % BitsPerByte = 0
  <2>1. BitsPerByte * Len(bytes) + 0 \in Nat /\ (BitsPerByte * Len(bytes) + 0) % BitsPerByte = 0
    <3>1. 0 \in 0 .. BitsPerByte - 1
      BY <1>1
    <3> QED BY <1>1, <3>1, DivisionBack
  <2>2. n = BitsPerByte * Len(bytes) + 0
    BY <1>1
  <2> QED BY <2>1, <2>2
<1> HIDE DEF n
<1>3. bits = [i \in 1 .. n |-> Bit(bytes[(i - 1) \div BitsPerByte + 1], ((i - 1) % BitsPerByte) + 1)]
  BY DEF Bits, n
<1> HIDE DEF bits
<1>4. bits \in [1 .. n -> BOOLEAN]
  BY <1>3 DEF Bit
<1>5. bits \in Seq(BOOLEAN) /\ Len(bits) = n
  BY <1>2, <1>4
<1> QED BY <1>2, <1>5 DEF bits

----------------------------------------------------------------------------
(* Blocks.                                                                 *)

\* A block lies within its piece, and a piece within the torrent.
LEMMA BlockBounds ==
    ASSUME NEW i \in Pieces, NEW b \in BlockIdx
    PROVE  /\ i \in Nat /\ b \in Nat /\ i < NumPieces
           /\ b * BLOCK_SIZE \in Nat /\ BlockLength(b) \in 1 .. BLOCK_SIZE
           /\ b * BLOCK_SIZE + BlockLength(b) <= piece_size
           /\ i * piece_size \in Nat /\ NumPieces * piece_size \in Nat
           /\ i * piece_size + piece_size <= NumPieces * piece_size
<1>1. BLOCK_SIZE \in Nat \ {0} /\ piece_size \in Nat /\ NumPieces \in Nat
  BY WireAssumption, Sizes DEF Word
<1>2. i \in Nat /\ i + 1 <= NumPieces
  BY <1>1 DEF Pieces
<1> DEFINE n == piece_size + BLOCK_SIZE - 1
           q == n \div BLOCK_SIZE
           r == n % BLOCK_SIZE
           from == b * BLOCK_SIZE
           at == i * piece_size
<1>3. n \in Nat
  BY <1>1
<1>4. q \in Nat /\ r \in 0 .. BLOCK_SIZE - 1 /\ n = BLOCK_SIZE * q + r
  <2> HIDE DEF n
  <2> QED BY <1>1, <1>3, Division
<1>5. b \in Nat /\ b + 1 <= q
  <2>1. b \in 0 .. q - 1
    BY DEF BlockIdx
  <2> HIDE DEF q
  <2> QED BY <1>4, <2>1
<1> HIDE DEF q, r
<1>6. from \in Nat /\ from + BLOCK_SIZE <= BLOCK_SIZE * q
  <2>1. (b + 1) * BLOCK_SIZE = b * BLOCK_SIZE + BLOCK_SIZE
    BY <1>1, <1>5
  <2>2. (b + 1) * BLOCK_SIZE <= q * BLOCK_SIZE
    BY <1>1, <1>4, <1>5
  <2>3. q * BLOCK_SIZE = BLOCK_SIZE * q /\ b * BLOCK_SIZE \in Nat
    BY <1>1, <1>4, <1>5
  <2> QED BY <2>1, <2>2, <2>3
<1>7. BLOCK_SIZE * q \in Nat
  BY <1>1, <1>4
<1>8. BlockLength(b) = IF piece_size - from < BLOCK_SIZE THEN piece_size - from ELSE BLOCK_SIZE
  BY DEF BlockLength
<1> HIDE DEF from
<1>9. from + 1 <= piece_size
  BY <1>1, <1>4, <1>6, <1>7
<1>10. BlockLength(b) \in 1 .. BLOCK_SIZE /\ from + BlockLength(b) <= piece_size
  BY <1>1, <1>6, <1>8, <1>9
<1>11. at \in Nat /\ NumPieces * piece_size \in Nat /\ at + piece_size <= NumPieces * piece_size
  <2>1. (i + 1) * piece_size <= NumPieces * piece_size
    BY <1>1, <1>2
  <2>2. (i + 1) * piece_size = i * piece_size + piece_size /\ i * piece_size \in Nat /\ NumPieces * piece_size \in Nat
    BY <1>1, <1>2
  <2> QED BY <1>1, <2>1, <2>2
<1> QED BY <1>1, <1>2, <1>5, <1>6, <1>10, <1>11 DEF from

\* The data of a block are bytes, as many as its length.
LEMMA BlockData ==
    ASSUME NEW i \in Pieces, NEW b \in BlockIdx
    PROVE  /\ DataOf(i, b * BLOCK_SIZE, BlockLength(b)) \in Seq(Byte)
           /\ Len(DataOf(i, b * BLOCK_SIZE, BlockLength(b))) = BlockLength(b)
<1> DEFINE n == BlockLength(b)
           from == b * BLOCK_SIZE
           at == i * piece_size
           data == DataOf(i, from, n)
           all == NumPieces * piece_size
<1>1. /\ n \in Nat /\ from \in Nat /\ at \in Nat /\ all \in Nat
      /\ from + n <= piece_size /\ at + piece_size <= all
  BY BlockBounds
<1>2. data = [k \in 1 .. n |-> contents[at + from + k - 1]]
  BY DEF DataOf
<1>3. piece_size \in Nat /\ contents \in [0 .. all - 1 -> Byte]
  BY WireAssumption, Sizes DEF Word
<1> HIDE DEF n, from, at, data, all
<1>4. \A k \in 1 .. n : contents[at + from + k - 1] \in Byte
  <2> SUFFICES ASSUME NEW k \in 1 .. n PROVE contents[at + from + k - 1] \in Byte
    OBVIOUS
  <2>1. at + from + k - 1 \in 0 .. all - 1
    BY <1>1, <1>3
  <2> QED BY <1>3, <2>1
<1>5. data \in Seq(Byte) /\ Len(data) = n
  BY <1>1, <1>2, <1>4
<1> QED BY <1>5 DEF data, n, from

\* Every number of a message fits in an integer.
LEMMA Words ==
    /\ 0 \in Word /\ 1 \in Word /\ FieldSize + 1 \in Word /\ 3 * WordBytes + 1 \in Word
    /\ \A i \in Pieces, b \in BlockIdx :
          /\ i \in Word /\ b * BLOCK_SIZE \in Word /\ BlockLength(b) \in Word
          /\ 2 * WordBytes + BlockLength(b) + 1 \in Word
<1> DEFINE top == Largest(Base, WordBytes)
<1>1. top \in Nat /\ Base \in Nat \ {0} /\ Base > 21 /\ Base - 1 <= top /\ WordBytes \in Nat
  BY Sizes, ByteIsWord DEF Extension
<1>2. Word = 0 .. top
  BY DEF Word
<1>3. 3 * WordBytes \in 0 .. top - 1 /\ 2 * WordBytes + BLOCK_SIZE \in 0 .. top - 1 /\ BLOCK_SIZE \in Nat
      /\ NumPieces \in 0 .. top /\ piece_size \in 0 .. top
  BY WireAssumption DEF Word
<1> HIDE DEF top
<1>4. ASSUME NEW i \in Pieces, NEW b \in BlockIdx
      PROVE  /\ i \in Word /\ b * BLOCK_SIZE \in Word /\ BlockLength(b) \in Word
             /\ 2 * WordBytes + BlockLength(b) + 1 \in Word
  <2> DEFINE n == BlockLength(b)
             from == b * BLOCK_SIZE
  <2>1. i \in Nat /\ i < NumPieces /\ n \in 1 .. BLOCK_SIZE /\ from \in Nat /\ from + n <= piece_size
    BY BlockBounds
  <2> HIDE DEF n, from
  <2>2. i \in Word /\ from \in Word /\ n \in Word /\ 2 * WordBytes + n + 1 \in Word
    BY <1>1, <1>2, <1>3, <2>1
  <2> QED BY <2>2 DEF n, from
<1>5. 0 \in Word /\ 1 \in Word /\ 3 * WordBytes + 1 \in Word
  BY <1>1, <1>2, <1>3
<1> QED BY <1>4, <1>5, FieldCovers

----------------------------------------------------------------------------
(* Parts of sequences.                                                     *)

\* Behind its first k elements, u has t.
Has(u, k, t) ==
    /\ Len(u) \in Nat /\ Len(t) \in Nat /\ k \in Nat /\ k + Len(t) <= Len(u)
    /\ \A i \in 1 .. Len(t) : u[k + i] = t[i]

\* Both parts of a concatenation are in it.
LEMMA HasBoth ==
    ASSUME NEW S, NEW s \in Seq(S), NEW t \in Seq(S)
    PROVE  /\ s \o t \in Seq(S) /\ Len(s \o t) = Len(s) + Len(t)
           /\ Has(s \o t, 0, s) /\ Has(s \o t, Len(s), t)
<1> DEFINE u == s \o t
<1>1. Len(s) \in Nat /\ Len(t) \in Nat
  OBVIOUS
<1>2. /\ u \in Seq(S) /\ Len(u) = Len(s) + Len(t)
      /\ \A i \in 1 .. Len(s) + Len(t) : u[i] = IF i <= Len(s) THEN s[i] ELSE t[i - Len(s)]
  BY ConcatProperties
<1> HIDE DEF u
<1>3. ASSUME NEW i \in 1 .. Len(t) PROVE u[Len(s) + i] = t[i]
  <2>1. Len(s) + i \in 1 .. Len(s) + Len(t) /\ ~(Len(s) + i <= Len(s)) /\ Len(s) + i - Len(s) = i
    BY <1>1
  <2> QED BY <1>2, <2>1
<1>4. ASSUME NEW i \in 1 .. Len(s) PROVE u[0 + i] = s[i]
  BY <1>1, <1>2
<1>5. Has(u, 0, s)
  BY <1>1, <1>2, <1>4 DEF Has
<1>6. Has(u, Len(s), t)
  BY <1>1, <1>2, <1>3 DEF Has
<1> QED BY <1>2, <1>5, <1>6 DEF u

\* A part of a part.
LEMMA HasPart ==
    ASSUME NEW v, NEW u, NEW t, NEW j, NEW k, Has(v, j, u), Has(u, k, t)
    PROVE  Has(v, j + k, t)
<1>1. /\ Len(v) \in Nat /\ Len(u) \in Nat /\ Len(t) \in Nat /\ j \in Nat /\ k \in Nat
      /\ j + Len(u) <= Len(v) /\ k + Len(t) <= Len(u)
  BY DEF Has
<1>2. ASSUME NEW i \in 1 .. Len(t) PROVE v[(j + k) + i] = t[i]
  <2>1. k + i \in 1 .. Len(u) /\ (j + k) + i = j + (k + i)
    BY <1>1
  <2>2. u[k + i] = t[i]
    BY DEF Has
  <2>3. v[j + (k + i)] = u[k + i]
    BY <2>1 DEF Has
  <2> QED BY <2>1, <2>2, <2>3
<1>3. j + k \in Nat /\ (j + k) + Len(t) <= Len(v)
  BY <1>1
<1> QED BY <1>1, <1>2, <1>3 DEF Has

\* What lies within a part.
LEMMA HasWithin ==
    ASSUME NEW v, NEW u, NEW t, NEW j, NEW k \in Nat, Has(v, j, u), Has(v, j + k, t), k + Len(t) <= Len(u)
    PROVE  Has(u, k, t)
<1>1. Len(v) \in Nat /\ Len(u) \in Nat /\ Len(t) \in Nat /\ j \in Nat
  BY DEF Has
<1>2. ASSUME NEW i \in 1 .. Len(t) PROVE u[k + i] = t[i]
  <2>1. k + i \in 1 .. Len(u) /\ (j + k) + i = j + (k + i)
    BY <1>1
  <2>2. v[j + (k + i)] = u[k + i]
    BY <2>1 DEF Has
  <2>3. v[(j + k) + i] = t[i]
    BY DEF Has
  <2> QED BY <2>1, <2>2, <2>3
<1> QED BY <1>1, <1>2 DEF Has

\* What SubSeq returns.
LEMMA HasSlice ==
    ASSUME NEW S, NEW T, NEW u \in Seq(S), NEW t \in Seq(T), NEW k, Has(u, k, t)
    PROVE  SubSeq(u, k + 1, k + Len(t)) = t
<1> DEFINE n == Len(t)
           w == SubSeq(u, k + 1, k + n)
<1>1. n \in Nat /\ Len(u) \in Nat /\ k \in Nat /\ k + n <= Len(u) /\ \A i \in 1 .. n : u[k + i] = t[i]
  BY DEF Has
<1> DEFINE l == k + n
           f == k + 1
<1>2. w \in Seq(S) /\ Len(w) = n /\ \A i \in 1 .. n : w[i] = u[k + i]
  <2>1. l \in Nat /\ f \in Nat /\ l - f + 1 = n /\ f \in 1 .. Len(u) + 1 /\ l \in 0 .. Len(u)
        /\ (n = 0 <=> f > l) /\ \A i \in 1 .. n : f + i - 1 = k + i /\ k + i \in 1 .. Len(u)
    BY <1>1
  <2> HIDE DEF n, l, f
  <2>2. w = SubSeq(u, f, l)
    BY DEF l, f
  <2>3. SubSeq(u, f, l) \in Seq(S) /\ Len(SubSeq(u, f, l)) = n
        /\ \A i \in 1 .. n : SubSeq(u, f, l)[i] = u[f + i - 1]
    BY <1>1, <2>1
  <2> QED BY <2>1, <2>2, <2>3
<1> HIDE DEF w
<1>3. w = t
  BY <1>1, <1>2, SeqEqual
<1> QED BY <1>3 DEF w

\* The same of bytes.
LEMMA BytesAt ==
    ASSUME NEW u \in Seq(Byte), NEW t \in Seq(Byte), NEW k, Has(u, k, t)
    PROVE  SubSeq(u, k + 1, k + Len(t)) = t
BY HasSlice

\* The beginning and the rest.
LEMMA HasCut ==
    ASSUME NEW S, NEW u \in Seq(S), NEW n \in 0 .. Len(u)
    PROVE  /\ SubSeq(u, 1, n) \in Seq(S) /\ Len(SubSeq(u, 1, n)) = n /\ Has(u, 0, SubSeq(u, 1, n))
           /\ From(u, n + 1) \in Seq(S) /\ Len(From(u, n + 1)) = Len(u) - n /\ Has(u, n, From(u, n + 1))
<1> DEFINE a == SubSeq(u, 1, n)
           m == Len(u)
           b == SubSeq(u, n + 1, m)
<1>1. m \in Nat /\ n \in Nat /\ n <= m
  OBVIOUS
<1>2. a \in Seq(S) /\ Len(a) = n /\ \A i \in 1 .. n : a[i] = u[i]
  BY <1>1
<1>3. b \in Seq(S) /\ Len(b) = m - n /\ \A i \in 1 .. m - n : b[i] = u[n + i]
  <2> HIDE DEF m
  <2>1. m - (n + 1) + 1 = m - n /\ \A i \in 1 .. m - n : (n + 1) + i - 1 = n + i
    BY <1>1
  <2>2. Len(u) = m
    BY DEF m
  <2> QED BY <1>1, <2>1, <2>2
<1> HIDE DEF a, b
<1>4. Has(u, 0, a)
  BY <1>1, <1>2 DEF Has
<1>5. Has(u, n, b)
  BY <1>1, <1>3 DEF Has
<1> QED BY <1>2, <1>3, <1>4, <1>5 DEF a, b, From

\* What follows a part that reaches the end stands behind it.
LEMMA HasMore ==
    ASSUME NEW S, NEW v \in Seq(S), NEW u \in Seq(S), NEW t \in Seq(S), NEW j,
           Has(v, j, u), j + Len(u) = Len(v)
    PROVE  Has(v \o t, j, u \o t)
<1> DEFINE V == v \o t
           U == u \o t
<1>1. V \in Seq(S) /\ Len(V) = Len(v) + Len(t) /\ Has(V, 0, v) /\ Has(V, Len(v), t)
  BY HasBoth
<1>2. U \in Seq(S) /\ Len(U) = Len(u) + Len(t) /\ Has(U, 0, u) /\ Has(U, Len(u), t)
  BY HasBoth
<1> HIDE DEF U, V
<1>3. Len(v) \in Nat /\ Len(u) \in Nat /\ Len(t) \in Nat /\ j \in Nat
  BY DEF Has
<1>4. Has(V, 0 + j, u)
  BY <1>1, HasPart
<1>5. ASSUME NEW i \in 1 .. Len(u) + Len(t) PROVE V[j + i] = U[i]
  <2>1. CASE i <= Len(u)
    <3>1. i \in 1 .. Len(u) /\ 0 + i = i /\ (0 + j) + i = j + i
      BY <1>3, <2>1
    <3>2. V[(0 + j) + i] = u[i]
      BY <1>4, <3>1 DEF Has
    <3>3. U[0 + i] = u[i]
      BY <1>2, <3>1 DEF Has
    <3> QED BY <3>1, <3>2, <3>3
  <2>2. CASE ~(i <= Len(u))
    <3> DEFINE k == i - Len(u)
    <3>1. k \in 1 .. Len(t) /\ Len(u) + k = i /\ Len(v) + k = j + i
      <4> DEFINE x == Len(u)
                 y == Len(v)
                 z == Len(t)
      <4>1. x \in Nat /\ y \in Nat /\ z \in Nat /\ j \in Nat /\ j + x = y
        BY <1>3
      <4>2. i \in 1 .. x + z /\ ~(i <= x) /\ k = i - x
        BY <2>2
      <4> HIDE DEF x, y, z, k
      <4>3. k \in 1 .. z /\ x + k = i /\ y + k = j + i
        BY <4>1, <4>2
      <4> QED BY <4>3 DEF x, y, z
    <3> HIDE DEF k
    <3>2. V[Len(v) + k] = t[k]
      BY <1>1, <3>1 DEF Has
    <3>3. U[Len(u) + k] = t[k]
      BY <1>2, <3>1 DEF Has
    <3> QED BY <3>1, <3>2, <3>3
  <2> QED BY <2>1, <2>2
<1>6. Len(V) \in Nat /\ Len(U) \in Nat /\ j + Len(U) <= Len(V)
  BY <1>1, <1>2, <1>3
<1>7. Has(V, j, U)
  BY <1>2, <1>3, <1>5, <1>6 DEF Has
<1> QED BY <1>7 DEF U, V

\* Three sequences, one behind the other.
Three(u, a, b, c) ==
    /\ Len(u) = Len(a) + Len(b) + Len(c)
    /\ Has(u, 0, a) /\ Has(u, Len(a), b) /\ Has(u, Len(a) + Len(b), c)

\* All parts of a concatenation of three are in it.
LEMMA HasThree ==
    ASSUME NEW S, NEW a \in Seq(S), NEW b \in Seq(S), NEW c \in Seq(S)
    PROVE  a \o b \o c \in Seq(S) /\ Three(a \o b \o c, a, b, c)
<1> DEFINE ab == a \o b
           u == ab \o c
<1>1. ab \in Seq(S) /\ Len(ab) = Len(a) + Len(b) /\ Has(ab, 0, a) /\ Has(ab, Len(a), b)
  BY HasBoth
<1> HIDE DEF ab
<1>2. u \in Seq(S) /\ Len(u) = Len(ab) + Len(c) /\ Has(u, 0, ab) /\ Has(u, Len(ab), c)
  BY <1>1, HasBoth
<1> HIDE DEF u
<1>3. Has(u, 0 + 0, a) /\ Has(u, 0 + Len(a), b)
  BY <1>1, <1>2, HasPart
<1>4. 0 + Len(a) = Len(a) /\ 0 + 0 = 0
  OBVIOUS
<1>5. Three(u, a, b, c)
  BY <1>1, <1>2, <1>3, <1>4 DEF Three
<1> QED BY <1>2, <1>5 DEF u, ab

----------------------------------------------------------------------------
(* Handshakes.                                                             *)

\* The parts of a handshake are where their lengths say.
LEMMA HandshakePlaces ==
    ASSUME NEW id \in Seq(Byte)
    PROVE  /\ Serialise(id) \in Seq(Byte) /\ Serialise(id)[1] = Len(protocol_str)
           /\ Len(Serialise(id)) = 1 + Len(protocol_str) + Len(extensions) + Len(info_hash) + Len(id)
           /\ Has(Serialise(id), 1 + Len(protocol_str) + Len(extensions) + Len(info_hash), id)
<1> DEFINE a == <<Len(protocol_str)>>
           c == a \o protocol_str \o extensions
           e == c \o info_hash \o id
<1>1. /\ protocol_str \in Seq(Byte) /\ extensions \in Seq(Byte) /\ info_hash \in Seq(Byte)
      /\ Len(protocol_str) \in Byte
  BY WireAssumption
<1>2. a \in Seq(Byte) /\ Len(a) = 1 /\ a[1] = Len(protocol_str)
  BY <1>1
<1>3. e = Serialise(id)
  BY DEF Serialise
<1> HIDE DEF a
<1>4. c \in Seq(Byte) /\ Three(c, a, protocol_str, extensions)
  BY <1>1, <1>2, HasThree
<1> HIDE DEF c
<1>5. e \in Seq(Byte) /\ Three(e, c, info_hash, id)
  BY <1>1, <1>4, HasThree
<1> HIDE DEF e
<1>6. Has(e, 0 + 0, a)
  BY <1>4, <1>5, HasPart DEF Three
<1>7. e[1] = a[1]
  <2>1. 1 \in 1 .. Len(a) /\ (0 + 0) + 1 = 1
    BY <1>2
  <2> QED BY <1>6, <2>1 DEF Has
<1> QED BY <1>2, <1>3, <1>4, <1>5, <1>7 DEF Three

\* The peer finds the id in the handshake: the length in front of the protocol
\* string is no white space, and what stands behind the hash is the id.
LEMMA IdParsed ==
    ASSUME NEW id \in Seq(Byte)
    PROVE  ParseHandshake(Serialise(id)).id = id
<1> DEFINE data == Serialise(id)
           p == Len(protocol_str)
           x == Len(extensions)
           h == Len(info_hash)
           l == Len(id)
           n == 1 + p + x + h
           first == CHOOSE k \in DOMAIN data :
                        ~IsSpace(data[k]) /\ \A j \in 1 .. k - 1 : IsSpace(data[j])
<1>1. p \in Nat /\ x \in Nat /\ h \in Nat /\ l \in Nat
  <2>1. protocol_str \in Seq(Byte) /\ extensions \in Seq(Byte) /\ info_hash \in Seq(Byte)
    BY WireAssumption
  <2> QED BY <2>1
<1>2. data \in Seq(Byte) /\ Len(data) = n + l /\ data[1] = p /\ Has(data, n, id)
  BY HandshakePlaces
<1>3. ~IsSpace(p)
  BY WireAssumption DEF IsSpace
<1> HIDE DEF data, p, x, h, l
<1>4. n \in Nat /\ n >= 1
  BY <1>1
<1>5. DOMAIN data = 1 .. n + l /\ 1 \in DOMAIN data
  <2>1. DOMAIN data = 1 .. Len(data)
    BY <1>2
  <2>2. 1 \in 1 .. n + l
    BY <1>1, <1>4
  <2> QED BY <1>2, <2>1, <2>2
<1>6. first = 1
  <2>1. ~IsSpace(data[1]) /\ \A j \in 1 .. 1 - 1 : IsSpace(data[j])
    BY <1>2, <1>3
  <2>2. first \in DOMAIN data /\ \A j \in 1 .. first - 1 : IsSpace(data[j])
    BY <1>5, <2>1
  <2>3. ~(1 \in 1 .. first - 1)
    BY <2>1, <2>2
  <2>4. first \in 1 .. n + l
    BY <1>5, <2>2
  <2> HIDE DEF first
  <2> QED BY <1>1, <1>4, <2>3, <2>4
<1> HIDE DEF first
<1>7. ParseHandshake(data).id = From(data, first + 1 + data[first] + x + h)
  BY DEF ParseHandshake, first, x, h
<1>8. first + 1 + data[first] + x + h = n + 1
  BY <1>1, <1>2, <1>6
<1>9. From(data, n + 1) = id
  <2>1. SubSeq(data, n + 1, n + Len(id)) = id
    <3> HIDE DEF n
    <3> QED BY <1>2, BytesAt
  <2> QED BY <1>2, <2>1 DEF From, l
<1>10. ParseHandshake(data).id = id
  BY <1>7, <1>8, <1>9
<1> QED BY <1>10 DEF data

\* Both handshakes have the size that the peer reads.
LEMMA HandshakeSizes ==
    /\ HandshakeSize \in Nat \ {0}
    /\ Serialise(peer_id) \in Seq(Byte) /\ Len(Serialise(peer_id)) = HandshakeSize
    /\ Serialise(RemoteId) \in Seq(Byte) /\ Len(Serialise(RemoteId)) = HandshakeSize
<1>1. peer_id \in Seq(Byte) /\ RemoteId \in Seq(Byte) /\ Len(RemoteId) = Len(peer_id)
  BY WireAssumption
<1>2. /\ Serialise(peer_id) \in Seq(Byte)
      /\ Len(Serialise(peer_id)) = 1 + Len(protocol_str) + Len(extensions) + Len(info_hash) + Len(peer_id)
  BY <1>1, HandshakePlaces
<1>3. /\ Serialise(RemoteId) \in Seq(Byte)
      /\ Len(Serialise(RemoteId)) = 1 + Len(protocol_str) + Len(extensions) + Len(info_hash) + Len(RemoteId)
  BY <1>1, HandshakePlaces
<1>4. /\ Len(protocol_str) \in Nat /\ Len(extensions) \in Nat
      /\ Len(info_hash) \in Nat /\ Len(peer_id) \in Nat
  <2>1. protocol_str \in Seq(Byte) /\ extensions \in Seq(Byte) /\ info_hash \in Seq(Byte)
    BY WireAssumption
  <2> QED BY <1>1, <2>1
<1>5. HandshakeSize = Len(Serialise(peer_id))
  BY DEF HandshakeSize
<1> QED BY <1>1, <1>2, <1>3, <1>4, <1>5

----------------------------------------------------------------------------
(* Messages.                                                               *)

\* A message and the number of its bytes in front.
LEMMA PacketPlaces ==
    ASSUME NEW body \in Seq(Byte), Len(body) \in Word
    PROVE  /\ Packet(body) \in Seq(Byte) /\ Len(Packet(body)) = WordBytes + Len(body)
           /\ Has(Packet(body), 0, BigEndian(Len(body))) /\ Has(Packet(body), WordBytes, body)
<1>1. BigEndian(Len(body)) \in Seq(Byte) /\ Len(BigEndian(Len(body))) = WordBytes
  BY WordOnWire
<1> QED BY <1>1, HasBoth DEF Packet

\* The type comes first, the payload behind it.
LEMMA BodyPlaces ==
    ASSUME NEW type \in Byte, NEW content \in Seq(Byte)
    PROVE  /\ <<type>> \o content \in Seq(Byte) /\ Len(<<type>> \o content) = Len(content) + 1
           /\ (<<type>> \o content)[1] = type /\ From(<<type>> \o content, 2) = content
<1> DEFINE a == <<type>>
           u == a \o content
<1>1. a \in Seq(Byte) /\ Len(a) = 1 /\ a[1] = type
  OBVIOUS
<1> HIDE DEF a
<1>2. u \in Seq(Byte) /\ Len(u) = 1 + Len(content) /\ Has(u, 0, a) /\ Has(u, 1, content)
  BY <1>1, HasBoth
<1> HIDE DEF u
<1>3. Len(content) \in Nat
  OBVIOUS
<1>4. u[1] = type
  <2>1. 1 \in 1 .. Len(a) /\ 0 + 1 = 1
    BY <1>1
  <2> QED BY <1>1, <1>2, <2>1 DEF Has
<1>5. From(u, 2) = content
  <2>1. SubSeq(u, 1 + 1, 1 + Len(content)) = content
    BY <1>2, BytesAt
  <2>2. 1 + 1 = 2
    OBVIOUS
  <2> QED BY <1>2, <2>1, <2>2 DEF From
<1>6. u \in Seq(Byte) /\ Len(u) = Len(content) + 1 /\ u[1] = type /\ From(u, 2) = content
  BY <1>2, <1>3, <1>4, <1>5
<1> QED BY <1>6 DEF u, a

\* Message::serialize writes a packet.
LEMMA SerializeIs ==
    ASSUME NEW type \in Byte, NEW payload \in Seq(Byte), Len(payload) + 1 \in Word
    PROVE  Serialize(type, payload) = Packet(<<type>> \o payload)
<1> DEFINE l == BigEndian(Len(payload) + 1)
           body == <<type>> \o payload
<1>1. Memory(htonl[Len(payload) + 1]) = l /\ l \in Seq(Byte)
  BY WordRoundTrip, WordOnWire
<1>2. Len(body) = Len(payload) + 1
  BY BodyPlaces
<1>3. Serialize(type, payload) = (l \o <<type>>) \o payload
  BY <1>1 DEF Serialize
<1>4. Packet(body) = l \o (<<type>> \o payload)
  BY <1>2 DEF Packet
<1>5. (l \o <<type>>) \o payload = l \o (<<type>> \o payload)
  <2>1. <<type>> \in Seq(Byte)
    OBVIOUS
  <2> HIDE DEF l
  <2> QED BY <1>1, <2>1, ConcatAssociative
<1> QED BY <1>3, <1>4, <1>5

\* Two numbers and something behind them.
Numbers(u, m, n, t) ==
    /\ u \in Seq(Byte) /\ Len(u) = 2 * WordBytes + Len(t)
    /\ SubSeq(u, 1, WordBytes) = BigEndian(m)
    /\ SubSeq(u, WordBytes + 1, 2 * WordBytes) = BigEndian(n)
    /\ From(u, 2 * WordBytes + 1) = t

\* Piece::accept cuts a payload where the two integers end.
LEMMA NumbersRead ==
    ASSUME NEW m \in Word, NEW n \in Word, NEW t \in Seq(Byte),
           NEW u, u = BigEndian(m) \o BigEndian(n) \o t
    PROVE  Numbers(u, m, n, t)
<1> DEFINE a == BigEndian(m)
           b == BigEndian(n)
           w == WordBytes
<1>1. a \in Seq(Byte) /\ Len(a) = w /\ b \in Seq(Byte) /\ Len(b) = w /\ w \in Nat
  BY WordOnWire, Sizes
<1>2. Len(t) \in Nat
  OBVIOUS
<1>3. u = a \o b \o t
  OBVIOUS
<1> HIDE DEF a, b, w
<1>4. u \in Seq(Byte) /\ Three(u, a, b, t)
  BY <1>1, <1>3, HasThree
<1>5. Len(u) = 2 * w + Len(t) /\ Has(u, 0, a) /\ Has(u, w, b) /\ Has(u, 2 * w, t)
  <2>1. w + w = 2 * w
    BY <1>1
  <2>2. Len(u) = w + w + Len(t) /\ Has(u, 0, a) /\ Has(u, w, b) /\ Has(u, w + w, t)
    BY <1>1, <1>4 DEF Three
  <2> QED BY <2>1, <2>2
<1>6. SubSeq(u, 1, w) = a
  <2>1. SubSeq(u, 0 + 1, 0 + Len(a)) = a
    BY <1>1, <1>4, <1>5, BytesAt
  <2>2. 0 + 1 = 1 /\ 0 + Len(a) = w
    BY <1>1
  <2> QED BY <2>1, <2>2
<1>7. SubSeq(u, w + 1, 2 * w) = b
  <2>1. SubSeq(u, w + 1, w + Len(b)) = b
    BY <1>1, <1>4, <1>5, BytesAt
  <2>2. w + Len(b) = 2 * w
    BY <1>1
  <2> QED BY <2>1, <2>2
<1>8. From(u, 2 * w + 1) = t
  <2>1. SubSeq(u, 2 * w + 1, 2 * w + Len(t)) = t
    BY <1>4, <1>5, BytesAt
  <2> QED BY <1>5, <2>1 DEF From
<1> QED BY <1>4, <1>5, <1>6, <1>7, <1>8 DEF Numbers, a, b, w

\* What the remote says, and what the peer says.
BlockSaid(i, b) ==
    [type |-> Piece, piece |-> i, offset |-> b * BLOCK_SIZE,
     data |-> DataOf(i, b * BLOCK_SIZE, BlockLength(b))]

Messages ==
    {[type |-> type] : type \in Control \ {None}}
    \cup {[type |-> Bitfield, pieces |-> set] : set \in Bitfields}
    \cup {BlockSaid(i, b) : i \in Pieces, b \in BlockIdx}

Asks == {[type |-> Interested]} \cup {Asking(r) : r \in Pieces \X BlockIdx}

AskBody(r) ==
    <<r.type>> \o IF r.type = Interested THEN <<>>
                  ELSE BigEndian(r.piece) \o BigEndian(r.offset) \o BigEndian(r.length)

\* A body that says m.
Tells(body, m) ==
    /\ body \in Seq(Byte) /\ Len(body) \in Word /\ Len(body) >= 1
    /\ body[1] = m.type /\ Meaning(m.type, From(body, 2)) = m
    /\ m.type = Bitfield => m.pieces \subseteq Pieces /\ From(body, 2) = FieldOf(m.pieces)
    /\ m.type = Piece => \E i \in Pieces, b \in BlockIdx :
          BlockIn(From(body, 2)) = [piece |-> i, block |-> b, data |-> DataOf(i, b * BLOCK_SIZE, BlockLength(b))]

\* A message of a type alone is heard as it was said.
LEMMA ControlSaid ==
    ASSUME NEW type \in Control \ {None}
    PROVE  Tells(Body([type |-> type]), [type |-> type])
<1> DEFINE m == [type |-> type]
<1>1. type \in Byte /\ type # Bitfield /\ type # Piece
  BY WireAssumption
<1>2. m.type = type
  OBVIOUS
<1>3. Body(m) = <<type>> \o << >>
  BY <1>1, <1>2 DEF Body
<1>4. << >> \in Seq(Byte) /\ Len(<< >>) = 0
  OBVIOUS
<1>5. Meaning(type, From(Body(m), 2)) = m
  BY <1>1 DEF Meaning
<1> HIDE DEF m
<1>6. Body(m) \in Seq(Byte) /\ Len(Body(m)) = 1 /\ Body(m)[1] = type
  BY <1>1, <1>3, <1>4, BodyPlaces
<1>7. 1 \in Word
  BY Words
<1>8. Tells(Body(m), m)
  BY <1>1, <1>2, <1>5, <1>6, <1>7 DEF Tells
<1> QED BY <1>8 DEF m

\* A bitfield is heard as it was said.
LEMMA BitfieldSaid ==
    ASSUME NEW set \in Bitfields
    PROVE  Tells(Body([type |-> Bitfield, pieces |-> set]), [type |-> Bitfield, pieces |-> set])
<1> DEFINE m == [type |-> Bitfield, pieces |-> set]
<1>1. set \subseteq Pieces
  BY WireAssumption
<1>2. m.type = Bitfield /\ m.pieces = set
  OBVIOUS
<1>3. Body(m) = <<Bitfield>> \o FieldOf(set)
  BY <1>2 DEF Body, Bitfield, Piece
<1>4. /\ FieldOf(set) \in Seq(Byte) /\ Len(FieldOf(set)) = FieldSize
      /\ \A i \in Nat : Get(Bits(FieldOf(set)), i) <=> i \in set
  BY <1>1, FieldRoundTrip
<1>5. Bitfield \in Byte /\ Bitfield # Piece
  BY Sizes DEF Bitfield, Piece, Extension
<1> HIDE DEF m
<1>6. Body(m) \in Seq(Byte) /\ Len(Body(m)) = FieldSize + 1 /\ Body(m)[1] = Bitfield /\ From(Body(m), 2) = FieldOf(set)
  BY <1>3, <1>4, <1>5, BodyPlaces
<1>7. Pieces \subseteq Nat
  BY WireAssumption DEF Pieces
<1>8. {i \in Pieces : Get(Bits(FieldOf(set)), i)} = set
  BY <1>1, <1>4, <1>7
<1>9. Meaning(Bitfield, From(Body(m), 2)) = m
  <2>1. Meaning(Bitfield, FieldOf(set)) = [type |-> Bitfield, pieces |-> {i \in Pieces : Get(Bits(FieldOf(set)), i)}]
    BY <1>5 DEF Meaning
  <2> QED BY <1>6, <1>8, <2>1 DEF m
<1>10. FieldSize + 1 >= 1
  BY FieldCovers
<1>11. FieldSize + 1 \in Word
  BY Words
<1>12. Tells(Body(m), m)
  BY <1>1, <1>2, <1>5, <1>6, <1>9, <1>10, <1>11 DEF Tells
<1> QED BY <1>12 DEF m

\* A block is heard as it was said.
LEMMA BlockHeard ==
    ASSUME NEW i \in Pieces, NEW b \in BlockIdx
    PROVE  Tells(Body(BlockSaid(i, b)), BlockSaid(i, b))
<1> DEFINE m == BlockSaid(i, b)
           from == b * BLOCK_SIZE
           n == BlockLength(b)
           data == DataOf(i, from, n)
           content == BigEndian(i) \o BigEndian(from) \o data
<1>1. data \in Seq(Byte) /\ Len(data) = n
  BY BlockData
<1>2. i \in Word /\ from \in Word /\ 2 * WordBytes + n + 1 \in Word /\ n \in Nat /\ from \in Nat
      /\ WordBytes \in Nat
  BY Words, BlockBounds, Sizes
<1>3. m.type = Piece /\ m = [type |-> Piece, piece |-> i, offset |-> from, data |-> data]
  BY DEF BlockSaid
<1>4. Body(m) = <<Piece>> \o content
  BY DEF Body, BlockSaid, Bitfield, Piece
<1>5. Piece \in Byte /\ Piece # Bitfield
  BY Sizes DEF Bitfield, Piece, Extension
<1>6. from \div BLOCK_SIZE = b
  <2>1. BLOCK_SIZE \in Nat \ {0} /\ b \in Nat /\ 0 \in 0 .. BLOCK_SIZE - 1
    <3>1. BLOCK_SIZE \in Nat \ {0}
      BY WireAssumption
    <3>2. b \in Nat
      BY BlockBounds
    <3> QED BY <3>1, <3>2
  <2>2. (BLOCK_SIZE * b + 0) \div BLOCK_SIZE = b
    BY <2>1, DivisionBack
  <2>3. BLOCK_SIZE * b + 0 = from
    BY <2>1
  <2> QED BY <2>2, <2>3
<1> HIDE DEF m, data, from, n
<1>7. /\ content \in Seq(Byte) /\ Len(content) = 2 * WordBytes + n
      /\ SubSeq(content, 1, WordBytes) = BigEndian(i)
      /\ SubSeq(content, WordBytes + 1, 2 * WordBytes) = BigEndian(from)
      /\ From(content, 2 * WordBytes + 1) = data
  <2> HIDE DEF content
  <2>1. content = BigEndian(i) \o BigEndian(from) \o data
    BY DEF content
  <2>2. Numbers(content, i, from, data)
    BY <1>1, <1>2, <2>1, NumbersRead
  <2> QED BY <1>1, <2>2 DEF Numbers
<1> HIDE DEF content
<1>8. Body(m) \in Seq(Byte) /\ Len(Body(m)) = 2 * WordBytes + n + 1 /\ Body(m)[1] = Piece /\ From(Body(m), 2) = content
  BY <1>2, <1>4, <1>5, <1>7, BodyPlaces
<1>9. ntohl[Load(BigEndian(i))] = i /\ ntohl[Load(BigEndian(from))] = from
  BY <1>2, WordRoundTrip
<1>10. BlockIn(content) = [piece |-> i, block |-> b, data |-> data]
  BY <1>6, <1>7, <1>9 DEF BlockIn
<1>11. Meaning(Piece, content) = m
  BY <1>3, <1>5, <1>10 DEF Meaning, from
<1>12. 2 * WordBytes + n + 1 >= 1
  BY <1>2
<1>13. BlockIn(content) = [piece |-> i, block |-> b, data |-> DataOf(i, b * BLOCK_SIZE, BlockLength(b))]
  BY <1>10 DEF data, from, n
<1>14. Tells(Body(m), m)
  <2>1. Body(m) \in Seq(Byte) /\ Len(Body(m)) \in Word /\ Len(Body(m)) >= 1 /\ Body(m)[1] = m.type
    BY <1>2, <1>3, <1>8, <1>12
  <2>2. Meaning(m.type, From(Body(m), 2)) = m /\ m.type # Bitfield
    BY <1>3, <1>5, <1>8, <1>11
  <2> QED BY <1>8, <1>13, <2>1, <2>2 DEF Tells
<1> QED BY <1>14 DEF m

\* Every message is heard as it was said, when its bytes are.
LEMMA MessageSaid ==
    ASSUME NEW m \in Messages
    PROVE  Tells(Body(m), m)
BY ControlSaid, BitfieldSaid, BlockHeard DEF Messages

\* The remote understands what the peer writes.
LEMMA AskUnderstood ==
    ASSUME NEW r \in Asks
    PROVE  /\ AskBody(r) \in Seq(Byte) /\ Len(AskBody(r)) \in Word
           /\ Understood(AskBody(r)) = r
<1>1. Interested \in Byte /\ Request \in Byte /\ Interested # Request
  BY Sizes DEF Interested, Request, Extension
<1>2. CASE r = [type |-> Interested]
  <2>1. r.type = Interested
    BY <1>2
  <2>2. AskBody(r) = <<Interested>> \o << >>
    BY <2>1 DEF AskBody
  <2>3. << >> \in Seq(Byte) /\ Len(<< >>) = 0
    OBVIOUS
  <2>4. AskBody(r) \in Seq(Byte) /\ Len(AskBody(r)) = 1 /\ AskBody(r)[1] = Interested
    BY <1>1, <2>2, <2>3, BodyPlaces
  <2> QED BY <1>1, <1>2, <2>4, Words DEF Understood
<1>3. CASE \E i \in Pieces, b \in BlockIdx : r = Asking(<<i, b>>)
  <2>1. PICK i \in Pieces, b \in BlockIdx : r = Asking(<<i, b>>)
    BY <1>3
  <2> DEFINE from == b * BLOCK_SIZE
             n == BlockLength(b)
             tail == BigEndian(n)
             content == BigEndian(i) \o BigEndian(from) \o tail
             body == AskBody(r)
             w == WordBytes
  <2>2. r = [type |-> Request, piece |-> i, offset |-> from, length |-> n]
    BY <2>1 DEF Asking
  <2>3. i \in Word /\ from \in Word /\ n \in Word /\ 3 * w + 1 \in Word /\ w \in Nat
    BY Words, Sizes
  <2>4. body = <<Request>> \o content
    BY <1>1, <2>2 DEF AskBody
  <2> HIDE DEF from, n
  <2>5. tail \in Seq(Byte) /\ Len(tail) = w /\ Numeral(tail, Base) = n
    BY <2>3, WordOnWire
  <2> HIDE DEF tail, w, body
  <2>6. content \in Seq(Byte) /\ Three(content, BigEndian(i), BigEndian(from), tail)
    BY <2>3, <2>5, WordOnWire, HasThree
  <2>7. Len(BigEndian(i)) = w /\ Len(BigEndian(from)) = w /\ BigEndian(i) \in Seq(Byte) /\ BigEndian(from) \in Seq(Byte)
        /\ Numeral(BigEndian(i), Base) = i /\ Numeral(BigEndian(from), Base) = from
    BY <2>3, WordOnWire DEF w
  <2> HIDE DEF content
  <2>8. <<Request>> \in Seq(Byte) /\ Len(<<Request>>) = 1
    BY <1>1
  <2>9. body \in Seq(Byte) /\ Len(body) = 1 + Len(content) /\ Has(body, 1, content)
    BY <2>4, <2>6, <2>8, HasBoth
  <2>10. Len(content) = w + w + w /\ Has(content, 0, BigEndian(i)) /\ Has(content, w, BigEndian(from))
         /\ Has(content, w + w, tail)
    BY <2>5, <2>6, <2>7 DEF Three
  <2> DEFINE k == 1 + w
             l == 1 + (w + w)
  <2>11. Has(body, 1 + 0, BigEndian(i)) /\ Has(body, k, BigEndian(from)) /\ Has(body, l, tail)
    BY <2>9, <2>10, HasPart
  <2> HIDE DEF k, l
  <2>12. body[1] = Request
    BY <1>1, <2>4, <2>6, BodyPlaces
  <2>13. SubSeq(body, 2, w + 1) = BigEndian(i)
    <3>1. SubSeq(body, (1 + 0) + 1, (1 + 0) + Len(BigEndian(i))) = BigEndian(i)
      BY <2>7, <2>9, <2>11, BytesAt
    <3>2. (1 + 0) + 1 = 2 /\ (1 + 0) + Len(BigEndian(i)) = w + 1
      BY <2>3, <2>7 DEF w
    <3> QED BY <3>1, <3>2
  <2>14. SubSeq(body, w + 2, 2 * w + 1) = BigEndian(from)
    <3>1. SubSeq(body, k + 1, k + Len(BigEndian(from))) = BigEndian(from)
      BY <2>7, <2>9, <2>11, BytesAt
    <3>2. k + 1 = w + 2 /\ k + Len(BigEndian(from)) = 2 * w + 1
      BY <2>3, <2>7 DEF w, k
    <3> QED BY <3>1, <3>2
  <2>15. SubSeq(body, 2 * w + 2, 3 * w + 1) = tail
    <3>1. SubSeq(body, l + 1, l + Len(tail)) = tail
      BY <2>5, <2>9, <2>11, BytesAt
    <3>2. l + 1 = 2 * w + 2 /\ l + Len(tail) = 3 * w + 1
      BY <2>3, <2>5 DEF w, l
    <3> QED BY <3>1, <3>2
  <2>16. Understood(body) = r
    BY <2>2, <2>5, <2>7, <2>12, <2>13, <2>14, <2>15 DEF Understood, w
  <2>17. Len(body) = 3 * w + 1
    BY <2>3, <2>9, <2>10 DEF w
  <2> QED BY <2>3, <2>9, <2>16, <2>17 DEF body
<1> QED BY <1>2, <1>3 DEF Asks

\* Message::request and the peer's interest, as they are written.
LEMMA AskWritten ==
    /\ Serialize(Interested, << >>) = Packet(AskBody([type |-> Interested]))
    /\ \A i \in Pieces, b \in BlockIdx : RequestBlock(i, b) = Packet(AskBody(Asking(<<i, b>>)))
<1>1. Interested \in Byte /\ Request \in Byte /\ Interested # Request
  BY Sizes DEF Interested, Request, Extension
<1>2. Serialize(Interested, << >>) = Packet(AskBody([type |-> Interested]))
  <2>1. << >> \in Seq(Byte) /\ Len(<< >>) + 1 = 1
    OBVIOUS
  <2>2. Serialize(Interested, << >>) = Packet(<<Interested>> \o << >>)
    BY <1>1, <2>1, Words, SerializeIs
  <2> QED BY <2>2 DEF AskBody
<1>3. ASSUME NEW i \in Pieces, NEW b \in BlockIdx
      PROVE  RequestBlock(i, b) = Packet(AskBody(Asking(<<i, b>>)))
  <2> DEFINE from == b * BLOCK_SIZE
             n == BlockLength(b)
             tail == BigEndian(n)
             content == BigEndian(i) \o BigEndian(from) \o tail
  <2>1. i \in Word /\ from \in Word /\ n \in Word /\ 3 * WordBytes + 1 \in Word /\ WordBytes \in Nat
    BY Words, Sizes
  <2>2. AskBody(Asking(<<i, b>>)) = <<Request>> \o content
    BY <1>1 DEF AskBody, Asking
  <2>3. RequestBlock(i, b) = Serialize(Request, push_bytes(htonl[i]) \o push_bytes(htonl[from]) \o push_bytes(htonl[n]))
    BY DEF RequestBlock
  <2> HIDE DEF from, n
  <2>4. push_bytes(htonl[i]) = BigEndian(i) /\ push_bytes(htonl[from]) = BigEndian(from) /\ push_bytes(htonl[n]) = tail
    BY <2>1, WordRoundTrip
  <2>5. RequestBlock(i, b) = Serialize(Request, content)
    BY <2>3, <2>4
  <2>6. tail \in Seq(Byte) /\ Len(tail) = WordBytes
    BY <2>1, WordOnWire
  <2> HIDE DEF tail
  <2>7. content \in Seq(Byte) /\ Len(content) = 2 * WordBytes + Len(tail)
    <3> HIDE DEF content
    <3>1. content = BigEndian(i) \o BigEndian(from) \o tail
      BY DEF content
    <3>2. Numbers(content, i, from, tail)
      BY <2>1, <2>6, <3>1, NumbersRead
    <3> QED BY <3>2 DEF Numbers
  <2>8. Len(content) + 1 = 3 * WordBytes + 1
    BY <2>1, <2>6, <2>7
  <2> HIDE DEF content
  <2>9. Serialize(Request, content) = Packet(<<Request>> \o content)
    BY <1>1, <2>1, <2>7, <2>8, SerializeIs
  <2> QED BY <2>2, <2>5, <2>9
<1> QED BY <1>2, <1>3

----------------------------------------------------------------------------
(* What one end writes: a handshake and then packets.  T is all it has     *)
(* written, mark[k] the end of the k-th packet.                            *)

Laid(T, greeting, bodies, mark) ==
    /\ T \in Seq(Byte) /\ greeting \in Seq(Byte) /\ bodies \in Seq(Seq(Byte))
    /\ mark \in [0 .. Len(bodies) -> Nat]
    /\ Has(T, 0, greeting) /\ mark[0] = Len(greeting) /\ mark[Len(bodies)] = Len(T)
    /\ \A k \in 1 .. Len(bodies) :
          /\ Len(bodies[k]) \in Word
          /\ mark[k] = mark[k - 1] + WordBytes + Len(bodies[k])
          /\ Has(T, mark[k - 1], Packet(bodies[k]))

\* The handshake is written first.
LEMMA LaidFirst ==
    ASSUME NEW greeting \in Seq(Byte)
    PROVE  Laid(greeting, greeting, << >>, [k \in 0 .. 0 |-> Len(greeting)])
<1> DEFINE mark == [k \in 0 .. 0 |-> Len(greeting)]
<1>1. Len(<< >>) = 0 /\ << >> \in Seq(Seq(Byte)) /\ Len(greeting) \in Nat
  OBVIOUS
<1>2. mark \in [0 .. 0 -> Nat] /\ mark[0] = Len(greeting)
  BY <1>1
<1>3. Has(greeting, 0, greeting)
  BY <1>1 DEF Has
<1> HIDE DEF mark
<1>4. Laid(greeting, greeting, << >>, mark)
  BY <1>1, <1>2, <1>3 DEF Laid
<1> QED BY <1>4 DEF mark

\* A packet is written behind what was written.
LEMMA LaidMore ==
    ASSUME NEW T, NEW greeting, NEW bodies, NEW mark, Laid(T, greeting, bodies, mark),
           NEW body \in Seq(Byte), Len(body) \in Word
    PROVE  \E more : /\ Laid(T \o Packet(body), greeting, Append(bodies, body), more)
                     /\ \A k \in 0 .. Len(bodies) : more[k] = mark[k]
<1> DEFINE n == Len(bodies)
           p == Packet(body)
           U == T \o p
           new == Append(bodies, body)
           more == [k \in 0 .. n + 1 |-> IF k <= n THEN mark[k] ELSE mark[n] + WordBytes + Len(body)]
<1>1. /\ T \in Seq(Byte) /\ greeting \in Seq(Byte) /\ bodies \in Seq(Seq(Byte)) /\ n \in Nat
      /\ mark \in [0 .. n -> Nat] /\ Has(T, 0, greeting) /\ mark[0] = Len(greeting) /\ mark[n] = Len(T)
  BY DEF Laid
<1>2. p \in Seq(Byte) /\ Len(p) = WordBytes + Len(body) /\ WordBytes \in Nat /\ Len(body) \in Nat
  BY PacketPlaces, Sizes
<1> HIDE DEF p
<1>3. U \in Seq(Byte) /\ Len(U) = Len(T) + Len(p) /\ Has(U, 0, T) /\ Has(U, Len(T), p)
  BY <1>1, <1>2, HasBoth
<1> HIDE DEF U
<1>4. /\ new \in Seq(Seq(Byte)) /\ Len(new) = n + 1 /\ new[n + 1] = body
      /\ \A k \in 1 .. n : new[k] = bodies[k]
  BY <1>1
<1> HIDE DEF new
<1>5. /\ more \in [0 .. n + 1 -> Nat] /\ \A k \in 0 .. n : more[k] = mark[k]
      /\ more[n + 1] = mark[n] + WordBytes + Len(body)
  <2>1. mark[n] \in Nat
    BY <1>1
  <2>2. mark[n] + WordBytes + Len(body) \in Nat
    BY <1>2, <2>1
  <2>3. \A k \in 0 .. n + 1 : k <= n => k \in 0 .. n
    BY <1>1
  <2>4. n + 1 \in 0 .. n + 1 /\ ~(n + 1 <= n) /\ \A k \in 0 .. n : k \in 0 .. n + 1 /\ k <= n
    BY <1>1
  <2> HIDE DEF n
  <2> QED BY <1>1, <2>2, <2>3, <2>4
<1> HIDE DEF more
<1>6. Has(U, 0, greeting)
  <2>1. Has(U, 0 + 0, greeting)
    BY <1>1, <1>3, HasPart
  <2> QED BY <2>1
<1>7. more[0] = Len(greeting) /\ more[n + 1] = Len(U)
  <2>1. 0 \in 0 .. n
    BY <1>1
  <2>2. mark[n] + WordBytes + Len(body) = Len(T) + Len(p)
    BY <1>1, <1>2
  <2> QED BY <1>1, <1>3, <1>5, <2>1, <2>2
<1>8. ASSUME NEW k \in 1 .. n + 1
      PROVE  /\ Len(new[k]) \in Word /\ more[k] = more[k - 1] + WordBytes + Len(new[k])
             /\ Has(U, more[k - 1], Packet(new[k]))
  <2>1. CASE k = n + 1
    <3>1. k - 1 = n /\ n \in 0 .. n
      BY <1>1, <2>1
    <3>2. more[k - 1] = mark[n] /\ mark[n] = Len(T) /\ new[k] = body
      BY <1>1, <1>4, <1>5, <2>1, <3>1
    <3>3. Has(U, more[k - 1], Packet(new[k]))
      BY <1>3, <3>2 DEF p
    <3> QED BY <1>5, <2>1, <3>2, <3>3
  <2>2. CASE k # n + 1
    <3>1. k \in 1 .. n /\ k \in 0 .. n /\ k - 1 \in 0 .. n
      BY <1>1, <2>2
    <3>2. more[k] = mark[k] /\ more[k - 1] = mark[k - 1] /\ new[k] = bodies[k]
      BY <1>4, <1>5, <3>1
    <3>3. /\ Len(bodies[k]) \in Word /\ mark[k] = mark[k - 1] + WordBytes + Len(bodies[k])
          /\ Has(T, mark[k - 1], Packet(bodies[k]))
      BY <3>1 DEF Laid
    <3>4. Has(U, 0 + mark[k - 1], Packet(bodies[k]))
      BY <1>3, <3>3, HasPart
    <3>5. 0 + mark[k - 1] = mark[k - 1]
      <4>1. mark[k - 1] \in Nat
        BY <1>1, <3>1
      <4> QED BY <4>1
    <3> QED BY <3>2, <3>3, <3>4, <3>5
  <2> QED BY <2>1, <2>2
<1>9. Laid(U, greeting, new, more)
  BY <1>1, <1>3, <1>4, <1>5, <1>6, <1>7, <1>8 DEF Laid
<1> QED BY <1>5, <1>9 DEF U, new, p

\* A reader at the end of the j-th packet finds the number of bytes of the next
\* one, as soon as that many have arrived; then its bytes.
LEMMA LengthNext ==
    ASSUME NEW T, NEW greeting, NEW bodies, NEW mark, Laid(T, greeting, bodies, mark),
           NEW j \in 0 .. Len(bodies), NEW u \in Seq(Byte), Has(T, mark[j], u), Len(u) >= WordBytes
    PROVE  /\ j + 1 \in 1 .. Len(bodies)
           /\ SubSeq(u, 1, WordBytes) = BigEndian(Len(bodies[j + 1]))
           /\ mark[j + 1] = mark[j] + WordBytes + Len(bodies[j + 1])
           /\ Has(T, mark[j], Packet(bodies[j + 1]))
           /\ bodies[j + 1] \in Seq(Byte) /\ Len(bodies[j + 1]) \in Word
<1> DEFINE n == Len(bodies)
           body == bodies[j + 1]
           l == BigEndian(Len(body))
           p == Packet(body)
           m == mark[j]
<1>1. WordBytes \in Nat \ {0} /\ n \in Nat /\ j \in Nat /\ j <= n /\ m \in Nat /\ Len(u) \in Nat
      /\ mark[n] = Len(T) /\ Len(T) \in Nat /\ m + Len(u) <= Len(T) /\ bodies \in Seq(Seq(Byte))
  BY Sizes DEF Laid, Has
<1>2. j # n
  <2> DEFINE x == Len(u)
             y == Len(T)
  <2>1. x \in Nat /\ y \in Nat /\ x >= WordBytes /\ m + x <= y /\ mark[n] = y
    BY <1>1
  <2> HIDE DEF x, y
  <2>2. m # y
    BY <1>1, <2>1
  <2> QED BY <2>1, <2>2
<1>3. j + 1 \in 1 .. n /\ (j + 1) - 1 = j
  BY <1>1, <1>2
<1>4. body \in Seq(Byte) /\ Len(body) \in Word /\ mark[j + 1] = m + WordBytes + Len(body) /\ Has(T, m, p)
  BY <1>1, <1>3 DEF Laid
<1>5. /\ Len(p) = WordBytes + Len(body) /\ Has(p, 0, l) /\ l \in Seq(Byte) /\ Len(l) = WordBytes
      /\ Len(body) \in Nat
  BY <1>4, PacketPlaces, WordOnWire
<1> HIDE DEF l, p, body, n
<1>6. Has(T, m + 0, l)
  BY <1>4, <1>5, HasPart
<1>7. Has(u, 0, l)
  <2>1. 0 + Len(l) <= Len(u)
    BY <1>1, <1>5
  <2> QED BY <1>1, <1>6, <2>1, HasWithin
<1>8. SubSeq(u, 1, WordBytes) = l
  <2>1. SubSeq(u, 0 + 1, 0 + Len(l)) = l
    BY <1>5, <1>7, BytesAt
  <2>2. 0 + 1 = 1 /\ 0 + Len(l) = WordBytes
    BY <1>1, <1>5
  <2> QED BY <2>1, <2>2
<1> QED BY <1>3, <1>4, <1>8 DEF l, p, body, n

\* As many bytes as the length says are the body.
LEMMA BodyNext ==
    ASSUME NEW T, NEW body \in Seq(Byte), Len(body) \in Word, NEW m, Has(T, m, Packet(body)),
           NEW u \in Seq(Byte), Has(T, m + WordBytes, u), Len(u) >= Len(body)
    PROVE  SubSeq(u, 1, Len(body)) = body
<1> DEFINE w == WordBytes
           p == Packet(body)
           k == m + w
<1>1. Has(p, w, body)
  BY PacketPlaces
<1> HIDE DEF p
<1>2. Has(T, k, body)
  BY <1>1, HasPart DEF p
<1>3. Has(T, k, u) /\ k \in Nat
  BY DEF Has
<1> HIDE DEF k
<1>4. k + 0 = k /\ 0 + Len(body) = Len(body) /\ 0 + 1 = 1
  BY <1>3
<1>5. Has(u, 0, body)
  BY <1>2, <1>3, <1>4, HasWithin
<1>6. SubSeq(u, 0 + 1, 0 + Len(body)) = body
  BY <1>5, BytesAt
<1> QED BY <1>4, <1>6

\* What is left when n bytes were read.
LEMMA ReadOn ==
    ASSUME NEW T, NEW c, NEW u \in Seq(Byte), Has(T, c, u), NEW n \in Nat, n <= Len(u)
    PROVE  /\ From(u, n + 1) \in Seq(Byte) /\ Has(T, c + n, From(u, n + 1))
           /\ (c + n) + Len(From(u, n + 1)) = c + Len(u)
<1>1. Len(u) \in Nat /\ c \in Nat
  BY DEF Has
<1>2. n \in 0 .. Len(u)
  BY <1>1
<1>3. From(u, n + 1) \in Seq(Byte) /\ Len(From(u, n + 1)) = Len(u) - n /\ Has(u, n, From(u, n + 1))
  BY <1>2, HasCut
<1>4. Has(T, c + n, From(u, n + 1))
  BY <1>3, HasPart
<1>5. (c + n) + Len(From(u, n + 1)) = c + Len(u)
  BY <1>1, <1>3
<1> QED BY <1>3, <1>4, <1>5

----------------------------------------------------------------------------
(* The inductive invariant.  What one end has read of what the other has   *)
(* written ends at the mark of a packet, or behind the length of one, and  *)
(* what is on its way is the rest, or the beginning of the rest when the   *)
(* connection was cut.                                                     *)

Fields ==
    /\ DOMAIN peer = {"at", "want", "choked", "available", "remote_id", "blocks"}
    /\ DOMAIN remote = {"greeted", "met", "cut", "keepalives"}

Contents ==
    /\ inbound \in Seq(Byte) /\ outbound \in Seq(Byte)
    /\ said \in Seq(Messages) /\ heard \in Seq(Messages)
    /\ requested \in Seq(Asks) /\ asked \in Seq(Asks)

\* What was heard of what was said.
Beginning(a, s) == Len(a) <= Len(s) /\ \A k \in 1 .. Len(a) : a[k] = s[k]

Alike == Beginning(heard, said) /\ Beginning(asked, requested)

\* A step of a conversation: what was said is s and then t, heard h and then g.
Say(s, t, S) == t = s \/ \E m \in S : t = Append(s, m)
Hear(s, h, g) ==
    \/ g = h
    \/ Len(h) + 1 <= Len(s) /\ g = Append(h, s[Len(h) + 1])

Talk ==
    /\ Say(said, said', Messages) /\ Hear(said, heard, heard')
    /\ Say(requested, requested', Asks) /\ Hear(requested, asked, asked')

OutAt(T, bodies, mark) ==
    /\ Laid(T, Serialise(peer_id), bodies, mark)
    /\ Len(bodies) = Len(requested)
    /\ \A k \in 1 .. Len(requested) : bodies[k] = AskBody(requested[k])

Outgoing ==
    \E T, bodies, mark :
        /\ OutAt(T, bodies, mark)
        /\ IF remote.met
           THEN Has(T, mark[Len(asked)], outbound) /\ mark[Len(asked)] + Len(outbound) = Len(T)
           ELSE asked = << >> /\ Has(T, 0, outbound) /\ Len(outbound) = Len(T)

\* count[k] is the number of messages in the first k packets, the others are
\* keepalives.
Carries(bodies, count, s) ==
    /\ count \in [0 .. Len(bodies) -> 0 .. Len(s)]
    /\ count[0] = 0 /\ count[Len(bodies)] = Len(s)
    /\ \A k \in 1 .. Len(bodies) :
          \/ bodies[k] = << >> /\ count[k] = count[k - 1]
          \/ count[k] = count[k - 1] + 1 /\ bodies[k] = Body(s[count[k]])

InAt(T, bodies, mark, count, c) ==
    /\ Laid(T, Serialise(RemoteId), bodies, mark)
    /\ Carries(bodies, count, said)
    /\ Has(T, c, inbound)
    /\ ~remote.cut => c + Len(inbound) = Len(T)

\* The handlers that wait, and where in T what they read begins.
Reads(bodies, mark, count, c) ==
    \/ peer.at = "next" /\ peer.want = HandshakeSize /\ c = 0 /\ heard = << >>
    \/ \E j \in 0 .. Len(bodies) :
          /\ count[j] = Len(heard)
          /\ \/ peer.at = "read_len" /\ peer.want = WordBytes /\ c = mark[j]
             \/ /\ peer.at = "handle_message" /\ j + 1 \in 1 .. Len(bodies)
                /\ bodies[j + 1] # << >> /\ peer.want = Len(bodies[j + 1])
                /\ c = mark[j] + WordBytes

Coming == \E T, bodies, mark, count, c : InAt(T, bodies, mark, count, c) /\ Reads(bodies, mark, count, c)

Incoming ==
    IF remote.greeted THEN peer.at = "stopped" \/ Coming
    ELSE /\ inbound = << >> /\ said = << >> /\ heard = << >>
         /\ peer.at = "stopped" \/ (peer.at = "next" /\ peer.want = HandshakeSize)

PeerTyped ==
    /\ peer.at \in {"next", "read_len", "handle_message", "stopped"}
    /\ peer.want \in Nat /\ peer.choked \in BOOLEAN
    /\ peer.available \in Seq(BOOLEAN) /\ Len(peer.available) % BitsPerByte = 0
    /\ DOMAIN peer.blocks = Pieces \X BlockIdx

Streams == Fields /\ Contents /\ Alike /\ Outgoing /\ Incoming

Inv == Streams /\ PeerTyped /\ KnowsRemote /\ AvailableAsSaid /\ BlocksHoldTorrent

----------------------------------------------------------------------------
(* The peer writes, the remote reads.                                      *)

\* The peer's next request is one more packet.
LEMMA WritesAsk ==
    ASSUME Outgoing, Contents, NEW r \in Asks, Len(asked) <= Len(requested),
           requested' = Append(requested, r), outbound' = outbound \o Packet(AskBody(r)),
           asked' = asked, remote'.met = remote.met
    PROVE  Outgoing'
<1> DEFINE body == AskBody(r)
           p == Packet(body)
           n == Len(requested)
           N == Len(asked)
<1>1. PICK T, bodies, mark :
         /\ OutAt(T, bodies, mark)
         /\ IF remote.met
            THEN Has(T, mark[N], outbound) /\ mark[N] + Len(outbound) = Len(T)
            ELSE asked = << >> /\ Has(T, 0, outbound) /\ Len(outbound) = Len(T)
  BY DEF Outgoing
<1>2. /\ Laid(T, Serialise(peer_id), bodies, mark) /\ Len(bodies) = n
      /\ \A k \in 1 .. n : bodies[k] = AskBody(requested[k])
  BY <1>1 DEF OutAt
<1>3. body \in Seq(Byte) /\ Len(body) \in Word
  BY AskUnderstood
<1>4. p \in Seq(Byte)
  BY <1>3, PacketPlaces
<1>5. PICK more : /\ Laid(T \o p, Serialise(peer_id), Append(bodies, body), more)
                  /\ \A k \in 0 .. Len(bodies) : more[k] = mark[k]
  BY <1>2, <1>3, LaidMore
<1>6. n \in Nat /\ N \in 0 .. n /\ requested \in Seq(Asks)
  BY DEF Contents
<1>7. bodies \in Seq(Seq(Byte)) /\ T \in Seq(Byte) /\ outbound \in Seq(Byte) /\ Len(T) \in Nat /\ Len(outbound) \in Nat
  BY <1>2 DEF Laid, Contents
<1> DEFINE B == Append(bodies, body)
           U == T \o p
           O == outbound \o p
<1> HIDE DEF body, p, n, N
<1>8. /\ Len(B) = n + 1 /\ B[n + 1] = body /\ \A k \in 1 .. n : B[k] = bodies[k]
  BY <1>2, <1>3, <1>7
<1>9. /\ Len(requested') = n + 1 /\ requested'[n + 1] = r /\ \A k \in 1 .. n : requested'[k] = requested[k]
  BY <1>6 DEF n
<1> HIDE DEF B
<1>10. \A k \in 1 .. n + 1 : B[k] = AskBody(requested'[k])
  <2> SUFFICES ASSUME NEW k \in 1 .. n + 1 PROVE B[k] = AskBody(requested'[k])
    OBVIOUS
  <2>1. CASE k = n + 1
    BY <1>8, <1>9, <2>1 DEF body
  <2>2. CASE k # n + 1
    <3>1. k \in 1 .. n
      BY <1>6, <2>2
    <3> QED BY <1>2, <1>8, <1>9, <3>1
  <2> QED BY <2>1, <2>2
<1>11. OutAt(U, B, more)'
  BY <1>5, <1>8, <1>9, <1>10 DEF OutAt, B
<1>12. Len(U) = Len(T) + Len(p) /\ Len(O) = Len(outbound) + Len(p) /\ Len(p) \in Nat
  BY <1>4, <1>7, HasBoth
<1> HIDE DEF U, O
<1>13. ASSUME NEW c, Has(T, c, outbound), c + Len(outbound) = Len(T)
       PROVE  Has(U, c, O) /\ c + Len(O) = Len(U)
  <2>1. Has(U, c, O)
    BY <1>4, <1>7, <1>13, HasMore DEF U, O
  <2>2. c \in Nat
    BY <1>13 DEF Has
  <2> DEFINE x == Len(outbound)
             y == Len(T)
             z == Len(p)
  <2>3. x \in Nat /\ y \in Nat /\ z \in Nat /\ c + x = y /\ Len(O) = x + z /\ Len(U) = y + z
    BY <1>7, <1>12, <1>13
  <2> HIDE DEF x, y, z
  <2>4. c + Len(O) = Len(U)
    BY <2>2, <2>3
  <2> QED BY <2>1, <2>4
<1>14. outbound' = O /\ Len(asked)' = N
  BY DEF O, p, body, N
<1>15. CASE remote.met
  <2>1. more[N] = mark[N]
    BY <1>2, <1>5, <1>6
  <2>2. Has(U, more[N], O) /\ more[N] + Len(O) = Len(U)
    BY <1>1, <1>13, <1>15, <2>1
  <2> QED BY <1>11, <1>14, <1>15, <2>2 DEF Outgoing
<1>16. CASE ~remote.met
  <2>1. asked = << >> /\ Has(T, 0, outbound) /\ 0 + Len(outbound) = Len(T)
    BY <1>1, <1>7, <1>16
  <2>2. Has(U, 0, O) /\ 0 + Len(O) = Len(U)
    BY <1>13, <2>1
  <2>3. Len(O) = Len(U)
    BY <1>7, <1>12, <2>2
  <2> QED BY <1>11, <1>14, <1>16, <2>1, <2>2, <2>3 DEF Outgoing
<1> QED BY <1>15, <1>16

\* A step that writes and reads nothing of the peer's.
LEMMA WritesNothing ==
    ASSUME Outgoing, requested' = requested, outbound' = outbound, asked' = asked,
           remote'.met = remote.met
    PROVE  Outgoing'
BY DEF Outgoing, OutAt

\* The remote hears the next of what was requested, as it was requested.
LEMMA HearsAsk ==
    ASSUME Outgoing, Contents, Len(asked) <= Len(requested), DOMAIN remote = {"greeted", "met", "cut", "keepalives"},
           RemoteHears
    PROVE  Outgoing' /\ outbound' \in Seq(Byte) /\ Hear(requested, asked, asked')
<1> DEFINE n == Len(requested)
           N == Len(asked)
<1>1. PICK T, bodies, mark :
         /\ OutAt(T, bodies, mark)
         /\ IF remote.met
            THEN Has(T, mark[N], outbound) /\ mark[N] + Len(outbound) = Len(T)
            ELSE asked = << >> /\ Has(T, 0, outbound) /\ Len(outbound) = Len(T)
  BY DEF Outgoing
<1>2. /\ Laid(T, Serialise(peer_id), bodies, mark) /\ Len(bodies) = n
      /\ \A k \in 1 .. n : bodies[k] = AskBody(requested[k])
  BY <1>1 DEF OutAt
<1>3. n \in Nat /\ N \in 0 .. n /\ outbound \in Seq(Byte) /\ requested \in Seq(Asks) /\ Len(outbound) \in Nat
  BY DEF Contents
<1>4. requested' = requested /\ OutAt(T, bodies, mark)'
  <2>1. requested' = requested
    BY DEF RemoteHears, PeerUnchanged
  <2> QED BY <1>1, <2>1 DEF OutAt
<1>5. CASE ~remote.met
  <2>1. /\ Len(outbound) >= HandshakeSize /\ remote'.met /\ asked' = asked
        /\ outbound' = From(outbound, HandshakeSize + 1)
    BY <1>5 DEF RemoteHears
  <2>2. HandshakeSize \in Nat /\ mark[0] = HandshakeSize
    BY <1>2, HandshakeSizes DEF Laid
  <2>3. Has(T, 0, outbound) /\ Len(outbound) = Len(T) /\ asked = << >>
    BY <1>1, <1>5
  <2> DEFINE h == HandshakeSize
             rest == From(outbound, h + 1)
  <2> HIDE DEF h
  <2>4. rest \in Seq(Byte) /\ Has(T, 0 + h, rest) /\ (0 + h) + Len(rest) = 0 + Len(outbound)
    BY <1>3, <2>1, <2>2, <2>3, ReadOn DEF h
  <2> HIDE DEF rest
  <2>5. 0 + h = mark[0] /\ 0 + Len(outbound) = Len(T) /\ N = 0
    BY <1>3, <2>2, <2>3 DEF h
  <2>6. Has(T, mark[N], rest) /\ mark[N] + Len(rest) = Len(T)
    BY <2>4, <2>5
  <2>7. outbound' = rest
    BY <2>1 DEF rest, h
  <2>8. Hear(requested, asked, asked')
    BY <2>1 DEF Hear
  <2>9. Outgoing'
    BY <1>4, <2>1, <2>6, <2>7 DEF Outgoing
  <2> QED BY <2>4, <2>7, <2>8, <2>9
<1>6. CASE remote.met
  <2> DEFINE size == WordBytes + Numeral(SubSeq(outbound, 1, WordBytes), Base)
             body == bodies[N + 1]
  <2>1. /\ Len(outbound) >= WordBytes /\ Len(outbound) >= size
        /\ asked' = Append(asked, Understood(SubSeq(outbound, WordBytes + 1, size)))
        /\ outbound' = From(outbound, size + 1) /\ remote' = remote
    BY <1>6 DEF RemoteHears
  <2>2. Has(T, mark[N], outbound) /\ mark[N] + Len(outbound) = Len(T)
    BY <1>1, <1>6
  <2>3. /\ N + 1 \in 1 .. n
        /\ SubSeq(outbound, 1, WordBytes) = BigEndian(Len(body))
        /\ mark[N + 1] = mark[N] + WordBytes + Len(body)
        /\ Has(T, mark[N], Packet(body))
        /\ body \in Seq(Byte) /\ Len(body) \in Word
    BY <1>2, <1>3, <2>1, <2>2, LengthNext
  <2>4. Numeral(SubSeq(outbound, 1, WordBytes), Base) = Len(body)
    BY <2>3, WordOnWire
  <2> HIDE DEF body
  <2>5. size = WordBytes + Len(body) /\ WordBytes \in Nat /\ Len(body) \in Nat /\ size \in Nat /\ mark[N] \in Nat
    <3>1. mark[N] \in Nat
      BY <2>2 DEF Has
    <3>2. WordBytes \in Nat
      BY Sizes
    <3>3. Len(body) \in Nat
      BY <2>3
    <3>4. size = WordBytes + Len(body)
      BY <2>4
    <3> HIDE DEF size
    <3> QED BY <3>1, <3>2, <3>3, <3>4
  <2> HIDE DEF size
  <2>6. SubSeq(outbound, WordBytes + 1, size) = body
    <3> DEFINE p == Packet(body)
    <3>1. Has(p, WordBytes, body) /\ Len(p) = WordBytes + Len(body)
      BY <2>3, PacketPlaces
    <3>2. Has(T, mark[N] + WordBytes, body)
      BY <2>3, <3>1, HasPart
    <3>3. WordBytes + Len(body) <= Len(outbound)
      BY <2>1, <2>5
    <3>4. Has(outbound, WordBytes, body)
      BY <2>2, <2>5, <3>2, <3>3, HasWithin
    <3> QED BY <1>3, <2>3, <2>5, <3>4, BytesAt
  <2> DEFINE rest == From(outbound, size + 1)
  <2>7. rest \in Seq(Byte) /\ Has(T, mark[N] + size, rest) /\ (mark[N] + size) + Len(rest) = mark[N] + Len(outbound)
    <3>1. outbound \in Seq(Byte) /\ Has(T, mark[N], outbound) /\ size \in Nat /\ size <= Len(outbound)
      BY <1>3, <2>1, <2>2, <2>5
    <3> QED BY <3>1, ReadOn
  <2>8. outbound' = rest
    BY <2>1
  <2> HIDE DEF rest
  <2>9. mark[N] + size = mark[N + 1]
    BY <2>3, <2>5
  <2>10. Understood(body) = requested[N + 1]
    <3>1. requested[N + 1] \in Asks /\ body = AskBody(requested[N + 1])
      BY <1>2, <1>3, <2>3 DEF body
    <3> QED BY <3>1, AskUnderstood
  <2>11. asked' = Append(asked, requested[N + 1])
    BY <2>1, <2>6, <2>10
  <2>12. Hear(requested, asked, asked')
    BY <1>3, <2>3, <2>11 DEF Hear
  <2>13. Len(asked') = N + 1
    <3>1. asked \in Seq(Asks) /\ requested[N + 1] \in Asks
      BY <1>3, <2>3 DEF Contents
    <3> QED BY <2>11, <3>1
  <2>14. Has(T, mark[N + 1], rest) /\ mark[N + 1] + Len(rest) = Len(T)
    BY <2>2, <2>7, <2>9
  <2>15. Outgoing'
    BY <1>4, <1>6, <2>1, <2>8, <2>13, <2>14 DEF Outgoing
  <2> QED BY <2>7, <2>8, <2>12, <2>15
<1> QED BY <1>5, <1>6

----------------------------------------------------------------------------
(* The remote writes, the peer reads.                                      *)

\* One more packet carries one more message or none.
LEMMA CarriesMore ==
    ASSUME NEW bodies \in Seq(Seq(Byte)), NEW count, NEW s \in Seq(Messages), NEW t \in Seq(Messages),
           Carries(bodies, count, s), NEW body \in Seq(Byte),
           \/ t = s /\ body = << >>
           \/ \E m \in Messages : t = Append(s, m) /\ body = Body(m)
    PROVE  \E more : /\ Carries(Append(bodies, body), more, t)
                     /\ \A k \in 0 .. Len(bodies) : more[k] = count[k]
<1> DEFINE n == Len(bodies)
           new == Append(bodies, body)
           more == [k \in 0 .. n + 1 |-> IF k <= n THEN count[k] ELSE Len(t)]
<1>1. /\ n \in Nat /\ count \in [0 .. n -> 0 .. Len(s)] /\ count[0] = 0 /\ count[n] = Len(s)
      /\ Len(s) \in Nat /\ Len(t) \in Nat
  BY DEF Carries
<1>2. /\ Len(s) <= Len(t) /\ \A k \in 1 .. Len(s) : t[k] = s[k]
      /\ \/ Len(t) = Len(s) /\ body = << >>
         \/ Len(t) = Len(s) + 1 /\ body = Body(t[Len(t)])
  <2>1. CASE t = s /\ body = << >>
    BY <1>1, <2>1
  <2>2. ASSUME NEW m \in Messages, t = Append(s, m), body = Body(m)
        PROVE  /\ Len(t) = Len(s) + 1 /\ t[Len(t)] = m /\ Len(s) <= Len(t)
               /\ \A k \in 1 .. Len(s) : t[k] = s[k]
    BY <1>1, <2>2
  <2> QED BY <2>1, <2>2
<1>3. /\ Len(new) = n + 1 /\ new[n + 1] = body /\ \A k \in 1 .. n : new[k] = bodies[k]
  OBVIOUS
<1>4. /\ more \in [0 .. n + 1 -> 0 .. Len(t)] /\ more[n + 1] = Len(t)
      /\ \A k \in 0 .. n : more[k] = count[k]
  <2>1. \A k \in 0 .. n + 1 : k <= n => k \in 0 .. n /\ count[k] \in 0 .. Len(t)
    BY <1>1, <1>2
  <2>2. Len(t) \in 0 .. Len(t) /\ n + 1 \in 0 .. n + 1 /\ ~(n + 1 <= n)
        /\ \A k \in 0 .. n : k \in 0 .. n + 1 /\ k <= n
    BY <1>1
  <2> HIDE DEF n
  <2> QED BY <2>1, <2>2
<1> HIDE DEF more, new
<1>5. ASSUME NEW k \in 1 .. n + 1
      PROVE  \/ new[k] = << >> /\ more[k] = more[k - 1]
             \/ more[k] = more[k - 1] + 1 /\ new[k] = Body(t[more[k]])
  <2>1. CASE k = n + 1
    <3>1. k - 1 = n /\ n \in 0 .. n
      BY <1>1, <2>1
    <3>2. more[k - 1] = Len(s) /\ more[k] = Len(t) /\ new[k] = body
      BY <1>1, <1>3, <1>4, <2>1, <3>1
    <3> QED BY <1>2, <3>2
  <2>2. CASE k # n + 1
    <3>1. k \in 1 .. n /\ k \in 0 .. n /\ k - 1 \in 0 .. n
      BY <1>1, <2>2
    <3>2. more[k] = count[k] /\ more[k - 1] = count[k - 1] /\ new[k] = bodies[k]
          /\ count[k] \in 0 .. Len(s) /\ count[k - 1] \in 0 .. Len(s)
      BY <1>1, <1>3, <1>4, <3>1
    <3>3. \/ bodies[k] = << >> /\ count[k] = count[k - 1]
          \/ count[k] = count[k - 1] + 1 /\ bodies[k] = Body(s[count[k]])
      BY <3>1 DEF Carries
    <3>4. ASSUME count[k] = count[k - 1] + 1 PROVE t[count[k]] = s[count[k]]
      <4>1. count[k] \in 1 .. Len(s)
        BY <1>1, <3>2, <3>4
      <4> QED BY <1>2, <4>1
    <3> QED BY <3>2, <3>3, <3>4
  <2> QED BY <2>1, <2>2
<1>6. more[0] = 0
  BY <1>1, <1>4
<1>7. Carries(new, more, t)
  BY <1>3, <1>4, <1>5, <1>6 DEF Carries
<1> QED BY <1>4, <1>7 DEF new

\* The remote sends one more packet.
LEMMA ComesMore ==
    ASSUME Coming, Contents, ~remote.cut, NEW body \in Seq(Byte), Len(body) \in Word,
           said' \in Seq(Messages),
           \/ said' = said /\ body = << >>
           \/ \E m \in Messages : said' = Append(said, m) /\ body = Body(m),
           inbound' = inbound \o Packet(body), peer' = peer, heard' = heard, ~remote'.cut
    PROVE  Coming'
<1>1. PICK T, bodies, mark, count, c : InAt(T, bodies, mark, count, c) /\ Reads(bodies, mark, count, c)
  BY DEF Coming
<1> DEFINE n == Len(bodies)
           p == Packet(body)
           B == Append(bodies, body)
           U == T \o p
           I == inbound \o p
<1>2. /\ Laid(T, Serialise(RemoteId), bodies, mark) /\ Carries(bodies, count, said)
      /\ Has(T, c, inbound) /\ c + Len(inbound) = Len(T)
  BY <1>1 DEF InAt
<1>3. bodies \in Seq(Seq(Byte)) /\ T \in Seq(Byte) /\ inbound \in Seq(Byte) /\ said \in Seq(Messages) /\ n \in Nat
  BY <1>2 DEF Laid, Contents
<1>4. p \in Seq(Byte)
  BY PacketPlaces
<1>5. PICK mark2 : Laid(U, Serialise(RemoteId), B, mark2) /\ \A k \in 0 .. n : mark2[k] = mark[k]
  <2>1. Laid(T, Serialise(RemoteId), bodies, mark)
    BY <1>2
  <2> QED BY <2>1, LaidMore
<1>6. PICK count2 : Carries(B, count2, said') /\ \A k \in 0 .. n : count2[k] = count[k]
  <2>1. Carries(bodies, count, said)
    BY <1>2
  <2> HIDE DEF p
  <2> QED BY <1>3, <2>1, CarriesMore
<1> HIDE DEF p
<1>7. Has(U, c, I)
  BY <1>2, <1>3, <1>4, HasMore
<1>8. c + Len(I) = Len(U)
  <2>1. Len(I) = Len(inbound) + Len(p) /\ Len(U) = Len(T) + Len(p)
    BY <1>3, <1>4, HasBoth
  <2> DEFINE x == Len(inbound)
             y == Len(T)
             z == Len(p)
  <2>2. c \in Nat /\ x \in Nat /\ y \in Nat /\ z \in Nat
    BY <1>2, <1>3, <1>4 DEF Has
  <2>3. c + x = y /\ Len(I) = x + z /\ Len(U) = y + z
    BY <1>2, <2>1
  <2> HIDE DEF x, y, z, I, U
  <2> QED BY <2>2, <2>3
<1>9. Len(B) = n + 1 /\ \A k \in 1 .. n : B[k] = bodies[k]
  BY <1>3
<1> HIDE DEF B, U
<1>10. inbound' = I
  BY DEF I, p
<1> HIDE DEF I
<1>11. InAt(U, B, mark2, count2, c)'
  BY <1>5, <1>6, <1>7, <1>8, <1>10 DEF InAt
<1>12. Reads(B, mark2, count2, c)'
  <2>1. CASE peer.at = "next" /\ peer.want = HandshakeSize /\ c = 0 /\ heard = << >>
    BY <2>1 DEF Reads
  <2>2. ASSUME NEW j \in 0 .. n, count[j] = Len(heard),
               \/ peer.at = "read_len" /\ peer.want = WordBytes /\ c = mark[j]
               \/ /\ peer.at = "handle_message" /\ j + 1 \in 1 .. n
                  /\ bodies[j + 1] # << >> /\ peer.want = Len(bodies[j + 1])
                  /\ c = mark[j] + WordBytes
        PROVE  Reads(B, mark2, count2, c)'
    <3>1. j \in 0 .. Len(B)
      <4> HIDE DEF n
      <4> QED BY <1>3, <1>9
    <3>2. count2[j] = Len(heard') /\ mark2[j] = mark[j]
      BY <1>5, <1>6, <2>2
    <3>3. ASSUME j + 1 \in 1 .. n PROVE j + 1 \in 1 .. Len(B) /\ B[j + 1] = bodies[j + 1]
      <4> HIDE DEF n
      <4> QED BY <1>3, <1>9, <3>3
    <3> QED BY <2>2, <3>1, <3>2, <3>3 DEF Reads
  <2> QED BY <1>1, <2>1, <2>2 DEF Reads
<1> QED BY <1>11, <1>12 DEF Coming

\* The connection is cut, and some of the last bytes are lost.
LEMMA ComesCut ==
    ASSUME Coming, Contents, NEW n \in 0 .. Len(inbound), inbound' = SubSeq(inbound, 1, n),
           remote'.cut, said' = said, peer' = peer, heard' = heard
    PROVE  Coming' /\ inbound' \in Seq(Byte)
<1>1. PICK T, bodies, mark, count, c : InAt(T, bodies, mark, count, c) /\ Reads(bodies, mark, count, c)
  BY DEF Coming
<1>2. inbound \in Seq(Byte)
  BY DEF Contents
<1>3. inbound' \in Seq(Byte) /\ Has(inbound, 0, inbound')
  BY <1>2, HasCut
<1>4. Has(T, c + 0, inbound')
  BY <1>1, <1>3, HasPart DEF InAt
<1>5. c + 0 = c
  BY <1>1 DEF InAt, Has
<1>6. InAt(T, bodies, mark, count, c)'
  BY <1>1, <1>4, <1>5 DEF InAt
<1>7. Reads(bodies, mark, count, c)'
  BY <1>1 DEF Reads
<1> QED BY <1>3, <1>6, <1>7 DEF Coming

\* The first packet behind the handshake.
LEMMA ComesFirst ==
    ASSUME inbound = << >>, said = << >>, heard = << >>, peer.at = "next", peer.want = HandshakeSize,
           inbound' = inbound \o Serialise(RemoteId), said' = said, heard' = heard, peer' = peer
    PROVE  Coming' /\ inbound' \in Seq(Byte)
<1> DEFINE g == Serialise(RemoteId)
           mark == [k \in 0 .. 0 |-> Len(g)]
           count == [k \in 0 .. 0 |-> 0]
<1>1. g \in Seq(Byte)
  BY HandshakeSizes
<1>2. inbound' = g
  BY <1>1, ConcatEmptySeq
<1>3. Laid(g, g, << >>, mark)
  BY <1>1, LaidFirst
<1>4. Carries(<< >>, count, << >>)
  <2>1. Len(<< >>) = 0
    OBVIOUS
  <2>2. count \in [0 .. 0 -> 0 .. 0] /\ count[0] = 0 /\ 1 .. 0 = {}
    OBVIOUS
  <2> HIDE DEF count
  <2> QED BY <2>1, <2>2 DEF Carries
<1>5. Len(g) \in Nat
  BY <1>1
<1> HIDE DEF g, mark, count
<1>6. Has(g, 0, g) /\ 0 + Len(g) = Len(g)
  BY <1>5 DEF Has
<1>7. InAt(g, << >>, mark, count, 0)'
  BY <1>2, <1>3, <1>4, <1>6 DEF InAt, g
<1>8. Reads(<< >>, mark, count, 0)'
  BY DEF Reads
<1> QED BY <1>1, <1>2, <1>7, <1>8 DEF Coming

----------------------------------------------------------------------------
(* The reads of the peer.                                                  *)

\* Where the bytes go on when the buffer was read.
LEMMA ComesOn ==
    ASSUME NEW T, NEW bodies, NEW mark, NEW count, NEW c, InAt(T, bodies, mark, count, c), Contents,
           peer.want \in Nat, Len(inbound) >= peer.want, Consumed, said' = said, remote' = remote,
           NEW d, d = c + peer.want
    PROVE  inbound' \in Seq(Byte) /\ InAt(T, bodies, mark, count, d)'
<1> DEFINE n == peer.want
           rest == From(inbound, n + 1)
<1>1. inbound \in Seq(Byte) /\ n \in Nat /\ n <= Len(inbound) /\ Has(T, c, inbound)
  BY DEF Contents, InAt
<1>2. inbound' = rest
  BY DEF Consumed
<1> HIDE DEF n
<1>3. rest \in Seq(Byte) /\ Has(T, c + n, rest) /\ (c + n) + Len(rest) = c + Len(inbound)
  BY <1>1, ReadOn
<1> HIDE DEF rest
<1>4. ~remote.cut => (c + n) + Len(rest) = Len(T)
  BY <1>3 DEF InAt
<1>5. Has(T, d, inbound') /\ (~remote'.cut => d + Len(inbound') = Len(T)) /\ inbound' \in Seq(Byte)
  BY <1>2, <1>3, <1>4 DEF n
<1>6. Laid(T, Serialise(RemoteId), bodies, mark)' /\ Carries(bodies, count, said)'
  BY DEF InAt
<1> QED BY <1>5, <1>6 DEF InAt

\* async_next reads the handshake that the remote sent.
LEMMA ReadsHandshake ==
    ASSUME Coming, Contents, peer.at = "next", Len(inbound) >= peer.want, Consumed,
           said' = said, heard' = heard, remote' = remote, peer'.at = "read_len", peer'.want = WordBytes
    PROVE  Coming' /\ inbound' \in Seq(Byte) /\ Buffer = Serialise(RemoteId)
<1> DEFINE g == Serialise(RemoteId)
<1>1. PICK T, bodies, mark, count, c : InAt(T, bodies, mark, count, c) /\ Reads(bodies, mark, count, c)
  BY DEF Coming
<1>2. peer.want = HandshakeSize /\ c = 0 /\ heard = << >>
  BY <1>1 DEF Reads
<1>3. HandshakeSize \in Nat /\ g \in Seq(Byte) /\ Len(g) = HandshakeSize /\ inbound \in Seq(Byte)
  BY HandshakeSizes DEF Contents
<1>4. /\ bodies \in Seq(Seq(Byte)) /\ Has(T, 0, g) /\ mark[0] = HandshakeSize /\ count[0] = 0
      /\ Has(T, 0, inbound)
  BY <1>1, <1>2, <1>3 DEF InAt, Laid, Carries
<1>5. PICK d : d = 0 + HandshakeSize /\ inbound' \in Seq(Byte) /\ InAt(T, bodies, mark, count, d)'
  BY <1>1, <1>2, <1>3, ComesOn
<1> HIDE DEF g
<1>6. Buffer = g
  <2>1. 0 + Len(g) <= Len(inbound) /\ 0 + 0 = 0 /\ 0 + 1 = 1 /\ 0 + Len(g) = HandshakeSize
    BY <1>2, <1>3
  <2>2. Has(inbound, 0, g)
    BY <1>4, <2>1, HasWithin
  <2>3. SubSeq(inbound, 0 + 1, 0 + Len(g)) = g
    BY <1>3, <2>2, BytesAt
  <2> QED BY <1>2, <2>1, <2>3 DEF Buffer
<1>7. d = mark[0] /\ 0 \in 0 .. Len(bodies) /\ Len(heard) = 0
  BY <1>2, <1>3, <1>4, <1>5
<1>8. Reads(bodies, mark, count, d)'
  BY <1>4, <1>7 DEF Reads
<1> QED BY <1>5, <1>6, <1>8 DEF Coming, g

\* async_read_len reads the number of bytes of the next body.
LEMMA ReadsLength ==
    ASSUME Coming, Contents, peer.at = "read_len", Len(inbound) >= peer.want, Consumed,
           said' = said, heard' = heard, remote' = remote, NEW len, len = ntohl[Load(Buffer)],
           \/ len = 0 /\ peer' = peer
           \/ len # 0 /\ peer'.at = "handle_message" /\ peer'.want = len
    PROVE  Coming' /\ inbound' \in Seq(Byte) /\ len \in Nat
<1>1. PICK T, bodies, mark, count, c : InAt(T, bodies, mark, count, c) /\ Reads(bodies, mark, count, c)
  BY DEF Coming
<1>2. PICK j \in 0 .. Len(bodies) : count[j] = Len(heard) /\ peer.want = WordBytes /\ c = mark[j]
  BY <1>1 DEF Reads
<1> DEFINE body == bodies[j + 1]
           w == WordBytes
<1>3. w \in Nat /\ inbound \in Seq(Byte) /\ said \in Seq(Messages)
  BY Sizes DEF Contents
<1>4. Laid(T, Serialise(RemoteId), bodies, mark) /\ Carries(bodies, count, said) /\ Has(T, mark[j], inbound)
  BY <1>1, <1>2 DEF InAt
<1>5. /\ j + 1 \in 1 .. Len(bodies) /\ SubSeq(inbound, 1, w) = BigEndian(Len(body))
      /\ mark[j + 1] = mark[j] + w + Len(body) /\ body \in Seq(Byte) /\ Len(body) \in Word
  BY <1>2, <1>3, <1>4, LengthNext
<1>6. len = Len(body) /\ Len(body) \in Nat
  <2>1. Buffer = BigEndian(Len(body))
    BY <1>2, <1>5 DEF Buffer
  <2> QED BY <1>5, <2>1, WordRoundTrip
<1>7. PICK d : d = mark[j] + w /\ inbound' \in Seq(Byte) /\ InAt(T, bodies, mark, count, d)'
  BY <1>1, <1>2, <1>3, ComesOn
<1>8. Reads(bodies, mark, count, d)'
  <2>1. CASE len = 0
    <3>1. peer'.at = "read_len" /\ peer'.want = WordBytes
      BY <1>2, <2>1
    <3>2. mark[j] \in Nat
      BY <1>2, <1>4 DEF Has
    <3>3. d = mark[j + 1]
      <4> HIDE DEF w, body
      <4> QED BY <1>3, <1>5, <1>6, <1>7, <2>1, <3>2
    <3>4. count[j + 1] = count[j]
      <4> DEFINE k == j + 1
      <4>1. k \in 1 .. Len(bodies) /\ k - 1 = j /\ count[k] \in 0 .. Len(said) /\ count[j] \in 0 .. Len(said)
        <5>1. k \in 1 .. Len(bodies) /\ k - 1 = j /\ k \in 0 .. Len(bodies)
          BY <1>5
        <5> HIDE DEF k
        <5> QED BY <1>4, <5>1 DEF Carries
      <4> HIDE DEF k
      <4>2. \/ bodies[k] = << >> /\ count[k] = count[k - 1]
            \/ count[k] = count[k - 1] + 1 /\ bodies[k] = Body(said[count[k]])
        BY <1>4, <4>1 DEF Carries
      <4>3. ASSUME count[k] = count[k - 1] + 1, bodies[k] = Body(said[count[k]]) PROVE FALSE
        <5>1. count[k] \in 1 .. Len(said)
          BY <1>3, <4>1, <4>3
        <5>2. said[count[k]] \in Messages
          BY <1>3, <5>1
        <5>3. Len(bodies[k]) >= 1
          BY <4>3, <5>2, MessageSaid DEF Tells
        <5>4. Len(bodies[k]) = 0
          BY <1>6, <2>1 DEF k
        <5> QED BY <5>3, <5>4
      <4>4. count[k] = count[j]
        BY <4>1, <4>2, <4>3
      <4> QED BY <4>4 DEF k
    <3>5. j + 1 \in 0 .. Len(bodies) /\ count[j + 1] = Len(heard')
      BY <1>2, <1>5, <3>4
    <3> QED BY <3>1, <3>3, <3>5 DEF Reads
  <2>2. CASE len # 0
    <3>1. peer'.at = "handle_message" /\ peer'.want = Len(body) /\ body # << >>
      BY <1>6, <2>2
    <3>2. count[j] = Len(heard')
      BY <1>2
    <3> QED BY <1>2, <1>5, <1>7, <3>1, <3>2 DEF Reads
  <2> QED BY <2>1, <2>2
<1> QED BY <1>6, <1>7, <1>8 DEF Coming

\* async_handle_message reads the body of the next message.
LEMMA ReadsBody ==
    ASSUME Coming, Contents, peer.at = "handle_message", Len(inbound) >= peer.want, Consumed,
           said' = said, remote' = remote, NEW m, m = said[Len(heard) + 1]
    PROVE  /\ inbound' \in Seq(Byte) /\ Len(heard) + 1 <= Len(said) /\ m \in Messages /\ Tells(Buffer, m)
           /\ heard' = Append(heard, m) /\ peer'.at = "read_len" /\ peer'.want = WordBytes => Coming'
<1>1. PICK T, bodies, mark, count, c : InAt(T, bodies, mark, count, c) /\ Reads(bodies, mark, count, c)
  BY DEF Coming
<1>2. PICK j \in 0 .. Len(bodies) :
         /\ count[j] = Len(heard) /\ j + 1 \in 1 .. Len(bodies) /\ bodies[j + 1] # << >>
         /\ peer.want = Len(bodies[j + 1]) /\ c = mark[j] + WordBytes
  BY <1>1 DEF Reads
<1> DEFINE body == bodies[j + 1]
           w == WordBytes
           h == Len(heard)
           k == j + 1
<1>3. w \in Nat /\ inbound \in Seq(Byte) /\ said \in Seq(Messages) /\ heard \in Seq(Messages) /\ h \in Nat
  BY Sizes DEF Contents
<1>4. /\ Laid(T, Serialise(RemoteId), bodies, mark) /\ Carries(bodies, count, said)
      /\ Has(T, mark[j] + w, inbound)
  BY <1>1, <1>2 DEF InAt
<1>5. k \in 1 .. Len(bodies) /\ k - 1 = j
  BY <1>2
<1> HIDE DEF k
<1>6. /\ bodies \in Seq(Seq(Byte)) /\ Len(bodies[k]) \in Word /\ Has(T, mark[j], Packet(bodies[k]))
      /\ mark[k] = mark[j] + w + Len(bodies[k]) /\ mark[j] \in Nat
  <2>1. mark[j] \in Nat
    BY <1>4, <1>2 DEF Laid
  <2> QED BY <1>4, <1>5, <2>1 DEF Laid
<1>7. bodies[k] = body /\ bodies[k] \in Seq(Byte)
  BY <1>5, <1>6 DEF k
<1> HIDE DEF body
<1>8. count[k] = h + 1 /\ body = Body(said[h + 1]) /\ h + 1 <= Len(said)
  <2>1. \/ bodies[k] = << >> /\ count[k] = count[k - 1]
        \/ count[k] = count[k - 1] + 1 /\ bodies[k] = Body(said[count[k]])
    BY <1>4, <1>5 DEF Carries
  <2>2. bodies[k] # << >>
    BY <1>2 DEF k
  <2>3. count[k] \in 0 .. Len(said)
    <3>1. k \in 0 .. Len(bodies)
      BY <1>5
    <3> QED BY <1>4, <3>1 DEF Carries
  <2>4. count[k] = count[k - 1] + 1 /\ bodies[k] = Body(said[count[k]])
    BY <2>1, <2>2
  <2>5. count[k - 1] = h
    BY <1>2, <1>5
  <2>6. count[k] = h + 1
    BY <2>4, <2>5
  <2>7. h + 1 <= Len(said)
    <3>1. Len(said) \in Nat
      BY <1>3
    <3> QED BY <2>3, <2>6, <3>1
  <2> QED BY <1>7, <2>4, <2>6, <2>7
<1>9. m \in Messages
  BY <1>3, <1>8
<1>10. Buffer = body /\ Tells(body, m)
  <2>1. Len(inbound) >= Len(body) /\ peer.want = Len(body)
    BY <1>2, <1>7 DEF k
  <2>2. SubSeq(inbound, 1, Len(body)) = body
    BY <1>3, <1>4, <1>6, <1>7, <2>1, BodyNext
  <2>3. Tells(body, m)
    BY <1>8, <1>9, MessageSaid
  <2> QED BY <2>1, <2>2, <2>3 DEF Buffer
<1>11. peer.want = Len(body) /\ Len(body) \in Nat
  BY <1>2, <1>7 DEF k
<1>12. PICK d : d = c + Len(body) /\ inbound' \in Seq(Byte) /\ InAt(T, bodies, mark, count, d)'
  BY <1>1, <1>11, ComesOn
<1>13. d = mark[k]
  BY <1>2, <1>3, <1>6, <1>7, <1>11, <1>12
<1>14. ASSUME heard' = Append(heard, m), peer'.at = "read_len", peer'.want = WordBytes
       PROVE  Coming'
  <2>1. Len(heard') = h + 1
    <3>1. Len(Append(heard, m)) = h + 1
      BY <1>3, <1>9
    <3> QED BY <1>14, <3>1
  <2>2. k \in 0 .. Len(bodies)
    BY <1>5
  <2>3. Reads(bodies, mark, count, d)'
    <3>1. count[k] = Len(heard')
      BY SMTT(30), <1>8, <2>1
    <3> QED BY <1>13, <1>14, <2>2, <3>1 DEF Reads
  <2> QED BY <1>12, <2>3 DEF Coming
<1> QED BY <1>8, <1>9, <1>10, <1>12, <1>14

----------------------------------------------------------------------------
(* What a step keeps.                                                      *)

\* Saying more and hearing the next keep what was heard the beginning of what was said.
LEMMA Talks ==
    ASSUME NEW S, NEW s \in Seq(S), NEW t, NEW h \in Seq(S), NEW g,
           Beginning(h, s), Say(s, t, S), Hear(s, h, g)
    PROVE  /\ t \in Seq(S) /\ g \in Seq(S) /\ Beginning(g, t)
           /\ \E n \in 0 .. Len(t) : s = SubSeq(t, 1, n)
<1>1. Len(s) \in Nat /\ Len(h) \in Nat
  OBVIOUS
<1>2. t \in Seq(S) /\ Len(t) \in Nat /\ Len(s) <= Len(t) /\ \A k \in 1 .. Len(s) : t[k] = s[k]
  <2>1. CASE t = s
    BY <1>1, <2>1
  <2>2. ASSUME NEW m \in S, t = Append(s, m)
        PROVE  t \in Seq(S) /\ Len(t) \in Nat /\ Len(s) <= Len(t) /\ \A k \in 1 .. Len(s) : t[k] = s[k]
    BY <1>1, <2>2
  <2> QED BY <2>1, <2>2 DEF Say
<1>3. g \in Seq(S) /\ Beginning(g, s)
  <2>1. CASE g = h
    BY <2>1
  <2>2. CASE Len(h) + 1 <= Len(s) /\ g = Append(h, s[Len(h) + 1])
    <3>1. s[Len(h) + 1] \in S
      BY <1>1, <2>2
    <3>2. g \in Seq(S) /\ Len(g) = Len(h) + 1 /\ g[Len(h) + 1] = s[Len(h) + 1]
          /\ \A k \in 1 .. Len(h) : g[k] = h[k]
      BY <2>2, <3>1
    <3>3. \A k \in 1 .. Len(h) : h[k] = s[k]
      BY DEF Beginning
    <3> QED BY <1>1, <2>2, <3>2, <3>3 DEF Beginning
  <2> QED BY <2>1, <2>2 DEF Hear
<1>4. Beginning(g, t)
  <2>1. Len(g) \in Nat /\ Len(g) <= Len(s) /\ \A k \in 1 .. Len(g) : g[k] = s[k]
    BY <1>3 DEF Beginning
  <2> QED BY <1>1, <1>2, <2>1 DEF Beginning
<1>5. s = SubSeq(t, 1, Len(s)) /\ Len(s) \in 0 .. Len(t)
  <2> DEFINE n == Len(s)
             a == SubSeq(t, 1, n)
  <2>1. n \in 0 .. Len(t)
    BY <1>1, <1>2
  <2>2. a \in Seq(S) /\ Len(a) = n /\ Has(t, 0, a)
    BY <1>2, <2>1, HasCut
  <2> HIDE DEF a
  <2>3. \A k \in 1 .. n : a[k] = s[k]
    BY <1>1, <1>2, <2>2 DEF Has
  <2>4. a = s
    <3> HIDE DEF n
    <3>1. Len(s) = n
      BY DEF n
    <3> QED BY <2>2, <2>3, <3>1, SeqEqual
  <2> QED BY <2>1, <2>4 DEF a
<1> QED BY <1>2, <1>3, <1>4, <1>5

\* Both conversations go on.
LEMMA Talked ==
    ASSUME Contents, Alike, Talk, inbound' \in Seq(Byte), outbound' \in Seq(Byte)
    PROVE  Contents' /\ Alike'
<1>1. said' \in Seq(Messages) /\ heard' \in Seq(Messages) /\ Beginning(heard', said')
  BY Talks DEF Contents, Alike, Talk
<1>2. requested' \in Seq(Asks) /\ asked' \in Seq(Asks) /\ Beginning(asked', requested')
  BY Talks DEF Contents, Alike, Talk
<1> QED BY <1>1, <1>2 DEF Contents, Alike

\* A set of numbers that is not empty and bounded has a greatest one.
LEMMA Greatest ==
    ASSUME NEW n \in Nat, NEW T, T \subseteq 0 .. n, T # {}
    PROVE  \E m \in T : \A k \in T : k <= m
<1> DEFINE U == {n - k : k \in T}
<1>1. U \subseteq Nat /\ U # {}
  <2>1. \A k \in T : n - k \in Nat
    OBVIOUS
  <2> QED BY <2>1
<1>2. PICK u \in U : \A v \in U : u <= v
  <2> HIDE DEF U
  <2> QED BY <1>1, Least
<1>3. PICK m \in T : u = n - m
  BY <1>2
<1>4. \A k \in T : n - m <= n - k
  BY <1>2, <1>3
<1> QED BY <1>3, <1>4

\* The bitfields that were heard.
FieldsIn(s, n) == {k \in DOMAIN s : k <= n /\ s[k].type = Bitfield}
LastIn(set) == CHOOSE k \in set : \A j \in set : j <= k
Pictured(s, n) == IF FieldsIn(s, n) = {} THEN {} ELSE s[LastIn(FieldsIn(s, n))].pieces

\* The invariant in terms of the last bitfield that was heard.
LEMMA AvailableIs ==
    AvailableAsSaid <=>
        \A i \in 0 .. Len(peer.available) : Get(peer.available, i) <=> i \in Pictured(said, Len(heard))
BY DEF AvailableAsSaid, Pictured, LastIn, FieldsIn

\* There is a last bitfield, if there is one.
LEMMA LastInIs ==
    ASSUME NEW s \in Seq(Messages), NEW n, FieldsIn(s, n) # {}
    PROVE  LastIn(FieldsIn(s, n)) \in FieldsIn(s, n) /\ \A j \in FieldsIn(s, n) : j <= LastIn(FieldsIn(s, n))
<1> DEFINE F == FieldsIn(s, n)
<1>1. F \subseteq 0 .. Len(s) /\ Len(s) \in Nat
  BY DEF FieldsIn
<1> HIDE DEF F
<1>2. \E m \in F : \A k \in F : k <= m
  BY <1>1, Greatest DEF F
<1> QED BY <1>2 DEF LastIn, F

\* More that is said, and a message that is no bitfield, change nothing.
LEMMA PicturedSame ==
    ASSUME NEW s \in Seq(Messages), NEW t \in Seq(Messages), NEW n \in Nat, NEW m \in Nat,
           Len(s) <= Len(t), \A k \in 1 .. Len(s) : t[k] = s[k], n <= Len(s),
           m = n \/ (m = n + 1 /\ m <= Len(s) /\ s[m].type # Bitfield)
    PROVE  Pictured(t, m) = Pictured(s, n)
<1>1. FieldsIn(t, m) = FieldsIn(s, n)
  <2>1. DOMAIN s = 1 .. Len(s) /\ DOMAIN t = 1 .. Len(t) /\ Len(s) \in Nat /\ Len(t) \in Nat
    OBVIOUS
  <2>2. ASSUME NEW k \in FieldsIn(t, m) PROVE k \in FieldsIn(s, n)
    <3>1. k \in 1 .. Len(t) /\ k <= m /\ t[k].type = Bitfield
      BY <2>1 DEF FieldsIn
    <3>2. k \in 1 .. Len(s) /\ s[k].type = Bitfield
      BY <2>1, <3>1
    <3>3. k <= n
      BY <2>1, <3>1, <3>2
    <3> QED BY <2>1, <3>2, <3>3 DEF FieldsIn
  <2>3. ASSUME NEW k \in FieldsIn(s, n) PROVE k \in FieldsIn(t, m)
    <3>1. k \in 1 .. Len(s) /\ k <= n /\ s[k].type = Bitfield
      BY <2>1 DEF FieldsIn
    <3>2. k \in 1 .. Len(t) /\ k <= m /\ t[k].type = Bitfield
      BY <2>1, <3>1
    <3> QED BY <2>1, <3>2 DEF FieldsIn
  <2> QED BY <2>2, <2>3
<1>2. ASSUME FieldsIn(s, n) # {} PROVE t[LastIn(FieldsIn(s, n))] = s[LastIn(FieldsIn(s, n))]
  <2>1. LastIn(FieldsIn(s, n)) \in DOMAIN s
    BY <1>2, LastInIs DEF FieldsIn
  <2> QED BY <2>1
<1> QED BY <1>1, <1>2 DEF Pictured

\* A bitfield replaces the one before.
LEMMA PicturedNext ==
    ASSUME NEW s \in Seq(Messages), NEW n \in Nat, n + 1 <= Len(s), s[n + 1].type = Bitfield
    PROVE  Pictured(s, n + 1) = s[n + 1].pieces
<1> DEFINE m == n + 1
           F == FieldsIn(s, m)
<1>1. m \in 1 .. Len(s) /\ DOMAIN s = 1 .. Len(s) /\ m <= m
  OBVIOUS
<1> HIDE DEF m
<1>2. m \in F
  BY <1>1 DEF FieldsIn, m
<1>3. LastIn(F) \in F /\ m <= LastIn(F)
  BY <1>2, LastInIs
<1>4. LastIn(F) <= m /\ LastIn(F) \in 1 .. Len(s)
  BY <1>1, <1>3 DEF FieldsIn
<1>5. LastIn(F) = m
  <2> HIDE DEF F
  <2> QED BY <1>1, <1>3, <1>4
<1> QED BY <1>2, <1>5 DEF Pictured, m

----------------------------------------------------------------------------
(* The steps of the remote.                                                *)

\* What the peer has heard and made of it stays right when more is said.
LEMMA Kept ==
    ASSUME Inv, Talk, heard' = heard, inbound' \in Seq(Byte), outbound' \in Seq(Byte),
           peer'.available = peer.available, peer'.blocks = peer.blocks,
           peer'.remote_id = peer.remote_id \/ peer'.remote_id = RemoteId,
           Fields', PeerTyped', Outgoing', Incoming'
    PROVE  Inv'
<1>1. Contents' /\ Alike'
  BY Talked DEF Inv, Streams
<1>2. AvailableAsSaid'
  <2> DEFINE n == Len(heard)
  <2>1. n \in Nat /\ n <= Len(said) /\ said \in Seq(Messages) /\ said' \in Seq(Messages)
    BY <1>1 DEF Inv, Streams, Contents, Alike, Beginning
  <2>2. Len(said) <= Len(said') /\ \A k \in 1 .. Len(said) : said'[k] = said[k]
    <3>1. CASE said' = said
      BY <2>1, <3>1
    <3>2. ASSUME NEW m \in Messages, said' = Append(said, m)
          PROVE  Len(said) <= Len(said') /\ \A k \in 1 .. Len(said) : said'[k] = said[k]
      BY <2>1, <3>2
    <3> QED BY <3>1, <3>2 DEF Talk, Say
  <2>3. Pictured(said', n) = Pictured(said, n)
    <3> HIDE DEF n
    <3> QED BY <2>1, <2>2, PicturedSame
  <2>4. \A i \in 0 .. Len(peer.available) : Get(peer.available, i) <=> i \in Pictured(said, n)
    BY AvailableIs DEF Inv
  <2>5. \A i \in 0 .. Len(peer'.available) : Get(peer'.available, i) <=> i \in Pictured(said', Len(heard'))
    BY <2>3, <2>4
  <2>6. AvailableAsSaid' <=>
          \A i \in 0 .. Len(peer'.available) : Get(peer'.available, i) <=> i \in Pictured(said', Len(heard'))
    BY DEF AvailableAsSaid, Pictured, LastIn, FieldsIn
  <2> QED BY <2>5, <2>6
<1>3. BlocksHoldTorrent' /\ KnowsRemote'
  BY DEF Inv, BlocksHoldTorrent, KnowsRemote
<1> QED BY <1>1, <1>2, <1>3 DEF Inv, Streams

\* The remote does not change the peer.
LEMMA PeerWaits ==
    ASSUME PeerTyped, peer' = peer
    PROVE  PeerTyped'
BY DEF PeerTyped

\* The remote sends its handshake.
LEMMA Greets ==
    ASSUME Inv, RemoteGreets
    PROVE  Inv' /\ Talk
<1>1. /\ ~remote.greeted /\ remote' = [remote EXCEPT !.greeted = TRUE]
      /\ inbound' = inbound \o Serialise(RemoteId)
      /\ peer' = peer /\ heard' = heard /\ requested' = requested
      /\ outbound' = outbound /\ said' = said /\ asked' = asked
  BY DEF RemoteGreets, PeerUnchanged
<1>2. Fields' /\ remote'.greeted /\ remote'.met = remote.met
  BY <1>1 DEF Inv, Streams, Fields
<1>3. Talk
  BY <1>1 DEF Talk, Say, Hear
<1>4. Outgoing'
  BY <1>1, <1>2, WritesNothing DEF Inv, Streams
<1>5. /\ inbound = << >> /\ said = << >> /\ heard = << >>
      /\ peer.at = "stopped" \/ (peer.at = "next" /\ peer.want = HandshakeSize)
  BY <1>1 DEF Inv, Streams, Incoming
<1>6. inbound' \in Seq(Byte)
  BY <1>1, <1>5, ConcatEmptySeq, HandshakeSizes
<1>7. Incoming'
  BY <1>1, <1>2, <1>5, ComesFirst DEF Incoming
<1>8. PeerTyped' /\ outbound' \in Seq(Byte)
  BY <1>1, PeerWaits DEF Inv, Streams, Contents
<1> QED BY <1>1, <1>2, <1>3, <1>4, <1>6, <1>7, <1>8, Kept

\* One more packet, with a message in it or none.
LEMMA Sends ==
    ASSUME Inv, Open, remote.greeted, NEW body \in Seq(Byte), Len(body) \in Word,
           \/ said' = said /\ body = << >>
           \/ \E m \in Messages : said' = Append(said, m) /\ body = Body(m),
           inbound' = inbound \o Packet(body), PeerUnchanged, UNCHANGED <<outbound, asked>>,
           DOMAIN remote' = DOMAIN remote, remote'.greeted = remote.greeted,
           remote'.met = remote.met, remote'.cut = remote.cut
    PROVE  Inv' /\ Talk
<1>1. /\ ~remote.cut /\ ~remote'.cut /\ remote'.greeted /\ Fields'
      /\ peer' = peer /\ heard' = heard /\ requested' = requested
      /\ outbound' = outbound /\ asked' = asked
  BY DEF Open, PeerUnchanged, Inv, Streams, Fields
<1>2. Talk
  BY <1>1 DEF Talk, Say, Hear
<1>3. Outgoing'
  BY <1>1, WritesNothing DEF Inv, Streams
<1>4. inbound' \in Seq(Byte)
  BY PacketPlaces, HasBoth DEF Inv, Streams, Contents
<1>5. said' \in Seq(Messages)
  BY <1>2, Talks DEF Talk, Inv, Streams, Contents, Alike
<1>6. Incoming'
  <2>1. CASE peer.at = "stopped"
    BY <1>1, <2>1 DEF Incoming
  <2>2. CASE peer.at # "stopped"
    <3>1. Coming /\ Contents
      BY <2>2 DEF Inv, Streams, Incoming
    <3>2. Coming'
      BY <1>1, <1>5, <3>1, ComesMore
    <3> QED BY <1>1, <3>2 DEF Incoming
  <2> QED BY <2>1, <2>2
<1>7. PeerTyped' /\ outbound' \in Seq(Byte)
  BY <1>1, PeerWaits DEF Inv, Streams, Contents
<1> QED BY <1>1, <1>2, <1>3, <1>4, <1>6, <1>7, Kept

\* The remote says one more message.
LEMMA SaysMessage ==
    ASSUME Inv, NEW m \in Messages, Says(m)
    PROVE  Inv' /\ Talk
<1>1. Body(m) \in Seq(Byte) /\ Len(Body(m)) \in Word
  BY MessageSaid DEF Tells
<1>2. said' = Append(said, m) /\ remote' = remote /\ Open /\ remote.greeted /\ PeerUnchanged
      /\ inbound' = inbound \o Packet(Body(m)) /\ UNCHANGED <<outbound, asked>>
  BY DEF Says
<1> QED BY <1>1, <1>2, Sends

\* The remote answers a request with the block it asks for.
LEMMA Answers ==
    ASSUME Inv, RemoteAnswers
    PROVE  Inv' /\ Talk
<1>1. PICK k \in DOMAIN asked :
         /\ asked[k].type = Request
         /\ Says([type |-> Piece, piece |-> asked[k].piece, offset |-> asked[k].offset,
                  data |-> DataOf(asked[k].piece, asked[k].offset, asked[k].length)])
  BY DEF RemoteAnswers
<1>2. asked[k] \in Asks
  BY DEF Inv, Streams, Contents
<1>3. PICK r \in Pieces \X BlockIdx : asked[k] = Asking(r)
  BY <1>1, <1>2 DEF Asks, Request, Interested
<1>4. asked[k].piece = r[1] /\ asked[k].offset = r[2] * BLOCK_SIZE /\ asked[k].length = BlockLength(r[2])
  BY <1>3 DEF Asking
<1>5. Says(BlockSaid(r[1], r[2])) /\ r[1] \in Pieces /\ r[2] \in BlockIdx
  BY <1>1, <1>3, <1>4 DEF BlockSaid
<1>6. BlockSaid(r[1], r[2]) \in Messages
  BY <1>5 DEF Messages
<1> QED BY <1>5, <1>6, SaysMessage

\* The remote sends a message of length zero.
LEMMA KeepsAlive ==
    ASSUME Inv, RemoteKeepsAlive
    PROVE  Inv' /\ Talk
<1>1. /\ Open /\ remote.greeted /\ remote' = [remote EXCEPT !.keepalives = @ + 1]
      /\ inbound' = inbound \o Packet(<< >>) /\ PeerUnchanged
      /\ UNCHANGED <<outbound, asked>> /\ said' = said
  BY DEF RemoteKeepsAlive
<1>2. << >> \in Seq(Byte) /\ Len(<< >>) \in Word
  BY Words
<1>3. /\ DOMAIN remote' = DOMAIN remote /\ remote'.greeted = remote.greeted
      /\ remote'.met = remote.met /\ remote'.cut = remote.cut
  BY <1>1 DEF Inv, Streams, Fields
<1> QED BY <1>1, <1>2, <1>3, Sends

\* The remote reads the handshake, or the next request.
LEMMA Hearing ==
    ASSUME Inv, RemoteHears
    PROVE  Inv' /\ Talk
<1>1. /\ peer' = peer /\ heard' = heard /\ requested' = requested
      /\ inbound' = inbound /\ said' = said
  BY DEF RemoteHears, PeerUnchanged
<1>2. Fields' /\ remote'.greeted = remote.greeted /\ remote'.cut = remote.cut
  <2>1. remote' = remote \/ remote' = [remote EXCEPT !.met = TRUE]
    <3>1. CASE remote.met
      BY <3>1 DEF RemoteHears
    <3>2. CASE ~remote.met
      BY <3>2 DEF RemoteHears
    <3> QED BY <3>1, <3>2
  <2>2. DOMAIN remote = {"greeted", "met", "cut", "keepalives"} /\ Fields
    BY DEF Inv, Streams, Fields
  <2>3. DOMAIN remote' = DOMAIN remote /\ remote'.greeted = remote.greeted /\ remote'.cut = remote.cut
    BY <2>1, <2>2
  <2> QED BY <1>1, <2>2, <2>3 DEF Fields
<1>3. Outgoing' /\ outbound' \in Seq(Byte) /\ Hear(requested, asked, asked')
  BY HearsAsk DEF Inv, Streams, Fields, Alike, Beginning
<1>4. Talk
  BY <1>1, <1>3 DEF Talk, Say, Hear
<1>5. Incoming'
  BY <1>1, <1>2 DEF Inv, Streams, Incoming, Coming, InAt, Reads
<1>6. PeerTyped' /\ inbound' \in Seq(Byte)
  BY <1>1, PeerWaits DEF Inv, Streams, Contents
<1> QED BY <1>1, <1>2, <1>3, <1>4, <1>5, <1>6, Kept

\* The connection is cut.
LEMMA Cutting ==
    ASSUME Inv, Cut
    PROVE  Inv' /\ Talk
<1>1. PICK n \in 0 .. Len(inbound) : inbound' = SubSeq(inbound, 1, n)
  BY DEF Cut
<1>2. /\ peer' = peer /\ heard' = heard /\ requested' = requested
      /\ outbound' = outbound /\ said' = said /\ asked' = asked
      /\ remote' = [remote EXCEPT !.cut = TRUE]
  BY DEF Cut, PeerUnchanged
<1>3. Fields' /\ remote'.cut /\ remote'.greeted = remote.greeted /\ remote'.met = remote.met
  BY <1>2 DEF Inv, Streams, Fields
<1>4. Talk
  BY <1>2 DEF Talk, Say, Hear
<1>5. Outgoing'
  BY <1>2, <1>3, WritesNothing DEF Inv, Streams
<1>6. inbound' \in Seq(Byte)
  BY <1>1, HasCut DEF Inv, Streams, Contents
<1>7. Incoming'
  <2>1. CASE remote.greeted
    <3>1. CASE peer.at = "stopped"
      BY <1>2, <1>3, <2>1, <3>1 DEF Incoming
    <3>2. CASE peer.at # "stopped"
      <4>1. Coming /\ Contents
        BY <2>1, <3>2 DEF Inv, Streams, Incoming
      <4>2. Coming'
        BY <1>1, <1>2, <1>3, <4>1, ComesCut
      <4> QED BY <1>3, <2>1, <4>2 DEF Incoming
    <3> QED BY <3>1, <3>2
  <2>2. CASE ~remote.greeted
    <3>1. Incoming /\ inbound = << >>
      BY <2>2 DEF Inv, Streams, Incoming
    <3>2. Len(inbound) = 0 /\ n = 0
      BY <1>1, <3>1
    <3>3. inbound' = << >>
      BY <1>1, <3>1, <3>2
    <3> QED BY <1>2, <1>3, <2>2, <3>1, <3>3 DEF Incoming
  <2> QED BY <2>1, <2>2
<1>8. PeerTyped' /\ outbound' \in Seq(Byte)
  BY <1>2, PeerWaits DEF Inv, Streams, Contents
<1> QED BY <1>2, <1>3, <1>4, <1>5, <1>6, <1>7, <1>8, Kept

\* Every step of the remote keeps the invariant.
LEMMA RemoteStep ==
    ASSUME Inv, RemoteRuns
    PROVE  Inv' /\ Talk
<1>1. ASSUME RemoteTalks PROVE Inv' /\ Talk
  <2>1. PICK type \in Control \ {None} : Says([type |-> type])
    BY <1>1 DEF RemoteTalks
  <2>2. [type |-> type] \in Messages
    BY DEF Messages
  <2> QED BY <2>1, <2>2, SaysMessage
<1>2. ASSUME RemoteHas PROVE Inv' /\ Talk
  <2>1. PICK set \in Bitfields : Says([type |-> Bitfield, pieces |-> set])
    BY <1>2 DEF RemoteHas
  <2>2. [type |-> Bitfield, pieces |-> set] \in Messages
    BY DEF Messages
  <2> QED BY <2>1, <2>2, SaysMessage
<1> QED BY <1>1, <1>2, Greets, KeepsAlive, Hearing, Answers, Cutting DEF RemoteRuns

----------------------------------------------------------------------------
(* The steps of the peer.                                                  *)

\* A read completes only behind the handshake of the remote.
LEMMA Greeted ==
    ASSUME Inv, peer.at # "stopped", Len(inbound) >= peer.want
    PROVE  remote.greeted /\ Coming /\ Contents /\ peer.want \in Nat
<1>1. Contents /\ Incoming /\ peer.want \in Nat
  BY DEF Inv, Streams, PeerTyped
<1>2. ASSUME ~remote.greeted PROVE FALSE
  <2>1. inbound = << >> /\ peer.want = HandshakeSize
    BY <1>1, <1>2 DEF Incoming
  <2>2. Len(inbound) = 0 /\ HandshakeSize \in Nat \ {0}
    BY <2>1, HandshakeSizes
  <2> QED BY <2>1, <2>2
<1> QED BY <1>1, <1>2 DEF Incoming

\* The peer writes a request.
LEMMA Asked ==
    ASSUME Inv, NEW r \in Asks, requested' = Append(requested, r), asked' = asked, remote' = remote,
           outbound' = outbound \o Packet(AskBody(r))
    PROVE  Outgoing' /\ outbound' \in Seq(Byte)
<1>1. Outgoing /\ Contents /\ Len(asked) <= Len(requested)
  BY DEF Inv, Streams, Alike, Beginning
<1>2. Outgoing'
  BY <1>1, WritesAsk
<1>3. Packet(AskBody(r)) \in Seq(Byte)
  BY AskUnderstood, PacketPlaces
<1> QED BY <1>1, <1>2, <1>3, HasBoth DEF Contents

\* async_next keeps the invariant.
LEMMA NextStep ==
    ASSUME Inv, AsyncNext
    PROVE  Inv' /\ Talk
<1> DEFINE ask == [type |-> Interested]
<1>1. /\ peer.at = "next" /\ Len(inbound) >= peer.want /\ Consumed
      /\ peer' = [peer EXCEPT !.remote_id = ParseHandshake(Buffer).id, !.at = "read_len", !.want = WordBytes]
      /\ outbound' = outbound \o Serialize(Interested, << >>)
      /\ requested' = Append(requested, ask)
      /\ remote' = remote /\ said' = said /\ asked' = asked /\ heard' = heard
  BY DEF AsyncNext, Full, RemoteUnchanged
<1>2. remote.greeted /\ Coming /\ Contents
  BY <1>1, Greeted
<1>3. /\ Fields' /\ peer'.at = "read_len" /\ peer'.want = WordBytes
      /\ peer'.remote_id = ParseHandshake(Buffer).id /\ peer'.available = peer.available
      /\ peer'.blocks = peer.blocks /\ peer'.choked = peer.choked
  BY <1>1 DEF Inv, Streams, Fields
<1>4. Coming' /\ inbound' \in Seq(Byte) /\ Buffer = Serialise(RemoteId)
  BY <1>1, <1>2, <1>3, ReadsHandshake
<1>5. peer'.remote_id = RemoteId
  <2>1. RemoteId \in Seq(Byte)
    BY WireAssumption
  <2> QED BY <1>3, <1>4, <2>1, IdParsed
<1>6. ask \in Asks
  BY DEF Asks
<1>7. outbound' = outbound \o Packet(AskBody(ask))
  BY <1>1, AskWritten
<1>8. Talk
  BY <1>1, <1>6 DEF Talk, Say, Hear
<1> HIDE DEF ask
<1>9. Outgoing' /\ outbound' \in Seq(Byte)
  BY <1>1, <1>6, <1>7, Asked
<1>10. Incoming'
  BY <1>1, <1>2, <1>4 DEF Incoming
<1>11. PeerTyped'
  BY <1>3, Sizes DEF Inv, PeerTyped
<1> QED BY <1>1, <1>3, <1>4, <1>5, <1>8, <1>9, <1>10, <1>11, Kept

\* async_read_len keeps the invariant.
LEMMA LengthStep ==
    ASSUME Inv, AsyncReadLen
    PROVE  Inv' /\ Talk
<1> DEFINE len == ntohl[Load(Buffer)]
<1>1. /\ peer.at = "read_len" /\ Len(inbound) >= peer.want /\ Consumed
      /\ peer' = IF len = 0 THEN peer ELSE [peer EXCEPT !.at = "handle_message", !.want = len]
      /\ remote' = remote /\ said' = said /\ asked' = asked
      /\ outbound' = outbound /\ heard' = heard /\ requested' = requested
  BY DEF AsyncReadLen, Full, RemoteUnchanged
<1> HIDE DEF len
<1>2. remote.greeted /\ Coming /\ Contents /\ peer.want \in Nat
  BY <1>1, Greeted
<1>3. /\ Fields' /\ peer'.remote_id = peer.remote_id /\ peer'.available = peer.available
      /\ peer'.blocks = peer.blocks /\ peer'.choked = peer.choked
      /\ \/ len = 0 /\ peer' = peer
         \/ len # 0 /\ peer'.at = "handle_message" /\ peer'.want = len
  <2>1. CASE len = 0
    BY <1>1, <2>1 DEF Inv, Streams, Fields
  <2>2. CASE len # 0
    BY <1>1, <2>2 DEF Inv, Streams, Fields
  <2> QED BY <2>1, <2>2
<1>4. Coming' /\ inbound' \in Seq(Byte) /\ len \in Nat
  BY <1>1, <1>2, <1>3, ReadsLength DEF len
<1>5. Talk
  BY <1>1 DEF Talk, Say, Hear
<1>6. Outgoing' /\ outbound' \in Seq(Byte)
  BY <1>1, WritesNothing DEF Inv, Streams, Contents
<1>7. Incoming'
  BY <1>1, <1>2, <1>4 DEF Incoming
<1>8. PeerTyped'
  BY <1>1, <1>2, <1>3, <1>4 DEF Inv, PeerTyped
<1> QED BY <1>1, <1>3, <1>4, <1>5, <1>6, <1>7, <1>8, Kept

\* A read that fails keeps the invariant.
LEMMA FailStep ==
    ASSUME Inv, ReadFails
    PROVE  Inv' /\ Talk
<1>1. /\ peer' = [peer EXCEPT !.at = "stopped"] /\ remote' = remote /\ said' = said /\ asked' = asked
      /\ inbound' = inbound /\ outbound' = outbound /\ heard' = heard /\ requested' = requested
  BY DEF ReadFails, RemoteUnchanged
<1>2. /\ Fields' /\ peer'.at = "stopped" /\ peer'.want = peer.want
      /\ peer'.remote_id = peer.remote_id /\ peer'.available = peer.available
      /\ peer'.blocks = peer.blocks /\ peer'.choked = peer.choked
  BY <1>1 DEF Inv, Streams, Fields
<1>3. Talk
  BY <1>1 DEF Talk, Say, Hear
<1>4. Outgoing' /\ outbound' \in Seq(Byte) /\ inbound' \in Seq(Byte)
  BY <1>1, WritesNothing DEF Inv, Streams, Contents
<1>5. Incoming'
  BY <1>1, <1>2 DEF Inv, Streams, Incoming
<1>6. PeerTyped'
  BY <1>1, <1>2 DEF Inv, PeerTyped
<1> QED BY <1>1, <1>2, <1>3, <1>4, <1>5, <1>6, Kept

\* What the message m makes of what is available, and of the blocks.
LEMMA FieldHandled ==
    ASSUME Inv, NEW m, m = said[Len(heard) + 1], Len(heard) + 1 <= Len(said), m \in Messages,
           NEW bytes, Tells(bytes, m), said' = said, heard' = Append(heard, m),
           peer'.available = IF m.type = Bitfield THEN CopyFrom(peer.available, From(bytes, 2))
                             ELSE peer.available
    PROVE  /\ AvailableAsSaid' /\ peer'.available \in Seq(BOOLEAN)
           /\ Len(peer'.available) % BitsPerByte = 0
<1> DEFINE n == Len(heard)
           p == n + 1
<1>1. heard \in Seq(Messages) /\ said \in Seq(Messages) /\ n \in Nat /\ Len(heard') = n + 1
      /\ n <= Len(said) /\ p \in Nat /\ p <= Len(said)
  BY DEF Inv, Streams, Contents
<1>2. AvailableAsSaid' <=>
        \A i \in 0 .. Len(peer'.available) : Get(peer'.available, i) <=> i \in Pictured(said, p)
  <2>1. AvailableAsSaid' <=>
          \A i \in 0 .. Len(peer'.available) : Get(peer'.available, i) <=> i \in Pictured(said', Len(heard'))
    BY DEF AvailableAsSaid, Pictured, LastIn, FieldsIn
  <2> QED BY <1>1, <2>1
<1>3. CASE m.type = Bitfield
  <2> DEFINE set == m.pieces
             field == FieldOf(set)
  <2>1. peer'.available = Bits(field) /\ set \subseteq Pieces
    BY <1>3 DEF Tells, CopyFrom
  <2>2. field \in Seq(Byte) /\ \A i \in Nat : Get(Bits(field), i) <=> i \in set
    BY <2>1, FieldRoundTrip
  <2> HIDE DEF field
  <2>3. Bits(field) \in Seq(BOOLEAN) /\ Len(Bits(field)) % BitsPerByte = 0
    BY <2>2, BitsType
  <2>4. Pictured(said, p) = set
    BY <1>1, <1>3, PicturedNext
  <2>5. \A i \in 0 .. Len(peer'.available) : Get(peer'.available, i) <=> i \in Pictured(said, p)
    BY <2>1, <2>2, <2>4
  <2> QED BY <1>2, <2>1, <2>3, <2>5
<1>4. CASE m.type # Bitfield
  <2>1. peer'.available = peer.available
    BY <1>4
  <2>2. Pictured(said, p) = Pictured(said, n)
    <3>1. said[p].type # Bitfield /\ p = n + 1
      BY <1>4
    <3> HIDE DEF n, p
    <3> QED BY <1>1, <3>1, PicturedSame
  <2>3. \A i \in 0 .. Len(peer.available) : Get(peer.available, i) <=> i \in Pictured(said, n)
    BY AvailableIs DEF Inv
  <2> QED BY <1>2, <2>1, <2>2, <2>3 DEF Inv, PeerTyped
<1> QED BY <1>3, <1>4

\* A block that is accepted is the torrent's, and in its place.
LEMMA BlockHandled ==
    ASSUME Inv, NEW m, NEW bytes, Tells(bytes, m),
           peer'.blocks = IF m.type = Piece THEN Accept(peer.blocks, BlockIn(From(bytes, 2))) ELSE peer.blocks
    PROVE  BlocksHoldTorrent' /\ DOMAIN peer'.blocks = Pieces \X BlockIdx
<1> DEFINE old == peer.blocks
           new == peer'.blocks
<1>1. DOMAIN old = Pieces \X BlockIdx
      /\ \A i \in Pieces, b \in BlockIdx : old[<<i, b>>] \in {None, DataOf(i, b * BLOCK_SIZE, BlockLength(b))}
  BY DEF Inv, PeerTyped, BlocksHoldTorrent
<1>2. CASE new = old
  BY <1>1, <1>2 DEF BlocksHoldTorrent
<1>3. CASE new # old
  <2>1. m.type = Piece /\ new = Accept(old, BlockIn(From(bytes, 2)))
    BY <1>3
  <2>2. PICK i \in Pieces, b \in BlockIdx :
           BlockIn(From(bytes, 2)) = [piece |-> i, block |-> b, data |-> DataOf(i, b * BLOCK_SIZE, BlockLength(b))]
    BY <2>1 DEF Tells
  <2> DEFINE data == DataOf(i, b * BLOCK_SIZE, BlockLength(b))
             msg == [piece |-> i, block |-> b, data |-> data]
  <2>3. new = Accept(old, msg)
    BY <2>1, <2>2
  <2>4. msg.piece = i /\ msg.block = b /\ msg.data = data
    OBVIOUS
  <2> HIDE DEF msg
  <2>5. new = [old EXCEPT ![<<i, b>>] = data]
    BY <1>3, <2>3, <2>4 DEF Accept
  <2> HIDE DEF old, new
  <2>6. DOMAIN new = Pieces \X BlockIdx
    BY <1>1, <2>5
  <2>7. ASSUME NEW j \in Pieces, NEW c \in BlockIdx
        PROVE  new[<<j, c>>] \in {None, DataOf(j, c * BLOCK_SIZE, BlockLength(c))}
    <3>1. <<j, c>> \in DOMAIN old
      BY <1>1
    <3>2. CASE j = i /\ c = b
      <4>1. new[<<j, c>>] = data
        BY <2>5, <3>1, <3>2
      <4> QED BY <3>2, <4>1 DEF data
    <3>3. CASE ~(j = i /\ c = b)
      <4>1. new[<<j, c>>] = old[<<j, c>>]
        BY <2>5, <3>1, <3>3
      <4> QED BY <1>1, <4>1
    <3> QED BY <3>2, <3>3
  <2> QED BY <2>6, <2>7 DEF BlocksHoldTorrent, new
<1> QED BY <1>2, <1>3

\* The fields that async_handle_message sets.
LEMMA HandledIs ==
    ASSUME Fields, NEW type, NEW payload
    PROVE  /\ DOMAIN Handled(type, payload) = DOMAIN peer
           /\ Handled(type, payload).at = "read_len" /\ Handled(type, payload).want = WordBytes
           /\ Handled(type, payload).remote_id = peer.remote_id
           /\ Handled(type, payload).choked \in {peer.choked, TRUE, FALSE}
           /\ Handled(type, payload).available =
                 IF type = Bitfield THEN CopyFrom(peer.available, payload) ELSE peer.available
           /\ Handled(type, payload).blocks =
                 IF type = Piece THEN Accept(peer.blocks, BlockIn(payload)) ELSE peer.blocks
BY DEF Fields, Handled

\* async_handle_message keeps the invariant.
LEMMA BodyStep ==
    ASSUME Inv, AsyncHandleMessage
    PROVE  Inv' /\ Talk
<1> DEFINE m == said[Len(heard) + 1]
           type == Buffer[1]
           payload == From(Buffer, 2)
<1>1. /\ peer.at = "handle_message" /\ Len(inbound) >= peer.want /\ Consumed
      /\ remote' = remote /\ said' = said /\ asked' = asked
  BY DEF AsyncHandleMessage, Full, RemoteUnchanged
<1>2. remote.greeted /\ Coming /\ Contents /\ Fields
  BY <1>1, Greeted DEF Inv, Streams
<1>3. /\ inbound' \in Seq(Byte) /\ Len(heard) + 1 <= Len(said) /\ m \in Messages /\ Tells(Buffer, m)
      /\ heard' = Append(heard, m) /\ peer'.at = "read_len" /\ peer'.want = WordBytes => Coming'
  BY <1>1, <1>2, ReadsBody
<1> HIDE DEF m
<1>4. type = m.type /\ Meaning(type, payload) = m
  BY <1>3 DEF Tells
<1>5. CASE ~IsKnown(type)
  <2>1. /\ peer' = [peer EXCEPT !.at = "stopped"]
        /\ outbound' = outbound /\ heard' = heard /\ requested' = requested
    BY <1>5 DEF AsyncHandleMessage
  <2>2. /\ Fields' /\ peer'.at = "stopped" /\ peer'.want = peer.want
        /\ peer'.remote_id = peer.remote_id /\ peer'.available = peer.available
        /\ peer'.blocks = peer.blocks /\ peer'.choked = peer.choked
    BY <1>1, <1>2, <2>1 DEF Fields
  <2>3. Talk
    BY <1>1, <2>1 DEF Talk, Say, Hear
  <2>4. Outgoing' /\ outbound' \in Seq(Byte)
    BY <1>1, <2>1, WritesNothing DEF Inv, Streams, Contents
  <2>5. Incoming'
    BY <1>1, <1>2, <2>2 DEF Incoming
  <2>6. PeerTyped'
    BY <2>2 DEF Inv, PeerTyped
  <2> QED BY <1>3, <2>1, <2>2, <2>3, <2>4, <2>5, <2>6, Kept
<1>6. CASE IsKnown(type)
  <2>1. /\ heard' = Append(heard, Meaning(type, payload)) /\ peer' = Handled(type, payload)
        /\ \/ requested' = requested /\ outbound' = outbound
           \/ \E r \in Requests(peer') : /\ requested' = Append(requested, Asking(r))
                                         /\ outbound' = outbound \o RequestBlock(r[1], r[2])
    BY <1>6 DEF AsyncHandleMessage
  <2>2. heard' = Append(heard, m)
    BY <1>4, <2>1
  <2>3. /\ DOMAIN peer' = DOMAIN peer /\ peer'.at = "read_len" /\ peer'.want = WordBytes
        /\ peer'.remote_id = peer.remote_id /\ peer'.choked \in {peer.choked, TRUE, FALSE}
        /\ peer'.available = IF m.type = Bitfield THEN CopyFrom(peer.available, payload) ELSE peer.available
        /\ peer'.blocks = IF m.type = Piece THEN Accept(peer.blocks, BlockIn(payload)) ELSE peer.blocks
    <3> HIDE DEF type, payload
    <3> DEFINE new == Handled(type, payload)
    <3>1. /\ DOMAIN new = DOMAIN peer /\ new.at = "read_len" /\ new.want = WordBytes
          /\ new.remote_id = peer.remote_id /\ new.choked \in {peer.choked, TRUE, FALSE}
          /\ new.available = IF type = Bitfield THEN CopyFrom(peer.available, payload) ELSE peer.available
          /\ new.blocks = IF type = Piece THEN Accept(peer.blocks, BlockIn(payload)) ELSE peer.blocks
      BY <1>2, HandledIs
    <3>2. peer' = new /\ type = m.type
      BY <1>4, <2>1
    <3> HIDE DEF new
    <3> QED BY <3>1, <3>2
  <2>4. Hear(said, heard, heard') /\ Say(said, said', Messages)
    BY <1>1, <1>3, <2>2 DEF Hear, Say, m
  <2>5. Hear(requested, asked, asked')
    BY <1>1 DEF Hear
  <2>6. Say(requested, requested', Asks) /\ Outgoing' /\ outbound' \in Seq(Byte)
    <3>1. CASE requested' = requested /\ outbound' = outbound
      BY <1>1, <1>2, <3>1, WritesNothing DEF Say, Inv, Streams, Contents
    <3>2. ASSUME NEW r \in Requests(peer'), requested' = Append(requested, Asking(r)),
                 outbound' = outbound \o RequestBlock(r[1], r[2])
          PROVE  Say(requested, requested', Asks) /\ Outgoing' /\ outbound' \in Seq(Byte)
      <4>1. r \in Pieces \X BlockIdx
        BY DEF Requests
      <4>2. r[1] \in Pieces /\ r[2] \in BlockIdx /\ r = <<r[1], r[2]>>
        BY <4>1
      <4>3. Asking(r) \in Asks
        BY <4>1 DEF Asks
      <4>4. RequestBlock(r[1], r[2]) = Packet(AskBody(Asking(r)))
        BY <4>2, AskWritten
      <4>5. Outgoing' /\ outbound' \in Seq(Byte)
        BY <1>1, <3>2, <4>3, <4>4, Asked
      <4> QED BY <3>2, <4>3, <4>5 DEF Say
    <3> QED BY <2>1, <3>1, <3>2
  <2>7. Talk
    BY <2>4, <2>5, <2>6 DEF Talk
  <2>8. Contents' /\ Alike'
    BY <1>3, <2>6, <2>7, Talked DEF Inv, Streams
  <2>9. Incoming'
    BY <1>1, <1>2, <1>3, <2>2, <2>3 DEF Incoming
  <2>10. /\ AvailableAsSaid' /\ peer'.available \in Seq(BOOLEAN)
         /\ Len(peer'.available) % BitsPerByte = 0
    BY <1>1, <1>3, <2>2, <2>3, FieldHandled DEF m
  <2>11. BlocksHoldTorrent' /\ DOMAIN peer'.blocks = Pieces \X BlockIdx
    BY <1>3, <2>3, BlockHandled
  <2>12. PeerTyped'
    BY <2>3, <2>10, <2>11, Sizes DEF Inv, PeerTyped
  <2>13. Fields' /\ KnowsRemote'
    BY <1>1, <1>2, <2>3 DEF Fields, Inv, KnowsRemote
  <2> QED BY <2>6, <2>7, <2>8, <2>9, <2>10, <2>11, <2>12, <2>13 DEF Inv, Streams
<1> QED BY <1>5, <1>6

----------------------------------------------------------------------------
(* The theorems.                                                           *)

\* The invariant holds when the connection begins.
LEMMA StartInv ==
    ASSUME Init
    PROVE  Inv
<1> DEFINE g == Serialise(peer_id)
           mark == [k \in 0 .. 0 |-> Len(g)]
           blocks == [r \in Pieces \X BlockIdx |-> None]
<1>1. /\ peer = [at |-> "next", want |-> HandshakeSize, choked |-> TRUE, available |-> << >>,
                 remote_id |-> None, blocks |-> blocks]
      /\ remote = [greeted |-> FALSE, met |-> FALSE, cut |-> FALSE, keepalives |-> 0]
      /\ inbound = << >> /\ outbound = g /\ said = << >> /\ heard = << >>
      /\ requested = << >> /\ asked = << >>
  BY DEF Init
<1>2. g \in Seq(Byte) /\ HandshakeSize \in Nat /\ BitsPerByte \in Nat \ {0}
  BY HandshakeSizes, Sizes
<1>3. blocks = [r \in Pieces \X BlockIdx |-> None]
  OBVIOUS
<1> HIDE DEF blocks
<1>4. /\ Fields /\ peer.at = "next" /\ peer.want = HandshakeSize /\ peer.choked /\ peer.choked \in BOOLEAN
      /\ peer.available = << >> /\ peer.remote_id = None /\ peer.blocks = blocks
      /\ ~remote.greeted /\ ~remote.met
  BY <1>1 DEF Fields
<1>5. Laid(g, g, << >>, mark)
  BY <1>2, LaidFirst
<1> HIDE DEF g, mark
<1>6. Contents /\ Alike
  BY <1>1, <1>2 DEF Contents, Alike, Beginning
<1>7. Outgoing
  <2>1. Has(g, 0, g) /\ Len(g) \in Nat
    BY <1>2 DEF Has
  <2>2. OutAt(g, << >>, mark)
    BY <1>1, <1>5 DEF OutAt, g
  <2> QED BY <1>1, <1>4, <2>1, <2>2 DEF Outgoing
<1>8. Incoming
  BY <1>1, <1>4 DEF Incoming
<1>9. PeerTyped
  <2>1. << >> \in Seq(BOOLEAN) /\ Len(<< >>) = 0 /\ 0 % BitsPerByte = 0
    BY <1>2
  <2> QED BY <1>2, <1>3, <1>4, <2>1 DEF PeerTyped
<1>10. KnowsRemote /\ BlocksHoldTorrent
  BY <1>3, <1>4 DEF KnowsRemote, BlocksHoldTorrent
<1>11. AvailableAsSaid
  <2>1. FieldsIn(said, Len(heard)) = {}
    BY <1>1 DEF FieldsIn
  <2>2. Pictured(said, Len(heard)) = {}
    BY <2>1 DEF Pictured
  <2>3. \A i \in 0 .. 0 : ~Get(<< >>, i)
    BY DEF Get
  <2>4. Len(peer.available) = 0
    BY <1>4
  <2> QED BY <1>4, <2>2, <2>3, <2>4, AvailableIs
<1> QED BY <1>4, <1>6, <1>7, <1>8, <1>9, <1>10, <1>11 DEF Inv, Streams

\* Every step keeps the invariant, and what is heard is the next of what was said.
LEMMA StepInv ==
    ASSUME Inv, [Next]_vars
    PROVE  Inv' /\ Talk
<1>1. CASE vars' = vars
  <2>1. /\ peer' = peer /\ remote' = remote /\ inbound' = inbound /\ outbound' = outbound
        /\ said' = said /\ heard' = heard /\ requested' = requested /\ asked' = asked
    BY <1>1 DEF vars
  <2>2. Talk
    BY <2>1 DEF Talk, Say, Hear
  <2>3. Fields' /\ PeerTyped' /\ inbound' \in Seq(Byte) /\ outbound' \in Seq(Byte)
    BY <2>1, PeerWaits DEF Inv, Streams, Fields, Contents
  <2>4. Outgoing'
    BY <2>1, WritesNothing DEF Inv, Streams
  <2>5. Incoming'
    BY <2>1 DEF Inv, Streams, Incoming, Coming, InAt, Reads
  <2> QED BY <2>1, <2>2, <2>3, <2>4, <2>5, Kept
<1>2. CASE Next
  BY <1>2, RemoteStep, NextStep, LengthStep, BodyStep, FailStep DEF Next, Runs
<1> QED BY <1>1, <1>2

\* The invariant holds always.
LEMMA Always == Spec => []Inv
<1>1. Init => Inv
  BY StartInv
<1>2. Inv /\ [Next]_vars => Inv'
  BY StepInv
<1> QED BY <1>1, <1>2, PTL DEF Spec

\* Whatever arrives when, the bytes on their way are bytes, the buffer has a
\* size, and what is available and accepted is of its kind.
THEOREM TypeCorrect == Spec => []TypeOK
<1>1. Inv => TypeOK
  <2> SUFFICES ASSUME Inv PROVE TypeOK
    OBVIOUS
  <2>1. ASSUME NEW i \in Pieces, NEW b \in BlockIdx
        PROVE  peer.blocks[<<i, b>>] = None \/ peer.blocks[<<i, b>>] \in Seq(Byte)
    <3>1. peer.blocks[<<i, b>>] \in {None, DataOf(i, b * BLOCK_SIZE, BlockLength(b))}
      BY DEF Inv, BlocksHoldTorrent
    <3> QED BY <3>1, BlockData
  <2>2. \A r \in Pieces \X BlockIdx : peer.blocks[r] = None \/ peer.blocks[r] \in Seq(Byte)
    BY <2>1
  <2> QED BY <2>2 DEF Inv, Streams, Contents, PeerTyped, TypeOK
<1> QED BY <1>1, Always, PTL

\* The id that async_next keeps is the remote's.
THEOREM RemoteKnown == Spec => []KnowsRemote
<1>1. Inv => KnowsRemote
  BY DEF Inv
<1> QED BY <1>1, Always, PTL

\* Bitfield::get says of a piece what the last bitfield that was heard says.
THEOREM AvailableTold == Spec => []AvailableAsSaid
<1>1. Inv => AvailableAsSaid
  BY DEF Inv
<1> QED BY <1>1, Always, PTL

\* A block that was accepted holds the bytes of the torrent at its place.
THEOREM BlocksRight == Spec => []BlocksHoldTorrent
<1>1. Inv => BlocksHoldTorrent
  BY DEF Inv
<1> QED BY <1>1, Always, PTL

\* The steps of both conversations are those of the abstract one.
LEMMA Conversing ==
    ASSUME Inv, Talk
    PROVE  /\ \E n \in 0 .. Len(said') : said = SubSeq(said', 1, n)
           /\ heard' = heard \/ (Len(heard) < Len(said) /\ heard' = Append(heard, said[Len(heard) + 1]))
           /\ \E n \in 0 .. Len(requested') : requested = SubSeq(requested', 1, n)
           /\ asked' = asked \/ (Len(asked) < Len(requested) /\ asked' = Append(asked, requested[Len(asked) + 1]))
<1>1. \E n \in 0 .. Len(said') : said = SubSeq(said', 1, n)
  <2>1. said \in Seq(Messages) /\ heard \in Seq(Messages) /\ Beginning(heard, said)
        /\ Say(said, said', Messages) /\ Hear(said, heard, heard')
    BY DEF Inv, Streams, Contents, Alike, Talk
  <2> QED BY <2>1, Talks
<1>2. \E n \in 0 .. Len(requested') : requested = SubSeq(requested', 1, n)
  <2>1. requested \in Seq(Asks) /\ asked \in Seq(Asks) /\ Beginning(asked, requested)
        /\ Say(requested, requested', Asks) /\ Hear(requested, asked, asked')
    BY DEF Inv, Streams, Contents, Alike, Talk
  <2> QED BY <2>1, Talks
<1>3. Len(heard) \in Nat /\ Len(said) \in Nat /\ Len(asked) \in Nat /\ Len(requested) \in Nat
  BY DEF Inv, Streams, Contents
<1>4. heard' = heard \/ (Len(heard) < Len(said) /\ heard' = Append(heard, said[Len(heard) + 1]))
  BY <1>3 DEF Talk, Hear
<1>5. asked' = asked \/ (Len(asked) < Len(requested) /\ asked' = Append(asked, requested[Len(asked) + 1]))
  BY <1>3 DEF Talk, Hear
<1> QED BY <1>1, <1>2, <1>4, <1>5

\* The peer hears what the remote says: the connection as the code reads it,
\* byte for byte, implements the abstract conversation.
THEOREM PeerHears == Spec => HearsTheRemote
<1>1. Init => Remote!Init
  BY DEF Init, Remote!Init
<1>2. Inv /\ [Next]_vars => [Remote!Next]_<<said, heard>>
  BY StepInv, Conversing DEF Remote!Next, Remote!Says, Remote!Hears
<1> QED BY <1>1, <1>2, Always, PTL DEF Spec, HearsTheRemote, Remote!Spec

\* The remote hears what the peer requests, as the peer writes it.
THEOREM PeerUnderstood == Spec => IsUnderstood
<1>1. Init => Own!Init
  BY DEF Init, Own!Init
<1>2. Inv /\ [Next]_vars => [Own!Next]_<<requested, asked>>
  BY StepInv, Conversing DEF Own!Next, Own!Says, Own!Hears
<1> QED BY <1>1, <1>2, Always, PTL DEF Spec, IsUnderstood, Own!Spec
=============================================================================
