------------------------ MODULE AttesterClients_proofs ------------------------
(***************************************************************************)
(* What the attester's programs compute of one intent agrees, for every    *)
(* input, every width of a byte and every number of runs.                  *)
(*                                                                         *)
(* Integers as bytes, the wire encoding and the canonical serialisation    *)
(* are recursive functions; what they compute is found by induction, which *)
(* is derived here from the well-foundedness of < on the naturals.         *)
(***************************************************************************)
EXTENDS AttesterClients, SequenceTheorems, FiniteSetTheorems, WellFoundedInduction, TLAPS

------------------------------------------------------------------------------
(* Induction and recursion *)

\* A set of naturals with 0 that is closed under successor has every natural number.
LEMMA InductionOnSets ==
    ASSUME NEW S, 0 \in S, \A n \in Nat : n \in S => n + 1 \in S
    PROVE  Nat \subseteq S
<1> DEFINE R == OpToRel(<, Nat)
<1> SUFFICES ASSUME Nat \ S # {} PROVE FALSE
  OBVIOUS
<1>1. IsWellFoundedOn(R, Nat)
  BY NatLessThanWellFounded
<1>2. \A m, n \in Nat : m < n => <<m, n>> \in R
  BY DEF OpToRel
<1> HIDE DEF R
<1>3. PICK n \in Nat \ S : \A m \in Nat \ S : ~(<<m, n>> \in R)
  BY <1>1, WFMin
<1>4. n # 0 /\ n - 1 \in Nat /\ n - 1 < n /\ (n - 1) + 1 = n
  BY <1>3
<1>5. n - 1 \in S
  BY <1>2, <1>3, <1>4
<1> QED BY <1>3, <1>4, <1>5

\* What a start and steps make, for ever or up to a last one.
Steps(V) == [Nat -> [V -> V]]
Runs(V, start, step) ==
    {f \in [Nat -> V] : f[0] = start /\ \A n \in Nat : f[n + 1] = step[n][f[n]]}

StepsUpTo(V, last) == [1..last -> [V -> V]]
RunsUpTo(V, start, step, last) ==
    {f \in [0..last -> V] : f = [i \in 0..last |-> IF i = 0 THEN start ELSE step[i][f[i - 1]]]}

\* A start and steps within a set define a function on the naturals.
LEMMA Recursion ==
    ASSUME NEW V, NEW start \in V, NEW step \in Steps(V)
    PROVE  \E f : f \in Runs(V, start, step)
<1> USE DEF Steps
<1> DEFINE Upto(n) == {h \in [0..n -> V] :
                          h[0] = start /\ \A i \in 0..n - 1 : h[i + 1] = step[i][h[i]]}
           S == {n \in Nat : Upto(n) # {}}
<1>1. 0 \in S
  <2>1. [i \in 0..0 |-> start] \in Upto(0)
    OBVIOUS
  <2> QED BY <2>1
<1>2. ASSUME NEW n \in Nat, n \in S PROVE n + 1 \in S
  <2>1. PICK h \in [0..n -> V] : h[0] = start /\ \A i \in 0..n - 1 : h[i + 1] = step[i][h[i]]
    BY <1>2
  <2> DEFINE g == [i \in 0..n + 1 |-> IF i = n + 1 THEN step[n][h[n]] ELSE h[i]]
  <2>2. n \in 0..n /\ h[n] \in V /\ step[n][h[n]] \in V
    BY <2>1
  <2>3. \A i \in 0..n : i \in 0..n + 1 /\ i # n + 1
    OBVIOUS
  <2>4. g \in [0..n + 1 -> V] /\ g[0] = start /\ \A i \in 0..n : g[i] = h[i]
    BY <2>1, <2>2, <2>3
  <2>5. g[n + 1] = step[n][h[n]]
    OBVIOUS
  <2> HIDE DEF g
  <2>6. ASSUME NEW i \in 0..(n + 1) - 1 PROVE g[i + 1] = step[i][g[i]]
    <3>1. CASE i = n
      BY <2>2, <2>4, <2>5, <3>1
    <3>2. CASE i # n
      <4>1. i \in 0..n - 1 /\ i + 1 \in 0..n /\ i \in 0..n
        BY <3>2
      <4> QED BY <2>1, <2>4, <4>1
    <3> QED BY <3>1, <3>2
  <2>7. g \in Upto(n + 1)
    BY <2>4, <2>6
  <2> HIDE DEF Upto
  <2> QED BY <2>7
<1>3. Nat \subseteq S
  <2> HIDE DEF S
  <2> QED BY <1>1, <1>2, InductionOnSets
\* Two of them agree where both are defined.
<1>4. ASSUME NEW m \in Nat, NEW n \in Nat, NEW g \in Upto(m), NEW h \in Upto(n), m <= n
      PROVE  g[m] = h[m]
  <2> DEFINE A == {i \in Nat : i <= m => g[i] = h[i]}
  <2>1. 0 \in A
    OBVIOUS
  <2>2. ASSUME NEW i \in Nat, i \in A PROVE i + 1 \in A
    <3>1. CASE i + 1 <= m
      <4>1. i \in 0..m - 1 /\ i \in 0..n - 1
        BY <1>4, <3>1
      <4>2. g[i + 1] = step[i][g[i]] /\ h[i + 1] = step[i][h[i]]
        BY <4>1
      <4>3. g[i] = h[i]
        BY <2>2, <4>1
      <4> QED BY <4>2, <4>3
    <3> QED BY <3>1
  <2>3. Nat \subseteq A
    <3> HIDE DEF A
    <3> QED BY <2>1, <2>2, InductionOnSets
  <2> QED BY <2>3
<1> DEFINE f == [n \in Nat |-> (CHOOSE h : h \in Upto(n))[n]]
<1>5. \A n \in Nat : (CHOOSE h : h \in Upto(n)) \in Upto(n)
  BY <1>3
<1>6. \A n \in Nat : \A h \in Upto(n) : n \in 0..n /\ h[n] \in V /\ h[0] = start
  OBVIOUS
<1>7. ASSUME NEW n \in Nat, NEW h \in Upto(n + 1) PROVE h[n + 1] = step[n][h[n]]
  <2>1. n \in 0..(n + 1) - 1
    OBVIOUS
  <2> QED BY <2>1
<1> HIDE DEF Upto
<1>8. f \in [Nat -> V] /\ f[0] = start
  BY <1>5, <1>6
<1>9. ASSUME NEW n \in Nat PROVE f[n + 1] = step[n][f[n]]
  <2> DEFINE g == CHOOSE h : h \in Upto(n)
             k == CHOOSE h : h \in Upto(n + 1)
  <2>1. g \in Upto(n) /\ k \in Upto(n + 1) /\ f[n] = g[n] /\ f[n + 1] = k[n + 1]
    BY <1>5
  <2> HIDE DEF g, k
  <2>2. g[n] = k[n]
    BY <1>4, <2>1
  <2> QED BY <1>7, <2>1, <2>2
<1> HIDE DEF f
<1>10. f \in Runs(V, start, step)
  BY <1>8, <1>9 DEF Runs
<1> QED BY <1>10

\* The same over the numbers up to a last one.
LEMMA RecursionUpTo ==
    ASSUME NEW V, NEW start \in V, NEW last \in Nat, NEW step \in StepsUpTo(V, last)
    PROVE  \E f : f \in RunsUpTo(V, start, step, last)
<1> USE DEF StepsUpTo
<1> DEFINE stay == [v \in V |-> v]
           s == [n \in Nat |-> IF n + 1 \in 1..last THEN step[n + 1] ELSE stay]
<1>1. s \in [Nat -> [V -> V]]
  OBVIOUS
<1>2. \A i \in 1..last : i - 1 \in Nat /\ (i - 1) + 1 = i /\ s[i - 1] = step[i]
  OBVIOUS
<1> HIDE DEF s
<1>3. PICK f \in [Nat -> V] : f[0] = start /\ \A n \in Nat : f[n + 1] = s[n][f[n]]
  <2>1. s \in Steps(V)
    BY <1>1 DEF Steps
  <2>2. \E f : f \in Runs(V, start, s)
    BY <2>1, Recursion
  <2> QED BY <2>2 DEF Runs
<1> DEFINE g == [i \in 0..last |-> f[i]]
<1>4. g \in [0..last -> V]
  OBVIOUS
<1>5. ASSUME NEW i \in 0..last PROVE g[i] = IF i = 0 THEN start ELSE step[i][g[i - 1]]
  <2>1. CASE i = 0
    BY <1>3, <2>1
  <2>2. CASE i # 0
    <3>1. i \in 1..last /\ i - 1 \in 0..last
      BY <2>2
    <3>2. f[(i - 1) + 1] = s[i - 1][f[i - 1]]
      BY <1>2, <1>3, <3>1
    <3> QED BY <1>2, <2>2, <3>1, <3>2
  <2> QED BY <2>1, <2>2
<1>6. g = [i \in 0..last |-> g[i]]
  OBVIOUS
<1> HIDE DEF g
<1>7. g = [i \in 0..last |-> IF i = 0 THEN start ELSE step[i][g[i - 1]]]
  BY <1>5, <1>6
<1>8. g \in RunsUpTo(V, start, step, last)
  BY <1>4, <1>7 DEF RunsUpTo
<1> QED BY <1>8

------------------------------------------------------------------------------
(* Division *)

LEMMA Division ==
    ASSUME NEW x \in Int, NEW k \in Nat \ {0}
    PROVE  x \div k \in Int /\ x % k \in 0..k - 1 /\ x = (x \div k) * k + (x % k)
OBVIOUS

\* Quotient and remainder are the only ones.
LEMMA DivisionIsUnique ==
    ASSUME NEW k \in Nat \ {0}, NEW q \in Int, NEW r \in 0..k - 1, NEW x \in Int, x = q * k + r
    PROVE  x \div k = q /\ x % k = r
<1> DEFINE p == x \div k
           s == x % k
<1>1. p \in Int /\ s \in 0..k - 1 /\ p * k + s = q * k + r
  BY Division
<1> HIDE DEF p, s
<1>2. (p - q) * k = r - s
  BY <1>1
<1>3. ~(p - q >= 1)
  <2>1. SUFFICES ASSUME p - q >= 1 PROVE FALSE
    OBVIOUS
  <2>2. (p - q) * k >= 1 * k
    BY <1>1, <2>1
  <2> QED BY <1>1, <1>2, <2>2
<1>4. ~(q - p >= 1)
  <2>1. SUFFICES ASSUME q - p >= 1 PROVE FALSE
    OBVIOUS
  <2>2. (q - p) * k >= 1 * k
    BY <1>1, <2>1
  <2>3. (q - p) * k = s - r
    BY <1>1, <1>2
  <2> QED BY <1>1, <2>2, <2>3
<1>5. p = q
  BY <1>1, <1>3, <1>4
<1>6. s = r
  <2>1. p * k \in Int
    BY <1>1
  <2> QED BY <1>1, <1>5, <2>1
<1> QED BY <1>5, <1>6 DEF p, s

\* A remainder by a product, one factor after the other.
LEMMA DivisionByProduct ==
    ASSUME NEW x \in Int, NEW a \in Nat \ {0}, NEW b \in Nat \ {0}
    PROVE  /\ x \div (a * b) = (x \div a) \div b
           /\ x % (a * b) = (x % a) + ((x \div a) % b) * a
<1> DEFINE y == x \div a
           r == x % a
           z == y \div b
           t == y % b
<1>1. y \in Int /\ r \in 0..a - 1 /\ x = y * a + r
  BY Division
<1>2. z \in Int /\ t \in 0..b - 1 /\ y = z * b + t
  BY <1>1, Division
<1> HIDE DEF y, r, z, t
<1>3. a * b \in Nat \ {0}
  OBVIOUS
<1>4. x = z * (a * b) + (r + t * a)
  BY <1>1, <1>2
<1>5. r + t * a \in 0..(a * b) - 1
  <2>1. t * a \in Nat /\ t * a <= (b - 1) * a
    BY <1>2
  <2>2. (b - 1) * a = a * b - a
    OBVIOUS
  <2> QED BY <1>1, <1>3, <2>1, <2>2
<1>6. x \div (a * b) = z /\ x % (a * b) = r + t * a
  BY <1>2, <1>3, <1>4, <1>5, DivisionIsUnique
<1> QED BY <1>6 DEF y, r, z, t

------------------------------------------------------------------------------
(* Integers as bytes *)

LEMMA BaseValues == Base \in Nat \ {0} /\ Base > 1
BY BaseBounds

LEMMA PowerValues ==
    /\ Power[0] = 1
    /\ \A n \in Nat : Power[n] \in Nat \ {0} /\ Power[n + 1] = Base * Power[n]
<1> DEFINE V == Nat \ {0}
           step == [n \in Nat |-> [v \in V |-> Base * v]]
<1>1. 1 \in V /\ step \in [Nat -> [V -> V]]
  BY BaseValues
<1>2. \A n \in Nat, v \in V : step[n][v] = Base * v
  OBVIOUS
<1> HIDE DEF step
<1>3. PICK f \in [Nat -> V] : f[0] = 1 /\ \A n \in Nat : f[n + 1] = step[n][f[n]]
  <2>1. step \in Steps(V) /\ 1 \in V
    BY <1>1 DEF Steps
  <2> HIDE DEF V
  <2>2. \E f : f \in Runs(V, 1, step)
    BY <2>1, Recursion
  <2> QED BY <2>2 DEF Runs
<1>4. \A n \in Nat : f[n + 1] = Base * f[n]
  BY <1>2, <1>3
<1>5. ASSUME NEW n \in Nat PROVE f[n] = IF n = 0 THEN 1 ELSE Base * f[n - 1]
  <2>1. CASE n = 0
    BY <1>3, <2>1
  <2>2. CASE n # 0
    <3>1. n - 1 \in Nat /\ (n - 1) + 1 = n
      BY <2>2
    <3> QED BY <1>4, <2>2, <3>1
  <2> QED BY <2>1, <2>2
<1>6. f = [n \in Nat |-> f[n]]
  BY <1>3
<1>7. f = [n \in Nat |-> IF n = 0 THEN 1 ELSE Base * f[n - 1]]
  BY <1>5, <1>6
<1>8. Power = [n \in Nat |-> IF n = 0 THEN 1 ELSE Base * Power[n - 1]]
  BY <1>7, Zenon DEF Power
<1>9. Power[0] = 1
  BY <1>8
<1>10. ASSUME NEW n \in Nat PROVE Power[n + 1] = Base * Power[n]
  <2>1. n + 1 \in Nat /\ n + 1 # 0 /\ (n + 1) - 1 = n
    OBVIOUS
  <2> QED BY <1>8, <2>1
<1> DEFINE S == {n \in Nat : Power[n] \in V}
<1>11. 0 \in S
  BY <1>9
<1>12. \A n \in Nat : n \in S => n + 1 \in S
  BY <1>10, BaseValues
<1>13. Nat \subseteq S
  <2> HIDE DEF S
  <2> QED BY <1>11, <1>12, InductionOnSets
<1> QED BY <1>9, <1>10, <1>13

LEMMA PowersAreIntegers == \A n \in Nat : Power[n] \in Int
BY PowerValues

\* The widths that occur, in a base of at least two.
LEMMA PowersOfTheWidths ==
    /\ Power[1] = Base /\ Power[2] >= 4 /\ Power[4] >= 16 /\ Power[8] >= 256
    /\ Power[1] <= Power[2] /\ Power[2] <= Power[4] /\ Power[4] <= Power[8]
    /\ Power[8] <= Power[16]
<1>1. ASSUME NEW n \in Nat PROVE Power[n + 1] >= 2 * Power[n] /\ Power[n] \in Nat \ {0}
  <2>1. Power[n] \in Nat \ {0} /\ Power[n + 1] = Base * Power[n] /\ Base \in Nat /\ Base >= 2
    BY PowerValues, BaseValues
  <2> DEFINE p == Power[n]
  <2> HIDE DEF p
  <2>2. p \in Nat => Base * p >= 2 * p
    BY <2>1
  <2> QED BY <2>1, <2>2 DEF p
<1>2. ASSUME NEW n \in Nat PROVE Power[n + 2] >= 4 * Power[n] /\ Power[n] \in Nat \ {0}
  <2>1. n + 1 \in Nat /\ (n + 1) + 1 = n + 2
    OBVIOUS
  <2>2. Power[n + 2] >= 2 * Power[n + 1] /\ Power[n + 2] \in Nat
    BY <1>1, <2>1, PowerValues
  <2> QED BY <1>1, <2>1, <2>2
<1>3. Power[0] = 1 /\ Power[0 + 1] = Base * Power[0] /\ 0 + 1 = 1
  BY PowerValues
<1>4. Power[1] = Base
  BY <1>3, BaseValues
<1>5. Power[1 + 1] >= 2 * Power[1] /\ Power[2 + 2] >= 4 * Power[2] /\ Power[4 + 2] >= 4 * Power[4]
      /\ Power[6 + 2] >= 4 * Power[6] /\ Power[8 + 2] >= 4 * Power[8] /\ Power[10 + 2] >= 4 * Power[10]
      /\ Power[12 + 2] >= 4 * Power[12] /\ Power[14 + 2] >= 4 * Power[14]
  BY <1>1, <1>2
<1>6. 1 + 1 = 2 /\ 2 + 2 = 4 /\ 4 + 2 = 6 /\ 6 + 2 = 8 /\ 8 + 2 = 10 /\ 10 + 2 = 12 /\ 12 + 2 = 14
      /\ 14 + 2 = 16
  OBVIOUS
<1>7. Power[2] \in Nat /\ Power[4] \in Nat /\ Power[6] \in Nat /\ Power[8] \in Nat
      /\ Power[10] \in Nat /\ Power[12] \in Nat /\ Power[14] \in Nat /\ Power[16] \in Nat
  BY PowerValues
<1> QED BY <1>4, <1>5, <1>6, <1>7, BaseValues

LEMMA DigitIsByte ==
    ASSUME NEW n \in Int, NEW weight \in Nat
    PROVE  Digit(n, weight) \in Byte /\ n \div Power[weight] \in Int
<1>1. Power[weight] \in Nat \ {0} /\ Base \in Nat \ {0}
  BY PowerValues, BaseValues
<1>2. n \div Power[weight] \in Int
  BY <1>1, Division
<1>3. (n \div Power[weight]) % Base \in 0..Base - 1
  BY <1>1, <1>2, Division
<1> QED BY <1>2, <1>3 DEF Digit, Byte

LEMMA LittleEndianBytes ==
    ASSUME NEW n \in Int, NEW width \in Nat
    PROVE  /\ LittleEndian(n, width) \in [1..width -> Byte]
           /\ LittleEndian(n, width) \in Seq(Byte) /\ Len(LittleEndian(n, width)) = width
<1>1. \A i \in 1..width : Digit(n, i - 1) \in Byte
  <2> TAKE i \in 1..width
  <2>1. i - 1 \in Nat
    OBVIOUS
  <2> QED BY <2>1, DigitIsByte
<1> QED BY <1>1 DEF LittleEndian

\* The sum that Number forms.
LEMMA NumberSums ==
    ASSUME NEW width \in Nat, NEW bytes \in [1..width -> Int]
    PROVE  \E sum \in [0..width -> Int] :
              /\ sum[0] = 0
              /\ \A i \in 1..width : sum[i] = sum[i - 1] + bytes[i] * Power[i - 1]
              /\ Number(bytes) = sum[width]
<1>1. Len(bytes) = width
  <2>1. bytes \in Seq(Int)
    OBVIOUS
  <2> QED BY <2>1
<1> DEFINE step == [i \in 1..width |-> [v \in Int |-> v + bytes[i] * Power[i - 1]]]
<1>2. ASSUME NEW i \in 1..width PROVE bytes[i] * Power[i - 1] \in Int
  <2>1. i - 1 \in Nat
    OBVIOUS
  <2>2. Power[i - 1] \in Nat \ {0}
    BY <2>1, PowerValues, Zenon
  <2>3. Power[i - 1] \in Int
    BY <2>2
  <2> QED BY <2>3
<1>3. step \in [1..width -> [Int -> Int]]
  BY <1>2
<1>4. \A i \in 1..width, v \in Int : step[i][v] = v + bytes[i] * Power[i - 1]
  OBVIOUS
<1> HIDE DEF step
<1>5. PICK f \in [0..width -> Int] :
         f = [i \in 0..width |-> IF i = 0 THEN 0 ELSE step[i][f[i - 1]]]
  <2>1. 0 \in Int /\ step \in StepsUpTo(Int, width)
    BY <1>3 DEF StepsUpTo
  <2>2. \E f : f \in RunsUpTo(Int, 0, step, width)
    BY <2>1, RecursionUpTo
  <2> QED BY <2>2 DEF RunsUpTo
<1>6. ASSUME NEW i \in 0..width
      PROVE  f[i] = IF i = 0 THEN 0 ELSE f[i - 1] + bytes[i] * Power[i - 1]
  <2>1. CASE i = 0
    BY <1>5, <2>1
  <2>2. CASE i # 0
    <3>1. i \in 1..width /\ i - 1 \in 0..width
      BY <2>2
    <3>2. f[i] = step[i][f[i - 1]]
      BY <1>5, <2>2
    <3>3. f[i - 1] \in Int
      BY <3>1
    <3> QED BY <1>4, <2>2, <3>1, <3>2, <3>3
  <2> QED BY <2>1, <2>2
<1>7. f = [i \in 0..Len(bytes) |-> IF i = 0 THEN 0 ELSE f[i - 1] + bytes[i] * Power[i - 1]]
  <2>1. f = [i \in 0..width |-> f[i]]
    OBVIOUS
  <2> QED BY <1>1, <1>6, <2>1
<1> DEFINE IsSum(s) ==
              s = [i \in 0..Len(bytes) |-> IF i = 0 THEN 0 ELSE s[i - 1] + bytes[i] * Power[i - 1]]
           g == CHOOSE s : IsSum(s)
<1>8. IsSum(g)
  <2>1. IsSum(f)
    BY <1>7
  <2> HIDE DEF IsSum
  <2> QED BY <2>1
<1>9. Number(bytes) = g[width]
  BY <1>1, Zenon DEF Number
<1> HIDE DEF g
<1>10. ASSUME NEW i \in 0..width
       PROVE  g[i] = IF i = 0 THEN 0 ELSE g[i - 1] + bytes[i] * Power[i - 1]
  BY <1>1, <1>8
<1>11. g[0] = 0 /\ \A i \in 1..width : i # 0 /\ g[i] = g[i - 1] + bytes[i] * Power[i - 1]
  <2>1. 0 \in 0..width /\ \A i \in 1..width : i \in 0..width /\ i # 0
    OBVIOUS
  <2> QED BY <1>10, <2>1
<1>12. g \in [0..width -> Int]
  <2> DEFINE S == {i \in Nat : i <= width => g[i] \in Int}
  <2>1. 0 \in S
    BY <1>11
  <2>2. ASSUME NEW i \in Nat, i \in S PROVE i + 1 \in S
    <3> SUFFICES ASSUME i + 1 <= width PROVE g[i + 1] \in Int
      OBVIOUS
    <3>1. i + 1 \in 1..width /\ (i + 1) - 1 = i /\ i <= width
      OBVIOUS
    <3>2. g[i + 1] = g[i] + bytes[i + 1] * Power[i]
      BY <1>11, <3>1
    <3>3. g[i] \in Int
      BY <2>2, <3>1
    <3>4. bytes[i + 1] * Power[i] \in Int
      BY <1>2, <3>1
    <3> QED BY <3>2, <3>3, <3>4
  <2>3. Nat \subseteq S
    <3> HIDE DEF S
    <3> QED BY <2>1, <2>2, InductionOnSets
  <2>4. g = [i \in 0..width |-> g[i]]
    BY <1>1, <1>8
  <2> QED BY <2>3, <2>4
<1> QED BY <1>9, <1>11, <1>12

\* Reading what was written gives the integer modulo the width.
LEMMA BytesSayTheNumber ==
    ASSUME NEW n \in Int, NEW width \in Nat
    PROVE  Number(LittleEndian(n, width)) = n % Power[width]
<1> DEFINE bytes == LittleEndian(n, width)
<1>1. bytes \in [1..width -> Int]
  <2>1. Byte \subseteq Int
    BY BaseValues DEF Byte
  <2>2. bytes \in [1..width -> Byte]
    BY LittleEndianBytes
  <2> QED BY <2>1, <2>2
<1>2. \A i \in 1..width : bytes[i] = (n \div Power[i - 1]) % Base
  BY DEF LittleEndian, Digit
<1> HIDE DEF bytes
<1>3. PICK sum \in [0..width -> Int] :
              /\ sum[0] = 0
              /\ \A i \in 1..width : sum[i] = sum[i - 1] + bytes[i] * Power[i - 1]
              /\ Number(bytes) = sum[width]
  BY <1>1, NumberSums
<1> DEFINE S == {i \in Nat : i <= width => sum[i] = n % Power[i]}
<1>4. 0 \in S
  <2>1. n % 1 = 0
    OBVIOUS
  <2> QED BY <1>3, <2>1, PowerValues
<1>5. ASSUME NEW i \in Nat, i \in S PROVE i + 1 \in S
  <2> SUFFICES ASSUME i + 1 <= width PROVE sum[i + 1] = n % Power[i + 1]
    OBVIOUS
  <2>1. i + 1 \in 1..width /\ (i + 1) - 1 = i /\ i <= width
    OBVIOUS
  <2>2. sum[i + 1] = sum[i] + ((n \div Power[i]) % Base) * Power[i]
    BY <1>2, <1>3, <2>1
  <2>3. sum[i] = n % Power[i]
    BY <1>5, <2>1
  <2>4. Power[i + 1] = Base * Power[i] /\ Power[i] \in Nat \ {0} /\ Base \in Nat \ {0}
    BY PowerValues, BaseValues
  <2> DEFINE p == Power[i]
  <2> HIDE DEF p
  <2>5. p \in Nat \ {0} => n % (p * Base) = (n % p) + ((n \div p) % Base) * p
    BY <2>4, DivisionByProduct
  <2>6. p \in Nat => Base * p = p * Base
    BY <2>4
  <2> QED BY <2>2, <2>3, <2>4, <2>5, <2>6 DEF p
<1>6. Nat \subseteq S
  <2> HIDE DEF S
  <2> QED BY <1>4, <1>5, InductionOnSets
<1> QED BY <1>3, <1>6 DEF bytes

\* Writing what was read gives the bytes.
LEMMA NumberKeepsTheBytes ==
    ASSUME NEW width \in Nat, NEW bytes \in [1..width -> Byte]
    PROVE  /\ Number(bytes) \in 0..Power[width] - 1
           /\ LittleEndian(Number(bytes), width) = bytes
<1>1. Byte \subseteq Nat /\ Base \in Nat \ {0}
  BY BaseValues DEF Byte
<1>2. PICK sum \in [0..width -> Int] :
              /\ sum[0] = 0
              /\ \A i \in 1..width : sum[i] = sum[i - 1] + bytes[i] * Power[i - 1]
              /\ Number(bytes) = sum[width]
  <2>1. bytes \in [1..width -> Int]
    <3>1. \A j \in 1..width : bytes[j] \in Byte
      OBVIOUS
    <3>2. Byte \subseteq Int
      BY <1>1
    <3> QED BY <3>1, <3>2
  <2> QED BY <2>1, NumberSums
<1>3. ASSUME NEW i \in Nat, i + 1 <= width
      PROVE  /\ i \in 0..width /\ i + 1 \in 1..width
             /\ sum[i] \in Int /\ bytes[i + 1] \in 0..Base - 1
             /\ sum[i + 1] = sum[i] + bytes[i + 1] * Power[i]
             /\ Power[i] \in Nat \ {0} /\ Power[i + 1] = Base * Power[i]
  <2>1. i \in 0..width /\ i + 1 \in 1..width /\ (i + 1) - 1 = i
    BY <1>3
  <2> QED BY <1>2, <2>1, PowerValues DEF Byte
<1> DEFINE S == {i \in Nat : i <= width => sum[i] \in 0..Power[i] - 1}
<1>4. 0 \in S
  <2>1. Power[0] = 1
    BY PowerValues
  <2> QED BY <1>2, <2>1
<1>5. ASSUME NEW i \in Nat, i \in S PROVE i + 1 \in S
  <2> SUFFICES ASSUME i + 1 <= width PROVE sum[i + 1] \in 0..Power[i + 1] - 1
    OBVIOUS
  <2>1. sum[i] \in 0..Power[i] - 1
    BY <1>5
  <2> DEFINE p == Power[i]
             b == bytes[i + 1]
             s == sum[i]
  <2>2. /\ p \in Nat \ {0} /\ b \in 0..Base - 1 /\ s \in 0..p - 1
        /\ sum[i + 1] = s + b * p /\ Power[i + 1] = Base * p
    BY <1>3, <2>1
  <2> HIDE DEF p, b, s
  <2>3. b * p \in Nat /\ b * p <= (Base - 1) * p /\ (Base - 1) * p = Base * p - p
    BY <1>1, <2>2
  <2> QED BY <1>1, <2>2, <2>3
<1>6. Nat \subseteq S
  <2> HIDE DEF S
  <2> QED BY <1>4, <1>5, InductionOnSets
<1> DEFINE N == Number(bytes)
           T == {k \in Nat : k <= width =>
                    \E q \in Int : N = sum[width - k] + q * Power[width - k]}
<1>7. N \in Int /\ N = sum[width]
  BY <1>2
<1>8. 0 \in T
  <2>1. width - 0 = width
    OBVIOUS
  <2>2. Power[width] \in Int
    BY PowersAreIntegers
  <2>3. N = sum[width] + 0 * Power[width]
    BY <1>7, <2>2
  <2> QED BY <2>1, <2>3
<1> HIDE DEF N
<1>9. ASSUME NEW i \in Nat, i + 1 <= width, NEW q \in Int, N = sum[i + 1] + q * Power[i + 1]
      PROVE  N = sum[i] + (q * Base + bytes[i + 1]) * Power[i]
  <2> DEFINE p == Power[i]
             b == bytes[i + 1]
             s == sum[i]
  <2>1. /\ p \in Nat \ {0} /\ b \in 0..Base - 1 /\ s \in Int
        /\ sum[i + 1] = s + b * p /\ Power[i + 1] = Base * p
    BY <1>3, <1>9
  <2> HIDE DEF p, b, s
  <2>2. N = (s + b * p) + q * (Base * p)
    BY <1>9, <2>1
  <2>3. (q * Base + b) * p = q * (Base * p) + b * p
    BY <1>1, <2>1
  <2>4. q * (Base * p) \in Int /\ b * p \in Int
    BY <1>1, <2>1
  <2>5. N = s + (q * Base + b) * p
    BY <2>1, <2>2, <2>3, <2>4
  <2> QED BY <2>5 DEF p, b, s
<1>10. ASSUME NEW k \in Nat, k \in T PROVE k + 1 \in T
  <2> SUFFICES ASSUME k + 1 <= width
               PROVE  \E q \in Int : N = sum[width - (k + 1)] + q * Power[width - (k + 1)]
    OBVIOUS
  <2> DEFINE i == width - (k + 1)
  <2>1. i \in Nat /\ i + 1 <= width /\ i + 1 = width - k /\ k <= width
    OBVIOUS
  <2>2. PICK q \in Int : N = sum[width - k] + q * Power[width - k]
    BY <1>10, <2>1
  <2>3. N = sum[i + 1] + q * Power[i + 1]
    BY <2>1, <2>2
  <2> HIDE DEF i
  <2>4. N = sum[i] + (q * Base + bytes[i + 1]) * Power[i]
    BY <1>9, <2>1, <2>3
  <2>5. q * Base + bytes[i + 1] \in Int
    <3>1. bytes[i + 1] \in 0..Base - 1
      BY <1>3, <2>1
    <3> QED BY <1>1, <3>1
  <2> QED BY <2>4, <2>5 DEF i
<1>11. Nat \subseteq T
  <2> HIDE DEF T
  <2> QED BY <1>8, <1>10, InductionOnSets
<1>12. ASSUME NEW j \in 1..width PROVE Digit(N, j - 1) = bytes[j]
  <2> DEFINE i == j - 1
  <2>1. i \in Nat /\ i + 1 <= width /\ i + 1 = j /\ width - j \in Nat /\ width - j <= width
        /\ width - (width - j) = j
    OBVIOUS
  <2>2. PICK q \in Int : N = sum[j] + q * Power[j]
    BY <1>11, <2>1
  <2> HIDE DEF i
  <2>3. N = sum[i] + (q * Base + bytes[j]) * Power[i]
    BY <1>9, <2>1, <2>2
  <2>4. sum[i] \in 0..Power[i] - 1 /\ Power[i] \in Nat \ {0} /\ bytes[j] \in 0..Base - 1
    <3>1. i <= width
      BY <2>1
    <3> QED BY <1>3, <1>6, <2>1, <3>1
  <2>5. q * Base + bytes[j] \in Int
    BY <1>1, <2>4
  <2>6. N \div Power[i] = q * Base + bytes[j]
    <3> DEFINE m == q * Base + bytes[j]
    <3> HIDE DEF m
    <3>1. m \in Int /\ N = m * Power[i] + sum[i]
      <4>1. m \in Int /\ m * Power[i] \in Int /\ sum[i] \in Int /\ N = sum[i] + m * Power[i]
        BY <2>3, <2>4, <2>5 DEF m
      <4> QED BY <4>1
    <3>2. N \div Power[i] = m
      BY <1>7, <2>4, <3>1, DivisionIsUnique DEF N
    <3> QED BY <3>2 DEF m
  <2>7. (q * Base + bytes[j]) % Base = bytes[j]
    BY <1>1, <2>4, <2>5, DivisionIsUnique
  <2> QED BY <2>6, <2>7 DEF Digit, i
<1>13. LittleEndian(N, width) = bytes
  BY <1>12 DEF LittleEndian
<1>14. N \in 0..Power[width] - 1
  BY <1>6, <1>7
<1> QED BY <1>13, <1>14 DEF N

\* An integer and what is left of it in that width have the same bytes.
LEMMA WidthIsModulo ==
    ASSUME NEW n \in Int, NEW width \in Nat
    PROVE  /\ n % Power[width] \in 0..Power[width] - 1
           /\ LittleEndian(n % Power[width], width) = LittleEndian(n, width)
<1>1. LittleEndian(n, width) \in [1..width -> Byte]
  BY LittleEndianBytes
<1> QED BY <1>1, BytesSayTheNumber, NumberKeepsTheBytes

\* Within the width, different integers have different bytes.
LEMMA BytesTellNumbers ==
    ASSUME NEW width \in Nat, NEW m \in Int, NEW n \in Int,
           LittleEndian(m, width) = LittleEndian(n, width)
    PROVE  /\ m % Power[width] = n % Power[width]
           /\ m \in 0..Power[width] - 1 /\ n \in 0..Power[width] - 1 => m = n
<1>1. m % Power[width] = n % Power[width]
  <2>1. Number(LittleEndian(m, width)) = m % Power[width]
    BY BytesSayTheNumber
  <2>2. Number(LittleEndian(n, width)) = n % Power[width]
    BY BytesSayTheNumber
  <2> QED BY <2>1, <2>2
<1>2. ASSUME NEW x \in 0..Power[width] - 1 PROVE x % Power[width] = x
  <2>1. Power[width] \in Nat \ {0}
    BY PowerValues
  <2>2. x = 0 * Power[width] + x /\ x \in Int
    BY <2>1
  <2> QED BY <2>1, <2>2, DivisionIsUnique
<1> QED BY <1>1, <1>2

------------------------------------------------------------------------------
(* Sequences *)

Joined(s, t) == s \o t

LEMMA JoinsAssociate ==
    ASSUME NEW S, NEW r \in Seq(S), NEW s \in Seq(S), NEW t \in Seq(S)
    PROVE  Joined(Joined(r, s), t) = Joined(r, Joined(s, t))
<1>1. (r \o s) \o t = r \o (s \o t)
  BY ConcatAssociative
<1> QED BY <1>1 DEF Joined

\* Two ways to cut a sequence in the same place are one.
LEMMA SameCut ==
    ASSUME NEW S, NEW a \in Seq(S), NEW b \in Seq(S), NEW c \in Seq(S), NEW d \in Seq(S),
           Joined(a, b) = Joined(c, d), Len(a) = Len(c)
    PROVE  a = c /\ b = d
<1> USE DEF Joined
<1>1. /\ Len(a) \in Nat /\ Len(b) \in Nat /\ Len(d) \in Nat
      /\ Len(a \o b) = Len(a) + Len(b)
      /\ \A i \in 1..Len(a) + Len(b) : (a \o b)[i] = IF i <= Len(a) THEN a[i] ELSE b[i - Len(a)]
  BY ConcatProperties
<1>2. /\ Len(c \o d) = Len(c) + Len(d)
      /\ \A i \in 1..Len(c) + Len(d) : (c \o d)[i] = IF i <= Len(c) THEN c[i] ELSE d[i - Len(c)]
  BY ConcatProperties
<1> DEFINE u == a \o b
<1> HIDE DEF u
<1>3. /\ \A i \in 1..Len(a) + Len(b) : u[i] = IF i <= Len(a) THEN a[i] ELSE b[i - Len(a)]
      /\ \A i \in 1..Len(a) + Len(d) : u[i] = IF i <= Len(a) THEN c[i] ELSE d[i - Len(a)]
      /\ Len(b) = Len(d)
  BY <1>1, <1>2 DEF u
<1>4. ASSUME NEW i \in 1..Len(a) PROVE a[i] = c[i]
  <2>1. i \in 1..Len(a) + Len(b) /\ i \in 1..Len(a) + Len(d) /\ i <= Len(a)
    BY <1>1
  <2> QED BY <1>3, <2>1
<1>5. ASSUME NEW i \in 1..Len(b) PROVE b[i] = d[i]
  <2>1. /\ i + Len(a) \in 1..Len(a) + Len(b) /\ i + Len(a) \in 1..Len(a) + Len(d)
        /\ ~(i + Len(a) <= Len(a)) /\ (i + Len(a)) - Len(a) = i
    BY <1>1, <1>3
  <2> QED BY <1>3, <2>1
<1>6. a = c
  BY <1>4, SeqEqual
<1>7. b = d
  BY <1>3, <1>5, SeqEqual
<1> QED BY <1>6, <1>7

\* The parts of a sequence that is cut after n elements.
Before(s, n) == SubSeq(s, 1, n)
Beyond(s, n) == SubSeq(s, n + 1, Len(s))

LEMMA Cut ==
    ASSUME NEW S, NEW s \in Seq(S), NEW n \in 0..Len(s)
    PROVE  /\ Before(s, n) \in Seq(S) /\ Len(Before(s, n)) = n
           /\ Beyond(s, n) \in Seq(S) /\ Len(Beyond(s, n)) = Len(s) - n
           /\ Joined(Before(s, n), Beyond(s, n)) = s
<1> USE DEF Before, Beyond, Joined
<1>1. Len(s) \in Nat /\ n \in Nat /\ \A i \in 1..Len(s) : s[i] \in S
  OBVIOUS
<1>2. /\ SubSeq(s, 1, n) \in Seq(S)
      /\ Len(SubSeq(s, 1, n)) = IF 1 <= n THEN n - 1 + 1 ELSE 0
  <2>1. \A i \in 1..n : s[i] \in S
    BY <1>1
  <2> QED BY <1>1, <2>1, SubSeqProperties
<1>3. Len(SubSeq(s, 1, n)) = n
  BY <1>1, <1>2
<1>4. /\ SubSeq(s, n + 1, Len(s)) \in Seq(S)
      /\ Len(SubSeq(s, n + 1, Len(s))) = IF n + 1 <= Len(s) THEN Len(s) - (n + 1) + 1 ELSE 0
  <2>1. n + 1 \in Int /\ Len(s) \in Int /\ \A i \in n + 1..Len(s) : s[i] \in S
    BY <1>1
  <2> QED BY <2>1, SubSeqProperties
<1>5. Len(SubSeq(s, n + 1, Len(s))) = Len(s) - n
  BY <1>1, <1>4
<1>6. SubSeq(s, 1, n) \o SubSeq(s, n + 1, Len(s)) = s
  <2>1. 1 \in 1..Len(s) + 1 /\ n \in 1 - 1..Len(s) /\ Len(s) \in n..Len(s)
    BY <1>1
  <2>2. SubSeq(s, 1, n) \o SubSeq(s, n + 1, Len(s)) = SubSeq(s, 1, Len(s))
    BY <2>1, ConcatAdjacentSubSeq
  <2> QED BY <2>2, SubSeqFull
<1> QED BY <1>2, <1>3, <1>4, <1>5, <1>6

\* A sequence that begins as a join does, in its first part and beyond it.
LEMMA CutOfJoin ==
    ASSUME NEW S, NEW s \in Seq(S), NEW q \in Seq(S), NEW a \in Seq(S), NEW t \in Seq(S),
           Joined(s, q) = Joined(a, t), Len(a) <= Len(s)
    PROVE  /\ Before(s, Len(a)) = a
           /\ Beyond(s, Len(a)) \in Seq(S) /\ Joined(Beyond(s, Len(a)), q) = t
<1> DEFINE n == Len(a)
           b == Before(s, n)
           c == Beyond(s, n)
<1>1. n \in 0..Len(s)
  <2>1. Len(a) \in Nat /\ Len(s) \in Nat
    OBVIOUS
  <2> QED BY <2>1
<1>2. b \in Seq(S) /\ Len(b) = n /\ c \in Seq(S) /\ Joined(b, c) = s
  BY <1>1, Cut
<1> HIDE DEF b, c
<1>3. Joined(Joined(b, c), q) = Joined(b, Joined(c, q)) /\ Joined(c, q) \in Seq(S)
  <2>1. Joined(c, q) \in Seq(S)
    BY <1>2, ConcatProperties DEF Joined
  <2> QED BY <1>2, <2>1, JoinsAssociate
<1>4. Joined(b, Joined(c, q)) = Joined(a, t)
  BY <1>2, <1>3
<1>5. b = a /\ Joined(c, q) = t
  BY <1>2, <1>3, <1>4, SameCut
<1> QED BY <1>2, <1>5 DEF b, c

LEMMA JoinLengths ==
    ASSUME NEW S, NEW s \in Seq(S), NEW t \in Seq(S)
    PROVE  /\ Joined(s, t) \in Seq(S) /\ Len(Joined(s, t)) = Len(s) + Len(t)
           /\ Len(s) \in Nat /\ Len(t) \in Nat
BY ConcatProperties, LenProperties DEF Joined

LEMMA JoinsOfNothing ==
    ASSUME NEW S, NEW s \in Seq(S)
    PROVE  Joined(<<>>, s) = s /\ Joined(s, <<>>) = s
BY ConcatEmptySeq DEF Joined

LEMMA ListsAreSequences ==
    ASSUME NEW S, NEW w \in Nat, NEW f \in [1..w -> S]
    PROVE  f \in Seq(S) /\ Len(f) = w /\ DOMAIN f = 1..w
OBVIOUS

LEMMA FirstOfJoin ==
    ASSUME NEW S, NEW h \in S, NEW s \in Seq(S)
    PROVE  /\ <<h>> \in Seq(S) /\ Len(<<h>>) = 1 /\ <<h>>[1] = h
           /\ Joined(<<h>>, s)[1] = h
<1>1. <<h>> \in Seq(S) /\ Len(<<h>>) = 1 /\ <<h>>[1] = h
  OBVIOUS
<1>2. 1 \in 1..1 + Len(s) /\ 1 <= 1
  BY JoinLengths
<1> DEFINE a == <<h>>
<1>3. a \in Seq(S) /\ Len(a) = 1 /\ a[1] = h
  BY <1>1
<1> HIDE DEF a
<1>4. (a \o s)[1] = a[1]
  BY <1>2, <1>3, ConcatProperties
<1> QED BY <1>1, <1>3, <1>4 DEF Joined, a

\* What runs through FlattenSeq: the first parts joined.
Joins(parts, n, S, f) ==
    /\ f \in [1..n -> Seq(S)]
    /\ f[1] = parts[1]
    /\ \A i \in 1..n - 1 : f[i + 1] = f[i] \o parts[i + 1]

LEMMA FlattenRuns ==
    ASSUME NEW S, NEW n \in Nat \ {0}, NEW parts \in [1..n -> Seq(S)]
    PROVE  \E f : Joins(parts, n, S, f) /\ FlattenSeq(parts) = f[n]
<1>1. Len(parts) = n
  <2>1. parts \in Seq(Seq(S))
    OBVIOUS
  <2> QED BY <2>1
<1> DEFINE V == Seq(S)
           step == [i \in 1..n - 1 |-> [v \in V |-> v \o parts[i + 1]]]
<1>2. parts[1] \in V /\ n - 1 \in Nat
  OBVIOUS
<1>3. ASSUME NEW i \in 1..n - 1, NEW v \in V PROVE v \o parts[i + 1] \in V
  <2>1. i + 1 \in 1..n
    OBVIOUS
  <2>2. parts[i + 1] \in Seq(S)
    BY <2>1
  <2> QED BY <2>2, ConcatProperties
<1>4. step \in StepsUpTo(V, n - 1)
  <2> HIDE DEF V
  <2> QED BY <1>3 DEF StepsUpTo
<1>5. \A i \in 1..n - 1, v \in V : step[i][v] = v \o parts[i + 1]
  OBVIOUS
<1> HIDE DEF step
<1>6. PICK r \in [0..n - 1 -> V] :
         r = [i \in 0..n - 1 |-> IF i = 0 THEN parts[1] ELSE step[i][r[i - 1]]]
  <2> HIDE DEF V
  <2>1. \E r : r \in RunsUpTo(V, parts[1], step, n - 1)
    BY <1>2, <1>4, RecursionUpTo
  <2> QED BY <2>1 DEF RunsUpTo
<1> DEFINE f == [i \in 1..n |-> r[i - 1]]
<1>7. f \in [1..n -> V] /\ \A i \in 1..n : i - 1 \in 0..n - 1 /\ f[i] = r[i - 1] /\ f[i] \in V
  OBVIOUS
<1>8. f[1] = parts[1]
  <2>1. r[0] = parts[1] /\ 1 - 1 = 0 /\ 1 \in 1..n
    BY <1>6
  <2> QED BY <1>7, <2>1
<1> HIDE DEF f
<1>9. ASSUME NEW i \in 1..n - 1 PROVE f[i + 1] = f[i] \o parts[i + 1]
  <2>1. i \in 1..n /\ i + 1 \in 1..n /\ (i + 1) - 1 = i /\ i # 0 /\ i \in 0..n - 1
    OBVIOUS
  <2>2. r[i] = step[i][r[i - 1]]
    BY <1>6, <2>1
  <2>3. f[i + 1] = step[i][f[i]] /\ f[i] \in V
    BY <1>7, <2>1, <2>2
  <2> HIDE DEF V
  <2> QED BY <1>5, <2>3
<1> DEFINE IsFlatten(g) ==
              g = [i \in 1..Len(parts) |-> IF i = 1 THEN parts[i] ELSE g[i - 1] \o parts[i]]
           h == CHOOSE g : IsFlatten(g)
<1>10. IsFlatten(f)
  <2>1. ASSUME NEW i \in 1..n PROVE f[i] = IF i = 1 THEN parts[i] ELSE f[i - 1] \o parts[i]
    <3>1. CASE i = 1
      BY <1>8, <3>1
    <3>2. CASE i # 1
      <4>1. i - 1 \in 1..n - 1 /\ (i - 1) + 1 = i
        BY <3>2
      <4>2. f[i] = f[i - 1] \o parts[i]
        BY <1>9, <4>1
      <4> QED BY <3>2, <4>2
    <3> QED BY <3>1, <3>2
  <2>2. f = [i \in 1..n |-> f[i]]
    BY <1>7
  <2> QED BY <1>1, <2>1, <2>2
<1>11. IsFlatten(h)
  <2> HIDE DEF IsFlatten
  <2> QED BY <1>10
<1>12. FlattenSeq(parts) = h[n]
  <2>1. Len(parts) # 0
    BY <1>1
  <2> QED BY <1>1, <2>1, Zenon DEF FlattenSeq
<1> HIDE DEF h
<1>13. \A i \in 1..n : h[i] = IF i = 1 THEN parts[i] ELSE h[i - 1] \o parts[i]
  BY <1>1, <1>11
<1> DEFINE A == {i \in Nat : i \in 1..n => h[i] = f[i]}
<1>14. 0 \in A
  OBVIOUS
<1>15. ASSUME NEW i \in Nat, i \in A PROVE i + 1 \in A
  <2> SUFFICES ASSUME i + 1 \in 1..n PROVE h[i + 1] = f[i + 1]
    OBVIOUS
  <2>1. CASE i = 0
    <3>1. i + 1 = 1
      BY <2>1
    <3> QED BY <1>8, <1>13, <3>1
  <2>2. CASE i # 0
    <3>1. i \in 1..n /\ i \in 1..n - 1 /\ (i + 1) - 1 = i /\ i + 1 # 1
      BY <2>2
    <3>2. h[i + 1] = h[i] \o parts[i + 1]
      BY <1>13, <3>1
    <3> QED BY <1>9, <1>15, <3>1, <3>2
  <2> QED BY <2>1, <2>2
<1>16. Nat \subseteq A
  <2> HIDE DEF A
  <2> QED BY <1>14, <1>15, InductionOnSets
<1>17. FlattenSeq(parts) = f[n]
  <2>1. n \in 1..n /\ n \in Nat
    OBVIOUS
  <2> QED BY <1>12, <1>16, <2>1
<1>18. Joins(parts, n, S, f)
  BY <1>7, <1>8, <1>9 DEF Joins
<1> QED BY <1>17, <1>18

\* What is still to be read of the joined parts, and of what follows them, before each part.
Remainders(parts, n, S, after, tail) ==
    /\ tail \in [1..n + 1 -> Seq(S)]
    /\ tail[n + 1] = after
    /\ \A i \in 1..n : tail[i] = parts[i] \o tail[i + 1]

LEMMA FlattenFromTheFront ==
    ASSUME NEW S, NEW n \in Nat \ {0}, NEW parts \in [1..n -> Seq(S)], NEW after \in Seq(S)
    PROVE  /\ FlattenSeq(parts) \in Seq(S)
           /\ \E tail : Remainders(parts, n, S, after, tail) /\ Joined(FlattenSeq(parts), after) = tail[1]
<1>1. PICK f \in [1..n -> Seq(S)] :
              /\ f[1] = parts[1]
              /\ \A i \in 1..n - 1 : f[i + 1] = f[i] \o parts[i + 1]
              /\ FlattenSeq(parts) = f[n]
  <2>1. \E f : Joins(parts, n, S, f) /\ FlattenSeq(parts) = f[n]
    BY FlattenRuns
  <2> QED BY <2>1 DEF Joins
<1> DEFINE P(i) == \A t \in Seq(S) :
                      \E tail : Remainders(parts, i, S, t, tail) /\ f[i] \o t = tail[1]
           A == {i \in Nat : i + 1 \in 1..n => P(i + 1)}
<1>2. 0 \in A
  <2>1. ASSUME NEW t \in Seq(S)
        PROVE  \E tail : Remainders(parts, 1, S, t, tail) /\ f[1] \o t = tail[1]
    <3>1. parts[1] \in Seq(S)
      OBVIOUS
    <3> DEFINE v == parts[1] \o t
               g == [j \in 1..2 |-> IF j = 1 THEN v ELSE t]
    <3>2. v \in Seq(S)
      BY <3>1, ConcatProperties
    <3> HIDE DEF v
    <3>3. g \in [1..2 -> Seq(S)] /\ g[2] = t /\ g[1] = v
      BY <3>2
    <3> HIDE DEF g
    <3>4. 1 + 1 = 2 /\ \A j \in 1..1 : j = 1
      OBVIOUS
    <3>5. Remainders(parts, 1, S, t, g)
      BY <3>3, <3>4 DEF Remainders, v
    <3>6. f[1] \o t = g[1]
      BY <1>1, <3>3 DEF v
    <3> QED BY <3>5, <3>6
  <2>2. P(1)
    BY <2>1
  <2>3. 0 + 1 = 1 /\ 0 \in Nat
    OBVIOUS
  <2> HIDE DEF P
  <2> QED BY <2>2, <2>3
<1>3. ASSUME NEW i \in Nat, i \in A PROVE i + 1 \in A
  <2> DEFINE k == i + 1
  <2> SUFFICES ASSUME k + 1 \in 1..n PROVE P(k + 1)
    <3> HIDE DEF P
    <3> QED OBVIOUS
  <2>1. k \in 1..n - 1 /\ k \in 1..n /\ k \in Nat
    OBVIOUS
  <2>2. P(k)
    <3> HIDE DEF P
    <3> QED BY <1>3, <2>1
  <2> HIDE DEF k
  <2>3. ASSUME NEW t \in Seq(S)
        PROVE  \E tail : Remainders(parts, k + 1, S, t, tail) /\ f[k + 1] \o t = tail[1]
    <3>1. f[k] \in Seq(S) /\ parts[k + 1] \in Seq(S) /\ f[k + 1] = f[k] \o parts[k + 1]
      BY <1>1, <2>1
    <3> DEFINE u == parts[k + 1] \o t
    <3>2. u \in Seq(S)
      BY <3>1, ConcatProperties
    <3>3. f[k + 1] \o t = f[k] \o u
      <4> DEFINE x == f[k]
                 y == parts[k + 1]
      <4>1. x \in Seq(S) /\ y \in Seq(S) /\ f[k + 1] = x \o y /\ u = y \o t
        BY <3>1
      <4> HIDE DEF x, y, u
      <4>2. (x \o y) \o t = x \o (y \o t)
        <5>1. Joined(Joined(x, y), t) = Joined(x, Joined(y, t))
          BY <4>1, JoinsAssociate
        <5> QED BY <5>1 DEF Joined
      <4>3. f[k + 1] \o t = x \o u
        BY <4>1, <4>2
      <4> QED BY <4>3 DEF x
    <3>4. PICK g : Remainders(parts, k, S, u, g) /\ f[k] \o u = g[1]
      BY <2>2, <3>2
    <3> DEFINE h == [j \in 1..(k + 1) + 1 |-> IF j = (k + 1) + 1 THEN t ELSE g[j]]
    <3>5. /\ g \in [1..k + 1 -> Seq(S)] /\ g[k + 1] = u
          /\ \A j \in 1..k : g[j] = parts[j] \o g[j + 1]
      BY <3>4 DEF Remainders
    <3>6. \A j \in 1..k + 1 : j \in 1..(k + 1) + 1 /\ j # (k + 1) + 1
      BY <2>1
    <3>7. /\ h \in [1..(k + 1) + 1 -> Seq(S)] /\ h[(k + 1) + 1] = t
          /\ \A j \in 1..k + 1 : h[j] = g[j]
      BY <2>1, <3>5, <3>6
    <3> HIDE DEF h
    <3>8. ASSUME NEW j \in 1..k + 1 PROVE h[j] = parts[j] \o h[j + 1]
      <4>1. CASE j = k + 1
        BY <3>5, <3>7, <4>1
      <4>2. CASE j # k + 1
        <5>1. j \in 1..k /\ j + 1 \in 1..k + 1
          BY <2>1, <4>2
        <5> QED BY <3>5, <3>7, <5>1
      <4> QED BY <4>1, <4>2
    <3>9. Remainders(parts, k + 1, S, t, h)
      BY <3>7, <3>8 DEF Remainders
    <3>10. h[1] = g[1]
      BY <2>1, <3>7
    <3> QED BY <3>3, <3>4, <3>9, <3>10
  <2> QED BY <2>3
<1>4. Nat \subseteq A
  <2> HIDE DEF A
  <2> QED BY <1>2, <1>3, InductionOnSets
<1>5. P(n)
  <2>1. n - 1 \in Nat /\ (n - 1) + 1 = n /\ n \in 1..n
    OBVIOUS
  <2> HIDE DEF P
  <2> QED BY <1>4, <2>1
<1>6. f[n] \in Seq(S)
  OBVIOUS
<1>7. PICK tail : Remainders(parts, n, S, after, tail) /\ f[n] \o after = tail[1]
  BY <1>5
<1>8. Joined(FlattenSeq(parts), after) = tail[1]
  BY <1>1, <1>7 DEF Joined
<1> QED BY <1>1, <1>6, <1>7, <1>8

------------------------------------------------------------------------------
(* One item of the wire encoding *)

\* What messages consist of when their names, texts and bytes are in D.
Symbols(D) == [head : Nat \X Nat] \cup [byte : D] \cup [text : D]

Items(D) ==
    {Uint(n) : n \in Nat} \cup {Bytes(s) : s \in {s \in Seq(D) : Len(s) < U64Size}}
      \cup {Text(x) : x \in D}

\* What is read of an item: its integer modulo its width.
Sent(v) == [v EXCEPT !.value = IF v.major = 0 THEN @ % U64Size ELSE @]

\* A reader of what is to be followed by q: it finds the value, when nothing is missing,
\* and if it finds one, it is the value, and what is left is followed by q as well.
ReadsAs(result, value, S, q, t) ==
    /\ q = <<>> => result.ok
    /\ result.ok => /\ result.value = value
                    /\ result.rest \in Seq(S)
                    /\ Joined(result.rest, q) = t

LEMMA SizesOfIntegers ==
    /\ Power[1] = Base /\ Power[8] \in Nat \ {0} /\ Power[4] \in Nat \ {0} /\ Power[2] \in Nat \ {0}
    /\ Base \in Nat \ {0} /\ Base > 1 /\ Small \in Nat \ {0} /\ Small < Base
    /\ Base <= Power[2] /\ Power[2] <= Power[4] /\ Power[4] <= Power[8] /\ Power[8] >= 256
    /\ Power[4] >= 16
BY PowerValues, PowersOfTheWidths, BaseValues, SmallBounds

LEMMA SmallModulo ==
    ASSUME NEW k \in Nat \ {0}, NEW n \in 0..k - 1
    PROVE  n % k = n
OBVIOUS

LEMMA InfoTells ==
    ASSUME NEW n \in Nat
    PROVE  /\ InfoOf(n) \in Nat /\ InfoOf(n) \in 0..WidestInfo
           /\ Width(InfoOf(n)) \in {0, 1, 2, 4, 8}
           /\ Width(InfoOf(n)) = 0 => InfoOf(n) = n % U64Size
           /\ Width(InfoOf(n)) # 0 => n % Power[Width(InfoOf(n))] = n % U64Size
<1> USE SizesOfIntegers
<1>1. Power[1] \in Nat \ {0} /\ Power[1] <= Power[2]
  OBVIOUS
<1>2. CASE n < Small
  <2>1. InfoOf(n) = n /\ Width(InfoOf(n)) = 0
    BY <1>2 DEF InfoOf, Width
  <2>2. n % Power[8] = n
    <3>1. n \in 0..Power[8] - 1
      BY <1>2
    <3> QED BY <3>1, SmallModulo
  <2> QED BY <1>2, <2>1, <2>2 DEF WidestInfo, U64Size
<1>3. ASSUME NEW w \in {1, 2, 4}, n < Power[w] PROVE n % Power[w] = n % Power[8]
  <2>1. n \in 0..Power[w] - 1 /\ n \in 0..Power[8] - 1 /\ Power[w] \in Nat \ {0}
    BY <1>1, <1>3
  <2> DEFINE p == Power[w]
             r == Power[8]
  <2>2. p \in Nat \ {0} /\ r \in Nat \ {0} /\ n \in 0..p - 1 /\ n \in 0..r - 1
    BY <2>1
  <2> HIDE DEF p, r
  <2>3. n % p = n /\ n % r = n
    BY <2>2, SmallModulo
  <2> QED BY <2>3 DEF p, r
<1>4. /\ Width(Small) = 1 /\ Width(Small + 1) = 2 /\ Width(Small + 2) = 4
      /\ Width(WidestInfo) = 8
  <2>1. /\ Small - Small + 1 = 1 /\ (Small + 1) - Small + 1 = 2 /\ (Small + 2) - Small + 1 = 3
        /\ (Small + 3) - Small + 1 = 4
    OBVIOUS
  <2>2. ~(Small < Small) /\ ~(Small + 1 < Small) /\ ~(Small + 2 < Small) /\ ~(Small + 3 < Small)
    OBVIOUS
  <2> QED BY <2>1, <2>2 DEF Width, WidestInfo
<1>5. /\ Small \in 0..WidestInfo /\ Small + 1 \in 0..WidestInfo /\ Small + 2 \in 0..WidestInfo
      /\ WidestInfo \in 0..WidestInfo /\ WidestInfo \in Nat
  BY DEF WidestInfo
<1>6. CASE n >= Small /\ n < Power[1]
  <2>1. InfoOf(n) = Small
    BY <1>6 DEF InfoOf
  <2> QED BY <1>3, <1>4, <1>5, <1>6, <2>1 DEF U64Size
<1>7. CASE n >= Power[1] /\ n < Power[2]
  <2>1. InfoOf(n) = Small + 1
    BY <1>1, <1>7 DEF InfoOf
  <2> QED BY <1>3, <1>4, <1>5, <1>7, <2>1 DEF U64Size
<1>8. CASE n >= Power[2] /\ n < Power[4]
  <2>1. InfoOf(n) = Small + 2
    BY <1>1, <1>8 DEF InfoOf
  <2> QED BY <1>3, <1>4, <1>5, <1>8, <2>1 DEF U64Size
<1>9. CASE n >= Power[4]
  <2>1. InfoOf(n) = WidestInfo
    BY <1>1, <1>9 DEF InfoOf
  <2> QED BY <1>4, <1>5, <2>1 DEF U64Size
<1> QED BY <1>2, <1>6, <1>7, <1>8, <1>9

LEMMA HeadSymbols ==
    ASSUME NEW D, Byte \subseteq D, NEW major \in Nat, NEW n \in Nat
    PROVE  LET w == Width(InfoOf(n))
               h == [head |-> <<major, InfoOf(n)>>]
           IN  /\ h \in Symbols(D) /\ <<h>> \in Seq(Symbols(D)) /\ w \in Nat
               /\ BigEndian(n, w) \in [1..w -> Symbols(D)]
               /\ BigEndian(n, w) \in Seq(Symbols(D)) /\ Len(BigEndian(n, w)) = w
               /\ EncodeUint(major, n) \in Seq(Symbols(D))
<1> DEFINE w == Width(InfoOf(n))
           h == [head |-> <<major, InfoOf(n)>>]
<1>1. w \in Nat /\ InfoOf(n) \in Nat
  BY InfoTells
<1>2. h \in Symbols(D) /\ <<h>> \in Seq(Symbols(D))
  BY <1>1 DEF Symbols
<1>3. ASSUME NEW i \in 1..w PROVE [byte |-> Digit(n, w - i)] \in Symbols(D)
  <2>1. w - i \in Nat
    BY <1>1
  <2>2. Digit(n, w - i) \in D
    BY <2>1, DigitIsByte
  <2> QED BY <2>2 DEF Symbols
<1> HIDE DEF w
<1>4. BigEndian(n, w) \in [1..w -> Symbols(D)]
  BY <1>3 DEF BigEndian
<1>5. BigEndian(n, w) \in Seq(Symbols(D)) /\ Len(BigEndian(n, w)) = w
  BY <1>1, <1>4
<1>6. EncodeUint(major, n) = <<h>> \o BigEndian(n, w)
  BY DEF EncodeUint, w
<1> HIDE DEF h
<1>7. EncodeUint(major, n) \in Seq(Symbols(D))
  BY <1>2, <1>5, <1>6, ConcatProperties
<1> QED BY <1>1, <1>2, <1>4, <1>5, <1>7 DEF w, h

LEMMA DigitsSayTheValue ==
    ASSUME NEW n \in Nat, NEW w \in Nat
    PROVE  Value(BigEndian(n, w)) = n % Power[w]
<1> DEFINE digits == BigEndian(n, w)
<1>1. DOMAIN digits = 1..w /\ Len(digits) = w
  <2> DEFINE S == {digits[i] : i \in 1..w}
  <2>1. digits \in [1..w -> S]
    BY DEF BigEndian
  <2> HIDE DEF digits, S
  <2> QED BY <2>1, ListsAreSequences
<1>2. ASSUME NEW i \in 1..w PROVE digits[w - i + 1].byte = Digit(n, i - 1)
  <2>1. w - i + 1 \in 1..w /\ w - (w - i + 1) = i - 1
    OBVIOUS
  <2> QED BY <2>1 DEF BigEndian
<1> HIDE DEF digits
<1>3. [i \in DOMAIN digits |-> digits[Len(digits) - i + 1].byte] = LittleEndian(n, w)
  BY <1>1, <1>2 DEF LittleEndian
<1> QED BY <1>3, BytesSayTheNumber DEF Value, digits

LEMMA HeadIsRead ==
    ASSUME NEW D, Byte \subseteq D, NEW major \in Nat, NEW n \in Nat,
           NEW buf \in Seq(Symbols(D)), NEW q \in Seq(Symbols(D)), NEW t \in Seq(Symbols(D)),
           Joined(buf, q) = Joined(EncodeUint(major, n), t)
    PROVE  /\ ReadsAs(DecodeHead(buf), n % U64Size, Symbols(D), q, t)
           /\ DecodeHead(buf).ok => buf[1].head[1] = major
<1> DEFINE i == InfoOf(n)
           w == Width(i)
           h == [head |-> <<major, i>>]
           be == BigEndian(n, w)
           S == Symbols(D)
           rest == Tail(buf)
<1>1. /\ h \in S /\ <<h>> \in Seq(S) /\ w \in Nat
      /\ be \in Seq(S) /\ Len(be) = w /\ EncodeUint(major, n) \in Seq(S)
  BY HeadSymbols
<1>2. EncodeUint(major, n) = Joined(<<h>>, be)
  BY DEF EncodeUint, Joined
<1>3. i \in 0..WidestInfo /\ (w = 0 => i = n % U64Size) /\ (w # 0 => n % Power[w] = n % U64Size)
  BY InfoTells
<1>4. Value(be) = n % Power[w]
  BY <1>1, DigitsSayTheValue
<1>5. Joined(be, t) \in Seq(S) /\ Len(Joined(be, t)) = w + Len(t) /\ Len(t) \in Nat
  BY <1>1, JoinLengths
<1>6. h.head = <<major, i>> /\ h.head[1] = major /\ h.head[2] = i /\ "head" \in DOMAIN h
  OBVIOUS
<1> HIDE DEF i, w, h, be, S
<1>7. Joined(buf, q) = Joined(<<h>>, Joined(be, t))
  <2> DEFINE a == <<h>>
  <2>1. a \in Seq(S) /\ be \in Seq(S) /\ t \in Seq(S)
    BY <1>1 DEF S
  <2> HIDE DEF a
  <2>2. Joined(Joined(a, be), t) = Joined(a, Joined(be, t))
    BY <2>1, JoinsAssociate
  <2> QED BY <1>2, <2>2 DEF a
<1>8. /\ Len(<<h>>) = 1 /\ Len(buf) \in Nat /\ Len(q) \in Nat
      /\ Len(buf) + Len(q) = 1 + (w + Len(t))
  <2>1. Len(Joined(<<h>>, Joined(be, t))) = Len(<<h>>) + Len(Joined(be, t)) /\ Len(<<h>>) = 1
    BY <1>1, <1>5, JoinLengths, FirstOfJoin
  <2>2. Len(Joined(buf, q)) = Len(buf) + Len(q) /\ Len(buf) \in Nat /\ Len(q) \in Nat
    BY JoinLengths
  <2> QED BY <1>5, <1>7, <2>1, <2>2
<1>9. CASE buf = <<>>
  <2>1. ~DecodeHead(buf).ok
    BY <1>9 DEF DecodeHead, Throws
  <2>2. Len(buf) = 0
    BY <1>9
  <2>3. q # <<>>
    <3>1. Len(q) # 0
      BY <1>1, <1>5, <1>8, <2>2
    <3> QED BY <3>1
  <2> QED BY <2>1, <2>3 DEF ReadsAs
<1>10. CASE buf # <<>>
  <2>1. Len(buf) >= 1
    BY <1>8, <1>10, EmptySeq
  <2>2. buf \in Seq(S) /\ q \in Seq(S) /\ t \in Seq(S)
    BY DEF S
  <2>3. Before(buf, 1) = <<h>> /\ Beyond(buf, 1) \in Seq(S) /\ Joined(Beyond(buf, 1), q) = Joined(be, t)
    <3> DEFINE a == <<h>>
               u == Joined(be, t)
    <3>1. /\ a \in Seq(S) /\ u \in Seq(S) /\ Len(a) = 1 /\ Joined(buf, q) = Joined(a, u)
          /\ Len(a) <= Len(buf)
      BY <1>1, <1>5, <1>7, <1>8, <2>1
    <3> HIDE DEF a, u
    <3>2. Before(buf, Len(a)) = a /\ Beyond(buf, Len(a)) \in Seq(S) /\ Joined(Beyond(buf, Len(a)), q) = u
      <4>1. a \in Seq(S) /\ u \in Seq(S) /\ Joined(buf, q) = Joined(a, u) /\ Len(a) <= Len(buf)
        BY <3>1
      <4> QED BY <2>2, <4>1, CutOfJoin
    <3> QED BY <3>1, <3>2 DEF a, u
  <2>4. buf[1] = h
    <3>1. \A j \in 1..1 : j = 1 /\ buf[j] \in S
      BY <2>1, <2>2
    <3>2. \A j \in 1..1 - 1 + 1 : SubSeq(buf, 1, 1)[j] = buf[1 + j - 1]
      BY <3>1, SubSeqProperties
    <3>3. SubSeq(buf, 1, 1)[1] = buf[1]
      BY <3>2
    <3>4. <<h>>[1] = h
      OBVIOUS
    <3> QED BY <2>3, <3>3, <3>4 DEF Before
  <2>5. rest \in Seq(S) /\ Joined(rest, q) = Joined(be, t)
    <3>1. rest = SubSeq(buf, 2, Len(buf)) /\ 1 + 1 = 2
      BY <1>10, <2>2, TailIsSubSeq
    <3> QED BY <2>3, <3>1 DEF Beyond
  <2>6. DecodeHead(buf) = ReadUint(i, rest)
    BY <1>6, <1>10, <2>4 DEF DecodeHead
  <2> HIDE DEF rest
  <2>7. Len(rest) + Len(q) = w + Len(t) /\ Len(rest) \in Nat
    <3>1. Len(Joined(rest, q)) = Len(rest) + Len(q) /\ Len(rest) \in Nat
      BY <2>2, <2>5, JoinLengths
    <3> QED BY <1>5, <2>5, <3>1
  <2>8. CASE Len(rest) < w
    <3>1. DecodeHead(buf) = Throws
      BY <2>6, <2>8 DEF ReadUint, w
    <3>2. ~DecodeHead(buf).ok
      BY <3>1 DEF Throws
    <3>3. Len(q) # 0
      BY <1>1, <1>5, <1>8, <2>7, <2>8
    <3>4. q # <<>>
      BY <3>3
    <3> QED BY <3>2, <3>4 DEF ReadsAs
  <2>9. CASE ~(Len(rest) < w) /\ w = 0
    <3>1. DecodeHead(buf) = Read(i, rest)
      BY <1>3, <2>6, <2>9 DEF ReadUint, w
    <3>2. Joined(be, t) = t
      <4>1. be = <<>>
        BY <1>1, <2>9, EmptySeq
      <4> QED BY <2>2, <4>1, JoinsOfNothing
    <3> QED BY <1>3, <2>4, <1>6, <2>5, <2>9, <3>1, <3>2 DEF ReadsAs, Read, S
  <2>10. CASE ~(Len(rest) < w) /\ w # 0
    <3>1. DecodeHead(buf) = Read(Value(Before(rest, w)), Beyond(rest, w))
      BY <1>3, <2>6, <2>10 DEF ReadUint, w, Before, Beyond
    <3>2. Before(rest, w) = be /\ Beyond(rest, w) \in Seq(S) /\ Joined(Beyond(rest, w), q) = t
      <4>1. Len(be) <= Len(rest) /\ be \in Seq(S) /\ Len(be) = w
        BY <1>1, <2>7, <2>10
      <4>2. Before(rest, Len(be)) = be /\ Beyond(rest, Len(be)) \in Seq(S) /\ Joined(Beyond(rest, Len(be)), q) = t
        BY <2>2, <2>5, <4>1, CutOfJoin
      <4> QED BY <4>1, <4>2
    <3>3. Value(Before(rest, w)) = n % U64Size
      BY <1>3, <1>4, <2>10, <3>2
    <3> QED BY <2>4, <1>6, <3>1, <3>2, <3>3 DEF ReadsAs, Read, S
  <2> QED BY <2>8, <2>9, <2>10
<1> QED BY <1>9, <1>10

LEMMA TextItem ==
    ASSUME NEW x
    PROVE  /\ Sent(Text(x)) = Text(x) /\ Text(x).major = 3 /\ Text(x).value = x
BY DEF Sent, Text

LEMMA BytesItem ==
    ASSUME NEW s
    PROVE  /\ Sent(Bytes(s)) = Bytes(s) /\ Bytes(s).major = 2 /\ Bytes(s).value = s
BY DEF Sent, Bytes

LEMMA UintItem ==
    ASSUME NEW n
    PROVE  /\ Sent(Uint(n)) = Uint(n % U64Size) /\ Uint(n).major = 0 /\ Uint(n).value = n
BY DEF Sent, Uint

\* What follows a head.
Content(v) ==
    IF v.major = 2 THEN [i \in DOMAIN v.value |-> [byte |-> v.value[i]]] ELSE <<[text |-> v.value]>>

LEMMA ContentOfItems ==
    ASSUME NEW D, NEW v \in Items(D)
    PROVE  /\ v.major \in {0, 2, 3}
           /\ v.major = 0 => v.value \in Nat /\ v = Uint(v.value)
           /\ v.major = 2 => /\ v = Bytes(v.value) /\ v.value \in Seq(D) /\ Len(v.value) \in 0..U64Size - 1
                             /\ Content(v) \in Seq(Symbols(D)) /\ Len(Content(v)) = Len(v.value)
                             /\ [i \in DOMAIN Content(v) |-> Content(v)[i].byte] = v.value
           /\ v.major = 3 => /\ v = Text(v.value) /\ v.value \in D
                             /\ Content(v) \in Seq(Symbols(D)) /\ Len(Content(v)) = 1
                             /\ Content(v)[1].text = v.value
<1>1. CASE \E n \in Nat : v = Uint(n)
  BY <1>1 DEF Uint
<1>2. ASSUME NEW s \in Seq(D), Len(s) < U64Size, v = Bytes(s)
      PROVE  /\ v.major = 2 /\ v.value = s /\ Len(s) \in 0..U64Size - 1
             /\ Content(v) \in Seq(Symbols(D)) /\ Len(Content(v)) = Len(s)
             /\ [i \in DOMAIN Content(v) |-> Content(v)[i].byte] = s
  <2>1. v.major = 2 /\ v.value = s
    BY <1>2, BytesItem
  <2>2. Len(s) \in Nat /\ s \in [1..Len(s) -> D] /\ DOMAIN s = 1..Len(s)
    BY LenProperties
  <2>3. Len(s) \in 0..U64Size - 1
    BY <1>2, <2>2, SizesOfIntegers DEF U64Size
  <2> DEFINE c == [i \in 1..Len(s) |-> [byte |-> s[i]]]
  <2>4. Content(v) = c
    BY <2>1, <2>2 DEF Content
  <2>5. \A i \in 1..Len(s) : [byte |-> s[i]] \in Symbols(D)
    BY <2>2 DEF Symbols
  <2>6. c \in [1..Len(s) -> Symbols(D)] /\ \A i \in 1..Len(s) : c[i].byte = s[i]
    BY <2>5
  <2> HIDE DEF c
  <2>7. c \in Seq(Symbols(D)) /\ Len(c) = Len(s) /\ DOMAIN c = 1..Len(s)
    BY <2>2, <2>6, ListsAreSequences
  <2>8. [i \in DOMAIN c |-> c[i].byte] = s
    BY <2>2, <2>6, <2>7
  <2> QED BY <2>1, <2>3, <2>4, <2>7, <2>8
<1>3. ASSUME NEW x \in D, v = Text(x)
      PROVE  /\ v.major = 3 /\ v.value = x
             /\ Content(v) \in Seq(Symbols(D)) /\ Len(Content(v)) = 1 /\ Content(v)[1].text = x
  <2>1. v.major = 3 /\ v.value = x
    BY <1>3, TextItem
  <2>2. Content(v) = <<[text |-> x]>>
    BY <2>1 DEF Content
  <2>3. [text |-> x] \in Symbols(D) /\ [text |-> x].text = x
    BY DEF Symbols
  <2> DEFINE y == [text |-> x]
  <2> HIDE DEF y
  <2>4. Content(v) = <<y>> /\ y \in Symbols(D) /\ y.text = x
    BY <2>2, <2>3 DEF y
  <2> QED BY <2>1, <2>4
<1>4. \/ \E n \in Nat : v = Uint(n)
      \/ \E s \in Seq(D) : Len(s) < U64Size /\ v = Bytes(s)
      \/ \E x \in D : v = Text(x)
  BY DEF Items
<1> QED BY <1>1, <1>2, <1>3, <1>4

LEMMA ItemSymbols ==
    ASSUME NEW D, Byte \subseteq D, NEW v \in Items(D)
    PROVE  /\ EncodeItem(v) \in Seq(Symbols(D))
           /\ v.major = 0 => EncodeItem(v) = EncodeUint(0, v.value)
           /\ v.major = 2 => EncodeItem(v) = Joined(EncodeUint(2, Len(v.value)), Content(v))
           /\ v.major = 3 => EncodeItem(v) = Joined(EncodeUint(3, 1), Content(v))
<1> USE ContentOfItems
<1>1. CASE v.major = 0
  <2>1. EncodeItem(v) = EncodeUint(0, v.value)
    BY <1>1 DEF EncodeItem
  <2>2. v.value \in Nat /\ 0 \in Nat
    BY <1>1
  <2>3. EncodeUint(0, v.value) \in Seq(Symbols(D))
    BY <2>2, HeadSymbols
  <2> QED BY <1>1, <2>1, <2>3
<1>2. CASE v.major = 2
  <2>1. EncodeItem(v) = Joined(EncodeUint(2, Len(v.value)), Content(v))
    BY <1>2 DEF EncodeItem, Content, Joined
  <2>2. EncodeUint(2, Len(v.value)) \in Seq(Symbols(D))
    <3>1. Len(v.value) \in Nat /\ 2 \in Nat
      BY <1>2
    <3> QED BY <3>1, HeadSymbols
  <2>3. Content(v) \in Seq(Symbols(D))
    BY <1>2
  <2> QED BY <1>2, <2>1, <2>2, <2>3, JoinLengths
<1>3. CASE v.major = 3
  <2>1. EncodeItem(v) = Joined(EncodeUint(3, 1), Content(v))
    BY <1>3 DEF EncodeItem, Content, Joined
  <2>2. EncodeUint(3, 1) \in Seq(Symbols(D))
    BY HeadSymbols
  <2>3. Content(v) \in Seq(Symbols(D))
    BY <1>3
  <2> QED BY <1>3, <2>1, <2>2, <2>3, JoinLengths
<1> QED BY <1>1, <1>2, <1>3

LEMMA ContentIsThere ==
    ASSUME NEW S, NEW rest \in Seq(S), NEW q \in Seq(S), NEW c \in Seq(S), NEW t \in Seq(S),
           Joined(rest, q) = Joined(c, t)
    PROVE  /\ q = <<>> => ~(Len(rest) < Len(c))
           /\ ~(Len(rest) < Len(c)) =>
                 /\ Before(rest, Len(c)) = c /\ Beyond(rest, Len(c)) \in Seq(S)
                 /\ Joined(Beyond(rest, Len(c)), q) = t
<1>1. Len(Joined(rest, q)) = Len(rest) + Len(q) /\ Len(rest) \in Nat /\ Len(q) \in Nat
  BY JoinLengths
<1>2. Len(Joined(c, t)) = Len(c) + Len(t) /\ Len(c) \in Nat /\ Len(t) \in Nat
  BY JoinLengths
<1>3. ASSUME q = <<>> PROVE ~(Len(rest) < Len(c))
  <2>1. Len(q) = 0
    BY <1>3
  <2> QED BY <1>1, <1>2, <2>1
<1>4. ASSUME ~(Len(rest) < Len(c))
      PROVE  /\ Before(rest, Len(c)) = c /\ Beyond(rest, Len(c)) \in Seq(S)
             /\ Joined(Beyond(rest, Len(c)), q) = t
  <2>1. Len(c) <= Len(rest)
    BY <1>1, <1>2, <1>4
  <2> QED BY <2>1, CutOfJoin
<1> QED BY <1>3, <1>4

\* DecodeItem reads what EncodeItem wrote.
LEMMA ItemIsRead ==
    ASSUME NEW D, Byte \subseteq D, NEW v \in Items(D),
           NEW buf \in Seq(Symbols(D)), NEW q \in Seq(Symbols(D)), NEW t \in Seq(Symbols(D)),
           Joined(buf, q) = Joined(EncodeItem(v), t)
    PROVE  ReadsAs(DecodeItem(buf), Sent(v), Symbols(D), q, t)
<1> DEFINE S == Symbols(D)
           len == DecodeHead(buf)
<1>1. v.major \in {0, 2, 3}
  BY ContentOfItems
<1>2. DecodeItem(buf) = ItemOf(buf, len)
  BY DEF DecodeItem
<1>3. ~len.ok => DecodeItem(buf) = Throws /\ ~Throws.ok
  BY <1>2 DEF ItemOf, Throws
<1>4. CASE v.major = 0
  <2>1. v.value \in Nat /\ EncodeItem(v) = EncodeUint(0, v.value) /\ v = Uint(v.value)
    BY <1>4, ContentOfItems, ItemSymbols
  <2>2. ReadsAs(len, v.value % U64Size, S, q, t) /\ (len.ok => buf[1].head[1] = 0)
    BY <2>1, HeadIsRead
  <2> HIDE DEF len
  <2>3. Sent(v) = Uint(v.value % U64Size)
    BY <2>1, UintItem
  <2>4. len.ok => DecodeItem(buf) = Read(Uint(v.value % U64Size), len.rest)
    BY <1>2, <2>2 DEF ItemOf, ReadsAs
  <2> QED BY <1>3, <2>2, <2>3, <2>4 DEF ReadsAs, Read
<1>5. ASSUME NEW k \in 0..U64Size - 1, NEW major \in {2, 3}, Content(v) \in Seq(S), Len(Content(v)) = k,
             EncodeItem(v) = Joined(EncodeUint(major, k), Content(v))
      PROVE  /\ q = <<>> => len.ok /\ ~(Len(len.rest) < len.value)
             /\ len.ok => /\ buf[1].head[1] = major
                          /\ ~(Len(len.rest) < len.value) =>
                                /\ Before(len.rest, len.value) = Content(v)
                                /\ Beyond(len.rest, len.value) \in Seq(S)
                                /\ Joined(Beyond(len.rest, len.value), q) = t
  <2> DEFINE c == Content(v)
             u == Joined(c, t)
  <2>1. u \in Seq(S) /\ c \in Seq(S) /\ Len(c) = k
    BY <1>5, JoinLengths
  <2>2. k \in Nat /\ k % U64Size = k /\ major \in Nat
    <3>1. U64Size \in Nat \ {0}
      BY SizesOfIntegers DEF U64Size
    <3>2. k % U64Size = k
      BY <3>1, SmallModulo
    <3> QED BY <3>2
  <2>3. EncodeUint(major, k) \in Seq(S)
    BY <2>2, HeadSymbols
  <2> HIDE DEF c, S
  <2>4. Joined(EncodeItem(v), t) = Joined(EncodeUint(major, k), u)
    <3>1. Joined(Joined(EncodeUint(major, k), c), t) = Joined(EncodeUint(major, k), Joined(c, t))
      BY <2>1, <2>3, JoinsAssociate DEF S
    <3> QED BY <1>5, <3>1 DEF c
  <2> HIDE DEF u, len
  <2>5. ReadsAs(len, k, S, q, u) /\ (len.ok => buf[1].head[1] = major)
    <3>1. Joined(buf, q) = Joined(EncodeUint(major, k), u) /\ u \in Seq(Symbols(D))
      BY <2>1, <2>4 DEF S
    <3>2. ReadsAs(len, k % U64Size, S, q, u) /\ (len.ok => buf[1].head[1] = major)
      BY <2>2, <3>1, HeadIsRead DEF S, len
    <3> QED BY <2>2, <3>2
  <2>6. ASSUME len.ok
        PROVE  /\ len.value = k
               /\ q = <<>> => ~(Len(len.rest) < Len(c))
               /\ ~(Len(len.rest) < Len(c)) =>
                     /\ Before(len.rest, Len(c)) = c /\ Beyond(len.rest, Len(c)) \in Seq(S)
                     /\ Joined(Beyond(len.rest, Len(c)), q) = t
    <3>1. len.value = k /\ len.rest \in Seq(S) /\ Joined(len.rest, q) = Joined(c, t)
      BY <2>5, <2>6 DEF ReadsAs, u
    <3>2. q \in Seq(S) /\ t \in Seq(S)
      BY DEF S
    <3> QED BY <2>1, <3>1, <3>2, ContentIsThere
  <2> QED BY <2>1, <2>5, <2>6 DEF ReadsAs, c
<1>6. CASE v.major = 2
  <2>1. /\ v = Bytes(v.value) /\ Len(v.value) \in 0..U64Size - 1
        /\ Content(v) \in Seq(S) /\ Len(Content(v)) = Len(v.value)
        /\ [i \in DOMAIN Content(v) |-> Content(v)[i].byte] = v.value
    BY <1>6, ContentOfItems
  <2>2. EncodeItem(v) = Joined(EncodeUint(2, Len(v.value)), Content(v))
    BY <1>6, ItemSymbols
  <2>3. /\ q = <<>> => len.ok /\ ~(Len(len.rest) < len.value)
        /\ len.ok => /\ buf[1].head[1] = 2
                     /\ ~(Len(len.rest) < len.value) =>
                           /\ Before(len.rest, len.value) = Content(v)
                           /\ Beyond(len.rest, len.value) \in Seq(S)
                           /\ Joined(Beyond(len.rest, len.value), q) = t
    BY <1>5, <2>1, <2>2
  <2>4. Sent(v) = Bytes(v.value)
    BY <2>1, BytesItem
  <2> HIDE DEF len, S
  <2>5. ASSUME len.ok, ~(Len(len.rest) < len.value)
        PROVE  DecodeItem(buf) = Read(Sent(v), Beyond(len.rest, len.value))
    <3> DEFINE content == Before(len.rest, len.value)
    <3>1. ItemOf(buf, len) = Read(Bytes([i \in DOMAIN content |-> content[i].byte]), Beyond(len.rest, len.value))
      <4>1. buf[1].head[1] = 2
        BY <2>3, <2>5
      <4>2. buf[1].head[1] # 0
        BY <4>1
      <4> QED BY <2>5, <4>1, <4>2, Zenon DEF ItemOf, Before, Beyond
    <3>2. content = Content(v)
      BY <2>3, <2>5
    <3> HIDE DEF content
    <3> QED BY <1>2, <2>1, <2>4, <3>1, <3>2
  <2>6. ASSUME len.ok, Len(len.rest) < len.value PROVE ~DecodeItem(buf).ok
    BY <1>2, <2>3, <2>6 DEF ItemOf, Throws
  <2>7. CASE DecodeItem(buf).ok
    <3>1. len.ok /\ ~(Len(len.rest) < len.value)
      BY <1>3, <2>6, <2>7
    <3> QED BY <2>3, <2>5, <3>1 DEF ReadsAs, Read, S
  <2>8. CASE ~DecodeItem(buf).ok
    BY <2>3, <2>5, <2>8 DEF ReadsAs, Read
  <2> QED BY <2>7, <2>8
<1>7. CASE v.major = 3
  <2>1. /\ v = Text(v.value) /\ Content(v) \in Seq(S) /\ Len(Content(v)) = 1
        /\ Content(v)[1].text = v.value /\ 1 \in 0..U64Size - 1
    <3>1. 1 \in 0..U64Size - 1
      BY SizesOfIntegers DEF U64Size
    <3> QED BY <1>7, <3>1, ContentOfItems
  <2>2. EncodeItem(v) = Joined(EncodeUint(3, 1), Content(v))
    BY <1>7, ItemSymbols
  <2>3. /\ q = <<>> => len.ok /\ ~(Len(len.rest) < len.value)
        /\ len.ok => /\ buf[1].head[1] = 3
                     /\ ~(Len(len.rest) < len.value) =>
                           /\ Before(len.rest, len.value) = Content(v)
                           /\ Beyond(len.rest, len.value) \in Seq(S)
                           /\ Joined(Beyond(len.rest, len.value), q) = t
    BY <1>5, <2>1, <2>2
  <2>4. Sent(v) = Text(v.value)
    BY <2>1, TextItem
  <2> HIDE DEF len, S
  <2>5. ASSUME len.ok, ~(Len(len.rest) < len.value)
        PROVE  DecodeItem(buf) = Read(Sent(v), Beyond(len.rest, len.value))
    <3> DEFINE content == Before(len.rest, len.value)
    <3>1. ItemOf(buf, len) = Read(Text(content[1].text), Beyond(len.rest, len.value))
      <4>1. buf[1].head[1] = 3
        BY <2>3, <2>5
      <4>2. buf[1].head[1] # 0 /\ buf[1].head[1] # 2
        BY <4>1
      <4> QED BY <2>5, <4>1, <4>2, Zenon DEF ItemOf, Before, Beyond
    <3>2. content = Content(v)
      BY <2>3, <2>5
    <3> HIDE DEF content
    <3> QED BY <1>2, <2>1, <2>4, <3>1, <3>2
  <2>6. ASSUME len.ok, Len(len.rest) < len.value PROVE ~DecodeItem(buf).ok
    BY <1>2, <2>3, <2>6 DEF ItemOf, Throws
  <2>7. CASE DecodeItem(buf).ok
    <3>1. len.ok /\ ~(Len(len.rest) < len.value)
      BY <1>3, <2>6, <2>7
    <3> QED BY <2>3, <2>5, <3>1 DEF ReadsAs, Read, S
  <2>8. CASE ~DecodeItem(buf).ok
    BY <2>3, <2>5, <2>8 DEF ReadsAs, Read
  <2> QED BY <2>7, <2>8
<1> QED BY <1>1, <1>4, <1>6, <1>7

------------------------------------------------------------------------------
(* A message *)

LEMMA NameValues ==
    /\ Len(Names) = 14 /\ DOMAIN Names = 1..14
    /\ \A i, j \in 1..14 : Names[i] = Names[j] => i = j
    /\ Range(Names) = {Names[i] : i \in 1..14}
<1>1. Len(Names) = 14 /\ DOMAIN Names = 1..14
  BY DEF Names
<1>2. ASSUME NEW i \in 1..14, NEW j \in 1..14, Names[i] = Names[j] PROVE i = j
  BY <1>2, SMTT(60) DEF Names
<1>3. Range(Names) = {Names[i] : i \in 1..14}
  BY <1>1 DEF Range
<1> QED BY <1>1, <1>2, <1>3

\* The names before the i-th, of those in N.
NamesBefore(N, i) == {Names[j] : j \in 1..i - 1} \cap N

LEMMA CountingNames ==
    ASSUME NEW N \in SUBSET Range(Names)
    PROVE  /\ \A i \in 1..15 : /\ IsFiniteSet(NamesBefore(N, i))
                               /\ Cardinality(NamesBefore(N, i)) \in 0..14
           /\ NamesBefore(N, 1) = {} /\ NamesBefore(N, 15) = N
           /\ \A i \in 1..14 : IF Names[i] \in N
                 THEN /\ NamesBefore(N, i + 1) = NamesBefore(N, i) \cup {Names[i]}
                      /\ Names[i] \notin NamesBefore(N, i)
                      /\ Cardinality(NamesBefore(N, i + 1)) = Cardinality(NamesBefore(N, i)) + 1
                 ELSE NamesBefore(N, i + 1) = NamesBefore(N, i)
           /\ \A i \in 1..15 : Cardinality(NamesBefore(N, i)) <= Cardinality(N)
<1>1. NamesBefore(N, 1) = {}
  BY DEF NamesBefore
<1>2. NamesBefore(N, 15) = N
  BY NameValues DEF NamesBefore
<1>3. ASSUME NEW i \in 1..14
      PROVE  /\ Names[i] \in N => /\ NamesBefore(N, i + 1) = NamesBefore(N, i) \cup {Names[i]}
                                  /\ Names[i] \notin NamesBefore(N, i)
             /\ Names[i] \notin N => NamesBefore(N, i + 1) = NamesBefore(N, i)
  <2>1. 1..(i + 1) - 1 = (1..i - 1) \cup {i}
    OBVIOUS
  <2>2. ASSUME NEW j \in 1..i - 1 PROVE Names[j] # Names[i]
    <3>1. j \in 1..14 /\ j # i
      OBVIOUS
    <3> QED BY <3>1, NameValues
  <2> QED BY <2>1, <2>2 DEF NamesBefore
<1> DEFINE A == {i \in Nat : i + 1 \in 1..15 =>
                    /\ IsFiniteSet(NamesBefore(N, i + 1))
                    /\ Cardinality(NamesBefore(N, i + 1)) \in 0..i}
<1>4. 0 \in A
  <2>1. IsFiniteSet({}) /\ Cardinality({}) = 0
    BY FS_EmptySet
  <2>2. 0 + 1 = 1
    OBVIOUS
  <2> QED BY <1>1, <2>1, <2>2
<1>5. ASSUME NEW i \in Nat, i \in A PROVE i + 1 \in A
  <2> SUFFICES ASSUME (i + 1) + 1 \in 1..15
               PROVE  /\ IsFiniteSet(NamesBefore(N, (i + 1) + 1))
                      /\ Cardinality(NamesBefore(N, (i + 1) + 1)) \in 0..i + 1
    OBVIOUS
  <2> DEFINE k == i + 1
  <2>1. k \in 1..14 /\ k \in 1..15
    OBVIOUS
  <2>2. IsFiniteSet(NamesBefore(N, k)) /\ Cardinality(NamesBefore(N, k)) \in 0..i
    BY <1>5, <2>1
  <2> HIDE DEF k
  <2>3. CASE Names[k] \in N
    <3>1. /\ NamesBefore(N, k + 1) = NamesBefore(N, k) \cup {Names[k]}
          /\ Names[k] \notin NamesBefore(N, k)
      BY <1>3, <2>1, <2>3
    <3>2. /\ IsFiniteSet(NamesBefore(N, k) \cup {Names[k]})
          /\ Cardinality(NamesBefore(N, k) \cup {Names[k]}) = Cardinality(NamesBefore(N, k)) + 1
      BY <2>2, <3>1, FS_AddElement
    <3> QED BY <2>2, <3>1, <3>2 DEF k
  <2>4. CASE Names[k] \notin N
    <3>1. NamesBefore(N, k + 1) = NamesBefore(N, k)
      BY <1>3, <2>1, <2>4
    <3> QED BY <2>2, <3>1 DEF k
  <2> QED BY <2>3, <2>4
<1>6. Nat \subseteq A
  <2> HIDE DEF A
  <2> QED BY <1>4, <1>5, InductionOnSets
<1>7. ASSUME NEW i \in 1..15
      PROVE  IsFiniteSet(NamesBefore(N, i)) /\ Cardinality(NamesBefore(N, i)) \in 0..14
  <2>1. i - 1 \in Nat /\ (i - 1) + 1 = i /\ i - 1 <= 14 /\ i - 1 \in A
    BY <1>6
  <2> QED BY <2>1
<1>8. ASSUME NEW i \in 1..14, Names[i] \in N
      PROVE  Cardinality(NamesBefore(N, i + 1)) = Cardinality(NamesBefore(N, i)) + 1
  <2>1. IsFiniteSet(NamesBefore(N, i))
    BY <1>7
  <2> QED BY <1>3, <1>8, <2>1, FS_AddElement
<1>9. ASSUME NEW i \in 1..15 PROVE Cardinality(NamesBefore(N, i)) <= Cardinality(N)
  <2>1. IsFiniteSet(N)
    BY <1>2, <1>7
  <2>2. NamesBefore(N, i) \subseteq N
    BY DEF NamesBefore
  <2> QED BY <2>1, <2>2, FS_Subset
<1> QED BY <1>1, <1>2, <1>3, <1>7, <1>8, <1>9

\* The loop of decodeMap.
IsRun(entries, start, done) ==
    entries = [i \in 0..done |-> IF i = 0 THEN start ELSE DecodeEntry(entries[i - 1])]

LEMMA EntriesRun ==
    ASSUME NEW count, count.value \in Nat
    PROVE  \E entries : /\ IsRun(entries, Read(<<>>, count.rest), count.value)
                        /\ Entries(count) = entries[count.value]
<1> DEFINE start == Read(<<>>, count.rest)
           S == {n \in Nat : \E f : IsRun(f, start, n)}
<1> HIDE DEF start
<1>1. 0 \in S
  <2> DEFINE g == [k \in 0..0 |-> start]
  <2>1. IsRun(g, start, 0)
    BY DEF IsRun
  <2> QED BY <2>1
<1>2. ASSUME NEW n \in Nat, n \in S PROVE n + 1 \in S
  <2>1. PICK f : IsRun(f, start, n)
    BY <1>2
  <2> DEFINE g == [k \in 0..n + 1 |-> IF k = n + 1 THEN DecodeEntry(f[n]) ELSE f[k]]
             h == [k \in 0..n + 1 |-> IF k = 0 THEN start ELSE DecodeEntry(g[k - 1])]
  <2>2. ASSUME NEW k \in 0..n PROVE f[k] = IF k = 0 THEN start ELSE DecodeEntry(f[k - 1])
    <3>1. f = [i \in 0..n |-> IF i = 0 THEN start ELSE DecodeEntry(f[i - 1])]
      BY <2>1 DEF IsRun
    <3> QED BY <3>1
  <2>3. ASSUME NEW k \in 0..n + 1 PROVE g[k] = h[k]
    <3>1. CASE k = n + 1
      <4>1. n \in 0..n + 1 /\ n # n + 1 /\ k # 0 /\ k - 1 = n
        BY <3>1
      <4> QED BY <3>1, <4>1
    <3>2. CASE k \in 0..n
      <4>1. k # n + 1 /\ k \in 0..n + 1
        BY <3>2
      <4>2. k # 0 => k - 1 \in 0..n + 1 /\ k - 1 # n + 1
        BY <3>2
      <4>3. g[k] = f[k] /\ (k # 0 => g[k - 1] = f[k - 1])
        BY <4>1, <4>2
      <4> QED BY <2>2, <3>2, <4>1, <4>3
    <3> QED BY <3>1, <3>2
  <2>4. g = h
    BY <2>3
  <2>5. IsRun(g, start, n + 1)
    BY <2>4 DEF IsRun
  <2> QED BY <2>5
<1>3. \E f : IsRun(f, start, count.value)
  <2> HIDE DEF S
  <2>1. Nat \subseteq S
    BY <1>1, <1>2, InductionOnSets
  <2> QED BY <2>1 DEF S
<1>4. IsRun(CHOOSE f : IsRun(f, start, count.value), start, count.value)
  BY <1>3
<1> QED BY <1>4, Zenon DEF Entries, IsRun, start

\* One entry of the loop reads one entry.
LEMMA EntryIsRead ==
    ASSUME NEW D, Byte \subseteq D, NEW name \in D, NEW v \in Items(D), NEW obj, NEW before,
           NEW q \in Seq(Symbols(D)), NEW t \in Seq(Symbols(D)),
           ReadsAs(before, obj, Symbols(D), q, Joined(EncodeEntry(name, v), t))
    PROVE  ReadsAs(DecodeEntry(before),
                   [k \in DOMAIN obj \cup {name} |-> IF k = name THEN Sent(v) ELSE obj[k]],
                   Symbols(D), q, t)
<1> DEFINE S == Symbols(D)
           key == DecodeItem(before.rest)
           item == DecodeItem(key.rest)
           u == Joined(EncodeItem(v), t)
           longer == [k \in DOMAIN obj \cup {name} |-> IF k = name THEN Sent(v) ELSE obj[k]]
<1>1. Text(name) \in Items(D) /\ EncodeItem(Text(name)) \in Seq(S) /\ EncodeItem(v) \in Seq(S)
  <2>1. Text(name) \in Items(D)
    BY DEF Items
  <2> QED BY <2>1, ItemSymbols
<1>2. u \in Seq(S)
  BY <1>1, JoinLengths
<1>3. Joined(EncodeEntry(name, v), t) = Joined(EncodeItem(Text(name)), u)
  <2> DEFINE a == EncodeItem(Text(name))
             b == EncodeItem(v)
  <2>1. EncodeEntry(name, v) = Joined(a, b)
    BY DEF EncodeEntry, Joined
  <2>2. a \in Seq(S) /\ b \in Seq(S)
    BY <1>1
  <2> HIDE DEF a, b, S
  <2>3. Joined(Joined(a, b), t) = Joined(a, Joined(b, t))
    BY <2>2, JoinsAssociate DEF S
  <2> QED BY <2>1, <2>3 DEF a, b
<1>4. ASSUME before.ok
      PROVE  ReadsAs(key, Text(name), S, q, u)
  <2>1. before.rest \in Seq(S) /\ Joined(before.rest, q) = Joined(EncodeItem(Text(name)), u)
    BY <1>3, <1>4 DEF ReadsAs
  <2>2. ReadsAs(key, Sent(Text(name)), S, q, u)
    BY <1>1, <1>2, <2>1, ItemIsRead
  <2>3. Sent(Text(name)) = Text(name)
    BY TextItem
  <2> QED BY <2>2, <2>3
<1>5. ASSUME before.ok, key.ok PROVE ReadsAs(item, Sent(v), S, q, t)
  <2>1. key.rest \in Seq(S) /\ Joined(key.rest, q) = Joined(EncodeItem(v), t)
    BY <1>4, <1>5 DEF ReadsAs
  <2> QED BY <2>1, ItemIsRead
<1> HIDE DEF S, u
<1>6. ASSUME before.ok, key.ok PROVE DecodeEntry(before) = SetEntry(obj, name, item)
  <2>1. key.value = Text(name) /\ key.value.major = 3 /\ key.value.value = name /\ before.value = obj
    BY <1>4, <1>6, TextItem DEF ReadsAs
  <2> HIDE DEF key, item
  <2>2. DecodeEntry(before) = EntryAfterKey(before, key)
    BY <1>6 DEF DecodeEntry, key
  <2>3. EntryAfterKey(before, key) = SetEntry(obj, name, item)
    BY <1>6, <2>1 DEF EntryAfterKey, item
  <2> QED BY <2>2, <2>3
<1> HIDE DEF item
<1>7. ASSUME before.ok, key.ok, item.ok
      PROVE  DecodeEntry(before) = Read(longer, item.rest)
  <2>1. item.value = Sent(v)
    BY <1>5, <1>7 DEF ReadsAs
  <2>2. SetEntry(obj, name, item) = Read(longer, item.rest)
    BY <1>7, <2>1 DEF SetEntry
  <2> QED BY <1>6, <1>7, <2>2
<1>8. ~before.ok => ~DecodeEntry(before).ok
  BY DEF DecodeEntry, Throws
<1>9. ASSUME before.ok, ~key.ok PROVE ~DecodeEntry(before).ok
  BY <1>9 DEF DecodeEntry, EntryAfterKey, Throws
<1>10. ASSUME before.ok, key.ok, ~item.ok PROVE ~DecodeEntry(before).ok
  BY <1>6, <1>10 DEF SetEntry, Throws
<1> HIDE DEF key, longer
<1>11. q = <<>> => before.ok /\ key.ok /\ item.ok
  BY <1>4, <1>5 DEF ReadsAs
<1>12. CASE before.ok /\ key.ok /\ item.ok
  <2>1. item.rest \in Seq(S) /\ Joined(item.rest, q) = t
    BY <1>5, <1>12 DEF ReadsAs
  <2>2. DecodeEntry(before) = Read(longer, item.rest)
    BY <1>7, <1>12
  <2> QED BY <2>1, <2>2 DEF ReadsAs, Read, S, longer
<1>13. CASE ~(before.ok /\ key.ok /\ item.ok)
  BY <1>8, <1>9, <1>10, <1>11, <1>13 DEF ReadsAs
<1> QED BY <1>12, <1>13

\* Remainders and the joined parts, for joins that are not looked into.
TailsOf(parts, n, S, after, tail) ==
    /\ tail \in [1..n + 1 -> Seq(S)]
    /\ tail[n + 1] = after
    /\ \A i \in 1..n : tail[i] = Joined(parts[i], tail[i + 1])

Parts(n, S) == [1..n -> Seq(S)]

LEMMA FlattenReads ==
    ASSUME NEW S, NEW n \in Nat \ {0}, NEW parts \in Parts(n, S), NEW after \in Seq(S)
    PROVE  /\ FlattenSeq(parts) \in Seq(S)
           /\ \E tail : TailsOf(parts, n, S, after, tail) /\ Joined(FlattenSeq(parts), after) = tail[1]
<1>1. parts \in [1..n -> Seq(S)]
  BY DEF Parts
<1>2. /\ FlattenSeq(parts) \in Seq(S)
      /\ \E tail : Remainders(parts, n, S, after, tail) /\ Joined(FlattenSeq(parts), after) = tail[1]
  BY <1>1, FlattenFromTheFront
<1>3. PICK tail : Remainders(parts, n, S, after, tail) /\ Joined(FlattenSeq(parts), after) = tail[1]
  BY <1>2
<1>4. TailsOf(parts, n, S, after, tail)
  BY <1>3 DEF TailsOf, Remainders, Joined
<1> QED BY <1>2, <1>3, <1>4

\* The entries of a message, in order.
EntriesOf(m) ==
    [i \in DOMAIN Names |->
        IF Names[i] \in DOMAIN m THEN EncodeEntry(Names[i], m[Names[i]]) ELSE <<>>]

LEMMA EntrySymbols ==
    ASSUME NEW D, Byte \subseteq D, Range(Names) \subseteq D,
           NEW N \in SUBSET Range(Names), NEW m \in [N -> Items(D)]
    PROVE  /\ EntriesOf(m) \in [1..14 -> Seq(Symbols(D))]
           /\ \A i \in 1..14 : EntriesOf(m)[i] =
                 IF Names[i] \in N THEN EncodeEntry(Names[i], m[Names[i]]) ELSE <<>>
<1>1. DOMAIN Names = 1..14 /\ DOMAIN m = N
  BY NameValues
<1>2. ASSUME NEW i \in 1..14, Names[i] \in N
      PROVE  EncodeEntry(Names[i], m[Names[i]]) \in Seq(Symbols(D))
  <2>1. Text(Names[i]) \in Items(D) /\ m[Names[i]] \in Items(D)
    BY <1>2 DEF Items
  <2>2. /\ EncodeItem(Text(Names[i])) \in Seq(Symbols(D))
        /\ EncodeItem(m[Names[i]]) \in Seq(Symbols(D))
    BY <2>1, ItemSymbols
  <2> QED BY <2>2, JoinLengths DEF EncodeEntry, Joined
<1>3. <<>> \in Seq(Symbols(D))
  BY EmptySeq
<1> QED BY <1>1, <1>2, <1>3 DEF EntriesOf

\* What a message is on the wire.
LEMMA MapSymbols ==
    ASSUME NEW D, Byte \subseteq D, Range(Names) \subseteq D,
           NEW N \in SUBSET Range(Names), NEW m \in [N -> Items(D)]
    PROVE  /\ EncodeMap(m) \in Seq(Symbols(D)) /\ Len(EncodeMap(m)) > 0
           /\ \E tail : /\ TailsOf(EntriesOf(m), 14, Symbols(D), <<>>, tail)
                        /\ EncodeMap(m) = Joined(EncodeUint(5, Cardinality(N)), tail[1])
<1> DEFINE S == Symbols(D)
           e == EncodeUint(5, Cardinality(N))
           f == FlattenSeq(EntriesOf(m))
<1>1. EntriesOf(m) \in Parts(14, S) /\ 14 \in Nat \ {0} /\ <<>> \in Seq(S)
  <2>1. EntriesOf(m) \in [1..14 -> Seq(S)]
    BY EntrySymbols
  <2>2. 14 \in Nat \ {0}
    OBVIOUS
  <2> QED BY <2>1, <2>2, EmptySeq DEF Parts
<1>2. PICK tail : TailsOf(EntriesOf(m), 14, S, <<>>, tail) /\ Joined(f, <<>>) = tail[1]
  <2> DEFINE parts == EntriesOf(m)
             k == 14
             nothing == <<>>
  <2>1. parts \in Parts(k, S) /\ k \in Nat \ {0} /\ nothing \in Seq(S)
    BY <1>1
  <2> HIDE DEF S, parts, k, nothing
  <2>2. \E tail : TailsOf(parts, k, S, nothing, tail) /\ Joined(FlattenSeq(parts), nothing) = tail[1]
    BY <2>1, FlattenReads
  <2> QED BY <2>2 DEF parts, k, nothing
<1>3. f \in Seq(S)
  <2> HIDE DEF S
  <2> QED BY <1>1, FlattenReads
<1>4. Joined(f, <<>>) = f
  BY <1>3, JoinsOfNothing
<1>5. EncodeMap(m) = Joined(e, f)
  BY DEF EncodeMap, EntriesOf, Joined
<1>6. Cardinality(N) \in Nat /\ 5 \in Nat
  <2>1. NamesBefore(N, 15) = N /\ Cardinality(NamesBefore(N, 15)) \in 0..14
    BY CountingNames
  <2> QED BY <2>1
<1>7. e \in Seq(S)
  BY <1>6, HeadSymbols
<1>8. Len(e) # 0
  <2> DEFINE h == [head |-> <<5, InfoOf(Cardinality(N))>>]
             be == BigEndian(Cardinality(N), Width(InfoOf(Cardinality(N))))
  <2>1. h \in S /\ be \in Seq(S)
    BY <1>6, HeadSymbols
  <2>2. e = Joined(<<h>>, be)
    BY DEF EncodeUint, Joined
  <2> HIDE DEF h, be, e, S
  <2>3. <<h>> \in Seq(S) /\ Len(<<h>>) = 1
    BY <2>1, FirstOfJoin
  <2> DEFINE a == <<h>>
  <2>4. a \in Seq(S) /\ Len(a) = 1
    BY <2>3
  <2> HIDE DEF a
  <2>5. Len(Joined(a, be)) = Len(a) + Len(be) /\ Len(be) \in Nat
    BY <2>1, <2>4, JoinLengths
  <2> QED BY <2>2, <2>4, <2>5 DEF a
<1> HIDE DEF e, f, S
<1>9. EncodeMap(m) \in Seq(S) /\ Len(EncodeMap(m)) = Len(e) + Len(f) /\ Len(e) \in Nat /\ Len(f) \in Nat
  BY <1>3, <1>5, <1>7, JoinLengths
<1>10. Len(EncodeMap(m)) > 0
  BY <1>8, <1>9
<1>11. EncodeMap(m) = Joined(e, tail[1])
  BY <1>2, <1>4, <1>5
<1> QED BY <1>2, <1>9, <1>10, <1>11 DEF S, e

\* cborDecode reads what cborEncode wrote, and nothing that is only the beginning of it.
LEMMA MapIsRead ==
    ASSUME NEW D, Byte \subseteq D, Range(Names) \subseteq D,
           NEW N \in SUBSET Range(Names), NEW m \in [N -> Items(D)],
           NEW buf \in Seq(Symbols(D)), NEW q \in Seq(Symbols(D)), Joined(buf, q) = EncodeMap(m)
    PROVE  ReadsAs(DecodeMap(buf), [k \in N |-> Sent(m[k])], Symbols(D), q, <<>>)
<1> DEFINE S == Symbols(D)
           n == Cardinality(N)
           count == DecodeHead(buf)
           said(i) == [k \in NamesBefore(N, i) |-> Sent(m[k])]
           read(i) == Cardinality(NamesBefore(N, i))
<1>1. PICK tail : /\ TailsOf(EntriesOf(m), 14, S, <<>>, tail)
                  /\ EncodeMap(m) = Joined(EncodeUint(5, n), tail[1])
  BY MapSymbols
<1>2. /\ tail \in [1..15 -> Seq(S)] /\ tail[15] = <<>>
      /\ \A i \in 1..14 : tail[i] = Joined(EntriesOf(m)[i], tail[i + 1]) /\ tail[i + 1] \in Seq(S)
  BY <1>1 DEF TailsOf
<1>3. /\ NamesBefore(N, 1) = {} /\ NamesBefore(N, 15) = N /\ n \in 0..14
      /\ \A i \in 1..15 : read(i) \in 0..n
      /\ \A i \in 1..14 : IF Names[i] \in N
            THEN NamesBefore(N, i + 1) = NamesBefore(N, i) \cup {Names[i]} /\ read(i + 1) = read(i) + 1
                 /\ Names[i] \notin NamesBefore(N, i)
            ELSE NamesBefore(N, i + 1) = NamesBefore(N, i)
  <2>1. NamesBefore(N, 1) = {} /\ NamesBefore(N, 15) = N
    BY CountingNames
  <2>2. \A i \in 1..15 : read(i) \in 0..14 /\ read(i) <= n
    BY CountingNames
  <2>3. n \in 0..14
    BY <2>1, <2>2
  <2>4. \A i \in 1..15 : read(i) \in 0..n
    <3> TAKE i \in 1..15
    <3>1. read(i) \in 0..14 /\ read(i) <= n
      BY <2>2
    <3> HIDE DEF read, n
    <3> QED BY <2>3, <3>1
  <2>5. \A i \in 1..14 : IF Names[i] \in N
            THEN NamesBefore(N, i + 1) = NamesBefore(N, i) \cup {Names[i]} /\ read(i + 1) = read(i) + 1
                 /\ Names[i] \notin NamesBefore(N, i)
            ELSE NamesBefore(N, i + 1) = NamesBefore(N, i)
    BY CountingNames
  <2> QED BY <2>1, <2>3, <2>4, <2>5
<1>4. n \in Nat /\ n % U64Size = n /\ 5 \in Nat
  <2>0. n \in 0..14
    BY <1>3
  <2> HIDE DEF n
  <2>1. U64Size \in Nat \ {0} /\ n \in 0..U64Size - 1
    BY <2>0, SizesOfIntegers DEF U64Size
  <2>2. n % U64Size = n
    BY <2>1, SmallModulo
  <2> QED BY <2>0, <2>2
<1>5. ReadsAs(count, n, S, q, tail[1])
  <2>1. tail[1] \in Seq(Symbols(D)) /\ Joined(buf, q) = Joined(EncodeUint(5, n), tail[1])
    BY <1>1, <1>2
  <2>2. ReadsAs(count, n % U64Size, Symbols(D), q, tail[1])
    BY <1>4, <2>1, HeadIsRead
  <2> QED BY <1>4, <2>2
<1>6. DecodeMap(buf) = MapOf(count)
  BY DEF DecodeMap
<1> HIDE DEF count
<1>7. CASE ~count.ok
  <2>1. ~DecodeMap(buf).ok
    BY <1>6, <1>7 DEF MapOf, Throws
  <2> QED BY <1>5, <1>7, <2>1 DEF ReadsAs
<1>8. CASE count.ok
  <2>1. count.value = n /\ count.rest \in Seq(S) /\ Joined(count.rest, q) = tail[1]
    BY <1>5, <1>8 DEF ReadsAs
  <2>2. PICK f : IsRun(f, Read(<<>>, count.rest), n) /\ Entries(count) = f[n]
    <3>1. count.value \in Nat
      BY <1>4, <2>1
    <3> HIDE DEF n
    <3> QED BY <2>1, <3>1, EntriesRun
  <2>3. f[0] = Read(<<>>, count.rest) /\ \A i \in 0..n - 1 : f[i + 1] = DecodeEntry(f[i])
    <3>1. f = [i \in 0..n |-> IF i = 0 THEN Read(<<>>, count.rest) ELSE DecodeEntry(f[i - 1])]
      BY <2>2 DEF IsRun
    <3>0. n \in Nat
      BY <1>4
    <3> HIDE DEF n
    <3>2. 0 \in 0..n
      BY <3>0
    <3>3. \A i \in 0..n - 1 : i + 1 \in 0..n /\ i + 1 # 0 /\ (i + 1) - 1 = i
      BY <3>0
    <3> QED BY <3>1, <3>2, <3>3
  <2> DEFINE A == {i \in Nat : i + 1 \in 1..15 =>
                      ReadsAs(f[read(i + 1)], said(i + 1), S, q, tail[i + 1])}
  <2>4. 0 \in A
    <3>0. NamesBefore(N, 1) = {} /\ Cardinality({}) = 0
      BY <1>3, FS_EmptySet
    <3>1. read(1) = 0 /\ 0 + 1 = 1
      <4>1. read(1) = 0
        BY <3>0
      <4>2. 0 + 1 = 1
        OBVIOUS
      <4> HIDE DEF read
      <4> QED BY <4>1, <4>2
    <3>2. said(1) = <<>>
      BY <3>0
    <3>3. ReadsAs(f[0], <<>>, S, q, tail[1])
      BY <2>1, <2>3 DEF ReadsAs, Read
    <3> QED BY <3>1, <3>2, <3>3
  <2>5. ASSUME NEW j \in Nat, j \in A PROVE j + 1 \in A
    <3> DEFINE i == j + 1
    <3> SUFFICES ASSUME i + 1 \in 1..15
                 PROVE  ReadsAs(f[read(i + 1)], said(i + 1), S, q, tail[i + 1])
      OBVIOUS
    <3>1. i \in 1..14 /\ i \in 1..15
      OBVIOUS
    <3>2. ReadsAs(f[read(i)], said(i), S, q, tail[i])
      BY <2>5, <3>1
    <3> HIDE DEF i, n, read, said, S
    <3>3. tail[i] = Joined(EntriesOf(m)[i], tail[i + 1]) /\ tail[i + 1] \in Seq(S)
      BY <1>2, <3>1
    <3>4. CASE Names[i] \in N
      <4> DEFINE name == Names[i]
      <4>1. EntriesOf(m)[i] = EncodeEntry(name, m[name])
        BY <3>1, <3>4, EntrySymbols
      <4>2. name \in D /\ m[name] \in Items(D)
        BY <3>4
      <4> HIDE DEF name
      <4>3. ReadsAs(f[read(i)], said(i), S, q, Joined(EncodeEntry(name, m[name]), tail[i + 1]))
        BY <3>2, <3>3, <4>1
      <4>4. ReadsAs(DecodeEntry(f[read(i)]),
                    [k \in DOMAIN said(i) \cup {name} |-> IF k = name THEN Sent(m[name]) ELSE said(i)[k]],
                    S, q, tail[i + 1])
        BY <3>3, <4>2, <4>3, EntryIsRead DEF S
      <4>5. /\ NamesBefore(N, i + 1) = NamesBefore(N, i) \cup {name} /\ read(i + 1) = read(i) + 1
            /\ name \notin NamesBefore(N, i) /\ read(i + 1) \in 0..n /\ read(i) \in 0..n
        BY <1>3, <3>1, <3>4 DEF name
      <4>6. [k \in DOMAIN said(i) \cup {name} |-> IF k = name THEN Sent(m[name]) ELSE said(i)[k]]
            = said(i + 1)
        <5>1. DOMAIN said(i) = NamesBefore(N, i) /\ \A k \in NamesBefore(N, i) : said(i)[k] = Sent(m[k])
          BY DEF said
        <5> QED BY <4>5, <5>1 DEF said
      <4>7. f[read(i + 1)] = DecodeEntry(f[read(i)])
        <5>1. read(i) \in 0..n - 1 /\ read(i + 1) = read(i) + 1
          BY <1>4, <4>5
        <5> QED BY <2>3, <5>1
      <4> QED BY <4>4, <4>6, <4>7
    <3>5. CASE Names[i] \notin N
      <4>1. NamesBefore(N, i + 1) = NamesBefore(N, i)
        BY <1>3, <3>1, <3>5
      <4>2. read(i + 1) = read(i) /\ said(i + 1) = said(i)
        BY <4>1 DEF read, said
      <4>3. tail[i] = tail[i + 1]
        <5>1. EntriesOf(m)[i] = <<>>
          BY <3>1, <3>5, EntrySymbols
        <5>2. Joined(<<>>, tail[i + 1]) = tail[i + 1]
          BY <3>3, JoinsOfNothing
        <5> QED BY <3>3, <5>1, <5>2
      <4> QED BY <3>2, <4>2, <4>3
    <3> QED BY <3>4, <3>5
  <2>6. Nat \subseteq A
    <3> HIDE DEF A
    <3> QED BY <2>4, <2>5, InductionOnSets
  <2>7. ReadsAs(f[read(15)], said(15), S, q, tail[15])
    <3>1. 14 \in A
      <4> HIDE DEF A
      <4> QED BY <2>6
    <3>2. 14 + 1 = 15 /\ 14 + 1 \in 1..15
      OBVIOUS
    <3> HIDE DEF read, said, S
    <3> QED BY <3>1, <3>2
  <2>8. read(15) = n /\ said(15) = [k \in N |-> Sent(m[k])] /\ tail[15] = <<>>
    BY <1>2, <1>3
  <2>9. DecodeMap(buf) = f[n]
    BY <1>6, <1>8, <2>2 DEF MapOf
  <2> HIDE DEF read, said, n
  <2> QED BY <2>7, <2>8, <2>9
<1> QED BY <1>7, <1>8

LEMMA MessageIsRead ==
    ASSUME NEW D, Byte \subseteq D, Range(Names) \subseteq D,
           NEW N \in SUBSET Range(Names), NEW m \in [N -> Items(D)]
    PROVE  /\ EncodeMap(m) # <<>>
           /\ DecodeMap(EncodeMap(m)).ok
           /\ DecodeMap(EncodeMap(m)).value = [k \in N |-> Sent(m[k])]
           /\ DecodeMap(EncodeMap(m)).rest = <<>>
           /\ \A k \in 0..Len(EncodeMap(m)) - 1 : ~DecodeMap(SubSeq(EncodeMap(m), 1, k)).ok
<1> DEFINE S == Symbols(D)
           w == EncodeMap(m)
           said == [k \in N |-> Sent(m[k])]
<1>1. w \in Seq(S) /\ Len(w) > 0 /\ <<>> \in Seq(S)
  BY MapSymbols, EmptySeq
<1>2. ASSUME NEW buf \in Seq(S), NEW q \in Seq(S), Joined(buf, q) = w
      PROVE  ReadsAs(DecodeMap(buf), said, S, q, <<>>)
  BY <1>2, MapIsRead
<1> HIDE DEF S, w, said
<1>3. ReadsAs(DecodeMap(w), said, S, <<>>, <<>>)
  <2>1. Joined(w, <<>>) = w
    BY <1>1, JoinsOfNothing
  <2> QED BY <1>1, <1>2, <2>1
<1>4. /\ DecodeMap(w).ok /\ DecodeMap(w).value = said /\ DecodeMap(w).rest \in Seq(S)
      /\ Joined(DecodeMap(w).rest, <<>>) = <<>>
  BY <1>3 DEF ReadsAs
<1>5. DecodeMap(w).rest = <<>>
  BY <1>4, JoinsOfNothing
<1>6. ASSUME NEW k \in 0..Len(w) - 1 PROVE ~DecodeMap(SubSeq(w, 1, k)).ok
  <2>1. k \in 0..Len(w) /\ Len(w) - k > 0
    BY <1>1
  <2>2. /\ Before(w, k) \in Seq(S) /\ Beyond(w, k) \in Seq(S) /\ Joined(Before(w, k), Beyond(w, k)) = w
        /\ Len(Beyond(w, k)) > 0
    BY <1>1, <2>1, Cut
  <2>3. ReadsAs(DecodeMap(Before(w, k)), said, S, Beyond(w, k), <<>>)
    BY <1>2, <2>2
  <2>4. ASSUME DecodeMap(Before(w, k)).ok PROVE FALSE
    <3> DEFINE r == DecodeMap(Before(w, k)).rest
               q == Beyond(w, k)
    <3>1. r \in Seq(S) /\ q \in Seq(S) /\ Joined(r, q) = <<>> /\ Len(q) > 0
      BY <2>2, <2>3, <2>4 DEF ReadsAs
    <3> HIDE DEF r, q
    <3>2. Len(Joined(r, q)) = Len(r) + Len(q) /\ Len(r) \in Nat /\ Len(q) \in Nat
      BY <3>1, JoinLengths
    <3>3. Len(<<>>) = 0
      OBVIOUS
    <3> QED BY <3>1, <3>2, <3>3
  <2> QED BY <2>4 DEF Before
<1>7. w # <<>>
  BY <1>1
<1> QED BY <1>4, <1>5, <1>6, <1>7 DEF w, said

------------------------------------------------------------------------------
(* Lengths as bytes *)

\* What varint does with n, when it has the bytes of the numbers below.
VarintOf(rest, n) == IF n < 128 THEN <<n>> ELSE Joined(<<128 + (n % 128)>>, rest[n \div 128])

Readings == [Nat -> Seq(Int)]

NextReading(rest) == [n \in Nat |-> VarintOf(rest, n)]

LEMMA VarintSteps ==
    ASSUME NEW n \in Nat
    PROVE  /\ n \div 128 \in Nat /\ 128 + (n % 128) \in Int
           /\ n >= 128 => n \div 128 < n /\ n \div 128 > 0
           /\ n % 128 \in 0..127 /\ n = (n \div 128) * 128 + (n % 128)
<1> DEFINE q == n \div 128
           r == n % 128
<1>1. q \in Int /\ r \in 0..127 /\ n = q * 128 + r
  BY Division
<1> HIDE DEF q, r
<1>2. q \in Nat /\ 128 + r \in Int /\ (n >= 128 => q < n /\ q > 0)
  BY <1>1
<1> QED BY <1>1, <1>2 DEF q, r

LEMMA VarintOfIsSequence ==
    ASSUME NEW rest \in Readings, NEW n \in Nat
    PROVE  VarintOf(rest, n) \in Seq(Int)
<1>1. <<n>> \in Seq(Int)
  OBVIOUS
<1>2. <<128 + (n % 128)>> \in Seq(Int) /\ rest[n \div 128] \in Seq(Int)
  BY VarintSteps DEF Readings
<1>3. Joined(<<128 + (n % 128)>>, rest[n \div 128]) \in Seq(Int)
  BY <1>2, JoinLengths
<1> QED BY <1>1, <1>3 DEF VarintOf

LEMMA VarintUnfolds ==
    /\ Varint \in Readings
    /\ \A n \in Nat : Varint[n] = VarintOf(Varint, n)
<1> DEFINE none == [n \in Nat |-> <<>>]
           step == [k \in Nat |-> [g \in Readings |-> NextReading(g)]]
<1>1. none \in Readings
  <2>1. <<>> \in Seq(Int)
    OBVIOUS
  <2> QED BY <2>1 DEF Readings
<1>2. \A g \in Readings : NextReading(g) \in Readings
  BY VarintOfIsSequence DEF Readings, NextReading
<1>3. step \in Steps(Readings)
  BY <1>2 DEF Steps
<1>4. \A k \in Nat, g \in Readings : step[k][g] = NextReading(g)
  OBVIOUS
<1> HIDE DEF step, none
<1>5. PICK g \in [Nat -> Readings] : \A k \in Nat : g[k + 1] = step[k][g[k]]
  <2>1. \E g : g \in Runs(Readings, none, step)
    BY <1>1, <1>3, Recursion
  <2> QED BY <2>1 DEF Runs
<1>6. ASSUME NEW k \in Nat, NEW n \in Nat PROVE g[k] \in Readings /\ g[k + 1][n] = VarintOf(g[k], n)
  <2>1. g[k] \in Readings /\ g[k + 1] = NextReading(g[k])
    BY <1>4, <1>5
  <2> QED BY <2>1 DEF NextReading
\* The bytes of n are found in n + 1 steps.
<1> DEFINE Found == {m \in Nat : \A n \in 0..m, k, l \in Nat : n < k /\ n < l => g[k][n] = g[l][n]}
<1>7. ASSUME NEW n \in Nat, \A j \in Nat, k, l \in Nat : j < n /\ j < k /\ j < l => g[k][j] = g[l][j],
             NEW k \in Nat, NEW l \in Nat, n < k, n < l
      PROVE  g[k][n] = g[l][n]
  <2>1. k - 1 \in Nat /\ l - 1 \in Nat /\ (k - 1) + 1 = k /\ (l - 1) + 1 = l
    BY <1>7
  <2>2. g[k][n] = VarintOf(g[k - 1], n) /\ g[l][n] = VarintOf(g[l - 1], n)
    BY <1>6, <2>1
  <2>3. CASE n < 128
    BY <2>2, <2>3 DEF VarintOf
  <2>4. CASE ~(n < 128)
    <3> DEFINE j == n \div 128
    <3>1. j \in Nat /\ j < n
      BY <2>4, VarintSteps
    <3> HIDE DEF j
    <3>2. j < k - 1 /\ j < l - 1
      BY <1>7, <3>1
    <3>3. g[k - 1][j] = g[l - 1][j]
      BY <1>7, <2>1, <3>1, <3>2
    <3> QED BY <2>2, <2>4, <3>3 DEF VarintOf, j
  <2> QED BY <2>3, <2>4
<1>8. 0 \in Found
  <2>1. ASSUME NEW n \in 0..0, NEW k \in Nat, NEW l \in Nat, n < k, n < l PROVE g[k][n] = g[l][n]
    <3>1. n \in Nat /\ \A j \in Nat : ~(j < n)
      OBVIOUS
    <3> QED BY <1>7, <2>1, <3>1
  <2> QED BY <2>1
<1>9. \A m \in Nat : m \in Found => m + 1 \in Found
  <2> SUFFICES ASSUME NEW m \in Nat, m \in Found, NEW n \in 0..m + 1, NEW k \in Nat, NEW l \in Nat,
                      n < k, n < l
               PROVE  g[k][n] = g[l][n]
    OBVIOUS
  <2>1. \A j \in Nat, c, d \in Nat : j < n /\ j < c /\ j < d => g[c][j] = g[d][j]
    <3> SUFFICES ASSUME NEW j \in Nat, NEW c \in Nat, NEW d \in Nat, j < n, j < c, j < d
                 PROVE  g[c][j] = g[d][j]
      OBVIOUS
    <3>1. j \in 0..m
      OBVIOUS
    <3> QED BY <3>1
  <2>2. n \in Nat
    OBVIOUS
  <2> QED BY <1>7, <2>1, <2>2
<1>10. Nat \subseteq Found
  <2> HIDE DEF Found
  <2> QED BY <1>8, <1>9, InductionOnSets
<1>11. ASSUME NEW n \in Nat, NEW k \in Nat, NEW l \in Nat, n < k, n < l PROVE g[k][n] = g[l][n]
  <2>1. n \in Found /\ n \in 0..n
    BY <1>10
  <2> QED BY <1>11, <2>1
<1> HIDE DEF Found
<1> DEFINE f == [n \in Nat |-> g[n + 1][n]]
<1>12. f \in Readings
  <2>1. \A n \in Nat : g[n + 1] \in Readings
    BY <1>5
  <2> QED BY <2>1 DEF Readings
<1>13. ASSUME NEW n \in Nat PROVE f[n] = VarintOf(f, n)
  <2>1. f[n] = VarintOf(g[n], n)
    BY <1>6
  <2>2. CASE n < 128
    BY <2>1, <2>2 DEF VarintOf
  <2>3. CASE ~(n < 128)
    <3> DEFINE j == n \div 128
    <3>1. j \in Nat /\ j < n
      BY <2>3, VarintSteps
    <3> HIDE DEF j
    <3>2. f[j] = g[j + 1][j] /\ j + 1 \in Nat /\ j < j + 1
      BY <3>1
    <3> HIDE DEF f
    <3>3. f[j] = g[n][j]
      BY <1>11, <3>1, <3>2
    <3> QED BY <2>1, <2>3, <3>3 DEF VarintOf, j
  <2> QED BY <2>2, <2>3
<1>14. f = [n \in Nat |-> f[n]]
  OBVIOUS
<1> HIDE DEF f
<1>15. f = [n \in Nat |-> IF n < 128 THEN <<n>> ELSE <<128 + (n % 128)>> \o f[n \div 128]]
  <2>1. \A n \in Nat : f[n] = IF n < 128 THEN <<n>> ELSE <<128 + (n % 128)>> \o f[n \div 128]
    BY <1>13 DEF VarintOf, Joined
  <2> QED BY <1>14, <2>1
<1>16. Varint = [n \in Nat |-> IF n < 128 THEN <<n>> ELSE <<128 + (n % 128)>> \o Varint[n \div 128]]
  BY <1>15, ZenonT(40) DEF Varint
<1>17. ASSUME NEW n \in Nat PROVE Varint[n] = VarintOf(Varint, n)
  BY <1>16 DEF VarintOf, Joined
\* It is the one that was found, which is all sequences.
<1> DEFINE S == {m \in Nat : \A n \in 0..m : Varint[n] = f[n]}
<1>18. ASSUME NEW n \in Nat, \A j \in Nat : j < n => Varint[j] = f[j] PROVE Varint[n] = f[n]
  <2>1. n >= 128 => Varint[n \div 128] = f[n \div 128]
    <3> DEFINE j == n \div 128
    <3>1. n >= 128 => j \in Nat /\ j < n
      BY VarintSteps
    <3> HIDE DEF j
    <3>2. n >= 128 => Varint[j] = f[j]
      BY <1>18, <3>1
    <3> QED BY <3>2 DEF j
  <2>2. f[n] = VarintOf(f, n) /\ Varint[n] = VarintOf(Varint, n)
    BY <1>13, <1>17
  <2>3. CASE n < 128
    BY <2>2, <2>3 DEF VarintOf
  <2>4. CASE ~(n < 128)
    <3>1. Varint[n \div 128] = f[n \div 128]
      BY <2>1, <2>4
    <3> QED BY <2>2, <2>4, <3>1 DEF VarintOf
  <2> QED BY <2>3, <2>4
<1>19. 0 \in S
  <2>1. \A j \in Nat : ~(j < 0)
    OBVIOUS
  <2>2. Varint[0] = f[0]
    BY <1>18, <2>1
  <2> QED BY <2>2
<1>20. ASSUME NEW m \in Nat, m \in S PROVE m + 1 \in S
  <2> SUFFICES ASSUME NEW n \in 0..m + 1 PROVE Varint[n] = f[n]
    OBVIOUS
  <2>1. \A j \in Nat : j < n => j \in 0..m
    OBVIOUS
  <2>2. \A j \in Nat : j < n => Varint[j] = f[j]
    BY <1>20, <2>1
  <2>3. n \in Nat
    OBVIOUS
  <2> QED BY <1>18, <2>2, <2>3
<1>21. Nat \subseteq S
  <2> HIDE DEF S
  <2> QED BY <1>19, <1>20, InductionOnSets
<1>22. \A n \in Nat : Varint[n] = f[n]
  BY <1>21
<1>23. Varint \in Readings
  BY <1>12, <1>16, <1>22 DEF Readings
<1> QED BY <1>17, <1>23

LEMMA SmallVarint ==
    \A n \in Nat : n < 128 => Varint[n] = <<n>> /\ Varint[n] \in Seq(Int) /\ Len(Varint[n]) = 1
<1> TAKE n \in Nat
<1> HAVE n < 128
<1>1. Varint[n] = VarintOf(Varint, n)
  BY VarintUnfolds
<1>2. Varint[n] = <<n>>
  BY <1>1 DEF VarintOf
<1> QED BY <1>2

------------------------------------------------------------------------------
(* The canonical serialisation, of the renderer and of the firmware *)

LEMMA FieldNameValues ==
    /\ Len(FieldNames) = 5 /\ DOMAIN FieldNames = 1..5
    /\ FieldNames[1] = "fair_value_usd_micros" /\ FieldNames[2] = "max_deposit_usd"
    /\ FieldNames[3] = "new_admin" /\ FieldNames[4] = "oracle" /\ FieldNames[5] = "token"
    /\ \A i, j \in 1..5 : FieldNames[i] = FieldNames[j] => i = j
    /\ Range(FieldNames) = {FieldNames[i] : i \in 1..5}
    /\ \A i \in 1..5 : NameSymbol(FieldNames[i]) = 1000 + i
<1>1. Len(FieldNames) = 5 /\ DOMAIN FieldNames = 1..5
  BY DEF FieldNames
<1>2. /\ FieldNames[1] = "fair_value_usd_micros" /\ FieldNames[2] = "max_deposit_usd"
      /\ FieldNames[3] = "new_admin" /\ FieldNames[4] = "oracle" /\ FieldNames[5] = "token"
  BY DEF FieldNames
<1>3. ASSUME NEW i \in 1..5, NEW j \in 1..5, FieldNames[i] = FieldNames[j] PROVE i = j
  BY <1>3 DEF FieldNames
<1>4. Range(FieldNames) = {FieldNames[i] : i \in 1..5}
  BY <1>1 DEF Range
<1>5. ASSUME NEW i \in 1..5 PROVE NameSymbol(FieldNames[i]) = 1000 + i
  <2>1. \A j \in DOMAIN FieldNames : FieldNames[j] = FieldNames[i] <=> j = i
    BY <1>1, <1>3
  <2>2. (CHOOSE j \in DOMAIN FieldNames : FieldNames[j] = FieldNames[i]) = i
    BY <1>1, <2>1
  <2>3. NameSymbol(FieldNames[i]) = DOMAIN_SEP + i
    BY <2>2 DEF NameSymbol
  <2> QED BY <2>3 DEF DOMAIN_SEP
<1> QED BY <1>1, <1>2, <1>3, <1>4, <1>5

\* Five parts, the first in front.
LEMMA FlattenFive ==
    ASSUME NEW S, NEW parts \in Parts(5, S)
    PROVE  /\ FlattenSeq(parts) \in Seq(S)
           /\ FlattenSeq(parts) =
                 Joined(parts[1], Joined(parts[2], Joined(parts[3], Joined(parts[4], parts[5]))))
<1> DEFINE n == 5
           nothing == <<>>
<1>1. n \in Nat \ {0} /\ nothing \in Seq(S) /\ parts \in Parts(n, S)
  BY EmptySeq
<1> HIDE DEF n, nothing
<1>2. /\ FlattenSeq(parts) \in Seq(S)
      /\ \E tail : TailsOf(parts, n, S, nothing, tail) /\ Joined(FlattenSeq(parts), nothing) = tail[1]
  BY <1>1, FlattenReads
<1>3. PICK tail : TailsOf(parts, n, S, nothing, tail) /\ Joined(FlattenSeq(parts), nothing) = tail[1]
  BY <1>2
<1>4. FlattenSeq(parts) = tail[1]
  BY <1>2, <1>3, JoinsOfNothing DEF nothing
<1>5. /\ tail[6] = <<>>
      /\ tail[1] = Joined(parts[1], tail[2]) /\ tail[2] = Joined(parts[2], tail[3])
      /\ tail[3] = Joined(parts[3], tail[4]) /\ tail[4] = Joined(parts[4], tail[5])
      /\ tail[5] = Joined(parts[5], tail[6])
  <2>1. tail[5 + 1] = <<>> /\ \A i \in 1..5 : tail[i] = Joined(parts[i], tail[i + 1])
    BY <1>3 DEF TailsOf, n, nothing
  <2>2. /\ 5 + 1 = 6 /\ 1 + 1 = 2 /\ 2 + 1 = 3 /\ 3 + 1 = 4 /\ 4 + 1 = 5
        /\ 1 \in 1..5 /\ 2 \in 1..5 /\ 3 \in 1..5 /\ 4 \in 1..5 /\ 5 \in 1..5
    OBVIOUS
  <2> QED BY <2>1, <2>2
<1>6. parts[5] \in Seq(S)
  BY DEF Parts
<1>7. tail[5] = parts[5]
  BY <1>5, <1>6, JoinsOfNothing
<1> QED BY <1>2, <1>4, <1>5, <1>7

LEMMA ByteIsInt == Byte \subseteq Int /\ Byte \subseteq Nat
BY BaseValues DEF Byte

LEMMA FieldsOfArgs ==
    ASSUME NEW args \in Seq(Byte), NEW from \in Nat, NEW length \in Nat \ {0}, from + length <= Len(args)
    PROVE  /\ Fields(args, from, length) \in Seq(Byte) /\ Len(Fields(args, from, length)) = length
           /\ Fields(args, from, length) \in [1..length -> Byte]
           /\ \A i \in 1..length : Fields(args, from, length)[i] = args[from + i]
<1>1. Len(args) \in Nat /\ from + 1 \in Int /\ from + length \in Int
      /\ \A i \in from + 1..from + length : args[i] \in Byte
  OBVIOUS
<1> DEFINE s == SubSeq(args, from + 1, from + length)
<1>2. /\ s \in Seq(Byte)
      /\ Len(s) = IF from + 1 <= from + length THEN (from + length) - (from + 1) + 1 ELSE 0
      /\ \A i \in 1..(from + length) - (from + 1) + 1 : s[i] = args[(from + 1) + i - 1]
  BY <1>1, SubSeqProperties
<1> HIDE DEF s
<1>3. Len(s) = length /\ \A i \in 1..length : s[i] = args[from + i]
  <2>1. (from + length) - (from + 1) + 1 = length /\ from + 1 <= from + length
    OBVIOUS
  <2>2. \A i \in 1..length : (from + 1) + i - 1 = from + i
    OBVIOUS
  <2> QED BY <1>2, <2>1, <2>2
<1>4. s \in [1..length -> Byte]
  BY <1>2, <1>3, LenProperties
<1> QED BY <1>2, <1>3, <1>4 DEF Fields, s

LEMMA FieldsAreBytes ==
    \A args \in Seq(Byte), from \in Nat, length \in Nat \ {0} :
        from + length <= Len(args) =>
            Fields(args, from, length) \in Seq(Byte) /\ Len(Fields(args, from, length)) = length
<1> SUFFICES ASSUME NEW args \in Seq(Byte), NEW from \in Nat, NEW length \in Nat \ {0},
                    from + length <= Len(args)
             PROVE  Fields(args, from, length) \in Seq(Byte) /\ Len(Fields(args, from, length)) = length
  OBVIOUS
<1> QED BY FieldsOfArgs

LEMMA EncodedKey ==
    ASSUME NEW i \in 1..5
    PROVE  /\ EncodeKey(FieldNames[i]) = <<1, 1000 + i>>
           /\ EncodeKey(FieldNames[i]) \in Seq(Int) /\ Len(EncodeKey(FieldNames[i])) = 2
BY FieldNameValues DEF EncodeKey

LEMMA KeysAreSequences ==
    \A i \in 1..5 : EncodeKey(FieldNames[i]) \in Seq(Int) /\ Len(EncodeKey(FieldNames[i])) = 2
<1> TAKE i \in 1..5
<1> QED BY EncodedKey

LEMMA EncodedInteger ==
    ASSUME NEW n \in Int
    PROVE  /\ EncodeU128(n) = Joined(<<6>>, LittleEndian(n, 16))
           /\ EncodeU128(n) \in Seq(Int) /\ Len(EncodeU128(n)) = 17
           /\ SerialiseScalar(Big(n)) = EncodeU128(n)
<1>1. EncodeU128(n) = Joined(<<6>>, LittleEndian(n, 16))
  BY DEF EncodeU128, Joined
<1>2. LittleEndian(n, 16) \in Seq(Int) /\ Len(LittleEndian(n, 16)) = 16
  <2>1. LittleEndian(n, 16) \in Seq(Byte) /\ Len(LittleEndian(n, 16)) = 16
    BY LittleEndianBytes
  <2> QED BY <2>1, ByteIsInt, SeqMonotonic
<1>3. <<6>> \in Seq(Int) /\ Len(<<6>>) = 1
  OBVIOUS
<1> DEFINE a == <<6>>
           b == LittleEndian(n, 16)
<1>4. Joined(a, b) \in Seq(Int) /\ Len(Joined(a, b)) = 17
  <2>1. a \in Seq(Int) /\ b \in Seq(Int) /\ Len(a) = 1 /\ Len(b) = 16
    BY <1>2, <1>3
  <2> HIDE DEF a, b
  <2>2. Joined(a, b) \in Seq(Int) /\ Len(Joined(a, b)) = Len(a) + Len(b)
    BY <2>1, JoinLengths
  <2> QED BY <2>1, <2>2
<1>5. SerialiseScalar(Big(n)) = EncodeU128(n)
  BY DEF SerialiseScalar, Big, EncodeU128
<1> QED BY <1>1, <1>4, <1>5

LEMMA EncodedKeyOfAccount ==
    ASSUME NEW b \in Seq(Byte), Len(b) = 32
    PROVE  /\ EncodeBytes(b) = Joined(<<2, 32>>, b)
           /\ EncodeBytes(b) \in Seq(Int) /\ Len(EncodeBytes(b)) = 34
           /\ SerialiseScalar(Raw(b)) = EncodeBytes(b)
<1>1. Varint[Len(b)] = <<32>>
  BY SmallVarint
<1>2. <<2>> \o <<32>> = <<2, 32>> /\ <<2, 32>> \in Seq(Int) /\ Len(<<2, 32>>) = 2
  <2>1. <<2>> \in Seq(Int) /\ <<32>> \in Seq(Int) /\ Len(<<2>>) = 1 /\ Len(<<32>>) = 1
    OBVIOUS
  <2>2. <<2, 32>> \in Seq(Int) /\ Len(<<2, 32>>) = 2
    OBVIOUS
  <2> DEFINE x == <<2>>
             y == <<32>>
             z == <<2, 32>>
  <2>3. x[1] = 2 /\ y[1] = 32 /\ z[1] = 2 /\ z[2] = 32
    OBVIOUS
  <2>4. x \in Seq(Int) /\ y \in Seq(Int) /\ z \in Seq(Int) /\ Len(x) = 1 /\ Len(y) = 1 /\ Len(z) = 2
    BY <2>1, <2>2
  <2> HIDE DEF x, y, z
  <2>5. x \o y \in Seq(Int) /\ Len(x \o y) = 2 /\ (x \o y)[1] = x[1] /\ (x \o y)[2] = y[1]
    <3>1. Len(x \o y) = Len(x) + Len(y) /\ x \o y \in Seq(Int)
          /\ \A i \in 1..Len(x) + Len(y) : (x \o y)[i] = IF i <= Len(x) THEN x[i] ELSE y[i - Len(x)]
      <4>1. x \o y \in Seq(Int) /\ Len(x \o y) = Len(x) + Len(y)
        BY <2>4, ConcatProperties
      <4>2. \A i \in 1..Len(x) + Len(y) : (x \o y)[i] = IF i <= Len(x) THEN x[i] ELSE y[i - Len(x)]
        BY <2>4, ConcatProperties
      <4> QED BY <4>1, <4>2
    <3>2. 1 \in 1..Len(x) + Len(y) /\ 2 \in 1..Len(x) + Len(y) /\ 1 <= Len(x) /\ ~(2 <= Len(x)) /\ 2 - Len(x) = 1
      BY <2>4
    <3> QED BY <3>1, <3>2, <2>4
  <2>6. x \o y = z
    <3>1. \A i \in 1..Len(z) : (x \o y)[i] = z[i]
      BY <2>3, <2>4, <2>5
    <3> QED BY <3>1, <2>4, <2>5, SeqEqual
  <2> QED BY <2>2, <2>6 DEF x, y, z
<1>3. EncodeBytes(b) = Joined(<<2, 32>>, b)
  BY <1>1, <1>2 DEF EncodeBytes, Joined
<1>4. b \in Seq(Int)
  BY ByteIsInt, SeqMonotonic
<1>5. SerialiseScalar(Raw(b)) = Joined(<<2>>, Joined(<<32>>, b))
  BY <1>1 DEF SerialiseScalar, Raw, Prefixed, Joined
<1> DEFINE x == <<2>>
           y == <<32>>
           z == <<2, 32>>
<1>6. x \in Seq(Int) /\ y \in Seq(Int) /\ z \in Seq(Int) /\ Len(z) = 2 /\ Joined(x, y) = z
  BY <1>2 DEF Joined
<1> HIDE DEF x, y, z
<1>7. Joined(x, Joined(y, b)) = Joined(z, b)
  BY <1>4, <1>6, JoinsAssociate
<1>8. Joined(z, b) \in Seq(Int) /\ Len(Joined(z, b)) = Len(z) + Len(b)
  BY <1>4, <1>6, JoinLengths
<1>9. Len(Joined(z, b)) = 34
  BY <1>6, <1>8
<1> QED BY <1>3, <1>5, <1>7, <1>8, <1>9 DEF x, y, z

\* The bytes of the fields of an object, one part for each name there is.
FieldParts(bytesOf) ==
    [i \in DOMAIN FieldNames |->
        IF FieldNames[i] \in DOMAIN bytesOf
        THEN <<1, NameSymbol(FieldNames[i])>> \o bytesOf[FieldNames[i]] ELSE <<>>]

LEMMA FieldsAreParts ==
    ASSUME NEW bytesOf,
           \A i \in 1..5 : FieldNames[i] \in DOMAIN bytesOf => bytesOf[FieldNames[i]] \in Seq(Int)
    PROVE  /\ FieldParts(bytesOf) \in Parts(5, Int)
           /\ \A i \in 1..5 : FieldParts(bytesOf)[i] =
                 IF FieldNames[i] \in DOMAIN bytesOf
                 THEN Joined(EncodeKey(FieldNames[i]), bytesOf[FieldNames[i]]) ELSE <<>>
           /\ SerialiseFields(bytesOf) =
                 Joined(Joined(<<16>>, Varint[Cardinality(DOMAIN bytesOf)]), FlattenSeq(FieldParts(bytesOf)))
<1> DEFINE part(i) ==
        IF FieldNames[i] \in DOMAIN bytesOf
        THEN <<1, NameSymbol(FieldNames[i])>> \o bytesOf[FieldNames[i]] ELSE <<>>
<1>1. FieldParts(bytesOf) = [i \in 1..5 |-> part(i)]
  BY FieldNameValues DEF FieldParts
<1>2. \A i \in 1..5 : part(i) = IF FieldNames[i] \in DOMAIN bytesOf
                                THEN Joined(EncodeKey(FieldNames[i]), bytesOf[FieldNames[i]]) ELSE <<>>
  BY DEF EncodeKey, Joined
<1> HIDE DEF part
<1>3. ASSUME NEW i \in 1..5 PROVE part(i) \in Seq(Int)
  <2>1. CASE FieldNames[i] \in DOMAIN bytesOf
    <3>1. bytesOf[FieldNames[i]] \in Seq(Int) /\ EncodeKey(FieldNames[i]) \in Seq(Int)
      BY <2>1, EncodedKey
    <3>2. Joined(EncodeKey(FieldNames[i]), bytesOf[FieldNames[i]]) \in Seq(Int)
      BY <3>1, JoinLengths
    <3> QED BY <1>2, <2>1, <3>2
  <2>2. CASE FieldNames[i] \notin DOMAIN bytesOf
    <3>1. part(i) = <<>>
      BY <1>2, <2>2
    <3> QED BY <3>1
  <2> QED BY <2>1, <2>2
<1>4. [i \in 1..5 |-> part(i)] \in Parts(5, Int)
  BY <1>3 DEF Parts
<1>5. \A i \in 1..5 : [j \in 1..5 |-> part(j)][i] = part(i)
  OBVIOUS
<1>6. SerialiseFields(bytesOf) =
         Joined(Joined(<<16>>, Varint[Cardinality(DOMAIN bytesOf)]), FlattenSeq(FieldParts(bytesOf)))
  BY DEF SerialiseFields, FieldParts, Joined
<1> QED BY <1>1, <1>2, <1>4, <1>5, <1>6

\* Four fields and one field: all the adapters there are.
LEMMA FourNames ==
    Cardinality({"token", "fair_value_usd_micros", "oracle", "max_deposit_usd"}) = 4
<1>1. IsFiniteSet({}) /\ Cardinality({}) = 0
  BY FS_EmptySet
<1>2. IsFiniteSet({"token"}) /\ Cardinality({"token"}) = 1
  BY FS_Singleton
<1>3. /\ IsFiniteSet({"token", "fair_value_usd_micros"})
      /\ Cardinality({"token", "fair_value_usd_micros"}) = 2
  <2>1. {"token", "fair_value_usd_micros"} = {"token"} \cup {"fair_value_usd_micros"}
        /\ "fair_value_usd_micros" \notin {"token"}
    OBVIOUS
  <2> QED BY <1>2, <2>1, FS_AddElement
<1>4. /\ IsFiniteSet({"token", "fair_value_usd_micros", "oracle"})
      /\ Cardinality({"token", "fair_value_usd_micros", "oracle"}) = 3
  <2>1. /\ {"token", "fair_value_usd_micros", "oracle"} = {"token", "fair_value_usd_micros"} \cup {"oracle"}
        /\ "oracle" \notin {"token", "fair_value_usd_micros"}
    OBVIOUS
  <2> QED BY <1>3, <2>1, FS_AddElement
<1>5. /\ {"token", "fair_value_usd_micros", "oracle", "max_deposit_usd"}
            = {"token", "fair_value_usd_micros", "oracle"} \cup {"max_deposit_usd"}
      /\ "max_deposit_usd" \notin {"token", "fair_value_usd_micros", "oracle"}
  OBVIOUS
<1> QED BY <1>4, <1>5, FS_AddElement

\* The four fields of whitelist-collateral, the header in front and the names in order.
Written(count, value, deposit, oracle, token) ==
    Joined(Joined(<<16>>, <<count>>),
           Joined(Joined(EncodeKey("fair_value_usd_micros"), value),
           Joined(Joined(EncodeKey("max_deposit_usd"), deposit),
           Joined(Joined(EncodeKey("oracle"), oracle),
                  Joined(EncodeKey("token"), token)))))

LEMMA FieldsInOrder ==
    ASSUME NEW bytesOf, DOMAIN bytesOf = {"token", "fair_value_usd_micros", "oracle", "max_deposit_usd"},
           \A name \in DOMAIN bytesOf : bytesOf[name] \in Seq(Int)
    PROVE  SerialiseFields(bytesOf) =
              Written(4, bytesOf["fair_value_usd_micros"], bytesOf["max_deposit_usd"],
                      bytesOf["oracle"], bytesOf["token"])
<1>1. /\ FieldNames[1] \in DOMAIN bytesOf /\ FieldNames[2] \in DOMAIN bytesOf
      /\ FieldNames[3] \notin DOMAIN bytesOf /\ FieldNames[4] \in DOMAIN bytesOf
      /\ FieldNames[5] \in DOMAIN bytesOf
  BY FieldNameValues
<1>2. \A i \in 1..5 : FieldNames[i] \in DOMAIN bytesOf => bytesOf[FieldNames[i]] \in Seq(Int)
  OBVIOUS
<1> DEFINE p == FieldParts(bytesOf)
<1>3. /\ p \in Parts(5, Int)
      /\ \A i \in 1..5 : p[i] = IF FieldNames[i] \in DOMAIN bytesOf
                                THEN Joined(EncodeKey(FieldNames[i]), bytesOf[FieldNames[i]]) ELSE <<>>
      /\ SerialiseFields(bytesOf) =
            Joined(Joined(<<16>>, Varint[Cardinality(DOMAIN bytesOf)]), FlattenSeq(p))
  BY <1>2, FieldsAreParts
<1> HIDE DEF p
<1>4. /\ p[1] = Joined(EncodeKey(FieldNames[1]), bytesOf[FieldNames[1]])
      /\ p[2] = Joined(EncodeKey(FieldNames[2]), bytesOf[FieldNames[2]])
      /\ p[3] = <<>>
      /\ p[4] = Joined(EncodeKey(FieldNames[4]), bytesOf[FieldNames[4]])
      /\ p[5] = Joined(EncodeKey(FieldNames[5]), bytesOf[FieldNames[5]])
  BY <1>1, <1>3
<1>5. FlattenSeq(p) = Joined(p[1], Joined(p[2], Joined(p[3], Joined(p[4], p[5]))))
  BY <1>3, FlattenFive
<1>6. p[4] \in Seq(Int) /\ p[5] \in Seq(Int)
  BY <1>3 DEF Parts
<1>7. Joined(p[4], p[5]) \in Seq(Int)
  BY <1>6, JoinLengths
<1>8. Joined(p[3], Joined(p[4], p[5])) = Joined(p[4], p[5])
  BY <1>4, <1>7, JoinsOfNothing
<1>9. Varint[Cardinality(DOMAIN bytesOf)] = <<4>>
  BY FourNames, SmallVarint
<1> QED BY <1>3, <1>4, <1>5, <1>8, <1>9, FieldNameValues DEF Written

WrittenAlone(key) == Joined(Joined(<<16>>, <<1>>), Joined(EncodeKey("new_admin"), key))

LEMMA FieldAlone ==
    ASSUME NEW bytesOf, DOMAIN bytesOf = {"new_admin"}, bytesOf["new_admin"] \in Seq(Int)
    PROVE  SerialiseFields(bytesOf) = WrittenAlone(bytesOf["new_admin"])
<1>1. /\ FieldNames[1] \notin DOMAIN bytesOf /\ FieldNames[2] \notin DOMAIN bytesOf
      /\ FieldNames[3] \in DOMAIN bytesOf /\ FieldNames[4] \notin DOMAIN bytesOf
      /\ FieldNames[5] \notin DOMAIN bytesOf /\ FieldNames[3] = "new_admin"
  BY FieldNameValues
<1>2. \A i \in 1..5 : FieldNames[i] \in DOMAIN bytesOf => bytesOf[FieldNames[i]] \in Seq(Int)
  OBVIOUS
<1> DEFINE p == FieldParts(bytesOf)
<1>3. /\ p \in Parts(5, Int)
      /\ \A i \in 1..5 : p[i] = IF FieldNames[i] \in DOMAIN bytesOf
                                THEN Joined(EncodeKey(FieldNames[i]), bytesOf[FieldNames[i]]) ELSE <<>>
      /\ SerialiseFields(bytesOf) =
            Joined(Joined(<<16>>, Varint[Cardinality(DOMAIN bytesOf)]), FlattenSeq(p))
  BY <1>2, FieldsAreParts
<1> HIDE DEF p
<1>4. /\ p[1] = <<>> /\ p[2] = <<>>
      /\ p[3] = Joined(EncodeKey("new_admin"), bytesOf["new_admin"])
      /\ p[4] = <<>> /\ p[5] = <<>>
  BY <1>1, <1>3
<1>5. FlattenSeq(p) = Joined(p[1], Joined(p[2], Joined(p[3], Joined(p[4], p[5]))))
  BY <1>3, FlattenFive
<1>6. p[3] \in Seq(Int) /\ p[5] \in Seq(Int)
  BY <1>3 DEF Parts
<1>7. Joined(p[4], p[5]) = <<>>
  BY <1>4, <1>6, JoinsOfNothing
<1>8. Joined(p[3], Joined(p[4], p[5])) = p[3]
  BY <1>6, <1>7, JoinsOfNothing
<1>9. Joined(p[1], Joined(p[2], p[3])) = p[3]
  BY <1>4, <1>6, JoinsOfNothing
<1>10. Varint[Cardinality(DOMAIN bytesOf)] = <<1>>
  <2>1. Cardinality({"new_admin"}) = 1
    BY FS_Singleton
  <2> QED BY <2>1, SmallVarint
<1> QED BY <1>3, <1>4, <1>5, <1>8, <1>9, <1>10 DEF WrittenAlone

\* The five fields of the arguments of whitelist-collateral.
LEMMA ArgsOfCollateral ==
    ASSUME NEW args \in Seq(Byte)
    PROVE  Len(args) = 80 =>
           /\ Fields(args, 0, 32) \in Seq(Byte) /\ Len(Fields(args, 0, 32)) = 32
           /\ Fields(args, 40, 32) \in Seq(Byte) /\ Len(Fields(args, 40, 32)) = 32
           /\ Fields(args, 32, 8) \in [1..8 -> Byte] /\ Fields(args, 72, 8) \in [1..8 -> Byte]
           /\ Number(Fields(args, 32, 8)) \in 0..Power[8] - 1
           /\ Number(Fields(args, 72, 8)) \in 0..Power[8] - 1
           /\ Number(Fields(args, 32, 8)) \in Int /\ Number(Fields(args, 72, 8)) \in Int
<1>0. HAVE Len(args) = 80
<1>1. /\ Fields(args, 0, 32) \in Seq(Byte) /\ Len(Fields(args, 0, 32)) = 32
      /\ Fields(args, 40, 32) \in Seq(Byte) /\ Len(Fields(args, 40, 32)) = 32
      /\ Fields(args, 32, 8) \in Seq(Byte) /\ Len(Fields(args, 32, 8)) = 8
      /\ Fields(args, 72, 8) \in Seq(Byte) /\ Len(Fields(args, 72, 8)) = 8
  <2>1. Fields(args, 0, 32) \in Seq(Byte) /\ Len(Fields(args, 0, 32)) = 32
    <3>1. 0 + 32 <= Len(args) /\ 0 \in Nat /\ 32 \in Nat \ {0}
      BY <1>0
    <3> QED BY <3>1, FieldsAreBytes
  <2>2. Fields(args, 40, 32) \in Seq(Byte) /\ Len(Fields(args, 40, 32)) = 32
    <3>1. 40 + 32 <= Len(args) /\ 40 \in Nat /\ 32 \in Nat \ {0}
      BY <1>0
    <3> QED BY <3>1, FieldsAreBytes
  <2>3. Fields(args, 32, 8) \in Seq(Byte) /\ Len(Fields(args, 32, 8)) = 8
    <3>1. 32 + 8 <= Len(args) /\ 32 \in Nat /\ 8 \in Nat \ {0}
      BY <1>0
    <3> QED BY <3>1, FieldsAreBytes
  <2>4. Fields(args, 72, 8) \in Seq(Byte) /\ Len(Fields(args, 72, 8)) = 8
    <3>1. 72 + 8 <= Len(args) /\ 72 \in Nat /\ 8 \in Nat \ {0}
      BY <1>0
    <3> QED BY <3>1, FieldsAreBytes
  <2> QED BY <2>1, <2>2, <2>3, <2>4
<1>2. Fields(args, 32, 8) \in [1..8 -> Byte] /\ Fields(args, 72, 8) \in [1..8 -> Byte]
  BY <1>1, LenProperties
<1> DEFINE w == 8
<1>3. w \in Nat /\ Fields(args, 32, 8) \in [1..w -> Byte] /\ Fields(args, 72, 8) \in [1..w -> Byte]
  BY <1>2
<1> HIDE DEF w
<1>4. Number(Fields(args, 32, 8)) \in 0..Power[w] - 1 /\ Number(Fields(args, 72, 8)) \in 0..Power[w] - 1
  BY <1>3, NumberKeepsTheBytes
<1> QED BY <1>1, <1>2, <1>4 DEF w

\* Two ways to write four fields one after the other.
Appended(h, k1, u1, k2, u2, k3, u3, k4, u4) ==
    Joined(Joined(Joined(Joined(Joined(Joined(Joined(Joined(h, k1), u1), k2), u2), k3), u3), k4), u4)

Listed(h, k1, u1, k2, u2, k3, u3, k4, u4) ==
    Joined(h, Joined(Joined(k1, u1), Joined(Joined(k2, u2), Joined(Joined(k3, u3), Joined(k4, u4)))))

\* What the firmware writes, part after part.
LEMMA DeviceWrites ==
    ASSUME NEW args \in Seq(Byte)
    PROVE  /\ Len(args) = 80 =>
                 DeviceCanonical(1, args) =
                    Written(4, EncodeU128(Number(Fields(args, 32, 8))),
                            EncodeU128(Number(Fields(args, 72, 8))),
                            EncodeBytes(Fields(args, 40, 32)), EncodeBytes(Fields(args, 0, 32)))
           /\ Len(args) = 32 => DeviceCanonical(3, args) = WrittenAlone(EncodeBytes(Fields(args, 0, 32)))
<1>1. ASSUME Len(args) = 80
      PROVE  DeviceCanonical(1, args) =
                    Written(4, EncodeU128(Number(Fields(args, 32, 8))),
                            EncodeU128(Number(Fields(args, 72, 8))),
                            EncodeBytes(Fields(args, 40, 32)), EncodeBytes(Fields(args, 0, 32)))
  <2> DEFINE h == Joined(<<16>>, <<4>>)
             k1 == EncodeKey("fair_value_usd_micros")
             u1 == EncodeU128(Number(Fields(args, 32, 8)))
             k2 == EncodeKey("max_deposit_usd")
             u2 == EncodeU128(Number(Fields(args, 72, 8)))
             k3 == EncodeKey("oracle")
             u3 == EncodeBytes(Fields(args, 40, 32))
             k4 == EncodeKey("token")
             u4 == EncodeBytes(Fields(args, 0, 32))
  <2>1. DeviceCanonical(1, args) = Appended(h, k1, u1, k2, u2, k3, u3, k4, u4)
    <3>1. Varint[4] = <<4>>
      BY SmallVarint
    <3> QED BY <3>1 DEF DeviceCanonical, Appended, Joined
  <2>2. h \in Seq(Int)
    <3>1. <<16>> \in Seq(Int) /\ <<4>> \in Seq(Int)
      OBVIOUS
    <3> QED BY <3>1, JoinLengths
  <2>3. k1 \in Seq(Int) /\ k2 \in Seq(Int) /\ k3 \in Seq(Int) /\ k4 \in Seq(Int)
    BY FieldNameValues, EncodedKey
  <2>4. u1 \in Seq(Int) /\ u2 \in Seq(Int)
    BY <1>1, ArgsOfCollateral, EncodedInteger
  <2>5. u3 \in Seq(Int) /\ u4 \in Seq(Int)
    BY <1>1, ArgsOfCollateral, EncodedKeyOfAccount
  <2>6. Written(4, u1, u2, u3, u4) = Listed(h, k1, u1, k2, u2, k3, u3, k4, u4)
    BY DEF Written, Listed
  <2> HIDE DEF h, k1, k2, k3, k4, u1, u2, u3, u4
  <2>7. Appended(h, k1, u1, k2, u2, k3, u3, k4, u4) = Listed(h, k1, u1, k2, u2, k3, u3, k4, u4)
    <3>1. ASSUME NEW x \in Seq(Int), NEW k \in Seq(Int), NEW u \in Seq(Int)
          PROVE  Joined(Joined(x, k), u) = Joined(x, Joined(k, u)) /\ Joined(k, u) \in Seq(Int)
      BY JoinsAssociate, JoinLengths
    <3> DEFINE f1 == Joined(k1, u1)
               f2 == Joined(k2, u2)
               f3 == Joined(k3, u3)
               f4 == Joined(k4, u4)
    <3>2. f1 \in Seq(Int) /\ f2 \in Seq(Int) /\ f3 \in Seq(Int) /\ f4 \in Seq(Int)
      BY <2>3, <2>4, <2>5, <3>1
    <3>3. /\ Joined(h, f1) \in Seq(Int) /\ Joined(Joined(h, f1), f2) \in Seq(Int)
          /\ Joined(Joined(Joined(h, f1), f2), f3) \in Seq(Int)
          /\ Joined(f3, f4) \in Seq(Int) /\ Joined(f2, Joined(f3, f4)) \in Seq(Int)
      <4> HIDE DEF f1, f2, f3, f4
      <4> QED BY <2>2, <3>1, <3>2
    <3>4. Joined(Joined(h, k1), u1) = Joined(h, f1)
      BY <2>2, <2>3, <2>4, <3>1
    <3>5. ASSUME NEW x \in Seq(Int)
          PROVE  /\ Joined(Joined(x, k2), u2) = Joined(x, f2)
                 /\ Joined(Joined(x, k3), u3) = Joined(x, f3)
                 /\ Joined(Joined(x, k4), u4) = Joined(x, f4)
      BY <2>3, <2>4, <2>5, <3>1
    <3> HIDE DEF f1, f2, f3, f4
    <3>6. Joined(Joined(Joined(Joined(h, f1), f2), f3), f4) = Joined(Joined(Joined(h, f1), f2), Joined(f3, f4))
      BY <2>2, <3>1, <3>2, <3>3
    <3>7. Joined(Joined(Joined(h, f1), f2), Joined(f3, f4)) = Joined(Joined(h, f1), Joined(f2, Joined(f3, f4)))
      BY <2>2, <3>1, <3>2, <3>3
    <3>8. Joined(Joined(h, f1), Joined(f2, Joined(f3, f4))) = Joined(h, Joined(f1, Joined(f2, Joined(f3, f4))))
      BY <2>2, <3>1, <3>2, <3>3
    <3>9. Joined(Joined(Joined(Joined(Joined(Joined(Joined(Joined(h, k1), u1), k2), u2), k3), u3), k4), u4)
          = Joined(Joined(Joined(Joined(h, f1), f2), f3), f4)
      BY <2>2, <3>3, <3>4, <3>5
    <3> QED BY <3>6, <3>7, <3>8, <3>9 DEF f1, f2, f3, f4, Appended, Listed
  <2> QED BY <2>1, <2>6, <2>7 DEF u1, u2, u3, u4
<1>2. ASSUME Len(args) = 32
      PROVE  DeviceCanonical(3, args) = WrittenAlone(EncodeBytes(Fields(args, 0, 32)))
  <2> DEFINE h == Joined(<<16>>, <<1>>)
             k == EncodeKey("new_admin")
             u == EncodeBytes(Fields(args, 0, 32))
  <2>1. DeviceCanonical(3, args) = Joined(Joined(h, k), u)
    <3>1. Varint[1] = <<1>>
      BY SmallVarint
    <3>2. DeviceCanonical(3, args) =
             <<16>> \o Varint[1] \o EncodeKey("new_admin") \o EncodeBytes(Fields(args, 0, 32))
      BY DEF DeviceCanonical
    <3> QED BY <3>1, <3>2 DEF Joined
  <2>2. h \in Seq(Int)
    <3>1. <<16>> \in Seq(Int) /\ <<1>> \in Seq(Int)
      OBVIOUS
    <3> QED BY <3>1, JoinLengths
  <2>3. k \in Seq(Int)
    BY FieldNameValues, EncodedKey
  <2>4. u \in Seq(Int)
    <3>1. Fields(args, 0, 32) \in Seq(Byte) /\ Len(Fields(args, 0, 32)) = 32
      <4>1. 0 + 32 <= Len(args) /\ 0 \in Nat /\ 32 \in Nat \ {0}
        BY <1>2
      <4> QED BY <4>1, FieldsAreBytes
    <3> QED BY <3>1, EncodedKeyOfAccount
  <2>5. WrittenAlone(u) = Joined(h, Joined(k, u))
    BY DEF WrittenAlone
  <2> HIDE DEF h, k, u
  <2>6. Joined(Joined(h, k), u) = Joined(h, Joined(k, u))
    BY <2>2, <2>3, <2>4, JoinsAssociate
  <2> QED BY <2>1, <2>5, <2>6 DEF u
<1> QED BY <1>1, <1>2

LEMMA Kinds ==
    ASSUME NEW kind, NEW args, IsDecodable(kind, args)
    PROVE  (kind = 1 /\ Len(args) = 80) \/ (kind = 3 /\ Len(args) = 32)
BY DEF IsDecodable, ArgsLength, KeyLength

\* What the renderer serialises with its names sorted is what the firmware writes by hand.
LEMMA DeviceAgrees ==
    ASSUME NEW kind, NEW args \in Seq(Byte), IsDecodable(kind, args)
    PROVE  SerialiseIntent(Decode(kind, args)) = DeviceCanonical(kind, args)
<1>1. CASE kind = 1 /\ Len(args) = 80
  <2> DEFINE intent == DecodeCollateral(args)
             bytesOf == [name \in DOMAIN intent |-> SerialiseScalar(intent[name])]
  <2>1. Decode(kind, args) = intent
    BY <1>1 DEF Decode
  <2>2. DOMAIN intent = {"token", "fair_value_usd_micros", "oracle", "max_deposit_usd"}
    BY DEF DecodeCollateral
  <2>3. /\ intent["token"] = Raw(Fields(args, 0, 32)) /\ intent["oracle"] = Raw(Fields(args, 40, 32))
        /\ intent["fair_value_usd_micros"] = Big(Number(Fields(args, 32, 8)))
        /\ intent["max_deposit_usd"] = Big(Number(Fields(args, 72, 8)))
    BY DEF DecodeCollateral, KeyLength
  <2>4. SerialiseIntent(Decode(kind, args)) = SerialiseFields(bytesOf)
    BY <2>1 DEF SerialiseIntent
  <2> HIDE DEF intent
  <2>5. DOMAIN bytesOf = {"token", "fair_value_usd_micros", "oracle", "max_deposit_usd"}
    BY <2>2
  <2>6. /\ bytesOf["token"] = SerialiseScalar(intent["token"])
        /\ bytesOf["oracle"] = SerialiseScalar(intent["oracle"])
        /\ bytesOf["fair_value_usd_micros"] = SerialiseScalar(intent["fair_value_usd_micros"])
        /\ bytesOf["max_deposit_usd"] = SerialiseScalar(intent["max_deposit_usd"])
    BY <2>2
  <2> HIDE DEF bytesOf
  <2>7. /\ bytesOf["token"] = EncodeBytes(Fields(args, 0, 32)) /\ bytesOf["token"] \in Seq(Int)
        /\ bytesOf["oracle"] = EncodeBytes(Fields(args, 40, 32)) /\ bytesOf["oracle"] \in Seq(Int)
    BY <1>1, <2>3, <2>6, ArgsOfCollateral, EncodedKeyOfAccount
  <2>8. /\ bytesOf["fair_value_usd_micros"] = EncodeU128(Number(Fields(args, 32, 8)))
        /\ bytesOf["fair_value_usd_micros"] \in Seq(Int)
        /\ bytesOf["max_deposit_usd"] = EncodeU128(Number(Fields(args, 72, 8)))
        /\ bytesOf["max_deposit_usd"] \in Seq(Int)
    BY <1>1, <2>3, <2>6, ArgsOfCollateral, EncodedInteger
  <2>9. SerialiseFields(bytesOf) =
           Written(4, bytesOf["fair_value_usd_micros"], bytesOf["max_deposit_usd"],
                   bytesOf["oracle"], bytesOf["token"])
    <3>1. \A name \in DOMAIN bytesOf : bytesOf[name] \in Seq(Int)
      BY <2>5, <2>7, <2>8
    <3> QED BY <2>5, <3>1, FieldsInOrder
  <2> QED BY <1>1, <2>4, <2>7, <2>8, <2>9, DeviceWrites
<1>2. CASE kind = 3 /\ Len(args) = 32
  <2> DEFINE intent == DecodeTransfer(args)
             bytesOf == [name \in DOMAIN intent |-> SerialiseScalar(intent[name])]
  <2>1. Decode(kind, args) = intent
    BY <1>2 DEF Decode
  <2>2. DOMAIN intent = {"new_admin"} /\ intent["new_admin"] = Raw(Fields(args, 0, 32))
    BY DEF DecodeTransfer, KeyLength
  <2>3. SerialiseIntent(Decode(kind, args)) = SerialiseFields(bytesOf)
    BY <2>1 DEF SerialiseIntent
  <2> HIDE DEF intent
  <2>4. DOMAIN bytesOf = {"new_admin"} /\ bytesOf["new_admin"] = SerialiseScalar(intent["new_admin"])
    BY <2>2
  <2> HIDE DEF bytesOf
  <2>5. Fields(args, 0, 32) \in Seq(Byte) /\ Len(Fields(args, 0, 32)) = 32
    <3>1. 0 + 32 <= Len(args) /\ 0 \in Nat /\ 32 \in Nat \ {0}
      BY <1>2
    <3> QED BY <3>1, FieldsAreBytes
  <2>6. bytesOf["new_admin"] = EncodeBytes(Fields(args, 0, 32)) /\ bytesOf["new_admin"] \in Seq(Int)
    BY <2>2, <2>4, <2>5, EncodedKeyOfAccount
  <2>7. SerialiseFields(bytesOf) = WrittenAlone(bytesOf["new_admin"])
    BY <2>4, <2>6, FieldAlone
  <2> QED BY <1>2, <2>3, <2>6, <2>7, DeviceWrites
<1> QED BY <1>1, <1>2, Kinds

------------------------------------------------------------------------------
(* What a canonical serialisation tells of the arguments *)

\* A field of a length that is known is cut off in one way.
LEMMA FieldTold ==
    ASSUME NEW k \in Seq(Int), NEW u \in Seq(Int), NEW v \in Seq(Int), NEW x \in Seq(Int), NEW y \in Seq(Int),
           Joined(Joined(k, u), x) = Joined(Joined(k, v), y), Len(u) = Len(v)
    PROVE  u = v /\ x = y
<1>1. /\ Joined(k, u) \in Seq(Int) /\ Len(Joined(k, u)) = Len(k) + Len(u)
      /\ Joined(k, v) \in Seq(Int) /\ Len(Joined(k, v)) = Len(k) + Len(v)
  BY JoinLengths
<1>2. Len(Joined(k, u)) = Len(Joined(k, v))
  BY <1>1
<1>3. Joined(k, u) = Joined(k, v) /\ x = y
  BY <1>1, <1>2, SameCut
<1>4. u = v
  BY <1>3, SameCut
<1> QED BY <1>3, <1>4

LEMMA IntegerTold ==
    ASSUME NEW m \in 0..Power[8] - 1, NEW n \in 0..Power[8] - 1, EncodeU128(m) = EncodeU128(n)
    PROVE  m = n
<1> DEFINE w == 16
<1>1. Power[8] \in Nat /\ Power[w] \in Nat /\ Power[8] <= Power[w] /\ w \in Nat
  BY PowersOfTheWidths, PowerValues
<1>2. m \in Int /\ n \in Int /\ m \in 0..Power[w] - 1 /\ n \in 0..Power[w] - 1
  BY <1>1
<1> DEFINE h == <<6>>
           a == LittleEndian(m, w)
           b == LittleEndian(n, w)
<1>3. EncodeU128(m) = Joined(h, a) /\ EncodeU128(n) = Joined(h, b)
  BY <1>2, EncodedInteger
<1>4. h \in Seq(Int)
  OBVIOUS
<1>5. a \in Seq(Int) /\ b \in Seq(Int)
  <2> HIDE DEF w
  <2>1. a \in Seq(Byte) /\ b \in Seq(Byte)
    BY <1>1, <1>2, LittleEndianBytes
  <2> HIDE DEF a, b
  <2> QED BY <2>1, ByteIsInt, SeqMonotonic
<1>6. a = b
  <2> HIDE DEF a, b, h
  <2>1. Joined(h, a) = Joined(h, b) /\ Len(h) = Len(h)
    BY <1>3
  <2> QED BY <1>4, <1>5, <2>1, SameCut
<1>7. LittleEndian(m, w) = LittleEndian(n, w)
  BY <1>6
<1> HIDE DEF w, a, b
<1> QED BY <1>1, <1>2, <1>7, BytesTellNumbers

LEMMA AccountTold ==
    ASSUME NEW a \in Seq(Byte), NEW b \in Seq(Byte), Len(a) = 32, Len(b) = 32, EncodeBytes(a) = EncodeBytes(b)
    PROVE  a = b
<1> DEFINE h == <<2, 32>>
<1>1. EncodeBytes(a) = Joined(h, a) /\ EncodeBytes(b) = Joined(h, b)
  BY EncodedKeyOfAccount
<1>2. h \in Seq(Int)
  OBVIOUS
<1>3. a \in Seq(Int) /\ b \in Seq(Int)
  BY ByteIsInt, SeqMonotonic
<1> HIDE DEF h
<1>4. Joined(h, a) = Joined(h, b)
  BY <1>1
<1> QED BY <1>2, <1>3, <1>4, SameCut

LEMMA SameField ==
    ASSUME NEW a \in Seq(Byte), NEW b \in Seq(Byte), NEW from \in Nat, NEW length \in Nat \ {0},
           from + length <= Len(a), from + length <= Len(b),
           Fields(a, from, length) = Fields(b, from, length)
    PROVE  \A i \in from + 1..from + length : a[i] = b[i]
<1>1. \A i \in 1..length : Fields(a, from, length)[i] = a[from + i] /\ Fields(b, from, length)[i] = b[from + i]
  BY FieldsOfArgs
<1>2. \A i \in 1..length : a[from + i] = b[from + i]
  BY <1>1
<1>3. ASSUME NEW i \in from + 1..from + length PROVE a[i] = b[i]
  <2>1. i - from \in 1..length /\ from + (i - from) = i
    OBVIOUS
  <2>2. a[from + (i - from)] = b[from + (i - from)]
    BY <1>2, <2>1
  <2> QED BY <2>1, <2>2
<1> QED BY <1>3

LEMMA NumberTold ==
    ASSUME NEW f \in [1..8 -> Byte], NEW g \in [1..8 -> Byte], Number(f) = Number(g)
    PROVE  f = g
<1> DEFINE w == 8
<1>1. w \in Nat /\ f \in [1..w -> Byte] /\ g \in [1..w -> Byte]
  OBVIOUS
<1> HIDE DEF w
<1>2. LittleEndian(Number(f), w) = f /\ LittleEndian(Number(g), w) = g
  BY <1>1, NumberKeepsTheBytes
<1> QED BY <1>2

LEMMA CollateralTold ==
    ASSUME NEW a \in Seq(Byte), NEW b \in Seq(Byte)
    PROVE  Len(a) = 80 /\ Len(b) = 80 /\ DeviceCanonical(1, a) = DeviceCanonical(1, b) => a = b
<1>0. HAVE Len(a) = 80 /\ Len(b) = 80 /\ DeviceCanonical(1, a) = DeviceCanonical(1, b)
<1> DEFINE h == Joined(<<16>>, <<4>>)
           k1 == EncodeKey("fair_value_usd_micros")
           k2 == EncodeKey("max_deposit_usd")
           k3 == EncodeKey("oracle")
           k4 == EncodeKey("token")
           u1(x) == EncodeU128(Number(Fields(x, 32, 8)))
           u2(x) == EncodeU128(Number(Fields(x, 72, 8)))
           u3(x) == EncodeBytes(Fields(x, 40, 32))
           u4(x) == EncodeBytes(Fields(x, 0, 32))
           r4(x) == Joined(k4, u4(x))
           r3(x) == Joined(Joined(k3, u3(x)), r4(x))
           r2(x) == Joined(Joined(k2, u2(x)), r3(x))
           r1(x) == Joined(Joined(k1, u1(x)), r2(x))
<1>1. Joined(h, r1(a)) = Joined(h, r1(b))
  BY <1>0, DeviceWrites DEF Written
<1>2. h \in Seq(Int)
  <2>1. <<16>> \in Seq(Int) /\ <<4>> \in Seq(Int)
    OBVIOUS
  <2> QED BY <2>1, JoinLengths
<1>3. k1 \in Seq(Int) /\ k2 \in Seq(Int) /\ k3 \in Seq(Int) /\ k4 \in Seq(Int)
  BY FieldNameValues, EncodedKey
<1>4. ASSUME NEW x \in Seq(Byte), Len(x) = 80
      PROVE  /\ u1(x) \in Seq(Int) /\ Len(u1(x)) = 17 /\ u2(x) \in Seq(Int) /\ Len(u2(x)) = 17
             /\ u3(x) \in Seq(Int) /\ Len(u3(x)) = 34 /\ u4(x) \in Seq(Int) /\ Len(u4(x)) = 34
  <2>1. /\ Number(Fields(x, 32, 8)) \in Int /\ Number(Fields(x, 72, 8)) \in Int
        /\ Fields(x, 40, 32) \in Seq(Byte) /\ Len(Fields(x, 40, 32)) = 32
        /\ Fields(x, 0, 32) \in Seq(Byte) /\ Len(Fields(x, 0, 32)) = 32
    BY <1>4, ArgsOfCollateral
  <2>2. u1(x) \in Seq(Int) /\ Len(u1(x)) = 17
    BY <2>1, EncodedInteger
  <2>3. u2(x) \in Seq(Int) /\ Len(u2(x)) = 17
    BY <2>1, EncodedInteger
  <2>4. u3(x) \in Seq(Int) /\ Len(u3(x)) = 34
    BY <2>1, EncodedKeyOfAccount
  <2>5. u4(x) \in Seq(Int) /\ Len(u4(x)) = 34
    BY <2>1, EncodedKeyOfAccount
  <2> QED BY <2>2, <2>3, <2>4, <2>5
<1> HIDE DEF h, k1, k2, k3, k4, u1, u2, u3, u4
<1>5. ASSUME NEW x \in Seq(Byte), Len(x) = 80
      PROVE  r1(x) \in Seq(Int) /\ r2(x) \in Seq(Int) /\ r3(x) \in Seq(Int) /\ r4(x) \in Seq(Int)
  <2>1. /\ Joined(k1, u1(x)) \in Seq(Int) /\ Joined(k2, u2(x)) \in Seq(Int)
        /\ Joined(k3, u3(x)) \in Seq(Int) /\ Joined(k4, u4(x)) \in Seq(Int)
    BY <1>3, <1>4, <1>5, JoinLengths
  <2>2. r4(x) \in Seq(Int)
    BY <2>1
  <2> HIDE DEF r4
  <2>3. r3(x) \in Seq(Int)
    BY <2>1, <2>2, JoinLengths
  <2> HIDE DEF r3
  <2>4. r2(x) \in Seq(Int)
    BY <2>1, <2>3, JoinLengths
  <2> HIDE DEF r2
  <2>5. r1(x) \in Seq(Int)
    BY <2>1, <2>4, JoinLengths
  <2> QED BY <2>2, <2>3, <2>4, <2>5
<1>6. r1(a) = r1(b)
  <2> HIDE DEF r1
  <2>1. r1(a) \in Seq(Int) /\ r1(b) \in Seq(Int)
    BY <1>0, <1>5
  <2> QED BY <1>1, <1>2, <2>1, SameCut
<1>7. u1(a) = u1(b) /\ r2(a) = r2(b)
  <2>1. /\ Joined(Joined(k1, u1(a)), r2(a)) = Joined(Joined(k1, u1(b)), r2(b))
        /\ u1(a) \in Seq(Int) /\ u1(b) \in Seq(Int) /\ Len(u1(a)) = Len(u1(b))
        /\ r2(a) \in Seq(Int) /\ r2(b) \in Seq(Int)
    BY <1>0, <1>4, <1>5, <1>6
  <2> HIDE DEF r2
  <2> QED BY <1>3, <2>1, FieldTold
<1>8. u2(a) = u2(b) /\ r3(a) = r3(b)
  <2>1. /\ Joined(Joined(k2, u2(a)), r3(a)) = Joined(Joined(k2, u2(b)), r3(b))
        /\ u2(a) \in Seq(Int) /\ u2(b) \in Seq(Int) /\ Len(u2(a)) = Len(u2(b))
        /\ r3(a) \in Seq(Int) /\ r3(b) \in Seq(Int)
    BY <1>0, <1>4, <1>5, <1>7
  <2> HIDE DEF r3
  <2> QED BY <1>3, <2>1, FieldTold
<1>9. u3(a) = u3(b) /\ r4(a) = r4(b)
  <2>1. /\ Joined(Joined(k3, u3(a)), r4(a)) = Joined(Joined(k3, u3(b)), r4(b))
        /\ u3(a) \in Seq(Int) /\ u3(b) \in Seq(Int) /\ Len(u3(a)) = Len(u3(b))
        /\ r4(a) \in Seq(Int) /\ r4(b) \in Seq(Int)
    BY <1>0, <1>4, <1>5, <1>8
  <2> HIDE DEF r4
  <2> QED BY <1>3, <2>1, FieldTold
<1>10. u4(a) = u4(b)
  <2>1. Joined(k4, u4(a)) = Joined(k4, u4(b)) /\ u4(a) \in Seq(Int) /\ u4(b) \in Seq(Int)
    BY <1>0, <1>4, <1>9
  <2> QED BY <1>3, <2>1, SameCut
<1>11. Fields(a, 32, 8) = Fields(b, 32, 8)
  <2>1. EncodeU128(Number(Fields(a, 32, 8))) = EncodeU128(Number(Fields(b, 32, 8)))
    BY <1>7 DEF u1
  <2>2. Number(Fields(a, 32, 8)) = Number(Fields(b, 32, 8))
    BY <1>0, <2>1, ArgsOfCollateral, IntegerTold
  <2>3. Fields(a, 32, 8) \in [1..8 -> Byte] /\ Fields(b, 32, 8) \in [1..8 -> Byte]
    BY <1>0, ArgsOfCollateral
  <2> QED BY <2>2, <2>3, NumberTold
<1>12. Fields(a, 72, 8) = Fields(b, 72, 8)
  <2>1. EncodeU128(Number(Fields(a, 72, 8))) = EncodeU128(Number(Fields(b, 72, 8)))
    BY <1>8 DEF u2
  <2>2. Number(Fields(a, 72, 8)) = Number(Fields(b, 72, 8))
    <3>1. Number(Fields(a, 72, 8)) \in 0..Power[8] - 1 /\ Number(Fields(b, 72, 8)) \in 0..Power[8] - 1
      BY <1>0, ArgsOfCollateral
    <3> QED BY <2>1, <3>1, IntegerTold
  <2>3. Fields(a, 72, 8) \in [1..8 -> Byte] /\ Fields(b, 72, 8) \in [1..8 -> Byte]
    BY <1>0, ArgsOfCollateral
  <2> QED BY <2>2, <2>3, NumberTold
<1>13. Fields(a, 40, 32) = Fields(b, 40, 32)
  <2>1. EncodeBytes(Fields(a, 40, 32)) = EncodeBytes(Fields(b, 40, 32))
    BY <1>9 DEF u3
  <2> QED BY <1>0, <2>1, ArgsOfCollateral, AccountTold
<1>14. Fields(a, 0, 32) = Fields(b, 0, 32)
  <2>1. EncodeBytes(Fields(a, 0, 32)) = EncodeBytes(Fields(b, 0, 32))
    BY <1>10 DEF u4
  <2> QED BY <1>0, <2>1, ArgsOfCollateral, AccountTold
<1>15. \A i \in 1..80 : a[i] = b[i]
  <2>1. \A i \in 32 + 1..32 + 8 : a[i] = b[i]
    <3>1. 32 + 8 <= Len(a) /\ 32 + 8 <= Len(b) /\ 32 \in Nat /\ 8 \in Nat \ {0}
      BY <1>0
    <3> QED BY <1>11, <3>1, SameField
  <2>2. \A i \in 72 + 1..72 + 8 : a[i] = b[i]
    <3>1. 72 + 8 <= Len(a) /\ 72 + 8 <= Len(b) /\ 72 \in Nat /\ 8 \in Nat \ {0}
      BY <1>0
    <3> QED BY <1>12, <3>1, SameField
  <2>3. \A i \in 40 + 1..40 + 32 : a[i] = b[i]
    <3>1. 40 + 32 <= Len(a) /\ 40 + 32 <= Len(b) /\ 40 \in Nat /\ 32 \in Nat \ {0}
      BY <1>0
    <3> QED BY <1>13, <3>1, SameField
  <2>4. \A i \in 0 + 1..0 + 32 : a[i] = b[i]
    <3>1. 0 + 32 <= Len(a) /\ 0 + 32 <= Len(b) /\ 0 \in Nat /\ 32 \in Nat \ {0}
      BY <1>0
    <3> QED BY <1>14, <3>1, SameField
  <2>5. ASSUME NEW i \in 1..80 PROVE a[i] = b[i]
    <3>1. \/ i \in 32 + 1..32 + 8 \/ i \in 72 + 1..72 + 8
          \/ i \in 40 + 1..40 + 32 \/ i \in 0 + 1..0 + 32
      OBVIOUS
    <3> QED BY <2>1, <2>2, <2>3, <2>4, <3>1
  <2> QED BY <2>5
<1>16. Len(a) = Len(b) /\ \A i \in 1..Len(a) : a[i] = b[i]
  BY <1>0, <1>15
<1> QED BY <1>16, SeqEqual

LEMMA ArgsTold ==
    ASSUME NEW kind, NEW a \in Seq(Byte), NEW b \in Seq(Byte), IsDecodable(kind, a), IsDecodable(kind, b),
           DeviceCanonical(kind, a) = DeviceCanonical(kind, b)
    PROVE  a = b
<1>1. CASE kind = 1 /\ Len(a) = 80 /\ Len(b) = 80
  BY <1>1, CollateralTold
<1>2. CASE kind = 3 /\ Len(a) = 32 /\ Len(b) = 32
  <2> DEFINE h == Joined(<<16>>, <<1>>)
             k == EncodeKey("new_admin")
             u(x) == EncodeBytes(Fields(x, 0, 32))
  <2>1. Joined(h, Joined(k, u(a))) = Joined(h, Joined(k, u(b)))
    BY <1>2, DeviceWrites DEF WrittenAlone
  <2>2. h \in Seq(Int)
    <3>1. <<16>> \in Seq(Int) /\ <<1>> \in Seq(Int)
      OBVIOUS
    <3> QED BY <3>1, JoinLengths
  <2>3. k \in Seq(Int)
    BY FieldNameValues, EncodedKey
  <2>4. /\ Fields(a, 0, 32) \in Seq(Byte) /\ Len(Fields(a, 0, 32)) = 32
        /\ Fields(b, 0, 32) \in Seq(Byte) /\ Len(Fields(b, 0, 32)) = 32
    <3>1. 0 + 32 <= Len(a) /\ 0 + 32 <= Len(b) /\ 0 \in Nat /\ 32 \in Nat \ {0}
      BY <1>2
    <3> QED BY <3>1, FieldsAreBytes
  <2>5. u(a) \in Seq(Int) /\ u(b) \in Seq(Int)
    BY <2>4, EncodedKeyOfAccount
  <2> HIDE DEF h, k, u
  <2>6. Joined(k, u(a)) \in Seq(Int) /\ Joined(k, u(b)) \in Seq(Int)
    BY <2>3, <2>5, JoinLengths
  <2>7. Joined(k, u(a)) = Joined(k, u(b))
    BY <2>1, <2>2, <2>6, SameCut
  <2>8. u(a) = u(b)
    BY <2>3, <2>5, <2>7, SameCut
  <2>9. Fields(a, 0, 32) = Fields(b, 0, 32)
    <3>1. EncodeBytes(Fields(a, 0, 32)) = EncodeBytes(Fields(b, 0, 32))
      BY <2>8 DEF u
    <3> QED BY <2>4, <3>1, AccountTold
  <2>10. \A i \in 0 + 1..0 + 32 : a[i] = b[i]
    <3>1. 0 + 32 <= Len(a) /\ 0 + 32 <= Len(b) /\ 0 \in Nat /\ 32 \in Nat \ {0}
      BY <1>2
    <3> QED BY <2>9, <3>1, SameField
  <2>11. \A i \in 1..32 : a[i] = b[i]
    <3>1. ASSUME NEW i \in 1..32 PROVE i \in 0 + 1..0 + 32
      OBVIOUS
    <3> QED BY <2>10, <3>1
  <2>12. Len(a) = Len(b) /\ \A i \in 1..Len(a) : a[i] = b[i]
    BY <1>2, <2>11
  <2> QED BY <2>12, SeqEqual
<1> QED BY <1>1, <1>2, Kinds

------------------------------------------------------------------------------
(* What a digest tells *)

\* SameCut, from the end.
LEMMA SameEnd ==
    ASSUME NEW S, NEW a \in Seq(S), NEW b \in Seq(S), NEW c \in Seq(S), NEW d \in Seq(S),
           Joined(a, b) = Joined(c, d), Len(b) = Len(d)
    PROVE  a = c /\ b = d
<1>1. /\ Len(Joined(a, b)) = Len(a) + Len(b) /\ Len(Joined(c, d)) = Len(c) + Len(d)
      /\ Len(a) \in Nat /\ Len(b) \in Nat /\ Len(c) \in Nat /\ Len(d) \in Nat
  BY JoinLengths
<1>2. Len(a) = Len(c)
  BY <1>1
<1> QED BY <1>2, SameCut

\* What stands in front of the hashes and the digests.
Bound(vault, nonce, kind) ==
    Joined(Joined(Joined(<<DOMAIN_SEP>>, vault), LittleEndian(nonce, 8)), LittleEndian(kind, 4))

LEMMA HashesJoin ==
    ASSUME NEW i, NEW hash, NEW t
    PROVE  /\ ComputeIntentHash(i) =
                 Hash(i.network, Joined(Bound(i.vault, i.nonce, i.kind), SerialiseIntent(Decode(i.kind, i.args))))
           /\ DeviceIntentHash(i) =
                 Hash(i.network, Joined(Bound(i.vault, i.nonce, i.kind), DeviceCanonical(i.kind, i.args)))
           /\ AttesterDigest(i, hash, t) =
                 Hash(i.network, Joined(Joined(Bound(i.vault, i.nonce, i.kind), <<hash>>), LittleEndian(t, 8)))
           /\ DeviceDigest(i, hash, t) = AttesterDigest(i, hash, t)
           /\ EmulatorDigest(i, hash, t) = AttesterDigest(i, hash, t)
BY DEF ComputeIntentHash, DeviceIntentHash, AttesterDigest, DeviceDigest, EmulatorDigest, Bound, Joined

LEMMA BytesOfIntegers ==
    ASSUME NEW n \in Int
    PROVE  /\ LittleEndian(n, 8) \in Seq(Int) /\ Len(LittleEndian(n, 8)) = 8
           /\ LittleEndian(n, 4) \in Seq(Int) /\ Len(LittleEndian(n, 4)) = 4
<1>1. ASSUME NEW w \in Nat
      PROVE  LittleEndian(n, w) \in Seq(Int) /\ Len(LittleEndian(n, w)) = w
  <2>1. LittleEndian(n, w) \in Seq(Byte) /\ Len(LittleEndian(n, w)) = w
    BY LittleEndianBytes
  <2> QED BY <2>1, ByteIsInt, SeqMonotonic
<1> QED BY <1>1

\* The kinds of action there are adapters for.
AdapterKinds == {1, 3}

LEMMA BoundTells ==
    ASSUME NEW u \in Seq(Byte), NEW v \in Seq(Byte), NEW m \in Int, NEW n \in Int,
           NEW k \in AdapterKinds, NEW l \in AdapterKinds
    PROVE  /\ Bound(u, m, k) \in Seq(Int) /\ Len(Bound(u, m, k)) = Len(u) + 13
           /\ Bound(u, m, k) = Bound(v, n, l) =>
                 u = v /\ LittleEndian(m, 8) = LittleEndian(n, 8) /\ k = l
<1> DEFINE d == <<DOMAIN_SEP>>
           lk == LittleEndian(k, 4)
           ll == LittleEndian(l, 4)
           lm == LittleEndian(m, 8)
           ln == LittleEndian(n, 8)
<1>1. d \in Seq(Int) /\ Len(d) = 1
  BY DEF DOMAIN_SEP
<1>2. u \in Seq(Int) /\ v \in Seq(Int) /\ Len(u) \in Nat
  <2>1. u \in Seq(Int) /\ v \in Seq(Int)
    BY ByteIsInt, SeqMonotonic
  <2> QED BY <2>1, LenProperties
<1>0. k \in Int /\ l \in Int
  BY DEF AdapterKinds
<1>3. /\ lk \in Seq(Int) /\ Len(lk) = 4 /\ ll \in Seq(Int) /\ Len(ll) = 4
      /\ lm \in Seq(Int) /\ Len(lm) = 8 /\ ln \in Seq(Int) /\ Len(ln) = 8
  BY <1>0, BytesOfIntegers
<1>4. lk = ll => k = l
  <2> SUFFICES ASSUME lk = ll PROVE k = l
    OBVIOUS
  <2> DEFINE w == 4
  <2>1. w \in Nat /\ k \in Int /\ l \in Int /\ LittleEndian(k, w) = LittleEndian(l, w)
    BY DEF AdapterKinds
  <2>2. k \in 0..Power[w] - 1 /\ l \in 0..Power[w] - 1
    <3>1. Power[4] >= 16 /\ Power[4] \in Nat
      BY PowersOfTheWidths, PowerValues
    <3> QED BY <3>1 DEF AdapterKinds
  <2> HIDE DEF w, lk, ll
  <2> QED BY <2>1, <2>2, BytesTellNumbers
<1>5. Bound(u, m, k) = Joined(Joined(Joined(d, u), lm), lk) /\ Bound(v, n, l) = Joined(Joined(Joined(d, v), ln), ll)
  BY DEF Bound
<1> HIDE DEF d, lk, ll, lm, ln
<1>6. /\ Joined(d, u) \in Seq(Int) /\ Len(Joined(d, u)) = Len(d) + Len(u)
      /\ Joined(d, v) \in Seq(Int)
  BY <1>1, <1>2, JoinLengths
<1>7. /\ Joined(Joined(d, u), lm) \in Seq(Int) /\ Len(Joined(Joined(d, u), lm)) = Len(Joined(d, u)) + Len(lm)
      /\ Joined(Joined(d, v), ln) \in Seq(Int)
  BY <1>3, <1>6, JoinLengths
<1>8. /\ Joined(Joined(Joined(d, u), lm), lk) \in Seq(Int)
      /\ Len(Joined(Joined(Joined(d, u), lm), lk)) = Len(Joined(Joined(d, u), lm)) + Len(lk)
  BY <1>3, <1>7, JoinLengths
<1>9. Bound(u, m, k) \in Seq(Int) /\ Len(Bound(u, m, k)) = Len(u) + 13
  BY <1>1, <1>2, <1>3, <1>5, <1>6, <1>7, <1>8
<1>10. ASSUME Bound(u, m, k) = Bound(v, n, l)
       PROVE  u = v /\ lm = ln /\ k = l
  <2>1. Joined(Joined(Joined(d, u), lm), lk) = Joined(Joined(Joined(d, v), ln), ll) /\ Len(lk) = Len(ll)
    BY <1>3, <1>5, <1>10
  <2>2. Joined(Joined(d, u), lm) = Joined(Joined(d, v), ln) /\ lk = ll
    BY <1>3, <1>7, <2>1, SameEnd
  <2>3. Len(lm) = Len(ln)
    BY <1>3
  <2>4. Joined(d, u) = Joined(d, v) /\ lm = ln
    BY <1>3, <1>6, <2>2, <2>3, SameEnd
  <2>5. u = v
    BY <1>1, <1>2, <2>4, SameCut
  <2> QED BY <1>4, <2>2, <2>4, <2>5
<1> QED BY <1>9, <1>10 DEF lm, ln

LEMMA BoundIsTold ==
    \A u, v \in Seq(Byte) : \A m, n \in Int : \A k, l \in AdapterKinds :
        Bound(u, m, k) = Bound(v, n, l) => u = v /\ LittleEndian(m, 8) = LittleEndian(n, 8) /\ k = l
<1> TAKE u, v \in Seq(Byte)
<1> TAKE m, n \in Int
<1> TAKE k, l \in AdapterKinds
<1> QED BY BoundTells

\* What the programs are asked for, and can decode.
Request ==
    [network : {"solana", "evm"}, vault : Seq(Byte), nonce : Int, kind : Nat, args : Seq(Byte)]

IsAsked(i) == i \in Request /\ Len(i.vault) \in U64 /\ IsDecodable(i.kind, i.args)

LEMMA AskedTypes ==
    ASSUME NEW i, IsAsked(i)
    PROVE  /\ i.vault \in Seq(Byte) /\ i.nonce \in Int /\ i.kind \in AdapterKinds /\ i.args \in Seq(Byte)
           /\ IsDecodable(i.kind, i.args) /\ Len(i.vault) \in U64 /\ i.kind \in Nat
<1>1. i \in Request /\ Len(i.vault) \in U64 /\ IsDecodable(i.kind, i.args)
  BY DEF IsAsked
<1>2. i.kind \in AdapterKinds
  BY <1>1, Kinds DEF AdapterKinds
<1> QED BY <1>1, <1>2 DEF Request

\* The firmware finds the hash the renderer computed.
LEMMA HashesAgree ==
    ASSUME NEW i, i.args \in Seq(Byte), IsDecodable(i.kind, i.args)
    PROVE  ComputeIntentHash(i) = DeviceIntentHash(i)
<1>1. SerialiseIntent(Decode(i.kind, i.args)) = DeviceCanonical(i.kind, i.args)
  BY DeviceAgrees
<1> QED BY <1>1, HashesJoin

LEMMA CanonicalIsSequence ==
    ASSUME NEW kind, NEW args \in Seq(Byte), IsDecodable(kind, args)
    PROVE  DeviceCanonical(kind, args) \in Seq(Int)
<1>1. CASE kind = 1 /\ Len(args) = 80
  <2> DEFINE u1 == EncodeU128(Number(Fields(args, 32, 8)))
             u2 == EncodeU128(Number(Fields(args, 72, 8)))
             u3 == EncodeBytes(Fields(args, 40, 32))
             u4 == EncodeBytes(Fields(args, 0, 32))
  <2>1. DeviceCanonical(kind, args) = Written(4, u1, u2, u3, u4)
    BY <1>1, DeviceWrites
  <2>2. u1 \in Seq(Int) /\ u2 \in Seq(Int) /\ u3 \in Seq(Int) /\ u4 \in Seq(Int)
    BY <1>1, ArgsOfCollateral, EncodedInteger, EncodedKeyOfAccount
  <2> HIDE DEF u1, u2, u3, u4
  <2>3. <<16>> \in Seq(Int) /\ <<4>> \in Seq(Int)
    OBVIOUS
  <2>4. /\ EncodeKey("fair_value_usd_micros") \in Seq(Int) /\ EncodeKey("max_deposit_usd") \in Seq(Int)
        /\ EncodeKey("oracle") \in Seq(Int) /\ EncodeKey("token") \in Seq(Int)
    BY FieldNameValues, EncodedKey
  <2>5. /\ Joined(<<16>>, <<4>>) \in Seq(Int)
        /\ Joined(EncodeKey("fair_value_usd_micros"), u1) \in Seq(Int)
        /\ Joined(EncodeKey("max_deposit_usd"), u2) \in Seq(Int)
        /\ Joined(EncodeKey("oracle"), u3) \in Seq(Int)
        /\ Joined(EncodeKey("token"), u4) \in Seq(Int)
    BY <2>2, <2>3, <2>4, JoinLengths
  <2>6. Written(4, u1, u2, u3, u4) \in Seq(Int)
    <3>1. \A x, y \in Seq(Int) : Joined(x, y) \in Seq(Int)
      BY JoinLengths
    <3> QED BY <2>5, <3>1 DEF Written
  <2> QED BY <2>1, <2>6
<1>2. CASE kind = 3 /\ Len(args) = 32
  <2> DEFINE u == EncodeBytes(Fields(args, 0, 32))
  <2>1. DeviceCanonical(kind, args) = WrittenAlone(u)
    BY <1>2, DeviceWrites
  <2>2. u \in Seq(Int)
    <3>1. 0 + 32 <= Len(args) /\ 0 \in Nat /\ 32 \in Nat \ {0}
      BY <1>2
    <3>2. Fields(args, 0, 32) \in Seq(Byte) /\ Len(Fields(args, 0, 32)) = 32
      BY <3>1, FieldsAreBytes
    <3> QED BY <3>2, EncodedKeyOfAccount
  <2> HIDE DEF u
  <2>3. <<16>> \in Seq(Int) /\ <<1>> \in Seq(Int)
    OBVIOUS
  <2>4. EncodeKey("new_admin") \in Seq(Int)
    BY FieldNameValues, EncodedKey
  <2> DEFINE o == <<16>>
             c == <<1>>
             k == EncodeKey("new_admin")
  <2>5. DeviceCanonical(kind, args) = Joined(Joined(o, c), Joined(k, u))
    BY <2>1 DEF WrittenAlone
  <2>6. o \in Seq(Int) /\ c \in Seq(Int) /\ k \in Seq(Int)
    BY <2>3, <2>4
  <2> HIDE DEF o, c, k
  <2>7. Joined(o, c) \in Seq(Int) /\ Joined(k, u) \in Seq(Int)
    BY <2>2, <2>6, JoinLengths
  <2>8. Joined(Joined(o, c), Joined(k, u)) \in Seq(Int)
    BY <2>7, JoinLengths
  <2> QED BY <2>5, <2>8
<1> QED BY <1>1, <1>2, Kinds

LEMMA HashTells ==
    ASSUME NEW i, NEW j, IsAsked(i), IsAsked(j), ComputeIntentHash(i) = ComputeIntentHash(j),
           i.vault = j.vault, i.kind = j.kind
    PROVE  i.args = j.args
<1> DEFINE p == Bound(i.vault, i.nonce, i.kind)
           q == Bound(j.vault, j.nonce, j.kind)
           x == DeviceCanonical(i.kind, i.args)
           y == DeviceCanonical(j.kind, j.args)
<1>1. Joined(p, x) = Joined(q, y)
  <2>1. DeviceIntentHash(i) = DeviceIntentHash(j)
    BY HashesAgree, AskedTypes
  <2>2. Hash(i.network, Joined(p, x)) = Hash(j.network, Joined(q, y))
    BY <2>1, HashesJoin
  <2> QED BY <2>2 DEF Hash
<1>2. p \in Seq(Int) /\ q \in Seq(Int) /\ Len(p) = Len(q)
  <2>1. /\ i.vault \in Seq(Byte) /\ i.nonce \in Int /\ i.kind \in AdapterKinds
        /\ j.vault \in Seq(Byte) /\ j.nonce \in Int /\ j.kind \in AdapterKinds
    BY AskedTypes
  <2>2. p \in Seq(Int) /\ Len(p) = Len(i.vault) + 13
    BY <2>1, BoundTells
  <2>3. q \in Seq(Int) /\ Len(q) = Len(j.vault) + 13
    BY <2>1, BoundTells
  <2> QED BY <2>2, <2>3
<1>3. x \in Seq(Int) /\ y \in Seq(Int)
  BY AskedTypes, CanonicalIsSequence
<1>4. x = y
  <2> HIDE DEF p, q, x, y
  <2> QED BY <1>1, <1>2, <1>3, SameCut
<1> QED BY <1>4, AskedTypes, ArgsTold

\* A digest is of one network, one vault, one nonce modulo its width, one action with one
\* argument and one date.
LEMMA DigestTells ==
    ASSUME NEW i, NEW j, IsAsked(i), IsAsked(j), NEW s \in U64, NEW t \in U64,
           AttesterDigest(i, ComputeIntentHash(i), s) = AttesterDigest(j, ComputeIntentHash(j), t)
    PROVE  /\ i.network = j.network /\ i.vault = j.vault /\ i.kind = j.kind /\ i.args = j.args
           /\ LittleEndian(i.nonce, 8) = LittleEndian(j.nonce, 8) /\ s = t
<1> DEFINE hi == ComputeIntentHash(i)
           hj == ComputeIntentHash(j)
           D == Int \cup {hi, hj}
           p == Bound(i.vault, i.nonce, i.kind)
           q == Bound(j.vault, j.nonce, j.kind)
           x == LittleEndian(s, 8)
           y == LittleEndian(t, 8)
           oi == <<hi>>
           oj == <<hj>>
<1>1. i.network = j.network /\ Joined(Joined(p, oi), x) = Joined(Joined(q, oj), y)
  <2>1. Hash(i.network, Joined(Joined(p, oi), x)) = Hash(j.network, Joined(Joined(q, oj), y))
    BY HashesJoin
  <2> QED BY <2>1 DEF Hash
<1>2. s \in Int /\ t \in Int
  BY PowersOfTheWidths, PowerValues DEF U64
<1>3. p \in Seq(Int) /\ q \in Seq(Int) /\ x \in Seq(Int) /\ y \in Seq(Int) /\ Len(x) = Len(y)
  <2>1. p \in Seq(Int) /\ q \in Seq(Int)
    <3>1. /\ i.vault \in Seq(Byte) /\ i.nonce \in Int /\ i.kind \in AdapterKinds
          /\ j.vault \in Seq(Byte) /\ j.nonce \in Int /\ j.kind \in AdapterKinds
      BY AskedTypes
    <3> QED BY <3>1, BoundTells
  <2>2. x \in Seq(Int) /\ y \in Seq(Int) /\ Len(x) = Len(y)
    BY <1>2, BytesOfIntegers
  <2> QED BY <2>1, <2>2
<1>4. /\ p \in Seq(D) /\ q \in Seq(D) /\ x \in Seq(D) /\ y \in Seq(D)
      /\ oi \in Seq(D) /\ oj \in Seq(D) /\ Len(oi) = 1 /\ Len(oj) = 1 /\ oi[1] = hi /\ oj[1] = hj
  <2>1. Int \subseteq D /\ hi \in D /\ hj \in D
    OBVIOUS
  <2> HIDE DEF p, q, x, y, hi, hj, D
  <2>2. p \in Seq(D) /\ q \in Seq(D) /\ x \in Seq(D) /\ y \in Seq(D)
    BY <1>3, <2>1, SeqMonotonic
  <2> QED BY <2>1, <2>2
<1> HIDE DEF p, q, x, y, hi, hj, D, oi, oj
<1>5. Joined(p, oi) \in Seq(D) /\ Joined(q, oj) \in Seq(D)
  BY <1>4, JoinLengths
<1>6. Joined(p, oi) = Joined(q, oj) /\ x = y
  BY <1>1, <1>3, <1>4, <1>5, SameEnd
<1>7. p = q /\ oi = oj
  BY <1>4, <1>6, SameEnd
<1>8. hi = hj
  BY <1>4, <1>7
<1>9. i.vault = j.vault /\ LittleEndian(i.nonce, 8) = LittleEndian(j.nonce, 8) /\ i.kind = j.kind
  <2>1. Bound(i.vault, i.nonce, i.kind) = Bound(j.vault, j.nonce, j.kind)
    BY <1>7 DEF p, q
  <2>2. /\ i.vault \in Seq(Byte) /\ i.nonce \in Int /\ i.kind \in AdapterKinds
        /\ j.vault \in Seq(Byte) /\ j.nonce \in Int /\ j.kind \in AdapterKinds
    BY AskedTypes
  <2> DEFINE u == i.vault
             v == j.vault
             m == i.nonce
             n == j.nonce
             k == i.kind
             l == j.kind
  <2>3. u \in Seq(Byte) /\ v \in Seq(Byte) /\ m \in Int /\ n \in Int /\ k \in AdapterKinds /\ l \in AdapterKinds
    BY <2>2
  <2>4. Bound(u, m, k) = Bound(v, n, l)
    BY <2>1
  <2> HIDE DEF u, v, m, n, k, l
  <2>5. u = v /\ LittleEndian(m, 8) = LittleEndian(n, 8) /\ k = l
    BY <2>3, <2>4, BoundIsTold
  <2> QED BY <2>5 DEF u, v, m, n, k, l
<1>10. i.args = j.args
  BY <1>8, <1>9, HashTells DEF hi, hj
<1>11. s = t
  <2> DEFINE w == 8
  <2>1. /\ w \in Nat /\ LittleEndian(s, w) = LittleEndian(t, w)
        /\ s \in 0..Power[w] - 1 /\ t \in 0..Power[w] - 1
    BY <1>6 DEF x, y, U64
  <2> HIDE DEF w
  <2> QED BY <1>2, <2>1, BytesTellNumbers
<1> QED BY <1>1, <1>9, <1>10, <1>11

------------------------------------------------------------------------------
(* The messages of the protocol *)

\* Names of the protocol, with integers, texts and byte strings the encoding has room for.
IsMessage(m) ==
    \E D, N : /\ Byte \subseteq D /\ Range(Names) \subseteq D
              /\ N \in SUBSET Range(Names) /\ m \in [N -> Items(D)]

LEMMA MessagesAreRead ==
    ASSUME NEW m, IsMessage(m)
    PROVE  /\ EncodeMap(m) # <<>> /\ DecodeMap(EncodeMap(m)).ok /\ DecodeMap(EncodeMap(m)).rest = <<>>
           /\ DecodeMap(EncodeMap(m)).value = [k \in DOMAIN m |-> Sent(m[k])]
           /\ \A k \in 0..Len(EncodeMap(m)) - 1 : ~DecodeMap(SubSeq(EncodeMap(m), 1, k)).ok
<1>1. PICK D, N : /\ Byte \subseteq D /\ Range(Names) \subseteq D
                  /\ N \in SUBSET Range(Names) /\ m \in [N -> Items(D)]
  BY DEF IsMessage
<1>2. DOMAIN m = N
  BY <1>1
<1>3. /\ EncodeMap(m) # <<>>
      /\ DecodeMap(EncodeMap(m)).ok
      /\ DecodeMap(EncodeMap(m)).value = [k \in N |-> Sent(m[k])]
      /\ DecodeMap(EncodeMap(m)).rest = <<>>
      /\ \A k \in 0..Len(EncodeMap(m)) - 1 : ~DecodeMap(SubSeq(EncodeMap(m), 1, k)).ok
  BY <1>1, MessageIsRead
<1> QED BY <1>2, <1>3

LEMMA ItemsOf ==
    ASSUME NEW D
    PROVE  /\ \A n \in Nat : Uint(n) \in Items(D)
           /\ \A x \in D : Text(x) \in Items(D)
           /\ \A s \in Seq(D) : Len(s) < U64Size => Bytes(s) \in Items(D)
           /\ \A x \in D : Bytes(<<x>>) \in Items(D)
<1>1. \A n \in Nat : Uint(n) \in Items(D)
  BY DEF Items
<1>2. \A x \in D : Text(x) \in Items(D)
  BY DEF Items
<1>3. \A s \in Seq(D) : Len(s) < U64Size => Bytes(s) \in Items(D)
  BY DEF Items
<1>4. ASSUME NEW x \in D PROVE Bytes(<<x>>) \in Items(D)
  <2>1. <<x>> \in Seq(D) /\ Len(<<x>>) = 1
    OBVIOUS
  <2>2. 1 < U64Size
    BY SizesOfIntegers DEF U64Size
  <2> QED BY <1>3, <2>1, <2>2
<1> QED BY <1>1, <1>2, <1>3, <1>4

LEMMA NamesThereAre ==
    {"action_args", "action_kind", "device_pubkey", "domain_sep", "expires_at", "intent_hash",
     "network", "nonce", "proposal_id", "reason", "signature", "signed_at", "type", "vault"}
       = Range(Names)
<1>1. Range(Names) = {Names[i] : i \in 1..14}
  BY NameValues
<1>2. /\ Names[1] = "action_args" /\ Names[2] = "action_kind" /\ Names[3] = "device_pubkey"
      /\ Names[4] = "domain_sep" /\ Names[5] = "expires_at" /\ Names[6] = "intent_hash"
      /\ Names[7] = "network" /\ Names[8] = "nonce" /\ Names[9] = "proposal_id"
      /\ Names[10] = "reason" /\ Names[11] = "signature" /\ Names[12] = "signed_at"
      /\ Names[13] = "type" /\ Names[14] = "vault"
  BY DEF Names
<1>3. \A i \in 1..14 : \/ i = 1 \/ i = 2 \/ i = 3 \/ i = 4 \/ i = 5 \/ i = 6 \/ i = 7 \/ i = 8
                       \/ i = 9 \/ i = 10 \/ i = 11 \/ i = 12 \/ i = 13 \/ i = 14
  OBVIOUS
<1>4. /\ 1 \in 1..14 /\ 2 \in 1..14 /\ 3 \in 1..14 /\ 4 \in 1..14 /\ 5 \in 1..14 /\ 6 \in 1..14 /\ 7 \in 1..14
      /\ 8 \in 1..14 /\ 9 \in 1..14 /\ 10 \in 1..14 /\ 11 \in 1..14 /\ 12 \in 1..14 /\ 13 \in 1..14 /\ 14 \in 1..14
  OBVIOUS
<1> QED BY <1>1, <1>2, <1>3, <1>4

\* What the device answers.
Rejection(id) ==
    [type |-> Text("IntentReject"), proposal_id |-> Bytes(<<id>>), reason |-> Text("UserCancelled")]

Signed(i, s) == [key |-> "device", digest |-> AttesterDigest(i, ComputeIntentHash(i), s)]

Acknowledgement(i, id, s) ==
    [type |-> Text("IntentAck"), proposal_id |-> Bytes(<<id>>), signature |-> Bytes(<<Signed(i, s)>>),
     device_pubkey |-> Bytes(<<"device">>), signed_at |-> Uint(s)]

LEMMA RejectionIsMessage ==
    ASSUME NEW id
    PROVE  IsMessage(Rejection(id))
<1> DEFINE D == Byte \cup Range(Names) \cup {id, "IntentReject", "UserCancelled"}
           N == {"type", "proposal_id", "reason"}
           m == Rejection(id)
<1>1. Byte \subseteq D /\ Range(Names) \subseteq D /\ id \in D /\ "IntentReject" \in D /\ "UserCancelled" \in D
  OBVIOUS
<1>2. N \in SUBSET Range(Names)
  BY NamesThereAre
<1> HIDE DEF D
<1>3. Text("IntentReject") \in Items(D) /\ Bytes(<<id>>) \in Items(D) /\ Text("UserCancelled") \in Items(D)
  BY <1>1, ItemsOf
<1>4. m \in [N -> Items(D)]
  BY <1>3 DEF Rejection
<1> HIDE DEF m, N
<1> QED BY <1>1, <1>2, <1>4 DEF IsMessage, m

LEMMA AcknowledgementIsMessage ==
    ASSUME NEW i, NEW id, NEW s \in Nat
    PROVE  IsMessage(Acknowledgement(i, id, s))
<1> DEFINE D == Byte \cup Range(Names) \cup {id, "IntentAck", "device", Signed(i, s)}
           N == {"type", "proposal_id", "signature", "device_pubkey", "signed_at"}
           m == Acknowledgement(i, id, s)
<1>1. Byte \subseteq D /\ Range(Names) \subseteq D /\ id \in D /\ "IntentAck" \in D /\ "device" \in D /\ Signed(i, s) \in D
  OBVIOUS
<1>2. N \in SUBSET Range(Names)
  BY NamesThereAre
<1> HIDE DEF D
<1>3. /\ Text("IntentAck") \in Items(D) /\ Bytes(<<id>>) \in Items(D) /\ Bytes(<<Signed(i, s)>>) \in Items(D)
      /\ Bytes(<<"device">>) \in Items(D) /\ Uint(s) \in Items(D)
  BY <1>1, ItemsOf
<1>4. m \in [N -> Items(D)]
  BY <1>3 DEF Acknowledgement
<1> HIDE DEF m, N
<1> QED BY <1>1, <1>2, <1>4 DEF IsMessage, m

LEMMA ProposalIsMessage ==
    ASSUME NEW i, IsAsked(i), i.nonce >= 0, NEW id, NEW t \in Nat
    PROVE  IsMessage(ProposeIntent(i, id, t))
<1> DEFINE D == Byte \cup Range(Names)
                  \cup {id, i.network, ComputeIntentHash(i), "ProposeIntent", "intentguard.v1.attest"}
           N == {"type", "proposal_id", "network", "vault", "nonce", "action_kind", "action_args",
                 "intent_hash", "signed_at", "expires_at", "domain_sep"}
           m == ProposeIntent(i, id, t)
<1>1. /\ Byte \subseteq D /\ Range(Names) \subseteq D /\ id \in D /\ i.network \in D
      /\ ComputeIntentHash(i) \in D /\ "ProposeIntent" \in D /\ "intentguard.v1.attest" \in D
  OBVIOUS
<1>2. N \in SUBSET Range(Names)
  BY NamesThereAre
<1> HIDE DEF D
<1>3. /\ i.vault \in Seq(Byte) /\ i.nonce \in Nat /\ i.kind \in Nat /\ i.args \in Seq(Byte)
      /\ Len(i.vault) \in U64 /\ IsDecodable(i.kind, i.args)
  BY AskedTypes
<1>4. Bytes(i.vault) \in Items(D) /\ Bytes(i.args) \in Items(D)
  <2>1. i.vault \in Seq(D) /\ i.args \in Seq(D)
    BY <1>1, <1>3, SeqMonotonic
  <2>2. Len(i.vault) < U64Size
    BY <1>3, SizesOfIntegers DEF U64, U64Size
  <2>3. Len(i.args) < U64Size
    <3>1. Len(i.args) = 80 \/ Len(i.args) = 32
      BY <1>3, Kinds
    <3>2. U64Size \in Nat /\ U64Size >= 256
      BY SizesOfIntegers DEF U64Size
    <3>3. 80 < U64Size /\ 32 < U64Size
      BY <3>2
    <3> DEFINE n == Len(i.args)
    <3>4. n = 80 \/ n = 32
      BY <3>1
    <3> HIDE DEF n
    <3>5. n < U64Size
      BY <3>3, <3>4
    <3> QED BY <3>5 DEF n
  <2> QED BY <2>1, <2>2, <2>3, ItemsOf
<1>5. /\ Text("ProposeIntent") \in Items(D) /\ Bytes(<<id>>) \in Items(D) /\ Text(i.network) \in Items(D)
      /\ Bytes(<<ComputeIntentHash(i)>>) \in Items(D) /\ Text("intentguard.v1.attest") \in Items(D)
  BY <1>1, ItemsOf
<1>6. /\ Uint(i.nonce) \in Items(D) /\ Uint(i.kind) \in Items(D)
      /\ Uint(t) \in Items(D) /\ Uint(t + 600) \in Items(D)
  BY <1>3, ItemsOf
<1>7. m \in [N -> Items(D)]
  BY <1>4, <1>5, <1>6 DEF ProposeIntent
<1> HIDE DEF m, N
<1> QED BY <1>1, <1>2, <1>7 DEF IsMessage, m

\* What the device makes of a proposal.
LEMMA ProposalIsRead ==
    ASSUME NEW i, IsAsked(i), i.nonce >= 0, NEW id, NEW t \in Nat
    PROVE  Proposal(DecodeMap(EncodeMap(ProposeIntent(i, id, t))).value) =
              [network |-> i.network, vault |-> i.vault, nonce |-> i.nonce % U64Size, kind |-> i.kind,
               args |-> i.args, hash |-> ComputeIntentHash(i), id |-> id]
<1> DEFINE m == ProposeIntent(i, id, t)
           r == DecodeMap(EncodeMap(m)).value
<1>1. r = [k \in DOMAIN m |-> Sent(m[k])]
  BY ProposalIsMessage, MessagesAreRead
<1>2. /\ DOMAIN m = {"type", "proposal_id", "network", "vault", "nonce", "action_kind", "action_args",
                     "intent_hash", "signed_at", "expires_at", "domain_sep"}
      /\ m["network"] = Text(i.network) /\ m["vault"] = Bytes(i.vault) /\ m["nonce"] = Uint(i.nonce)
      /\ m["action_kind"] = Uint(i.kind) /\ m["action_args"] = Bytes(i.args)
      /\ m["intent_hash"] = Bytes(<<ComputeIntentHash(i)>>) /\ m["proposal_id"] = Bytes(<<id>>)
  BY DEF ProposeIntent
<1> HIDE DEF m, r
<1>3. /\ r["network"] = Sent(m["network"]) /\ r["vault"] = Sent(m["vault"]) /\ r["nonce"] = Sent(m["nonce"])
      /\ r["action_kind"] = Sent(m["action_kind"]) /\ r["action_args"] = Sent(m["action_args"])
      /\ r["intent_hash"] = Sent(m["intent_hash"]) /\ r["proposal_id"] = Sent(m["proposal_id"])
  BY <1>1, <1>2
<1>4. /\ r["network"].value = i.network /\ r["vault"].value = i.vault /\ r["action_args"].value = i.args
      /\ r["intent_hash"].value = <<ComputeIntentHash(i)>> /\ r["proposal_id"].value = <<id>>
  BY <1>2, <1>3, TextItem, BytesItem
<1>5. r["nonce"].value = i.nonce % U64Size /\ r["action_kind"].value = i.kind % U64Size
  BY <1>2, <1>3, UintItem
<1>6. i.kind % U64Size = i.kind
  <2>1. i.kind = 1 \/ i.kind = 3
    BY AskedTypes, Kinds
  <2>2. U64Size \in Nat \ {0} /\ U64Size >= 256
    BY SizesOfIntegers DEF U64Size
  <2>3. i.kind \in 0..U64Size - 1
    BY <2>1, <2>2
  <2> HIDE DEF U64Size
  <2> QED BY <2>2, <2>3, SmallModulo
<1> QED BY <1>4, <1>5, <1>6 DEF Proposal, r, m

------------------------------------------------------------------------------
(* The command, the device and the emulators *)

\* How runs end, of which none ends because the device turned the proposal away.
Outcomes == {"threw", "approved", "serialised", "UserCancelled"}

\* The command waits for the device, for what it asked for at t.
InProgress(i, id, t) ==
    /\ IsAsked(i) /\ i.nonce >= 0
    /\ run = <<[input |-> i, message |-> ProposeIntent(i, id, t), preview |-> Preview(i.kind, i.args)]>>
    /\ request # <<>> => request = EncodeMap(ProposeIntent(i, id, t)) /\ answer = <<>>
    /\ display # <<>> => display = Display(i.kind, i.args)
    /\ answer # <<>> => \/ answer = EncodeMap(Rejection(id))
                        \/ \E s \in 0..MaxTime : answer = EncodeMap(Acknowledgement(i, id, s))

IsApproval(a) ==
    \E i, key : \E t \in 0..MaxTime :
        /\ IsAsked(i)
        /\ a = Approval(i, ComputeIntentHash(i), key, AttesterDigest(i, ComputeIntentHash(i), t), t)

RunHolds ==
    /\ run = <<>> => request = <<>> /\ answer = <<>> /\ display = <<>>
    /\ run # <<>> => \E i, id : \E t \in 0..MaxTime : InProgress(i, id, t)

\* Whatever is under way comes from one input, and so does each approval.
ClientsHold ==
    /\ now \in 0..MaxTime
    /\ outcomes \in Seq(Outcomes)
    /\ RunHolds
    /\ \A a \in approvals : IsApproval(a)
    /\ \A e \in encodings : e.value \in Values /\ e.bytes = CanonicalSerialise(e.value)

LEMMA NonceWraps ==
    ASSUME NEW vault, NEW nonce \in Int, NEW kind
    PROVE  Bound(vault, nonce % U64Size, kind) = Bound(vault, nonce, kind)
<1> DEFINE w == 8
<1>1. w \in Nat
  OBVIOUS
<1> HIDE DEF w
<1>2. LittleEndian(nonce % Power[w], w) = LittleEndian(nonce, w)
  BY <1>1, WidthIsModulo
<1> QED BY <1>2 DEF Bound, w, U64Size

\* What the programs go on with once a network is known.
LEMMA InputIsAsked ==
    ASSUME NEW o \in Inputs, o.network \in {"solana", "evm"}, IsDecodable(o.kind, o.args)
    PROVE  IsAsked(o)
<1>1. o \in Input /\ Len(o.vault) \in U64
  BY ClientBounds
<1>2. o = [network |-> o.network, vault |-> o.vault, nonce |-> o.nonce, kind |-> o.kind, args |-> o.args]
      /\ o.vault \in Seq(Byte) /\ o.nonce \in Int /\ o.kind \in Nat /\ o.args \in Seq(Byte)
  BY <1>1 DEF Input
<1>3. o \in Request
  BY <1>2 DEF Request
<1> QED BY <1>1, <1>3 DEF IsAsked

LEMMA ParsedIsAsked ==
    ASSUME NEW o \in Inputs, IsDecodable(o.kind, o.args)
    PROVE  IsAsked(Parsed(o))
<1>1. o \in Input /\ Len(o.vault) \in U64
  BY ClientBounds
<1>2. o.vault \in Seq(Byte) /\ o.nonce \in Int /\ o.kind \in Nat /\ o.args \in Seq(Byte)
  BY <1>1 DEF Input
<1> DEFINE net == IF o.network = "evm" THEN "evm" ELSE "solana"
<1>3. Parsed(o) = [network |-> net, vault |-> o.vault, nonce |-> o.nonce, kind |-> o.kind, args |-> o.args]
  BY <1>1 DEF Parsed, Input
<1>4. net \in {"solana", "evm"}
  OBVIOUS
<1> HIDE DEF net
<1>5. Parsed(o) \in Request
  BY <1>2, <1>3, <1>4 DEF Request
<1> QED BY <1>1, <1>3, <1>5 DEF IsAsked

LEMMA ParsedKeeps ==
    ASSUME NEW o \in Inputs
    PROVE  Parsed(o).kind = o.kind /\ Parsed(o).args = o.args /\ Parsed(o).nonce = o.nonce
BY ClientBounds DEF Parsed, Input

LEMMA TimesAreNumbers == /\ 0..MaxTime \subseteq U64 /\ 0..MaxTime \subseteq Nat
                         /\ \A s \in 0..MaxTime : s % U64Size = s
<1>1. MaxTime \in 0..Power[8] - 1 /\ Power[8] \in Nat \ {0}
  BY ClientBounds, SizesOfIntegers DEF U64
<1>2. 0..MaxTime \subseteq U64 /\ 0..MaxTime \subseteq Nat
  BY <1>1 DEF U64
<1>3. ASSUME NEW s \in 0..MaxTime PROVE s % U64Size = s
  <2>1. s \in 0..U64Size - 1 /\ U64Size \in Nat \ {0}
    BY <1>1 DEF U64Size
  <2> HIDE DEF U64Size
  <2> QED BY <2>1, SmallModulo
<1> QED BY <1>2, <1>3

\* What the device reads, while it has a proposal.
LEMMA DeviceKnows ==
    ASSUME NEW i, NEW id, NEW t \in 0..MaxTime, InProgress(i, id, t), request # <<>>
    PROVE  /\ Proposed = [network |-> i.network, vault |-> i.vault, nonce |-> i.nonce % U64Size,
                          kind |-> i.kind, args |-> i.args, hash |-> ComputeIntentHash(i), id |-> id]
           /\ IsDecodable(Proposed.kind, Proposed.args)
           /\ DeviceIntentHash(Proposed) = Proposed.hash
           /\ \A s \in 0..MaxTime : DeviceDigest(Proposed, Proposed.hash, s) =
                                       AttesterDigest(i, ComputeIntentHash(i), s)
<1> DEFINE p == Proposed
<1>1. IsAsked(i) /\ i.nonce >= 0 /\ request = EncodeMap(ProposeIntent(i, id, t)) /\ t \in Nat
  BY TimesAreNumbers DEF InProgress
<1>2. p = [network |-> i.network, vault |-> i.vault, nonce |-> i.nonce % U64Size,
           kind |-> i.kind, args |-> i.args, hash |-> ComputeIntentHash(i), id |-> id]
  BY <1>1, ProposalIsRead DEF Proposed
<1>3. /\ p.network = i.network /\ p.vault = i.vault /\ p.nonce = i.nonce % U64Size
      /\ p.kind = i.kind /\ p.args = i.args /\ p.hash = ComputeIntentHash(i)
  BY <1>2
<1> HIDE DEF p
<1>4. i.nonce \in Int /\ i.args \in Seq(Byte) /\ IsDecodable(i.kind, i.args)
  BY <1>1, AskedTypes
<1>5. Bound(p.vault, p.nonce, p.kind) = Bound(i.vault, i.nonce, i.kind)
  BY <1>3, <1>4, NonceWraps
<1>6. DeviceIntentHash(p) = DeviceIntentHash(i)
  BY <1>3, <1>5, HashesJoin
<1>7. DeviceIntentHash(p) = p.hash
  BY <1>3, <1>4, <1>6, HashesAgree
<1>8. ASSUME NEW s \in 0..MaxTime
      PROVE  DeviceDigest(p, p.hash, s) = AttesterDigest(i, ComputeIntentHash(i), s)
  <2>1. DeviceDigest(p, p.hash, s) =
           Hash(p.network, Joined(Joined(Bound(p.vault, p.nonce, p.kind), <<p.hash>>), LittleEndian(s, 8)))
    BY HashesJoin
  <2>2. AttesterDigest(i, ComputeIntentHash(i), s) =
           Hash(i.network, Joined(Joined(Bound(i.vault, i.nonce, i.kind), <<ComputeIntentHash(i)>>), LittleEndian(s, 8)))
    BY HashesJoin
  <2> QED BY <1>3, <1>5, <2>1, <2>2
<1> QED BY <1>2, <1>3, <1>4, <1>7, <1>8 DEF p

------------------------------------------------------------------------------
(* Each action keeps what holds *)

\* What the actions that are no step of a run have in common.
LEMMA OutsideRuns ==
    ASSUME RunHolds, UNCHANGED <<run, request, display, answer>>
    PROVE  RunHolds'
BY DEF RunHolds, InProgress

LEMMA AnOutcomeMore ==
    ASSUME outcomes \in Seq(Outcomes), NEW outcome \in Outcomes, Ends(outcome)
    PROVE  outcomes' \in Seq(Outcomes)
BY DEF Ends

LEMMA AttestThrowsKeeps ==
    ASSUME ClientsHold, NEW o \in Inputs, AttestThrows(o), UNCHANGED encodings
    PROVE  ClientsHold'
<1>1. outcomes' \in Seq(Outcomes)
  BY AnOutcomeMore DEF AttestThrows, ClientsHold, Outcomes
<1>2. RunHolds'
  BY OutsideRuns DEF AttestThrows, ClientsHold
<1> QED BY <1>1, <1>2 DEF ClientsHold, AttestThrows

LEMMA AttestKeeps ==
    ASSUME ClientsHold, NEW o \in Inputs, Attest(o), UNCHANGED encodings
    PROVE  ClientsHold'
<1> DEFINE i == Parsed(o)
           id == Len(outcomes)
<1>1. IsDecodable(i.kind, i.args) /\ i.nonce >= 0 /\ now \in 0..MaxTime
  BY DEF Attest, ClientsHold
<1>2. IsAsked(i)
  BY <1>1, ParsedIsAsked, ParsedKeeps
<1>3. /\ run = <<>>
      /\ run' = <<[input |-> i, message |-> ProposeIntent(i, id, now), preview |-> Preview(i.kind, i.args)]>>
      /\ request' = EncodeMap(ProposeIntent(i, id, now))
      /\ UNCHANGED <<now, display, answer, outcomes, approvals>>
  BY DEF Attest, Idle
<1>4. display' = <<>> /\ answer' = <<>>
  BY <1>3 DEF ClientsHold, RunHolds
<1> HIDE DEF i, id
<1>5. InProgress(i, id, now)'
  <2>1. InProgress(i, id, now)' <=>
          /\ IsAsked(i) /\ i.nonce >= 0
          /\ run' = <<[input |-> i, message |-> ProposeIntent(i, id, now), preview |-> Preview(i.kind, i.args)]>>
          /\ request' # <<>> => request' = EncodeMap(ProposeIntent(i, id, now)) /\ answer' = <<>>
          /\ display' # <<>> => display' = Display(i.kind, i.args)
          /\ answer' # <<>> => \/ answer' = EncodeMap(Rejection(id))
                               \/ \E s \in 0..MaxTime : answer' = EncodeMap(Acknowledgement(i, id, s))
    BY <1>3 DEF InProgress, i, id
  <2> QED BY <1>1, <1>2, <1>3, <1>4, <2>1
<1> QED BY <1>1, <1>3, <1>4, <1>5 DEF ClientsHold, RunHolds

LEMMA ApprovalHolds ==
    ASSUME NEW i, IsAsked(i), NEW key, NEW t \in 0..MaxTime
    PROVE  IsApproval(Approval(i, ComputeIntentHash(i), key, AttesterDigest(i, ComputeIntentHash(i), t), t))
BY DEF IsApproval

LEMMA ApprovedKeeps ==
    ASSUME ClientsHold, NEW a, IsApproval(a), Approved(a)
    PROVE  outcomes' \in Seq(Outcomes) /\ \A b \in approvals' : IsApproval(b)
<1>1. outcomes' \in Seq(Outcomes)
  BY AnOutcomeMore DEF Approved, ClientsHold, Outcomes
<1>2. approvals' = approvals \cup {a}
  BY DEF Approved
<1> QED BY <1>1, <1>2 DEF ClientsHold

LEMMA EmulatorKeeps ==
    ASSUME ClientsHold, NEW o \in Inputs, AttestEmulated(o), UNCHANGED encodings
    PROVE  ClientsHold'
<1> DEFINE i == Parsed(o)
           h == ComputeIntentHash(i)
<1>1. RunHolds' /\ UNCHANGED <<now, encodings>>
  BY OutsideRuns DEF AttestEmulated, ClientsHold
<1>2. CASE IsDecodable(i.kind, i.args) /\ InWidth(i, now)
  <2>1. Approved(Approval(i, h, "emulator", EmulatorDigest(i, h, now), now))
    BY <1>2 DEF AttestEmulated
  <2>2. IsAsked(i)
    BY <1>2, ParsedIsAsked, ParsedKeeps
  <2>3. EmulatorDigest(i, h, now) = AttesterDigest(i, h, now)
    BY HashesJoin
  <2>4. now \in 0..MaxTime
    BY DEF ClientsHold
  <2> HIDE DEF i
  <2>5. IsApproval(Approval(i, h, "emulator", EmulatorDigest(i, h, now), now))
    BY <2>2, <2>3, <2>4, ApprovalHolds
  <2>6. outcomes' \in Seq(Outcomes) /\ \A b \in approvals' : IsApproval(b)
    <3> DEFINE a == Approval(i, h, "emulator", EmulatorDigest(i, h, now), now)
    <3> HIDE DEF a
    <3> QED BY <2>1, <2>5, ApprovedKeeps DEF a
  <2> QED BY <1>1, <2>6 DEF ClientsHold
<1>3. CASE ~(IsDecodable(i.kind, i.args) /\ InWidth(i, now))
  <2>1. Ends("threw") /\ UNCHANGED approvals
    BY <1>3 DEF AttestEmulated
  <2>2. outcomes' \in Seq(Outcomes)
    BY <2>1, AnOutcomeMore DEF ClientsHold, Outcomes
  <2> QED BY <1>1, <2>1, <2>2 DEF ClientsHold
<1> QED BY <1>2, <1>3

LEMMA SdkKeeps ==
    ASSUME ClientsHold, NEW i \in Inputs, NEW t \in 0..MaxTime, AttestInSdk(i, t), UNCHANGED encodings
    PROVE  ClientsHold'
<1> DEFINE h == ComputeIntentHash(i)
<1>1. RunHolds' /\ UNCHANGED <<now, encodings>>
  BY OutsideRuns DEF AttestInSdk, ClientsHold
<1>2. CASE IsDecodable(i.kind, i.args) /\ InWidth(i, t)
  <2>1. Approved(Approval(i, h, "sdk", AttesterDigest(i, h, t), t))
    BY <1>2 DEF AttestInSdk
  <2>2. IsAsked(i)
    BY <1>2, InputIsAsked DEF AttestInSdk
  <2>3. IsApproval(Approval(i, h, "sdk", AttesterDigest(i, h, t), t))
    BY <2>2, ApprovalHolds
  <2>4. outcomes' \in Seq(Outcomes) /\ \A b \in approvals' : IsApproval(b)
    <3> DEFINE a == Approval(i, h, "sdk", AttesterDigest(i, h, t), t)
    <3> HIDE DEF a
    <3> QED BY <2>1, <2>3, ApprovedKeeps DEF a
  <2> QED BY <1>1, <2>4 DEF ClientsHold
<1>3. CASE ~(IsDecodable(i.kind, i.args) /\ InWidth(i, t))
  <2>1. Ends("threw") /\ UNCHANGED approvals
    BY <1>3 DEF AttestInSdk
  <2>2. outcomes' \in Seq(Outcomes)
    BY <2>1, AnOutcomeMore DEF ClientsHold, Outcomes
  <2> QED BY <1>1, <2>1, <2>2 DEF ClientsHold
<1> QED BY <1>2, <1>3

LEMMA SerialiseKeeps ==
    ASSUME ClientsHold, NEW v \in Values, Serialise(v)
    PROVE  ClientsHold'
<1>1. RunHolds' /\ UNCHANGED <<now, approvals>>
  BY OutsideRuns DEF Serialise, ClientsHold
<1>2. outcomes' \in Seq(Outcomes)
  BY AnOutcomeMore DEF Serialise, ClientsHold, Outcomes
<1>3. encodings' = encodings \cup {[value |-> v, bytes |-> CanonicalSerialise(v)]}
  BY DEF Serialise
<1> QED BY <1>1, <1>2, <1>3 DEF ClientsHold

LEMMA TickKeeps ==
    ASSUME ClientsHold, Tick, UNCHANGED encodings
    PROVE  ClientsHold'
<1>1. RunHolds' /\ UNCHANGED <<outcomes, approvals, encodings>>
  BY OutsideRuns DEF Tick, ClientsHold
<1>2. now' \in 0..MaxTime
  BY ClientBounds DEF Tick, ClientsHold, U64
<1> QED BY <1>1, <1>2 DEF ClientsHold

LEMMA StutterKeeps ==
    ASSUME ClientsHold, UNCHANGED vars
    PROVE  ClientsHold'
<1>1. RunHolds'
  BY OutsideRuns DEF ClientsHold, vars, attestVars
<1> QED BY <1>1 DEF ClientsHold, vars, attestVars

\* A run that waits, and what it waits for.
LEMMA RunWaits ==
    ASSUME ClientsHold, request # <<>> \/ answer # <<>>
    PROVE  \E i, id : \E t \in 0..MaxTime : InProgress(i, id, t)
BY DEF ClientsHold, RunHolds

\* What stays the same while the device has the proposal.
LEMMA DeviceStep ==
    ASSUME ClientsHold, UNCHANGED <<now, run, outcomes, approvals, encodings>>, run # <<>>,
           NEW i, NEW id, NEW t \in 0..MaxTime, InProgress(i, id, t)'
    PROVE  ClientsHold'
<1>1. RunHolds'
  <2>1. run' # <<>>
    OBVIOUS
  <2> QED BY <2>1 DEF RunHolds
<1> QED BY <1>1 DEF ClientsHold

LEMMA DeviceReadsKeeps ==
    ASSUME ClientsHold, DeviceReads, UNCHANGED encodings
    PROVE  ClientsHold'
<1>1. PICK i, id : \E t \in 0..MaxTime : InProgress(i, id, t)
  BY RunWaits DEF DeviceReads
<1>2. PICK t \in 0..MaxTime : InProgress(i, id, t)
  BY <1>1
<1>3. /\ Proposed.kind = i.kind /\ Proposed.args = i.args
      /\ IsDecodable(Proposed.kind, Proposed.args) /\ DeviceIntentHash(Proposed) = Proposed.hash
  BY <1>2, DeviceKnows DEF DeviceReads
<1>4. display' = Display(i.kind, i.args) /\ UNCHANGED <<request, answer>>
  BY <1>3 DEF DeviceReads, RefusesOrShows
<1>5. run # <<>> /\ UNCHANGED <<now, run, outcomes, approvals, encodings>>
  BY <1>2 DEF DeviceReads, InProgress
<1>6. InProgress(i, id, t)'
  BY <1>2, <1>4, <1>5 DEF InProgress
<1> QED BY <1>5, <1>6, DeviceStep

LEMMA DeviceCancelsKeeps ==
    ASSUME ClientsHold, DeviceCancels, UNCHANGED encodings
    PROVE  ClientsHold'
<1>1. PICK i, id : \E t \in 0..MaxTime : InProgress(i, id, t)
  BY RunWaits DEF DeviceCancels
<1>2. PICK t \in 0..MaxTime : InProgress(i, id, t)
  BY <1>1
<1>3. Proposed.id = id
  BY <1>2, DeviceKnows DEF DeviceCancels
<1>4. request' = <<>> /\ answer' = EncodeMap(Rejection(id))
  BY <1>3 DEF DeviceCancels, Rejects, Replies, Rejection
<1>5. run # <<>> /\ UNCHANGED <<now, run, display, outcomes, approvals, encodings>>
  BY <1>2 DEF DeviceCancels, InProgress
<1>6. InProgress(i, id, t)'
  BY <1>2, <1>4, <1>5 DEF InProgress
<1> QED BY <1>5, <1>6, DeviceStep

LEMMA DeviceSignsKeeps ==
    ASSUME ClientsHold, DeviceSigns, UNCHANGED encodings
    PROVE  ClientsHold'
<1>1. PICK i, id : \E t \in 0..MaxTime : InProgress(i, id, t)
  BY RunWaits DEF DeviceSigns
<1>2. PICK t \in 0..MaxTime : InProgress(i, id, t)
  BY <1>1
<1>3. now \in 0..MaxTime
  BY DEF ClientsHold
<1>4. /\ Proposed.id = id
      /\ DeviceDigest(Proposed, Proposed.hash, now) = AttesterDigest(i, ComputeIntentHash(i), now)
  BY <1>2, <1>3, DeviceKnows DEF DeviceSigns
<1>5. request' = <<>> /\ answer' = EncodeMap(Acknowledgement(i, id, now))
  BY <1>4 DEF DeviceSigns, Acknowledges, Replies, Acknowledgement, Signed
<1>6. run # <<>> /\ UNCHANGED <<now, run, display, outcomes, approvals, encodings>>
  BY <1>2 DEF DeviceSigns, InProgress
<1>7. InProgress(i, id, t)'
  BY <1>2, <1>3, <1>5, <1>6 DEF InProgress
<1> QED BY <1>6, <1>7, DeviceStep

LEMMA ReportKeeps ==
    ASSUME ClientsHold, Report, UNCHANGED encodings
    PROVE  ClientsHold'
<1>1. PICK i, id : \E t \in 0..MaxTime : InProgress(i, id, t)
  BY RunWaits DEF Report
<1>2. PICK t \in 0..MaxTime : InProgress(i, id, t)
  BY <1>1
<1> DEFINE m == DecodeMap(answer).value
<1>3. /\ answer # <<>> /\ Reports(m) /\ run' = <<>> /\ answer' = <<>> /\ display' = <<>>
      /\ UNCHANGED <<now, request, encodings>>
  BY DEF Report
<1>4. RunHolds'
  <2>1. request' = <<>>
    BY <1>2, <1>3 DEF InProgress
  <2> QED BY <1>3, <2>1 DEF RunHolds
<1>5. run[1].input = i /\ run[1].message = ProposeIntent(i, id, t) /\ IsAsked(i)
  BY <1>2 DEF InProgress
<1>6. CASE answer = EncodeMap(Rejection(id))
  <2>1. m = [k \in DOMAIN Rejection(id) |-> Sent(Rejection(id)[k])]
    BY <1>6, RejectionIsMessage, MessagesAreRead
  <2>2. m["type"] = Sent(Text("IntentReject")) /\ m["reason"] = Sent(Text("UserCancelled"))
    BY <2>1 DEF Rejection
  <2>3. m["type"].value = "IntentReject" /\ m["reason"].value = "UserCancelled"
    BY <2>2, TextItem
  <2>4. Ends("UserCancelled") /\ UNCHANGED approvals
    BY <1>3, <2>3 DEF Reports
  <2>5. outcomes' \in Seq(Outcomes)
    BY <2>4, AnOutcomeMore DEF ClientsHold, Outcomes
  <2> QED BY <1>3, <1>4, <2>4, <2>5 DEF ClientsHold
<1>7. ASSUME NEW s \in 0..MaxTime, answer = EncodeMap(Acknowledgement(i, id, s))
      PROVE  ClientsHold'
  <2> DEFINE a == Acknowledgement(i, id, s)
             h == ComputeIntentHash(i)
  <2>1. m = [k \in DOMAIN a |-> Sent(a[k])]
    BY <1>7, AcknowledgementIsMessage, MessagesAreRead, TimesAreNumbers
  <2>2. /\ DOMAIN a = {"type", "proposal_id", "signature", "device_pubkey", "signed_at"}
        /\ a["type"] = Text("IntentAck") /\ a["signature"] = Bytes(<<Signed(i, s)>>)
        /\ a["device_pubkey"] = Bytes(<<"device">>) /\ a["signed_at"] = Uint(s)
    BY DEF Acknowledgement
  <2> HIDE DEF a, m
  <2>3. /\ m["type"] = Sent(a["type"]) /\ m["signature"] = Sent(a["signature"])
        /\ m["device_pubkey"] = Sent(a["device_pubkey"]) /\ m["signed_at"] = Sent(a["signed_at"])
    BY <2>1, <2>2
  <2>4. /\ m["type"].value = "IntentAck" /\ m["signature"].value = <<Signed(i, s)>>
        /\ m["device_pubkey"].value = <<"device">>
    BY <2>2, <2>3, TextItem, BytesItem
  <2>5. m["signed_at"].value = s
    BY <2>2, <2>3, UintItem, TimesAreNumbers
  <2>6. run[1].message.intent_hash.value[1] = h
    BY <1>5 DEF ProposeIntent, Bytes
  <2>7. Approved(Approval(i, h, "device", AttesterDigest(i, h, s), s))
    <3>1. m["signature"].value[1].digest = AttesterDigest(i, h, s) /\ m["device_pubkey"].value[1] = "device"
      BY <2>4 DEF Signed
    <3>2. m["type"].value # "IntentReject"
      BY <2>4
    <3>3. Approved(Approval(run[1].input, run[1].message.intent_hash.value[1],
                            m["device_pubkey"].value[1], m["signature"].value[1].digest, m["signed_at"].value))
      BY <1>3, <3>2 DEF Reports
    <3> QED BY <1>5, <2>5, <2>6, <3>1, <3>3
  <2>8. IsApproval(Approval(i, h, "device", AttesterDigest(i, h, s), s))
    BY <1>5, ApprovalHolds
  <2>9. outcomes' \in Seq(Outcomes) /\ \A b \in approvals' : IsApproval(b)
    <3> DEFINE c == Approval(i, h, "device", AttesterDigest(i, h, s), s)
    <3> HIDE DEF c
    <3> QED BY <2>7, <2>8, ApprovedKeeps DEF c
  <2> QED BY <1>3, <1>4, <2>9 DEF ClientsHold
<1>8. answer = EncodeMap(Rejection(id)) \/ \E s \in 0..MaxTime : answer = EncodeMap(Acknowledgement(i, id, s))
  BY <1>2, <1>3 DEF InProgress
<1> QED BY <1>6, <1>7, <1>8

\* Every step keeps what holds, and so it holds for ever.
LEMMA ClientsKeep == ClientsHold /\ [Next]_vars => ClientsHold'
<1> SUFFICES ASSUME ClientsHold, [Next]_vars PROVE ClientsHold'
  OBVIOUS
<1>1. ASSUME NEW o \in Inputs, AttestThrows(o), UNCHANGED encodings PROVE ClientsHold'
  BY <1>1, AttestThrowsKeeps
<1>2. ASSUME NEW o \in Inputs, Attest(o), UNCHANGED encodings PROVE ClientsHold'
  BY <1>2, AttestKeeps
<1>3. ASSUME NEW o \in Inputs, AttestEmulated(o), UNCHANGED encodings PROVE ClientsHold'
  BY <1>3, EmulatorKeeps
<1>4. ASSUME Report, UNCHANGED encodings PROVE ClientsHold'
  BY <1>4, ReportKeeps
<1>5. ASSUME DeviceReads, UNCHANGED encodings PROVE ClientsHold'
  BY <1>5, DeviceReadsKeeps
<1>6. ASSUME DeviceSigns, UNCHANGED encodings PROVE ClientsHold'
  BY <1>6, DeviceSignsKeeps
<1>7. ASSUME DeviceCancels, UNCHANGED encodings PROVE ClientsHold'
  BY <1>7, DeviceCancelsKeeps
<1>8. ASSUME NEW i \in Inputs, NEW t \in 0..MaxTime, AttestInSdk(i, t), UNCHANGED encodings PROVE ClientsHold'
  BY <1>8, SdkKeeps
<1>9. ASSUME Tick, UNCHANGED encodings PROVE ClientsHold'
  BY <1>9, TickKeeps
<1>10. ASSUME NEW v \in Values, Serialise(v) PROVE ClientsHold'
  BY <1>10, SerialiseKeeps
<1>11. ASSUME UNCHANGED vars PROVE ClientsHold'
  BY <1>11, StutterKeeps
<1> QED BY <1>1, <1>2, <1>3, <1>4, <1>5, <1>6, <1>7, <1>8, <1>9, <1>10, <1>11 DEF Next

LEMMA ClientsStart == Init => ClientsHold
<1> SUFFICES ASSUME Init PROVE ClientsHold
  OBVIOUS
<1>1. now \in 0..MaxTime
  BY ClientBounds DEF Init, U64
<1>2. outcomes \in Seq(Outcomes)
  BY DEF Init
<1>3. RunHolds /\ approvals = {} /\ encodings = {}
  BY DEF Init, RunHolds
<1> QED BY <1>1, <1>2, <1>3 DEF ClientsHold

\* What the programs keep of one another: a run is about one input from the command line to
\* the button and back, and each approval is over the digest of what it was asked for.
THEOREM ClientsAgree == Spec => []ClientsHold
<1>1. Init => ClientsHold
  BY ClientsStart
<1>2. ClientsHold /\ [Next]_vars => ClientsHold'
  BY ClientsKeep
<1> QED BY <1>1, <1>2, PTL DEF Spec

------------------------------------------------------------------------------
(* The properties *)

\* The device turns no proposal of the command away, for every input it accepts.
THEOREM OwnProposalsAreShown == Spec => []OwnProposalsPass
<1>1. ClientsHold => OwnProposalsPass
  <2> SUFFICES ASSUME ClientsHold, NEW n \in DOMAIN outcomes
               PROVE  outcomes[n] \notin {"DecodeFailure", "IntentMismatch"}
    BY DEF OwnProposalsPass
  <2>1. outcomes[n] \in Outcomes
    BY DEF ClientsHold
  <2> QED BY <2>1 DEF Outcomes
<1> QED BY <1>1, ClientsAgree, PTL

\* cborDecode of cborEncode: every message is read as it was sent, and no part of it is
\* taken for a message.
THEOREM MessagesAreConveyed == Spec => []MessagesSurviveTheWire
<1>1. ClientsHold => MessagesSurviveTheWire
  <2> SUFFICES ASSUME ClientsHold PROVE MessagesSurviveTheWire
    OBVIOUS
  <2>1. ASSUME request # <<>> PROVE Conveys(DecodeMap(request), run[1].message)
    <3>1. PICK i, id : \E t \in 0..MaxTime : InProgress(i, id, t)
      BY <2>1, RunWaits
    <3>2. PICK t \in 0..MaxTime : InProgress(i, id, t)
      BY <3>1
    <3> DEFINE said == ProposeIntent(i, id, t)
    <3>3. run[1].message = said /\ request = EncodeMap(said) /\ IsMessage(said)
      BY <2>1, <3>2, ProposalIsMessage, TimesAreNumbers DEF InProgress
    <3> HIDE DEF said
    <3>4. /\ DecodeMap(request).ok /\ DecodeMap(request).rest = <<>>
          /\ DecodeMap(request).value = [k \in DOMAIN said |-> Sent(said[k])]
      BY <3>3, MessagesAreRead
    <3> QED BY <3>3, <3>4 DEF Conveys, Sent
  <2>2. ASSUME NEW w \in {request, answer}, NEW k \in 0..Len(w) - 1
        PROVE  ~DecodeMap(SubSeq(w, 1, k)).ok
    <3>1. CASE w = <<>>
      BY <3>1
    <3>2. CASE w # <<>>
      <4>1. \E m : IsMessage(m) /\ w = EncodeMap(m)
        <5>1. PICK i, id : \E t \in 0..MaxTime : InProgress(i, id, t)
          BY <3>2, RunWaits
        <5>2. PICK t \in 0..MaxTime : InProgress(i, id, t)
          BY <5>1
        <5>3. CASE w = request
          <6>1. IsMessage(ProposeIntent(i, id, t)) /\ w = EncodeMap(ProposeIntent(i, id, t))
            BY <3>2, <5>2, <5>3, ProposalIsMessage, TimesAreNumbers DEF InProgress
          <6> QED BY <6>1
        <5>4. CASE w = answer
          <6>1. \/ w = EncodeMap(Rejection(id))
                \/ \E s \in 0..MaxTime : w = EncodeMap(Acknowledgement(i, id, s))
            BY <3>2, <5>2, <5>4 DEF InProgress
          <6>2. /\ IsMessage(Rejection(id))
                /\ \A s \in 0..MaxTime : IsMessage(Acknowledgement(i, id, s))
            BY RejectionIsMessage, AcknowledgementIsMessage, TimesAreNumbers
          <6> QED BY <6>1, <6>2
        <5> QED BY <5>3, <5>4
      <4>2. PICK m : IsMessage(m) /\ w = EncodeMap(m)
        BY <4>1
      <4> QED BY <2>2, <4>2, MessagesAreRead
    <3> QED BY <3>1, <3>2
  <2> QED BY <2>1, <2>2 DEF MessagesSurviveTheWire
<1> QED BY <1>1, ClientsAgree, PTL

\* The same request but for what does not fit the nonce's width: the same digest.
LEMMA DigestWraps ==
    ASSUME NEW i, i.nonce \in Int, NEW c, NEW t,
           c.network = i.network, c.vault = i.vault, c.kind = i.kind, c.args = i.args,
           c.nonce = i.nonce % U64Size
    PROVE  AttesterDigest(c, ComputeIntentHash(c), t) = AttesterDigest(i, ComputeIntentHash(i), t)
<1>1. Bound(c.vault, c.nonce, c.kind) = Bound(i.vault, i.nonce, i.kind)
  BY NonceWraps
<1>2. ComputeIntentHash(c) = ComputeIntentHash(i)
  BY <1>1, HashesJoin
<1>3. AttesterDigest(c, ComputeIntentHash(c), t) =
         Hash(c.network, Joined(Joined(Bound(c.vault, c.nonce, c.kind), <<ComputeIntentHash(c)>>), LittleEndian(t, 8)))
  BY HashesJoin
<1>4. AttesterDigest(i, ComputeIntentHash(i), t) =
         Hash(i.network, Joined(Joined(Bound(i.vault, i.nonce, i.kind), <<ComputeIntentHash(i)>>), LittleEndian(t, 8)))
  BY HashesJoin
<1> QED BY <1>1, <1>2, <1>3, <1>4

LEMMA ClaimsAreAsked ==
    ASSUME NEW c \in Claims
    PROVE  IsAsked(c) /\ c.nonce \in U64 /\ ClaimHash[c] = ComputeIntentHash(c)
<1>1. PICK o \in Inputs : c = Parsed(o)
  BY DEF Claims
<1>2. IsDecodable(c.kind, c.args) /\ c.nonce \in U64
  BY DEF Claims
<1>3. IsAsked(c)
  BY <1>1, <1>2, ParsedIsAsked, ParsedKeeps
<1>4. ClaimHash[c] = ComputeIntentHash(c)
  BY DEF ClaimHash
<1> QED BY <1>2, <1>3, <1>4

LEMMA RequestsAreRecords ==
    ASSUME NEW i, IsAsked(i), NEW c, IsAsked(c)
    PROVE  c = [i EXCEPT !.nonce = @ % U64Size]
           <=> /\ c.network = i.network /\ c.vault = i.vault /\ c.kind = i.kind /\ c.args = i.args
               /\ c.nonce = i.nonce % U64Size
BY DEF IsAsked, Request

\* Each approval verifies as what it was asked for and as nothing else, for every input.
THEOREM ApprovalsAreVerified == Spec => []ApprovalsVerifyAsAsked
<1>1. ClientsHold => ApprovalsVerifyAsAsked
  <2> SUFFICES ASSUME ClientsHold, NEW a \in approvals, NEW c \in Claims, NEW t \in 0..MaxTime
               PROVE  Verifies(c, ClaimHash[c], t, a.devicePubkey, a.signature)
                      <=> c = [a.input EXCEPT !.nonce = @ % U64Size] /\ t = a.signedAt
    BY DEF ApprovalsVerifyAsAsked
  <2>1. PICK i, key : \E s \in 0..MaxTime :
            /\ IsAsked(i)
            /\ a = Approval(i, ComputeIntentHash(i), key, AttesterDigest(i, ComputeIntentHash(i), s), s)
    BY DEF ClientsHold, IsApproval
  <2>2. PICK s \in 0..MaxTime :
            /\ IsAsked(i)
            /\ a = Approval(i, ComputeIntentHash(i), key, AttesterDigest(i, ComputeIntentHash(i), s), s)
    BY <2>1
  <2>3. /\ a.input = i /\ a.devicePubkey = key /\ a.signedAt = s
        /\ a.signature = [key |-> key, digest |-> AttesterDigest(i, ComputeIntentHash(i), s)]
    BY <2>2 DEF Approval
  <2>4. IsAsked(c) /\ c.nonce \in U64 /\ ClaimHash[c] = ComputeIntentHash(c)
    BY ClaimsAreAsked
  <2>5. s \in U64 /\ t \in U64
    BY TimesAreNumbers
  <2>6. InWidth(c, t)
    <3>1. c.kind = 1 \/ c.kind = 3
      BY <2>4, AskedTypes, Kinds
    <3>2. Power[4] >= 16 /\ Power[4] \in Nat
      BY SizesOfIntegers
    <3>3. c.kind \in 0..Power[4] - 1
      BY <3>1, <3>2
    <3> QED BY <2>4, <2>5, <3>3 DEF InWidth, U32
  <2>7. Verifies(c, ClaimHash[c], t, a.devicePubkey, a.signature)
        <=> AttesterDigest(c, ComputeIntentHash(c), t) = AttesterDigest(i, ComputeIntentHash(i), s)
    <3> DEFINE x == AttesterDigest(c, ComputeIntentHash(c), t)
               y == AttesterDigest(i, ComputeIntentHash(i), s)
    <3>1. Verifies(c, ClaimHash[c], t, a.devicePubkey, a.signature)
          <=> [key |-> key, digest |-> y] = [key |-> key, digest |-> x]
      BY <2>3, <2>4, <2>6 DEF Verifies
    <3> HIDE DEF x, y
    <3>2. [key |-> key, digest |-> y] = [key |-> key, digest |-> x] <=> x = y
      OBVIOUS
    <3> QED BY <3>1, <3>2 DEF x, y
  <2>8. ASSUME AttesterDigest(c, ComputeIntentHash(c), t) = AttesterDigest(i, ComputeIntentHash(i), s)
        PROVE  c = [i EXCEPT !.nonce = @ % U64Size] /\ t = s
    <3>1. /\ c.network = i.network /\ c.vault = i.vault /\ c.kind = i.kind /\ c.args = i.args
          /\ LittleEndian(c.nonce, 8) = LittleEndian(i.nonce, 8) /\ t = s
      BY <2>2, <2>4, <2>5, <2>8, DigestTells
    <3>2. c.nonce = i.nonce % U64Size
      <4> DEFINE w == 8
      <4>1. /\ w \in Nat /\ LittleEndian(c.nonce, w) = LittleEndian(i.nonce, w)
            /\ c.nonce \in Int /\ i.nonce \in Int
        BY <2>2, <2>4, <3>1, AskedTypes
      <4>2. c.nonce \in 0..Power[w] - 1 /\ Power[w] \in Nat \ {0} /\ U64Size = Power[w]
        BY <2>4, SizesOfIntegers DEF U64, U64Size
      <4> HIDE DEF w
      <4>3. c.nonce % Power[w] = i.nonce % Power[w]
        BY <4>1, BytesTellNumbers
      <4>4. c.nonce % Power[w] = c.nonce
        BY <4>2, SmallModulo
      <4> QED BY <4>2, <4>3, <4>4
    <3> QED BY <2>2, <2>4, <3>1, <3>2, RequestsAreRecords
  <2>9. ASSUME c = [i EXCEPT !.nonce = @ % U64Size], t = s
        PROVE  AttesterDigest(c, ComputeIntentHash(c), t) = AttesterDigest(i, ComputeIntentHash(i), s)
    <3>1. /\ c.network = i.network /\ c.vault = i.vault /\ c.kind = i.kind /\ c.args = i.args
          /\ c.nonce = i.nonce % U64Size /\ i.nonce \in Int
      BY <2>2, <2>4, <2>9, RequestsAreRecords, AskedTypes
    <3> QED BY <2>9, <3>1, DigestWraps
  <2> QED BY <2>3, <2>7, <2>8, <2>9
<1> QED BY <1>1, ClientsAgree, PTL

\* A line before and a line after some lines.
Framed(first, lines, final) == (<<first>> \o lines) \o <<final>>

LEMMA FramedLines ==
    ASSUME NEW S, NEW first \in S, NEW lines \in Seq(S), NEW final \in S, Len(lines) = 4
    PROVE  /\ DOMAIN Framed(first, lines, final) = 1..6
           /\ Framed(first, lines, final)[1] = first /\ Framed(first, lines, final)[6] = final
           /\ \A i \in 1..4 : Framed(first, lines, final)[i + 1] = lines[i]
<1> DEFINE one == <<first>>
           five == one \o lines
           last == <<final>>
           all == five \o last
<1>1. one \in Seq(S) /\ Len(one) = 1 /\ one[1] = first
  OBVIOUS
<1>2. last \in Seq(S) /\ Len(last) = 1 /\ last[1] = final
  OBVIOUS
<1> HIDE DEF one, last
<1>3. /\ five \in Seq(S) /\ Len(five) = 5
      /\ \A i \in 1..5 : five[i] = IF i <= 1 THEN one[i] ELSE lines[i - 1]
  <2>1. /\ five \in Seq(S) /\ Len(five) = Len(one) + Len(lines)
        /\ \A i \in 1..Len(one) + Len(lines) :
              five[i] = IF i <= Len(one) THEN one[i] ELSE lines[i - Len(one)]
    BY <1>1, ConcatProperties
  <2> HIDE DEF five
  <2> QED BY <1>1, <2>1
<1> HIDE DEF five
<1>4. /\ all \in Seq(S) /\ Len(all) = 6
      /\ \A i \in 1..6 : all[i] = IF i <= 5 THEN five[i] ELSE last[i - 5]
  <2>1. /\ all \in Seq(S) /\ Len(all) = Len(five) + Len(last)
        /\ \A i \in 1..Len(five) + Len(last) :
              all[i] = IF i <= Len(five) THEN five[i] ELSE last[i - Len(five)]
    BY <1>2, <1>3, ConcatProperties
  <2> HIDE DEF all
  <2> QED BY <1>2, <1>3, <2>1
<1> HIDE DEF all
<1>5. /\ five[1] = first /\ five[2] = lines[1] /\ five[3] = lines[2]
      /\ five[4] = lines[3] /\ five[5] = lines[4]
  BY <1>1, <1>3
<1>6. /\ all[1] = five[1] /\ all[2] = five[2] /\ all[3] = five[3]
      /\ all[4] = five[4] /\ all[5] = five[5] /\ all[6] = final
  BY <1>2, <1>4
<1>7. DOMAIN all = 1..6
  BY <1>4
<1>8. \A i \in 1..4 : all[i + 1] = lines[i]
  <2>1. \A i \in 1..4 : i = 1 \/ i = 2 \/ i = 3 \/ i = 4  OBVIOUS
  <2> QED BY <1>5, <1>6, <2>1
<1>9. Framed(first, lines, final) = all
  BY DEF Framed, all, five, one, last
<1> QED BY <1>5, <1>6, <1>7, <1>8, <1>9

LEMMA ListsOfLines ==
    /\ \A a, b, c, d : DOMAIN <<a, b, c, d>> = 1..4
    /\ \A n : n \in 1..4 <=> n = 1 \/ n = 2 \/ n = 3 \/ n = 4
    /\ \A n : n \in 1..6 <=> n = 1 \/ n = 2 \/ n = 3 \/ n = 4 \/ n = 5 \/ n = 6
OBVIOUS

\* What is cut off below the cent is less than a cent.
LEMMA RoundedToTheCent ==
    ASSUME NEW fair \in Nat
    PROVE  LET shown == (fair \div MICROS) * MICROS + ((fair % MICROS) \div CENT) * CENT
           IN  shown <= fair /\ fair < shown + CENT
<1> DEFINE dollars == fair \div MICROS
           rest == fair % MICROS
           cents == rest \div CENT
           odd == rest % CENT
<1>1. /\ dollars \in Nat /\ rest \in Nat /\ dollars * MICROS \in Nat
      /\ fair = dollars * MICROS + rest
  BY CanonicalBounds, SMTT(30)
<1>2. rest \in Nat
  BY <1>1
<1> HIDE DEF dollars, rest
<1>3. /\ cents \in Nat /\ cents * CENT \in Nat /\ odd \in 0..CENT - 1
      /\ rest = cents * CENT + odd
  BY <1>2, CanonicalBounds, SMTT(30)
<1>4. CENT \in Nat
  BY CanonicalBounds
<1> HIDE DEF cents, odd
<1>5. LET shown == dollars * MICROS + cents * CENT IN shown <= fair /\ fair < shown + CENT
  BY <1>1, <1>3, <1>4
<1> QED BY <1>5 DEF cents, dollars, rest

\* The amounts on the screen and in the preview are those of the intent that is hashed.
THEOREM AmountsAgree == Spec => []AmountsAreShown
<1>1. ClientsHold => AmountsAreShown
  <2> SUFFICES ASSUME ClientsHold, display # <<>>, run[1].input.kind = 1
               PROVE  /\ ShowsAmounts(display, DecodeCollateral(run[1].input.args))
                      /\ ShowsAmounts(run[1].preview, DecodeCollateral(run[1].input.args))
    BY DEF AmountsAreShown
  <2>1. PICK i, id : \E t \in 0..MaxTime : InProgress(i, id, t)
    BY DEF ClientsHold, RunHolds
  <2>2. /\ display = Display(i.kind, i.args) /\ run[1].preview = Preview(i.kind, i.args)
        /\ run[1].input = i /\ IsAsked(i)
    BY <2>1 DEF InProgress
  <2>3. i.kind = 1 /\ i.args \in Seq(Byte) /\ Len(i.args) = 80
    BY <2>2, AskedTypes, Kinds
  <2> DEFINE a == i.args
             p == run[1].preview
             d == display
             token == Fields(a, 0, 32)
             oracle == Fields(a, 40, 32)
             fair == Number(Fields(a, 32, 8))
             cap == Number(Fields(a, 72, 8))
             intent == DecodeCollateral(a)
             usd == <<fair \div MICROS, (fair % MICROS) \div CENT>>
  <2>4. d = <<Line("Token", Short(token, 6)), Line("Fair value (USD)", usd),
              Line("Oracle", Short(oracle, 6)), Line("Max deposit (USD)", <<cap>>)>>
    BY <2>2, <2>3 DEF Display, DeviceUsd
  <2>5. RenderCollateral(intent) =
          <<Line("Token", Short(token, 4)), Line("Fair value (USD)", usd),
            Line("Oracle", Short(oracle, 4)), Line("Max deposit (USD)", <<cap>>)>>
    BY DEF DecodeCollateral, RenderCollateral, FormatUsd, Raw, Big, KeyLength
  <2>6. p = (<<Line("action", ActionName(1))>> \o RenderCollateral(intent))
              \o <<Line("warning", Warning(1))>>
    BY <2>2, <2>3 DEF Preview, Decode
  <2> DEFINE lines == RenderCollateral(intent)
             first == Line("action", ActionName(1))
             two == Line("Token", Short(token, 4))
             three == Line("Fair value (USD)", usd)
             four == Line("Oracle", Short(oracle, 4))
             five == Line("Max deposit (USD)", <<cap>>)
             final == Line("warning", Warning(1))
             S == {first, two, three, four, five, final}
  <2>7. /\ DOMAIN p = 1..6 /\ p[1] = first /\ p[6] = final
        /\ p[2] = two /\ p[3] = three /\ p[4] = four /\ p[5] = five
    <3>1. lines = <<two, three, four, five>>
      BY <2>5
    <3>2. p = Framed(first, lines, final)
      BY <2>6 DEF Framed
    <3> HIDE DEF lines, first, two, three, four, five, final, p
    <3>3. lines \in Seq(S) /\ first \in S /\ final \in S
      BY <3>1
    <3>4. /\ Len(lines) = 4
          /\ lines[1] = two /\ lines[2] = three /\ lines[3] = four /\ lines[4] = five
      BY <3>1
    <3> HIDE DEF S
    <3>5. /\ DOMAIN Framed(first, lines, final) = 1..6
          /\ Framed(first, lines, final)[1] = first /\ Framed(first, lines, final)[6] = final
          /\ \A n \in 1..4 : Framed(first, lines, final)[n + 1] = lines[n]
      BY <3>3, <3>4, FramedLines
    <3>6. p[1 + 1] = lines[1] /\ p[2 + 1] = lines[2] /\ p[3 + 1] = lines[3] /\ p[4 + 1] = lines[4]
      BY <3>2, <3>5
    <3> QED BY <3>2, <3>4, <3>5, <3>6
  <2>8. intent.fair_value_usd_micros.bigint = fair /\ intent.max_deposit_usd.bigint = cap
    BY DEF DecodeCollateral, Big, KeyLength
  <2>9. fair \in Nat
    BY <2>3, ArgsOfCollateral
  <2> HIDE DEF fair
  <2>10. LET shown == usd[1] * MICROS + usd[2] * CENT IN shown <= fair /\ fair < shown + CENT
    BY <2>9, RoundedToTheCent
  <2> HIDE DEF a, p, d, token, oracle, cap, intent, usd
  <2>11. /\ d[1].label = "Token" /\ d[2].label = "Fair value (USD)" /\ d[2].value = usd
         /\ d[3].label = "Oracle" /\ d[4].label = "Max deposit (USD)" /\ d[4].value = <<cap>>
    BY <2>4 DEF Line
  <2>12. /\ p[1].label = "action" /\ p[2].label = "Token"
         /\ p[3].label = "Fair value (USD)" /\ p[3].value = usd
         /\ p[4].label = "Oracle" /\ p[5].label = "Max deposit (USD)" /\ p[5].value = <<cap>>
         /\ p[6].label = "warning"
    <3>1. /\ first.label = "action" /\ two.label = "Token"
          /\ three.label = "Fair value (USD)" /\ three.value = usd
          /\ four.label = "Oracle" /\ five.label = "Max deposit (USD)" /\ five.value = <<cap>>
          /\ final.label = "warning"
      BY DEF Line
    <3> HIDE DEF first, two, three, four, five, final
    <3> QED BY <2>7, <3>1
  <2>13. ShowsAmounts(d, intent)
    <3>1. \A n : n \in DOMAIN d <=> n = 1 \/ n = 2 \/ n = 3 \/ n = 4
      <4>1. DOMAIN d = 1..4  BY <2>4, ListsOfLines
      <4> QED BY <4>1, ListsOfLines
    <3>2. 2 \in DOMAIN d /\ 4 \in DOMAIN d  BY <3>1
    <3>3. {"Fair value (USD)", "Max deposit (USD)"} \subseteq {d[n].label : n \in DOMAIN d}
      BY <2>11, <3>2
    <3>4. ASSUME NEW n \in DOMAIN d, d[n].label = "Fair value (USD)" PROVE d[n].value = usd
      BY <2>11, <3>1, <3>4
    <3>5. ASSUME NEW n \in DOMAIN d, d[n].label = "Max deposit (USD)" PROVE d[n].value = <<cap>>
      BY <2>11, <3>1, <3>5
    <3> QED BY <2>8, <2>10, <3>3, <3>4, <3>5 DEF ShowsAmounts
  <2>14. ShowsAmounts(p, intent)
    <3>1. \A n : n \in DOMAIN p <=> n = 1 \/ n = 2 \/ n = 3 \/ n = 4 \/ n = 5 \/ n = 6
      <4>1. DOMAIN p = 1..6  BY <2>7
      <4> QED BY <4>1, ListsOfLines
    <3>2. 3 \in DOMAIN p /\ 5 \in DOMAIN p  BY <3>1
    <3>3. {"Fair value (USD)", "Max deposit (USD)"} \subseteq {p[n].label : n \in DOMAIN p}
      BY <2>12, <3>2
    <3>4. ASSUME NEW n \in DOMAIN p, p[n].label = "Fair value (USD)" PROVE p[n].value = usd
      BY <2>12, <3>1, <3>4
    <3>5. ASSUME NEW n \in DOMAIN p, p[n].label = "Max deposit (USD)" PROVE p[n].value = <<cap>>
      BY <2>12, <3>1, <3>5
    <3> QED BY <2>8, <2>10, <3>3, <3>4, <3>5 DEF ShowsAmounts
  <2> QED BY <2>2, <2>13, <2>14 DEF a, p, d, intent
<1> QED BY <1>1, ClientsAgree, PTL

------------------------------------------------------------------------------
(* No serialisation begins another *)

\* A symbol in front is told.
LEMMA FirstTold ==
    \A a, b \in Int, s, t \in Seq(Int) : Joined(<<a>>, s) = Joined(<<b>>, t) => a = b /\ s = t
<1> SUFFICES ASSUME NEW a \in Int, NEW b \in Int, NEW s \in Seq(Int), NEW t \in Seq(Int),
                    Joined(<<a>>, s) = Joined(<<b>>, t)
             PROVE  a = b /\ s = t
  OBVIOUS
<1> DEFINE p == <<a>>
           q == <<b>>
<1>1. p \in Seq(Int) /\ q \in Seq(Int) /\ Len(p) = Len(q) /\ p[1] = a /\ q[1] = b
  OBVIOUS
<1>2. Joined(p, s) = Joined(q, t)
  OBVIOUS
<1> HIDE DEF p, q
<1>3. p = q /\ s = t
  BY <1>1, <1>2, SameCut
<1> QED BY <1>1, <1>3

\* The first symbol of a varint, and what follows it.
VarintFirst(n) == IF n < 128 THEN n ELSE 128 + (n % 128)
VarintAfter(n, x) == IF n < 128 THEN x ELSE Joined(Varint[n \div 128], x)

LEMMA VarintStarts ==
    \A n \in Nat, x \in Seq(Int) :
        /\ VarintFirst(n) \in Int /\ VarintAfter(n, x) \in Seq(Int)
        /\ Joined(Varint[n], x) = Joined(<<VarintFirst(n)>>, VarintAfter(n, x))
        /\ VarintFirst(n) < 128 <=> n < 128
<1> SUFFICES ASSUME NEW n \in Nat, NEW x \in Seq(Int)
             PROVE  /\ VarintFirst(n) \in Int /\ VarintAfter(n, x) \in Seq(Int)
                    /\ Joined(Varint[n], x) = Joined(<<VarintFirst(n)>>, VarintAfter(n, x))
                    /\ VarintFirst(n) < 128 <=> n < 128
  OBVIOUS
<1>1. VarintFirst(n) \in Int /\ (VarintFirst(n) < 128 <=> n < 128)
  BY VarintSteps DEF VarintFirst
<1>2. Varint[n] = VarintOf(Varint, n)
  BY VarintUnfolds
<1>3. CASE n < 128
  BY <1>1, <1>2, <1>3 DEF VarintOf, VarintFirst, VarintAfter
<1>4. CASE ~(n < 128)
  <2> DEFINE a == <<128 + (n % 128)>>
             b == Varint[n \div 128]
  <2>1. a \in Seq(Int) /\ b \in Seq(Int)
    BY VarintSteps, VarintUnfolds DEF Readings
  <2>2. Varint[n] = Joined(a, b) /\ <<VarintFirst(n)>> = a /\ VarintAfter(n, x) = Joined(b, x)
    BY <1>2, <1>4 DEF VarintOf, VarintFirst, VarintAfter
  <2> HIDE DEF a, b
  <2>3. Joined(b, x) \in Seq(Int) /\ Joined(Joined(a, b), x) = Joined(a, Joined(b, x))
    BY <2>1, JoinLengths, JoinsAssociate
  <2> QED BY <1>1, <2>2, <2>3
<1> QED BY <1>3, <1>4

\* A varint says where it ends.
LEMMA VarintTold ==
    \A m, n \in Nat, x, y \in Seq(Int) : Joined(Varint[m], x) = Joined(Varint[n], y) => m = n /\ x = y
<1> DEFINE Told(m) == \A n \in Nat, x, y \in Seq(Int) :
                         Joined(Varint[m], x) = Joined(Varint[n], y) => m = n /\ x = y
           S == {b \in Nat : \A m \in 0..b : Told(m)}
<1>1. ASSUME NEW m \in Nat, \A j \in Nat : j < m => Told(j) PROVE Told(m)
  <2> SUFFICES ASSUME NEW n \in Nat, NEW x \in Seq(Int), NEW y \in Seq(Int),
                      Joined(Varint[m], x) = Joined(Varint[n], y)
               PROVE  m = n /\ x = y
    OBVIOUS
  <2>1. VarintFirst(m) = VarintFirst(n) /\ VarintAfter(m, x) = VarintAfter(n, y)
    <3>1. Joined(<<VarintFirst(m)>>, VarintAfter(m, x)) = Joined(<<VarintFirst(n)>>, VarintAfter(n, y))
      BY VarintStarts
    <3> QED BY <3>1, VarintStarts, FirstTold
  <2>2. m < 128 <=> n < 128
    BY <2>1, VarintStarts
  <2>3. CASE m < 128
    BY <2>1, <2>2, <2>3 DEF VarintFirst, VarintAfter
  <2>4. CASE ~(m < 128)
    <3> DEFINE q == m \div 128
               p == n \div 128
    <3>1. q \in Nat /\ p \in Nat /\ q < m /\ m = q * 128 + (m % 128) /\ n = p * 128 + (n % 128)
          /\ m % 128 \in Int /\ n % 128 \in Int
      BY <2>2, <2>4, VarintSteps
    <3>2. m % 128 = n % 128
      <4>1. 128 + (m % 128) = 128 + (n % 128)
        BY <2>1, <2>2, <2>4 DEF VarintFirst
      <4> QED BY <3>1, <4>1
    <3>3. Joined(Varint[q], x) = Joined(Varint[p], y)
      BY <2>1, <2>2, <2>4 DEF VarintAfter
    <3> HIDE DEF q, p
    <3>4. q = p /\ x = y
      <4>1. Told(q)
        BY <1>1, <3>1
      <4> QED BY <3>1, <3>3, <4>1
    <3> QED BY <3>1, <3>2, <3>4
  <2> QED BY <2>3, <2>4
<1> HIDE DEF Told
<1>2. 0 \in S
  <2>1. \A j \in Nat : ~(j < 0)
    OBVIOUS
  <2>2. Told(0)
    BY <1>1, <2>1
  <2> QED BY <2>2
<1>3. ASSUME NEW b \in Nat, b \in S PROVE b + 1 \in S
  <2> SUFFICES ASSUME NEW m \in 0..b + 1 PROVE Told(m)
    OBVIOUS
  <2>1. \A j \in Nat : j < m => j \in 0..b
    OBVIOUS
  <2>2. \A j \in Nat : j < m => Told(j)
    BY <1>3, <2>1
  <2>3. m \in Nat
    OBVIOUS
  <2> QED BY <1>1, <2>2, <2>3
<1>4. Nat \subseteq S
  <2> HIDE DEF S
  <2> QED BY <1>2, <1>3, InductionOnSets
<1>5. \A m \in Nat : Told(m)
  BY <1>4
<1> QED BY <1>5 DEF Told

\* A tag, and what follows it.
IsForm(tag, body, v) ==
    \/ tag = 1 /\ \E s \in Seq(Byte) : v = Str(s) /\ body = Prefixed(s)
    \/ tag = 2 /\ \E s \in Seq(Byte) : v = Raw(s) /\ body = Prefixed(s)
    \/ tag = 3 /\ \E n \in 0..Power[8] - 1 : v = Num(n) /\ body = LittleEndian(n, 8)
    \/ tag = 4 /\ \E n \in -(Power[8] \div 2)..-1 : v = Num(n) /\ body = LittleEndian(n, 8)
    \/ tag = 5 /\ \E b \in BOOLEAN : v = Bool(b) /\ body = <<IF b THEN 1 ELSE 0>>
    \/ tag = 6 /\ \E n \in 0..Power[16] - 1 : v = Big(n) /\ body = LittleEndian(n, 16)

LEMMA ScalarForms ==
    ASSUME NEW v \in Scalar
    PROVE  \E tag, body : tag \in 1..6 /\
                  IsForm(tag, body, v) /\ SerialiseScalar(v) = Joined(<<tag>>, body)
<1>1. \/ \E s \in Seq(Byte) : v = Str(s)
      \/ \E s \in Seq(Byte) : v = Raw(s)
      \/ \E n \in -(Power[8] \div 2)..Power[8] - 1 : v = Num(n)
      \/ \E b \in BOOLEAN : v = Bool(b)
      \/ \E n \in 0..Power[16] - 1 : v = Big(n)
  <2>1. CASE v \in [string : Seq(Byte)]
    BY <2>1 DEF Str
  <2>2. CASE v \in [bytes : Seq(Byte)]
    BY <2>2 DEF Raw
  <2>3. CASE v \in [number : -(Power[8] \div 2)..Power[8] - 1]
    BY <2>3 DEF Num
  <2>4. CASE v \in [boolean : BOOLEAN]
    BY <2>4 DEF Bool
  <2>5. CASE v \in [bigint : 0..Power[16] - 1]
    BY <2>5 DEF Big
  <2> QED BY <2>1, <2>2, <2>3, <2>4, <2>5 DEF Scalar
<1>2. ASSUME NEW s \in Seq(Byte), v = Str(s) PROVE IsForm(1, Prefixed(s), v) /\ SerialiseScalar(v) = Joined(<<1>>, Prefixed(s))
  <2>1. SerialiseScalar(Str(s)) = <<1>> \o Prefixed(s)
    BY DEF SerialiseScalar, Str
  <2> QED BY <1>2, <2>1 DEF IsForm, Joined
<1>3. ASSUME NEW s \in Seq(Byte), v = Raw(s) PROVE IsForm(2, Prefixed(s), v) /\ SerialiseScalar(v) = Joined(<<2>>, Prefixed(s))
  <2>1. SerialiseScalar(Raw(s)) = <<2>> \o Prefixed(s)
    BY DEF SerialiseScalar, Raw
  <2> QED BY <1>3, <2>1 DEF IsForm, Joined
<1>4. ASSUME NEW n \in -(Power[8] \div 2)..Power[8] - 1, v = Num(n)
      PROVE  \E tag \in 1..6 : IsForm(tag, LittleEndian(n, 8), v) /\ SerialiseScalar(v) = Joined(<<tag>>, LittleEndian(n, 8))
  <2> DEFINE tag == IF n < 0 THEN 4 ELSE 3
  <2>1. SerialiseScalar(Num(n)) = <<tag>> \o LittleEndian(n, 8)
    BY DEF SerialiseScalar, Num
  <2>2. IsForm(tag, LittleEndian(n, 8), v)
    <3>1. n \in Int /\ Power[8] \in Nat \ {0} /\ Power[8] \div 2 \in Int
      BY PowerValues
    <3>2. n < 0 => n \in -(Power[8] \div 2)..-1
      BY <3>1
    <3>3. ~(n < 0) => n \in 0..Power[8] - 1
      BY <3>1
    <3> QED BY <1>4, <3>2, <3>3 DEF IsForm
  <2> QED BY <1>4, <2>1, <2>2 DEF Joined
<1>5. ASSUME NEW b \in BOOLEAN, v = Bool(b)
      PROVE  IsForm(5, <<IF b THEN 1 ELSE 0>>, v) /\ SerialiseScalar(v) = Joined(<<5>>, <<IF b THEN 1 ELSE 0>>)
  <2>1. SerialiseScalar(Bool(b)) = <<5, IF b THEN 1 ELSE 0>>
    BY DEF SerialiseScalar, Bool
  <2>2. ASSUME NEW c \in Int PROVE <<5, c>> = Joined(<<5>>, <<c>>)
    <3> DEFINE p == <<5>>
               q == <<c>>
               r == <<5, c>>
    <3>1. p \in Seq(Int) /\ q \in Seq(Int) /\ r \in Seq(Int) /\ Len(p) = 1 /\ Len(q) = 1 /\ Len(r) = 2
          /\ p[1] = 5 /\ q[1] = c /\ r[1] = 5 /\ r[2] = c
      OBVIOUS
    <3> HIDE DEF p, q, r
    <3>2. /\ p \o q \in Seq(Int) /\ Len(p \o q) = Len(p) + Len(q)
          /\ \A i \in 1..Len(p) + Len(q) : (p \o q)[i] = IF i <= Len(p) THEN p[i] ELSE q[i - Len(p)]
      BY <3>1, ConcatProperties
    <3>3. Len(p \o q) = Len(r) /\ \A i \in 1..Len(p \o q) : (p \o q)[i] = r[i]
      BY <3>1, <3>2
    <3>4. p \o q = r
      BY <3>1, <3>2, <3>3, SeqEqual
    <3> QED BY <3>4 DEF Joined, p, q, r
  <2>3. <<5, IF b THEN 1 ELSE 0>> = Joined(<<5>>, <<IF b THEN 1 ELSE 0>>)
    <3> DEFINE c == IF b THEN 1 ELSE 0
    <3>1. c \in Int
      OBVIOUS
    <3> HIDE DEF c
    <3>2. <<5, c>> = Joined(<<5>>, <<c>>)
      BY <2>2, <3>1
    <3> QED BY <3>2 DEF c
  <2> QED BY <1>5, <2>1, <2>3 DEF IsForm
<1>6. ASSUME NEW n \in 0..Power[16] - 1, v = Big(n)
      PROVE  IsForm(6, LittleEndian(n, 16), v) /\ SerialiseScalar(v) = Joined(<<6>>, LittleEndian(n, 16))
  <2>1. SerialiseScalar(Big(n)) = <<6>> \o LittleEndian(n, 16)
    BY DEF SerialiseScalar, Big
  <2> QED BY <1>6, <2>1 DEF IsForm, Joined
<1>7. 1 \in 1..6 /\ 2 \in 1..6 /\ 5 \in 1..6 /\ 6 \in 1..6
  OBVIOUS
<1> QED BY <1>1, <1>2, <1>3, <1>4, <1>5, <1>6, <1>7

LEMMA FormsAreSequences ==
    ASSUME NEW tag \in 1..6, NEW body, NEW v, IsForm(tag, body, v)
    PROVE  body \in Seq(Int)
<1>1. ASSUME NEW s \in Seq(Byte) PROVE Prefixed(s) \in Seq(Int)
  <2>1. s \in Seq(Int)
    BY ByteIsInt, SeqMonotonic
  <2>3. Len(s) \in Nat
    BY <2>1
  <2>2. Varint[Len(s)] \in Seq(Int)
    BY <2>3, VarintUnfolds DEF Readings
  <2> QED BY <2>1, <2>2, JoinLengths DEF Prefixed, Joined
<1>2. ASSUME NEW n \in Int, NEW w \in Nat PROVE LittleEndian(n, w) \in Seq(Int)
  <2>1. LittleEndian(n, w) \in Seq(Byte)
    BY LittleEndianBytes
  <2> QED BY <2>1, ByteIsInt, SeqMonotonic
<1>3. Power[8] \in Nat \ {0} /\ Power[16] \in Nat \ {0} /\ Power[8] \div 2 \in Int
  BY PowerValues
<1>4. \A b \in BOOLEAN : <<IF b THEN 1 ELSE 0>> \in Seq(Int)
  OBVIOUS
<1>5. 8 \in Nat /\ 16 \in Nat
  OBVIOUS
<1>6. /\ \A n \in 0..Power[8] - 1 : n \in Int
      /\ \A n \in -(Power[8] \div 2)..-1 : n \in Int
      /\ \A n \in 0..Power[16] - 1 : n \in Int
  BY <1>3
<1> QED BY <1>1, <1>2, <1>4, <1>5, <1>6 DEF IsForm

\* What is tagged, without its tag.
LEMMA PrefixedTold ==
    \A s, t \in Seq(Byte), x, y \in Seq(Int) :
        Joined(Prefixed(s), x) = Joined(Prefixed(t), y) => s = t /\ x = y
<1> SUFFICES ASSUME NEW s \in Seq(Byte), NEW t \in Seq(Byte), NEW x \in Seq(Int), NEW y \in Seq(Int),
                    Joined(Prefixed(s), x) = Joined(Prefixed(t), y)
             PROVE  s = t /\ x = y
  OBVIOUS
<1>1. s \in Seq(Int) /\ t \in Seq(Int)
  BY ByteIsInt, SeqMonotonic
<1>2. Len(s) \in Nat /\ Len(t) \in Nat
  BY <1>1
<1> DEFINE m == Varint[Len(s)]
           n == Varint[Len(t)]
<1>3. m \in Seq(Int) /\ n \in Seq(Int)
  BY <1>2, VarintUnfolds DEF Readings
<1>4. Joined(Joined(m, s), x) = Joined(Joined(n, t), y)
  BY DEF Prefixed, Joined
<1> HIDE DEF m, n
<1>5. Joined(m, Joined(s, x)) = Joined(n, Joined(t, y)) /\ Joined(s, x) \in Seq(Int) /\ Joined(t, y) \in Seq(Int)
  BY <1>1, <1>3, <1>4, JoinsAssociate, JoinLengths
<1>6. Len(s) = Len(t) /\ Joined(s, x) = Joined(t, y)
  BY <1>2, <1>5, VarintTold DEF m, n
<1> QED BY <1>1, <1>6, SameCut

LEMMA NegativeModulo ==
    ASSUME NEW k \in Nat \ {0}, NEW z \in -k..-1
    PROVE  z % k = z + k
<1> DEFINE q == z \div k
           r == z % k
<1>1. q \in Int /\ r \in 0..k - 1 /\ z = q * k + r
  <2>1. z \in Int
    OBVIOUS
  <2> QED BY <2>1, Division
<1> HIDE DEF q, r
<1>2. ~(q >= 0)
  <2>1. q >= 0 => q * k >= 0
    BY <1>1
  <2> QED BY <1>1, <2>1
<1>3. ~(q <= -2)
  <2>1. q <= -2 => (q + 2) * k <= 0
    BY <1>1
  <2>2. (q + 2) * k = q * k + 2 * k /\ q * k \in Int
    BY <1>1
  <2> QED BY <1>1, <2>1, <2>2
<1>4. q = -1
  BY <1>1, <1>2, <1>3
<1>5. q * k = -k
  BY <1>4
<1>6. r = z + k
  BY <1>1, <1>5
<1> QED BY <1>6 DEF r

LEMMA IntegersTold ==
    \A w \in Nat, m, n \in Int, x, y \in Seq(Int) :
        Joined(LittleEndian(m, w), x) = Joined(LittleEndian(n, w), y) =>
            /\ x = y
            /\ m \in 0..Power[w] - 1 /\ n \in 0..Power[w] - 1 => m = n
            /\ m \in -Power[w]..-1 /\ n \in -Power[w]..-1 => m = n
<1> SUFFICES ASSUME NEW w \in Nat, NEW m \in Int, NEW n \in Int, NEW x \in Seq(Int), NEW y \in Seq(Int),
                    Joined(LittleEndian(m, w), x) = Joined(LittleEndian(n, w), y)
             PROVE  /\ x = y
                    /\ m \in 0..Power[w] - 1 /\ n \in 0..Power[w] - 1 => m = n
                    /\ m \in -Power[w]..-1 /\ n \in -Power[w]..-1 => m = n
  OBVIOUS
<1> DEFINE a == LittleEndian(m, w)
           b == LittleEndian(n, w)
<1>1. a \in Seq(Byte) /\ b \in Seq(Byte) /\ Len(a) = Len(b)
  BY LittleEndianBytes
<1>2. Joined(a, x) = Joined(b, y)
  OBVIOUS
<1> HIDE DEF a, b
<1>3. a \in Seq(Int) /\ b \in Seq(Int)
  BY <1>1, ByteIsInt, SeqMonotonic
<1>4. a = b /\ x = y
  BY <1>1, <1>2, <1>3, SameCut
<1>5. LittleEndian(m, w) = LittleEndian(n, w)
  BY <1>4 DEF a, b
<1>6. /\ m % Power[w] = n % Power[w]
      /\ m \in 0..Power[w] - 1 /\ n \in 0..Power[w] - 1 => m = n
  BY <1>5, BytesTellNumbers
<1> DEFINE k == Power[w]
<1>7. k \in Nat \ {0}
  BY PowerValues
<1>8. m % k = n % k
  BY <1>6
<1> HIDE DEF k
<1>9. ASSUME NEW z \in -k..-1 PROVE z % k = z + k
  BY <1>7, NegativeModulo
<1>10. m \in -k..-1 /\ n \in -k..-1 => m = n
  <2> HAVE m \in -k..-1 /\ n \in -k..-1
  <2>1. m + k = n + k
    BY <1>8, <1>9
  <2> QED BY <1>7, <2>1
<1> QED BY <1>4, <1>6, <1>10 DEF k

LEMMA FormTold ==
    ASSUME NEW tag \in 1..6, NEW b, NEW c, NEW v, NEW w, NEW x \in Seq(Int), NEW y \in Seq(Int),
           IsForm(tag, b, v), IsForm(tag, c, w), Joined(b, x) = Joined(c, y)
    PROVE  v = w /\ x = y
<1>1. CASE tag = 1
  <2>1. PICK s \in Seq(Byte) : v = Str(s) /\ b = Prefixed(s)
    BY <1>1 DEF IsForm
  <2>2. PICK t \in Seq(Byte) : w = Str(t) /\ c = Prefixed(t)
    BY <1>1 DEF IsForm
  <2>3. s = t /\ x = y
    BY <2>1, <2>2, PrefixedTold
  <2> QED BY <2>1, <2>2, <2>3
<1>2. CASE tag = 2
  <2>1. PICK s \in Seq(Byte) : v = Raw(s) /\ b = Prefixed(s)
    BY <1>2 DEF IsForm
  <2>2. PICK t \in Seq(Byte) : w = Raw(t) /\ c = Prefixed(t)
    BY <1>2 DEF IsForm
  <2>3. s = t /\ x = y
    BY <2>1, <2>2, PrefixedTold
  <2> QED BY <2>1, <2>2, <2>3
<1> DEFINE p == Power[8]
           q == Power[16]
<1>3. p \in Nat \ {0} /\ q \in Nat \ {0} /\ p \div 2 \in Int /\ p \div 2 <= p
  <2>1. p \in Nat \ {0} /\ q \in Nat \ {0}
    BY PowerValues
  <2> HIDE DEF p, q
  <2> QED BY <2>1
<1>4. CASE tag = 3
  <2>1. PICK m \in 0..p - 1 : v = Num(m) /\ b = LittleEndian(m, 8)
    BY <1>4 DEF IsForm
  <2>2. PICK n \in 0..p - 1 : w = Num(n) /\ c = LittleEndian(n, 8)
    BY <1>4 DEF IsForm
  <2>3. Joined(LittleEndian(m, 8), x) = Joined(LittleEndian(n, 8), y) /\ m \in Int /\ n \in Int /\ 8 \in Nat
    BY <1>3, <2>1, <2>2
  <2>4. m = n /\ x = y
    BY <2>3, IntegersTold
  <2> QED BY <2>1, <2>2, <2>4
<1>5. CASE tag = 4
  <2>1. PICK m \in -(p \div 2)..-1 : v = Num(m) /\ b = LittleEndian(m, 8)
    BY <1>5 DEF IsForm
  <2>2. PICK n \in -(p \div 2)..-1 : w = Num(n) /\ c = LittleEndian(n, 8)
    BY <1>5 DEF IsForm
  <2>3. Joined(LittleEndian(m, 8), x) = Joined(LittleEndian(n, 8), y) /\ 8 \in Nat
    BY <2>1, <2>2
  <2>4. m \in -p..-1 /\ n \in -p..-1 /\ m \in Int /\ n \in Int
    <3> HIDE DEF p
    <3> QED BY <1>3
  <2>5. m = n /\ x = y
    BY <2>3, <2>4, IntegersTold
  <2> QED BY <2>1, <2>2, <2>5
<1>6. CASE tag = 5
  <2>1. PICK m \in BOOLEAN : v = Bool(m) /\ b = <<IF m THEN 1 ELSE 0>>
    BY <1>6 DEF IsForm
  <2>2. PICK n \in BOOLEAN : w = Bool(n) /\ c = <<IF n THEN 1 ELSE 0>>
    BY <1>6 DEF IsForm
  <2> DEFINE i == IF m THEN 1 ELSE 0
             j == IF n THEN 1 ELSE 0
  <2>3. i \in Int /\ j \in Int /\ (i = j => m = n)
    OBVIOUS
  <2>4. b = <<i>> /\ c = <<j>>
    BY <2>1, <2>2
  <2> HIDE DEF i, j
  <2>5. i = j /\ x = y
    BY <2>3, <2>4, FirstTold
  <2> QED BY <2>1, <2>2, <2>3, <2>5
<1>7. CASE tag = 6
  <2>1. PICK m \in 0..q - 1 : v = Big(m) /\ b = LittleEndian(m, 16)
    BY <1>7 DEF IsForm
  <2>2. PICK n \in 0..q - 1 : w = Big(n) /\ c = LittleEndian(n, 16)
    BY <1>7 DEF IsForm
  <2>3. Joined(LittleEndian(m, 16), x) = Joined(LittleEndian(n, 16), y) /\ m \in Int /\ n \in Int /\ 16 \in Nat
    BY <1>3, <2>1, <2>2
  <2>4. m = n /\ x = y
    BY <2>3, IntegersTold
  <2> QED BY <2>1, <2>2, <2>4
<1>8. \/ tag = 1 \/ tag = 2 \/ tag = 3 \/ tag = 4 \/ tag = 5 \/ tag = 6
  OBVIOUS
<1> QED BY <1>1, <1>2, <1>4, <1>5, <1>6, <1>7, <1>8

LEMMA ScalarTold ==
    \A v, w \in Scalar, x, y \in Seq(Int) :
        Joined(SerialiseScalar(v), x) = Joined(SerialiseScalar(w), y) => v = w /\ x = y
<1> SUFFICES ASSUME NEW v \in Scalar, NEW w \in Scalar, NEW x \in Seq(Int), NEW y \in Seq(Int),
                    Joined(SerialiseScalar(v), x) = Joined(SerialiseScalar(w), y)
             PROVE  v = w /\ x = y
  OBVIOUS
<1>1. PICK i, b : i \in 1..6 /\ IsForm(i, b, v) /\ SerialiseScalar(v) = Joined(<<i>>, b)
  BY ScalarForms
<1>2. PICK j, c : j \in 1..6 /\ IsForm(j, c, w) /\ SerialiseScalar(w) = Joined(<<j>>, c)
  BY ScalarForms
<1>3. b \in Seq(Int) /\ c \in Seq(Int) /\ <<i>> \in Seq(Int) /\ <<j>> \in Seq(Int) /\ i \in Int /\ j \in Int
  BY <1>1, <1>2, FormsAreSequences
<1>4. Joined(<<i>>, Joined(b, x)) = Joined(<<j>>, Joined(c, y)) /\ Joined(b, x) \in Seq(Int) /\ Joined(c, y) \in Seq(Int)
  <2> DEFINE p == <<i>>
             q == <<j>>
  <2>1. p \in Seq(Int) /\ q \in Seq(Int) /\ Joined(Joined(p, b), x) = Joined(Joined(q, c), y)
    BY <1>1, <1>2, <1>3
  <2> HIDE DEF p, q
  <2>2. Joined(b, x) \in Seq(Int) /\ Joined(c, y) \in Seq(Int)
    BY <1>3, JoinLengths
  <2>3. Joined(p, Joined(b, x)) = Joined(Joined(p, b), x) /\ Joined(q, Joined(c, y)) = Joined(Joined(q, c), y)
    BY <1>3, <2>1, JoinsAssociate
  <2> QED BY <2>1, <2>2, <2>3 DEF p, q
<1>5. i = j /\ Joined(b, x) = Joined(c, y)
  BY <1>3, <1>4, FirstTold
<1> QED BY <1>1, <1>2, <1>5, FormTold

------------------------------------------------------------------------------
(* Objects within objects *)

LEMMA NestedUnfolds ==
    /\ Nested[0] = {v \in Values : v \in Scalar}
    /\ \A n \in Nat : Nested[n + 1] =
          {v \in Values : v \in Scalar \/ (IsObject(v) /\ Range(v.object) \subseteq Nested[n])}
<1> DEFINE V == SUBSET Values
           flat == {v \in Values : v \in Scalar}
           Over(N) == {v \in Values : v \in Scalar \/ (IsObject(v) /\ Range(v.object) \subseteq N)}
           step == [n \in Nat |-> [N \in V |-> Over(N)]]
<1>1. flat \in V /\ step \in Steps(V)
  BY DEF Steps
<1>2. \A n \in Nat, N \in V : step[n][N] = Over(N)
  OBVIOUS
<1>3. PICK f \in [Nat -> V] : f[0] = flat /\ \A n \in Nat : f[n + 1] = step[n][f[n]]
  <2> HIDE DEF V, flat, step
  <2>1. \E f : f \in Runs(V, flat, step)
    BY <1>1, Recursion
  <2> QED BY <2>1 DEF Runs
<1> DEFINE Body(g, n) ==
        LET inner == IF n = 0 THEN {} ELSE g[n - 1]
        IN  {v \in Values : v \in Scalar \/ (n > 0 /\ IsObject(v) /\ Range(v.object) \subseteq inner)}
<1>4. ASSUME NEW n \in Nat, NEW g PROVE Body(g, n) = IF n = 0 THEN flat ELSE Over(g[n - 1])
  <2>1. CASE n = 0
    BY <2>1
  <2>2. CASE n # 0
    <3>1. n > 0
      BY <2>2
    <3> QED BY <2>2, <3>1
  <2> QED BY <2>1, <2>2
<1> HIDE DEF flat, Over, step
<1>5. ASSUME NEW n \in Nat PROVE f[n] = Body(f, n)
  <2>1. CASE n = 0
    BY <1>3, <1>4, <2>1
  <2>2. CASE n # 0
    <3>1. n - 1 \in Nat /\ (n - 1) + 1 = n
      BY <2>2
    <3> HIDE DEF Body
    <3>2. f[n] = Over(f[n - 1])
      BY <1>2, <1>3, <3>1
    <3> QED BY <1>4, <2>2, <3>2
  <2> QED BY <2>1, <2>2
<1>6. f = [n \in Nat |-> f[n]]
  BY <1>3
<1>7. f = [n \in Nat |-> Body(f, n)]
  <2> HIDE DEF Body
  <2> QED BY <1>5, <1>6
<1>8. Nested = [n \in Nat |-> Body(Nested, n)]
  BY <1>7, Zenon DEF Nested
<1>9. ASSUME NEW n \in Nat PROVE Nested[n] = IF n = 0 THEN flat ELSE Over(Nested[n - 1])
  <2> HIDE DEF Body
  <2> QED BY <1>4, <1>8
<1>10. Nested[0] = flat
  BY <1>9
<1>11. ASSUME NEW n \in Nat PROVE Nested[n + 1] = Over(Nested[n])
  <2>1. n + 1 \in Nat /\ n + 1 # 0 /\ (n + 1) - 1 = n
    OBVIOUS
  <2> QED BY <1>9, <2>1
<1> QED BY <1>10, <1>11 DEF flat, Over

LEMMA ScalarsAreNoObjects == \A v \in Scalar : ~IsObject(v)
<1> SUFFICES ASSUME NEW v \in Scalar, IsObject(v) PROVE FALSE
  OBVIOUS
<1>1. DOMAIN v = {"object"}
  BY DEF IsObject
<1>2. \/ DOMAIN v = {"string"} \/ DOMAIN v = {"bytes"} \/ DOMAIN v = {"number"}
      \/ DOMAIN v = {"boolean"} \/ DOMAIN v = {"bigint"}
  BY DEF Scalar
<1> QED BY <1>1, <1>2

\* A value of some depth is a scalar, or an object with fields of less.
LEMMA NestedIs ==
    \A n \in Nat : \A v \in Nested[n] :
        /\ v \in Values
        /\ ~IsObject(v) => v \in Scalar
        /\ IsObject(v) => n # 0 /\ n - 1 \in Nat /\ \A name \in DOMAIN v.object : v.object[name] \in Nested[n - 1]
<1> SUFFICES ASSUME NEW n \in Nat, NEW v \in Nested[n]
             PROVE  /\ v \in Values
                    /\ ~IsObject(v) => v \in Scalar
                    /\ IsObject(v) => /\ n # 0 /\ n - 1 \in Nat
                                      /\ \A name \in DOMAIN v.object : v.object[name] \in Nested[n - 1]
  OBVIOUS
<1>1. CASE n = 0
  <2>1. v \in Values /\ v \in Scalar
    BY <1>1, NestedUnfolds
  <2> QED BY <2>1, ScalarsAreNoObjects
<1>2. CASE n # 0
  <2>1. n - 1 \in Nat /\ (n - 1) + 1 = n
    BY <1>2
  <2>2. Nested[n] = {u \in Values : u \in Scalar \/ (IsObject(u) /\ Range(u.object) \subseteq Nested[n - 1])}
    BY <2>1, NestedUnfolds
  <2>3. v \in Values /\ (v \in Scalar \/ (IsObject(v) /\ Range(v.object) \subseteq Nested[n - 1]))
    BY <2>2
  <2>4. \A name \in DOMAIN v.object : v.object[name] \in Range(v.object)
    BY DEF Range
  <2> QED BY <1>2, <2>1, <2>3, <2>4, ScalarsAreNoObjects
<1> QED BY <1>1, <1>2

LEMMA ValuesAre ==
    \A v \in Values :
        /\ ~IsObject(v) => v \in Scalar
        /\ IsObject(v) => \A name \in DOMAIN v.object : v.object[name] \in Values
<1> SUFFICES ASSUME NEW v \in Values
             PROVE  /\ ~IsObject(v) => v \in Scalar
                    /\ IsObject(v) => \A name \in DOMAIN v.object : v.object[name] \in Values
  OBVIOUS
<1>1. Depth \in Nat /\ v \in Nested[Depth]
  BY CanonicalBounds, ValuesAreNested
<1> QED BY <1>1, NestedIs

FieldBytes(bytes, v) == [name \in DOMAIN v.object |-> bytes[v.object[name]]]

\* Of fields with bytes.
HasBytes(bytesOf) ==
    /\ DOMAIN bytesOf \subseteq Range(FieldNames)
    /\ \A i \in 1..5 : FieldNames[i] \in DOMAIN bytesOf => bytesOf[FieldNames[i]] \in Seq(Int)

LEMMA FieldsAreSequences ==
    ASSUME NEW bytesOf, HasBytes(bytesOf)
    PROVE  /\ Cardinality(DOMAIN bytesOf) \in Nat /\ IsFiniteSet(DOMAIN bytesOf)
           /\ Joined(<<16>>, Varint[Cardinality(DOMAIN bytesOf)]) \in Seq(Int)
           /\ FlattenSeq(FieldParts(bytesOf)) \in Seq(Int)
           /\ SerialiseFields(bytesOf) \in Seq(Int)
<1>1. IsFiniteSet(Range(FieldNames))
  <2> DEFINE a == {FieldNames[1]}
             b == a \cup {FieldNames[2]}
             c == b \cup {FieldNames[3]}
             d == c \cup {FieldNames[4]}
             e == d \cup {FieldNames[5]}
  <2>1. \A i \in 1..5 : i = 1 \/ i = 2 \/ i = 3 \/ i = 4 \/ i = 5
    OBVIOUS
  <2>2. Range(FieldNames) = e
    BY <2>1, FieldNameValues
  <2>3. IsFiniteSet(a)
    BY FS_Singleton
  <2>4. IsFiniteSet(b)
    <3> HIDE DEF a
    <3> QED BY <2>3, FS_AddElement
  <2>5. IsFiniteSet(c)
    <3> HIDE DEF b
    <3> QED BY <2>4, FS_AddElement
  <2>6. IsFiniteSet(d)
    <3> HIDE DEF c
    <3> QED BY <2>5, FS_AddElement
  <2>7. IsFiniteSet(e)
    <3> HIDE DEF d
    <3> QED BY <2>6, FS_AddElement
  <2> QED BY <2>2, <2>7
<1>2. IsFiniteSet(DOMAIN bytesOf) /\ Cardinality(DOMAIN bytesOf) \in Nat
  BY <1>1, FS_Subset, FS_CardinalityType DEF HasBytes
<1> DEFINE c == Cardinality(DOMAIN bytesOf)
           h == <<16>>
<1>3. h \in Seq(Int) /\ Varint[c] \in Seq(Int)
  BY <1>2, VarintUnfolds DEF Readings
<1>4. Joined(h, Varint[c]) \in Seq(Int)
  <2> HIDE DEF h, c
  <2> QED BY <1>3, JoinLengths
<1>5. FieldParts(bytesOf) \in Parts(5, Int)
      /\ SerialiseFields(bytesOf) = Joined(Joined(h, Varint[c]), FlattenSeq(FieldParts(bytesOf)))
  BY FieldsAreParts DEF HasBytes
<1>6. FlattenSeq(FieldParts(bytesOf)) \in Seq(Int)
  BY <1>5, FlattenFive
<1> HIDE DEF h, c
<1>7. SerialiseFields(bytesOf) \in Seq(Int)
  BY <1>4, <1>5, <1>6, JoinLengths
<1> QED BY <1>2, <1>4, <1>6, <1>7 DEF h, c

Forms == [Values -> Seq(Int)]

LEMMA FieldsHaveBytes ==
    \A f \in Forms, v \in Values : IsObject(v) => HasBytes(FieldBytes(f, v))
<1> SUFFICES ASSUME NEW f \in Forms, NEW v \in Values, IsObject(v) PROVE HasBytes(FieldBytes(f, v))
  OBVIOUS
<1>1. DOMAIN FieldBytes(f, v) = DOMAIN v.object /\ DOMAIN v.object \subseteq Range(FieldNames)
  BY DEF FieldBytes, IsObject
<1>2. \A name \in DOMAIN v.object : v.object[name] \in Values
  BY ValuesAre
<1>3. \A name \in DOMAIN v.object : FieldBytes(f, v)[name] \in Seq(Int)
  BY <1>2 DEF FieldBytes, Forms
<1> QED BY <1>1, <1>3 DEF HasBytes

LEMMA ScalarsAreSequences == \A v \in Values : SerialiseScalar(v) \in Seq(Int)
<1> SUFFICES ASSUME NEW v \in Values PROVE SerialiseScalar(v) \in Seq(Int)
  OBVIOUS
<1>1. CASE v \in Scalar
  <2>1. PICK tag, body : tag \in 1..6 /\ IsForm(tag, body, v) /\ SerialiseScalar(v) = Joined(<<tag>>, body)
    BY <1>1, ScalarForms
  <2>2. body \in Seq(Int)
    BY <2>1, FormsAreSequences
  <2> DEFINE t == <<tag>>
  <2>3. t \in Seq(Int)
    BY <2>1
  <2> HIDE DEF t
  <2>4. Joined(t, body) \in Seq(Int)
    BY <2>2, <2>3, JoinLengths
  <2> QED BY <2>1, <2>4 DEF t
<1>2. CASE v \notin Scalar
  <2>1. IsObject(v)
    BY <1>2, ValuesAre
  <2>2. DOMAIN v = {"object"}
    BY <2>1 DEF IsObject
  <2>3. SerialiseScalar(v) = <<5, IF v.boolean THEN 1 ELSE 0>>
    BY <2>2 DEF SerialiseScalar
  <2>4. (IF v.boolean THEN 1 ELSE 0) \in Int
    OBVIOUS
  <2> QED BY <2>3, <2>4
<1> QED BY <1>1, <1>2

LEMMA SerialisedUnfolds ==
    /\ Serialised \in [Nat -> Forms]
    /\ \A n \in Nat, v \in Values :
          Serialised[n][v] = IF n # 0 /\ IsObject(v) THEN SerialiseFields(FieldBytes(Serialised[n - 1], v))
                             ELSE SerialiseScalar(v)
<1> DEFINE flat == [v \in Values |-> SerialiseScalar(v)]
           Over(f, v) == IF IsObject(v) THEN SerialiseFields(FieldBytes(f, v)) ELSE SerialiseScalar(v)
           Deeper(f) == [v \in Values |-> Over(f, v)]
           step == [n \in Nat |-> [f \in Forms |-> Deeper(f)]]
<1>1. flat \in Forms
  BY ScalarsAreSequences DEF Forms
<1>2. \A f \in Forms, v \in Values : Over(f, v) \in Seq(Int)
  BY FieldsHaveBytes, FieldsAreSequences, ScalarsAreSequences
<1> HIDE DEF Over
<1>3. \A f \in Forms : Deeper(f) \in Forms
  BY <1>2 DEF Forms
<1>4. \A f \in Forms, v \in Values : Deeper(f)[v] = Over(f, v)
  OBVIOUS
<1>5. \A v \in Values : flat[v] = SerialiseScalar(v)
  OBVIOUS
<1> HIDE DEF Deeper, flat
<1>6. step \in Steps(Forms) /\ \A n \in Nat, f \in Forms : step[n][f] = Deeper(f)
  BY <1>3 DEF Steps
<1> HIDE DEF step
<1>7. PICK g \in [Nat -> Forms] : g[0] = flat /\ \A n \in Nat : g[n + 1] = step[n][g[n]]
  <2>1. \E g : g \in Runs(Forms, flat, step)
    BY <1>1, <1>6, Recursion
  <2> QED BY <2>1 DEF Runs
<1> DEFINE Body(h, n) ==
        [v \in Values |->
            IF n > 0 /\ IsObject(v)
            THEN SerialiseFields([name \in DOMAIN v.object |-> h[n - 1][v.object[name]]])
            ELSE SerialiseScalar(v)]
           Is(h, n, v) == IF n # 0 /\ IsObject(v) THEN SerialiseFields(FieldBytes(h[n - 1], v))
                          ELSE SerialiseScalar(v)
<1>8. ASSUME NEW n \in Nat, NEW h PROVE Body(h, n) = [v \in Values |-> Is(h, n, v)]
  <2>1. n > 0 <=> n # 0
    OBVIOUS
  <2> QED BY <2>1 DEF FieldBytes
<1>9. ASSUME NEW n \in Nat, NEW v \in Values PROVE g[n][v] = Is(g, n, v)
  <2>1. CASE n = 0
    BY <1>5, <1>7, <2>1
  <2>2. CASE n # 0
    <3>1. n - 1 \in Nat /\ (n - 1) + 1 = n
      BY <2>2
    <3>2. g[n - 1] \in Forms /\ g[n] = Deeper(g[n - 1])
      BY <1>6, <1>7, <3>1
    <3>3. g[n][v] = Over(g[n - 1], v)
      BY <1>4, <3>2
    <3> QED BY <2>2, <3>3 DEF Over
  <2> QED BY <2>1, <2>2
<1> HIDE DEF Body, Is
<1>10. ASSUME NEW n \in Nat PROVE g[n] = Body(g, n)
  <2>1. g[n] = [v \in Values |-> g[n][v]]
    BY <1>7 DEF Forms
  <2>2. g[n] = [v \in Values |-> Is(g, n, v)]
    BY <1>9, <2>1
  <2> QED BY <1>8, <2>2
<1>11. g = [n \in Nat |-> Body(g, n)]
  <2>1. g = [n \in Nat |-> g[n]]
    BY <1>7
  <2> QED BY <1>10, <2>1
<1>12. Serialised = [n \in Nat |-> Body(Serialised, n)]
  BY <1>11, Zenon DEF Serialised, Body
<1>13. ASSUME NEW n \in Nat, NEW v \in Values PROVE Serialised[n][v] = Is(Serialised, n, v)
  <2>1. Serialised[n] = Body(Serialised, n)
    BY <1>12
  <2>2. Serialised[n] = [u \in Values |-> Is(Serialised, n, u)]
    BY <1>8, <2>1
  <2> QED BY <2>2
<1> DEFINE S == {n \in Nat : Serialised[n] \in Forms}
<1>14. ASSUME NEW n \in Nat, n # 0 => Serialised[n - 1] \in Forms PROVE Serialised[n] \in Forms
  <2>1. \A v \in Values : Is(Serialised, n, v) \in Seq(Int)
    BY <1>14, FieldsHaveBytes, FieldsAreSequences, ScalarsAreSequences DEF Is
  <2>2. Serialised[n] = [u \in Values |-> Is(Serialised, n, u)]
    BY <1>8, <1>12
  <2> QED BY <2>1, <2>2 DEF Forms
<1>15. 0 \in S
  BY <1>14
<1>16. ASSUME NEW n \in Nat, n \in S PROVE n + 1 \in S
  <2>1. n + 1 \in Nat /\ (n + 1) - 1 = n
    OBVIOUS
  <2> QED BY <1>14, <1>16, <2>1
<1>17. Nat \subseteq S
  <2> HIDE DEF S
  <2> QED BY <1>15, <1>16, InductionOnSets
<1>18. \A n \in Nat : Serialised[n] \in Forms
  BY <1>17
<1>19. Serialised = [n \in Nat |-> Serialised[n]]
  BY <1>12
<1> QED BY <1>13, <1>18, <1>19 DEF Is

\* What is left of the fields at each name, with what follows the object.
FieldTails(bytesOf, tail, after) ==
    /\ tail[6] = after
    /\ \A i \in 1..6 : tail[i] \in Seq(Int)
    /\ \A i \in 1..5 :
          tail[i] = IF FieldNames[i] \in DOMAIN bytesOf
                    THEN Joined(EncodeKey(FieldNames[i]), Joined(bytesOf[FieldNames[i]], tail[i + 1]))
                    ELSE tail[i + 1]

LEMMA FieldTailsThereAre ==
    ASSUME NEW bytesOf, HasBytes(bytesOf), NEW after \in Seq(Int)
    PROVE  \E tail : /\ FieldTails(bytesOf, tail, after)
                     /\ Joined(SerialiseFields(bytesOf), after) =
                           Joined(<<16>>, Joined(Varint[Cardinality(DOMAIN bytesOf)], tail[1]))
<1> DEFINE p == FieldParts(bytesOf)
           h == <<16>>
           c == Varint[Cardinality(DOMAIN bytesOf)]
           fl == FlattenSeq(p)
<1>1. /\ p \in Parts(5, Int)
      /\ \A i \in 1..5 : p[i] = IF FieldNames[i] \in DOMAIN bytesOf
                                THEN Joined(EncodeKey(FieldNames[i]), bytesOf[FieldNames[i]]) ELSE <<>>
      /\ SerialiseFields(bytesOf) = Joined(Joined(h, c), fl)
  BY FieldsAreParts DEF HasBytes
<1>2. h \in Seq(Int) /\ c \in Seq(Int) /\ fl \in Seq(Int)
  BY FieldsAreSequences, VarintUnfolds DEF Readings
<1> DEFINE n == 5
<1>3. n \in Nat \ {0} /\ p \in Parts(n, Int)
  BY <1>1
<1> HIDE DEF p, h, c, n
<1>4. PICK tail : TailsOf(p, n, Int, after, tail) /\ Joined(fl, after) = tail[1]
  BY <1>3, FlattenReads
<1>5. /\ tail \in [1..6 -> Seq(Int)] /\ tail[6] = after
      /\ \A i \in 1..5 : tail[i] = Joined(p[i], tail[i + 1])
  BY <1>4 DEF TailsOf, n
<1>6. ASSUME NEW i \in 1..5
      PROVE  tail[i] = IF FieldNames[i] \in DOMAIN bytesOf
                       THEN Joined(EncodeKey(FieldNames[i]), Joined(bytesOf[FieldNames[i]], tail[i + 1]))
                       ELSE tail[i + 1]
  <2>1. tail[i + 1] \in Seq(Int) /\ tail[i] = Joined(p[i], tail[i + 1])
    BY <1>5
  <2>2. CASE FieldNames[i] \in DOMAIN bytesOf
    <3> DEFINE k == EncodeKey(FieldNames[i])
               b == bytesOf[FieldNames[i]]
    <3>1. k \in Seq(Int) /\ b \in Seq(Int) /\ p[i] = Joined(k, b)
      <4>1. k \in Seq(Int)
        BY EncodedKey
      <4>2. b \in Seq(Int)
        BY <2>2 DEF HasBytes
      <4> QED BY <1>1, <2>2, <4>1, <4>2
    <3> HIDE DEF k, b
    <3>2. Joined(Joined(k, b), tail[i + 1]) = Joined(k, Joined(b, tail[i + 1]))
      BY <2>1, <3>1, JoinsAssociate
    <3> QED BY <2>1, <2>2, <3>1, <3>2 DEF k, b
  <2>3. CASE FieldNames[i] \notin DOMAIN bytesOf
    <3>1. p[i] = <<>>
      BY <1>1, <2>3
    <3> QED BY <2>1, <2>3, <3>1, JoinsOfNothing
  <2> QED BY <2>2, <2>3
<1>7. FieldTails(bytesOf, tail, after)
  BY <1>5, <1>6 DEF FieldTails
<1>8. Joined(SerialiseFields(bytesOf), after) = Joined(h, Joined(c, tail[1]))
  <2> HIDE DEF fl
  <2>1. Joined(h, c) \in Seq(Int)
    BY <1>2, JoinLengths
  <2>2. Joined(Joined(Joined(h, c), fl), after) = Joined(Joined(h, c), Joined(fl, after))
    BY <1>2, <2>1, JoinsAssociate
  <2>3. tail[1] \in Seq(Int)
    BY <1>5
  <2>4. Joined(Joined(h, c), tail[1]) = Joined(h, Joined(c, tail[1]))
    BY <1>2, <2>3, JoinsAssociate
  <2> QED BY <1>1, <1>4, <2>2, <2>4
<1> QED BY <1>7, <1>8 DEF h, c

Has(bytesOf, i) == FieldNames[i] \in DOMAIN bytesOf

KeyAhead(tail, i) ==
    \E j \in 1..5, r \in Seq(Int) : j >= i /\ tail[i] = Joined(EncodeKey(FieldNames[j]), r)

\* As long as there are fields, the tail starts with the key of one of them.
LEMMA TailStarts ==
    ASSUME NEW bytesOf, HasBytes(bytesOf), NEW tail, NEW after, FieldTails(bytesOf, tail, after)
    PROVE  \A i \in 1..6, m \in 1..5 : m >= i /\ Has(bytesOf, m) => KeyAhead(tail, i)
<1> USE DEF KeyAhead
<1> DEFINE P(i) == \A m \in 1..5 : m >= i /\ Has(bytesOf, m) => KeyAhead(tail, i)
           S == {n \in Nat : n <= 5 => P(6 - n)}
<1>1. P(6)
  OBVIOUS
<1>2. ASSUME NEW i \in 1..5, P(i + 1) PROVE P(i)
  <2> SUFFICES ASSUME NEW m \in 1..5, m >= i, Has(bytesOf, m) PROVE KeyAhead(tail, i)
    OBVIOUS
  <2>1. CASE Has(bytesOf, i)
    <3> DEFINE r == Joined(bytesOf[FieldNames[i]], tail[i + 1])
    <3>1. tail[i] = Joined(EncodeKey(FieldNames[i]), r)
      BY <2>1 DEF Has, FieldTails
    <3>2. r \in Seq(Int)
      <4>1. i + 1 \in 1..6 /\ bytesOf[FieldNames[i]] \in Seq(Int)
        BY <2>1 DEF Has, HasBytes
      <4>2. tail[i + 1] \in Seq(Int)
        BY <4>1 DEF FieldTails
      <4> QED BY <4>1, <4>2, JoinLengths
    <3> HIDE DEF r
    <3>3. i >= i
      OBVIOUS
    <3> QED BY <3>1, <3>2, <3>3
  <2>2. CASE ~Has(bytesOf, i)
    <3>1. m >= i + 1
      <4>1. m # i
        BY <2>2
      <4> QED BY <4>1
    <3>2. PICK j \in 1..5, r \in Seq(Int) : j >= i + 1 /\ tail[i + 1] = Joined(EncodeKey(FieldNames[j]), r)
      BY <1>2, <3>1
    <3>3. tail[i] = tail[i + 1] /\ j >= i
      BY <2>2, <3>2 DEF Has, FieldTails
    <3> QED BY <3>2, <3>3
  <2> QED BY <2>1, <2>2
<1> HIDE DEF P
<1>3. 0 \in S
  BY <1>1
<1>4. ASSUME NEW n \in Nat, n \in S PROVE n + 1 \in S
  <2>1. CASE n + 1 <= 5
    <3>1. 6 - (n + 1) \in 1..5 /\ (6 - (n + 1)) + 1 = 6 - n /\ n <= 5
      BY <2>1
    <3>2. P(6 - n)
      BY <1>4, <3>1
    <3> QED BY <1>2, <3>1, <3>2
  <2> QED BY <2>1
<1>5. Nat \subseteq S
  <2> HIDE DEF S
  <2> QED BY <1>3, <1>4, InductionOnSets
<1>6. ASSUME NEW i \in 1..6 PROVE P(i)
  <2>1. 6 - i \in Nat /\ 6 - i <= 5 /\ 6 - (6 - i) = i
    OBVIOUS
  <2>2. 6 - i \in S
    BY <1>5, <2>1
  <2> QED BY <2>1, <2>2
<1> QED BY <1>6 DEF P

\* The names there are before the i-th.
AgreeBefore(g, h, i) == \A j \in 1..5 : j < i => (Has(g, j) <=> Has(h, j))

\* With as many names and the same before, the next is in both or in neither.
LEMMA BothHaveIt ==
    ASSUME NEW g, NEW h, HasBytes(g), HasBytes(h), Cardinality(DOMAIN g) = Cardinality(DOMAIN h),
           NEW x, NEW y, NEW t, NEW u, FieldTails(g, t, x), FieldTails(h, u, y),
           NEW i \in 1..5, t[i] = u[i], AgreeBefore(g, h, i), Has(g, i)
    PROVE  Has(h, i)
<1> SUFFICES ASSUME ~Has(h, i) PROVE FALSE
  OBVIOUS
<1>1. PICK m \in 1..5 : m >= i /\ Has(h, m)
  <2> SUFFICES ASSUME \A m \in 1..5 : m >= i => ~Has(h, m) PROVE FALSE
    OBVIOUS
  <2>1. DOMAIN h \subseteq DOMAIN g \ {FieldNames[i]}
    <3> SUFFICES ASSUME NEW name \in DOMAIN h PROVE name \in DOMAIN g /\ name # FieldNames[i]
      OBVIOUS
    <3>1. PICK j \in 1..5 : name = FieldNames[j]
      BY FieldNameValues DEF HasBytes
    <3>2. Has(h, j) /\ j < i
      BY <3>1 DEF Has
    <3>3. Has(g, j) /\ j # i
      BY <3>2 DEF AgreeBefore
    <3> QED BY <3>1, <3>2, <3>3 DEF Has
  <2>2. /\ IsFiniteSet(DOMAIN g) /\ Cardinality(DOMAIN g) \in Nat
        /\ IsFiniteSet(DOMAIN h) /\ Cardinality(DOMAIN h) \in Nat
    BY FieldsAreSequences
  <2> DEFINE G == DOMAIN g
             H == DOMAIN h
             name == FieldNames[i]
  <2>3. name \in G /\ H \subseteq G \ {name}
    BY <2>1 DEF Has
  <2>4. Cardinality(G) = Cardinality(H)
    OBVIOUS
  <2> HIDE DEF G, H, name
  <2>5. IsFiniteSet(G \ {name}) /\ Cardinality(G \ {name}) = Cardinality(G) - 1
    BY <2>2, <2>3, FS_RemoveElement DEF G
  <2>6. Cardinality(H) <= Cardinality(G \ {name})
    BY <2>3, <2>5, FS_Subset
  <2> QED BY <2>2, <2>4, <2>5, <2>6 DEF G
<1>2. PICK j \in 1..5, r \in Seq(Int) : j >= i + 1 /\ u[i + 1] = Joined(EncodeKey(FieldNames[j]), r)
  <2>1. m # i
    BY <1>1
  <2>2. m >= i + 1 /\ i + 1 \in 1..6
    BY <1>1, <2>1
  <2>3. KeyAhead(u, i + 1)
    BY <1>1, <2>2, TailStarts
  <2> QED BY <2>3 DEF KeyAhead
<1> DEFINE p == EncodeKey(FieldNames[i])
           q == EncodeKey(FieldNames[j])
           s == Joined(g[FieldNames[i]], t[i + 1])
<1>3. t[i] = Joined(p, s) /\ s \in Seq(Int)
  <2>1. t[i] = Joined(p, s)
    BY DEF Has, FieldTails
  <2>2. i + 1 \in 1..6 /\ g[FieldNames[i]] \in Seq(Int)
    BY DEF Has, HasBytes
  <2>3. t[i + 1] \in Seq(Int)
    BY <2>2 DEF FieldTails
  <2>4. s \in Seq(Int)
    BY <2>2, <2>3, JoinLengths
  <2> QED BY <2>1, <2>4
<1>4. u[i] = Joined(q, r)
  BY <1>2 DEF Has, FieldTails
<1>5. p \in Seq(Int) /\ q \in Seq(Int) /\ Len(p) = Len(q)
  <2> HIDE DEF s
  <2>1. p \in Seq(Int) /\ Len(p) = 2
    BY KeysAreSequences
  <2>2. q \in Seq(Int) /\ Len(q) = 2
    BY KeysAreSequences
  <2> HIDE DEF p, q
  <2> QED BY <2>1, <2>2
<1>6. p = q
  <2> HIDE DEF p, q, s
  <2> QED BY <1>2, <1>3, <1>4, <1>5, SameCut
<1>7. i = j
  <2> DEFINE a == <<1, 1000 + i>>
             b == <<1, 1000 + j>>
  <2>1. a[2] = 1000 + i /\ b[2] = 1000 + j
    OBVIOUS
  <2>2. p = a
    BY EncodedKey
  <2>3. q = b
    BY EncodedKey
  <2> HIDE DEF a, b, p, q
  <2>4. a = b
    BY <1>6, <2>2, <2>3
  <2>5. a[2] = b[2]
    BY <2>4
  <2>6. 1000 + i = 1000 + j
    BY <2>1, <2>5
  <2> QED BY <2>6
<1> QED BY <1>2, <1>7

\* An object says which fields it has, what they are, and where it ends.
ToldBy(f, v, w) ==
    \A x, y \in Seq(Int) : Joined(f[v], x) = Joined(f[w], y) => v = w /\ x = y

TellsAll(f, N) == \A v, w \in N : ToldBy(f, v, w)

\* Up to the i-th name: the same names with the same values.
SameUpTo(v, w, i) ==
    \A j \in 1..5 : j < i =>
        /\ FieldNames[j] \in DOMAIN v.object <=> FieldNames[j] \in DOMAIN w.object
        /\ FieldNames[j] \in DOMAIN v.object => v.object[FieldNames[j]] = w.object[FieldNames[j]]

LEMMA FieldsTold ==
    ASSUME NEW N \in SUBSET Values, NEW f \in Forms, TellsAll(f, N),
           NEW v \in Values, NEW w \in Values, IsObject(v), IsObject(w),
           \A name \in DOMAIN v.object : v.object[name] \in N,
           \A name \in DOMAIN w.object : w.object[name] \in N,
           NEW x \in Seq(Int), NEW y \in Seq(Int),
           Joined(SerialiseFields(FieldBytes(f, v)), x) = Joined(SerialiseFields(FieldBytes(f, w)), y)
    PROVE  SameUpTo(v, w, 6) /\ x = y
<1> DEFINE g == FieldBytes(f, v)
           h == FieldBytes(f, w)
           cg == Cardinality(DOMAIN g)
           ch == Cardinality(DOMAIN h)
<1>1. HasBytes(g) /\ HasBytes(h)
  BY FieldsHaveBytes
<1>2. /\ \A j \in 1..5 : Has(g, j) <=> FieldNames[j] \in DOMAIN v.object
      /\ \A j \in 1..5 : Has(h, j) <=> FieldNames[j] \in DOMAIN w.object
      /\ \A j \in 1..5 : Has(g, j) => g[FieldNames[j]] = f[v.object[FieldNames[j]]]
      /\ \A j \in 1..5 : Has(h, j) => h[FieldNames[j]] = f[w.object[FieldNames[j]]]
  BY DEF Has, FieldBytes
<1>3. cg \in Nat /\ ch \in Nat
  BY <1>1, FieldsAreSequences
<1>4. Joined(SerialiseFields(g), x) = Joined(SerialiseFields(h), y)
  OBVIOUS
<1> HIDE DEF g, h
<1>5. PICK t : /\ FieldTails(g, t, x)
               /\ Joined(SerialiseFields(g), x) = Joined(<<16>>, Joined(Varint[cg], t[1]))
  BY <1>1, FieldTailsThereAre
<1>6. PICK u : /\ FieldTails(h, u, y)
               /\ Joined(SerialiseFields(h), y) = Joined(<<16>>, Joined(Varint[ch], u[1]))
  BY <1>1, FieldTailsThereAre
<1>7. \A i \in 1..6 : t[i] \in Seq(Int) /\ u[i] \in Seq(Int)
  BY <1>5, <1>6 DEF FieldTails
<1>8. cg = ch /\ t[1] = u[1]
  <2> HIDE DEF cg, ch
  <2>1. Varint[cg] \in Seq(Int) /\ Varint[ch] \in Seq(Int) /\ t[1] \in Seq(Int) /\ u[1] \in Seq(Int)
    BY <1>3, <1>7, VarintUnfolds DEF Readings
  <2>2. Joined(Varint[cg], t[1]) \in Seq(Int) /\ Joined(Varint[ch], u[1]) \in Seq(Int)
    BY <2>1, JoinLengths
  <2>3. Joined(Varint[cg], t[1]) = Joined(Varint[ch], u[1])
    <3> DEFINE o == <<16>>
    <3>1. o \in Seq(Int)
      OBVIOUS
    <3>2. Joined(SerialiseFields(g), x) = Joined(o, Joined(Varint[cg], t[1]))
      BY <1>5
    <3>3. Joined(SerialiseFields(h), y) = Joined(o, Joined(Varint[ch], u[1]))
      BY <1>6
    <3> HIDE DEF o
    <3>4. Joined(o, Joined(Varint[cg], t[1])) = Joined(o, Joined(Varint[ch], u[1]))
      BY <1>4, <3>2, <3>3
    <3> QED BY <2>2, <3>1, <3>4, SameCut
  <2> QED BY <1>3, <2>1, <2>3, VarintTold
<1> DEFINE Same(i) == t[i] = u[i] /\ SameUpTo(v, w, i)
<1>9. Same(1)
  BY <1>8 DEF SameUpTo
<1>10. ASSUME NEW i \in 1..5, Same(i) PROVE Same(i + 1)
  <2>1. AgreeBefore(g, h, i) /\ AgreeBefore(h, g, i)
    BY <1>2, <1>10 DEF AgreeBefore, SameUpTo
  <2>2. Has(g, i) => Has(h, i)
    <3>1. Cardinality(DOMAIN g) = Cardinality(DOMAIN h) /\ t[i] = u[i]
      BY <1>8, <1>10
    <3> QED BY <1>1, <1>5, <1>6, <2>1, <3>1, BothHaveIt
  <2>3. Has(h, i) => Has(g, i)
    <3>1. Cardinality(DOMAIN h) = Cardinality(DOMAIN g) /\ u[i] = t[i]
      BY <1>8, <1>10
    <3> QED BY <1>1, <1>5, <1>6, <2>1, <3>1, BothHaveIt
  <2>4. ASSUME ~Has(g, i) PROVE Same(i + 1)
    <3>1. t[i] = t[i + 1] /\ u[i] = u[i + 1]
      BY <1>5, <1>6, <2>3, <2>4 DEF FieldTails, Has
    <3>2. SameUpTo(v, w, i + 1)
      <4> SUFFICES ASSUME NEW j \in 1..5, j < i + 1
                   PROVE  /\ FieldNames[j] \in DOMAIN v.object <=> FieldNames[j] \in DOMAIN w.object
                          /\ FieldNames[j] \in DOMAIN v.object => v.object[FieldNames[j]] = w.object[FieldNames[j]]
        BY DEF SameUpTo
      <4>1. CASE j < i
        BY <1>10, <4>1 DEF SameUpTo
      <4>2. CASE j = i
        BY <1>2, <2>3, <2>4, <4>2
      <4> QED BY <4>1, <4>2
    <3> QED BY <1>10, <3>1, <3>2
  <2>5. ASSUME Has(g, i) PROVE Same(i + 1)
    <3> DEFINE k == EncodeKey(FieldNames[i])
               name == FieldNames[i]
               a == v.object[name]
               b == w.object[name]
    <3>1. name \in DOMAIN v.object /\ name \in DOMAIN w.object /\ g[name] = f[a] /\ h[name] = f[b]
      BY <1>2, <2>2, <2>5
    <3>2. a \in N /\ b \in N
      BY <3>1
    <3>3. f[a] \in Seq(Int) /\ f[b] \in Seq(Int)
      BY <3>2 DEF Forms
    <3>4. t[i] = Joined(k, Joined(f[a], t[i + 1])) /\ u[i] = Joined(k, Joined(f[b], u[i + 1]))
      <4>1. t[i] = Joined(k, Joined(g[name], t[i + 1]))
        BY <1>5, <2>5 DEF FieldTails, Has
      <4>2. u[i] = Joined(k, Joined(h[name], u[i + 1]))
        BY <1>6, <2>2, <2>5 DEF FieldTails, Has
      <4> QED BY <3>1, <4>1, <4>2
    <3>5. k \in Seq(Int)
      BY EncodedKey
    <3>6. t[i + 1] \in Seq(Int) /\ u[i + 1] \in Seq(Int)
      <4>1. i + 1 \in 1..6
        OBVIOUS
      <4> QED BY <1>7, <4>1
    <3> HIDE DEF k, a, b
    <3>7. Joined(f[a], t[i + 1]) = Joined(f[b], u[i + 1])
      <4>1. Joined(f[a], t[i + 1]) \in Seq(Int) /\ Joined(f[b], u[i + 1]) \in Seq(Int)
        BY <3>3, <3>6, JoinLengths
      <4>2. Joined(k, Joined(f[a], t[i + 1])) = Joined(k, Joined(f[b], u[i + 1]))
        BY <1>10, <3>4
      <4> QED BY <3>5, <4>1, <4>2, SameCut
    <3>8. a = b /\ t[i + 1] = u[i + 1]
      <4>1. ToldBy(f, a, b)
        BY <3>2 DEF TellsAll
      <4> QED BY <3>6, <3>7, <4>1 DEF ToldBy
    <3>9. SameUpTo(v, w, i + 1)
      <4> SUFFICES ASSUME NEW j \in 1..5, j < i + 1
                   PROVE  /\ FieldNames[j] \in DOMAIN v.object <=> FieldNames[j] \in DOMAIN w.object
                          /\ FieldNames[j] \in DOMAIN v.object => v.object[FieldNames[j]] = w.object[FieldNames[j]]
        BY DEF SameUpTo
      <4>1. CASE j < i
        BY <1>10, <4>1 DEF SameUpTo
      <4>2. CASE j = i
        BY <3>1, <3>8, <4>2 DEF a, b
      <4> QED BY <4>1, <4>2
    <3> QED BY <3>8, <3>9
  <2> QED BY <2>4, <2>5
<1> HIDE DEF Same
<1>11. Same(6)
  <2>1. 1 + 1 = 2 /\ 2 + 1 = 3 /\ 3 + 1 = 4 /\ 4 + 1 = 5 /\ 5 + 1 = 6
        /\ 1 \in 1..5 /\ 2 \in 1..5 /\ 3 \in 1..5 /\ 4 \in 1..5 /\ 5 \in 1..5
    OBVIOUS
  <2>2. Same(1 + 1)
    BY <1>9, <1>10, <2>1
  <2>3. Same(2 + 1)
    BY <1>10, <2>1, <2>2
  <2>4. Same(3 + 1)
    BY <1>10, <2>1, <2>3
  <2>5. Same(4 + 1)
    BY <1>10, <2>1, <2>4
  <2>6. Same(5 + 1)
    BY <1>10, <2>1, <2>5
  <2> QED BY <2>1, <2>6
<1> QED BY <1>5, <1>6, <1>11 DEF Same, FieldTails

LEMMA SameObjects ==
    ASSUME NEW v, NEW w, IsObject(v), IsObject(w), SameUpTo(v, w, 6)
    PROVE  v = w
<1>1. \A j \in 1..5 :
         /\ FieldNames[j] \in DOMAIN v.object <=> FieldNames[j] \in DOMAIN w.object
         /\ FieldNames[j] \in DOMAIN v.object => v.object[FieldNames[j]] = w.object[FieldNames[j]]
  <2>1. \A j \in 1..5 : j < 6
    OBVIOUS
  <2> QED BY <2>1 DEF SameUpTo
<1> DEFINE o == v.object
           p == w.object
<1>2. DOMAIN o \subseteq Range(FieldNames) /\ DOMAIN p \subseteq Range(FieldNames)
  BY DEF IsObject
<1>3. \A name \in Range(FieldNames) :
         (name \in DOMAIN o <=> name \in DOMAIN p) /\ (name \in DOMAIN o => o[name] = p[name])
  BY <1>1, FieldNameValues
<1>4. o = [name \in DOMAIN o |-> o[name]] /\ p = [name \in DOMAIN p |-> p[name]]
  BY DEF IsObject, IsFunction
<1>5. DOMAIN v = {"object"} /\ DOMAIN w = {"object"} /\ v["object"] = o /\ w["object"] = p
      /\ v = [k \in {"object"} |-> v[k]] /\ w = [k \in {"object"} |-> w[k]]
  BY DEF IsObject, IsFunction
<1> HIDE DEF o, p
<1>6. DOMAIN o = DOMAIN p
  BY <1>2, <1>3
<1>7. \A name \in DOMAIN o : o[name] = p[name]
  BY <1>2, <1>3
<1>8. o = p
  BY <1>4, <1>6, <1>7
<1>9. \A k \in {"object"} : v[k] = w[k]
  BY <1>5, <1>8
<1> QED BY <1>5, <1>9

\* The first symbol of a scalar is no object's.
LEMMA ObjectsAreMarked ==
    ASSUME NEW v \in Scalar, NEW bytesOf, HasBytes(bytesOf), NEW x \in Seq(Int), NEW y \in Seq(Int)
    PROVE  Joined(SerialiseScalar(v), x) # Joined(SerialiseFields(bytesOf), y)
<1>1. PICK tag, body : tag \in 1..6 /\ IsForm(tag, body, v) /\ SerialiseScalar(v) = Joined(<<tag>>, body)
  BY ScalarForms
<1>2. body \in Seq(Int)
  BY <1>1, FormsAreSequences
<1> DEFINE c == Varint[Cardinality(DOMAIN bytesOf)]
<1>3. PICK tail : /\ FieldTails(bytesOf, tail, y)
                  /\ Joined(SerialiseFields(bytesOf), y) = Joined(<<16>>, Joined(c, tail[1]))
  BY FieldTailsThereAre
<1>4. c \in Seq(Int) /\ tail[1] \in Seq(Int)
  <2>1. c \in Seq(Int)
    BY FieldsAreSequences, VarintUnfolds DEF Readings
  <2>2. 1 \in 1..6
    OBVIOUS
  <2>3. tail[1] \in Seq(Int)
    BY <1>3, <2>2 DEF FieldTails
  <2> QED BY <2>1, <2>3
<1> DEFINE a == <<tag>>
           b == <<16>>
<1>5. a \in Seq(Int) /\ b \in Seq(Int) /\ Len(a) = Len(b) /\ a[1] = tag /\ b[1] = 16
  BY <1>1
<1>6. SerialiseScalar(v) = Joined(a, body) /\ Joined(SerialiseFields(bytesOf), y) = Joined(b, Joined(c, tail[1]))
  BY <1>1, <1>3
<1> HIDE DEF a, b, c
<1>7. Joined(body, x) \in Seq(Int) /\ Joined(c, tail[1]) \in Seq(Int)
      /\ Joined(Joined(a, body), x) = Joined(a, Joined(body, x))
  <2>1. Joined(body, x) \in Seq(Int) /\ Joined(c, tail[1]) \in Seq(Int)
    BY <1>2, <1>4, JoinLengths
  <2>2. Joined(Joined(a, body), x) = Joined(a, Joined(body, x))
    BY <1>2, <1>5, JoinsAssociate
  <2> QED BY <2>1, <2>2
<1>8. ASSUME Joined(a, Joined(body, x)) = Joined(b, Joined(c, tail[1])) PROVE FALSE
  <2>1. a = b
    BY <1>5, <1>7, <1>8, SameCut
  <2>2. a[1] = b[1]
    BY <2>1
  <2>3. tag = 16
    BY <1>5, <2>2
  <2> QED BY <1>1, <2>3
<1> QED BY <1>6, <1>7, <1>8

\* By induction over the depth: what follows a value is told from it.
LEMMA NestedTold == \A n \in Nat : TellsAll(Serialised[n], Nested[n])
<1> DEFINE S == {n \in Nat : TellsAll(Serialised[n], Nested[n])}
<1>1. ASSUME NEW n \in Nat, n # 0 => TellsAll(Serialised[n - 1], Nested[n - 1])
      PROVE  TellsAll(Serialised[n], Nested[n])
  <2> SUFFICES ASSUME NEW v \in Nested[n], NEW w \in Nested[n], NEW x \in Seq(Int), NEW y \in Seq(Int),
                      Joined(Serialised[n][v], x) = Joined(Serialised[n][w], y)
               PROVE  v = w /\ x = y
    BY DEF TellsAll, ToldBy
  <2> DEFINE f == Serialised[n - 1]
             N == Nested[n - 1]
  <2>1. ASSUME NEW u \in Nested[n]
        PROVE  /\ u \in Values
               /\ ~IsObject(u) => u \in Scalar /\ Serialised[n][u] = SerialiseScalar(u)
               /\ IsObject(u) => /\ n # 0 /\ n - 1 \in Nat
                                 /\ \A name \in DOMAIN u.object : u.object[name] \in N
                                 /\ Serialised[n][u] = SerialiseFields(FieldBytes(f, u))
    BY NestedIs, SerialisedUnfolds
  <2>2. n - 1 \in Nat => f \in Forms /\ N \subseteq Values
    BY SerialisedUnfolds, NestedIs
  <2> HIDE DEF f, N
  <2>3. CASE ~IsObject(v) /\ ~IsObject(w)
    BY <2>1, <2>3, ScalarTold
  <2>4. CASE ~IsObject(v) /\ IsObject(w)
    <3>1. v \in Scalar /\ w \in Values /\ f \in Forms
      BY <2>1, <2>2, <2>4
    <3>2. HasBytes(FieldBytes(f, w))
      BY <2>4, <3>1, FieldsHaveBytes
    <3>3. Joined(SerialiseScalar(v), x) = Joined(SerialiseFields(FieldBytes(f, w)), y)
      BY <2>1, <2>4
    <3> QED BY <3>1, <3>2, <3>3, ObjectsAreMarked
  <2>5. CASE IsObject(v) /\ ~IsObject(w)
    <3>1. w \in Scalar /\ v \in Values /\ f \in Forms
      BY <2>1, <2>2, <2>5
    <3>2. HasBytes(FieldBytes(f, v))
      BY <2>5, <3>1, FieldsHaveBytes
    <3>3. Joined(SerialiseScalar(w), y) = Joined(SerialiseFields(FieldBytes(f, v)), x)
      BY <2>1, <2>5
    <3> QED BY <3>1, <3>2, <3>3, ObjectsAreMarked
  <2>6. CASE IsObject(v) /\ IsObject(w)
    <3>1. /\ v \in Values /\ w \in Values /\ n # 0 /\ n - 1 \in Nat
          /\ \A name \in DOMAIN v.object : v.object[name] \in N
          /\ \A name \in DOMAIN w.object : w.object[name] \in N
          /\ Joined(SerialiseFields(FieldBytes(f, v)), x) = Joined(SerialiseFields(FieldBytes(f, w)), y)
      BY <2>1, <2>6
    <3>2. f \in Forms /\ N \in SUBSET Values
      BY <2>2, <3>1
    <3>3. TellsAll(f, N)
      BY <1>1, <3>1 DEF f, N
    <3>4. SameUpTo(v, w, 6) /\ x = y
      BY <2>6, <3>1, <3>2, <3>3, FieldsTold
    <3> QED BY <2>6, <3>4, SameObjects
  <2> QED BY <2>3, <2>4, <2>5, <2>6
<1>2. 0 \in S
  BY <1>1
<1>3. ASSUME NEW n \in Nat, n \in S PROVE n + 1 \in S
  <2>1. n + 1 \in Nat /\ (n + 1) - 1 = n
    OBVIOUS
  <2> QED BY <1>1, <1>3, <2>1
<1>4. Nat \subseteq S
  <2> HIDE DEF S
  <2> QED BY <1>2, <1>3, InductionOnSets
<1> QED BY <1>4

\* No value's serialisation begins another's.
LEMMA NoneBeginsAnother ==
    \A v, w \in Values : IsPrefix(CanonicalSerialise(v), CanonicalSerialise(w)) => v = w
<1> SUFFICES ASSUME NEW v \in Values, NEW w \in Values,
                    IsPrefix(CanonicalSerialise(v), CanonicalSerialise(w))
             PROVE  v = w
  OBVIOUS
<1> DEFINE s == CanonicalSerialise(v)
           t == CanonicalSerialise(w)
<1>1. s \in Seq(Int) /\ t \in Seq(Int) /\ Depth \in Nat
  BY CanonicalBounds, SerialisedUnfolds DEF Forms, CanonicalSerialise
<1>2. Len(s) <= Len(t) /\ SubSeq(s, 1, Len(s)) = SubSeq(t, 1, Len(s))
  BY DEF IsPrefix
<1>3. ToldBy(Serialised[Depth], v, w)
  BY <1>1, NestedTold, ValuesAreNested DEF TellsAll
<1>4. \A x, y \in Seq(Int) : Joined(s, x) = Joined(t, y) => v = w
  BY <1>3 DEF ToldBy, CanonicalSerialise
<1> HIDE DEF s, t
<1> DEFINE n == Len(s)
<1>5. n \in 0..Len(t) /\ n \in 0..Len(s)
  <2>1. Len(s) \in Nat /\ Len(t) \in Nat
    BY <1>1
  <2> QED BY <1>2, <2>1
<1>6. Before(t, n) = Before(s, n)
  BY <1>2 DEF Before
<1> DEFINE x == Beyond(t, n)
<1>7. x \in Seq(Int) /\ Joined(Before(t, n), x) = t
  <2> HIDE DEF n
  <2> QED BY <1>1, <1>5, Cut
<1>8. Before(s, n) = s
  <2> HIDE DEF x
  <2>1. SubSeq(s, 1, Len(s)) = s
    BY <1>1
  <2> QED BY <2>1 DEF Before
<1> HIDE DEF x, n
<1>9. Joined(s, x) = Joined(t, <<>>) /\ <<>> \in Seq(Int)
  <2>1. Joined(t, <<>>) = t
    BY <1>1, JoinsOfNothing
  <2> QED BY <1>6, <1>7, <1>8, <2>1
<1> QED BY <1>4, <1>7, <1>9

\* Whatever has been serialised is no beginning of what another value gives, so an object's
\* fields, one after the other, are read in one way.
THEOREM SerialisationIsRead == Spec => []SerialisationIsUnambiguous
<1>1. ClientsHold => SerialisationIsUnambiguous
  <2> SUFFICES ASSUME ClientsHold, NEW e \in encodings, NEW w \in Values, IsPrefix(e.bytes, ValueBytes[w])
               PROVE  e.value = w
    BY DEF SerialisationIsUnambiguous
  <2>1. e.value \in Values /\ e.bytes = CanonicalSerialise(e.value)
    BY DEF ClientsHold
  <2>2. ValueBytes[w] = CanonicalSerialise(w)
    BY DEF ValueBytes
  <2>3. IsPrefix(CanonicalSerialise(e.value), CanonicalSerialise(w))
    BY <2>1, <2>2
  <2> QED BY <2>1, <2>3, NoneBeginsAnother
<1> QED BY <1>1, ClientsAgree, PTL
===============================================================================
