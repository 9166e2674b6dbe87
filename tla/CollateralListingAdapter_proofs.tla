-------------------- MODULE CollateralListingAdapter_proofs --------------------
(***************************************************************************)
(* What validate admits is near the price, and what states the price       *)
(* exactly is admitted, for every number of decimals, every tolerance and  *)
(* every width of the integers.                                            *)
(*                                                                         *)
(* _scaleToE18 multiplies or divides by a power of ten, so the proofs need *)
(* 10^(m + n) = 10^m * 10^n, and that needs induction, which is derived    *)
(* here from the well-foundedness of < on the naturals.                    *)
(*                                                                         *)
(* GuardedListing puts the adapter in front of IntentGuardModule: the      *)
(* second part proves that the module keeps its specification there, and   *)
(* that every claim that was carried out had met the market.               *)
(*                                                                         *)
(* SignerReview reads the market the adapter reads: the third part proves  *)
(* that its warning foretells what the adapter will say of an unchanged    *)
(* market, for every threshold of the warning and every tolerance.         *)
(***************************************************************************)
EXTENDS GuardedListing, SignerReview, WellFoundedInduction, TLAPS

------------------------------------------------------------------------------
(* Induction *)

\* A set of naturals that is not empty has a least element.
LEMMA LeastElement ==
    ASSUME NEW T \in SUBSET Nat, T # {}
    PROVE  \E n \in T : \A m \in T : n <= m
<1> DEFINE R == OpToRel(<, Nat)
<1>1. IsWellFoundedOn(R, Nat)
  BY NatLessThanWellFounded
<1>2. \A m, n \in Nat : m < n => <<m, n>> \in R
  BY DEF OpToRel
<1> HIDE DEF R
<1>3. PICK n \in T : \A m \in T : ~(<<m, n>> \in R)
  BY <1>1, WFMin
<1>4. ASSUME NEW m \in T PROVE n <= m
  <2>1. ~(m < n)
    BY <1>2, <1>3
  <2> QED BY <2>1
<1> QED BY <1>3, <1>4

\* A set with 0 that is closed under successor has every natural number.
LEMMA InductionOnSets ==
    ASSUME NEW S, 0 \in S, \A n \in Nat : n \in S => n + 1 \in S
    PROVE  Nat \subseteq S
<1> SUFFICES ASSUME Nat \ S # {} PROVE FALSE
  OBVIOUS
<1>1. PICK n \in Nat \ S : \A m \in Nat \ S : n <= m
  BY LeastElement
<1>2. n # 0 /\ n - 1 \in Nat
  BY <1>1
<1>3. n - 1 \in S
  BY <1>1, <1>2
<1> QED BY <1>1, <1>2, <1>3

------------------------------------------------------------------------------
(* Powers of ten *)

\* The recursion of TenTo defines a function.
LEMMA TenToUnfolds == TenTo = [n \in Nat |-> IF n = 0 THEN 1 ELSE 10 * TenTo[n - 1]]
<1> DEFINE Upto(n) == {h \in [0..n -> Nat \ {0}] :
                          \A i \in 0..n : h[i] = IF i = 0 THEN 1 ELSE 10 * h[i - 1]}
           S == {n \in Nat : Upto(n) # {}}
<1>1. 0 \in S
  <2>1. [i \in 0..0 |-> 1] \in Upto(0)
    OBVIOUS
  <2> QED BY <2>1
<1>2. ASSUME NEW n \in Nat, n \in S PROVE n + 1 \in S
  <2>1. PICK h : h \in Upto(n)
    BY <1>2
  <2> DEFINE g == [i \in 0..n + 1 |-> IF i = n + 1 THEN 10 * h[n] ELSE h[i]]
  <2>2. h \in [0..n -> Nat \ {0}] /\ \A i \in 0..n : h[i] = IF i = 0 THEN 1 ELSE 10 * h[i - 1]
    BY <2>1
  <2>3. g \in [0..n + 1 -> Nat \ {0}]
    BY <2>2
  <2>4. \A i \in 0..n + 1 : g[i] = IF i = 0 THEN 1 ELSE 10 * g[i - 1]
    BY <2>2
  <2> HIDE DEF g
  <2>5. g \in Upto(n + 1)
    BY <2>3, <2>4
  <2> HIDE DEF Upto
  <2> QED BY <2>5
<1>3. Nat \subseteq S
  <2> HIDE DEF S
  <2> QED BY <1>1, <1>2, InductionOnSets
\* Two of them agree where both are defined.
<1>4. ASSUME NEW m \in Nat, NEW n \in Nat, NEW g \in Upto(m), NEW h \in Upto(n), m <= n
      PROVE  g[m] = h[m]
  <2> DEFINE A == {i \in Nat : i <= m => g[i] = h[i]}
  <2>1. 0 \in A
    OBVIOUS
  <2>2. ASSUME NEW i \in Nat, i \in A PROVE i + 1 \in A
    <3>1. CASE i + 1 <= m
      <4>1. /\ i \in 0..m /\ i \in 0..n /\ i + 1 \in 0..m /\ i + 1 \in 0..n
            /\ i + 1 # 0 /\ (i + 1) - 1 = i
        BY <1>4, <3>1
      <4>2. g[i + 1] = 10 * g[i] /\ h[i + 1] = 10 * h[i]
        BY <4>1
      <4>3. g[i] = h[i]
        BY <2>2, <4>1
      <4> QED BY <4>2, <4>3
    <3> QED BY <3>1
  <2>3. Nat \subseteq A
    <3> HIDE DEF A
    <3> QED BY <2>1, <2>2, InductionOnSets
  <2> QED BY <2>3
<1> DEFINE F == [n \in Nat |-> (CHOOSE h : h \in Upto(n))[n]]
<1>5. \A n \in Nat : (CHOOSE h : h \in Upto(n)) \in Upto(n)
  BY <1>3
<1> HIDE DEF Upto
<1>6. \A n \in Nat : F[n] = IF n = 0 THEN 1 ELSE 10 * F[n - 1]
  <2> TAKE n \in Nat
  <2> DEFINE h == CHOOSE f : f \in Upto(n)
             g == CHOOSE f : f \in Upto(n - 1)
  <2>1. h \in Upto(n) /\ F[n] = h[n]
    BY <1>5
  <2>2. CASE n = 0
    BY <2>1, <2>2 DEF Upto
  <2>3. CASE n # 0
    <3>1. n - 1 \in Nat
      BY <2>3
    <3>2. g \in Upto(n - 1) /\ F[n - 1] = g[n - 1]
      BY <1>5, <3>1
    <3> HIDE DEF h, g, F
    <3>3. g[n - 1] = h[n - 1]
      BY <1>4, <2>1, <3>1, <3>2
    <3>4. h[n] = 10 * h[n - 1]
      BY <2>1, <2>3 DEF Upto
    <3> QED BY <2>1, <2>3, <3>2, <3>3, <3>4
  <2> QED BY <2>2, <2>3
<1>7. F = [n \in Nat |-> F[n]]
  OBVIOUS
<1> HIDE DEF F
<1>8. \E f : f = [n \in Nat |-> IF n = 0 THEN 1 ELSE 10 * f[n - 1]]
  <2>1. F = [n \in Nat |-> IF n = 0 THEN 1 ELSE 10 * F[n - 1]]
    BY <1>6, <1>7
  <2> QED BY <2>1
<1> QED BY <1>8, Zenon DEF TenTo

LEMMA TenToValues ==
    /\ TenTo[0] = 1
    /\ \A n \in Nat : TenTo[n] \in Nat \ {0} /\ TenTo[n + 1] = 10 * TenTo[n]
<1>1. TenTo[0] = 1
  BY TenToUnfolds
<1>2. ASSUME NEW n \in Nat PROVE TenTo[n + 1] = 10 * TenTo[n]
  <2>1. n + 1 \in Nat /\ n + 1 # 0 /\ (n + 1) - 1 = n
    OBVIOUS
  <2> QED BY <2>1, TenToUnfolds
<1> DEFINE S == {n \in Nat : TenTo[n] \in Nat \ {0}}
<1>3. 0 \in S
  BY <1>1
<1>4. \A n \in Nat : n \in S => n + 1 \in S
  BY <1>2
<1>5. Nat \subseteq S
  <2> HIDE DEF S
  <2> QED BY <1>3, <1>4, InductionOnSets
<1> QED BY <1>1, <1>2, <1>5

LEMMA TenToSum ==
    ASSUME NEW m \in Nat, NEW n \in Nat
    PROVE  TenTo[m + n] = TenTo[m] * TenTo[n]
<1> DEFINE S == {k \in Nat : TenTo[m + k] = TenTo[m] * TenTo[k]}
<1>1. 0 \in S
  BY TenToValues
<1>2. ASSUME NEW k \in Nat, k \in S PROVE k + 1 \in S
  <2>1. TenTo[m + (k + 1)] = 10 * TenTo[m + k] /\ TenTo[k + 1] = 10 * TenTo[k]
    <3>1. m + k \in Nat /\ m + (k + 1) = (m + k) + 1
      OBVIOUS
    <3> QED BY <3>1, TenToValues
  <2>2. TenTo[m + k] = TenTo[m] * TenTo[k]
    BY <1>2
  <2>3. TenTo[m] \in Nat /\ TenTo[k] \in Nat
    BY TenToValues
  <2>4. 10 * (TenTo[m] * TenTo[k]) = TenTo[m] * (10 * TenTo[k])
    BY <2>3
  <2> QED BY <2>1, <2>2, <2>4
<1>3. Nat \subseteq S
  <2> HIDE DEF S
  <2> QED BY <1>1, <1>2, InductionOnSets
<1> QED BY <1>3
------------------------------------------------------------------------------
(* Products and quotients *)

LEMMA ProductsAreOrdered ==
    ASSUME NEW x \in Nat, NEW y \in Nat, NEW z \in Nat, x <= y
    PROVE  x * z <= y * z /\ z * x <= z * y /\ x * z \in Nat /\ y * z \in Nat
OBVIOUS

LEMMA ProductsCancel ==
    ASSUME NEW x \in Nat, NEW y \in Nat, NEW z \in Nat \ {0}
    PROVE  /\ x * z = y * z => x = y
           /\ x * z <= y * z => x <= y
           /\ x < y => x * z < y * z
OBVIOUS

LEMMA Quotient ==
    ASSUME NEW x \in Nat, NEW k \in Nat \ {0}
    PROVE  x \div k \in Nat /\ (x \div k) * k <= x /\ x < (x \div k) * k + k
OBVIOUS

\* Distances between multiples are multiples of distances.
LEMMA DistanceScales ==
    ASSUME NEW x \in Nat, NEW y \in Nat, NEW k \in Nat
    PROVE  /\ Distance(x, y) \in Nat /\ Distance(x, y) = Distance(y, x)
           /\ Distance(x * k, y * k) = Distance(x, y) * k
<1>1. Distance(x, y) \in Nat /\ Distance(x, y) = Distance(y, x)
  BY DEF Distance
<1>2. CASE x <= y
  <2>1. x * k <= y * k /\ x * k \in Nat /\ y * k \in Nat /\ (y - x) * k = y * k - x * k
    BY <1>2, ProductsAreOrdered
  <2> QED BY <1>1, <1>2, <2>1 DEF Distance
<1>3. CASE y < x
  <2>1. y * k <= x * k /\ x * k \in Nat /\ y * k \in Nat /\ (x - y) * k = x * k - y * k
    BY <1>3, ProductsAreOrdered
  <2> QED BY <1>1, <1>3, <2>1 DEF Distance
<1> QED BY <1>1, <1>2, <1>3

LEMMA DistanceTriangle ==
    ASSUME NEW x \in Nat, NEW y \in Nat, NEW r \in Nat
    PROVE  Distance(x, y + r) <= Distance(x, y) + r
BY DEF Distance

------------------------------------------------------------------------------
(* _scaleToE18 *)

\* Up to WAD decimals the price in E18 is exact: scaled by 10^decimals it is the answer
\* scaled by 10^WAD.
LEMMA ScalingUpIsExact ==
    ASSUME NEW x \in Nat, NEW d \in Nat, d <= WAD
    PROVE  /\ ScaleToE18(x, d) \in Nat
           /\ ScaleToE18(x, d) = x * TenTo[WAD - d]
           /\ ScaleToE18(x, d) * TenTo[d] = x * TenTo[WAD]
<1>1. WAD \in Nat /\ WAD - d \in Nat /\ (WAD - d) + d = WAD
  BY AdapterWidths
<1>2. TenTo[WAD - d] \in Nat /\ TenTo[d] \in Nat
  BY <1>1, TenToValues
<1>3. TenTo[WAD] = TenTo[WAD - d] * TenTo[d]
  BY <1>1, TenToSum
<1>4. ScaleToE18(x, d) = x * TenTo[WAD - d]
  BY <1>1 DEF ScaleToE18
<1>5. (x * TenTo[WAD - d]) * TenTo[d] = x * (TenTo[WAD - d] * TenTo[d])
  BY <1>2
<1> QED BY <1>2, <1>3, <1>4, <1>5

\* With more decimals it loses less than one unit of E18.
LEMMA ScalingDownRounds ==
    ASSUME NEW x \in Nat, NEW d \in Nat, d > WAD
    PROVE  /\ ScaleToE18(x, d) \in Nat
           /\ ScaleToE18(x, d) * TenTo[d] <= x * TenTo[WAD]
           /\ x * TenTo[WAD] < ScaleToE18(x, d) * TenTo[d] + TenTo[d]
<1>1. WAD \in Nat /\ d - WAD \in Nat /\ (d - WAD) + WAD = d
  BY AdapterWidths
<1> DEFINE k == TenTo[d - WAD]
           w == TenTo[WAD]
           q == ScaleToE18(x, d)
<1>2. k \in Nat \ {0} /\ w \in Nat \ {0} /\ TenTo[d] = k * w
  <2>1. TenTo[(d - WAD) + WAD] = TenTo[d - WAD] * TenTo[WAD]
    BY <1>1, TenToSum
  <2> QED BY <1>1, <2>1, TenToValues
<1>3. q = x \div k
  BY DEF ScaleToE18
<1> HIDE DEF k, w, q
<1>4. q \in Nat /\ q * k <= x /\ x < q * k + k
  BY <1>2, <1>3, Quotient
<1>5. q * k \in Nat /\ q * k + k \in Nat
  BY <1>2, <1>4
<1>6. (q * k) * w <= x * w /\ x * w < (q * k + k) * w
  BY <1>2, <1>4, <1>5, ProductsAreOrdered, ProductsCancel
<1>7. (q * k) * w = q * (k * w) /\ (q * k + k) * w = q * (k * w) + k * w
  BY <1>2, <1>4
<1> QED BY <1>2, <1>4, <1>6, <1>7 DEF q, w

\* A power of ten divides the larger ones, and is no larger.
LEMMA PowersAreOrdered ==
    ASSUME NEW m \in Nat, NEW n \in Nat, m <= n
    PROVE  TenTo[m] <= TenTo[n]
<1>1. n - m \in Nat /\ (n - m) + m = n
  OBVIOUS
<1>2. TenTo[n] = TenTo[n - m] * TenTo[m] /\ TenTo[n - m] \in Nat \ {0} /\ TenTo[m] \in Nat
  <2>1. TenTo[n - m] \in Nat \ {0} /\ TenTo[m] \in Nat
    BY <1>1, TenToValues
  <2>2. TenTo[(n - m) + m] = TenTo[n - m] * TenTo[m]
    BY <1>1, TenToSum
  <2> QED BY <1>1, <2>1, <2>2
<1>3. 1 * TenTo[m] <= TenTo[n - m] * TenTo[m]
  BY <1>2, ProductsAreOrdered
<1> QED BY <1>2, <1>3

------------------------------------------------------------------------------
(* _withinTolerance, in exact arithmetic *)

\* What the adapter's rule says of a rounded price, it says of the true one, up to what
\* the rounding took.
LEMMA ToleranceOfTheTruePrice ==
    ASSUME NEW x \in Nat, NEW d \in Nat, NEW claimed \in Nat, NEW tolerance \in Nat,
           Distance(ScaleToE18(x, d), claimed) * BPS <= ScaleToE18(x, d) * tolerance
    PROVE  LET off == Distance(claimed * TenTo[d], x * TenTo[WAD]) * BPS
               allowed == x * TenTo[WAD] * tolerance
           IN  IF d > WAD THEN off < allowed + BPS * TenTo[d] ELSE off <= allowed
<1> DEFINE p == ScaleToE18(x, d)
           D == TenTo[d]
           n == x * TenTo[WAD]
           diff == Distance(p, claimed)
<1>1. BPS \in Nat \ {0} /\ D \in Nat \ {0} /\ n \in Nat
  <2>1. TenTo[WAD] \in Nat
    BY AdapterWidths, TenToValues
  <2> QED BY <2>1, AdapterWidths, TenToValues
<1>2. p \in Nat
  BY ScalingUpIsExact, ScalingDownRounds, AdapterWidths
<1>3. diff * BPS <= p * tolerance
  OBVIOUS
<1> SUFFICES /\ d > WAD => Distance(claimed * D, n) * BPS < n * tolerance + BPS * D
             /\ ~(d > WAD) => Distance(claimed * D, n) * BPS <= n * tolerance
  OBVIOUS
<1>4. d > WAD => p * D <= n /\ n < p * D + D
  BY ScalingDownRounds
<1>5. ~(d > WAD) => p * D = n
  BY ScalingUpIsExact, AdapterWidths
<1> HIDE DEF p, D, n, diff
<1>6. diff \in Nat /\ Distance(claimed * D, p * D) = diff * D
  <2>1. diff \in Nat /\ diff = Distance(claimed, p)
    BY <1>1, <1>2, DistanceScales DEF diff
  <2>2. Distance(claimed * D, p * D) = Distance(claimed, p) * D
    BY <1>1, <1>2, DistanceScales
  <2> QED BY <2>1, <2>2
<1>7. (diff * D) * BPS <= (p * D) * tolerance
  <2>1. diff * BPS \in Nat /\ p * tolerance \in Nat
    BY <1>1, <1>2, <1>6
  <2>2. (diff * BPS) * D <= (p * tolerance) * D
    BY <1>1, <1>3, <2>1, ProductsAreOrdered
  <2>3. (diff * BPS) * D = (diff * D) * BPS /\ (p * tolerance) * D = (p * D) * tolerance
    BY <1>1, <1>2, <1>6
  <2> QED BY <2>2, <2>3
<1>8. CASE ~(d > WAD)
  BY <1>5, <1>6, <1>7, <1>8
<1>9. CASE d > WAD
  <2> DEFINE r == n - p * D
             far == Distance(claimed * D, n)
  <2>1. p * D \in Nat /\ claimed * D \in Nat
    BY <1>1, <1>2
  <2>2. r \in Nat /\ r < D /\ n = p * D + r
    BY <1>1, <1>4, <1>9, <2>1
  <2>3. far <= diff * D + r /\ far \in Nat
    BY <1>1, <1>6, <2>1, <2>2, DistanceTriangle, DistanceScales
  <2> HIDE DEF r, far
  <2>4. far * BPS <= (diff * D + r) * BPS
    BY <1>1, <1>6, <2>2, <2>3, ProductsAreOrdered
  <2>5. (diff * D + r) * BPS = (diff * D) * BPS + r * BPS
    BY <1>1, <1>6, <2>2
  <2>6. r * BPS < D * BPS /\ D * BPS = BPS * D
    BY <1>1, <2>2, ProductsCancel
  <2>7. (p * D) * tolerance <= n * tolerance
    BY <1>1, <1>4, <1>9, <2>1, ProductsAreOrdered
  <2>8. /\ far * BPS \in Nat /\ (diff * D) * BPS \in Nat /\ r * BPS \in Nat /\ BPS * D \in Nat
        /\ (p * D) * tolerance \in Nat /\ n * tolerance \in Nat
    BY <1>1, <1>2, <1>6, <2>1, <2>2, <2>3
  <2>9. far * BPS < n * tolerance + BPS * D
    BY <1>7, <2>4, <2>5, <2>6, <2>7, <2>8
  <2> QED BY <1>9, <2>9 DEF far
<1> QED BY <1>8, <1>9
\* A claim that equals the true price is the price the adapter computes, and nothing
\* overflows on the way to it.
LEMMA ExactClaimIsThePrice ==
    ASSUME NEW x \in Nat, NEW d \in Nat, NEW claimed \in Uint256,
           claimed * TenTo[d] = x * TenTo[WAD], TenTo[WAD] <= Max256, TenTo[d] <= Max256
    PROVE  ScaleToE18(x, d) = claimed /\ ScaleDefined(x, d)
<1>1. WAD \in Nat /\ Max256 \in Nat /\ claimed \in Nat /\ claimed <= Max256
  BY AdapterWidths DEF Uint256
<1>2. TenTo[d] \in Nat \ {0} /\ TenTo[WAD] \in Nat \ {0}
  BY <1>1, TenToValues
<1>3. CASE d <= WAD
  <2>1. ScaleToE18(x, d) \in Nat /\ ScaleToE18(x, d) * TenTo[d] = claimed * TenTo[d]
    BY <1>3, ScalingUpIsExact
  <2>2. ScaleToE18(x, d) = claimed
    BY <1>1, <1>2, <2>1, ProductsCancel
  <2>3. WAD - d \in Nat /\ WAD - d <= WAD /\ TenTo[WAD - d] \in Nat
    BY <1>1, <1>3, TenToValues
  <2>4. TenTo[WAD - d] <= Max256
    BY <1>1, <1>2, <2>3, PowersAreOrdered
  <2>5. x * TenTo[WAD - d] = claimed
    BY <1>3, <2>2, ScalingUpIsExact
  <2> QED BY <1>1, <1>3, <2>2, <2>4, <2>5 DEF ScaleDefined
<1>4. CASE d > WAD
  <2> DEFINE k == TenTo[d - WAD]
             w == TenTo[WAD]
  <2>1. d - WAD \in Nat /\ (d - WAD) + WAD = d /\ d - WAD <= d
    BY <1>1, <1>4
  <2>2. k \in Nat \ {0} /\ TenTo[d] = k * w
    <3>1. TenTo[(d - WAD) + WAD] = TenTo[d - WAD] * TenTo[WAD]
      BY <1>1, <2>1, TenToSum
    <3> QED BY <2>1, <3>1, TenToValues
  <2>3. k <= Max256
    BY <1>1, <1>2, <2>1, <2>2, PowersAreOrdered
  <2>4. ScaleToE18(x, d) = x \div k
    BY <1>4 DEF ScaleToE18
  <2> HIDE DEF k, w
  <2>5. claimed * (k * w) = (claimed * k) * w /\ claimed * k \in Nat
    BY <1>1, <1>2, <2>2 DEF w
  <2>6. x = claimed * k
    BY <1>2, <2>2, <2>5, ProductsCancel DEF w
  <2>7. x \div k = claimed
    <3> DEFINE q == x \div k
    <3>1. q \in Nat /\ q * k <= claimed * k /\ claimed * k < q * k + k
      BY <2>2, <2>6, Quotient
    <3> HIDE DEF q
    <3>2. q * k + k = (q + 1) * k /\ q + 1 \in Nat
      BY <2>2, <3>1
    <3>3. q <= claimed
      BY <1>1, <2>2, <3>1, ProductsCancel
    <3>4. ~(q + 1 <= claimed)
      BY <1>1, <2>2, <2>5, <3>1, <3>2, ProductsAreOrdered
    <3> QED BY <1>1, <3>1, <3>3, <3>4 DEF q
  <2> QED BY <1>1, <1>4, <2>3, <2>4, <2>7 DEF ScaleDefined, k
<1> QED BY <1>1, <1>3, <1>4

------------------------------------------------------------------------------
(* The adapter *)

\* What is stored, and what oracles say, always has its type; a stored tolerance is no
\* more than a whole.
AdapterTypeOK ==
    /\ feedPolicyByToken \in [Tokens -> FeedPolicy]
    /\ rounds \in [Oracles -> Round]
    /\ now \in 0..Max64

LEMMA AdapterStarts == Init => AdapterTypeOK
<1>1. NoPolicy \in FeedPolicy
  BY AdapterWidths DEF NoPolicy, FeedPolicy, Uint256
<1>2. [answer |-> 0, decimals |-> WAD, updatedAt |-> 0] \in Round
  BY AdapterWidths DEF Round
<1> QED BY <1>1, <1>2, AdapterWidths DEF Init, AdapterTypeOK

LEMMA SetFeedPolicyKeeps ==
    ASSUME AdapterTypeOK, NEW token \in Tokens, NEW policy \in FeedPolicies,
           SetFeedPolicy(token, policy)
    PROVE  feedPolicyByToken' \in [Tokens -> FeedPolicy]
<1>1. policy \in FeedPolicy
  BY AdapterBounds, AdapterWidths DEF SetFeedPolicy, FeedPolicy
<1> QED BY <1>1 DEF SetFeedPolicy, AdapterTypeOK

LEMMA PublishKeeps ==
    ASSUME AdapterTypeOK, NEW oracle \in Oracles, NEW answer \in Answers,
           NEW decimals \in Decimals, NEW updatedAt \in 0..Max64,
           Publish(oracle, answer, decimals, updatedAt)
    PROVE  rounds' \in [Oracles -> Round]
<1>1. [answer |-> answer, decimals |-> decimals, updatedAt |-> updatedAt] \in Round
  BY AdapterBounds, AdapterWidths DEF Round
<1> QED BY <1>1 DEF Publish, AdapterTypeOK

LEMMA AdapterStepKeeps ==
    ASSUME AdapterTypeOK, [Next]_adapterVars
    PROVE  AdapterTypeOK'
<1>1. ASSUME NEW token \in Tokens, NEW policy \in FeedPolicies,
             SetFeedPolicy(token, policy), UNCHANGED <<rounds, now>>
      PROVE  AdapterTypeOK'
  BY <1>1, SetFeedPolicyKeeps DEF AdapterTypeOK
<1>2. ASSUME NEW oracle \in Oracles, NEW answer \in Answers, NEW decimals \in Decimals,
             NEW updatedAt \in 0..Max64, Publish(oracle, answer, decimals, updatedAt),
             UNCHANGED <<feedPolicyByToken, now>>
      PROVE  AdapterTypeOK'
  BY <1>2, PublishKeeps DEF AdapterTypeOK
<1>3. CASE Tick /\ UNCHANGED <<feedPolicyByToken, rounds>>
  BY <1>3, AdapterWidths DEF Tick, AdapterTypeOK
<1>4. CASE UNCHANGED adapterVars
  BY <1>4 DEF adapterVars, AdapterTypeOK
<1> QED BY <1>1, <1>2, <1>3, <1>4 DEF Next

\* Both properties follow from the types of the state they are about.
LEMMA TypesBringClaimsClose == AdapterTypeOK => AdmittedClaimsAreClose
<1> SUFFICES ASSUME AdapterTypeOK, NEW c \in Claims, Validate(c)
             PROVE  LET off == Distance(c.fairValueUsdE18 * Denominator(c.oracle),
                                        Numerator(c.oracle)) * BPS
                        allowed == Numerator(c.oracle) * feedPolicyByToken[c.token].toleranceBps
                    IN  IF rounds[c.oracle].decimals > WAD
                        THEN off < allowed + BPS * Denominator(c.oracle)
                        ELSE off <= allowed
  BY DEF AdmittedClaimsAreClose
<1> DEFINE x == rounds[c.oracle].answer
           d == rounds[c.oracle].decimals
           tolerance == feedPolicyByToken[c.token].toleranceBps
<1>1. c.token \in Tokens /\ c.oracle \in Oracles /\ c.fairValueUsdE18 \in Nat
  BY AdapterBounds, AdapterWidths DEF Claim, Uint256
<1>2. x \in Nat /\ d \in Nat /\ tolerance \in Nat
  BY <1>1, AdapterWidths DEF AdapterTypeOK, Round, FeedPolicy, Validate
<1>3. Distance(ScaleToE18(x, d), c.fairValueUsdE18) * BPS <= ScaleToE18(x, d) * tolerance
  BY DEF Validate, WithinTolerance
<1> HIDE DEF x, d, tolerance
<1> QED BY <1>1, <1>2, <1>3, ToleranceOfTheTruePrice DEF Numerator, Denominator, x, d, tolerance

LEMMA TypesAdmitExactClaims == AdapterTypeOK => ExactClaimsAreAdmitted
<1> SUFFICES ASSUME AdapterTypeOK, NEW c \in Claims,
                    feedPolicyByToken[c.token].allowed,
                    feedPolicyByToken[c.token].oracle = c.oracle,
                    c.maxDepositUsdE18 <= feedPolicyByToken[c.token].maxBootstrapDepositUsdE18,
                    rounds[c.oracle].answer > 0,
                    rounds[c.oracle].updatedAt <= now,
                    now <= rounds[c.oracle].updatedAt + feedPolicyByToken[c.token].maxStalenessSecs,
                    c.fairValueUsdE18 * Denominator(c.oracle) = Numerator(c.oracle),
                    c.fairValueUsdE18 * BPS <= Max256,
                    TenTo[WAD] <= Max256, TenTo[rounds[c.oracle].decimals] <= Max256
             PROVE  Validate(c)
  BY DEF ExactClaimsAreAdmitted
<1> DEFINE f == c.fairValueUsdE18
           policy == feedPolicyByToken[c.token]
           round == rounds[c.oracle]
<1>1. /\ c.token \in Tokens /\ c.oracle \in Oracles /\ f \in Uint256
      /\ policy \in FeedPolicy /\ round \in Round /\ now \in Nat
  BY AdapterBounds, AdapterWidths DEF Claim, AdapterTypeOK
<1>2. /\ round.answer \in Nat /\ round.decimals \in Nat /\ round.updatedAt \in Nat
      /\ policy.maxStalenessSecs \in Nat /\ policy.toleranceBps \in 0..BPS
      /\ BPS \in Nat /\ Max256 \in Nat /\ f \in Nat
  BY <1>1, AdapterWidths DEF FeedPolicy, Round, Uint256
<1>3. ScaleToE18(round.answer, round.decimals) = f /\ ScaleDefined(round.answer, round.decimals)
  BY <1>1, <1>2, ExactClaimIsThePrice DEF Numerator, Denominator
<1>4. FreshRound(round, policy.maxStalenessSecs)
  BY <1>1, <1>2 DEF FreshRound
<1>5. WithinTolerance(f, f, policy.toleranceBps)
  <2>1. Distance(f, f) = 0
    BY <1>2 DEF Distance
  <2>2. f * policy.toleranceBps <= f * BPS /\ f * policy.toleranceBps \in Nat
    BY <1>2, ProductsAreOrdered
  <2> QED BY <1>2, <2>1, <2>2 DEF WithinTolerance
<1> QED BY <1>3, <1>4, <1>5 DEF Validate

\* CollateralListingAdapter.validate and setFeedPolicy keep what they are given to its types.
THEOREM AdapterTypes == AdapterSpec => []AdapterTypeOK
BY AdapterStarts, AdapterStepKeeps, PTL DEF AdapterSpec

\* Whatever validate admits is within the owner's tolerance of the true price, up to one
\* unit of E18 where _scaleToE18 rounds, for oracles of any number of decimals.
THEOREM AdmittedAreClose == AdapterSpec => []AdmittedClaimsAreClose
BY AdapterTypes, TypesBringClaimsClose, PTL

\* A claim that states the price exactly is never refused for it.
THEOREM ExactAreAdmitted == AdapterSpec => []ExactClaimsAreAdmitted
BY AdapterTypes, TypesAdmitExactClaims, PTL

------------------------------------------------------------------------------
(* In front of IntentGuardModule: the adapter restricts the module and     *)
(* does nothing else to it, and what passes both has met the market.       *)

\* An execution that the adapter admitted is an execution of the module.
LEMMA AdmittedExecution ==
    ASSUME NEW id \in Guard!ProposalId, NEW payload \in Payloads, Execute(id, payload)
    PROVE  Guard!Next
BY DEF Execute, Guard!Next

\* Whatever else happens in the module is a step of the module.
LEMMA OtherGuardStep ==
    ASSUME GuardStep
    PROVE  Guard!Next
<1>1. CASE \E v \in Vaults, safe \in Safes, a \in InitArgs : Guard!InitializeVault(v, safe, a)
  BY <1>1 DEF Guard!Next
<1>2. CASE \E safe \in Safes, v \in Vaults, target \in Targets, allowed \in BOOLEAN :
              Guard!SetAdapter(safe, v, target, Adapter, allowed)
  BY <1>2 DEF Guard!Next
<1>3. CASE \E v \in Vaults, action \in Guard!Action, expiresAt \in Guard!Uint64,
              atts \in SUBSET Guard!Presentable : Guard!Queue(v, action, expiresAt, atts)
  BY <1>3 DEF Guard!Next
<1>4. CASE \E id \in Guard!ProposalId, s \in Addresses : Guard!Cancel(id, s)
  BY <1>4 DEF Guard!Next
<1>5. CASE \E s \in Addresses, v \in Vaults, action \in Guard!Action, nonce \in Guard!Uint64,
              signedAt \in Guard!Uint64, ttl \in AttestationTTLs :
                 Guard!Sign(s, v, action, nonce, signedAt, ttl)
  BY <1>5 DEF Guard!Next
<1>6. CASE Guard!Tick
  BY <1>6 DEF Guard!Next
<1> QED BY <1>1, <1>2, <1>3, <1>4, <1>5, <1>6 DEF GuardStep

\* With the adapter in front of execute, and policies and answers changing at any
\* time, the module takes no step it could not take alone: every property of
\* IntentGuardModule holds of the composition.
THEOREM ListingImplementsGuard == ListingSpec => StillIntentGuard
<1>1. ListingInit => Guard!Init  BY DEF ListingInit
<1>2. ASSUME [ListingNext]_listingVars
      PROVE  [Guard!Next]_Guard!vars
  <2>1. CASE \E id \in Guard!ProposalId, payload \in Payloads : Execute(id, payload)
    BY <2>1, AdmittedExecution
  <2>2. CASE GuardStep
    BY <2>2, OtherGuardStep
  <2>3. CASE AdapterStep
    BY <2>3 DEF AdapterStep, guardVars, Guard!vars
  <2>4. CASE UNCHANGED listingVars
    BY <2>4 DEF listingVars, guardVars, Guard!vars
  <2> QED BY <1>2, <2>1, <2>2, <2>3, <2>4 DEF ListingNext
<1> QED BY <1>1, <1>2, PTL DEF ListingSpec, StillIntentGuard, Guard!Spec
------------------------------------------------------------------------------
(* The claim that was signed is the claim that was weighed.                *)

Decodes(id) ==
    IntentOf[<<id.action.adapter, id.action.target, id.action.payload>>] = id.action.intentHash

\* The adapter's checks on a claim, at the time and in the market of a call.
AdmittedAt(c, m, at) ==
    LET policy == m.policies[c.token]
        round == m.rounds[c.oracle]
    IN  /\ policy.allowed /\ policy.oracle = c.oracle
        /\ c.maxDepositUsdE18 <= policy.maxBootstrapDepositUsdE18
        /\ round.answer > 0
        /\ round.updatedAt <= at /\ at - round.updatedAt <= policy.maxStalenessSecs
        /\ WithinTolerance(ScaleToE18(round.answer, round.decimals), c.fairValueUsdE18,
                           policy.toleranceBps)

Call == [id : Guard!ProposalId, payload : Payloads, at : 0..Max64]
Market == [policies : [Tokens -> FeedPolicy], rounds : [Oracles -> Round]]

\* A call of the Safe, and the market it met.
Weighed(call, m) ==
    /\ call.payload = call.id.action.payload /\ Decodes(call.id)
    /\ call.payload.data \in Claims \ {Garbage}
    /\ AdmittedAt(call.payload.data, m, call.at)

EachWeighed(calls, markets) ==
    \A v \in Vaults :
        /\ Len(calls[v]) = Len(markets[v])
        /\ \A i \in DOMAIN calls[v] : Weighed(calls[v][i], markets[v][i])

\* One market is remembered for every call of the Safe, and each call was weighed
\* there; whatever was ever queued decodes to the intent of its attestations.
ListingHolds ==
    /\ AdapterTypeOK
    /\ DOMAIN proposals = Guard!ProposalId
    /\ \A id \in Guard!ProposalId : proposals[id].state # "None" => Decodes(id)
    /\ safeCalls \in [Vaults -> Seq(Call)] /\ market \in [Vaults -> Seq(Market)]
    /\ EachWeighed(safeCalls, market)

\* The intent of a payload that carries a claim has the fields of the claim.
LEMMA IntentOfClaim ==
    ASSUME NEW target \in Targets, NEW payload \in Payloads, payload.data # Garbage
    PROVE  LET intent == IntentOf[<<Adapter, target, payload>>]
               c == payload.data
           IN  /\ intent.token = c.token /\ intent.oracle = c.oracle
               /\ intent.fairValueUsdE18 = c.fairValueUsdE18
               /\ intent.maxDepositUsdE18 = c.maxDepositUsdE18
BY DEF IntentOf

LEMMA ListingStarts == ListingInit => ListingHolds
<1> SUFFICES ASSUME ListingInit PROVE ListingHolds
  OBVIOUS
<1>1. AdapterTypeOK
  BY AdapterStarts DEF ListingInit
<1>2. /\ proposals = [id \in Guard!ProposalId |-> Guard!NoProposal]
      /\ safeCalls = [v \in Vaults |-> <<>>] /\ market = [v \in Vaults |-> <<>>]
  BY DEF ListingInit, Guard!Init
<1>3. \A id \in Guard!ProposalId : proposals[id].state = "None"
  BY <1>2 DEF Guard!NoProposal
<1> QED BY <1>1, <1>2, <1>3 DEF ListingHolds, EachWeighed

\* Nobody but execute touches the Safe and the remembered markets, and nobody but
\* queue, which looks at the intent, brings a proposal into being.
LEMMA GuardStepDecodes ==
    ASSUME ListingHolds, GuardStep
    PROVE  /\ safeCalls' = safeCalls /\ now' \in 0..Max64
           /\ DOMAIN proposals' = Guard!ProposalId
           /\ \A id \in Guard!ProposalId : proposals'[id].state # "None" => Decodes(id)
<1> USE DEF ListingHolds
<1>1. now \in 0..Max64
  BY DEF AdapterTypeOK
<1>2. ASSUME proposals' = proposals
      PROVE  /\ DOMAIN proposals' = Guard!ProposalId
             /\ \A id \in Guard!ProposalId : proposals'[id].state # "None" => Decodes(id)
  BY <1>2
<1>3. CASE \E v \in Vaults, safe \in Safes, a \in InitArgs : Guard!InitializeVault(v, safe, a)
  BY <1>1, <1>2, <1>3 DEF Guard!InitializeVault
<1>4. CASE \E safe \in Safes, v \in Vaults, target \in Targets, allowed \in BOOLEAN :
              Guard!SetAdapter(safe, v, target, Adapter, allowed)
  BY <1>1, <1>2, <1>4 DEF Guard!SetAdapter
<1>5. ASSUME NEW v \in Vaults, NEW action \in Guard!Action, NEW expiresAt \in Guard!Uint64,
             NEW atts, Guard!Queue(v, action, expiresAt, atts)
      PROVE  /\ safeCalls' = safeCalls /\ now' = now
             /\ DOMAIN proposals' = Guard!ProposalId
             /\ \A id \in Guard!ProposalId : proposals'[id].state # "None" => Decodes(id)
  <2> DEFINE new == Guard!IdAtCurrentNonce(v, action)
  <2>1. /\ proposals' = Guard!StoredProposal(new, expiresAt)
        /\ IntentOf[<<action.adapter, action.target, action.payload>>] = action.intentHash
        /\ safeCalls' = safeCalls /\ now' = now
    BY <1>5 DEF Guard!Queue
  <2>2. new.action = action
    BY DEF Guard!IdAtCurrentNonce
  <2>3. Decodes(new)
    BY <2>1, <2>2 DEF Decodes
  <2> HIDE DEF new
  <2>4. DOMAIN proposals' = Guard!ProposalId
    BY <2>1 DEF Guard!StoredProposal
  <2>5. ASSUME NEW id \in Guard!ProposalId, id # new PROVE proposals'[id] = proposals[id]
    BY <2>1, <2>5 DEF Guard!StoredProposal
  <2> QED BY <2>1, <2>3, <2>4, <2>5
<1>6. ASSUME NEW x \in Guard!ProposalId, NEW s \in Addresses, Guard!Cancel(x, s)
      PROVE  /\ safeCalls' = safeCalls /\ now' = now
             /\ DOMAIN proposals' = Guard!ProposalId
             /\ \A id \in Guard!ProposalId : proposals'[id].state # "None" => Decodes(id)
  <2>1. safeCalls' = safeCalls /\ now' = now /\ DOMAIN proposals' = Guard!ProposalId
    BY <1>6 DEF Guard!Cancel
  <2>2. Decodes(x)
    BY <1>6 DEF Guard!Cancel, Guard!IsQueued
  <2>3. ASSUME NEW id \in Guard!ProposalId, id # x PROVE proposals'[id] = proposals[id]
    BY <1>6, <2>3 DEF Guard!Cancel
  <2> QED BY <2>1, <2>2, <2>3
<1>7. CASE \E s \in Addresses, v \in Vaults, action \in Guard!Action, nonce \in Guard!Uint64,
              signedAt \in Guard!Uint64, ttl \in AttestationTTLs :
                 Guard!Sign(s, v, action, nonce, signedAt, ttl)
  <2>1. proposals' = proposals /\ safeCalls' = safeCalls /\ now' = now
    BY <1>7 DEF Guard!Sign, Guard!storage
  <2> QED BY <1>1, <1>2, <2>1
<1>8. CASE Guard!Tick
  <2>1. proposals' = proposals /\ safeCalls' = safeCalls /\ now < Max64 /\ now' = now + 1
    BY <1>8 DEF Guard!Tick, Guard!storage
  <2> QED BY <1>1, <1>2, <2>1, AdapterWidths
<1> QED BY <1>1, <1>3, <1>4, <1>5, <1>6, <1>7, <1>8 DEF GuardStep

LEMMA GuardStepHolds ==
    ASSUME ListingHolds, GuardStep
    PROVE  ListingHolds'
<1>1. UNCHANGED <<feedPolicyByToken, rounds, market>>
  BY DEF GuardStep
<1>2. AdapterTypeOK'
  BY <1>1, GuardStepDecodes DEF ListingHolds, AdapterTypeOK
<1> QED BY <1>1, <1>2, GuardStepDecodes DEF ListingHolds

\* execute: the adapter weighs the calldata that it hands on, which is what was queued.
LEMMA ExecuteWeighs ==
    ASSUME ListingHolds, NEW id \in Guard!ProposalId, NEW payload \in Payloads,
           Execute(id, payload)
    PROVE  LET call == [id |-> id, payload |-> payload, at |-> now]
               m == [policies |-> feedPolicyByToken, rounds |-> rounds]
           IN  /\ call \in Call /\ m \in Market /\ Weighed(call, m)
               /\ safeCalls' = [safeCalls EXCEPT ![id.vaultId] = Append(@, call)]
               /\ market' = [market EXCEPT ![id.vaultId] = Append(@, m)]
<1> DEFINE call == [id |-> id, payload |-> payload, at |-> now]
           m == [policies |-> feedPolicyByToken, rounds |-> rounds]
<1>1. call \in Call /\ m \in Market
  BY DEF ListingHolds, AdapterTypeOK, Call, Market
<1>2. /\ safeCalls' = [safeCalls EXCEPT ![id.vaultId] = Append(@, call)]
      /\ market' = [market EXCEPT ![id.vaultId] = Append(@, m)]
  BY DEF Execute, Guard!Execute
<1>3. payload = id.action.payload /\ Decodes(id)
  BY DEF Execute, Guard!Execute, Guard!IsQueued, Guard!DataMatches, ListingHolds
<1>4. payload.data \in Claims \ {Garbage} /\ Validate(payload.data)
  BY DEF Execute, Admits, Payloads
<1>5. AdmittedAt(payload.data, m, now)
  BY <1>4 DEF Validate, FreshRound, AdmittedAt
<1> QED BY <1>1, <1>2, <1>3, <1>4, <1>5 DEF Weighed

LEMMA ExecuteHolds ==
    ASSUME ListingHolds, NEW id \in Guard!ProposalId, NEW payload \in Payloads,
           Execute(id, payload)
    PROVE  ListingHolds'
<1> DEFINE call == [id |-> id, payload |-> payload, at |-> now]
           m == [policies |-> feedPolicyByToken, rounds |-> rounds]
           w == id.vaultId
<1>1. call \in Call /\ m \in Market /\ Weighed(call, m)
  BY ExecuteWeighs
<1>2. /\ safeCalls' = [safeCalls EXCEPT ![w] = Append(@, call)]
      /\ market' = [market EXCEPT ![w] = Append(@, m)]
  BY ExecuteWeighs
<1> HIDE DEF call, m
<1>3. w \in Vaults
  BY DEF Guard!ProposalId
<1>4. /\ UNCHANGED <<feedPolicyByToken, rounds, now>>
      /\ proposals' = [proposals EXCEPT ![id].state = "Executed"] /\ Guard!IsQueued(id)
  BY DEF Execute, Guard!Execute
<1>5. AdapterTypeOK'
  BY <1>4 DEF ListingHolds, AdapterTypeOK
<1>6. /\ DOMAIN proposals' = Guard!ProposalId
      /\ \A x \in Guard!ProposalId : proposals'[x].state # "None" => Decodes(x)
  <2>1. Decodes(id)
    BY <1>4 DEF ListingHolds, Guard!IsQueued
  <2>2. DOMAIN proposals' = Guard!ProposalId
    BY <1>4 DEF ListingHolds
  <2>3. ASSUME NEW x \in Guard!ProposalId, x # id PROVE proposals'[x] = proposals[x]
    BY <1>4, <2>3 DEF ListingHolds
  <2> QED BY <2>1, <2>2, <2>3 DEF ListingHolds
<1>7. safeCalls' \in [Vaults -> Seq(Call)] /\ market' \in [Vaults -> Seq(Market)]
  BY <1>1, <1>2, <1>3 DEF ListingHolds
<1>8. ASSUME NEW v \in Vaults
      PROVE  /\ Len(safeCalls'[v]) = Len(market'[v])
             /\ \A i \in DOMAIN safeCalls'[v] : Weighed(safeCalls'[v][i], market'[v][i])
  <2>1. /\ safeCalls[v] \in Seq(Call) /\ market[v] \in Seq(Market)
        /\ Len(safeCalls[v]) = Len(market[v])
        /\ \A i \in DOMAIN safeCalls[v] : Weighed(safeCalls[v][i], market[v][i])
    BY DEF ListingHolds, EachWeighed
  <2>2. CASE v # w
    BY <1>2, <2>1, <2>2 DEF ListingHolds
  <2>3. CASE v = w
    <3>1. safeCalls'[v] = Append(safeCalls[v], call) /\ market'[v] = Append(market[v], m)
      BY <1>2, <1>3, <2>3 DEF ListingHolds
    <3> QED BY <1>1, <2>1, <3>1
  <2> QED BY <2>2, <2>3
<1> QED BY <1>5, <1>6, <1>7, <1>8 DEF ListingHolds, EachWeighed

LEMMA AdapterStepHolds ==
    ASSUME ListingHolds, AdapterStep
    PROVE  ListingHolds'
<1>1. UNCHANGED <<now, proposals, safeCalls, market>>
  BY DEF AdapterStep, guardVars
<1>2. feedPolicyByToken' \in [Tokens -> FeedPolicy] /\ rounds' \in [Oracles -> Round]
  BY SetFeedPolicyKeeps, PublishKeeps DEF AdapterStep, ListingHolds, AdapterTypeOK
<1>3. AdapterTypeOK'
  BY <1>1, <1>2 DEF ListingHolds, AdapterTypeOK
<1> QED BY <1>1, <1>3 DEF ListingHolds

LEMMA ListingStepHolds ==
    ASSUME ListingHolds, [ListingNext]_listingVars
    PROVE  ListingHolds'
<1>1. CASE \E id \in Guard!ProposalId, payload \in Payloads : Execute(id, payload)
  BY <1>1, ExecuteHolds
<1>2. CASE GuardStep
  BY <1>2, GuardStepHolds
<1>3. CASE AdapterStep
  BY <1>3, AdapterStepHolds
<1>4. CASE UNCHANGED listingVars
  BY <1>4 DEF listingVars, guardVars, ListingHolds, AdapterTypeOK
<1> QED BY <1>1, <1>2, <1>3, <1>4 DEF ListingNext

\* A call that was weighed carries a signed intent, with the claim's own fields, that met
\* the market.
LEMMA WeighedMetTheMarket ==
    ASSUME NEW call \in Call, NEW m \in Market, Weighed(call, m)
    PROVE  MetTheMarket(call, m)
<1> DEFINE intent == call.id.action.intentHash
           c == call.payload.data
           policy == m.policies[c.token]
           round == m.rounds[c.oracle]
           price == round.answer * TenTo[WAD]
           scale == TenTo[round.decimals]
           off == Distance(c.fairValueUsdE18 * scale, price) * BPS
<1>1. c \in Claims /\ AdmittedAt(c, m, call.at) /\ c \in Claim
  BY AdapterBounds DEF Weighed
<1>2. /\ intent.token = c.token /\ intent.oracle = c.oracle
      /\ intent.fairValueUsdE18 = c.fairValueUsdE18
      /\ intent.maxDepositUsdE18 = c.maxDepositUsdE18
  <2>1. /\ call.id.action \in Guard!Action /\ call.payload = call.id.action.payload
        /\ intent = IntentOf[<<call.id.action.adapter, call.id.action.target, call.id.action.payload>>]
    BY DEF Weighed, Decodes, Call, Guard!ProposalId
  <2>2. call.id.action.adapter = Adapter /\ call.id.action.target \in Targets /\ call.payload \in Payloads
    BY <2>1 DEF Guard!Action
  <2>3. c # Garbage
    BY DEF Weighed
  <2> HIDE DEF intent
  <2> QED BY <2>1, <2>2, <2>3, IntentOfClaim
<1>3. /\ policy \in FeedPolicy /\ round \in Round /\ c.fairValueUsdE18 \in Nat /\ call.at \in Nat
  BY <1>1, AdapterWidths DEF Market, Claim, Uint256, Call
<1>4. /\ policy.allowed /\ policy.oracle = c.oracle
      /\ c.maxDepositUsdE18 <= policy.maxBootstrapDepositUsdE18
      /\ round.answer > 0
      /\ round.updatedAt <= call.at /\ call.at - round.updatedAt <= policy.maxStalenessSecs
      /\ WithinTolerance(ScaleToE18(round.answer, round.decimals), c.fairValueUsdE18,
                         policy.toleranceBps)
  BY <1>1 DEF AdmittedAt
<1> HIDE DEF policy, round, price, scale, off
<1>5. /\ round.answer \in Nat /\ round.decimals \in Nat /\ round.updatedAt \in Nat
      /\ policy.toleranceBps \in Nat /\ policy.maxStalenessSecs \in Nat
  <2>1. policy.toleranceBps \in 0..BPS /\ policy.maxStalenessSecs \in 0..Max64
    BY <1>3 DEF FeedPolicy
  <2>2. round.answer \in Int /\ round.decimals \in Nat /\ round.updatedAt \in Nat
    BY <1>3 DEF Round
  <2> QED BY <1>4, <2>1, <2>2, AdapterWidths
<1>6. IF round.decimals > WAD THEN off < price * policy.toleranceBps + BPS * scale
                              ELSE off <= price * policy.toleranceBps
  BY <1>3, <1>4, <1>5, ToleranceOfTheTruePrice DEF WithinTolerance, off, price, scale
<1>7. /\ scale \in Nat /\ price \in Nat /\ off \in Nat
      /\ price * policy.toleranceBps \in Nat /\ BPS * scale \in Nat
  <2>1. scale \in Nat /\ TenTo[WAD] \in Nat /\ BPS \in Nat
    BY <1>5, TenToValues, AdapterWidths DEF scale
  <2>2. price \in Nat /\ c.fairValueUsdE18 * scale \in Nat
    BY <1>3, <1>5, <2>1 DEF price
  <2>3. Distance(c.fairValueUsdE18 * scale, price) \in Nat
    BY <2>2 DEF Distance
  <2> QED BY <1>5, <2>1, <2>2, <2>3 DEF off
<1>8. off <= price * policy.toleranceBps + IF round.decimals > WAD THEN BPS * scale ELSE 0
  BY <1>6, <1>7
<1>9. call.at \in round.updatedAt..round.updatedAt + policy.maxStalenessSecs
  BY <1>3, <1>4, <1>5
<1> QED BY <1>2, <1>4, <1>8, <1>9 DEF MetTheMarket, policy, round, price, scale, off

\* Through the cool-off and the second submission of the calldata: what reached the Safe
\* carries a claim that a quorum signed and that met the market when it was executed.
THEOREM ClaimsMetTheMarket == ListingSpec => []SignedClaimsMetTheMarket
<1>1. ListingHolds => SignedClaimsMetTheMarket
  <2> SUFFICES ASSUME ListingHolds PROVE SignedClaimsMetTheMarket
    OBVIOUS
  <2>1. ASSUME NEW v \in Vaults, NEW i \in DOMAIN safeCalls[v]
        PROVE  /\ safeCalls[v][i] \in Call /\ market[v][i] \in Market
               /\ Weighed(safeCalls[v][i], market[v][i])
    BY DEF ListingHolds, EachWeighed
  <2>2. ASSUME NEW v \in Vaults, NEW i \in DOMAIN safeCalls[v]
        PROVE  MetTheMarket(safeCalls[v][i], market[v][i])
    BY <2>1, WeighedMetTheMarket
  <2> QED BY <2>2 DEF SignedClaimsMetTheMarket
<1> QED BY <1>1, ListingStarts, ListingStepHolds, PTL DEF ListingSpec

------------------------------------------------------------------------------
(* The review client *)

\* A review compares what was on the screen: with oracle fields, a claim that is not
\* zero, by the rule of printOracleWarning; without them nothing.
ComparedAsShown(s) ==
    /\ s.oracle \in Oracles /\ s.claimed \in Nat
    /\ s.live = <<>> => ~s.warned
    /\ s.live # <<>> =>
          /\ s.live = <<s.live[1]>> /\ s.live[1] \in Int
          /\ s.claimed # 0
          /\ s.warned <=> Warns(s.claimed, s.live[1])

ReviewsHold ==
    /\ AdapterTypeOK
    /\ review # <<>> => review = <<review[1]>> /\ ComparedAsShown(review[1])
    /\ \A s \in signed : ComparedAsShown(s)

------------------------------------------------------------------------------
(* The two rules *)

LEMMA Widths ==
    /\ E8 \in Nat /\ WAD - E8 \in Nat /\ ~(E8 > WAD)
    /\ BPS \in Nat \ {0} /\ WarnBps \in Nat /\ WarnBps + 1 < BPS
    /\ E18PerE8 \in Nat \ {0} /\ E18PerE8 = TenTo[WAD - E8]
<1>1. /\ E8 \in Nat /\ WAD - E8 \in Nat /\ ~(E8 > WAD)
      /\ BPS \in Nat \ {0} /\ WarnBps \in Nat /\ WarnBps + 1 < BPS
  BY AdapterWidths, ReviewBounds
<1> QED BY <1>1, TenToValues DEF E18PerE8

\* The quotient that the review rounds down is above the threshold exactly if the
\* distance is at least threshold + 1 parts of the claim.
LEMMA WarningRule ==
    ASSUME NEW claimed \in Nat \ {0}, NEW live \in Int
    PROVE  /\ Diff(claimed, live) \in Nat
           /\ Warns(claimed, live) <=> (WarnBps + 1) * claimed <= Diff(claimed, live) * BPS
<1> DEFINE n == Diff(claimed, live) * BPS
           q == n \div claimed
<1>1. Diff(claimed, live) \in Nat
  BY DEF Diff
<1>2. n \in Nat
  BY <1>1, Widths
<1>3. q \in Nat /\ q * claimed <= n /\ n < q * claimed + claimed
  BY <1>2, Quotient
<1>4. Warns(claimed, live) <=> q > WarnBps
  BY DEF Warns, Bps
<1> HIDE DEF n, q
<1>5. CASE q > WarnBps
  <2>1. WarnBps + 1 \in Nat /\ WarnBps + 1 <= q
    BY <1>3, <1>5, Widths
  <2>2. (WarnBps + 1) * claimed <= q * claimed /\ (WarnBps + 1) * claimed \in Nat /\ q * claimed \in Nat
    BY <1>3, <2>1, ProductsAreOrdered
  <2> QED BY <1>1, <1>2, <1>3, <1>4, <1>5, <2>2 DEF n
<1>6. CASE ~(q > WarnBps)
  <2>1. q + 1 \in Nat /\ WarnBps + 1 \in Nat /\ q + 1 <= WarnBps + 1
    BY <1>3, <1>6, Widths
  <2>2. (q + 1) * claimed <= (WarnBps + 1) * claimed /\ (WarnBps + 1) * claimed \in Nat
    BY <2>1, ProductsAreOrdered
  <2>3. (q + 1) * claimed = q * claimed + claimed /\ q * claimed \in Nat
    BY <1>3
  <2> QED BY <1>1, <1>2, <1>3, <1>4, <1>6, <2>2, <2>3 DEF n
<1> QED BY <1>5, <1>6

\* Without a warning: the distance is less than w parts of the claim, hence no more
\* than t parts of the price when t / B is at least w / (B - w).
LEMMA QuietMeansNear ==
    ASSUME NEW c \in Nat \ {0}, NEW a \in Int, NEW w \in Nat, NEW B \in Nat \ {0}, w < B,
           NEW t \in Nat, t * (B - w) >= w * B, NEW diff \in Nat,
           diff = IF c > a THEN c - a ELSE a - c,
           diff * B < w * c
    PROVE  a > 0 /\ diff * B <= a * t
<1>1. a > 0
  <2> SUFFICES ASSUME a <= 0 PROVE FALSE
    OBVIOUS
  <2>1. c <= diff
    OBVIOUS
  <2>2. c * w <= diff * w /\ diff * w <= diff * B
    BY <2>1, ProductsAreOrdered
  <2>3. c * w = w * c /\ w * c \in Nat /\ diff * w \in Nat /\ diff * B \in Nat
    OBVIOUS
  <2> QED BY <2>2, <2>3
<1>2. diff * (B - w) <= w * a
  <2>1. CASE c > a
    <3>1. c = a + diff /\ w * (a + diff) = w * a + w * diff /\ w * a \in Int /\ w * diff \in Int
      BY <2>1
    <3>2. diff * (B - w) = diff * B - w * diff /\ diff * B \in Int
      OBVIOUS
    <3> QED BY <3>1, <3>2
  <2>2. CASE ~(c > a)
    <3>1. c = a - diff /\ w * (a - diff) = w * a - w * diff /\ w * a \in Int /\ w * diff \in Nat
      BY <2>2
    <3>2. diff * (B - w) = diff * B - w * diff /\ diff * B \in Int
      OBVIOUS
    <3> QED BY <3>1, <3>2
  <2> QED BY <2>1, <2>2
<1> DEFINE u == B - w
<1>3. u \in Nat \ {0} /\ a \in Nat /\ diff * u <= w * a /\ w * B <= t * u
  BY <1>1, <1>2
<1> HIDE DEF u
<1>4. (diff * u) * B <= (w * a) * B /\ (w * B) * a <= (t * u) * a
  <2>1. diff * u \in Nat /\ w * a \in Nat /\ w * B \in Nat /\ t * u \in Nat
    BY <1>3
  <2> QED BY <1>3, <2>1, ProductsAreOrdered
<1>5. /\ (diff * u) * B = (diff * B) * u /\ (w * a) * B = (w * B) * a
      /\ (t * u) * a = (a * t) * u
  BY <1>3
<1>6. diff * B \in Nat /\ a * t \in Nat /\ (diff * B) * u \in Nat /\ (w * B) * a \in Nat /\ (a * t) * u \in Nat
  BY <1>3
<1>7. (diff * B) * u <= (a * t) * u
  BY <1>4, <1>5, <1>6
<1> QED BY <1>1, <1>3, <1>6, <1>7, ProductsCancel

\* With one: at least w parts of the claim, hence more than t parts of the price when
\* t / B is below w / (B + w).
LEMMA WarningMeansFar ==
    ASSUME NEW c \in Nat \ {0}, NEW a \in Int, NEW w \in Nat, NEW B \in Nat \ {0}, w < B,
           NEW t \in Nat, t * (B + w) < w * B, NEW diff \in Nat,
           diff = IF c > a THEN c - a ELSE a - c,
           w * c <= diff * B
    PROVE  diff * B > a * t
<1>1. CASE a <= 0
  <2>1. diff # 0
    BY <1>1
  <2>2. diff * B > 0 /\ a * t <= 0
    <3>1. 0 * B < diff * B
      BY <2>1, ProductsCancel
    <3>2. (0 - a) \in Nat /\ (0 - a) * t \in Nat /\ (0 - a) * t = 0 - (a * t) /\ a * t \in Int
      BY <1>1
    <3> QED BY <3>1, <3>2
  <2> QED BY <2>2
<1>2. CASE a > 0
  <2> SUFFICES ASSUME diff * B <= a * t PROVE FALSE
    <3>1. diff * B \in Int /\ a * t \in Int
      OBVIOUS
    <3> QED BY <3>1
  <2> DEFINE u == B + w
  <2>1. u \in Nat \ {0} /\ a \in Nat \ {0} /\ t * u < w * B
    BY <1>2
  <2>2. w * a <= diff * u
    <3>1. diff * u = diff * B + w * diff /\ diff * B \in Int /\ w * diff \in Nat /\ w * a \in Int
      OBVIOUS
    <3>2. CASE c > a
      <4>1. a <= c /\ w * a <= w * c /\ w * c \in Nat
        BY <2>1, <3>2, ProductsAreOrdered
      <4> QED BY <3>1, <4>1
    <3>3. CASE ~(c > a)
      <4>1. c = a - diff /\ w * (a - diff) = w * a - w * diff
        BY <3>3
      <4> QED BY <3>1, <4>1
    <3> QED BY <3>2, <3>3
  <2> HIDE DEF u
  <2>3. (w * a) * B <= (diff * u) * B /\ (diff * B) * u <= (a * t) * u /\ (t * u) * a < (w * B) * a
    <3>1. w * a \in Nat /\ diff * u \in Nat /\ diff * B \in Nat /\ a * t \in Nat /\ t * u \in Nat /\ w * B \in Nat
      BY <2>1
    <3> QED BY <2>1, <2>2, <3>1, ProductsAreOrdered, ProductsCancel
  <2>4. /\ (w * a) * B = (w * B) * a /\ (diff * u) * B = (diff * B) * u /\ (a * t) * u = (t * u) * a
        /\ (w * B) * a \in Nat /\ (diff * B) * u \in Nat /\ (t * u) * a \in Nat
    BY <2>1
  <2> QED BY <2>3, <2>4
<1> QED BY <1>1, <1>2
\* In E18 the distance is the one in E8, scaled.
LEMMA DistanceInE18 ==
    ASSUME NEW c \in Nat, NEW a \in Int
    PROVE  /\ ScaleToE18(a, E8) = a * E18PerE8
           /\ Distance(ScaleToE18(a, E8), c * E18PerE8) = Diff(c, a) * E18PerE8
<1> DEFINE e == E18PerE8
<1>1. e \in Nat \ {0} /\ ScaleToE18(a, E8) = a * e
  BY Widths DEF ScaleToE18
<1> HIDE DEF e
<1>2. a * e \in Int /\ c * e \in Int /\ (a - c) * e = a * e - c * e /\ (c - a) * e = c * e - a * e
  BY <1>1
<1>3. Distance(a * e, c * e) = Diff(c, a) * e
  <2>1. CASE c > a
    <3>1. 0 * e < (c - a) * e
      BY <1>1, <2>1, ProductsCancel
    <3> QED BY <1>1, <1>2, <2>1, <3>1 DEF Distance, Diff
  <2>2. CASE ~(c > a)
    <3>1. 0 * e <= (a - c) * e
      BY <1>1, <2>2, ProductsAreOrdered
    <3> QED BY <1>1, <1>2, <2>2, <3>1 DEF Distance, Diff
  <2> QED BY <2>1, <2>2
<1> QED BY <1>1, <1>3 DEF e

\* What the chain will say of the same claim at the same answer.
LEMMA ForetoldOnE18 ==
    ASSUME NEW c \in Nat \ {0}, NEW a \in Int, NEW t \in 0..BPS
    PROVE  LET price == ScaleToE18(a, E8)
               fairValue == c * E18PerE8
               weighable == price * BPS <= Max256 /\ Distance(price, fairValue) * BPS <= Max256
           IN  /\ ~Warns(c, a) /\ t * (BPS - WarnBps - 1) >= (WarnBps + 1) * BPS /\ weighable
                    => WithinTolerance(price, fairValue, t)
               /\ Warns(c, a) /\ t * (BPS + WarnBps + 1) < (WarnBps + 1) * BPS
                    => ~WithinTolerance(price, fairValue, t)
<1> DEFINE e == E18PerE8
           w == WarnBps + 1
           diff == Diff(c, a)
           price == ScaleToE18(a, E8)
           far == Distance(price, c * e)
<1>1. /\ e \in Nat \ {0} /\ w \in Nat /\ BPS \in Nat \ {0} /\ w < BPS /\ t \in Nat /\ t <= BPS
      /\ BPS - w = BPS - WarnBps - 1 /\ BPS + w = BPS + WarnBps + 1 /\ Max256 \in Nat
  BY Widths, AdapterWidths
<1>2. diff \in Nat /\ (Warns(c, a) <=> w * c <= diff * BPS) /\ w * c \in Nat /\ diff * BPS \in Nat
  <2>1. diff \in Nat /\ (Warns(c, a) <=> (WarnBps + 1) * c <= diff * BPS)
    BY WarningRule
  <2> HIDE DEF diff, e, price, far
  <2>2. w * c \in Nat /\ diff * BPS \in Nat
    BY <1>1, <2>1
  <2> QED BY <2>1, <2>2
<1>3. diff = IF c > a THEN c - a ELSE a - c
  BY DEF Diff
<1>4. price = a * e /\ far = diff * e
  BY DistanceInE18
<1> HIDE DEF e, w, diff, price, far
<1>5. ASSUME ~Warns(c, a), t * (BPS - w) >= w * BPS, price * BPS <= Max256, far * BPS <= Max256
      PROVE  WithinTolerance(price, c * e, t)
  <2>1. a > 0 /\ diff * BPS <= a * t
    <3>1. diff * BPS < w * c
      BY <1>2, <1>5
    <3> QED BY <1>1, <1>2, <1>3, <1>5, <3>1, QuietMeansNear
  <2>2. a * t \in Nat /\ price \in Nat /\ (diff * BPS) * e <= (a * t) * e
    BY <1>1, <1>2, <1>4, <2>1, ProductsAreOrdered
  <2>3. (diff * BPS) * e = far * BPS /\ (a * t) * e = price * t
    BY <1>1, <1>2, <1>4
  <2>4. price * t <= price * BPS /\ price * t \in Nat /\ price * BPS \in Nat
    BY <1>1, <2>2, ProductsAreOrdered
  <2> QED BY <1>1, <1>5, <2>2, <2>3, <2>4 DEF WithinTolerance, far
<1>6. ASSUME Warns(c, a), t * (BPS + w) < w * BPS
      PROVE  ~WithinTolerance(price, c * e, t)
  <2>1. diff * BPS > a * t
    BY <1>1, <1>2, <1>3, <1>6, WarningMeansFar
  <2>2. (diff * BPS - a * t) \in Nat \ {0} /\ a * t \in Int
    BY <1>1, <1>2, <2>1
  <2>3. 0 * e < (diff * BPS - a * t) * e
    BY <1>1, <2>2, ProductsCancel
  <2>4. (diff * BPS - a * t) * e = (diff * BPS) * e - (a * t) * e
    BY <1>1, <1>2, <2>2
  <2>5. (diff * BPS) * e = far * BPS /\ (a * t) * e = price * t
    BY <1>1, <1>2, <1>4
  <2>6. (diff * BPS) * e \in Int /\ (a * t) * e \in Int
    BY <1>1, <1>2, <2>2
  <2> QED BY <1>1, <2>3, <2>4, <2>5, <2>6 DEF WithinTolerance, far
<1> QED BY <1>1, <1>5, <1>6 DEF e, w, price, far

------------------------------------------------------------------------------
(* The command *)

LEMMA ReviewsStart == ReviewInit => ReviewsHold
BY AdapterStarts DEF ReviewInit, ReviewsHold

LEMMA FetchCompares ==
    ASSUME ReviewsHold, NEW c \in Claims, NEW hasOracle \in BOOLEAN, Fetch(c, hasOracle)
    PROVE  ReviewsHold'
<1> DEFINE claimed == c.fairValueUsdE18 \div E18PerE8
           live == rounds[c.oracle].answer
           r == [oracle |-> c.oracle, claimed |-> claimed,
                 live |-> IF hasOracle THEN <<live>> ELSE <<>>,
                 warned |-> hasOracle /\ Warns(claimed, live)]
<1>1. review' = <<r>> /\ signed' = signed /\ UNCHANGED adapterVars /\ (hasOracle => claimed # 0)
  BY DEF Fetch
<1>2. c.oracle \in Oracles /\ c.fairValueUsdE18 \in Nat
  BY AdapterBounds, AdapterWidths DEF Claim, Uint256
<1>3. claimed \in Nat /\ live \in Int
  BY <1>2, Widths, Quotient DEF ReviewsHold, AdapterTypeOK, Round
<1> HIDE DEF claimed, live
<1>4. ComparedAsShown(r)
  <2>1. CASE hasOracle
    <3>1. r.live = <<live>> /\ r.live # <<>> /\ r.live[1] = live
      BY <2>1
    <3>2. r.warned <=> Warns(r.claimed, live)
      BY <2>1
    <3> QED BY <1>1, <1>2, <1>3, <2>1, <3>1, <3>2 DEF ComparedAsShown
  <2>2. CASE ~hasOracle
    BY <1>2, <1>3, <2>2 DEF ComparedAsShown
  <2> QED BY <2>1, <2>2
<1> HIDE DEF r
<1>5. AdapterTypeOK'
  BY <1>1 DEF ReviewsHold, AdapterTypeOK, adapterVars
<1>6. review' = <<review'[1]>> /\ ComparedAsShown(review'[1])
  BY <1>1, <1>4
<1> QED BY <1>1, <1>5, <1>6 DEF ReviewsHold, ComparedAsShown

LEMMA SignAndAbortKeep ==
    ASSUME ReviewsHold, Sign \/ Abort
    PROVE  ReviewsHold'
<1>1. review # <<>> /\ review' = <<>> /\ UNCHANGED adapterVars
  BY DEF Sign, Abort
<1>2. signed' \subseteq signed \cup {review[1]} /\ ComparedAsShown(review[1])
  BY <1>1 DEF Sign, Abort, ReviewsHold
<1>3. AdapterTypeOK'
  BY <1>1 DEF ReviewsHold, AdapterTypeOK, adapterVars
<1> QED BY <1>1, <1>2, <1>3 DEF ReviewsHold

LEMMA ReviewStepKeeps ==
    ASSUME ReviewsHold, [ReviewNext]_reviewVars
    PROVE  ReviewsHold'
<1>1. CASE \E c \in Claims, hasOracle \in BOOLEAN : Fetch(c, hasOracle)
  BY <1>1, FetchCompares
<1>2. CASE Sign \/ Abort
  BY <1>2, SignAndAbortKeep
<1>3. CASE (Next \/ UNCHANGED adapterVars) /\ UNCHANGED <<review, signed>>
  <2>1. AdapterTypeOK'
    BY <1>3, AdapterStepKeeps DEF ReviewsHold
  <2> QED BY <1>3, <2>1 DEF ReviewsHold
<1> QED BY <1>1, <1>2, <1>3 DEF ReviewNext, reviewVars

LEMMA ReviewsForetell == ReviewsHold => WarningsForetellTheChain
<1> SUFFICES ASSUME ReviewsHold, NEW s \in signed, rounds[s.oracle].decimals = E8,
                    s.live = <<rounds[s.oracle].answer>>, NEW tolerance \in 0..BPS
             PROVE  LET price == ScaleToE18(rounds[s.oracle].answer, E8)
                        fairValue == s.claimed * E18PerE8
                        weighable == price * BPS <= Max256 /\ Distance(price, fairValue) * BPS <= Max256
                    IN  /\ ~s.warned /\ tolerance * (BPS - WarnBps - 1) >= (WarnBps + 1) * BPS /\ weighable
                             => WithinTolerance(price, fairValue, tolerance)
                        /\ s.warned /\ tolerance * (BPS + WarnBps + 1) < (WarnBps + 1) * BPS
                             => ~WithinTolerance(price, fairValue, tolerance)
  BY DEF WarningsForetellTheChain
<1> DEFINE a == rounds[s.oracle].answer
<1>1. s.live # <<>> /\ s.live[1] = a
  OBVIOUS
<1>2. s.claimed \in Nat \ {0} /\ a \in Int /\ (s.warned <=> Warns(s.claimed, a))
  BY <1>1 DEF ReviewsHold, ComparedAsShown
<1> HIDE DEF a
<1> QED BY <1>2, ForetoldOnE18 DEF a

\* What the signer saw is what was compared, and was compared by the rule of the code.
THEOREM ReviewsAreCompared == ReviewSpec => []ReviewsHold
BY ReviewsStart, ReviewStepKeeps, PTL DEF ReviewSpec

\* What was signed without a warning the chain admits, what was signed against one it
\* refuses, at every tolerance but those between the two rules' denominators.
THEOREM WarningsForetell == ReviewSpec => []WarningsForetellTheChain
BY ReviewsAreCompared, ReviewsForetell, PTL

\* The command only reads the market: beside it, the adapter takes its own steps and no
\* other, so what is proved of the adapter holds while signers review.
THEOREM ReviewLeavesTheMarket == ReviewSpec => AdapterSpec
<1>1. ReviewInit => Init
  BY DEF ReviewInit
<1>2. [ReviewNext]_reviewVars => [Next]_adapterVars
  BY DEF ReviewNext, reviewVars, Fetch, Sign, Abort
<1> QED BY <1>1, <1>2, PTL DEF ReviewSpec, AdapterSpec

===============================================================================
