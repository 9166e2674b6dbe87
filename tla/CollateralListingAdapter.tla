----------------------- MODULE CollateralListingAdapter -----------------------
(***************************************************************************)
(* contracts/CollateralListingAdapter.sol: the adapter that reads the      *)
(* intent in a call of listCollateral(token, oracle, fairValueUsdE18,      *)
(* maxDepositUsdE18), and admits the call only while the claimed value is  *)
(* near the live answer of the token's oracle.                             *)
(*                                                                         *)
(* The state is the owner's feed policies; oracles publish rounds and time *)
(* passes around it.  uint256 arithmetic is checked: a value above Max256  *)
(* reverts.  Payloads that are not a call of listCollateral do not decode. *)
(***************************************************************************)
EXTENDS Integers

CONSTANTS
    Tokens, Oracles,
    ZeroAddress,    \* address(0)
    WAD,            \* 18, the decimals of a USD value in E18
    BPS,            \* 10_000
    Max256,         \* type(uint256).max
    Max64,          \* type(uint64).max
    FeedPolicies,   \* bound: the policies the owner sets
    Answers,        \* bound: the answers oracles publish, int256
    Decimals,       \* bound: what decimals() of an oracle returns, uint8
    Claims          \* bound: the decoded calls of listCollateral

Uint256 == 0..Max256

FeedPolicy ==
    [oracle : Oracles \cup {ZeroAddress}, maxStalenessSecs : 0..Max64,
     toleranceBps : 0..BPS, maxBootstrapDepositUsdE18 : Uint256, allowed : BOOLEAN]

Claim == [token : Tokens, oracle : Oracles,
          fairValueUsdE18 : Uint256, maxDepositUsdE18 : Uint256]

Round == [answer : Int, decimals : Nat, updatedAt : Nat]

ASSUME AdapterWidths ==
    /\ WAD \in Nat /\ BPS \in Nat \ {0} /\ Max256 \in Nat /\ Max64 \in Nat
ASSUME AdapterSorts == ZeroAddress \notin Oracles
ASSUME AdapterBounds ==
    /\ FeedPolicies \subseteq
          [oracle : Oracles \cup {ZeroAddress}, maxStalenessSecs : 0..Max64,
           toleranceBps : Nat, maxBootstrapDepositUsdE18 : Uint256, allowed : BOOLEAN]
    /\ Answers \subseteq Int /\ Decimals \subseteq Nat
    /\ Claims \subseteq Claim

VARIABLES
    feedPolicyByToken,  \* [Tokens -> FeedPolicy]
    rounds,             \* external: what each oracle answers
    now                 \* block.timestamp

adapterVars == <<feedPolicyByToken, rounds, now>>

NoPolicy ==
    [oracle |-> ZeroAddress, maxStalenessSecs |-> 0, toleranceBps |-> 0,
     maxBootstrapDepositUsdE18 |-> 0, allowed |-> FALSE]

Init ==
    /\ feedPolicyByToken = [t \in Tokens |-> NoPolicy]
    /\ rounds = [o \in Oracles |-> [answer |-> 0, decimals |-> WAD, updatedAt |-> 0]]
    /\ now = 0

\* The owner replaces the whole policy of a token.
SetFeedPolicy(token, policy) ==
    /\ policy.toleranceBps <= BPS
    /\ feedPolicyByToken' = [feedPolicyByToken EXCEPT ![token] = policy]

------------------------------------------------------------------------------
(* Prices *)

\* 10 ** n.
TenTo[n \in Nat] == IF n = 0 THEN 1 ELSE 10 * TenTo[n - 1]

\* The powers and the product that _scaleToE18 computes do not overflow.
ScaleDefined(value, decimals) ==
    /\ decimals < WAD => value * TenTo[WAD - decimals] <= Max256 /\ TenTo[WAD - decimals] <= Max256
    /\ decimals > WAD => TenTo[decimals - WAD] <= Max256

ScaleToE18(value, decimals) ==
    IF decimals > WAD THEN value \div TenTo[decimals - WAD] ELSE value * TenTo[WAD - decimals]

Distance(x, y) == IF x > y THEN x - y ELSE y - x

WithinClaimTolerance(price, claimed, toleranceBps) ==   \* mutant: relative to the claim
    /\ claimed * toleranceBps <= Max256
    /\ Distance(price, claimed) * BPS <= claimed * toleranceBps

StrictlyWithinTolerance(price, claimed, toleranceBps) ==   \* mutant: < for <=
    /\ price * toleranceBps <= Max256
    /\ Distance(price, claimed) * BPS < price * toleranceBps

\* Both products are checked before they are compared.
WithinTolerance(price, claimed, toleranceBps) ==
    /\ Distance(price, claimed) * BPS <= Max256
    /\ price * toleranceBps <= Max256
    /\ Distance(price, claimed) * BPS <= price * toleranceBps

\* block.timestamp - updatedAt reverts for a round from the future.
FreshRound(round, maxStalenessSecs) ==
    round.updatedAt <= now /\ now - round.updatedAt <= maxStalenessSecs

\* validate, for calldata that decodes to this claim; its other arguments are unused.
Validate(c) ==
    LET policy == feedPolicyByToken[c.token]
        round == rounds[c.oracle]
    IN  /\ policy.allowed /\ policy.oracle = c.oracle
        /\ c.maxDepositUsdE18 <= policy.maxBootstrapDepositUsdE18
        /\ round.answer > 0
        /\ FreshRound(round, policy.maxStalenessSecs)
        /\ ScaleDefined(round.answer, round.decimals)
        /\ WithinTolerance(ScaleToE18(round.answer, round.decimals), c.fairValueUsdE18,
                           policy.toleranceBps)

------------------------------------------------------------------------------
(* The environment *)

\* An oracle publishes a round, dated by its own clock.
Publish(oracle, answer, decimals, updatedAt) ==
    /\ updatedAt \in now..now + 1
    /\ rounds' = [rounds EXCEPT ![oracle] =
          [answer |-> answer, decimals |-> decimals, updatedAt |-> updatedAt]]

Tick == now < Max64 /\ now' = now + 1

Next ==
    \/ \E token \in Tokens, policy \in FeedPolicies :
          SetFeedPolicy(token, policy) /\ UNCHANGED <<rounds, now>>
    \/ \E oracle \in Oracles, answer \in Answers, decimals \in Decimals, updatedAt \in 0..Max64 :
          Publish(oracle, answer, decimals, updatedAt) /\ UNCHANGED <<feedPolicyByToken, now>>
    \/ Tick /\ UNCHANGED <<feedPolicyByToken, rounds>>

AdapterSpec == Init /\ [][Next]_adapterVars

------------------------------------------------------------------------------
(* Properties *)

\* The true price of a round is Numerator / Denominator in USD E18.
Numerator(o) == rounds[o].answer * TenTo[WAD]
Denominator(o) == TenTo[rounds[o].decimals]

\* SPEC.md 9, "oracle-bound claims": whatever validate admits is, in exact
\* arithmetic, within toleranceBps of the true price; when _scaleToE18 rounds, by
\* less than one more unit of E18.
AdmittedClaimsAreClose ==
    \A c \in Claims : Validate(c) =>
        LET off == Distance(c.fairValueUsdE18 * Denominator(c.oracle), Numerator(c.oracle)) * BPS
            allowed == Numerator(c.oracle) * feedPolicyByToken[c.token].toleranceBps
        IN  IF rounds[c.oracle].decimals > WAD
            THEN off < allowed + BPS * Denominator(c.oracle)
            ELSE off <= allowed

\* No claim is refused for being exact: when policy and round admit a claim and it
\* equals the true price, the tolerance test passes at every decimals() and at a
\* tolerance of zero, unless the price itself is too large to be weighed.
ExactClaimsAreAdmitted ==
    \A c \in Claims :
        LET policy == feedPolicyByToken[c.token]
            round == rounds[c.oracle]
        IN  ( /\ policy.allowed /\ policy.oracle = c.oracle
              /\ c.maxDepositUsdE18 <= policy.maxBootstrapDepositUsdE18
              /\ round.answer > 0
              /\ round.updatedAt <= now /\ now <= round.updatedAt + policy.maxStalenessSecs
              /\ c.fairValueUsdE18 * Denominator(c.oracle) = Numerator(c.oracle)
              /\ c.fairValueUsdE18 * BPS <= Max256
              /\ TenTo[WAD] <= Max256 /\ TenTo[rounds[c.oracle].decimals] <= Max256 )
            => Validate(c)

===============================================================================
