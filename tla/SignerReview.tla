------------------------------ MODULE SignerReview ------------------------------
(***************************************************************************)
(* clients/signer-cli.ts: the signer reviews a proposal, is warned when    *)
(* its claim is far from the oracle, and types the name of the action to   *)
(* sign it.  The chain weighs the same claim when the call is executed     *)
(* (CollateralListingAdapter), with another rule: the review measures the  *)
(* distance in parts of the claim, the adapter in parts of the price.      *)
(*                                                                         *)
(* fetchProposal is a sketch in the code; here it reports a claim and what *)
(* its oracle answered last, both in E8, or no oracle fields.              *)
(***************************************************************************)
EXTENDS CollateralListingAdapter, FiniteSets

CONSTANTS
    E8,             \* 8, the decimals of claimedValueE8 and liveValueE8
    WarnBps,        \* 200
    MaxReviews      \* bound: signatures produced

ASSUME ReviewBounds ==
    /\ E8 \in 0..WAD /\ WarnBps \in Nat /\ WarnBps + 1 < BPS
    /\ MaxReviews \in Nat

VARIABLES
    review,         \* what is on the screen: <<review>>, or nothing
    signed          \* history: the reviews that ended in a signature

reviewVars == <<adapterVars, review, signed>>

ReviewInit == Init /\ review = <<>> /\ signed = {}

\* Claims that E8 can say, about oracles that answer in E8.
E18PerE8 == TenTo[WAD - E8]
IsReviewable(c) == c.fairValueUsdE18 % E18PerE8 = 0 /\ rounds[c.oracle].decimals = E8

OneSided(claimed, live) == claimed - live   \* mutant: below the price nothing is off

Diff(claimed, live) == IF claimed > live THEN claimed - live ELSE live - claimed

\* printOracleWarning: BigInt division drops the fraction.
Bps(claimed, live) == (Diff(claimed, live) * BPS) \div claimed

Warns(claimed, live) == Bps(claimed, live) > WarnBps

\* fetchProposal, printProposal and printOracleWarning.  A claim of zero divides by zero
\* and ends the command; without oracle fields nothing is compared.
Fetch(c, hasOracle) ==
    LET claimed == c.fairValueUsdE18 \div E18PerE8
        live == rounds[c.oracle].answer
    IN  /\ review = <<>> /\ Cardinality(signed) < MaxReviews
        /\ IsReviewable(c)
        /\ hasOracle => claimed # 0
        /\ review' = <<[oracle |-> c.oracle, claimed |-> claimed,
                        live |-> IF hasOracle THEN <<live>> ELSE <<>>,
                        warned |-> hasOracle /\ Warns(claimed, live)]>>
        /\ UNCHANGED <<adapterVars, signed>>

\* The answer is the action's name in capitals: signProposal.
Sign ==
    /\ review # <<>>
    /\ signed' = signed \cup {review[1]}
    /\ review' = <<>>
    /\ UNCHANGED adapterVars

\* It is anything else.
Abort ==
    /\ review # <<>>
    /\ review' = <<>>
    /\ UNCHANGED <<adapterVars, signed>>

ReviewNext ==
    \/ \E c \in Claims, hasOracle \in BOOLEAN : Fetch(c, hasOracle)
    \/ Sign
    \/ Abort
    \/ Next /\ UNCHANGED <<review, signed>>

ReviewSpec == ReviewInit /\ [][ReviewNext]_reviewVars

------------------------------------------------------------------------------
(* Properties *)

\* The two rules agree up to what their different denominators explain.  What was signed
\* without a warning is, as long as the answer it was reviewed with stands, within every
\* tolerance of at least (WarnBps + 1) / (BPS - WarnBps - 1) of the price, 205.2 bps on
\* the chain for the 200 of the review, unless the products overflow there.  What was signed against a warning is outside
\* every tolerance below (WarnBps + 1) / (BPS + WarnBps + 1): 197.1 bps.
WarningsForetellTheChain ==
    \A s \in signed :
        rounds[s.oracle].decimals = E8 /\ s.live = <<rounds[s.oracle].answer>> =>
        LET price == ScaleToE18(rounds[s.oracle].answer, E8)
            fairValue == s.claimed * E18PerE8
            weighable == price * BPS <= Max256 /\ Distance(price, fairValue) * BPS <= Max256
        IN  \A tolerance \in 0..BPS :
                /\ ~s.warned /\ tolerance * (BPS - WarnBps - 1) >= (WarnBps + 1) * BPS /\ weighable
                     => WithinTolerance(price, fairValue, tolerance)
                /\ s.warned /\ tolerance * (BPS + WarnBps + 1) < (WarnBps + 1) * BPS
                     => ~WithinTolerance(price, fairValue, tolerance)

===============================================================================
