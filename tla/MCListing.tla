------------------------------ MODULE MCListing ------------------------------
(***************************************************************************)
(* Instances of CollateralListingAdapter and GuardedListing for TLC.       *)
(***************************************************************************)
EXTENDS GuardedListing, TLC

CONSTANTS s1, t1, o1

\* A signer who approves and vetoes alone; calls wait one second.
LoneArgs ==
    {[signers |-> <<s1>>, threshold |-> 1, vetoThreshold |-> 1, freshWindowSecs |-> 1,
      cooloffSecs |-> 0, executeDelaySecs |-> 1, minProposalLifetimeSecs |-> 1]}

Policy(oracle, staleness, tolerance, cap) ==
    [oracle |-> oracle, maxStalenessSecs |-> staleness, toleranceBps |-> tolerance,
     maxBootstrapDepositUsdE18 |-> cap, allowed |-> TRUE]

ListingClaim(oracle, fair, deposit) ==
    [token |-> t1, oracle |-> oracle, fairValueUsdE18 |-> fair, maxDepositUsdE18 |-> deposit]

\* Two claims of which at most one is near the market, a policy and one for another
\* oracle.
TwoClaims == {ListingClaim(o1, 10, 1), ListingClaim(o1, 20, 1)}
TwoPolicies == {Policy(o1, 1, 1, 1), Policy(ZeroAddress, 1, 1, 1)}
===============================================================================
