------------------------------ MODULE MCAdapter ------------------------------
(***************************************************************************)
(* An instance of SignerReview for TLC: E18 has two decimals, E8 has one,  *)
(* a whole has ten basis points.                                           *)
(***************************************************************************)
EXTENDS SignerReview, TLC

CONSTANTS t1, o1

SomeAnswers == {-1, 0, 1, 7, 8, 10, 100}

Policy(oracle, tolerance, allowed) ==
    [oracle |-> oracle, maxStalenessSecs |-> 1, toleranceBps |-> tolerance,
     maxBootstrapDepositUsdE18 |-> 1, allowed |-> allowed]

\* No tolerance to more than a whole, no oracle, not allowed; a cap of one.
SomePolicies ==
    {Policy(o1, tol, TRUE) : tol \in {0, 3, BPS, BPS + 1}}
      \cup {Policy(ZeroAddress, 3, TRUE), Policy(o1, 3, FALSE)}

\* Claims from worthless to far above any price, some above the cap.
AllClaims ==
    {[token |-> t1, oracle |-> o, fairValueUsdE18 |-> fair, maxDepositUsdE18 |-> deposit] :
        o \in Oracles,
        fair \in 0..8 \cup {10, 13, 20, 80, 90, 100, 120, 130, 200},
        deposit \in {1, 2}}
===============================================================================
