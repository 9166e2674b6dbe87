---------------------------- MODULE MCIntentGuard ----------------------------
(***************************************************************************)
(* Instances of IntentGuardModule for TLC.                                 *)
(***************************************************************************)
EXTENDS IntentGuardModule, TLC

CONSTANTS s1, s2, s3, i1, i2, a1, t1, p1, p2

Config(signers, threshold, veto, fresh, cooloff, delay, lifetime) ==
    [signers |-> signers, threshold |-> threshold, vetoThreshold |-> veto,
     freshWindowSecs |-> fresh, cooloffSecs |-> cooloff,
     executeDelaySecs |-> delay, minProposalLifetimeSecs |-> lifetime]

\* A single signer, who approves and vetoes alone.
LoneArgs == {Config(<<s1>>, 1, 1, 1, 0, 1, 1)}

\* Configurations that are rejected, by one guard of initializeVault each, and two that
\* are not: duplicate and zero signers, a veto threshold of zero, a lifetime shorter than
\* the delays, delays whose sum overflows, a zero freshness window.
EdgeArgs ==
    {Config(signers, 2, veto, fresh, cooloff, 1, lifetime) :
        signers \in {<<s1, s2, s3>>, <<s1, s1, s2>>, <<s1, s2, ZeroAddress>>},
        veto \in {0, 2, 3}, fresh \in {0, 1}, cooloff \in {1, Max64}, lifetime \in {1, 2}}

AllArgs == LoneArgs \cup EdgeArgs

\* The adapter decodes each payload to its own intent.
EachItsOwn == (<<a1, t1, p1>> :> i1) @@ (<<a1, t1, p2>> :> i2)

SignerSymmetry == Permutations(Addresses)
==============================================================================
