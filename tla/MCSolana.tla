------------------------------- MODULE MCSolana -------------------------------
(***************************************************************************)
(* Instances of IntentGuardSolana for TLC.                                 *)
(***************************************************************************)
EXTENDS IntentGuardSolana

CONSTANTS k1, k2, k3

Config(signers, threshold, veto, fresh, cooloff, delay, lifetime) ==
    [threshold |-> threshold, veto_threshold |-> veto, fresh_window_secs |-> fresh,
     cooloff_secs |-> cooloff, execute_delay_secs |-> delay,
     min_proposal_lifetime_secs |-> lifetime, signers |-> signers]

\* One signer who approves and vetoes alone.
LoneArgs == {Config(<<k1>>, 1, 1, 1, 0, 1, 1)}

\* Cool-off and delay whose sum is no i64.
WrappingArgs == {Config(<<k1>>, 1, 1, 1, MaxI64, 1, 1)}

\* Two who approve together, veto together or not at all; signer lists that are empty,
\* repeated or too long, a veto of three, delays and lifetimes below zero, a lifetime
\* that ends after the last i64, delays whose sum does.
EdgeArgs ==
    {Config(signers, 2, veto, 1, cooloff, 1, lifetime) :
        signers \in {<<>>, <<k1, k2>>, <<k1, k1, k2>>, <<k1, k2, k3>>},
        veto \in {2, 3}, cooloff \in {-1, 1, MaxI64}, lifetime \in {-1, 1, MaxI64}}

AllArgs == LoneArgs \cup EdgeArgs

\* An attestation that an ed25519 instruction carries beside what it verifies.
OneCarried == {[signer |-> k1, signed_at |-> 0, expires_at |-> 1, ed25519 |-> "carried"]}

\* Far in the past, whose age is no i64, and ahead of the chain's first second.
Dates == {-MaxI64 - 1, 1}
==============================================================================
