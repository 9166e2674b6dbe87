------------------------------ MODULE MCFirmware ------------------------------
(***************************************************************************)
(* Instances of AttesterFirmware for TLC.                                  *)
(***************************************************************************)
EXTENDS AttesterFirmware, TLC

CONSTANTS id1, id2, vault, bodyA, bodyB

\* action_args of action kinds 1 and 3 have 80 and 32 bytes.
KindLengths == 1 :> 80 @@ 3 :> 32

\* The display abbreviates: the two bodies of kind 3 look alike.
ShortLines == [x \in Kinds \X Bodies |-> IF x[1] = 3 THEN <<x[1]>> ELSE x]

ProposalOf(id, nonce, kind, length, body, hashed) ==
    [id |-> id, network |-> "evm", vault |-> vault, nonce |-> nonce, kind |-> kind,
     args |-> [length |-> length, body |-> body],
     hash |-> CanonicalIntentHash("evm", vault, nonce, kind, Canonical(kind, hashed))]

\* Proposals with ids of their own; under id1 also another nonce, another body that looks
\* the same, and every way to be refused.
MixedProposals ==
    {ProposalOf(id, 0, 3, 32, bodyA, bodyA) : id \in Ids}
      \cup {ProposalOf(id1, 1, 3, 32, bodyB, bodyB),
            ProposalOf(id1, 0, 1, 80, bodyA, bodyB), ProposalOf(id1, 0, 1, 32, bodyA, bodyA),
            ProposalOf(id1, 0, 2, 80, bodyA, bodyA), ProposalOf(id1, 0, 1, 2000, bodyA, bodyA)}
===============================================================================
