-------------------------- MODULE IntentGuardModule --------------------------
(***************************************************************************)
(* contracts/IntentGuardModule.sol: the Safe module that lets a privileged *)
(* call through only after a quorum of fresh signatures, a public cool-off *)
(* and no veto.  One action per external function; a call that reverts     *)
(* changes nothing and is therefore not a step.                            *)
(*                                                                         *)
(* Hashes are modelled as what they are hashes of (collision-free), a      *)
(* signature as membership in the set of messages its signer has signed.   *)
(* uint64 and uint8 arithmetic is checked, as in Solidity 0.8: an addition *)
(* above Max64 or Max8 reverts.                                            *)
(***************************************************************************)
EXTENDS Naturals, FiniteSets, Sequences, Functions

CONSTANTS
    Vaults,         \* vault ids
    Safes,          \* Safe addresses that may initialise and own a vault
    Addresses,      \* the other non-zero accounts: signers and outsiders
    ZeroAddress,    \* address(0)
    Targets,        \* guarded contracts
    Payloads,       \* (value, calldata) pairs
    Adapters,       \* IActionAdapter contracts
    Intents,        \* canonical intents, as hashed by the adapters
    Undecodable,    \* what an adapter that reverts returns: no intent
    IntentOf,       \* <<adapter, target, payload>> -> intent or Undecodable
    InitArgs,       \* the argument tuples initializeVault is called with
    Max64,          \* type(uint64).max
    Max8,           \* type(uint8).max
    MaxSignatures,  \* bound: signatures ever produced
    ClockSkew,      \* bound: how far a signer's clock runs ahead of the chain
    SignAhead,      \* bound: how many nonces ahead a signer may sign
    AttestationTTLs \* bound: lifetimes signers give their attestations

Uint64 == 0..Max64
Uint8 == 0..Max8

InitArg ==
    [signers : Seq(Addresses \cup {ZeroAddress}),
     threshold : Uint8, vetoThreshold : Uint8,
     freshWindowSecs : Uint64, cooloffSecs : Uint64,
     executeDelaySecs : Uint64, minProposalLifetimeSecs : Uint64]

ASSUME SortsAssumption ==
    /\ ZeroAddress \notin Safes \cup Addresses
    /\ Undecodable \notin Intents
    /\ IntentOf \in [Adapters \X Targets \X Payloads -> Intents \cup {Undecodable}]
ASSUME WidthsAssumption == Max64 \in Nat /\ Max8 \in Nat
ASSUME InitArgsAssumption == InitArgs \subseteq InitArg
ASSUME BoundsAssumption ==
    /\ MaxSignatures \in Nat /\ ClockSkew \in Nat /\ SignAhead \in Nat
    /\ AttestationTTLs \subseteq Nat

\* The call a proposal is about, with the intent and the adapter it names.
Action ==
    [target : Targets, payload : Payloads, intentHash : Intents, adapter : Adapters]

\* keccak256(abi.encode(vaultId, nonce, target, value, dataHash, intentHash, adapter)):
\* the key of a proposal, and the fields its attestations are bound to.
ProposalId == [vaultId : Vaults, nonce : Uint64, action : Action]

\* The fields of a Proposal that its key does not already hold.
Proposal ==
    [queuedAt : Uint64, expiresAt : Uint64, cancelCount : Uint8,
     state : {"None", "Queued", "Cancelled", "Executed"}]

VaultConfig ==
    [safe : Safes \cup {ZeroAddress},
     freshWindowSecs : Uint64, cooloffSecs : Uint64,
     executeDelaySecs : Uint64, minProposalLifetimeSecs : Uint64,
     threshold : Uint8, vetoThreshold : Uint8,
     nonce : Uint64, initialized : BOOLEAN]

Signature == [signer : Addresses, id : ProposalId, signedAt : Uint64, expiresAt : Uint64]

SafeCall == [id : ProposalId, payload : Payloads, at : Uint64]

VARIABLES
    vaults,         \* [Vaults -> VaultConfig]
    isSigner,       \* isSigner[v]: the addresses mapped to true
    allowedAdapter, \* allowedAdapter[v]: the <<target, adapter>> pairs mapped to true
    proposals,      \* [ProposalId -> Proposal], a Solidity mapping: total, zero by default
    cancelledBy,    \* cancelledBy[id]: the addresses mapped to true
    now,            \* block.timestamp
    signatures,     \* external: everything ever signed
    safeCalls       \* external: safeCalls[v], the calls the Safe carried out for v

vars == <<vaults, isSigner, allowedAdapter, proposals, cancelledBy,
          now, signatures, safeCalls>>
storage == <<vaults, isSigner, allowedAdapter, proposals, cancelledBy>>

------------------------------------------------------------------------------
(* Initial state: the contract just deployed, every mapping zero.          *)

NoVault ==
    [safe |-> ZeroAddress, freshWindowSecs |-> 0, cooloffSecs |-> 0,
     executeDelaySecs |-> 0, minProposalLifetimeSecs |-> 0, threshold |-> 0,
     vetoThreshold |-> 0, nonce |-> 0, initialized |-> FALSE]

NoProposal == [queuedAt |-> 0, expiresAt |-> 0, cancelCount |-> 0, state |-> "None"]

Init ==
    /\ vaults = [v \in Vaults |-> NoVault]
    /\ isSigner = [v \in Vaults |-> {}]
    /\ allowedAdapter = [v \in Vaults |-> {}]
    /\ proposals = [id \in ProposalId |-> NoProposal]
    /\ cancelledBy = [id \in ProposalId |-> {}]
    /\ now = 0
    /\ signatures = {}
    /\ safeCalls = [v \in Vaults |-> <<>>]

------------------------------------------------------------------------------
(* initializeVault                                                         *)

ValidWindowsWithoutDelay(a) ==   \* mutant: the lifetime covers the cool-off only
    a.freshWindowSecs # 0 /\ a.minProposalLifetimeSecs >= a.cooloffSecs

\* cooloffSecs + executeDelaySecs is a checked uint64 addition.
ValidWindows(a) ==
    /\ a.freshWindowSecs # 0
    /\ a.cooloffSecs + a.executeDelaySecs <= Max64
    /\ a.minProposalLifetimeSecs >= a.cooloffSecs + a.executeDelaySecs

ValidThresholds(a) ==
    /\ a.threshold # 0 /\ a.threshold <= Len(a.signers)
    /\ a.vetoThreshold # 0 /\ a.vetoThreshold <= Len(a.signers)

SignersUnmarked(signers, marked) ==   \* mutant: a signer may be named twice
    ZeroAddress \notin Range(signers)

\* The loop over signers reverts at a zero address or at one already marked.
ValidSigners(signers, marked) ==
    /\ Range(signers) \cap ({ZeroAddress} \cup marked) = {}
    /\ IsInjective(signers)

InitializeVault(v, safe, a) ==
    /\ ~vaults[v].initialized
    /\ ValidThresholds(a)
    /\ ValidWindows(a)
    /\ ValidSigners(a.signers, isSigner[v])
    /\ vaults' = [vaults EXCEPT ![v] =
          [safe |-> safe,
           freshWindowSecs |-> a.freshWindowSecs,
           cooloffSecs |-> a.cooloffSecs,
           executeDelaySecs |-> a.executeDelaySecs,
           minProposalLifetimeSecs |-> a.minProposalLifetimeSecs,
           threshold |-> a.threshold,
           vetoThreshold |-> a.vetoThreshold,
           nonce |-> 0,
           initialized |-> TRUE]]
    /\ isSigner' = [isSigner EXCEPT ![v] = @ \cup Range(a.signers)]
    /\ UNCHANGED <<allowedAdapter, proposals, cancelledBy, now, signatures, safeCalls>>

------------------------------------------------------------------------------
(* setAdapter, called by the Safe itself or from a call it executes.       *)

SetAdapter(caller, v, target, adapter, allowed) ==
    /\ caller = vaults[v].safe
    /\ allowedAdapter' = [allowedAdapter EXCEPT ![v] =
          IF allowed THEN @ \cup {<<target, adapter>>} ELSE @ \ {<<target, adapter>>}]
    /\ UNCHANGED <<vaults, isSigner, proposals, cancelledBy, now, signatures, safeCalls>>

------------------------------------------------------------------------------
(* queue                                                                   *)

\* _attestationDigest and _recover: the signer signed these fields.
Recovers(id, att) ==
    [signer |-> att.signer, id |-> id,
     signedAt |-> att.signedAt, expiresAt |-> att.expiresAt] \in signatures

\* _verifyAttestation: a signer of the vault, within its own expiry and the
\* proposal's, not from the future, inside the freshness window, and over the
\* digest of this proposal at the vault's current nonce.
VerifyAttestation(id, proposalExpiresAt, att) ==
    /\ att.signer \in isSigner[id.vaultId]
    /\ att.expiresAt >= now /\ att.expiresAt <= proposalExpiresAt
    /\ att.signedAt <= now
    /\ now - att.signedAt <= vaults[id.vaultId].freshWindowSecs
    /\ Recovers(id, att)

SignersMayRepeat(atts) == TRUE   \* mutant: signers not required to ascend

\* The calldata array is strictly ascending by signer: as a set, one
\* attestation for each of its signers.
OnePerSigner(atts) == \A a, b \in atts : a.signer = b.signer => a = b

\* newest - oldest <= freshWindowSecs
SpreadWithin(atts, window) == \A a, b \in atts : a.signedAt <= b.signedAt + window

VerifyAttestations(id, proposalExpiresAt, atts) ==
    /\ Cardinality(atts) >= vaults[id.vaultId].threshold
    /\ OnePerSigner(atts)
    /\ \A att \in atts : VerifyAttestation(id, proposalExpiresAt, att)
    /\ SpreadWithin(atts, vaults[id.vaultId].freshWindowSecs)

\* What a submitter can put in calldata: attestations taken from signatures.
Presentable ==
    {[signer |-> s.signer, signedAt |-> s.signedAt, expiresAt |-> s.expiresAt] :
        s \in signatures}

IdAtCurrentNonce(v, action) ==
    [vaultId |-> v, nonce |-> vaults[v].nonce, action |-> action]

NotQueuedNow(id) == proposals[id].state # "Queued"   \* mutant: reopens what is settled

Unused(id) == proposals[id].state = "None"

StoredWithDelay(id, proposalExpiresAt) ==   \* mutant: the delay added to the expiry
    [proposals EXCEPT ![id] =
        [@ EXCEPT !.queuedAt = now,
                  !.expiresAt = proposalExpiresAt + vaults[id.vaultId].executeDelaySecs,
                  !.state = "Queued"]]

\* The proposal as queue stores it.
StoredProposal(id, proposalExpiresAt) ==
    [proposals EXCEPT ![id] =
        [@ EXCEPT !.queuedAt = now,
                  !.expiresAt = proposalExpiresAt,
                  !.state = "Queued"]]

Queue(v, action, proposalExpiresAt, atts) ==
    LET id == IdAtCurrentNonce(v, action)
    IN  /\ vaults[v].initialized
        /\ <<action.target, action.adapter>> \in allowedAdapter[v]
        /\ proposalExpiresAt >= now + vaults[v].minProposalLifetimeSecs
        /\ IntentOf[<<action.adapter, action.target, action.payload>>] = action.intentHash
        /\ VerifyAttestations(id, proposalExpiresAt, atts)
        /\ Unused(id)
        /\ proposals' = StoredProposal(id, proposalExpiresAt)
        /\ UNCHANGED <<vaults, isSigner, allowedAdapter, cancelledBy,
                       now, signatures, safeCalls>>

------------------------------------------------------------------------------
(* cancel: open to every signer for as long as the proposal is queued.     *)

IsStored(id) == proposals[id].state # "None"   \* mutant: also what is settled

IsQueued(id) == proposals[id].state = "Queued"

MayCancelTwice(id, s) == s \in isSigner[id.vaultId]   \* mutant: no cancelledBy check

MayCancel(id, s) == s \in isSigner[id.vaultId] /\ s \notin cancelledBy[id]

Cancel(id, s) ==
    /\ IsQueued(id)
    /\ MayCancel(id, s)
    /\ proposals[id].cancelCount + 1 <= Max8
    /\ cancelledBy' = [cancelledBy EXCEPT ![id] = @ \cup {s}]
    /\ proposals' = [proposals EXCEPT
          ![id].cancelCount = @ + 1,
          ![id].state = IF proposals[id].cancelCount + 1 >= vaults[id.vaultId].vetoThreshold
                        THEN "Cancelled" ELSE @]
    /\ UNCHANGED <<vaults, isSigner, allowedAdapter, now, signatures, safeCalls>>

------------------------------------------------------------------------------
(* execute: anyone supplies the calldata again; the adapter's validate and *)
(* the Safe may revert, which undoes the whole call.                       *)

ExecuteAfter(id) ==
    proposals[id].queuedAt + vaults[id.vaultId].cooloffSecs
                           + vaults[id.vaultId].executeDelaySecs

AnyNonce(id) == id.nonce \in Uint64   \* mutant: no nonce check

NonceMatches(id) == id.nonce = vaults[id.vaultId].nonce

CooledOffOnly(id) ==   \* mutant: the execute delay is not waited for
    now >= proposals[id].queuedAt + vaults[id.vaultId].cooloffSecs

\* The sum of three uint64 is checked.
CooledOff(id) == ExecuteAfter(id) <= Max64 /\ now >= ExecuteAfter(id)

AnyData(id, payload) == payload \in Payloads   \* mutant: no data hash check

DataMatches(id, payload) == payload = id.action.payload

Execute(id, payload) ==
    /\ IsQueued(id)
    /\ NonceMatches(id)
    /\ proposals[id].expiresAt >= now
    /\ DataMatches(id, payload)
    /\ CooledOff(id)
    /\ vaults[id.vaultId].nonce + 1 <= Max64
    /\ proposals' = [proposals EXCEPT ![id].state = "Executed"]
    /\ vaults' = [vaults EXCEPT ![id.vaultId].nonce = @ + 1]
    /\ safeCalls' = [safeCalls EXCEPT ![id.vaultId] =
          Append(@, [id |-> id, payload |-> payload, at |-> now])]
    /\ UNCHANGED <<isSigner, allowedAdapter, cancelledBy, now, signatures>>

------------------------------------------------------------------------------
(* The environment: signer clients and the chain's clock.                  *)

\* signer-cli: an account signs the digest of an action under a nonce it read
\* (or expects), dated by its own clock.  Signatures are never unmade.
Sign(s, v, action, nonce, signedAt, ttl) ==
    /\ Cardinality(signatures) < MaxSignatures
    /\ nonce \in vaults[v].nonce .. vaults[v].nonce + SignAhead
    /\ signedAt \in now .. now + ClockSkew
    /\ signedAt + ttl <= Max64
    /\ signatures' = signatures \cup
          {[signer |-> s,
            id |-> [vaultId |-> v, nonce |-> nonce, action |-> action],
            signedAt |-> signedAt, expiresAt |-> signedAt + ttl]}
    /\ UNCHANGED <<storage, now, safeCalls>>

\* Blocks carry a uint64 timestamp.
Tick ==
    /\ now < Max64
    /\ now' = now + 1
    /\ UNCHANGED <<storage, signatures, safeCalls>>

Next ==
    \/ \E v \in Vaults, safe \in Safes, a \in InitArgs : InitializeVault(v, safe, a)
    \/ \E caller \in Safes, v \in Vaults, target \in Targets, adapter \in Adapters,
          allowed \in BOOLEAN : SetAdapter(caller, v, target, adapter, allowed)
    \/ \E v \in Vaults, action \in Action, expiresAt \in Uint64,
          atts \in SUBSET Presentable : Queue(v, action, expiresAt, atts)
    \/ \E id \in ProposalId, s \in Addresses : Cancel(id, s)
    \/ \E id \in ProposalId, payload \in Payloads : Execute(id, payload)
    \/ \E s \in Addresses, v \in Vaults, action \in Action, nonce \in Uint64,
          signedAt \in Uint64, ttl \in AttestationTTLs :
             Sign(s, v, action, nonce, signedAt, ttl)
    \/ Tick

Spec == Init /\ [][Next]_vars

------------------------------------------------------------------------------
(* Properties *)

\* Every variable has its type: no stored uint64 or uint8 leaves its range.
TypeOK ==
    /\ vaults \in [Vaults -> VaultConfig]
    /\ isSigner \in [Vaults -> SUBSET Addresses]
    /\ allowedAdapter \in [Vaults -> SUBSET (Targets \X Adapters)]
    /\ proposals \in [ProposalId -> Proposal]
    /\ cancelledBy \in [ProposalId -> SUBSET Addresses]
    /\ now \in Uint64
    /\ signatures \subseteq Signature
    /\ safeCalls \in [Vaults -> Seq(SafeCall)]

\* A signature that could have backed the proposal when it was queued: by a
\* signer of its vault, over exactly its fields, fresh then and not yet expired.
Backs(sig, id) ==
    /\ sig.id = id
    /\ sig.signer \in isSigner[id.vaultId]
    /\ sig.signedAt <= proposals[id].queuedAt
    /\ proposals[id].queuedAt - sig.signedAt <= vaults[id.vaultId].freshWindowSecs
    /\ proposals[id].queuedAt <= sig.expiresAt
    /\ sig.expiresAt <= proposals[id].expiresAt

Backers(id) == {s \in isSigner[id.vaultId] :
                  \E sig \in signatures : sig.signer = s /\ Backs(sig, id)}

\* SPEC.md 3.4, 3.5: behind everything that was ever queued stand at least
\* threshold distinct signers of that vault who signed that very proposal, at
\* that nonce, within the freshness window before it was queued (queue,
\* _verifyAttestations).  Signatures live forever, so an old one, one for another
\* vault or nonce, or one counted twice would break this.
QueuedWithFreshQuorum ==
    \A id \in ProposalId : proposals[id].state # "None" =>
        Cardinality(Backers(id)) >= vaults[id.vaultId].threshold

\* SPEC.md 3.8: the Safe has carried out exactly one call per nonce, in nonce
\* order, and a proposal is Executed exactly when its call is among them; so
\* competing proposals of one nonce never both run (execute, BadNonce).
CallsAreSerial ==
    \A v \in Vaults :
        /\ Len(safeCalls[v]) = vaults[v].nonce
        /\ \A i \in DOMAIN safeCalls[v] :
              /\ safeCalls[v][i].id.vaultId = v
              /\ safeCalls[v][i].id.nonce = i - 1
        /\ \A id \in ProposalId : id.vaultId = v =>
              (proposals[id].state = "Executed"
                 <=> \E i \in DOMAIN safeCalls[v] : safeCalls[v][i].id = id)

\* SPEC.md 3.3: the calldata that reaches the Safe is the one the quorum signed,
\* and its adapter decodes it to the intent in that signature (queue checks the
\* intent, execute the hash of data supplied a second time).
CallsAreAsReviewed ==
    \A v \in Vaults : \A i \in DOMAIN safeCalls[v] :
        LET c == safeCalls[v][i]
            a == c.id.action
        IN  /\ IntentOf[<<a.adapter, a.target, c.payload>>] = a.intentHash
            /\ \E quorum \in SUBSET isSigner[v] :
                  /\ Cardinality(quorum) >= vaults[v].threshold
                  /\ \A s \in quorum : \E sig \in signatures :
                        /\ sig.signer = s /\ Backs(sig, c.id)
                        /\ sig.id.action.payload = c.payload

\* Between initializeVault's configuration check and queue's expiry check, every
\* queued proposal has a moment at which execute's time guards both hold, and
\* that moment is a uint64: execute cannot be stuck on an overflow or an expiry
\* that precedes the end of the delays.
ExecutionWindowIsOpen ==
    \A id \in ProposalId : proposals[id].state # "None" =>
        /\ ExecuteAfter(id) <= proposals[id].expiresAt
        /\ proposals[id].queuedAt <= now

\* SPEC.md 3.6: every call came after its whole cool-off and delay and before the
\* proposal's expiry, whatever happened to the proposal record since.
CallsRespectTheirWindow ==
    \A v \in Vaults : \A i \in DOMAIN safeCalls[v] :
        LET c == safeCalls[v][i]
        IN  /\ ExecuteAfter(c.id) <= c.at
            /\ c.at <= proposals[c.id].expiresAt

\* SPEC.md 3.7 and 6: cancelCount counts distinct signers of the proposal's own
\* vault, and the proposal is Cancelled exactly when vetoThreshold of them have
\* cancelled it.
VetoCountsDistinctSigners ==
    \A id \in ProposalId :
        /\ cancelledBy[id] \subseteq isSigner[id.vaultId]
        /\ proposals[id].cancelCount = Cardinality(cancelledBy[id])
        /\ proposals[id].state = "Cancelled" <=>
              /\ vaults[id.vaultId].initialized
              /\ proposals[id].cancelCount >= vaults[id.vaultId].vetoThreshold

\* The signers who have not cancelled a queued proposal yet are always enough to
\* complete the veto, so a vault is never queued to without a veto (BadConfig on
\* duplicate signers and on vetoThreshold > signers.length).
VetoStaysInReach ==
    \A id \in ProposalId : proposals[id].state = "Queued" =>
        Cardinality(isSigner[id.vaultId] \ cancelledBy[id]) + proposals[id].cancelCount
            >= vaults[id.vaultId].vetoThreshold

\* "permanently cancelled" (SPEC.md section 6): a settled proposal never changes
\* again, and a queued one keeps the times it was queued with, even though the
\* same proposal can be submitted again with fresh signatures (queue, BadState).
SettledIsFinal ==
    [][\A id \in ProposalId :
         /\ proposals[id].state \in {"Cancelled", "Executed"} =>
               proposals'[id] = proposals[id]
         /\ proposals[id].state = "Queued" =>
               /\ proposals'[id].queuedAt = proposals[id].queuedAt
               /\ proposals'[id].expiresAt = proposals[id].expiresAt]_vars

\* The module does what the deployment promises, independent of the chain.
InState(s) == {id \in ProposalId : proposals[id].state = s}

LogOf(calls) == [i \in 1..Len(calls) |-> calls[i].id]

Promise == INSTANCE GuardedExecution WITH
    Proposals <- ProposalId,
    queued <- InState("Queued"),
    vetoed <- InState("Cancelled"),
    log <- [v \in Vaults |-> LogOf(safeCalls[v])]

RefinesPromise == Promise!Spec

------------------------------------------------------------------------------
(* What a document says of the module and the code does not do. *)

\* SPEC.md:58-69: "An intent hash must bind [...] proposal expiry": the expiry of a
\* proposal is one that each of its backers put a signature to.
ExpiryIsWhatWasSigned ==
    \A id \in ProposalId : proposals[id].state # "None" =>
        Cardinality({s \in isSigner[id.vaultId] : \E sig \in signatures :
            sig.signer = s /\ Backs(sig, id) /\ sig.expiresAt = proposals[id].expiresAt})
          >= vaults[id.vaultId].threshold

------------------------------------------------------------------------------
(* The facts about stored records that make the invariants above inductive. *)

VaultRecords ==
    \A v \in Vaults :
        /\ IsFiniteSet(isSigner[v])
        /\ ~vaults[v].initialized => isSigner[v] = {} /\ vaults[v].nonce = 0
        /\ vaults[v].initialized =>
              /\ vaults[v].cooloffSecs + vaults[v].executeDelaySecs
                    <= vaults[v].minProposalLifetimeSecs
              /\ vaults[v].threshold # 0 /\ vaults[v].vetoThreshold # 0
              /\ vaults[v].threshold <= Cardinality(isSigner[v])
              /\ vaults[v].vetoThreshold <= Cardinality(isSigner[v])

ProposalRecords ==
    \A id \in ProposalId :
        proposals[id].state # "None" => vaults[id.vaultId].initialized

Records == TypeOK /\ VaultRecords /\ ProposalRecords

==============================================================================
