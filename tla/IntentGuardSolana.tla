-------------------------- MODULE IntentGuardSolana --------------------------
(***************************************************************************)
(* solana/programs/intentguard/src/lib.rs: the Anchor program that guards  *)
(* a protocol authority on Solana.  One action per instruction; a failing  *)
(* transaction changes nothing and is not a step.                          *)
(*                                                                         *)
(* A vault lives in a PDA derived from its authority and a proposal in one *)
(* derived from its vault and nonce, so both are addressed by what they    *)
(* are derived from.  Hashes stand for what they are hashes of.  Seconds   *)
(* are i64: with overflow checks an overflow panics, without it wraps.     *)
(***************************************************************************)
EXTENDS Integers, FiniteSets, Sequences, SequencesExt

CONSTANTS
    Vaults,            \* vault PDAs, one per authority
    Keys,              \* wallet keys: signers and outsiders
    Programs,          \* target programs
    Adapters,          \* adapter accounts
    Intents,           \* intent hashes
    Data,              \* instruction data
    NoAccount,         \* a PDA that is not initialised yet
    InitArgs,          \* the argument tuples init_vault is called with
    MAX_SIGNERS, MAX_CANCELLERS,
    MaxI64,            \* i64::MAX; i64::MIN is -MaxI64 - 1
    MaxU64, MaxU8,     \* u64::MAX, u8::MAX
    OverflowChecks,    \* whether the build panics on overflow
    MaxTime,           \* bound: the last block time
    MaxSignatures,     \* bound: signatures ever produced
    SigningDates,      \* bound: signed_at, as the signers write it
    SigningExpiries,   \* bound: expires_at, as the signers write it
    Carriable,         \* bound: attestations whose ed25519 instruction only carries them
    Forwardable        \* bound: accounts that can follow the target program

I64 == (-MaxI64 - 1)..MaxI64
U64 == 0..MaxU64
U8 == 0..MaxU8

InitArg ==
    [threshold : U8, veto_threshold : U8, fresh_window_secs : I64, cooloff_secs : I64,
     execute_delay_secs : I64, min_proposal_lifetime_secs : I64, signers : Seq(Keys)]

\* What an instruction is about; its adapter is named but not consulted.
Action == [target_program : Programs, adapter : Adapters,
           intent_hash : Intents, instruction_data_hash : Data]

Vault ==
    [threshold : U8, veto_threshold : U8, fresh_window_secs : I64, cooloff_secs : I64,
     execute_delay_secs : I64, min_proposal_lifetime_secs : I64,
     nonce : U64, signers : Seq(Keys)]

Proposal ==
    [action : Action, queued_at : I64, expires_at : I64, cancel_count : U8,
     cancellers : Seq(Keys), state : {"Queued", "Cancelled", "Executed"}]

\* The PDA of a proposal: seeds "proposal", vault, nonce.
Slot == [vaultId : Vaults, nonce : U64]

Signature == [signer : Keys, slot : Slot, action : Action, signed_at : I64, expires_at : I64]

\* ed25519 says what the instruction at ed25519_instruction_index does: verify this
\* very signature, or carry signer, signature and message beside what it verifies.
Attestation == [signer : Keys, signed_at : I64, expires_at : I64, ed25519 : {"verified", "carried"}]

Cpi == [slot : Slot, program : Programs, data : Data, accounts : SUBSET (Keys \cup Vaults),
        signers : SUBSET (Keys \cup Vaults), at : I64]

ASSUME WidthAssumption ==
    /\ MaxI64 \in Nat /\ MaxU64 \in Nat /\ MaxU8 \in Nat
    /\ MaxTime \in Nat /\ MaxTime <= MaxI64
    /\ OverflowChecks \in BOOLEAN
ASSUME LimitAssumption ==
    /\ MAX_SIGNERS \in Nat /\ MAX_CANCELLERS \in Nat
    /\ MAX_SIGNERS <= MAX_CANCELLERS /\ MAX_CANCELLERS <= MaxU8
ASSUME ArgsAssumption == InitArgs \subseteq InitArg
ASSUME SortAssumption ==
    /\ NoAccount \notin Vault \cup Proposal
    /\ Keys \cap Vaults = {}
    /\ Forwardable \subseteq Keys \cup Vaults
ASSUME BoundAssumption ==
    /\ MaxSignatures \in Nat
    /\ SigningDates \subseteq I64 /\ SigningExpiries \subseteq I64
    /\ Carriable \subseteq {att \in Attestation : att.ed25519 = "carried"}

VARIABLES
    vaults,        \* [Vaults -> Vault or NoAccount]
    proposals,     \* [Slot -> Proposal or NoAccount]
    unix_timestamp,\* the Clock sysvar
    signatures,    \* external: everything ever signed
    vouched,       \* external: the slots whose attestations were all verified
    cpis           \* external: cpis[v], the instructions invoked for vault v

vars == <<vaults, proposals, unix_timestamp, signatures, vouched, cpis>>

Init ==
    /\ vaults = [v \in Vaults |-> NoAccount]
    /\ proposals = [s \in Slot |-> NoAccount]
    /\ unix_timestamp = 0
    /\ signatures = {}
    /\ vouched = {}
    /\ cpis = [v \in Vaults |-> <<>>]

------------------------------------------------------------------------------
(* i64 arithmetic *)

\* Two's complement, for sums of up to two overflows.
Wrap(x) == ((x + MaxI64 + 1) % (2 * (MaxI64 + 1))) - (MaxI64 + 1)

\* The expression does not panic in this build.
Defined(x) == OverflowChecks => x \in I64

------------------------------------------------------------------------------
(* init_vault *)

WindowsWithoutLifetime(a) ==   \* mutant: no minimum lifetime
    a.fresh_window_secs > 0

ValidWindows(a) ==
    /\ a.fresh_window_secs > 0
    /\ Defined(a.cooloff_secs + a.execute_delay_secs)
    /\ a.min_proposal_lifetime_secs >= Wrap(a.cooloff_secs + a.execute_delay_secs)

SignersUnlimited(signers) ==   \* mutant: no MAX_SIGNERS
    signers # <<>> /\ IsInjective(signers)

ValidSigners(signers) ==
    /\ signers # <<>>
    /\ Len(signers) <= MAX_SIGNERS
    /\ IsInjective(signers)

ValidThresholds(a) ==
    /\ a.threshold > 0 /\ a.threshold <= Len(a.signers)
    /\ a.veto_threshold > 0 /\ a.veto_threshold <= Len(a.signers)

\* The vault account is `init`: it must not exist.  The authority does not sign.
InitVault(v, a) ==
    /\ vaults[v] = NoAccount
    /\ ValidSigners(a.signers)
    /\ ValidThresholds(a)
    /\ ValidWindows(a)
    /\ vaults' = [vaults EXCEPT ![v] =
          [threshold |-> a.threshold,
           veto_threshold |-> a.veto_threshold,
           fresh_window_secs |-> a.fresh_window_secs,
           cooloff_secs |-> a.cooloff_secs,
           execute_delay_secs |-> a.execute_delay_secs,
           min_proposal_lifetime_secs |-> a.min_proposal_lifetime_secs,
           nonce |-> 0,
           signers |-> a.signers]]
    /\ UNCHANGED <<proposals, unix_timestamp, signatures, vouched, cpis>>

------------------------------------------------------------------------------
(* queue_proposal *)

SlotAtNonce(v) == [vaultId |-> v, nonce |-> vaults[v].nonce]

IsSigned(slot, action, att) ==
    [signer |-> att.signer, slot |-> slot, action |-> action,
     signed_at |-> att.signed_at, expires_at |-> att.expires_at] \in signatures

VerifiesAnySlot(slot, action, att) ==   \* mutant: the message leaves out the nonce
    att.ed25519 = "verified" =>
        \E n \in U64 : IsSigned([slot EXCEPT !.nonce = n], action, att)

\* verify_ed25519_instruction looks for the bytes of signer, signature and message
\* anywhere in an ed25519 instruction.  That one verifies what its own header points
\* to: only where this is the attestation has the signer signed the message.
Ed25519Verifies(slot, action, att) ==
    att.ed25519 = "verified" => IsSigned(slot, action, att)

VerifyAttestation(slot, action, expires_at, att) ==
    LET vault == vaults[slot.vaultId]
    IN  /\ Contains(vault.signers, att.signer)
        /\ att.expires_at >= unix_timestamp
        /\ att.expires_at <= expires_at
        /\ att.signed_at <= unix_timestamp
        /\ Defined(unix_timestamp - att.signed_at)
        /\ Wrap(unix_timestamp - att.signed_at) <= vault.fresh_window_secs
        /\ Ed25519Verifies(slot, action, att)

\* `seen` refuses a second attestation of a signer.
OnePerSigner(atts) == \A a, b \in atts : a.signer = b.signer => a = b

\* newest starts at 0; there is at least one attestation.
SpreadWithin(atts, window) ==
    LET times == {a.signed_at : a \in atts}
        spread == Max(times \cup {0}) - Min(times)
    IN  Defined(spread) /\ Wrap(spread) <= window

VerifyAttestations(slot, action, expires_at, atts) ==
    /\ \A att \in atts : VerifyAttestation(slot, action, expires_at, att)
    /\ OnePerSigner(atts)
    /\ Cardinality(atts) >= vaults[slot.vaultId].threshold
    /\ SpreadWithin(atts, vaults[slot.vaultId].fresh_window_secs)

Presentable ==
    {[signer |-> s.signer, signed_at |-> s.signed_at, expires_at |-> s.expires_at,
      ed25519 |-> "verified"] : s \in signatures} \cup Carriable

\* execute_after, computed for the event and again by execute.
ExecuteAfterOf(vault, queued_at) ==
    Wrap(queued_at + vault.cooloff_secs + vault.execute_delay_secs)

ExecuteAfterDefined(vault, queued_at) ==
    /\ Defined(queued_at + vault.cooloff_secs)
    /\ Defined(queued_at + vault.cooloff_secs + vault.execute_delay_secs)

ExpiryFarEnough(vault, expires_at) ==
    /\ Defined(unix_timestamp + vault.min_proposal_lifetime_secs)
    /\ expires_at >= Wrap(unix_timestamp + vault.min_proposal_lifetime_secs)

NotQueuedNow(slot) ==   \* mutant: init_if_needed, a settled proposal is overwritten
    proposals[slot] # NoAccount => proposals[slot].state # "Queued"

IsFree(slot) == proposals[slot] = NoAccount

\* The proposal account is `init`: nothing may exist at this nonce yet.
QueueProposal(v, action, expires_at, atts) ==
    /\ vaults[v] # NoAccount
    /\ IsFree(SlotAtNonce(v))
    /\ ExpiryFarEnough(vaults[v], expires_at)
    /\ VerifyAttestations(SlotAtNonce(v), action, expires_at, atts)
    /\ ExecuteAfterDefined(vaults[v], unix_timestamp)
    /\ proposals' = [proposals EXCEPT ![SlotAtNonce(v)] =
          [action |-> action, queued_at |-> unix_timestamp, expires_at |-> expires_at,
           cancel_count |-> 0, cancellers |-> <<>>, state |-> "Queued"]]
    /\ vouched' = IF \A att \in atts : att.ed25519 = "verified"
                  THEN vouched \cup {SlotAtNonce(v)} ELSE vouched
    /\ UNCHANGED <<vaults, unix_timestamp, signatures, cpis>>

------------------------------------------------------------------------------
(* cancel *)

PlainInc(x, max) == x + 1   \* mutant: not saturating

SaturatingInc(x, max) == IF x < max THEN x + 1 ELSE max

MayCancelTwice(slot, key) ==   \* mutant: no cancellers check
    /\ Contains(vaults[slot.vaultId].signers, key)
    /\ Len(proposals[slot].cancellers) < MAX_CANCELLERS

MayCancel(slot, key) ==
    /\ Contains(vaults[slot.vaultId].signers, key)
    /\ ~Contains(proposals[slot].cancellers, key)
    /\ Len(proposals[slot].cancellers) < MAX_CANCELLERS

IsStored(slot) == proposals[slot] # NoAccount   \* mutant: also what is settled

IsQueued(slot) == proposals[slot] # NoAccount /\ proposals[slot].state = "Queued"

Cancel(slot, key) ==
    LET count == SaturatingInc(proposals[slot].cancel_count, MaxU8)
    IN  /\ IsQueued(slot)
        /\ MayCancel(slot, key)
        /\ proposals' = [proposals EXCEPT
              ![slot].cancellers = Append(@, key),
              ![slot].cancel_count = count,
              ![slot].state = IF count >= vaults[slot.vaultId].veto_threshold
                              THEN "Cancelled" ELSE @]
        /\ UNCHANGED <<vaults, unix_timestamp, signatures, vouched, cpis>>

------------------------------------------------------------------------------
(* execute *)

NonceMatches(slot) == slot.nonce = vaults[slot.vaultId].nonce

CooledOffOnly(slot) ==   \* mutant: the execute delay is not waited for
    unix_timestamp >= Wrap(proposals[slot].queued_at + vaults[slot.vaultId].cooloff_secs)

CooledOff(slot) ==
    LET vault == vaults[slot.vaultId]
    IN  /\ ExecuteAfterDefined(vault, proposals[slot].queued_at)
        /\ unix_timestamp >= ExecuteAfterOf(vault, proposals[slot].queued_at)

AnyData(slot, data) == data \in Data   \* mutant: no data hash check

DataMatches(slot, data) == data = proposals[slot].action.instruction_data_hash

\* Each forwarded account keeps the signer flag the outer transaction gave it;
\* signer_seeds vouch only for metas that are flagged, so they add nothing.
CpiSigners(accounts, outerSigners) == accounts \cap outerSigners

\* A wallet can sign the outer transaction, a PDA cannot.  The CPI can fail, and
\* with it the whole transaction.
Execute(slot, program, adapter, data, accounts, outerSigners) ==
    LET v == slot.vaultId
        action == proposals[slot].action
    IN  /\ IsQueued(slot)
        /\ NonceMatches(slot)
        /\ proposals[slot].expires_at >= unix_timestamp
        /\ CooledOff(slot)
        /\ DataMatches(slot, data)
        /\ program = action.target_program
        /\ adapter = action.adapter
        /\ proposals' = [proposals EXCEPT ![slot].state = "Executed"]
        /\ vaults' = [vaults EXCEPT ![v].nonce = SaturatingInc(@, MaxU64)]
        /\ cpis' = [cpis EXCEPT ![v] = Append(@,
              [slot |-> slot, program |-> program, data |-> data, accounts |-> accounts,
               signers |-> CpiSigners(accounts, outerSigners), at |-> unix_timestamp])]
        /\ UNCHANGED <<unix_timestamp, signatures, vouched>>

------------------------------------------------------------------------------
(* The environment *)

\* signer-cli, solanaAttestationMessage: a key signs any action for any nonce, and
\* its signer chooses both dates without a look at the chain.
Sign(key, slot, action, signed_at, expires_at) ==
    /\ Cardinality(signatures) < MaxSignatures
    /\ signatures' = signatures \cup
          {[signer |-> key, slot |-> slot, action |-> action,
            signed_at |-> signed_at, expires_at |-> expires_at]}
    /\ UNCHANGED <<vaults, proposals, unix_timestamp, vouched, cpis>>

Tick ==
    /\ unix_timestamp < MaxTime
    /\ unix_timestamp' = unix_timestamp + 1
    /\ UNCHANGED <<vaults, proposals, signatures, vouched, cpis>>

SomeQueue == \E v \in Vaults, action \in Action, expires_at \in I64,
                atts \in SUBSET Presentable : QueueProposal(v, action, expires_at, atts)

SomeExecute == \E slot \in Slot, program \in Programs, adapter \in Adapters, data \in Data,
                  accounts \in SUBSET Forwardable, outerSigners \in SUBSET (Keys \cap Forwardable) :
                  Execute(slot, program, adapter, data, accounts, outerSigners)

SomeCancel == \E slot \in Slot, key \in Keys : Cancel(slot, key)

SomeSign == \E key \in Keys, slot \in Slot, action \in Action, signed_at \in SigningDates,
               expires_at \in SigningExpiries : Sign(key, slot, action, signed_at, expires_at)

Next ==
    \/ \E v \in Vaults, a \in InitArgs : InitVault(v, a)
    \/ SomeQueue
    \/ SomeCancel
    \/ SomeExecute
    \/ SomeSign
    \/ Tick

Spec == Init /\ [][Next]_vars

\* Time passes, and whoever can queue, cancel or execute does so in the end.
FairSpec ==
    /\ Spec
    /\ WF_vars(Tick) /\ WF_vars(SomeQueue) /\ WF_vars(SomeCancel) /\ WF_vars(SomeExecute)

------------------------------------------------------------------------------
(* Properties *)

\* Every account holds values of its fields' types.
TypeOK ==
    /\ vaults \in [Vaults -> Vault \cup {NoAccount}]
    /\ proposals \in [Slot -> Proposal \cup {NoAccount}]
    /\ unix_timestamp \in 0..MaxTime
    /\ signatures \subseteq Signature
    /\ vouched \subseteq Slot
    /\ cpis \in [Vaults -> Seq(Cpi)]

Exists(slot) == proposals[slot] # NoAccount

InState(slot, s) == Exists(slot) /\ proposals[slot].state = s

\* A signature over the proposal in a slot, whose dates allow the time it was queued.
Covers(sig, slot) ==
    LET p == proposals[slot]
    IN  /\ sig.slot = slot /\ sig.action = p.action
        /\ sig.signed_at <= p.queued_at
        /\ p.queued_at <= sig.expires_at
        /\ sig.expires_at <= p.expires_at

AgeAtQueue(sig, slot) == proposals[slot].queued_at - sig.signed_at

IsFresh(sig, slot) == AgeAtQueue(sig, slot) <= vaults[slot.vaultId].fresh_window_secs

\* An age no i64 holds, which wraps to a negative one.
AgeWraps(sig, slot) == ~OverflowChecks /\ AgeAtQueue(sig, slot) > MaxI64

\* SPEC.md 3.4, 3.5: where the ed25519 instructions verify the attestations they are
\* presented with, threshold distinct signers of the vault stand behind the proposal,
\* with signatures over that action under that nonce, fresh when it was queued; a
\* build that wraps also takes a date 2^63 seconds back (verify_attestations).
QueuedWithFreshQuorum ==
    \A slot \in vouched :
        Cardinality({k \in ToSet(vaults[slot.vaultId].signers) :
            \E sig \in signatures :
                sig.signer = k /\ Covers(sig, slot) /\ (IsFresh(sig, slot) \/ AgeWraps(sig, slot))})
          >= vaults[slot.vaultId].threshold

\* SPEC.md 3.8: a vault's CPIs carry the nonces 0, 1, 2, ... in that order; below
\* the current nonce everything was executed, above it nothing exists, and the
\* saturating nonce still equals the number of CPIs until it is full (execute).
CallsAreSerial ==
    \A v \in Vaults :
        /\ \A i \in DOMAIN cpis[v] :
              /\ cpis[v][i].slot = [vaultId |-> v, nonce |-> i - 1]
              /\ cpis[v][i].data = proposals[cpis[v][i].slot].action.instruction_data_hash
        /\ \A n \in U64 : InState([vaultId |-> v, nonce |-> n], "Executed") <=> n < Len(cpis[v])
        /\ vaults[v] # NoAccount =>
              /\ vaults[v].nonce = IF Len(cpis[v]) < MaxU64 THEN Len(cpis[v]) ELSE MaxU64
              /\ \A n \in U64 : n > vaults[v].nonce => ~Exists([vaultId |-> v, nonce |-> n])

\* Even with negative delays and lifetimes, which init_vault accepts, a proposal is
\* queued with a moment at which execute's time guards hold, and unexpired (the
\* attestations' own expiries see to that).  Only where the lifetime itself ends after
\* the last i64 can a build that wraps queue what it never executes.
ExecutionWindowIsOpen ==
    \A slot \in Slot : Exists(slot) =>
        LET p == proposals[slot]
            vault == vaults[slot.vaultId]
        IN  /\ p.queued_at <= p.expires_at
            /\ \/ /\ ExecuteAfterDefined(vault, p.queued_at)
                  /\ ExecuteAfterOf(vault, p.queued_at) <= p.expires_at
               \/ ~OverflowChecks /\ p.queued_at + vault.min_proposal_lifetime_secs > MaxI64

\* The first second after cool-off and delay, as the configured seconds add up.
WaitEnd(v, slot) ==
    proposals[slot].queued_at + vaults[v].cooloff_secs + vaults[v].execute_delay_secs

\* SPEC.md 3.6: every CPI came before the proposal's expiry and after its whole
\* cool-off and delay, unless these end after the last i64 and the build wraps.
CallsRespectTheirWindow ==
    \A v \in Vaults : \A i \in DOMAIN cpis[v] :
        LET c == cpis[v][i]
        IN  /\ c.at <= proposals[c.slot].expires_at
            /\ \/ WaitEnd(v, c.slot) <= c.at
               \/ ~OverflowChecks /\ WaitEnd(v, c.slot) > MaxI64

\* SPEC.md 3.7: cancellers are distinct signers of the vault, cancel_count is their
\* number, and the proposal is Cancelled exactly from veto_threshold of them on.
VetoCountsDistinctSigners ==
    \A slot \in Slot : Exists(slot) =>
        LET p == proposals[slot]
        IN  /\ IsInjective(p.cancellers)
            /\ ToSet(p.cancellers) \subseteq ToSet(vaults[slot.vaultId].signers)
            /\ p.cancel_count = Len(p.cancellers)
            /\ p.state = "Cancelled" <=> p.cancel_count >= vaults[slot.vaultId].veto_threshold

\* The fixed-size account of a proposal has room for the cancellation of every
\* signer who has not cancelled yet: MAX_CANCELLERS turns nobody away (cancel).
NoVetoIsTurnedAway ==
    \A slot \in Slot : IsQueued(slot) =>
        \A k \in ToSet(vaults[slot.vaultId].signers) \ ToSet(proposals[slot].cancellers) :
            MayCancel(slot, k)

\* A settled proposal account is never written again, and what was queued at a
\* nonce stays what it is (the account can be initialised once).
SettledIsFinal ==
    [][\A slot \in Slot : Exists(slot) =>
         /\ proposals'[slot].action = proposals[slot].action
         /\ proposals'[slot].queued_at = proposals[slot].queued_at
         /\ proposals[slot].state # "Queued" => proposals'[slot] = proposals[slot]]_vars

\* The program does what the deployment promises, independent of the chain.
Named(s) == {[vaultId |-> slot.vaultId, nonce |-> slot.nonce, action |-> proposals[slot].action] :
                slot \in {t \in Slot : InState(t, s)}}

Promise == INSTANCE GuardedExecution WITH
    Proposals <- [vaultId : Vaults, nonce : U64, action : Action],
    queued <- Named("Queued"),
    vetoed <- Named("Cancelled"),
    log <- [v \in Vaults |-> [i \in 1..Len(cpis[v]) |->
              [vaultId |-> v, nonce |-> i - 1,
               action |-> proposals[[vaultId |-> v, nonce |-> i - 1]].action]]]

RefinesPromise == Promise!Spec

------------------------------------------------------------------------------
(* What the documents say of the program and the code does not do. *)

\* threshold distinct signers signed what stands in a slot, freshly, whatever ed25519
\* instructions the queueing transaction carried.
HasSignedQuorum(slot) ==
    Cardinality({k \in ToSet(vaults[slot.vaultId].signers) :
        \E sig \in signatures :
            sig.signer = k /\ Covers(sig, slot) /\ IsFresh(sig, slot)})
      >= vaults[slot.vaultId].threshold

\* SPEC.md:44-50: a guarded action may execute only if "Enough signers approved the
\* proposal", "Every signer approval was fresh at queue time" and "The proposal survived
\* the cool-off and execute-delay windows"; docs/HOWTO.md:414: it executes "by CPI using
\* the vault PDA".  So a call that is handed the vault PDA was signed for, has waited,
\* and carries the vault's signature.
VaultCallsAreGuarded ==
    \A v \in Vaults : \A i \in DOMAIN cpis[v] :
        LET c == cpis[v][i]
        IN  v \in c.accounts =>
              /\ HasSignedQuorum(c.slot)
              /\ WaitEnd(v, c.slot) <= c.at
              /\ v \in c.signers

\* An expired proposal is what the vault has at its current nonce.
IsStale(v) ==
    /\ vaults[v] # NoAccount /\ Exists(SlotAtNonce(v))
    /\ proposals[SlotAtNonce(v)].expires_at < unix_timestamp

\* intentguard.md:131: "give proposals an expiry so stale queued actions cannot sit
\* forever": an expired proposal does not keep its vault's nonce for good.
StaleActionsGiveWay == \A v \in Vaults : IsStale(v) ~> ~IsStale(v)

\* The current nonce of a vault is taken by a proposal that can no longer execute.
IsBlocked(v) ==
    /\ vaults[v] # NoAccount /\ Exists(SlotAtNonce(v))
    /\ \/ InState(SlotAtNonce(v), "Cancelled") \/ IsStale(v)

\* What stands against it, a fact of the code and no promise of it: the proposal at
\* the current nonce keeps its account and only execute advances the nonce, so once
\* it is cancelled or expired no instruction of anyone queues or executes anything
\* for the vault again; vetoes of what is queued are all that is left.
BlockedVaultsStayBlocked ==
    [][\A v \in Vaults : IsBlocked(v) =>
         /\ IsBlocked(v)'
         /\ vaults'[v] = vaults[v] /\ cpis'[v] = cpis[v]
         /\ \A n \in U64 : LET slot == [vaultId |-> v, nonce |-> n]
                           IN  proposals'[slot] = proposals[slot] \/ IsQueued(slot)]_vars

==============================================================================
