# A TLA+ development of intentguard

intentguard puts a guard between a multisig and the privileged calls it makes.
A call is executed only if its decoded meaning (the *intent*) was signed by a
quorum whose signatures were fresh, then waited in public for a cool-off in
which some of the signers can veto it, and is executed once, in the order of the
vault's nonces.  There are two on-chain guards, a Safe module for EVM chains and
an Anchor program for Solana, and an *attester*: a hand-held device that shows a
signer the decoded intent and signs it, with a host program that talks to it
over a serial line.

This directory models the system, checks it with TLC and proves properties of
it with TLAPS.  Modules are translated from the code; documents are
used only as the source of promises.

## 1. Inventory

| component | state | operations | made correct by |
|---|---|---|---|
| `contracts/IntentGuardModule.sol` | vault configurations with a nonce, signer sets, adapter allowlist, proposals by hash, cancellers | `initializeVault`, `setAdapter`, `queue`, `cancel`, `execute` | fresh quorum of distinct signers behind whatever is queued; vetoes counted once; one call per nonce, in order, in its window; settled is final |
| `solana/programs/intentguard` | vault PDA, one proposal PDA per vault and nonce | `init_vault`, `queue_proposal`, `cancel`, `execute` | the same, plus fixed room in accounts, signed arithmetic and account reuse |
| `contracts/CollateralListingAdapter.sol` | feed policy per token | `setFeedPolicy`, `intentHash`, `validate` | claim and live price agree within the tolerance at the time of execution; exactly one reading of the call data |
| `attester/firmware` | key in flash, replay window in RAM, receive buffer | `Hello`, `Enroll`, `ProposeIntent` | signs only what was displayed and confirmed, at most once per proposal id; hash recomputed on the device |
| `attester/host` | receive buffer, queue of waiters, timers | `openDevice`, `call`, `attest` | every call gets its own answer or a timeout; the stream resynchronises |
| `attester/renderer` | adapter registry, filled at load | `renderIntent`, `computeIntentHash`, `canonicalSerialise` | unambiguous encoding, equal to the firmware's mirror of it |
| `attester/sdk` | none | `buildIntentBundle`, `attesterDigest`, `verifyEmulatorAttestation`, an emulator | verifies exactly what the device and the emulators sign |
| `signer-cli` | none | digests and messages to sign | the digest binds what the chain checks |
| `clients/signer-cli.ts` | the proposal under review | fetch, warn, sign or abort | the warning agrees with what the chain will say |

How they interact.  Signers sign a digest (`signer-cli`) or let the device sign
(`attester`); anyone submits the signatures with `queue`.  The EVM module calls
the adapter twice, `intentHash` when queueing and `validate` when executing, and
then the Safe, which calls the target.  The Solana program reads ed25519
verification instructions of its own transaction and makes a CPI.  The host and
the device exchange framed CBOR messages over a serial line.

What is hard.  Transactions of signers, submitters and bystanders interleave in
any order over days; signatures collected for one proposal are around when the
next is made; time passes between any two of them, and clocks of signers and of
the chain differ; arithmetic is bounded (checked on EVM, build-dependent on
Solana); accounts have fixed size and a PDA is created once.  On the
attester side, answers may be late, early or garbled, the device restarts and
forgets, and two independent implementations must agree on bytes.  The hazards
are listed one by one, at their lines, in `PROJECT.json`.

## 2. What is modelled

| module | models |
|---|---|
| `GuardedExecution` | the promise of a deployment, independent of the chain: *approve*, *veto*, *run* |
| `IntentGuardModule` | the EVM module |
| `IntentGuardSolana` | the Solana program |
| `CollateralListingAdapter` | the EVM adapter, with its fixed-point arithmetic |
| `SignerReview` | the review client, over the market the adapter reads |
| `GuardedListing` | the EVM module with that adapter in front of `execute` |
| `AttesterFirmware` | the device's main loop and `handle_propose` |
| `HostTransport` | `openDevice`, `call` and the data handler of the host |
| `AttesterLink` | the `attest` command, one process after another, against the device |
| `Framing` | frames on the line and both receivers, byte by byte |
| `Digits` | integers as bytes, little end first, as all of the attester's programs write and read them |
| `Cbor` | encoding and decoding of messages, as operators |
| `CanonicalIntent` | canonical encoding, intent hash, digest, preview and display, by the four programs that compute them, as operators |
| `AttesterClients` | `attest` with device or emulator, and the SDK, by value, on top of `Cbor` and `CanonicalIntent` |
| `IntentGuardModule_proofs`, `IntentGuardSolana_proofs`, `CollateralListingAdapter_proofs`, `AttesterFirmware_proofs`, `HostTransport_proofs`, `AttesterLink_proofs`, `Framing_proofs`, `AttesterClients_proofs` | the theorems |
| `MCIntentGuard`, `MCSolana`, `MCAdapter`, `MCListing`, `MCFirmware`, `MCHost`, `MCLink`, `MCFraming`, `MCClients` | instances for TLC |

`IntentGuardModule` and `IntentGuardSolana` are both shown to implement
`GuardedExecution`.  `GuardedListing` extends `CollateralListingAdapter` and instantiates
`IntentGuardModule`; `SignerReview` extends the adapter too; `AttesterLink` instantiates
`HostTransport` and `AttesterFirmware` over a shared line; `AttesterClients` extends
`Cbor` and `CanonicalIntent`, which both extend `Digits`.  The two halves of the system, chain and
attester, meet only in a signature, which the chain models take from `Sign`.

The attester is modelled three times over, at three grains.  `HostTransport`,
`AttesterFirmware` and `AttesterLink` have processes, timers, buttons and crashes, and
whole messages.  `Framing` has bytes and buffers, and no meaning.  `AttesterClients` has
every byte that is hashed, encoded or shown, and one message at a time.

### The chain

**One action per external function or instruction.**  A call that reverts, or a
transaction that fails, leaves no trace on chain, so it is no step; every
`require`, `revert` and checked addition is a conjunct of the action's guard and
the assignments are its primed variables.  Anybody may call at any time with any
arguments.  `Tick` advances block time, `Sign` lets a key produce one more
signature.

**Hashes** stand for what they are hashes of.  A `proposalId` is the record of
the fields that `queue` hashes (vault, nonce and action), so the seven fields the
contract also stores are read off the key.  Intent hashes, payloads, targets and
adapters are model values; which intent an adapter reads in a payload is the
constant function `IntentOf`, with `Undecodable` for a revert.

**Signatures** are a growing set of messages with their signers: signing cannot
be undone and nobody signs for another.  What a message binds is what
`evmAttestationDigest` and `solanaAttestationMessage` put into it.  Its dates and its
nonce are the signer's own: on EVM a clock can be ahead by `ClockSkew`, on Solana `Sign`
takes any nonce and any dates of two sets (`SigningDates`, `SigningExpiries`).  The ordered
array by which the EVM module refuses a repeated signer is a set with the
condition that signers differ.

**Arithmetic.**  `Max64`, `Max8`, `MaxI64` and `MaxU64` are the limits of the
integer types.  The runs make them small so that block times, counters and
configured seconds reach them; the proofs do not fix them.  EVM arithmetic
reverts on overflow.  In the Solana model `OverflowChecks` chooses between a build
in which an overflowing expression panics and one in which it wraps (`Wrap`).  Neither
`solana/Cargo.toml` nor the program's own turns the checks on in the release profile, so
every Solana run sets `OverflowChecks = FALSE`; the theorems hold for both.

**External code.**  `validate` and the Safe's call can fail, and with them the
whole transaction: no step either.  When they succeed the module's own state is
as `execute` wrote it before calling them, so a nested call to the module during
`execute` has the effect of a further transaction at the same time.

**The ed25519 instruction.**  The program does not parse the instruction that an attestation
names: it looks for the bytes of signer, signature and message anywhere in it
(lib.rs:307-311, whose comment calls the check minimal).  The precompile verifies what the
instruction's own header points to.  So each attestation that is presented has a field
`ed25519`: the instruction *verifies* this signature, and then the signer has made it; or it only
*carries* the three parts beside something else that is valid, and then nobody need have
signed (`Ed25519Verifies`).  Attestations of the first kind come from `signatures`, those of the
second are a set (`Carriable`, a bound: any bytes can be carried).  The history variable
`vouched` remembers for which proposals all attestations were of the first kind.

**Solana accounts.**  A vault or a proposal is addressed by what its PDA is derived
from, and `init` needs the account to be absent (`NoAccount`).  `execute` forwards
the remaining accounts; each keeps the signer flag it has in the outer
transaction, where a wallet can sign and a PDA cannot.

**The adapter.**  `Validate` is the code's sequence of checks on one answer of the
oracle, with uint256 products that revert above `Max256`; `ScaleToE18` rounds as the
division does.  `WAD` is the number of decimals that the code fixes at 18, `TenTo[n]` the powers of
ten and `BPS` stands for 10 000; the runs make them small, so that small numbers
show every rounding and every overflow.  The oracle (`Publish`) is the environment: it
may answer anything of its type at any time, zero and negative answers included.
In `GuardedListing` an intent is what `_decode` reads, and `Execute` is the module's
`Execute` with `Validate` in front of it; `market` remembers the policies and answers
of the moment.

**The review.**  `SignerReview` is the command of `clients/signer-cli.ts` as far as it is
written: its `fetchProposal` and `signProposal` are sketches.  It fetches a claim and the
answer of its oracle, both with eight decimals (`E8`), computes the deviation with BigInt
division, warns above `WarnBps`, and signs or aborts.  The chain's rule is the adapter's
`WithinTolerance`, which has another denominator.

### The attester

**Time and the button.**  The device is one thread: it reads a message, answers it, and
while it waits for a button (`confirming`) it reads nothing.  `ui.rs` and the wire side
of `transport.rs` are stubs in the source, so the buttons (`Confirm`, `Decline`, which is
also the device's own one-minute timeout), the line and the power switch
(`PowerCycle`, which empties everything in RAM) are the environment.

**What is shown.**  The display of an intent is `Lines[kind, body]`, a constant: it need
not tell two bodies apart, as the abbreviated keys and rounded amounts of `render.rs`
do not.  An intent hash is the record of what it is the hash of; the hash in a proposal
comes from the host and may be anything.

**The host.**  Every callback of Node runs to completion: the start of `call`, the
completion or failure of the write, the timer, and the data handler, which unframes as
many frames as the bytes allow and gives the answers to the oldest waiters.  The bytes
of a frame are abstracted to what the line did to it: the magic was hit (the bytes are
skipped), the length was (the frame takes bytes of the next), the body was (the
checksum throws), or the payload does not decode.  A throw in the data handler is caught
by nobody and ends the process; the calls that were pending are `lost`.  An answer
can be there before the write's callback has put its call into the queue.

**The command.**  `attest` opens the port, makes one call, prints what it gets and
ends.  The runs are numbered as they are started; each has a proposal id of its own
(`randomBytes`).  What is on the line or in the device when a process ends is there
for the next.  The `signed_at` and `expires_at` that the command sends are checked by
nobody on the device and left out.

**Bytes on the line.**  In `Framing` a symbol is a byte or a CRC-32, and the CRC of a prefix
is that prefix: collisions of the checksum are not modelled.  Header, payload and checksum are
cut into chunks at will (`Read`); a byte may be lost, changed, or be one that looks like
the start of a frame.  Host and device differ in one thing: a checksum that does not match
ends the host's process (`HostThrows`) and costs the device the frame (`DeviceDrops`).
A payload that contains a whole valid frame is not among the payloads: to a receiver that comes in
the middle it *is* a frame.

**Messages and intents.**  `Cbor` keeps the widths of integers (one byte of head, then 1, 2, 4
or 8) with `Base` values to a byte, so that 2^64 becomes `Base`^8 and is within TLC's
reach.  `CanonicalIntent` has byte strings with the code's own lengths and offsets; field
names are one symbol each and a hash is the string hashed.  The values that are serialised are
scalars of any length and objects with some of the field names, nested `Depth` deep (a bound:
`canonicalSerialise` recurses as deep as its argument goes).  `Preview` is what the command
prints of `renderIntent`: the action's name, the lines, the warning; `Display` is what the device
puts on its screen: the lines.  A line's `severity`, a colour, is left out.  The renderer, the
firmware, the emulator and the SDK each have their own operator, because the point is that
they agree.  `now` is one clock for host and device.

## 3. What the runs check

The bounds are constants of the modules, given in the `.cfg` files: the limits of the
integer types (which bound time and nonces), the number of signatures ever made
(`MaxSignatures`), on EVM the lifetimes given to them (`AttestationTTLs`), how far a
signer's clock may be ahead (`ClockSkew`) and how many nonces ahead somebody signs
(`SignAhead`), on Solana the dates signers write (`SigningDates`, `SigningExpiries`), the
attestations that are only carried (`Carriable`), the block times (`MaxTime`) and the accounts
forwarded to a CPI (`Forwardable`), and for the attester the answers heard (`MaxAnswers`), proposals answered
(`MaxHandled`), times the device is switched on (`MaxBoots`), messages on the line
(`LineRoom`), frames sent (`MaxSent`), accidents on the line (`MaxFaults`), seconds
(`MaxTime`), commands run (`MaxRuns`) and objects in objects (`Depth`).  On EVM signers are
symmetric, since the configurations range over every arrangement of them up to renaming
and the model only counts and compares them; the Solana runs use no symmetry.

| run | question | properties |
|---|---|---|
| `evm_promise` | Competing and successive proposals of one vault under every configuration out of a set that breaks each check of `initializeVault` (duplicate and zero signers, a veto of none, sums that overflow, lifetimes too short), with signatures prepared for the next nonce and re-queueing after a veto, up to the largest `uint64`. | `TypeOK`, `QueuedWithFreshQuorum`, `VetoCountsDistinctSigners`, `VetoStaysInReach`, `CallsAreAsReviewed`, `ExecutionWindowIsOpen`, `CallsAreSerial`, `CallsRespectTheirWindow`, `SettledIsFinal`, `RefinesPromise` |
| `sol_promise` | The same on Solana, in the build that wraps: successive proposals until the nonce saturates; configurations with negative seconds, delays and lifetimes that wrap, signer lists that are empty, repeated or too long, a veto of more signers than there are.  Two signatures by signers or an outsider, over either action at either nonce, dated as far back as an i64 goes or ahead of the chain; one more attestation is only carried. | `TypeOK`, `QueuedWithFreshQuorum`, `VetoCountsDistinctSigners`, `CallsAreSerial`, `ExecutionWindowIsOpen`, `CallsRespectTheirWindow`, `NoVetoIsTurnedAway`, `SettledIsFinal`, `RefinesPromise` |
| `adapter_prices` | Every claim against every answer, scale and policy of a small range: is what `validate` admits close to the true price, is a claim that states it exactly admitted, and does the warning in the review foretell what the chain says? | `AdmittedClaimsAreClose`, `ExactClaimsAreAdmitted`, `WarningsForetellTheChain` |
| `listing_market` | Policies and answers change between `queue` and `execute`: does each call that reached the Safe carry a signed claim that met the market of its execution? | `SignedClaimsMetTheMarket` |
| `device_signs` | Proposals with one id and different nonces, bodies that look alike, wrong hashes, wrong and oversized arguments, unknown kinds; confirmed, declined, across a restart. | `ReplayWindowHolds`, `SignsOnlyWhatWasShown` |
| `host_calls` | Two concurrent calls and one that is too large, in processes that come and go, with three answers that are early, late, unasked or damaged in each way. | `WaitersAreWhoWaits`, `AnswersKeepOrder`, `OutcomesAreFinal`, `WaitingEnds` |
| `link_runs` | Three runs of the command, interrupted or not, one refused by the device, with a restart, write failures, timeouts and damaged lengths. | `OnlyAbandonedRunsMislead`, `EveryRunEnds` |
| `wire` | Three frames, one of whose payloads begins like a frame, in chunks of every size, with a byte lost or changed or a receiver restarted, for both receivers. | `DeliveredInOrder`, `AlignmentIsKept`, `ReceiverReturns`, `CleanMessagesArrive` |
| `attest_clients` | Every input out of a set that differs in one byte here and there, with nonces on both sides of 2^64, unknown networks, unknown actions and wrong lengths, through device, emulators and SDK; values of every type serialised, with lengths of one and of two bytes and an object in an object. | `OwnProposalsPass`, `MessagesSurviveTheWire`, `ApprovalsVerifyAsAsked`, `AmountsAreShown`, `SerialisationIsUnambiguous` |

*Where the build wraps.*  `ExecutionWindowIsOpen`, `CallsRespectTheirWindow` and
`QueuedWithFreshQuorum` say of Solana what holds in the build that the manifests give, and
name the exceptions: a lifetime, a delay or an age that no i64 holds.  The exceptions
occur in `sol_promise`, and outside of them the promises are unweakened, negative
seconds and intermediate overflows included.  `QueuedWithFreshQuorum` speaks of the proposals all of
whose attestations were verified, as the code cannot tell these from others.  What SPEC.md:48-50
promises without exception is checked by `sol_calls`.

*Why the bounds are enough.*  Three signers with thresholds of two are the smallest
instance in which a quorum and a veto can be made up in more than one way and overlap;
a repeated signer breaks the property there already.  Two successive nonces with
two payloads let any two proposals compete, precede each other or meet after being
settled.  That nothing carries over from one vault to another is not in these runs,
which have one vault; the proofs have any number.  A replay window of one with two ids is
full, and drops an id, at the second signature; the third can be a repetition of
either.  With `MaxI64` = 4 and times up to 3, a lifetime or a delay at the limit wraps at once, and so
does the age of a signature dated at the lowest i64.  Two waiting calls let a timer take the first or the last of the queue, with
an answer too few or too many.  Three runs let an answer go astray, and then the next.
Three frames and one accident let the receiver lose one frame, take a length from inside another
and still have one to resynchronise on.  One run of the command is enough for
`attest_clients`, whose properties are about what one input becomes; the inputs carry the
variety.

*Fairness.*  `WaitingEnds` assumes weak fairness of `Timeout` alone: `setTimeout` fires.
`EveryRunEnds` assumes weak fairness of `RunStep`, what the running command does of itself:
Node runs a callback that is due, and the driver completes a write or fails it.  Nothing is
assumed of the device, of the user or of the line.  `ReceiverReturns` and
`CleanMessagesArrive` assume weak fairness of reading and of the loop over the buffer: data
events fire, the loop runs on.  No liveness is claimed to
*hold* on chain: nothing in the code schedules a transaction, so any fairness would
be an assumption about people.  `sol_stale` refutes a promise, and grants it every such assumption
(`FairSpec`: time passes, and queueing, cancelling and executing happen when they can): in the
counterexample none of them is possible any more.

*Deadlock* is not checked in the Solana runs, `link_runs`, `wire` and `attest_clients`,
where the bounds can end with nothing left to do; the other runs check it.

Every property of a passing run has a mutant in `PROJECT.json`: a definition of the
model replaced by a plausible bug (a guard dropped, a signer counted twice, a frame
that is not drained) under which TLC finds the property violated.  The mutated forms are in
the modules, marked `mutant`.

Three runs find a disagreement between a document and the code and are expected to
end in a violation:

| run | the document | the code |
|---|---|---|
| `evm_expiry` | SPEC.md:58-69: the intent hash binds the proposal's expiry | whoever submits `queue` chooses the expiry, no signature covers it |
| `sol_calls` | SPEC.md:44-50: a guarded action may execute only if "Enough signers approved the proposal", "Every signer approval was fresh at queue time" and "The proposal survived the cool-off and execute-delay windows"; docs/HOWTO.md:414: it is called "by CPI using the vault PDA" | an ed25519 instruction that only carries signer, signature and message passes (lib.rs:309-311); without overflow checks the sums of `init_vault` (lib.rs:37) and `execute` (lib.rs:165) wrap; the vault's meta has the signer flag of the outer transaction, which is never set (lib.rs:184) |
| `sol_stale` | intentguard.md:131: proposals have an expiry "so stale queued actions cannot sit forever" | the account of the current nonce is never closed or replaced, so an expired proposal keeps its vault for good |

`sol_calls` has one vault, whose cool-off and delay wrap, and no signatures at all, so that its
counterexample of three steps (`init_vault`, `queue_proposal`, `execute`, all within the first
second) breaks each part of `VaultCallsAreGuarded`.  That the parts break for the reasons
given and for no others is what the exceptions in `QueuedWithFreshQuorum` and
`CallsRespectTheirWindow` say, which `sol_promise` checks and section 4 proves.

Other differences that showed while the models were written, read off the code and
not the subject of a run:

- The host gives an answer to the oldest waiter and nobody compares `proposal_id`
  (attester/host/src/transport.ts:60); transport.ts:7 says it waits for "the response with the
  matching proposal_id".  After an interrupted run the next takes the late answer for its own:
  `OnlyAbandonedRunsMislead` says that only an earlier run without an answer can bring this about.
- The device keeps the ids it *signed* (main.rs:165); one that was refused or cancelled is shown
  again and can be signed.  attester/SPEC.md:89 says it "keeps the last 64 proposal_ids in RAM and
  rejects duplicates".
- The preview is not what the display shows: it has the action's name, four bytes at each end of
  a collateral's keys and a warning, the device shows the lines alone, with six bytes.
  attester/host/src/cli.ts:105 says "this is what the device should display", render.ts:20 that
  host and device "MUST produce identical output".  `AmountsAreShown` says in what they agree.
- `execute` does not read the allowlist, so an adapter that the Safe removes while a
  proposal is queued is still used (SPEC.md:43-46 requires it to be allowlisted).
- The screen has the decoded arguments and neither network nor vault nor nonce
  (attester/spec/ATTESTER_SPEC.md:81-93 lists them as required).
- An unknown action kind is refused as `DecodeFailure` (attester/SPEC.md:90 names
  another reason).
- The emulator "behaves like a connected device" (transport.ts:104) but signs without
  recomputing the hash; nothing of it is told apart by the properties here, since the command
  hands it the right one.
- Every word after `--network` but `evm` means Solana (`Parsed`).
- A nonce of 2^64 or more is taken modulo 2^64 by the command, in hash and message alike, and
  the device signs the smaller one; the emulators and the SDK throw.
- The review prints how old the oracle's answer is and never warns of it; the chain's limit on
  staleness is not foretold by anything.
- render.ts:68 sorts the keys of an object by UTF-8 bytes and the code by UTF-16 units; the
  field names of the adapters are ASCII, where the two agree.

## 4. What is proved

All theorems hold for every value of the constants that satisfies the modules' assumptions:
natural widths and bounds, arguments of the right types, and model values of different sorts
being different.

### The EVM module

`IntentGuardModule_proofs`, for every number of vaults, signers, payloads and adapters, every
argument of `initializeVault` and every width of the integers.  Every property of `evm_promise`
is a theorem:

| theorem | states |
|---|---|
| `TypeCorrect` | `Spec => []TypeOK` |
| `RecordsHold` | `Spec => []Records`: stored configurations satisfy what `initializeVault` checked, signer sets are finite and as large as the thresholds, proposals belong to initialised vaults |
| `WindowStaysOpen` | `Spec => []ExecutionWindowIsOpen` |
| `VetoesAreCounted` | `Spec => []VetoCountsDistinctSigners` |
| `VetoIsReachable` | `Spec => []VetoStaysInReach` |
| `CallsStaySerial` | `Spec => []CallsAreSerial` |
| `CallsStayInWindow` | `Spec => []CallsRespectTheirWindow` |
| `CallsWereReviewed` | `Spec => []CallsAreAsReviewed` |
| `QuorumIsFresh` | `Spec => []QueuedWithFreshQuorum` |
| `SettledStaysSettled` | `Spec => SettledIsFinal` |
| `ModuleRefinesPromise` | `Spec => RefinesPromise`: the module implements `GuardedExecution` |
| `ModuleKeepsPromise` | of each nonce at most one proposal runs, in order, and never one that was vetoed (`EachSettledOnce` of `GuardedExecution`, under the mapping) |

None of the properties but `TypeOK` is inductive alone.  The argument is layered.
`TypeOK` is inductive.  `Records` adds to it what the later arguments need to know
of a vault: the loop that marks signers marks as many as the array is long
(`DistinctSigners`, by a bijection), the delays add up to no more than the lifetime,
and a vault without `initialized` has no proposals.  Relative to `Records`, each of
the other invariants is preserved by every step, one lemma for each action that
can disturb it: `ProposalStep` says that a step either leaves a proposal's
times alone or is the `queue` that created it, `OnlyExecuteExecutes` that nobody but
`execute` touches the Safe or a nonce, `QueueFindsBackers` that the attestations
`queue` accepts give as many distinct backers (an injection from attestations to
signers), `BackersStay` that they remain.  The refinement maps `queue` to *approve*,
the deciding `cancel` to *veto*, `execute` to *run* (`QueueApproves`, `CancelVetoes`,
`ExecuteRuns`), and rests on `CallsAreSerial`, from which the nonce of a vault is the
length of its log.

One lemma says something about the code that is easy to miss:
`SpreadFollowsFromFreshness`: the last check of `_verifyAttestations`, that the
newest and the oldest signature are within the window of each other, never
rejects anything that got that far.

### The Solana program

`IntentGuardSolana_proofs`, for every number of vaults and keys, every argument of
`init_vault`, negative seconds included, every room for signers and cancellers, every date that
signers write, everything that an ed25519 instruction may carry, and both builds.  No theorem
assumes `OverflowChecks`:

| theorem | states |
|---|---|
| `AccountsHold` | `Spec => []Accounts`, the invariant the others rest on |
| `TypeCorrect` | `Spec => []TypeOK` |
| `VetoesAreCounted` | `Spec => []VetoCountsDistinctSigners` |
| `NobodyIsTurnedAway` | `Spec => []NoVetoIsTurnedAway` |
| `SettledStaysSettled` | `Spec => SettledIsFinal` |
| `QuorumIsFresh` | `Spec => []QueuedWithFreshQuorum`: of the proposals whose attestations were all verified; of the others `sol_calls` shows that nothing of the kind holds |
| `CallsStaySerial` | `Spec => []CallsAreSerial` |
| `WindowStaysOpen` | `Spec => []ExecutionWindowIsOpen`, with the one exception of a build that wraps |
| `CallsStayInWindow` | `Spec => []CallsRespectTheirWindow`, likewise |
| `BlockedForEver` | `Spec => BlockedVaultsStayBlocked`: not a promise, but what the program does, and the general form of what `sol_stale` finds: a vault whose proposal at the current nonce is cancelled or expired queues and executes nothing any more |
| `ProgramRefinesPromise` | `Spec => RefinesPromise`: the program implements `GuardedExecution` |
| `ProgramKeepsPromise` | of each nonce at most one proposal runs, in order, and never one that was vetoed |

The strengthening is `Accounts`: `TypeOK`, what `init_vault` and `queue_proposal` checked
of every account that exists, and that only existing proposals are `vouched`.  It is
inductive together (`VaultStep`, `ProposalStep`, `VouchedStep`).  From it, `QueueFindsBackers` counts signers as on EVM, and
`ExecuteIsSerial` has two cases for the nonce, which saturates.  The windows rest on arithmetic
modulo 2^64: `SumOfTwo` says what a wrapped sum can be, and `SumOfThree` that `queued_at +
cooloff_secs + execute_delay_secs` comes out right when it fits, though its parts overflowed on the
way.  `DelaysKeepFitting` keeps what `init_vault` compared, wrapped or not, and `QueueOpensWindow`
combines them: what is queued is unexpired (some attestation is, and the proposal outlives it), and
its lifetime covers its delays unless it wraps itself.  `BlockedForEver`
needs no more than that accounts are never closed.  The refinement shows for each of the three
instructions what it does to the *names* of the proposals in each state (`NamedStep`) and
to the log (`LogKeeps`).

### The adapter in front

`CollateralListingAdapter_proofs`, for every tolerance, every number of decimals of an oracle
and every width of the products:

| theorem | states |
|---|---|
| `AdapterTypes` | policies, rounds and the time keep their types; a stored tolerance is at most a whole |
| `AdmittedAreClose` | `AdapterSpec => []AdmittedClaimsAreClose` |
| `ExactAreAdmitted` | `AdapterSpec => []ExactClaimsAreAdmitted` |
| `ListingImplementsGuard` | `ListingSpec => Guard!Spec`: with the adapter in front of `execute`, and policies and answers changing at any time, the module still takes only its own steps |
| `ClaimsMetTheMarket` | `ListingSpec => []SignedClaimsMetTheMarket` |

The first three rest on arithmetic with a variable divisor.  `TenTo` is a recursive function; what
it is at every number follows by induction on *sets* of numbers (`InductionOnSets`), which the
module derives from the least element of a set and needs no operator as parameter.  From
`TenToSum`, `Quotient` and laws of products follow `ScalingUpIsExact` and `ScalingDownRounds`:
`_scaleToE18` changes an answer with at most 18 decimals by nothing and a finer one by less
than a unit.

`ClaimsMetTheMarket` is about the composition.  Its invariant, `ListingHolds`, keeps the module's
`Records` and the adapter's types and says of each call that its payload decoded and that
`validate` admitted the claim under the policies and answers noted for it (`EachWeighed`);
`WeighedMetTheMarket` turns the admission into the distance that the property speaks of.

### The review

The third part of `CollateralListingAdapter_proofs`: `ReviewsAreCompared` (what was signed is what was on the screen, and the
warning is that of the code's rule), `WarningsForetell`
(`ReviewSpec => []WarningsForetellTheChain`) and `ReviewLeavesTheMarket`: beside the command the
adapter takes only its own steps, so what is proved of it holds while signers review.  The first
is the invariant that the second needs; the rest is arithmetic that turns a deviation
rounded down at eight decimals into one at eighteen, for each side of the
warning (`QuietMeansNear`, `WarningMeansFar`).

### The device

`AttesterFirmware_proofs`, for every set of proposals, every behaviour of line and user, and
every size of the replay window: `TypeCorrect`, `SignaturesWereShown`
(`SignsOnlyWhatWasShown`) and `WindowHolds` (`ReplayWindowHolds`).  The first of the two needs
`Showing`: while the device waits for a button, the display is that of the proposal it holds,
whose hash has been recomputed and which is not in the window.  The second needs
`CacheFollowsLog`: an id signed since power-on stands in `replayCache` as many places from the end as
ids were signed after it, unless at least `REPLAY_WINDOW` were.

### The host

`HostTransport_proofs`, for every number of calls, answers, processes and every damage: `HostTypes`
(`[]HostTypeOK`), `WaitersWait` (`[]WaitersAreWhoWaits`), `AnswersInOrder` (`[]AnswersKeepOrder`) and
`OutcomesStand` (`HostSpec => OutcomesAreFinal`).

The invariant is `HostHolds`: `Flow` says that no frame is counted twice, `Held` what relates the
queue, the states of the calls and the two histories: waiters are the calls that wait, in the
order of their waits; whoever has an answer came to the queue before whoever is still in it; answers
of two calls are in the order of the calls, and none is newer than the last one heard.  It is an
operator of these variables (`Books`) and not a predicate of the state, because the data handler
goes through many queues within one step: `LoopKeepsBooks` is an induction over the rounds of its
loop (`LoopKeeps`), each of which serves the head of the queue (`ServingKeepsBooks`).

### The command on the line

`AttesterLink_proofs`, for every number of runs of the command, any proposals, every damage and any
number of restarts:

| theorem | states |
|---|---|
| `LinkImplementsHost` | `LinkSpec => Host!HostSpec`: against this device the host takes only steps of `HostTransport` |
| `LinkImplementsDevice` | `LinkSpec => Device!DeviceSpec`: against this host the device takes only steps of `AttesterFirmware` |
| `OnlyAbandonedRuns` | `LinkSpec => []OnlyAbandonedRunsMislead` |

Each half leaves the other's variables alone but for the line, where it acts as the environment that
the other module allows (`LinkStepsDevice`, `LinkStepsHost`).  So everything proved of the two
halves holds of the link, and the third proof uses it: `LinkHolds` is both their invariants and
`OneRun`, that no two calls are under way.  On top of it comes `UnbrokenExchange`: as long
as no run has given up, the one exchange is nowhere, with the device as a message, on its display,
on the way back or in the buffer of the host (where a damaged length may hold it back), with
nothing of an earlier run beside it, and every run that was answered got its own answer.  Having
given up is for good (`GivingUpStays`), which is where `OutcomesStand` comes in.

### Framing

`Framing_proofs`, for both receivers, every alphabet, every set of payloads (those that look like
the start of a frame included) and any number of faults:

| theorem | states |
|---|---|
| `HandedOnInOrder` | `Spec => []DeliveredInOrder` |
| `AlignmentStays` | `Spec => AlignmentIsKept` |

For the first, each symbol that is under way has a *mark*, the number of the message whose checksum
it is (`Marks`), and `Told` says that what was handed on was sent, and that whatever checksums are
still ahead belong to later messages.  Losses, changes, chunks, skips and restarts leave a
remnant of the stream, and a remnant keeps what is told (`RemnantsKeepTold`).  A frame is handed on
only with its checksum (`ChecksumTells`).  For the second, `AreLast` says that a stream is the
frames of the last messages; it is unfolded frame by frame (`LastUnfold`), which finds the whole of
a frame at the front (`FrameIsFound`) before anything can be skipped.

### What the four programs compute

`AttesterClients_proofs`, for every set of inputs, vaults of any length below 2^64, every nonce,
number and argument, every number of runs and every size of a byte (`Base`, with heads of CBOR
smaller than it).  Every property of `attest_clients` is a theorem:

| theorem | states |
|---|---|
| `ClientsAgree` | `Spec => []ClientsHold`, the invariant the others rest on |
| `OwnProposalsAreShown` | `Spec => []OwnProposalsPass` |
| `MessagesAreConveyed` | `Spec => []MessagesSurviveTheWire` |
| `ApprovalsAreVerified` | `Spec => []ApprovalsVerifyAsAsked` |
| `AmountsAgree` | `Spec => []AmountsAreShown` |
| `SerialisationIsRead` | `Spec => []SerialisationIsUnambiguous` |

Little of this is about steps.  `ClientsHold` says what a run in progress is made of: its input
parses, its message is the proposal of that input, what is on the line encodes it and what is
on the display is read from it; and that each approval is over the digest of its own input, and each
encoding that of a value.  None of the five properties is inductive without it, since each speaks of one
place (the display, the answer, an approval) and holds for what was put there steps before.

The rest is what functions over bytes compute, in five layers.

- *Induction and recursion.*  `InductionOnSets` is induction without an operator as parameter:
  a set of naturals with 0 that is closed under successor has them all.  From it follows
  `Recursion`: a start and steps within a set define a function; and with that each of the recursive
  functions of the models is found and shown to satisfy its equation (`PowerValues`, `NumberSums`,
  `FlattenRuns`, `EntriesRun`, `VarintUnfolds`, `NestedUnfolds`, `SerialisedUnfolds`).
- *Integers.*  `BytesSayTheNumber` and `NumberKeepsTheBytes`: what is written with a width is read
  modulo that width, and `width` bytes read as a number are written as those bytes again.  From the
  first, `BytesTellNumbers`: within the width, different integers have different bytes.
- *The wire.*  `HeadIsRead`, `ItemIsRead`, `EntryIsRead` and `MapIsRead` say what a reader finds in a
  buffer that is to be *followed by* something (`ReadsAs`).  One statement gives both halves of
  `MessageIsRead`: with nothing to follow, the message is read and nothing is left; with something to
  follow, that is to say, of a proper prefix, a reader that accepted it would have to have read the whole.
- *The canonical form.*  `DeviceAgrees`: the fields that the firmware writes one after the other are
  those that the renderer sorts; so their hashes agree (`HashesAgree`).  Back again goes
  `DigestTells`: equal digests have equal networks, vaults, nonces, kinds, arguments and dates.  The
  vault has no length of its own in what is hashed; it is told because all that follows it in a
  *digest* has a fixed length (`BoundTells`, read from the end by `SameEnd`), and only then does the
  intent hash, with the vault known, tell the arguments (`HashTells`, `ArgsTold`).
- *Unique reading.*  `VarintTold`, `ScalarTold`, `FieldsTold` and, by induction over the depth of
  objects, `NestedTold`: when a serialisation followed by anything equals another followed by anything,
  the values are equal, and so is what follows.  For an object it is the number of its fields that
  tells where they end: where one object has the next field name and the other has not, the other must
  have a later one (`BothHaveIt`, by cardinality), and its key is then a different one.

`AmountsAgree` needs little of it: what the renderer's and the firmware's formatters show is the quotient
by a cent (`RoundedToTheCent`), and the number they format is the one that is hashed; the lines
that only the preview has carry other labels (`FramedLines`).

The recursive definitions are functions (`Varint[n]`, `Serialised[depth]`), over numbers
and over the depth of the values, and not over the values themselves; an object belongs to
`Values` with all that is in it (`ValuesAreNested`, an assumption that TLC evaluates).

### Only model-checked

- All liveness: `WaitingEnds`, `EveryRunEnds`, `ReceiverReturns`, `CleanMessagesArrive`.  They need
  `ENABLED`, which the prover does not expand.
- The three violations of section 3 are traces; there is nothing to prove, but for
  `BlockedForEver`.

## 5. What is not modelled

- Gas, rent, fees and events; the byte layout of the ABI encoding and of the Solana message; the
  Safe and its own owners; the protocol behind the guard; ed25519, secp256k1 and hash functions,
  which are assumed to be what they should be.
- A Solana CPI that comes back to the program within the same transaction.  Accounts are
  written back at the end, so inner writes are lost.  A nested `execute` of the same vault needs the
  proposal of the same nonce, whose data would have to contain their own hash; what is left is
  a `cancel` of the proposal that is being executed, which is overwritten by the execution.
- The device's key storage, USB endpoint and display driver (stubs in the source).
- Of the host, the `enroll` command: it makes one call, prints the key and keeps nothing; its effect
  on the device is `Enroll` of `AttesterFirmware`.
- `renderer/src/scripts/new-adapter.ts` and `write-vectors.ts`, which write source files and test
  vectors; `sdk/examples/basic.ts`; the vendored packages, the site and placeholder tests.
- Values outside the ranges of the canonical layout (numbers beyond 64 bits, strings that are
  not well-formed): the adapters produce none.

## 6. Order of the work

The chain modules came first, since everything else exists for their sake: `GuardedExecution`,
`IntentGuardModule` with its proofs, `IntentGuardSolana` with its proofs, the adapter and
`GuardedListing`.  Then the device (`AttesterFirmware`), the host (`HostTransport`) and their
link; then the bytes (`Framing`, `Cbor`, `CanonicalIntent`, `AttesterClients`), and the review.
The proofs followed: the chain, the device, the adapter and the review, the host, framing, the
link, and at last the bytes.

What could still be added, in this order: re-entrant calls on both chains as actions of their own; the liveness
properties, should the prover come to expand `ENABLED`.
