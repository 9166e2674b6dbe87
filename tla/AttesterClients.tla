----------------------------- MODULE AttesterClients -----------------------------
(***************************************************************************)
(* Attestations end to end, by value: the attest command of                *)
(* attester/host/src/cli.ts with a device or with the emulator, the SDK    *)
(* with its own emulator, and whoever verifies with the SDK what they      *)
(* produced.  HostTransport, AttesterFirmware and AttesterLink have the    *)
(* queues, buttons and crashes on the way; here one message is on its way  *)
(* at a time, and every byte of it counts.                                 *)
(***************************************************************************)
EXTENDS Cbor, CanonicalIntent

CONSTANTS
    Inputs,         \* what users ask for
    MaxTime,        \* bound: the last second
    MaxRuns         \* bound: runs of the command and calls of the SDK

\* network is the word that follows --network.
Input == [network : STRING, vault : Seq(Byte), nonce : Int, kind : Nat, args : Seq(Byte)]

ASSUME ClientBounds ==
    /\ Inputs \subseteq Input /\ \A i \in Inputs : Len(i.vault) \in U64
    /\ MaxTime \in U64 /\ MaxRuns \in Nat

VARIABLES
    now,            \* the clocks, in step
    run,            \* the attest command in progress: <<what it asked for>>, or none
    request,        \* its message, encoded, on the way to the device
    display,        \* what the device shows, or nothing
    answer,         \* the answer, encoded, on the way back
    outcomes,       \* history: how each run ended
    approvals,      \* history: the approvals obtained, each with the input it is for
    encodings       \* history: the values serialised for other adapters, with their bytes

attestVars == <<now, run, request, display, answer, outcomes, approvals>>
vars == <<attestVars, encodings>>

Init ==
    /\ now = 0
    /\ run = <<>> /\ request = <<>> /\ display = <<>> /\ answer = <<>>
    /\ outcomes = <<>>
    /\ approvals = {}
    /\ encodings = {}

\* An AttesterApproval: what was asked for, with signature, key and date.
Approval(i, hash, key, digest, signedAt) ==
    [input |-> i, hash |-> hash, devicePubkey |-> key,
     signature |-> [key |-> key, digest |-> digest], signedAt |-> signedAt]

Ends(outcome) == outcomes' = Append(outcomes, outcome)

Approved(approval) == Ends("approved") /\ approvals' = approvals \cup {approval}

------------------------------------------------------------------------------
(* The attest command *)

\* parseArgs: every word but "evm" means solana.
Parsed(o) == [o EXCEPT !.network = IF @ = "evm" THEN "evm" ELSE "solana"]

ProposeIntent(i, id, signedAt) ==
    [type |-> Text("ProposeIntent"),
     proposal_id |-> Bytes(<<id>>),
     network |-> Text(i.network),
     vault |-> Bytes(i.vault),
     nonce |-> Uint(i.nonce),
     action_kind |-> Uint(i.kind),
     action_args |-> Bytes(i.args),
     intent_hash |-> Bytes(<<ComputeIntentHash(i)>>),
     signed_at |-> Uint(signedAt),
     expires_at |-> Uint(signedAt + 600),
     domain_sep |-> Text("intentguard.v1.attest")]

Idle == run = <<>> /\ Len(outcomes) < MaxRuns

\* No adapter, a wrong length, or an integer cborEncode refuses.
AttestThrows(o) ==
    /\ Idle
    /\ ~IsDecodable(o.kind, o.args) \/ o.nonce < 0
    /\ Ends("threw")
    /\ UNCHANGED <<now, run, request, display, answer, approvals>>

Attest(o) ==
    LET i == Parsed(o)
    IN  /\ Idle
        /\ IsDecodable(i.kind, i.args) /\ i.nonce >= 0
        /\ run' = <<[input |-> i, message |-> ProposeIntent(i, Len(outcomes), now),
                     preview |-> Preview(i.kind, i.args)]>>
        /\ request' = EncodeMap(ProposeIntent(i, Len(outcomes), now))
        /\ UNCHANGED <<now, display, answer, outcomes, approvals>>

\* Back to the prompt, with the signature or the reason there is none.
Reports(m) ==
    \/ /\ m["type"].value = "IntentReject"
       /\ Ends(m["reason"].value)
       /\ UNCHANGED approvals
    \/ /\ m["type"].value = "IntentAck"
       /\ Approved(Approval(run[1].input, run[1].message.intent_hash.value[1],
                            m["device_pubkey"].value[1],
                            m["signature"].value[1].digest, m["signed_at"].value))

Report ==
    /\ answer # <<>>
    /\ Reports(DecodeMap(answer).value)
    /\ run' = <<>> /\ answer' = <<>> /\ display' = <<>>
    /\ UNCHANGED <<now, request>>

------------------------------------------------------------------------------
(* The device *)

Proposal(m) ==
    [network |-> m["network"].value, vault |-> m["vault"].value, nonce |-> m["nonce"].value,
     kind |-> m["action_kind"].value, args |-> m["action_args"].value,
     hash |-> m["intent_hash"].value[1], id |-> m["proposal_id"].value[1]]

Proposed == Proposal(DecodeMap(request).value)

Replies(m) == answer' = EncodeMap(m) /\ request' = <<>>

Rejects(p, reason) ==
    Replies([type |-> Text("IntentReject"), proposal_id |-> Bytes(<<p.id>>),
             reason |-> Text(reason)])

Refusal(p) == IF IsDecodable(p.kind, p.args) THEN "IntentMismatch" ELSE "DecodeFailure"

\* handle_propose up to the button; repeated ids and oversized arguments, which the
\* command does not send, are in AttesterFirmware.
RefusesOrShows(p) ==
    IF IsDecodable(p.kind, p.args) /\ DeviceIntentHash(p) = p.hash
    THEN display' = Display(p.kind, p.args) /\ UNCHANGED <<request, answer>>
    ELSE Rejects(p, Refusal(p)) /\ UNCHANGED display

\* The date is the device's own.
Acknowledges(p) ==
    Replies([type |-> Text("IntentAck"), proposal_id |-> Bytes(<<p.id>>),
             signature |-> Bytes(<<[key |-> "device", digest |-> DeviceDigest(p, p.hash, now)]>>),
             device_pubkey |-> Bytes(<<"device">>),
             signed_at |-> Uint(now)])

DeviceReads ==
    /\ request # <<>> /\ display = <<>>
    /\ RefusesOrShows(Proposed)
    /\ UNCHANGED <<now, run, outcomes, approvals>>

DeviceSigns ==
    /\ request # <<>> /\ display # <<>>
    /\ Acknowledges(Proposed)
    /\ UNCHANGED <<now, run, display, outcomes, approvals>>

DeviceCancels ==
    /\ request # <<>> /\ display # <<>>
    /\ Rejects(Proposed, "UserCancelled")
    /\ UNCHANGED <<now, run, display, outcomes, approvals>>

------------------------------------------------------------------------------
(* The emulators, which sign what they are handed *)

\* attest --emulator: the digest is over what the message says.
AttestEmulated(o) ==
    LET i == Parsed(o)
    IN  /\ Idle
        /\ IF IsDecodable(i.kind, i.args) /\ InWidth(i, now)
           THEN Approved(Approval(i, ComputeIntentHash(i), "emulator",
                                  EmulatorDigest(i, ComputeIntentHash(i), now), now))
           ELSE Ends("threw") /\ UNCHANGED approvals
        /\ UNCHANGED <<now, run, request, display, answer>>

\* buildIntentBundle, then attest, dated by the caller or by the clock.
AttestInSdk(i, signedAt) ==
    /\ Idle
    /\ i.network \in {"solana", "evm"}
    /\ IF IsDecodable(i.kind, i.args) /\ InWidth(i, signedAt)
       THEN Approved(Approval(i, ComputeIntentHash(i), "sdk",
                              AttesterDigest(i, ComputeIntentHash(i), signedAt), signedAt))
       ELSE Ends("threw") /\ UNCHANGED approvals
    /\ UNCHANGED <<now, run, request, display, answer>>

\* canonicalSerialise, for whatever an adapter that is yet to be written decodes to.
Serialise(v) ==
    /\ Idle
    /\ encodings' = encodings \cup {[value |-> v, bytes |-> CanonicalSerialise(v)]}
    /\ Ends("serialised")
    /\ UNCHANGED <<now, run, request, display, answer, approvals>>

Tick ==
    /\ now < MaxTime
    /\ now' = now + 1
    /\ UNCHANGED <<run, request, display, answer, outcomes, approvals>>

Next ==
    \/ /\ \/ \E o \in Inputs : AttestThrows(o) \/ Attest(o) \/ AttestEmulated(o)
          \/ Report
          \/ DeviceReads \/ DeviceSigns \/ DeviceCancels
          \/ \E i \in Inputs, signedAt \in 0..MaxTime : AttestInSdk(i, signedAt)
          \/ Tick
       /\ UNCHANGED encodings
    \/ \E v \in Values : Serialise(v)

Spec == Init /\ [][Next]_vars

------------------------------------------------------------------------------
(* Properties *)

\* The device's critical check (attester/SPEC.md 4.1) turns away liars and never the
\* command itself: what render.ts hashes with its sorted keys, sent through the wire
\* encoding, is what the firmware hashes field by field, for every input the command
\* accepts, nonces that do not fit their width included.
OwnProposalsPass ==
    \A n \in DOMAIN outcomes : outcomes[n] \notin {"DecodeFailure", "IntentMismatch"}

\* What was read is all of what was said.
Conveys(m, said) ==
    /\ m.ok /\ m.rest = <<>> /\ DOMAIN m.value = DOMAIN said
    /\ \A k \in DOMAIN said :
          m.value[k] = [said[k] EXCEPT !.value = IF said[k].major = 0 THEN @ % U64Size ELSE @]

\* Every proper prefix of a message on the wire is refused, and the whole of it decodes
\* to the message that was encoded, up to the width of its integers (cborDecode of cborEncode).
MessagesSurviveTheWire ==
    /\ request # <<>> => Conveys(DecodeMap(request), run[1].message)
    /\ \A w \in {request, answer} : \A k \in 0..Len(w) - 1 : ~DecodeMap(SubSeq(w, 1, k)).ok

\* verifyEmulatorAttestation: the digest is computed again, which throws outside the widths.
Verifies(i, hash, signedAt, key, signature) ==
    InWidth(i, signedAt) /\ signature = [key |-> key, digest |-> AttesterDigest(i, hash, signedAt)]

\* What an approval could be presented for.
Claims == {c \in {Parsed(i) : i \in Inputs} : IsDecodable(c.kind, c.args) /\ c.nonce \in U64}
ClaimHash == [c \in Claims |-> ComputeIntentHash(c)]

\* Whoever signed, the device, the emulator of the host bridge or that of the SDK, the
\* SDK verifies the approval under what was asked for and under nothing else: for no
\* other network, vault, nonce, action, argument or date.  (What is asked of a device is
\* its nonce modulo 2^64.)
ApprovalsVerifyAsAsked ==
    \A a \in approvals, c \in Claims, t \in 0..MaxTime :
        Verifies(c, ClaimHash[c], t, a.devicePubkey, a.signature)
        <=> c = [a.input EXCEPT !.nonce = @ % U64Size] /\ t = a.signedAt

\* The two amounts among some lines, as the hashed intent has them: a price rounded down
\* to the cent, and a limit.
ShowsAmounts(lines, intent) ==
    /\ {"Fair value (USD)", "Max deposit (USD)"} \subseteq {lines[n].label : n \in DOMAIN lines}
    /\ \A n \in DOMAIN lines :
          /\ lines[n].label = "Fair value (USD)" =>
                LET shown == lines[n].value[1] * MICROS + lines[n].value[2] * CENT
                    fair == intent.fair_value_usd_micros.bigint
                IN  shown <= fair /\ fair < shown + CENT
          /\ lines[n].label = "Max deposit (USD)" =>
                lines[n].value = <<intent.max_deposit_usd.bigint>>

\* Two formatters in two languages and a wire in between: while the device waits for the
\* button, its screen and the preview both show the amounts of the very intent whose hash
\* is about to be signed, no price a cent off (formatUsd, format_usd).
AmountsAreShown ==
    display # <<>> /\ run[1].input.kind = 1 =>
        LET intent == DecodeCollateral(run[1].input.args)
        IN  ShowsAmounts(display, intent) /\ ShowsAmounts(run[1].preview, intent)

ValueBytes == [v \in Values |-> CanonicalSerialise(v)]

\* attester/renderer/src/render.ts:78, "hostile to ambiguity": no value's serialisation
\* begins another's, so the fields of an object that follow each other cannot be read
\* in two ways.
SerialisationIsUnambiguous ==
    \A e \in encodings, w \in Values : IsPrefix(e.bytes, ValueBytes[w]) => e.value = w

===============================================================================
