--------------------------- MODULE AttesterFirmware ---------------------------
(***************************************************************************)
(* attester/firmware: the device's main loop and handle_propose.           *)
(*                                                                         *)
(* One thread: it reads a message, answers it, and reads the next; while   *)
(* it waits for a button it reads nothing.  Everything but the key is in   *)
(* RAM.  ui.rs and the wire side of transport.rs are stubs in the source;  *)
(* the buttons, the line and the power switch are the environment, as      *)
(* their comments describe them.                                           *)
(***************************************************************************)
EXTENDS Naturals, Sequences, FiniteSets

CONSTANTS
    Ids, Networks, Vaults, Nonces,
    Kinds,              \* u32, the registered ones and others
    Bodies,             \* what the bytes of action_args say
    Proposals,          \* bound: the proposals that hosts send
    NoProposal,
    Lines,              \* decode's display lines, [Kinds \X Bodies -> any]
    ArgsLength,         \* [registered kinds -> length of their action_args]
    MAX_ACTION_ARGS, REPLAY_WINDOW,
    Damages,            \* what the line does to a frame on its way to the host
    MaxHandled,         \* bound: proposals answered
    MaxBoots,           \* bound: times the device is switched on
    LineRoom            \* bound: messages on the line in each direction

Args == [length : Nat, body : Bodies]

\* The canonical bytes: every field of the arguments under its name.
Canonical(kind, body) == <<kind, body>>

\* A hash stands for what it is the hash of; the network chooses the function.
CanonicalIntentHash(network, vault, nonce, kind, canonical) ==
    [network |-> network, vault |-> vault, nonce |-> nonce, kind |-> kind,
     canonical |-> canonical]

IntentHash == {CanonicalIntentHash(net, v, n, k, Canonical(l, b)) :
                  net \in Networks, v \in Vaults, n \in Nonces, k, l \in Kinds, b \in Bodies}

Proposal == [id : Ids, network : Networks, vault : Vaults, nonce : Nonces,
             kind : Kinds, args : Args, hash : IntentHash]

Message == [type : {"Hello", "Enroll", "Status"}]
             \cup [type : {"ProposeIntent"}, proposal : Proposals]

Reasons == {"Replay", "ArgsTooLarge", "DecodeFailure", "IntentMismatch", "UserCancelled"}

Reply ==
    [type : {"HelloAck", "EnrollAck"}]
      \cup [type : {"IntentReject"}, id : Ids, reason : Reasons]
      \cup [type : {"IntentAck"}, id : Ids, network : Networks, vault : Vaults,
            nonce : Nonces, kind : Kinds, hash : IntentHash]

ASSUME FirmwareBounds ==
    /\ \A p \in Proposals : p \in Proposal
    /\ NoProposal \notin Proposals
    /\ DOMAIN Lines = Kinds \X Bodies
    /\ DOMAIN ArgsLength \subseteq Kinds /\ \A k \in DOMAIN ArgsLength : ArgsLength[k] \in Nat
    /\ MAX_ACTION_ARGS \in Nat /\ REPLAY_WINDOW \in Nat \ {0}
    /\ MaxHandled \in Nat /\ MaxBoots \in Nat \ {0} /\ LineRoom \in Nat

VARIABLES
    inbox,          \* messages on their way to the device, in order
    outbox,         \* frames on their way to the host, in order
    replayCache,    \* the ids signed last, oldest first
    confirming,     \* the proposal a button is waited for, or NoProposal
    display,        \* which screen, with its lines
    boot,           \* how many times the device was switched on
    handled         \* history: the proposals answered, their answers, what was on display

deviceVars == <<inbox, outbox, replayCache, confirming, display, boot, handled>>

Init ==
    /\ inbox = <<>> /\ outbox = <<>>
    /\ replayCache = <<>>
    /\ confirming = NoProposal
    /\ display = <<"boot">>
    /\ boot = 1
    /\ handled = <<>>

------------------------------------------------------------------------------
(* Deciding on a proposal *)

Replayed(p) == \E i \in DOMAIN replayCache : replayCache[i] = p.id

\* decode: the registered kinds have action_args of one length, read field by field.
Decodes(p) == p.kind \in DOMAIN ArgsLength /\ p.args.length = ArgsLength[p.kind]

MatchesAlways(p) == TRUE   \* mutant: the host's hash is believed

MatchesClaim(p) ==
    CanonicalIntentHash(p.network, p.vault, p.nonce, p.kind, Canonical(p.kind, p.args.body))
      = p.hash

\* The lines decode makes for the display, which abbreviate keys and amounts.
Rendered(p) == <<"intent", Lines[<<p.kind, p.args.body>>]>>

\* The refusals of handle_propose before anything is shown, in their order.
Refusal(p) ==
    CASE Replayed(p) -> "Replay"
      [] ~Replayed(p) /\ p.args.length > MAX_ACTION_ARGS -> "ArgsTooLarge"
      [] ~Replayed(p) /\ p.args.length <= MAX_ACTION_ARGS /\ ~Decodes(p) -> "DecodeFailure"
      [] OTHER -> "IntentMismatch"

Acceptable(p) ==
    ~Replayed(p) /\ p.args.length <= MAX_ACTION_ARGS /\ Decodes(p) /\ MatchesClaim(p)

RememberWhileRoom(cache, id) ==   \* mutant: push_back on a full deque changes nothing
    IF Len(cache) = REPLAY_WINDOW THEN cache ELSE Append(cache, id)

\* The oldest id makes room for the new one.
Remember(cache, id) ==
    Append(IF Len(cache) = REPLAY_WINDOW THEN Tail(cache) ELSE cache, id)

Send(reply) ==
    /\ Len(outbox) < LineRoom
    /\ \E d \in Damages : outbox' = Append(outbox, [answer |-> reply, damage |-> d])

Answer(p, reply) ==
    /\ Send(reply)
    /\ handled' = Append(handled,
          [proposal |-> p, reply |-> reply, shown |-> display, boot |-> boot])

Reject(p, reason) ==
    Answer(p, [type |-> "IntentReject", id |-> p.id, reason |-> reason])

------------------------------------------------------------------------------
(* The main loop *)

ReceivesUndrained(m) ==   \* mutant: the frame is not drained from rx_buf
    confirming = NoProposal /\ inbox # <<>> /\ m = Head(inbox) /\ inbox' = inbox

\* The next message, while the loop is in recv.
Receives(m) == confirming = NoProposal /\ inbox # <<>> /\ m = Head(inbox) /\ inbox' = Tail(inbox)

Hello ==
    /\ Receives([type |-> "Hello"])
    /\ Send([type |-> "HelloAck"])
    /\ UNCHANGED <<replayCache, confirming, display, boot, handled>>

Enroll ==
    /\ Receives([type |-> "Enroll"])
    /\ display' = <<"enrollment">>
    /\ Send([type |-> "EnrollAck"])
    /\ UNCHANGED <<replayCache, confirming, boot, handled>>

\* A message of another type, or a frame that recv gives up on.
Drop ==
    /\ confirming = NoProposal /\ inbox # <<>>
    /\ inbox' = Tail(inbox)
    /\ UNCHANGED <<outbox, replayCache, confirming, display, boot, handled>>

\* handle_propose refuses what it cannot vouch for ...
RefuseProposal(p) ==
    /\ Receives([type |-> "ProposeIntent", proposal |-> p])
    /\ ~Acceptable(p)
    /\ Len(handled) < MaxHandled
    /\ Reject(p, Refusal(p))
    /\ UNCHANGED <<replayCache, confirming, display, boot>>

\* ... and shows the rest.
ShowProposal(p) ==
    /\ Receives([type |-> "ProposeIntent", proposal |-> p])
    /\ Acceptable(p)
    /\ Len(handled) < MaxHandled
    /\ display' = Rendered(p)
    /\ confirming' = p
    /\ UNCHANGED <<outbox, replayCache, boot, handled>>

\* CONFIRM is pressed: sign, remember, answer.
Confirm(p) ==
    /\ confirming = p
    /\ replayCache' = Remember(replayCache, p.id)
    /\ Answer(p, [type |-> "IntentAck", id |-> p.id, network |-> p.network, vault |-> p.vault,
                  nonce |-> p.nonce, kind |-> p.kind, hash |-> p.hash])
    /\ display' = <<"complete">>
    /\ confirming' = NoProposal
    /\ UNCHANGED <<inbox, boot>>

\* CANCEL is pressed, or nothing for a minute; the display stays.
Decline(p) ==
    /\ confirming = p
    /\ Reject(p, "UserCancelled")
    /\ confirming' = NoProposal
    /\ UNCHANGED <<inbox, replayCache, display, boot>>

\* Power is lost and the device boots again; of the messages to it, what its RAM
\* held is gone and what the host's driver holds comes later.
PowerCycle ==
    /\ boot < MaxBoots
    /\ boot' = boot + 1
    /\ \E n \in 0..Len(inbox) : inbox' = SubSeq(inbox, n + 1, Len(inbox))
    /\ replayCache' = <<>> /\ confirming' = NoProposal /\ display' = <<"boot">>
    /\ UNCHANGED <<outbox, handled>>

DeviceStep ==
    \/ Hello
    \/ Enroll
    \/ Drop
    \/ \E p \in Proposals : RefuseProposal(p) \/ ShowProposal(p) \/ Confirm(p) \/ Decline(p)
    \/ PowerCycle

------------------------------------------------------------------------------
(* The line *)

Arrive(m) ==
    /\ Len(inbox) < LineRoom
    /\ inbox' = Append(inbox, m)
    /\ UNCHANGED <<outbox, replayCache, confirming, display, boot, handled>>

Deliver(n) ==
    /\ outbox' = SubSeq(outbox, n + 1, Len(outbox))
    /\ UNCHANGED <<inbox, replayCache, confirming, display, boot, handled>>

Next ==
    \/ DeviceStep
    \/ \E m \in Message : Arrive(m)
    \/ \E n \in 1..Len(outbox) : Deliver(n)

DeviceSpec == Init /\ [][Next]_deviceVars

------------------------------------------------------------------------------
(* Properties *)

\* Every variable has its type, and the replay window its size.
DeviceTypeOK ==
    /\ inbox \in Seq(Message)
    /\ outbox \in Seq([answer : Reply, damage : Damages])
    /\ replayCache \in Seq(Ids) /\ Len(replayCache) <= REPLAY_WINDOW
    /\ confirming \in Proposals \cup {NoProposal}
    /\ boot \in 1..MaxBoots

IsSigned(i) == handled[i].reply.type = "IntentAck"

\* attester/THREAT_MODEL.md "refuses to re-sign": while the device stays on, it
\* signs a proposal id again only after REPLAY_WINDOW other signatures, whatever
\* was refused, cancelled or asked in between.
ReplayWindowHolds ==
    \A i, j \in DOMAIN handled :
        /\ i < j /\ IsSigned(i) /\ IsSigned(j)
        /\ handled[i].boot = handled[j].boot
        /\ handled[i].proposal.id = handled[j].proposal.id
        => Cardinality({k \in i + 1..j - 1 : IsSigned(k)}) >= REPLAY_WINDOW

\* attester/SPEC.md 4.1, "the critical check": the hash in every signature is the
\* hash of an intent whose lines were on the display when CONFIRM was pressed.
SignsOnlyWhatWasShown ==
    \A i \in DOMAIN handled : IsSigned(i) =>
        \E b \in Bodies :
            LET r == handled[i].reply
            IN  /\ handled[i].shown = <<"intent", Lines[<<r.kind, b>>]>>
                /\ r.hash = CanonicalIntentHash(r.network, r.vault, r.nonce, r.kind,
                                             Canonical(r.kind, b))

===============================================================================
