----------------------------- MODULE AttesterLink -----------------------------
(***************************************************************************)
(* The attest command of attester/host/src/cli.ts against the device: one  *)
(* process after another opens the port, makes one call of ProposeIntent,  *)
(* prints what comes back and ends.  HostTransport and AttesterFirmware    *)
(* share the line; the device and the bytes on the line outlive a process. *)
(***************************************************************************)
EXTENDS Naturals, Sequences, FiniteSets

CONSTANTS
    Calls,              \* the runs of the command by number, each with its one call
    NoCall,
    Request,            \* [Calls -> Proposals], each with an id of its own (randomBytes)
    Damages, MaxAnswers,
    Ids, Networks, Vaults, Nonces, Kinds, Bodies, NoProposal, Lines, ArgsLength,
    MAX_ACTION_ARGS, REPLAY_WINDOW, MaxHandled, MaxBoots, LineRoom

Proposals == {Request[c] : c \in Calls}
MessageOf == [c \in Calls |-> [type |-> "ProposeIntent", proposal |-> Request[c]]]

VARIABLES
    port, call, outgoing, waiters, buffer, heard, queued,   \* HostTransport
    toDevice, toHost,                                       \* the line
    replayCache, confirming, display, boot, handled,        \* AttesterFirmware
    attest              \* what the running process is about, or NoCall

hostOwn == <<port, call, outgoing, waiters, buffer, heard, queued>>
deviceOwn == <<replayCache, confirming, display, boot, handled>>
linkVars == <<hostOwn, toDevice, toHost, deviceOwn, attest>>

Device == INSTANCE AttesterFirmware WITH inbox <- toDevice, outbox <- toHost
Host == INSTANCE HostTransport WITH Oversized <- {}, Answers <- Device!Reply

ASSUME LinkSorts == Calls \subseteq Nat /\ NoCall \notin Calls
ASSUME LinkBounds == Host!HostBounds /\ Device!FirmwareBounds
ASSUME IdsAreUnique == \A c, d \in Calls : Request[c].id = Request[d].id => c = d

Init == Host!Init /\ Device!Init /\ attest = NoCall

------------------------------------------------------------------------------
(* The command *)

\* main, until it has opened the port.
Start(c) ==
    /\ call[c].state = "new" /\ \A d \in Calls : d < c => call[d].state # "new"
    /\ Host!Open
    /\ attest' = c

Ask == Host!Call(attest) /\ UNCHANGED attest

\* The result is printed, whatever proposal_id it has, and the process ends.
Finish ==
    /\ attest # NoCall /\ call[attest].state \in Host!Settled
    /\ Host!Exit
    /\ attest' = NoCall

\* The user stops the command.
Interrupt == Host!Exit /\ attest' = NoCall

Transport(c) ==
    /\ Host!Transmit(c) \/ Host!Written(c) \/ Host!WriteFails(c) \/ Host!Timeout(c)
    /\ UNCHANGED attest

\* A checksum that fails ends the process too.
Data(n) == Host!Data(n) /\ attest' = IF port' = "off" THEN NoCall ELSE attest

HostPart ==
    /\ \/ \E c \in Calls : Start(c) \/ Transport(c)
       \/ attest # NoCall /\ Ask
       \/ Finish
       \/ attest # NoCall /\ Interrupt
       \/ \E n \in 1..Len(toHost) : Data(n)
    /\ UNCHANGED deviceOwn

DevicePart == Device!DeviceStep /\ UNCHANGED <<hostOwn, attest>>

Next ==
    /\ HostPart \/ DevicePart
    /\ Len(toDevice') <= LineRoom
    /\ Len(heard') + Len(buffer') + Len(toHost') <= MaxAnswers

LinkSpec == Init /\ [][Next]_linkVars

\* What the running command does of itself, with the driver's part in it.
RunStep ==
    /\ \/ attest # NoCall /\ Ask
       \/ Finish
       \/ \E c \in Calls : Transport(c)
    /\ UNCHANGED deviceOwn

\* Node runs what is due and its timers fire; the driver completes a write or fails it.
FairLinkSpec == LinkSpec /\ WF_linkVars(RunStep)

------------------------------------------------------------------------------
(* Properties *)

IsOwn(c) == heard[call[c].answer].id = Request[c].id

GaveUp(c) == call[c].state \in {"lost", "timed out", "rejected"}

\* attester/host/src/transport.ts:7: the host reads responses "until it sees the response
\* with the matching proposal_id".  The code takes the first that comes, so an answer can
\* go astray, but only once some earlier run ended without one (interrupted, timed out,
\* failed).  As long as every run got an answer it got its own, through refusals,
\* replays and restarts of the device.
OnlyAbandonedRunsMislead ==
    \A i \in DOMAIN queued :
        call[queued[i]].state = "resolved" /\ ~IsOwn(queued[i])
        => \E d \in Calls : GaveUp(d)

\* Every run of the command ends, by itself: in an answer, an error or a crash.
EveryRunEnds == port # "off" ~> port = "off"

===============================================================================
