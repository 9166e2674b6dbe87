-------------------------------- MODULE Framing --------------------------------
(***************************************************************************)
(* The frames of attester/SPEC.md 3 on a serial line, and the receivers    *)
(* that find them: the data handler of attester/host/src/transport.ts with *)
(* unframe of protocol.ts, and recv with try_unframe of                    *)
(* attester/firmware/src/transport.rs.                                     *)
(*                                                                         *)
(* One direction at a time: whoever sends, one of the two receives.        *)
(*                                                                         *)
(* A symbol is a byte, <<b>>, or the CRC-32 of a prefix, which is that     *)
(* prefix: no two prefixes of interest share a checksum.  Whoever takes a  *)
(* checksum for something else reads the byte ChecksumByte.                *)
(***************************************************************************)
EXTENDS Naturals, Sequences, SequencesExt

CONSTANTS
    Base,           \* bytes are 0..Base - 1
    MAGIC_0, MAGIC_1,
    ChecksumByte,   \* a byte of a checksum, read as one
    Payloads,       \* what is sent: encoded messages, never empty
    Sides,          \* the receivers, of "host" and "device"
    MaxSent,        \* bound: frames sent
    MaxFaults       \* bound: symbols damaged or lost, receivers restarted

Byte == 0..Base - 1

\* The largest length the two bytes of the header can say: 0xffff.
MaxLength == Base * Base - 1

ASSUME FramingSorts ==
    /\ Base \in Nat \ {0}
    /\ {MAGIC_0, MAGIC_1, ChecksumByte} \subseteq Byte
    /\ Payloads \subseteq Seq({<<b>> : b \in Byte}) \ {<<>>}
    /\ Sides \subseteq {"host", "device"}
    /\ MaxSent \in Nat /\ MaxFaults \in Nat

VARIABLES
    side,           \* who receives
    line,           \* symbols on the way, in order
    buffer,         \* the receiver's buffer, rx_buf
    running,        \* the receiving process has not been ended by an exception
    sent,           \* history: the payloads framed
    delivered,      \* history: the payloads handed on by the receiver
    faults          \* what befell line and receiver so far

vars == <<side, line, buffer, running, sent, delivered, faults>>

Init ==
    /\ side \in Sides
    /\ line = <<>> /\ buffer = <<>>
    /\ running = TRUE
    /\ sent = <<>> /\ delivered = <<>>
    /\ faults = 0

------------------------------------------------------------------------------
(* Frames *)

HeaderLength == 4

\* Magic, length (high byte first) and payload.
Checked(payload) ==
    <<<<MAGIC_0>>, <<MAGIC_1>>, <<Len(payload) \div Base>>, <<Len(payload) % Base>>>> \o payload

Frame(payload) == Append(Checked(payload), Checked(payload))

ByteAt(buf, i) == IF Len(buf[i]) = 1 THEN buf[i][1] ELSE ChecksumByte

StartsFrame(buf) == ByteAt(buf, 1) = MAGIC_0 /\ ByteAt(buf, 2) = MAGIC_1

FrameLength(buf) == HeaderLength + ByteAt(buf, 3) * Base + ByteAt(buf, 4) + 1

WantsByteTooMany(buf) ==   \* mutant: <= for <
    Len(buf) > HeaderLength + 1 => StartsFrame(buf) /\ Len(buf) <= FrameLength(buf)

\* unframe and try_unframe return nothing: bytes are missing.
WantsMore(buf) ==
    Len(buf) >= HeaderLength + 1 => StartsFrame(buf) /\ Len(buf) < FrameLength(buf)

ChecksOutAlways(buf) == TRUE   \* mutant: the checksum is not compared

ChecksOut(buf) == buf[FrameLength(buf)] = SubSeq(buf, 1, FrameLength(buf) - 1)

Payload(buf) == SubSeq(buf, HeaderLength + 1, FrameLength(buf) - 1)

AfterChecked(buf) == SubSeq(buf, FrameLength(buf), Len(buf))   \* mutant: the checksum stays

AfterFrame(buf) == SubSeq(buf, FrameLength(buf) + 1, Len(buf))

AfterNothing(buf) == buf   \* mutant: the byte is not skipped

AfterByte(buf) == Tail(buf)

------------------------------------------------------------------------------
(* The receivers.  Nothing is read while unframe still finds something.    *)

Send(p) ==
    /\ Len(sent) < MaxSent
    /\ Len(p) <= MaxLength
    /\ sent' = Append(sent, p)
    /\ line' = line \o Frame(p)
    /\ UNCHANGED <<side, buffer, running, delivered, faults>>

\* A data event of the port, or read_more: some of what is on the line.
Read(n) ==
    /\ running /\ WantsMore(buffer)
    /\ n \in 1..Len(line)
    /\ buffer' = buffer \o SubSeq(line, 1, n)
    /\ line' = SubSeq(line, n + 1, Len(line))
    /\ UNCHANGED <<side, running, sent, delivered, faults>>

\* Resync: one byte that starts no frame is dropped (unframe's empty payload, BadMagic).
Skip ==
    /\ running /\ ~WantsMore(buffer)
    /\ ~StartsFrame(buffer)
    /\ buffer' = AfterByte(buffer)
    /\ UNCHANGED <<side, line, running, sent, delivered, faults>>

\* A frame is taken; an empty one counts as resync on the host and as Decode on the device.
Take ==
    /\ running /\ ~WantsMore(buffer)
    /\ StartsFrame(buffer) /\ ChecksOut(buffer)
    /\ buffer' = AfterFrame(buffer)
    /\ delivered' = IF Payload(buffer) = <<>> THEN delivered ELSE Append(delivered, Payload(buffer))
    /\ UNCHANGED <<side, line, running, sent, faults>>

\* unframe throws out of the data handler, which ends the process.
HostThrows ==
    /\ side = "host"
    /\ running /\ ~WantsMore(buffer)
    /\ StartsFrame(buffer) /\ ~ChecksOut(buffer)
    /\ running' = FALSE
    /\ buffer' = <<>>
    /\ UNCHANGED <<side, line, sent, delivered, faults>>

\* try_unframe has drained the frame before it compares: BadCrc, and recv is called again.
DeviceDrops ==
    /\ side = "device"
    /\ running /\ ~WantsMore(buffer)
    /\ StartsFrame(buffer) /\ ~ChecksOut(buffer)
    /\ buffer' = AfterFrame(buffer)
    /\ UNCHANGED <<side, line, running, sent, delivered, faults>>

Unframe == Skip \/ Take \/ HostThrows \/ DeviceDrops

------------------------------------------------------------------------------
(* What goes wrong *)

\* A byte on the line is lost, or becomes another.
Damage ==
    /\ faults < MaxFaults
    /\ faults' = faults + 1
    /\ \E i \in DOMAIN line :
          \/ line' = RemoveAt(line, i)
          \/ \E b \in Byte : line[i] # <<b>> /\ line' = [line EXCEPT ![i] = <<b>>]
    /\ UNCHANGED <<side, buffer, running, sent, delivered>>

\* The command is run again, or the device switched off and on: what was buffered is
\* gone, and some of what was on the line.
Restart ==
    /\ faults < MaxFaults
    /\ faults' = faults + 1
    /\ running' = TRUE
    /\ buffer' = <<>>
    /\ \E n \in 0..Len(line) : line' = SubSeq(line, n + 1, Len(line))
    /\ UNCHANGED <<side, sent, delivered>>

Next ==
    \/ \E p \in Payloads : Send(p)
    \/ \E n \in 1..Len(line) : Read(n)
    \/ Unframe
    \/ Damage
    \/ Restart

Spec == Init /\ [][Next]_vars

\* What arrives is read, and the loop over the buffer runs on.
FairSpec == Spec /\ WF_vars(\E n \in 1..Len(line) : Read(n)) /\ WF_vars(Unframe)

------------------------------------------------------------------------------
(* Properties *)

\* Whatever is lost, garbled or cut short, and wherever a payload happens to look like
\* the start of a frame, a receiver hands on only what was sent, in the order it was
\* sent and no message twice (unframe and try_unframe compare the checksum before they
\* hand a payload on).
DeliveredInOrder ==
    \E from \in [DOMAIN delivered -> DOMAIN sent] :
        /\ \A i \in DOMAIN delivered : delivered[i] = sent[from[i]]
        /\ \A i, j \in DOMAIN delivered : i < j => from[i] < from[j]

\* The frames of the last n messages, one after another.
LastFrames(messages, n) ==
    LET last[i \in 0..n] == IF i = 0 THEN <<>>
                            ELSE Frame(messages[Len(messages) - i + 1]) \o last[i - 1]
    IN  last[n]

\* The bytes not yet unframed are the frames of the messages after the first k.
WholeFrames(k) == buffer \o line = LastFrames(sent, Len(sent) - k)

\* Resynchronised is resynchronised: once the bytes to come are whole frames again and
\* nothing more happens to the line, none of them is skipped, dropped or taken for
\* part of another, and each is handed on in its turn.
AlignmentIsKept ==
    [][\A k \in 0..Len(sent) : WholeFrames(k) /\ running /\ faults' = faults =>
        /\ running'
        /\ \/ WholeFrames(k)' /\ delivered' = delivered
           \/ k < Len(sent) /\ WholeFrames(k + 1)' /\ delivered' = Append(delivered, sent[k + 1])]_vars

\* The loop over the buffer ends: however much garbage came, the receiver is back at
\* the line, or ended by a checksum.
ReceiverReturns == []<>(~running \/ WantsMore(buffer))

\* On a line without faults every message gets through, however the port cuts the stream
\* into chunks and whatever the payloads contain, with the receiver reading.
CleanMessagesArrive ==
    \A i \in 1..MaxSent :
        faults = 0 /\ Len(sent) >= i ~> Len(delivered) >= i \/ faults > 0

===============================================================================
