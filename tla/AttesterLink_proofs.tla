-------------------------- MODULE AttesterLink_proofs --------------------------
(***************************************************************************)
(* The attest command against the device, for every number of runs, every  *)
(* proposal and every damage of the line.                                  *)
(*                                                                         *)
(* On the line the host takes only steps of HostTransport and the device   *)
(* only steps of AttesterFirmware, so that what is proved of each holds of *)
(* both together.  On top of that, as long as every run got its answer,    *)
(* there is at most one exchange under way and it is the running one's.    *)
(***************************************************************************)
EXTENDS AttesterLink, SequenceTheorems, TLAPS

HP == INSTANCE HostTransport_proofs WITH Oversized <- {}, Answers <- Device!Reply
DP == INSTANCE AttesterFirmware_proofs WITH inbox <- toDevice, outbox <- toHost

------------------------------------------------------------------------------
(* The two instances of each module, the model's and the proofs', agree *)

LEMMA HostConstants == HP!HostBounds
BY LinkBounds, Zenon DEF Host!HostBounds, HP!HostBounds, Host!AllDamages, HP!AllDamages

LEMMA DeviceConstants == DP!FirmwareBounds
<1>1. Device!Args = DP!Args
  BY DEF Device!Args, DP!Args
<1>2. Device!IntentHash = DP!IntentHash
  BY DEF Device!IntentHash, DP!IntentHash, Device!CanonicalIntentHash, DP!CanonicalIntentHash,
         Device!Canonical, DP!Canonical
<1>3. Device!Proposal = DP!Proposal
  BY <1>1, <1>2 DEF Device!Proposal, DP!Proposal
<1> QED BY LinkBounds, <1>3, Zenon DEF Device!FirmwareBounds, DP!FirmwareBounds

LEMMA SameData ==
    ASSUME NEW n \in 1..Len(toHost), Host!Data(n)
    PROVE  HP!Data(n)
<1>1. \A f : Host!Passed(f) = HP!Passed(f)
  BY Zenon DEF Host!Passed, HP!Passed, Host!Sticks, HP!Sticks
<1>2. \A f, d : Host!Throws(f, d) = HP!Throws(f, d) /\ Host!Rest(f, d) = HP!Rest(f, d)
  BY DEF Host!Throws, HP!Throws, Host!Rest, HP!Rest
<1>3. \A s, f, d : Host!AfterRounds(s, f, d) = HP!AfterRounds(s, f, d)
  BY Zenon DEF Host!AfterRounds, HP!AfterRounds, Host!Round, HP!Round, Host!Serves, HP!Serves,
     Host!Settles, HP!Settles, Host!Cut, HP!Cut
<1> QED
  BY Zenon, <1>1, <1>2, <1>3 DEF Host!Data, HP!Data, Host!ProcessEnds, HP!ProcessEnds,
     Host!Pending, HP!Pending

LEMMA SameHostStep == Host!HostStep => HP!HostStep
<1> USE DEF Host!Becomes, HP!Becomes, Host!ProcessEnds, HP!ProcessEnds, Host!Pending, HP!Pending
<1>1. Host!Open => HP!Open
  BY Zenon DEF Host!Open, HP!Open
<1>2. ASSUME NEW c \in Calls PROVE Host!Call(c) => HP!Call(c)
  BY Zenon DEF Host!Call, HP!Call
<1>3. ASSUME NEW c \in Calls PROVE Host!Transmit(c) => HP!Transmit(c)
  BY Zenon DEF Host!Transmit, HP!Transmit
<1>4. ASSUME NEW c \in Calls PROVE Host!Written(c) => HP!Written(c)
  BY Zenon DEF Host!Written, HP!Written
<1>5. ASSUME NEW c \in Calls PROVE Host!WriteFails(c) => HP!WriteFails(c)
  BY Zenon DEF Host!WriteFails, HP!WriteFails
<1>6. ASSUME NEW c \in Calls PROVE Host!Timeout(c) => HP!Timeout(c)
  BY Zenon DEF Host!Timeout, HP!Timeout, Host!LeavesQueue, HP!LeavesQueue, Host!Without,
     HP!Without, Host!Cut, HP!Cut, Host!GivesUp, HP!GivesUp
<1>7. Host!Close => HP!Close
  BY Zenon DEF Host!Close, HP!Close
<1>8. Host!Exit => HP!Exit
  BY Zenon DEF Host!Exit, HP!Exit
<1> QED
  BY Zenon, <1>1, <1>2, <1>3, <1>4, <1>5, <1>6, <1>7, <1>8, SameData DEF Host!HostStep, HP!HostStep

LEMMA SameHost ==
    /\ Host!Init <=> HP!Init
    /\ Host!hostVars = HP!hostVars
    /\ [Host!Next]_(Host!hostVars) => [HP!Next]_(HP!hostVars)
<1>1. Host!Init <=> HP!Init
  BY Zenon DEF Host!Init, HP!Init
<1>2. Host!hostVars = HP!hostVars
  BY Zenon DEF Host!hostVars, HP!hostVars
<1>3. Host!Said = HP!Said
  BY DEF Host!Said, HP!Said
<1>4. \A n, frames : Host!DeviceActs(n, frames) <=> HP!DeviceActs(n, frames)
  BY Zenon DEF Host!DeviceActs, HP!DeviceActs
<1>5. Host!Next => HP!Next
  BY Zenon, <1>3, <1>4, SameHostStep DEF Host!Next, HP!Next
<1>6. [Host!Next]_(Host!hostVars) => [HP!Next]_(HP!hostVars)
  BY Zenon, <1>5 DEF Host!hostVars, HP!hostVars
<1> QED BY <1>1, <1>2, <1>6

LEMMA SameDevice ==
    /\ Device!Init <=> DP!Init
    /\ [Device!Next]_(Device!deviceVars) => [DP!Next]_(DP!deviceVars)
<1>1. Device!Init <=> DP!Init
  BY Zenon DEF Device!Init, DP!Init
<1>2. Device!Next => DP!Next
  BY Zenon
     DEF Device!Next, DP!Next, Device!DeviceStep, DP!DeviceStep, Device!Hello, DP!Hello,
         Device!Enroll, DP!Enroll, Device!Drop, DP!Drop, Device!RefuseProposal, DP!RefuseProposal,
         Device!ShowProposal, DP!ShowProposal, Device!Confirm, DP!Confirm, Device!Decline,
         DP!Decline, Device!PowerCycle, DP!PowerCycle, Device!Receives, DP!Receives, Device!Send,
         DP!Send, Device!Answer, DP!Answer, Device!Reject, DP!Reject, Device!Refusal, DP!Refusal,
         Device!Acceptable, DP!Acceptable, Device!Replayed, DP!Replayed, Device!Decodes,
         DP!Decodes, Device!MatchesClaim, DP!MatchesClaim, Device!Canonical, DP!Canonical,
         Device!CanonicalIntentHash, DP!CanonicalIntentHash, Device!Rendered, DP!Rendered,
         Device!Remember, DP!Remember, Device!Arrive, DP!Arrive, Device!Deliver, DP!Deliver,
         Device!Message, DP!Message
<1> QED BY Zenon, <1>1, <1>2 DEF Device!deviceVars, DP!deviceVars

------------------------------------------------------------------------------
(* The device on this line takes steps of AttesterFirmware *)

\* What the host does to the two ends of the line.
HostTouchesLine ==
    \/ UNCHANGED <<toDevice, toHost>>
    \/ \E c \in Calls : toDevice' = Append(toDevice, MessageOf[c]) /\ toHost' = toHost
    \/ \E n \in 1..Len(toHost) :
          toHost' = SubSeq(toHost, n + 1, Len(toHost)) /\ toDevice' = toDevice

LEMMA HostPartTouchesLine == HostPart => HostTouchesLine
<1>1. ASSUME NEW c \in Calls, Start(c) \/ Transport(c) PROVE HostTouchesLine
  BY <1>1 DEF HostTouchesLine, Start, Transport, Host!Open, Host!Transmit, Host!Written,
              Host!WriteFails, Host!Timeout
<1>2. (Ask \/ Finish \/ Interrupt) => HostTouchesLine
  BY DEF HostTouchesLine, Ask, Finish, Interrupt, Host!Call, Host!Exit
<1>3. ASSUME NEW n \in 1..Len(toHost), Data(n) PROVE HostTouchesLine
  BY <1>3 DEF HostTouchesLine, Data, Host!Data
<1> QED BY <1>1, <1>2, <1>3 DEF HostPart

LEMMA LinkStepsDevice ==
    ASSUME DP!Types, [Next]_linkVars
    PROVE  [Device!Next]_(Device!deviceVars)
<1>1. toDevice \in Seq(DP!Message) /\ LineRoom \in Nat
  BY DeviceConstants DEF DP!Types, DP!DeviceTypeOK, DP!FirmwareBounds
<1>2. CASE UNCHANGED linkVars
  BY <1>2 DEF linkVars, deviceOwn, Device!deviceVars
<1>3. CASE DevicePart
  BY <1>3 DEF DevicePart, Device!Next
<1>4. CASE HostPart /\ Len(toDevice') <= LineRoom
  <2>1. UNCHANGED <<replayCache, confirming, display, boot, handled>>
    BY <1>4 DEF HostPart, deviceOwn
  <2>2. CASE UNCHANGED <<toDevice, toHost>>
    BY <2>1, <2>2 DEF Device!deviceVars
  <2>3. ASSUME NEW c \in Calls, toDevice' = Append(toDevice, MessageOf[c]), toHost' = toHost
        PROVE  Device!Next
    <3>1. MessageOf[c] \in Device!Message
      BY DEF MessageOf, Proposals, Device!Message
    <3>2. Len(toDevice) < LineRoom
      BY <1>1, <1>4, <2>3
    <3>3. Device!Arrive(MessageOf[c])
      BY <2>1, <2>3, <3>2 DEF Device!Arrive
    <3> QED BY <3>1, <3>3 DEF Device!Next
  <2>4. ASSUME NEW n \in 1..Len(toHost), toHost' = SubSeq(toHost, n + 1, Len(toHost)),
               toDevice' = toDevice
        PROVE  Device!Next
    BY <2>1, <2>4 DEF Device!Next, Device!Deliver
  <2> QED BY <1>4, <2>2, <2>3, <2>4, HostPartTouchesLine DEF HostTouchesLine
<1> QED BY <1>2, <1>3, <1>4 DEF Next

------------------------------------------------------------------------------
(* The host on this line takes steps of HostTransport *)

\* What the device does to the two ends of the line.
DeviceTouchesLine ==
    /\ \E n \in 0..Len(toDevice) : toDevice' = SubSeq(toDevice, n + 1, Len(toDevice))
    /\ \E frames \in Host!Said : toHost' = toHost \o frames

LEMMA Suffixes ==
    ASSUME NEW S, NEW s \in Seq(S)
    PROVE  /\ SubSeq(s, 1, Len(s)) = s
           /\ s # <<>> => 1 \in 0..Len(s) /\ Tail(s) = SubSeq(s, 1 + 1, Len(s))
           /\ s \o <<>> = s
           /\ \A x \in S : Append(s, x) = s \o <<x>>
OBVIOUS

LEMMA DevicePartTouchesLine ==
    ASSUME DP!Types, DevicePart
    PROVE  DeviceTouchesLine
<1>1. /\ toDevice \in Seq(DP!Message)
      /\ toHost \in Seq([answer : DP!Reply, damage : Damages])
  BY DEF DP!Types, DP!DeviceTypeOK
<1>2. DP!Reply = Device!Reply
  BY DEF DP!Reply, Device!Reply, DP!IntentHash, Device!IntentHash, DP!Reasons, Device!Reasons,
         DP!CanonicalIntentHash, Device!CanonicalIntentHash, DP!Canonical, Device!Canonical
<1>3. toDevice' = toDevice => \E n \in 0..Len(toDevice) : toDevice' = SubSeq(toDevice, n + 1, Len(toDevice))
  <2>1. 0 \in 0..Len(toDevice) /\ 0 + 1 = 1 /\ SubSeq(toDevice, 1, Len(toDevice)) = toDevice
    BY <1>1, Suffixes
  <2> QED BY <2>1
<1>4. ASSUME toDevice # <<>>, toDevice' = Tail(toDevice)
      PROVE  \E n \in 0..Len(toDevice) : toDevice' = SubSeq(toDevice, n + 1, Len(toDevice))
  BY <1>1, <1>4, Suffixes
<1>5. toHost' = toHost => \E frames \in Host!Said : toHost' = toHost \o frames
  <2>1. <<>> \in Host!Said /\ toHost \o <<>> = toHost
    BY <1>1, Suffixes DEF Host!Said
  <2> QED BY <2>1
<1>6. ASSUME NEW reply \in Device!Reply, Device!Send(reply)
      PROVE  \E frames \in Host!Said : toHost' = toHost \o frames
  <2>1. PICK d \in Damages : toHost' = Append(toHost, [answer |-> reply, damage |-> d])
    BY <1>6 DEF Device!Send
  <2> DEFINE f == [answer |-> reply, damage |-> d]
  <2>2. <<f>> \in Host!Said /\ f \in [answer : DP!Reply, damage : Damages]
    BY <1>2 DEF Host!Said
  <2> HIDE DEF f
  <2>3. toHost' = toHost \o <<f>>
    BY <1>1, <2>1, <2>2, Suffixes DEF f
  <2> QED BY <2>2, <2>3
<1>7. CASE Device!Hello \/ Device!Enroll
  <2>1. [type |-> "HelloAck"] \in Device!Reply /\ [type |-> "EnrollAck"] \in Device!Reply
    BY DEF Device!Reply
  <2>2. toDevice # <<>> /\ toDevice' = Tail(toDevice)
    BY <1>7 DEF Device!Hello, Device!Enroll, Device!Receives
  <2>3. \E frames \in Host!Said : toHost' = toHost \o frames
    BY <1>6, <1>7, <2>1 DEF Device!Hello, Device!Enroll
  <2> QED BY <1>4, <2>2, <2>3 DEF DeviceTouchesLine
<1>8. CASE Device!Drop
  BY <1>4, <1>5, <1>8 DEF Device!Drop, DeviceTouchesLine
<1>9. ASSUME NEW p \in Proposals, Device!RefuseProposal(p) PROVE DeviceTouchesLine
  <2>1. DP!RejectOf(p, Device!Refusal(p)) \in Device!Reply
    <3>1. Device!Refusal(p) \in DP!Reasons
      BY DEF Device!Refusal, DP!Reasons
    <3> QED BY <1>2, <3>1, DP!RepliesHold, DeviceConstants
  <2>2. Device!Send(DP!RejectOf(p, Device!Refusal(p)))
    BY <1>9 DEF Device!RefuseProposal, Device!Reject, Device!Answer, DP!RejectOf
  <2>3. toDevice # <<>> /\ toDevice' = Tail(toDevice)
    BY <1>9 DEF Device!RefuseProposal, Device!Receives
  <2> QED BY <1>4, <1>6, <2>1, <2>2, <2>3 DEF DeviceTouchesLine
<1>10. ASSUME NEW p \in Proposals, Device!ShowProposal(p) PROVE DeviceTouchesLine
  BY <1>4, <1>5, <1>10 DEF Device!ShowProposal, Device!Receives, DeviceTouchesLine
<1>11. ASSUME NEW p \in Proposals, Device!Confirm(p) PROVE DeviceTouchesLine
  <2>1. DP!AckOf(p) \in Device!Reply
    BY <1>2, DP!RepliesHold, DeviceConstants
  <2>2. Device!Send(DP!AckOf(p)) /\ toDevice' = toDevice
    BY <1>11 DEF Device!Confirm, Device!Answer, DP!AckOf
  <2> QED BY <1>3, <1>6, <2>1, <2>2 DEF DeviceTouchesLine
<1>12. ASSUME NEW p \in Proposals, Device!Decline(p) PROVE DeviceTouchesLine
  <2>1. DP!RejectOf(p, "UserCancelled") \in Device!Reply
    <3>1. "UserCancelled" \in DP!Reasons
      BY DEF DP!Reasons
    <3> QED BY <1>2, <3>1, DP!RepliesHold, DeviceConstants
  <2>2. Device!Send(DP!RejectOf(p, "UserCancelled")) /\ toDevice' = toDevice
    BY <1>12 DEF Device!Decline, Device!Reject, Device!Answer, DP!RejectOf
  <2> QED BY <1>3, <1>6, <2>1, <2>2 DEF DeviceTouchesLine
<1>13. CASE Device!PowerCycle
  BY <1>5, <1>13 DEF Device!PowerCycle, DeviceTouchesLine
<1> QED BY <1>7, <1>8, <1>9, <1>10, <1>11, <1>12, <1>13 DEF DevicePart, Device!DeviceStep

\* One process at a time, about one call.
OneRun ==
    /\ attest \in Calls \cup {NoCall}
    /\ port \in {"off", "open"} /\ (port = "off" <=> attest = NoCall)
    /\ \A c \in Calls : call[c].state \in HP!Pending => c = attest

LinkHolds == DP!Types /\ HP!HostHolds /\ OneRun

LEMMA LinkStepsHost ==
    ASSUME LinkHolds, [Next]_linkVars
    PROVE  [Host!Next]_(Host!hostVars)
<1>1. CASE UNCHANGED linkVars
  BY <1>1 DEF linkVars, hostOwn, Host!hostVars
<1>2. CASE HostPart
  <2>1. ASSUME NEW c \in Calls, Start(c) \/ Transport(c) PROVE Host!HostStep
    BY <2>1 DEF Start, Transport, Host!HostStep
  <2>2. attest # NoCall /\ Ask => Host!HostStep
    BY DEF LinkHolds, OneRun, Ask, Host!HostStep
  <2>3. Finish \/ Interrupt => Host!HostStep
    BY DEF Finish, Interrupt, Host!HostStep
  <2>4. ASSUME NEW n \in 1..Len(toHost), Data(n) PROVE Host!HostStep
    BY <2>4 DEF Data, Host!HostStep
  <2> QED BY <1>2, <2>1, <2>2, <2>3, <2>4 DEF HostPart, Host!Next
<1>3. CASE DevicePart /\ Len(heard') + Len(buffer') + Len(toHost') <= MaxAnswers
  <2>1. DeviceTouchesLine
    BY <1>3, DevicePartTouchesLine DEF LinkHolds
  <2>2. PICK n \in 0..Len(toDevice) : toDevice' = SubSeq(toDevice, n + 1, Len(toDevice))
    BY <2>1 DEF DeviceTouchesLine
  <2>3. PICK frames \in Host!Said : toHost' = toHost \o frames
    BY <2>1 DEF DeviceTouchesLine
  <2>4. /\ Len(heard) \in Nat /\ Len(buffer) \in Nat /\ toHost \in Seq(HP!Frame)
    BY DEF LinkHolds, HP!HostHolds, HP!Flow, HP!Held, HP!Books, HP!BookTypes
  <2>5. /\ Len(toHost') = Len(toHost) + Len(frames)
        /\ Len(toHost) \in Nat /\ Len(frames) \in Nat
    <3>1. frames = <<>> \/ \E f : frames = <<f>>
      BY DEF Host!Said
    <3>2. Len(toHost) \in Nat
      BY <2>4
    <3>3. CASE frames = <<>>
      <4>1. Len(toHost') = Len(toHost) /\ Len(frames) = 0
        BY <2>3, <2>4, <3>3
      <4> QED BY <3>2, <4>1
    <3>4. ASSUME NEW f, frames = <<f>>
          PROVE  Len(toHost') = Len(toHost) + Len(frames) /\ Len(frames) \in Nat
      <4>1. Len(toHost') = Len(toHost) + 1 /\ Len(frames) = 1
        BY <2>3, <2>4, <3>4
      <4> QED BY <4>1
    <3> QED BY <3>1, <3>2, <3>3, <3>4
  <2>6. UNCHANGED <<port, call, outgoing, waiters, buffer, heard, queued>>
    BY <1>3 DEF DevicePart, hostOwn
  <2>7. Len(heard) + Len(buffer) + Len(toHost) + Len(frames) <= MaxAnswers
    <3>1. Len(heard) + Len(buffer) + (Len(toHost) + Len(frames)) <= MaxAnswers
      BY <1>3, <2>5, <2>6
    <3>2. MaxAnswers \in Nat
      BY HostConstants DEF HP!HostBounds
    <3> QED BY <2>4, <2>5, <3>1, <3>2
  <2>8. Host!DeviceActs(n, frames)
    BY <2>2, <2>3, <2>6, <2>7 DEF Host!DeviceActs
  <2> QED BY <2>8 DEF Host!Next
<1> QED BY <1>1, <1>2, <1>3 DEF Next

\* A call that is under way was under way, or has just been made.
LEMMA PendingsStay ==
    ASSUME LinkHolds, HostPart, NEW c \in Calls, call'[c].state \in HP!Pending
    PROVE  call[c].state \in HP!Pending \/ (c = attest /\ Ask)
<1>1. call \in [Calls -> [state : HP!States, answer : 0..Len(heard)]] /\ outgoing \in Seq(Calls)
  BY DEF LinkHolds, HP!HostHolds, HP!Held, HP!Books, HP!BookTypes
<1>2. ASSUME NEW d \in Calls, NEW x, call' = [call EXCEPT ![d].state = x], d # c
      PROVE  call'[c] = call[c]
  BY <1>1, <1>2
<1>3. ASSUME NEW d \in Calls, Transport(d)
      PROVE  call[c].state \in HP!Pending
  <2>1. CASE d # c
    <3>1. \E x : call' = [call EXCEPT ![d].state = x]
      BY <1>3 DEF Transport, Host!Transmit, Host!Written, Host!WriteFails, Host!Timeout,
                  Host!GivesUp, Host!Becomes
    <3> QED BY <1>2, <2>1, <3>1
  <2>2. CASE d = c
    <3>1. CASE Host!WriteFails(d)
      BY <1>1, <2>2, <3>1 DEF Host!WriteFails, Host!Becomes, HP!Pending
    <3>2. CASE ~Host!WriteFails(d)
      BY <1>3, <2>2, <3>2 DEF Transport, Host!Transmit, Host!Written, Host!Timeout, HP!Pending
    <3> QED BY <3>1, <3>2
  <2> QED BY <2>1, <2>2
<1>4. ASSUME NEW d \in Calls, Start(d) PROVE call[c].state \in HP!Pending
  BY <1>4 DEF Start, Host!Open
<1>5. ASSUME attest # NoCall, Ask, c # attest PROVE call[c].state \in HP!Pending
  <2>1. attest \in Calls /\ \E x : call' = [call EXCEPT ![attest].state = x]
    BY <1>5 DEF LinkHolds, OneRun, Ask, Host!Call, Host!Becomes
  <2> QED BY <1>2, <1>5, <2>1
<1>6. Finish \/ Interrupt => call[c].state \in HP!Pending
  BY <1>1 DEF Finish, Interrupt, Host!Exit, Host!ProcessEnds, Host!Pending, HP!Pending
<1>7. ASSUME NEW n \in 1..Len(toHost), Data(n) PROVE call[c].state \in HP!Pending
  <2>1. HP!Data(n)
    BY <1>7, SameData DEF Data
  <2>2. \/ call'[c] = call[c]
        \/ call[c].state \in HP!Pending /\ call'[c].state \in {"resolved", "rejected", "lost"}
    BY <2>1, HP!DataSettles, HostConstants DEF LinkHolds
  <2> QED BY <2>2
<1> QED BY <1>3, <1>4, <1>5, <1>6, <1>7 DEF HostPart

LEMMA OneRunStays ==
    ASSUME LinkHolds, [Next]_linkVars
    PROVE  OneRun'
<1>1. /\ attest \in Calls \cup {NoCall} /\ NoCall \notin Calls
      /\ port \in {"off", "open"} /\ (port = "off" <=> attest = NoCall)
      /\ \A c \in Calls : call[c].state \in HP!Pending => c = attest
  BY LinkSorts DEF LinkHolds, OneRun
<1>2. CASE UNCHANGED linkVars
  BY <1>1, <1>2 DEF linkVars, hostOwn, OneRun
<1>3. CASE DevicePart
  BY <1>1, <1>3 DEF DevicePart, hostOwn, OneRun
<1>4. CASE HostPart
  <2>1. /\ attest' \in Calls \cup {NoCall} /\ port' \in {"off", "open"}
        /\ port' = "off" <=> attest' = NoCall
    <3>1. ASSUME NEW c \in Calls, Start(c)
          PROVE  attest' \in Calls /\ port' = "open" /\ attest' # NoCall
      BY <1>1, <3>1 DEF Start, Host!Open
    <3>2. ASSUME NEW c \in Calls, Transport(c) PROVE attest' = attest /\ port' = port
      BY <3>2 DEF Transport, Host!Transmit, Host!Written, Host!WriteFails, Host!Timeout
    <3>3. Ask => attest' = attest /\ port' = port
      BY DEF Ask, Host!Call
    <3>4. Finish \/ Interrupt => attest' = NoCall /\ port' = "off"
      BY DEF Finish, Interrupt, Host!Exit, Host!ProcessEnds
    <3>5. ASSUME NEW n \in 1..Len(toHost), Data(n)
          PROVE  /\ port = "open" /\ port' \in {"off", "open"}
                 /\ attest' = IF port' = "off" THEN NoCall ELSE attest
      BY <3>5 DEF Data, Host!Data, Host!ProcessEnds
    <3> QED BY <1>1, <1>4, <3>1, <3>2, <3>3, <3>4, <3>5 DEF HostPart
  <2>2. ASSUME NEW c \in Calls, call'[c].state \in HP!Pending PROVE c = attest'
    <3>1. c = attest /\ attest # NoCall
      BY <1>1, <1>4, <2>2, PendingsStay
    <3>2. ASSUME NEW d \in Calls, Start(d) PROVE FALSE
      BY <1>1, <3>1, <3>2 DEF Start, Host!Open
    <3>3. Finish \/ Interrupt => FALSE
      <4>1. ASSUME Host!Exit PROVE call'[c].state \notin HP!Pending
        <5>1. call[c] \in [state : HP!States, answer : 0..Len(heard)]
          BY DEF LinkHolds, HP!HostHolds, HP!Held, HP!Books, HP!BookTypes
        <5> QED BY <4>1, <5>1 DEF Host!Exit, Host!ProcessEnds, Host!Pending, HP!Pending
      <4> QED BY <2>2, <4>1 DEF Finish, Interrupt
    <3>4. ASSUME NEW n \in 1..Len(toHost), Data(n) PROVE attest' = attest
      <4>1. CASE port' # "off"
        BY <3>4, <4>1 DEF Data
      <4>2. CASE port' = "off"
        <5>1. Host!Data(n) /\ port = "open"
          BY <3>4 DEF Data, Host!Data
        <5>2. PICK outcome : Host!ProcessEnds(outcome)
          BY <4>2, <5>1 DEF Host!Data
        <5>3. call'[c].state # "waiting" /\ call'[c].state # "written" /\ call'[c].state # "writing"
          <6>1. call'[c] = IF outcome[c].state \in Host!Pending
                           THEN [outcome[c] EXCEPT !.state = "lost"] ELSE outcome[c]
            BY <5>2 DEF Host!ProcessEnds
          <6>2. \/ call'[c] = call[c]
                \/ call'[c].state \in {"resolved", "rejected", "lost"}
            BY <5>1, SameData, HP!DataSettles, HostConstants DEF LinkHolds
          <6>3. call[c] \in [state : HP!States, answer : 0..Len(heard)]
            BY DEF LinkHolds, HP!HostHolds, HP!Held, HP!Books, HP!BookTypes
          <6> QED BY <6>1, <6>2, <6>3 DEF Host!Pending
        <5> QED BY <2>2, <5>3 DEF HP!Pending
      <4> QED BY <4>1, <4>2
    <3>5. ASSUME NEW d \in Calls, Transport(d) PROVE attest' = attest
      BY <3>5 DEF Transport
    <3>6. Ask => attest' = attest
      BY DEF Ask
    <3> QED BY <1>4, <3>1, <3>2, <3>3, <3>4, <3>5, <3>6 DEF HostPart
  <2> QED BY <2>1, <2>2 DEF OneRun
<1> QED BY <1>2, <1>3, <1>4 DEF Next

LEMMA LinkInit == Init => LinkHolds
<1> SUFFICES ASSUME Init PROVE LinkHolds
  OBVIOUS
<1>1. DP!Types
  BY SameDevice, DeviceConstants, DP!InitTypes DEF Init
<1>2. HP!HostHolds
  BY SameHost, HostConstants, HP!HostInit DEF Init
<1>3. OneRun
  BY DEF Init, Host!Init, OneRun, HP!Pending
<1> QED BY <1>1, <1>2, <1>3 DEF LinkHolds

LEMMA LinkNext == LinkHolds /\ [Next]_linkVars => LinkHolds'
<1> SUFFICES ASSUME LinkHolds, [Next]_linkVars PROVE LinkHolds'
  OBVIOUS
<1>1. DP!Types'
  BY LinkStepsDevice, SameDevice, DeviceConstants, DP!NextTypes DEF LinkHolds
<1>2. HP!HostHolds'
  BY LinkStepsHost, SameHost, HostConstants, HP!HostNext DEF LinkHolds
<1> QED BY <1>1, <1>2, OneRunStays DEF LinkHolds

LEMMA LinkHoldsInvariant == LinkSpec => []LinkHolds
BY LinkInit, LinkNext, PTL DEF LinkSpec

\* With this device at the other end the host does what HostTransport says, so that its
\* queue and its answers keep what is proved of them.
THEOREM LinkImplementsHost == LinkSpec => Host!HostSpec
<1>1. Init => Host!Init
  BY DEF Init
<1>2. LinkHolds /\ [Next]_linkVars => [Host!Next]_(Host!hostVars)
  BY LinkStepsHost
<1> QED BY <1>1, <1>2, LinkHoldsInvariant, PTL DEF LinkSpec, Host!HostSpec

\* With this host at the other end the device does what AttesterFirmware says, so that
\* its replay window and its display keep what is proved of them.
THEOREM LinkImplementsDevice == LinkSpec => Device!DeviceSpec
<1>1. Init => Device!Init
  BY DEF Init
<1>2. LinkHolds /\ [Next]_linkVars => [Device!Next]_(Device!deviceVars)
  BY LinkStepsDevice DEF LinkHolds
<1> QED BY <1>1, <1>2, LinkHoldsInvariant, PTL DEF LinkSpec, Device!DeviceSpec

------------------------------------------------------------------------------
(* The one exchange under way, while no run gave up *)

Unbroken == \A c \in Calls : ~GaveUp(c)

\* The places where the exchange can be: nowhere, before the device, on its display,
\* before the host, or in the host's buffer behind a length that was garbled.
Nowhere == toDevice = <<>> /\ confirming = NoProposal /\ toHost = <<>> /\ buffer = <<>>

Asked ==
    /\ toDevice = <<MessageOf[attest]>>
    /\ confirming = NoProposal /\ toHost = <<>> /\ buffer = <<>>

OnDisplay ==
    /\ confirming = Request[attest]
    /\ toDevice = <<>> /\ toHost = <<>> /\ buffer = <<>>

Answered ==
    /\ Len(toHost) = 1 /\ toHost[1].answer.id = Request[attest].id
    /\ toDevice = <<>> /\ confirming = NoProposal /\ buffer = <<>>

HeldBack ==
    /\ buffer # <<>>
    /\ toDevice = <<>> /\ confirming = NoProposal /\ toHost = <<>>

OneUnderWay ==
    \/ Nowhere
    \/ /\ attest \in Calls /\ call[attest].state \in {"written", "waiting"}
       /\ Asked \/ OnDisplay \/ Answered \/ HeldBack

AnswersAreOwn ==
    \A c \in Calls : call[c].state = "resolved" => call[c].answer \in DOMAIN heard /\ IsOwn(c)

OneExchange == OneUnderWay /\ AnswersAreOwn

\* A run that gave up stays so: the history stays broken.
LEMMA GivingUpStays ==
    ASSUME LinkHolds, [Next]_linkVars, Unbroken'
    PROVE  Unbroken
<1> SUFFICES ASSUME NEW c \in Calls, GaveUp(c) PROVE GaveUp(c)'
  BY DEF Unbroken
<1>1. call[c].state \in HP!Settled \cup {"lost"}
  BY DEF GaveUp, HP!Settled
<1>2. [HP!Next]_(HP!hostVars)
  BY LinkStepsHost, SameHost
<1>3. call'[c] = call[c]
  BY <1>1, <1>2, HP!StepKeepsOutcomes, HostConstants DEF LinkHolds
<1> QED BY <1>3 DEF GaveUp

LEMMA CallTypes ==
    ASSUME LinkHolds
    PROVE  /\ call \in [Calls -> [state : HP!States, answer : 0..Len(heard)]]
           /\ heard \in Seq(Device!Reply) /\ Len(heard) \in Nat
           /\ waiters \in Seq(Calls) /\ outgoing \in Seq(Calls)
           /\ buffer \in Seq(HP!Frame) /\ toHost \in Seq(HP!Frame)
           /\ \A c \in Calls : call[c].state = "waiting" <=> \E i \in DOMAIN waiters : waiters[i] = c
           /\ \A i \in DOMAIN outgoing : call[outgoing[i]].state \in {"writing", "written"}
           /\ confirming \in Proposals \cup {NoProposal} /\ NoProposal \notin Proposals
BY DeviceConstants
   DEF LinkHolds, HP!HostHolds, HP!Held, HP!Flow, HP!Books, HP!BookTypes, HP!WhoWaits,
       HP!WritesFirst, DP!Types, DP!DeviceTypeOK, DP!FirmwareBounds

\* As long as nothing is heard, the answers given stay the callers' own.
LEMMA OwnAnswersStay ==
    ASSUME AnswersAreOwn, heard' = heard,
           \A c \in Calls : call'[c].state = "resolved" => call'[c] = call[c]
    PROVE  AnswersAreOwn'
BY DEF AnswersAreOwn, IsOwn

\* The process opens its port, makes its call, or ends with its call settled.
LEMMA RunKeepsExchange ==
    ASSUME LinkHolds, OneExchange, Unbroken', HostPart,
           (\E c \in Calls : Start(c)) \/ (attest # NoCall /\ Ask)
             \/ Finish \/ (attest # NoCall /\ Interrupt)
    PROVE  OneExchange'
<1>1. /\ attest \in Calls \cup {NoCall} /\ NoCall \notin Calls
      /\ (port = "off" <=> attest = NoCall)
  BY LinkSorts DEF LinkHolds, OneRun
<1>2. confirming' = confirming
  BY DEF HostPart, deviceOwn
<1>3. ASSUME NEW c \in Calls, Start(c) PROVE OneExchange'
  <2>1. Nowhere
    BY <1>1, <1>3 DEF OneExchange, OneUnderWay, Start, Host!Open
  <2>2. Nowhere' /\ heard' = heard /\ call' = call
    BY <1>2, <1>3, <2>1 DEF Nowhere, Start, Host!Open
  <2> QED BY <2>2, OwnAnswersStay DEF OneExchange, OneUnderWay
<1>4. ASSUME attest # NoCall, Ask PROVE OneExchange'
  <2>1. attest \in Calls /\ call[attest].state = "new"
    BY <1>1, <1>4 DEF Ask, Host!Call
  <2>2. Nowhere
    BY <2>1 DEF OneExchange, OneUnderWay
  <2>3. Nowhere' /\ heard' = heard
    BY <1>2, <1>4, <2>2 DEF Nowhere, Ask, Host!Call
  <2>4. ASSUME NEW c \in Calls, call'[c].state = "resolved" PROVE call'[c] = call[c]
    <3>1. \E x \in {"writing", "rejected"} : call' = [call EXCEPT ![attest].state = x]
      BY <1>4 DEF Ask, Host!Call, Host!Becomes
    <3> QED BY <2>1, <2>4, <3>1, CallTypes
  <2> QED BY <2>3, <2>4, OwnAnswersStay DEF OneExchange, OneUnderWay
<1>5. ASSUME attest # NoCall, Host!Exit PROVE OneExchange'
  <2>1. attest \in Calls
    BY <1>1, <1>5
  <2>2. /\ \A c \in Calls : call'[c] = IF call[c].state \in HP!Pending
                                      THEN [call[c] EXCEPT !.state = "lost"] ELSE call[c]
        /\ heard' = heard /\ toDevice' = toDevice /\ toHost' = toHost /\ buffer' = <<>>
    BY <1>5 DEF Host!Exit, Host!ProcessEnds, Host!Pending, HP!Pending
  <2>3. ASSUME NEW c \in Calls, call[c].state \in HP!Pending PROVE call'[c].state = "lost"
    <3>1. call[c] \in [state : HP!States, answer : 0..Len(heard)]
      BY CallTypes
    <3> QED BY <2>2, <2>3, <3>1
  <2>4. \A c \in Calls : call[c].state \notin HP!Pending /\ call'[c] = call[c]
    BY <2>2, <2>3 DEF Unbroken, GaveUp
  <2>5. Nowhere
    BY <2>1, <2>4 DEF OneExchange, OneUnderWay, HP!Pending
  <2>6. Nowhere'
    BY <1>2, <2>2, <2>5 DEF Nowhere
  <2> QED BY <2>2, <2>4, <2>6, OwnAnswersStay DEF OneExchange, OneUnderWay
<1> QED BY <1>1, <1>3, <1>4, <1>5 DEF Finish, Interrupt

\* The request leaves, or its write completes; every other end of a call gives it up.
LEMMA TransportKeepsExchange ==
    ASSUME LinkHolds, OneExchange, Unbroken', HostPart, NEW c \in Calls, Transport(c)
    PROVE  OneExchange'
<1>1. attest' = attest /\ confirming' = confirming
  BY DEF Transport, HostPart, deviceOwn
<1>2. call[c].state \in HP!Pending => c = attest
  BY DEF LinkHolds, OneRun
<1>3. ASSUME NEW x, call' = [call EXCEPT ![c].state = x], x # "resolved"
      PROVE  /\ call'[c].state = x
             /\ \A d \in Calls : call'[d].state = "resolved" => call'[d] = call[d]
  BY <1>3, CallTypes
<1>4. CASE Host!Transmit(c)
  <2>1. call[c].state = "writing" /\ c = attest
    BY <1>2, <1>4 DEF Host!Transmit, HP!Pending
  <2>2. Nowhere
    BY <2>1 DEF OneExchange, OneUnderWay
  <2>3. toDevice' = Append(toDevice, MessageOf[c]) /\ UNCHANGED <<toHost, buffer, heard>>
    BY <1>4 DEF Host!Transmit
  <2>4. call' = [call EXCEPT ![c].state = "written"]
    BY <1>4 DEF Host!Transmit, Host!Becomes
  <2>5. Asked'
    <3>1. toDevice' = <<MessageOf[c]>>
      BY <2>2, <2>3 DEF Nowhere
    <3> QED BY <1>1, <2>1, <2>2, <2>3, <3>1 DEF Asked, Nowhere
  <2>6. call'[attest'].state = "written"
    BY <1>1, <1>3, <2>1, <2>4
  <2>7. OneUnderWay'
    BY <1>1, <2>1, <2>5, <2>6 DEF OneUnderWay
  <2> QED BY <1>3, <2>3, <2>4, <2>7, OwnAnswersStay DEF OneExchange
<1>5. CASE Host!Written(c)
  <2>1. call[c].state = "written" /\ c = attest
    BY <1>2, <1>5 DEF Host!Written, HP!Pending
  <2>2. call' = [call EXCEPT ![c].state = "waiting"] /\ UNCHANGED <<toDevice, toHost, buffer, heard>>
    BY <1>5 DEF Host!Written, Host!Becomes
  <2>3. call'[c].state = "waiting"
    BY <1>3, <2>2
  <2>4. OneUnderWay'
    BY <1>1, <2>1, <2>2, <2>3
       DEF OneExchange, OneUnderWay, Nowhere, Asked, OnDisplay, Answered, HeldBack
  <2> QED BY <1>3, <2>2, <2>4, OwnAnswersStay DEF OneExchange
<1>6. CASE Host!WriteFails(c)
  <2>1. call'[c].state = "rejected"
    BY <1>3, <1>6 DEF Host!WriteFails, Host!Becomes
  <2> QED BY <2>1 DEF Unbroken, GaveUp
<1>7. CASE Host!Timeout(c)
  <2>1. call'[c].state = "timed out"
    BY <1>3, <1>7 DEF Host!Timeout, Host!GivesUp, Host!Becomes
  <2> QED BY <2>1 DEF Unbroken, GaveUp
<1> QED BY <1>4, <1>5, <1>6, <1>7 DEF Transport

LEMMA OneFrame ==
    ASSUME NEW f
    PROVE  SubSeq(<<f>>, 1, 1) = <<f>> /\ <<>> \o <<f>> = <<f>>
<1>1. <<f>> \in Seq({f}) /\ Len(<<f>>) = 1
  OBVIOUS
<1>2. \A s \in Seq({f}) : SubSeq(s, 1, Len(s)) = s /\ <<>> \o s = s
  BY Suffixes
<1> QED BY <1>1, <1>2

\* The answer arrives: it is the running call's, which waits for it or has not begun to.
LEMMA DataKeepsExchange ==
    ASSUME LinkHolds, OneExchange, Unbroken', HostPart, NEW n \in 1..Len(toHost), Data(n)
    PROVE  OneExchange'
<1>1. HP!Data(n) /\ attest' = (IF port' = "off" THEN NoCall ELSE attest) /\ confirming' = confirming
  BY SameData DEF Data, HostPart, deviceOwn
<1>2. toHost \in Seq(HP!Frame) /\ toHost # <<>> /\ n \in Nat
  BY CallTypes
<1>3. Answered /\ attest \in Calls /\ call[attest].state \in {"written", "waiting"}
  BY <1>2 DEF OneExchange, OneUnderWay, Nowhere, Asked, OnDisplay, HeldBack
<1> DEFINE f == toHost[1]
           start == [waiters |-> waiters, heard |-> heard, call |-> call]
<1>4. n = 1 /\ f \in HP!Frame /\ toHost = <<f>> /\ buffer = <<>>
  BY <1>2, <1>3 DEF Answered
<1>5. buffer \o SubSeq(toHost, 1, n) = <<f>> /\ Len(<<f>>) = 1 /\ DOMAIN <<f>> = 1..1
  <2> HIDE DEF f
  <2>1. SubSeq(<<f>>, 1, 1) = <<f>> /\ <<>> \o <<f>> = <<f>>
    BY OneFrame
  <2> QED BY <1>4, <2>1
<1>6. SubSeq(toHost, n + 1, Len(toHost)) = <<>>
  <2> HIDE DEF f
  <2>1. SubSeq(<<f>>, 1 + 1, 1) = <<>> /\ Len(<<f>>) = 1
    OBVIOUS
  <2> QED BY <1>4, <2>1
<1>7. f.answer.id = Request[attest].id /\ f.answer \in Device!Reply
  BY <1>3, <1>4 DEF Answered, HP!Frame
<1>8. toHost' = <<>> /\ toDevice' = <<>> /\ confirming' = NoProposal
  BY <1>1, <1>3, <1>6 DEF HP!Data, Answered
<1> HIDE DEF f
<1>9. PICK done \in 0..1 :
         LET end == HP!AfterRounds(start, <<f>>, done)
         IN  /\ 1..done = HP!Passed(<<f>>)
             /\ heard' = end.heard
             /\ IF HP!Throws(<<f>>, done)
                THEN HP!ProcessEnds(end.call)
                ELSE /\ call' = end.call
                     /\ waiters' = end.waiters
                     /\ buffer' = HP!Rest(<<f>>, done)
                     /\ UNCHANGED <<port, outgoing>>
  BY <1>1, <1>5 DEF HP!Data
<1>10. HP!Passed(<<f>>) = IF f.damage \in {"length", "body"} THEN {} ELSE {1}
  <2>1. \A i \in 1..1 : i = 1
    OBVIOUS
  <2>2. <<f>>[1] = f /\ ~(1 < 1)
    OBVIOUS
  <2> QED BY <1>5, <2>1, <2>2 DEF HP!Passed, HP!Sticks
<1>11. CASE f.damage \in {"length", "body"}
  <2>1. done = 0
    <3>1. 1 \notin 1..done
      BY <1>9, <1>10, <1>11
    <3> QED BY <3>1
  <2>2. HP!AfterRounds(start, <<f>>, 0) = start
    BY HostConstants, HP!ShortLoops
  <2>3. heard' = heard
    BY <1>9, <2>1, <2>2
  <2>4. CASE f.damage = "body"
    <3>1. HP!Throws(<<f>>, 0)
      <4>1. <<f>>[0 + 1] = f /\ 0 < 1
        OBVIOUS
      <4> QED BY <1>5, <2>4, <4>1 DEF HP!Throws
    <3>2. HP!ProcessEnds(call)
      BY <1>9, <2>1, <2>2, <3>1
    <3>3. call'[attest].state = "lost"
      <4>1. call[attest] \in [state : HP!States, answer : 0..Len(heard)]
        BY <1>3, CallTypes
      <4>2. call[attest].state \in HP!Pending
        BY <1>3 DEF HP!Pending
      <4> QED BY <1>3, <3>2, <4>1, <4>2 DEF HP!ProcessEnds
    <3> QED BY <1>3, <3>3 DEF Unbroken, GaveUp
  <2>5. CASE f.damage = "length"
    <3>1. ~HP!Throws(<<f>>, 0)
      <4>1. <<f>>[0 + 1] = f /\ ~(0 + 1 < 1)
        OBVIOUS
      <4> QED BY <1>5, <2>5, <4>1 DEF HP!Throws
    <3>2. call' = call /\ port' = port /\ buffer' = HP!Rest(<<f>>, 0)
      BY <1>9, <2>1, <2>2, <3>1
    <3>3. buffer' # <<>>
      <4>1. SubSeq(<<f>>, 1, 1) = <<f>> /\ <<f>> # <<>> /\ 0 + 1 = 1
        BY OneFrame
      <4> QED BY <1>5, <3>2, <4>1 DEF HP!Rest
    <3>4. attest' = attest
      BY <1>1, <1>3, <3>2, LinkSorts DEF LinkHolds, OneRun
    <3>5. OneUnderWay'
      BY <1>3, <1>8, <3>2, <3>3, <3>4 DEF OneUnderWay, HeldBack
    <3> QED BY <2>3, <3>2, <3>5, OwnAnswersStay DEF OneExchange
  <2> QED BY <1>11, <2>4, <2>5
<1>12. CASE f.damage \notin {"length", "body"}
  <2>1. done = 1
    <3>1. 1 \in 1..done
      BY <1>9, <1>10, <1>12
    <3> QED BY <3>1
  <2>2. HP!AfterRounds(start, <<f>>, 1) = HP!Round(start, f)
    <3>1. <<f>>[1] = f
      OBVIOUS
    <3> QED BY <3>1, HostConstants, HP!ShortLoops
  <2>3. ~HP!Throws(<<f>>, 1)
    BY <1>5 DEF HP!Throws
  <2>4. heard' = HP!Round(start, f).heard /\ call' = HP!Round(start, f).call
    BY <1>9, <2>1, <2>2, <2>3
  <2>5. buffer' = <<>>
    <3>1. SubSeq(<<f>>, 1 + 1, 1) = <<>>
      OBVIOUS
    <3> QED BY <1>5, <1>9, <2>1, <2>3, <3>1 DEF HP!Rest
  <2>6. Nowhere'
    BY <1>8, <2>5 DEF Nowhere
  <2>7. CASE f.damage = "header"
    <3>1. heard' = heard /\ call' = call
      BY <2>4, <2>7 DEF HP!Round
    <3> QED BY <2>6, <3>1, OwnAnswersStay DEF OneExchange, OneUnderWay
  <2>8. CASE f.damage # "header"
    <3>1. heard' = Append(heard, f.answer)
      BY <2>4, <2>8 DEF HP!Round
    <3>2. /\ Len(heard) + 1 \in DOMAIN heard' /\ heard'[Len(heard) + 1] = f.answer
          /\ \A i \in DOMAIN heard : i \in DOMAIN heard' /\ heard'[i] = heard[i]
      <4>1. heard \in Seq(Device!Reply) /\ f.answer \in Device!Reply
        BY <1>7, CallTypes
      <4> QED BY <3>1, <4>1
    <3>3. ASSUME NEW c \in Calls, call'[c].state = "resolved", call'[c] = call[c]
          PROVE  call'[c].answer \in DOMAIN heard' /\ heard'[call'[c].answer].id = Request[c].id
      BY <3>2, <3>3 DEF OneExchange, AnswersAreOwn, IsOwn
    <3>4. CASE waiters = <<>>
      <4>1. call' = call
        BY <2>4, <2>8, <3>4 DEF HP!Round
      <4>2. AnswersAreOwn'
        BY <3>3, <4>1 DEF AnswersAreOwn, IsOwn
      <4> QED BY <2>6, <4>2 DEF OneExchange, OneUnderWay
    <3>5. CASE waiters # <<>>
      <4>1. 1 \in DOMAIN waiters /\ waiters[1] \in Calls
        BY <3>5, CallTypes
      <4>2. waiters[1] = attest
        <5>1. call[waiters[1]].state = "waiting"
          BY <4>1, CallTypes
        <5> QED BY <4>1, <5>1 DEF LinkHolds, OneRun, HP!Pending
      <4>3. call' = [call EXCEPT ![attest] = [state |-> HP!Settles(f.damage), answer |-> Len(heard) + 1]]
        BY <2>4, <2>8, <3>5, <4>2 DEF HP!Round, HP!Serves
      <4>4. /\ call'[attest].answer = Len(heard) + 1
            /\ \A c \in Calls : c # attest => call'[c] = call[c]
        BY <1>3, <4>3, CallTypes
      <4>5. AnswersAreOwn'
        BY <1>7, <3>2, <3>3, <4>4 DEF AnswersAreOwn, IsOwn
      <4> QED BY <2>6, <4>5 DEF OneExchange, OneUnderWay
    <3> QED BY <3>4, <3>5
  <2> QED BY <2>7, <2>8
<1> QED BY <1>11, <1>12

\* The device takes the request, shows it, answers it, or loses it with its power.
LEMMA DeviceKeepsExchange ==
    ASSUME LinkHolds, OneExchange, DevicePart
    PROVE  OneExchange'
<1>1. /\ UNCHANGED <<port, call, outgoing, waiters, buffer, heard, queued>>
      /\ attest' = attest
  BY DEF DevicePart, hostOwn
<1>2. AnswersAreOwn'
  BY <1>1, OwnAnswersStay DEF OneExchange
<1>3. NoProposal \notin Proposals /\ \A p \in Proposals : p # NoProposal
  BY CallTypes
<1>4. ASSUME toDevice # <<>> PROVE Asked /\ attest \in Calls /\ call[attest].state \in {"written", "waiting"}
  BY <1>4 DEF OneExchange, OneUnderWay, Nowhere, OnDisplay, Answered, HeldBack
<1>5. ASSUME NEW p \in Proposals, confirming = p
      PROVE  OnDisplay /\ attest \in Calls /\ call[attest].state \in {"written", "waiting"}
  BY <1>3, <1>5 DEF OneExchange, OneUnderWay, Nowhere, Asked, Answered, HeldBack
<1>6. ASSUME toDevice # <<>>, toDevice' = Tail(toDevice)
      PROVE  toDevice' = <<>> /\ Head(toDevice) = [type |-> "ProposeIntent", proposal |-> Request[attest]]
  <2>1. toDevice = <<MessageOf[attest]>> /\ attest \in Calls
    BY <1>4, <1>6 DEF Asked
  <2> QED BY <1>6, <2>1 DEF MessageOf
<1>7. ASSUME toDevice' = <<>>, confirming' = NoProposal, buffer = <<>>, toHost = <<>>,
             NEW reply, Device!Send(reply), attest \in Calls,
             call[attest].state \in {"written", "waiting"}, reply.id = Request[attest].id
      PROVE  OneUnderWay'
  <2>1. PICK d \in Damages : toHost' = Append(toHost, [answer |-> reply, damage |-> d])
    BY <1>7 DEF Device!Send
  <2>2. Len(toHost') = 1 /\ toHost'[1] = [answer |-> reply, damage |-> d]
    BY <1>7, <2>1
  <2>3. toHost'[1].answer.id = Request[attest].id
    BY <1>7, <2>2
  <2> QED BY <1>1, <1>7, <2>2, <2>3 DEF OneUnderWay, Answered
<1>8. CASE Device!Hello \/ Device!Enroll
  <2>1. /\ toDevice # <<>> /\ toDevice' = Tail(toDevice)
        /\ Head(toDevice) \in {[type |-> "Hello"], [type |-> "Enroll"]}
    BY <1>8 DEF Device!Hello, Device!Enroll, Device!Receives
  <2>2. [type |-> "ProposeIntent", proposal |-> Request[attest]].type = "ProposeIntent"
    OBVIOUS
  <2>3. [type |-> "Hello"].type = "Hello" /\ [type |-> "Enroll"].type = "Enroll"
    OBVIOUS
  <2> QED BY <1>6, <2>1, <2>2, <2>3
<1>9. CASE Device!Drop
  <2>1. toDevice # <<>> /\ toDevice' = Tail(toDevice) /\ UNCHANGED <<toHost, confirming>>
    BY <1>9 DEF Device!Drop
  <2>2. Nowhere'
    BY <1>1, <1>4, <1>6, <2>1 DEF Nowhere, Asked
  <2> QED BY <1>2, <2>2 DEF OneExchange, OneUnderWay
<1>10. ASSUME NEW p \in Proposals, Device!RefuseProposal(p) PROVE OneUnderWay'
  <2>1. /\ toDevice # <<>> /\ toDevice' = Tail(toDevice) /\ confirming' = confirming
        /\ Head(toDevice) = [type |-> "ProposeIntent", proposal |-> p]
    BY <1>10 DEF Device!RefuseProposal, Device!Receives
  <2>2. p = Request[attest]
    BY <1>6, <2>1
  <2>3. Device!Send(DP!RejectOf(p, Device!Refusal(p))) /\ DP!RejectOf(p, Device!Refusal(p)).id = p.id
    BY <1>10 DEF Device!RefuseProposal, Device!Reject, Device!Answer, DP!RejectOf
  <2> QED BY <1>4, <1>6, <1>7, <2>1, <2>2, <2>3 DEF Asked
<1>11. ASSUME NEW p \in Proposals, Device!ShowProposal(p) PROVE OneUnderWay'
  <2>1. /\ toDevice # <<>> /\ toDevice' = Tail(toDevice) /\ confirming' = p /\ toHost' = toHost
        /\ Head(toDevice) = [type |-> "ProposeIntent", proposal |-> p]
    BY <1>11 DEF Device!ShowProposal, Device!Receives
  <2>2. p = Request[attest]
    BY <1>6, <2>1
  <2>3. OnDisplay'
    BY <1>1, <1>4, <1>6, <2>1, <2>2 DEF Asked, OnDisplay
  <2> QED BY <1>1, <1>4, <2>1, <2>3 DEF OneUnderWay
<1>12. ASSUME NEW p \in Proposals, Device!Confirm(p) PROVE OneUnderWay'
  <2>1. confirming = p /\ confirming' = NoProposal /\ toDevice' = toDevice
    BY <1>12 DEF Device!Confirm
  <2>2. Device!Send(DP!AckOf(p)) /\ DP!AckOf(p).id = p.id
    BY <1>12 DEF Device!Confirm, Device!Answer, DP!AckOf
  <2> QED BY <1>5, <1>7, <2>1, <2>2 DEF OnDisplay
<1>13. ASSUME NEW p \in Proposals, Device!Decline(p) PROVE OneUnderWay'
  <2>1. confirming = p /\ confirming' = NoProposal /\ toDevice' = toDevice
    BY <1>13 DEF Device!Decline
  <2>2. Device!Send(DP!RejectOf(p, "UserCancelled")) /\ DP!RejectOf(p, "UserCancelled").id = p.id
    BY <1>13 DEF Device!Decline, Device!Reject, Device!Answer, DP!RejectOf
  <2> QED BY <1>5, <1>7, <2>1, <2>2 DEF OnDisplay
<1>14. CASE Device!PowerCycle
  <2>1. PICK k \in 0..Len(toDevice) : toDevice' = SubSeq(toDevice, k + 1, Len(toDevice))
    BY <1>14 DEF Device!PowerCycle
  <2>2. confirming' = NoProposal /\ toHost' = toHost
    BY <1>14 DEF Device!PowerCycle
  <2>3. CASE toDevice = <<>>
    <3>1. toDevice' = <<>>
      BY <2>1, <2>3
    <3>2. Asked => FALSE
      BY <2>3 DEF Asked
    <3> QED BY <1>1, <1>2, <2>2, <2>3, <3>1, <3>2
            DEF OneExchange, OneUnderWay, Nowhere, OnDisplay, Answered, HeldBack
  <2>4. CASE toDevice # <<>>
    <3>1. Asked /\ attest \in Calls /\ call[attest].state \in {"written", "waiting"}
      BY <1>4, <2>4
    <3>2. toDevice' = toDevice \/ toDevice' = <<>>
      <4> DEFINE m == MessageOf[attest]
      <4>1. toDevice = <<m>>
        BY <3>1 DEF Asked
      <4> HIDE DEF m
      <4>2. k = 0 \/ k = 1
        BY <4>1
      <4>3. SubSeq(<<m>>, 1, 1) = <<m>> /\ SubSeq(<<m>>, 2, 1) = <<>> /\ Len(<<m>>) = 1
        BY OneFrame
      <4> QED BY <2>1, <4>1, <4>2, <4>3
    <3>3. Asked' \/ Nowhere'
      BY <1>1, <2>2, <3>1, <3>2 DEF Asked, Nowhere
    <3> QED BY <1>1, <1>2, <3>1, <3>3 DEF OneExchange, OneUnderWay
  <2> QED BY <2>3, <2>4
<1> QED BY <1>2, <1>8, <1>9, <1>10, <1>11, <1>12, <1>13, <1>14
        DEF OneExchange, DevicePart, Device!DeviceStep

UnbrokenExchange == Unbroken => OneExchange

LEMMA ExchangeStays == LinkHolds /\ UnbrokenExchange /\ [Next]_linkVars => UnbrokenExchange'
<1> SUFFICES ASSUME LinkHolds, UnbrokenExchange, [Next]_linkVars, Unbroken' PROVE OneExchange'
  BY DEF UnbrokenExchange
<1>1. OneExchange
  BY GivingUpStays DEF UnbrokenExchange
<1>2. CASE HostPart
  BY <1>1, <1>2, RunKeepsExchange, TransportKeepsExchange, DataKeepsExchange DEF HostPart
<1>3. CASE DevicePart
  BY <1>1, <1>3, DeviceKeepsExchange
<1>4. CASE UNCHANGED linkVars
  BY <1>1, <1>4 DEF linkVars, hostOwn, deviceOwn, OneExchange, OneUnderWay, AnswersAreOwn, IsOwn,
     Nowhere, Asked, OnDisplay, Answered, HeldBack
<1> QED BY <1>2, <1>3, <1>4 DEF Next

\* While every run of the command got an answer, each got its own: through refusals,
\* cancellations, headers lost on the line and restarts of the device, an answer goes
\* astray only after a run that ended without one.
THEOREM OnlyAbandonedRuns == LinkSpec => []OnlyAbandonedRunsMislead
<1>1. Init => UnbrokenExchange
  <2> SUFFICES ASSUME Init PROVE OneExchange
    BY DEF UnbrokenExchange
  <2>1. Nowhere
    BY DEF Init, Host!Init, Device!Init, Nowhere
  <2>2. AnswersAreOwn
    BY DEF Init, Host!Init, AnswersAreOwn
  <2> QED BY <2>1, <2>2 DEF OneExchange, OneUnderWay
<1>2. LinkHolds /\ UnbrokenExchange => OnlyAbandonedRunsMislead
  <2> SUFFICES ASSUME LinkHolds, UnbrokenExchange, NEW i \in DOMAIN queued,
                      call[queued[i]].state = "resolved", ~IsOwn(queued[i]), Unbroken
               PROVE  FALSE
    BY DEF OnlyAbandonedRunsMislead, Unbroken
  <2>1. queued[i] \in Calls
    BY DEF LinkHolds, HP!HostHolds, HP!Held, HP!Books, HP!BookTypes
  <2> QED BY <2>1 DEF UnbrokenExchange, OneExchange, AnswersAreOwn
<1> QED BY <1>1, <1>2, ExchangeStays, LinkHoldsInvariant, PTL DEF LinkSpec

================================================================================
