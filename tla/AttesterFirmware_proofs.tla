------------------------ MODULE AttesterFirmware_proofs ------------------------
(***************************************************************************)
(* AttesterFirmware for every set of proposals, every line and every size  *)
(* of the replay window.                                                   *)
(*                                                                         *)
(* What is signed follows from Showing: between ShowProposal and the       *)
(* button nothing changes the display or the proposal.  The replay window  *)
(* follows from CacheFollowsLog, which says where in replayCache each id   *)
(* signed since power-on stands: as many places from the end as ids were   *)
(* signed after it, until the window has passed over it.                   *)
(***************************************************************************)
EXTENDS AttesterFirmware, FiniteSetTheorems, TLAPS

Screens == {<<"boot">>, <<"enrollment">>, <<"complete">>}
              \cup {<<"intent", Lines[<<k, b>>]>> : k \in Kinds, b \in Bodies}

Entry == [proposal : Proposals, reply : Reply, shown : Screens, boot : 1..MaxBoots]

\* What DeviceTypeOK leaves out: the history and the display.
LogTypeOK ==
    /\ handled \in Seq(Entry)
    /\ display \in Screens
    /\ \A i \in DOMAIN handled : handled[i].boot <= boot

\* While a button is waited for, the display is of the proposal, which has been checked.
Showing ==
    confirming # NoProposal =>
        /\ display = Rendered(confirming)
        /\ MatchesClaim(confirming)
        /\ ~Replayed(confirming)

After(i) == Cardinality({k \in i + 1..Len(handled) : IsSigned(k)})

\* Where an id that was signed since power-on stands in the window.
CacheFollowsLog ==
    \A i \in DOMAIN handled : IsSigned(i) /\ handled[i].boot = boot =>
        \/ After(i) >= REPLAY_WINDOW
        \/ /\ After(i) < Len(replayCache)
           /\ replayCache[Len(replayCache) - After(i)] = handled[i].proposal.id

------------------------------------------------------------------------------
(* Replies and screens *)

LEMMA ProposalFields ==
    ASSUME NEW p \in Proposals
    PROVE  /\ p \in Proposal
           /\ p.id \in Ids /\ p.network \in Networks /\ p.vault \in Vaults /\ p.nonce \in Nonces
           /\ p.kind \in Kinds /\ p.args.body \in Bodies /\ p.hash \in IntentHash
           /\ p # NoProposal
BY FirmwareBounds DEF Proposal, Args

LEMMA ScreensHold ==
    /\ <<"boot">> \in Screens /\ <<"enrollment">> \in Screens /\ <<"complete">> \in Screens
    /\ \A p \in Proposals : Rendered(p) \in Screens
BY ProposalFields DEF Screens, Rendered

LEMMA RefusalIsReason ==
    ASSUME NEW p
    PROVE  Refusal(p) \in Reasons
BY DEF Refusal, Reasons

AckOf(p) == [type |-> "IntentAck", id |-> p.id, network |-> p.network, vault |-> p.vault,
             nonce |-> p.nonce, kind |-> p.kind, hash |-> p.hash]

RejectOf(p, reason) == [type |-> "IntentReject", id |-> p.id, reason |-> reason]

LEMMA RepliesHold ==
    /\ [type |-> "HelloAck"] \in Reply /\ [type |-> "EnrollAck"] \in Reply
    /\ \A p \in Proposals : AckOf(p) \in Reply
    /\ \A p \in Proposals, reason \in Reasons : RejectOf(p, reason) \in Reply
<1>1. [type |-> "HelloAck"] \in Reply /\ [type |-> "EnrollAck"] \in Reply
  BY DEF Reply
<1>2. ASSUME NEW p \in Proposals PROVE AckOf(p) \in Reply
  BY ProposalFields DEF Reply, AckOf
<1>3. ASSUME NEW p \in Proposals, NEW reason \in Reasons PROVE RejectOf(p, reason) \in Reply
  BY ProposalFields DEF Reply, RejectOf
<1> QED BY <1>1, <1>2, <1>3

------------------------------------------------------------------------------
(* Types *)

Types == DeviceTypeOK /\ LogTypeOK

LEMMA InitTypes == Init => Types
BY FirmwareBounds DEF Init, Types, DeviceTypeOK, LogTypeOK, Entry, Screens

LEMMA SendKeepsType ==
    ASSUME DeviceTypeOK, NEW reply \in Reply, Send(reply)
    PROVE  outbox' \in Seq([answer : Reply, damage : Damages])
BY DEF DeviceTypeOK, Send

\* Taking messages off the front leaves messages.
LEMMA SuffixKeepsType ==
    ASSUME NEW S, NEW s \in Seq(S), NEW n \in 0..Len(s)
    PROVE  SubSeq(s, n + 1, Len(s)) \in Seq(S)
OBVIOUS

LEMMA AnswerExtendsLog ==
    ASSUME Types, NEW p \in Proposals, NEW reply \in Reply, Answer(p, reply), boot' = boot
    PROVE  /\ handled' \in Seq(Entry)
           /\ \A i \in DOMAIN handled' : handled'[i].boot <= boot'
<1> DEFINE e == [proposal |-> p, reply |-> reply, shown |-> display, boot |-> boot]
<1>1. e \in Entry
  BY DEF Types, LogTypeOK, DeviceTypeOK, Entry
<1>2. handled' = Append(handled, e) /\ handled \in Seq(Entry) /\ e.boot = boot
  BY DEF Answer, Types, LogTypeOK
<1> HIDE DEF e
<1>3. handled' \in Seq(Entry)
  BY <1>1, <1>2
<1>4. ASSUME NEW i \in DOMAIN handled'
      PROVE  handled'[i].boot <= boot'
  <2>1. (i \in DOMAIN handled /\ handled'[i] = handled[i]) \/ handled'[i] = e
    BY <1>2, <1>4
  <2> QED BY <1>2, <2>1, FirmwareBounds DEF Types, LogTypeOK, DeviceTypeOK
<1> QED BY <1>3, <1>4

LEMMA RememberKeepsType ==
    ASSUME DeviceTypeOK, NEW id \in Ids
    PROVE  /\ Remember(replayCache, id) \in Seq(Ids)
           /\ Len(Remember(replayCache, id)) <= REPLAY_WINDOW
           /\ Remember(replayCache, id) # <<>>
<1> DEFINE kept == IF Len(replayCache) = REPLAY_WINDOW THEN Tail(replayCache) ELSE replayCache
<1>1. kept \in Seq(Ids) /\ Len(kept) < REPLAY_WINDOW
  BY FirmwareBounds DEF DeviceTypeOK
<1> QED BY <1>1, FirmwareBounds DEF Remember

LEMMA NextTypes ==
    ASSUME Types, [Next]_deviceVars
    PROVE  Types'
<1> USE DEF Types
<1>1. CASE Hello
  <2>1. outbox' \in Seq([answer : Reply, damage : Damages])
    BY <1>1, SendKeepsType, RepliesHold DEF Hello
  <2>2. inbox' \in Seq(Message)
    BY <1>1 DEF Hello, Receives, DeviceTypeOK
  <2> QED BY <1>1, <2>1, <2>2 DEF Hello, DeviceTypeOK, LogTypeOK
<1>2. CASE Enroll
  <2>1. outbox' \in Seq([answer : Reply, damage : Damages])
    BY <1>2, SendKeepsType, RepliesHold DEF Enroll
  <2>2. inbox' \in Seq(Message)
    BY <1>2 DEF Enroll, Receives, DeviceTypeOK
  <2> QED BY <1>2, <2>1, <2>2, ScreensHold DEF Enroll, DeviceTypeOK, LogTypeOK
<1>3. CASE Drop
  BY <1>3 DEF Drop, DeviceTypeOK, LogTypeOK
<1>4. ASSUME NEW p \in Proposals, RefuseProposal(p) PROVE Types'
  <2>1. RejectOf(p, Refusal(p)) \in Reply /\ Answer(p, RejectOf(p, Refusal(p)))
    BY <1>4, RepliesHold, RefusalIsReason DEF RefuseProposal, Reject, RejectOf
  <2>2. outbox' \in Seq([answer : Reply, damage : Damages])
    BY <2>1, SendKeepsType DEF Answer
  <2>3. boot' = boot /\ replayCache' = replayCache /\ confirming' = confirming
          /\ display' = display /\ inbox' \in Seq(Message)
    BY <1>4 DEF RefuseProposal, Receives, DeviceTypeOK
  <2> QED BY <2>1, <2>2, <2>3, AnswerExtendsLog DEF DeviceTypeOK, LogTypeOK
<1>5. ASSUME NEW p \in Proposals, ShowProposal(p) PROVE Types'
  BY <1>5, ScreensHold DEF ShowProposal, Receives, DeviceTypeOK, LogTypeOK
<1>6. ASSUME NEW p \in Proposals, Confirm(p) PROVE Types'
  <2>1. AckOf(p) \in Reply /\ Answer(p, AckOf(p))
    BY <1>6, RepliesHold DEF Confirm, AckOf
  <2>2. outbox' \in Seq([answer : Reply, damage : Damages])
    BY <2>1, SendKeepsType DEF Answer
  <2>3. replayCache' \in Seq(Ids) /\ Len(replayCache') <= REPLAY_WINDOW
    BY <1>6, RememberKeepsType, ProposalFields DEF Confirm
  <2>4. boot' = boot /\ confirming' = NoProposal /\ display' \in Screens /\ inbox' = inbox
    BY <1>6, ScreensHold DEF Confirm
  <2> QED BY <2>1, <2>2, <2>3, <2>4, AnswerExtendsLog DEF DeviceTypeOK, LogTypeOK
<1>7. ASSUME NEW p \in Proposals, Decline(p) PROVE Types'
  <2>1. RejectOf(p, "UserCancelled") \in Reply /\ Answer(p, RejectOf(p, "UserCancelled"))
    BY <1>7, RepliesHold DEF Decline, Reject, RejectOf, Reasons
  <2>2. outbox' \in Seq([answer : Reply, damage : Damages])
    BY <2>1, SendKeepsType DEF Answer
  <2>3. boot' = boot /\ replayCache' = replayCache /\ confirming' = NoProposal
          /\ display' = display /\ inbox' = inbox
    BY <1>7 DEF Decline
  <2> QED BY <2>1, <2>2, <2>3, AnswerExtendsLog DEF DeviceTypeOK, LogTypeOK
<1>8. CASE PowerCycle
  <2>1. inbox' \in Seq(Message)
    BY <1>8, SuffixKeepsType DEF PowerCycle, DeviceTypeOK
  <2>2. boot' = boot + 1 /\ boot' \in 1..MaxBoots
    BY <1>8, FirmwareBounds DEF PowerCycle, DeviceTypeOK
  <2>3. \A i \in DOMAIN handled : handled[i].boot <= boot + 1
    <3>1. \A i \in DOMAIN handled : handled[i] \in Entry
      BY DEF LogTypeOK
    <3>2. \A i \in DOMAIN handled : handled[i].boot \in Nat
      BY <3>1, FirmwareBounds DEF Entry
    <3> QED BY <3>2, FirmwareBounds DEF DeviceTypeOK, LogTypeOK
  <2> QED BY <1>8, <2>1, <2>2, <2>3, ScreensHold, FirmwareBounds
          DEF PowerCycle, DeviceTypeOK, LogTypeOK
<1>9. ASSUME NEW msg \in Message, Arrive(msg) PROVE Types'
  BY <1>9 DEF Arrive, DeviceTypeOK, LogTypeOK
<1>10. ASSUME NEW n \in 1..Len(outbox), Deliver(n) PROVE Types'
  <2>1. outbox' \in Seq([answer : Reply, damage : Damages])
    BY <1>10, SuffixKeepsType, n \in 0..Len(outbox) DEF Deliver, DeviceTypeOK
  <2> QED BY <1>10, <2>1 DEF Deliver, DeviceTypeOK, LogTypeOK
<1>11. CASE UNCHANGED deviceVars
  BY <1>11 DEF deviceVars, DeviceTypeOK, LogTypeOK
<1> QED BY <1>1, <1>2, <1>3, <1>4, <1>5, <1>6, <1>7, <1>8, <1>9, <1>10, <1>11
        DEF Next, DeviceStep

------------------------------------------------------------------------------
(* What the log gains *)

\* The window, the log and the boot count move together in three ways only: a restart,
\* a refusal that enters the log, and a signature that enters both.
LEMMA LogSteps ==
    ASSUME Types, [Next]_deviceVars
    PROVE  \/ handled' = handled /\ replayCache' = replayCache /\ boot' = boot
           \/ PowerCycle
           \/ \E p \in Proposals, reply \in Reply :
                 /\ Answer(p, reply) /\ reply.type = "IntentReject"
                 /\ replayCache' = replayCache /\ boot' = boot
           \/ \E p \in Proposals : Confirm(p)
<1>1. CASE Hello \/ Enroll \/ Drop \/ UNCHANGED deviceVars
  BY <1>1 DEF Hello, Enroll, Drop, deviceVars
<1>2. ASSUME NEW p \in Proposals, RefuseProposal(p)
      PROVE  \E reply \in Reply : /\ Answer(p, reply) /\ reply.type = "IntentReject"
                                 /\ replayCache' = replayCache /\ boot' = boot
  <2>1. RejectOf(p, Refusal(p)) \in Reply /\ Answer(p, RejectOf(p, Refusal(p)))
    BY <1>2, RepliesHold, RefusalIsReason DEF RefuseProposal, Reject, RejectOf
  <2> QED BY <1>2, <2>1 DEF RefuseProposal, RejectOf
<1>3. ASSUME NEW p \in Proposals, Decline(p)
      PROVE  \E reply \in Reply : /\ Answer(p, reply) /\ reply.type = "IntentReject"
                                 /\ replayCache' = replayCache /\ boot' = boot
  <2>1. RejectOf(p, "UserCancelled") \in Reply /\ Answer(p, RejectOf(p, "UserCancelled"))
    BY <1>3, RepliesHold DEF Decline, Reject, RejectOf, Reasons
  <2> QED BY <1>3, <2>1 DEF Decline, RejectOf
<1>4. ASSUME NEW p \in Proposals, ShowProposal(p)
      PROVE  handled' = handled /\ replayCache' = replayCache /\ boot' = boot
  BY <1>4 DEF ShowProposal
<1>5. CASE (\E msg \in Message : Arrive(msg)) \/ (\E n \in 1..Len(outbox) : Deliver(n))
  BY <1>5 DEF Arrive, Deliver
<1> QED BY <1>1, <1>2, <1>3, <1>4, <1>5 DEF Next, DeviceStep

LEMMA AnsweredEntry ==
    ASSUME Types, NEW p, NEW reply, Answer(p, reply)
    PROVE  /\ handled \in Seq(Entry)
           /\ Len(handled) \in Nat /\ DOMAIN handled = 1..Len(handled)
           /\ Len(handled') = Len(handled) + 1
           /\ DOMAIN handled' = 1..Len(handled) + 1
           /\ \A i \in 1..Len(handled) : handled'[i] = handled[i]
           /\ handled'[Len(handled) + 1] =
                 [proposal |-> p, reply |-> reply, shown |-> display, boot |-> boot]
BY DEF Types, LogTypeOK, Answer

\* The signatures between two entries are those that were there before.
LEMMA SignedBetween ==
    ASSUME Types, NEW p, NEW reply, Answer(p, reply),
           NEW a \in Nat, NEW b \in Nat, b <= Len(handled), a >= 1
    PROVE  {k \in a..b : IsSigned(k)}' = {k \in a..b : IsSigned(k)}
<1>1. \A k \in a..b : k \in 1..Len(handled)
  BY AnsweredEntry
<1>2. \A k \in a..b : IsSigned(k)' <=> IsSigned(k)
  BY <1>1, AnsweredEntry DEF IsSigned
<1> QED BY <1>2

LEMMA AfterIsNat ==
    ASSUME NEW i \in Nat, Len(handled) \in Nat
    PROVE  After(i) \in Nat /\ IsFiniteSet({k \in i + 1..Len(handled) : IsSigned(k)})
<1>1. IsFiniteSet(i + 1..Len(handled))
  BY FS_Interval
<1>2. IsFiniteSet({k \in i + 1..Len(handled) : IsSigned(k)})
  BY <1>1, FS_Subset
<1> QED BY <1>2, FS_CardinalityType DEF After

\* A refusal counts nothing and a signature counts one, after every entry.
LEMMA AfterGrows ==
    ASSUME Types, NEW p, NEW reply, Answer(p, reply), NEW i \in 1..Len(handled)
    PROVE  After(i)' = IF reply.type = "IntentAck" THEN After(i) + 1 ELSE After(i)
<1>1. PICK n \in Nat : n = Len(handled)
  BY AnsweredEntry
<1> DEFINE signed == {k \in i + 1..n : IsSigned(k)}
<1>2. i \in Nat /\ i <= n /\ Len(handled') = n + 1
  <2>1. Len(handled') = n + 1
    BY <1>1, AnsweredEntry
  <2>2. i \in 1..n
    BY <1>1
  <2> QED BY <2>1, <2>2
<1>3. \A k \in 1..n : handled'[k] = handled[k]
  BY <1>1, AnsweredEntry
<1>4. handled'[n + 1].reply = reply
  <2>1. handled'[n + 1] = [proposal |-> p, reply |-> reply, shown |-> display, boot |-> boot]
    BY <1>1, AnsweredEntry
  <2> QED BY <2>1
<1>5. \A k \in i + 1..n : IsSigned(k)' <=> IsSigned(k)
  BY <1>2, <1>3 DEF IsSigned
<1>6. {k \in i + 1..n : IsSigned(k)'} = signed
  BY <1>5
<1>7. IsFiniteSet(signed) /\ n + 1 \notin signed /\ Cardinality(signed) = After(i)
  <2>1. After(i) \in Nat /\ IsFiniteSet({k \in i + 1..Len(handled) : IsSigned(k)})
    BY <1>1, <1>2, AfterIsNat
  <2> QED BY <1>1, <2>1 DEF After
<1>8. After(i)' = Cardinality({k \in i + 1..n + 1 : IsSigned(k)'})
  BY <1>2 DEF After
<1>9. CASE reply.type = "IntentAck"
  <2>1. {k \in i + 1..n + 1 : IsSigned(k)'} = {k \in i + 1..n : IsSigned(k)'} \cup {n + 1}
    BY <1>2, <1>4, <1>9 DEF IsSigned
  <2>2. {k \in i + 1..n + 1 : IsSigned(k)'} = signed \cup {n + 1}
    BY <1>6, <2>1
  <2> QED BY <1>7, <1>8, <1>9, <2>2, FS_AddElement
<1>10. CASE reply.type # "IntentAck"
  <2>1. {k \in i + 1..n + 1 : IsSigned(k)'} = {k \in i + 1..n : IsSigned(k)'}
    BY <1>2, <1>4, <1>10 DEF IsSigned
  <2> QED BY <1>6, <1>7, <1>8, <1>10, <2>1
<1> QED BY <1>9, <1>10

------------------------------------------------------------------------------
(* What was on display *)

LEMMA InitShowing == Init => Showing /\ SignsOnlyWhatWasShown
BY DEF Init, Showing, SignsOnlyWhatWasShown

LEMMA NextShowing ==
    ASSUME Types, Showing, [Next]_deviceVars
    PROVE  Showing'
<1>1. CASE Hello \/ Enroll \/ Drop
  BY <1>1 DEF Hello, Enroll, Drop, Receives, Showing
<1>2. ASSUME NEW p \in Proposals, RefuseProposal(p) PROVE Showing'
  BY <1>2 DEF RefuseProposal, Receives, Showing
<1>3. ASSUME NEW p \in Proposals, ShowProposal(p) PROVE Showing'
  BY <1>3 DEF ShowProposal, Showing, Acceptable, Replayed
<1>4. CASE PowerCycle \/ \E p \in Proposals : Confirm(p) \/ Decline(p)
  BY <1>4 DEF PowerCycle, Confirm, Decline, Showing
<1>5. CASE \/ \E msg \in Message : Arrive(msg)
           \/ \E n \in 1..Len(outbox) : Deliver(n)
           \/ UNCHANGED deviceVars
  BY <1>5 DEF Arrive, Deliver, deviceVars, Showing, Replayed
<1> QED BY <1>1, <1>2, <1>3, <1>4, <1>5 DEF Next, DeviceStep

\* What one answer says of the display it was given under.
ShownTruly(e) ==
    \E b \in Bodies :
        /\ e.shown = <<"intent", Lines[<<e.reply.kind, b>>]>>
        /\ e.reply.hash = CanonicalIntentHash(e.reply.network, e.reply.vault, e.reply.nonce,
                                             e.reply.kind, Canonical(e.reply.kind, b))

LEMMA SignedAreShown ==
    SignsOnlyWhatWasShown <=> \A i \in DOMAIN handled : IsSigned(i) => ShownTruly(handled[i])
BY DEF SignsOnlyWhatWasShown, ShownTruly

\* The entry of a confirmation speaks of the proposal that was checked and shown.
LEMMA ConfirmedIsShown ==
    ASSUME Types, Showing, NEW p \in Proposals, Confirm(p)
    PROVE  ShownTruly([proposal |-> p, reply |-> AckOf(p), shown |-> display, boot |-> boot])
<1>1. p # NoProposal /\ p.args.body \in Bodies
  BY ProposalFields
<1>2. display = Rendered(p) /\ MatchesClaim(p)
  BY <1>1 DEF Confirm, Showing
<1> QED BY <1>1, <1>2 DEF ShownTruly, AckOf, Rendered, MatchesClaim

LEMMA NextShown ==
    ASSUME Types, Showing, SignsOnlyWhatWasShown, [Next]_deviceVars
    PROVE  SignsOnlyWhatWasShown'
<1>1. CASE handled' = handled
  BY <1>1 DEF SignsOnlyWhatWasShown, IsSigned
<1>2. ASSUME NEW p \in Proposals, NEW reply \in Reply, Answer(p, reply),
             reply.type = "IntentAck" =>
               ShownTruly([proposal |-> p, reply |-> reply, shown |-> display, boot |-> boot])
      PROVE  SignsOnlyWhatWasShown'
  <2>1. PICK n \in Nat : n = Len(handled)
    BY <1>2, AnsweredEntry
  <2> DEFINE e == [proposal |-> p, reply |-> reply, shown |-> display, boot |-> boot]
  <2>2. DOMAIN handled = 1..n /\ DOMAIN handled' = 1..n + 1
    BY <1>2, <2>1, AnsweredEntry
  <2>3. \A i \in 1..n : handled'[i] = handled[i]
    BY <1>2, <2>1, AnsweredEntry
  <2>4. handled'[n + 1] = e
    BY <1>2, <2>1, AnsweredEntry
  <2>5. ASSUME NEW i \in 1..n, IsSigned(i)' PROVE ShownTruly(handled'[i])
    BY <2>2, <2>3, <2>5, SignedAreShown DEF IsSigned
  <2>6. handled'[n + 1].reply.type = "IntentAck" => ShownTruly(handled'[n + 1])
    BY <1>2, <2>4
  <2>7. \A i \in 1..n + 1 : handled'[i].reply.type = "IntentAck" => ShownTruly(handled'[i])
    BY <2>5, <2>6 DEF IsSigned
  <2> HIDE DEF e
  <2>8. \A i \in DOMAIN handled' : IsSigned(i)' => ShownTruly(handled'[i])
    BY <2>2, <2>7 DEF IsSigned
  <2> QED BY <2>8 DEF SignsOnlyWhatWasShown, ShownTruly
<1>3. ASSUME NEW p \in Proposals, Confirm(p) PROVE SignsOnlyWhatWasShown'
  <2>1. Answer(p, AckOf(p)) /\ AckOf(p) \in Reply
    BY <1>3, RepliesHold DEF Confirm, AckOf
  <2> QED BY <1>2, <1>3, <2>1, ConfirmedIsShown
<1>4. ASSUME NEW p \in Proposals, NEW reply \in Reply, Answer(p, reply),
             reply.type = "IntentReject"
      PROVE  SignsOnlyWhatWasShown'
  BY <1>2, <1>4
<1> QED BY <1>1, <1>3, <1>4, LogSteps DEF PowerCycle

------------------------------------------------------------------------------
(* The replay window *)

LEMMA InitWindow == Init => CacheFollowsLog /\ ReplayWindowHolds
BY DEF Init, CacheFollowsLog, ReplayWindowHolds

\* Without a signature or a restart the window and what follows each entry stay.
LEMMA QuietKeepsWindow ==
    ASSUME CacheFollowsLog, handled' = handled, replayCache' = replayCache, boot' = boot
    PROVE  CacheFollowsLog'
BY DEF CacheFollowsLog, After, IsSigned

\* A restart leaves no entry of the boot it begins.
LEMMA RestartKeepsWindow ==
    ASSUME Types, PowerCycle
    PROVE  CacheFollowsLog'
<1>1. handled' = handled /\ boot' = boot + 1 /\ boot \in Nat
  BY FirmwareBounds DEF PowerCycle, Types, DeviceTypeOK
<1>2. \A i \in DOMAIN handled : handled[i].boot <= boot /\ handled[i].boot \in Nat
  <2>1. \A i \in DOMAIN handled : handled[i] \in Entry
    BY DEF Types, LogTypeOK
  <2> QED BY <2>1, FirmwareBounds DEF Types, LogTypeOK, Entry
<1>3. \A i \in DOMAIN handled' : handled'[i].boot # boot'
  BY <1>1, <1>2
<1> QED BY <1>3 DEF CacheFollowsLog

LEMMA RefusalKeepsWindow ==
    ASSUME Types, CacheFollowsLog, NEW p \in Proposals, NEW reply \in Reply,
           Answer(p, reply), reply.type = "IntentReject",
           replayCache' = replayCache, boot' = boot
    PROVE  CacheFollowsLog'
<1>1. PICK n \in Nat : n = Len(handled)
  BY AnsweredEntry
<1>2. DOMAIN handled = 1..n /\ DOMAIN handled' = 1..n + 1
  BY <1>1, AnsweredEntry
<1>3. \A i \in 1..n : handled'[i] = handled[i]
  BY <1>1, AnsweredEntry
<1>4. handled'[n + 1] =
        [proposal |-> p, reply |-> reply, shown |-> display, boot |-> boot]
  BY <1>1, AnsweredEntry
<1>5. \A i \in 1..n : After(i)' = After(i)
  BY <1>1, AfterGrows
<1>6. ASSUME NEW i \in 1..n, IsSigned(i)', handled'[i].boot = boot'
      PROVE  \/ After(i)' >= REPLAY_WINDOW
             \/ /\ After(i)' < Len(replayCache')
                /\ replayCache'[Len(replayCache') - After(i)'] = handled'[i].proposal.id
  <2>1. IsSigned(i) /\ handled[i].boot = boot
    BY <1>3, <1>6 DEF IsSigned
  <2> QED BY <1>2, <1>3, <1>5, <2>1 DEF CacheFollowsLog
<1>7. handled'[n + 1].reply.type # "IntentAck"
  BY <1>4
<1> QED BY <1>2, <1>6, <1>7 DEF CacheFollowsLog, IsSigned

\* Remembering an id moves the others one place on, and drops the oldest.
LEMMA RememberedPlaces ==
    ASSUME DeviceTypeOK, NEW id \in Ids
    PROVE  LET next == Remember(replayCache, id)
           IN  /\ Len(next) \in Nat /\ 0 < Len(next) /\ next[Len(next)] = id
               /\ \A a \in Nat : a < Len(replayCache) /\ a + 1 < REPLAY_WINDOW =>
                     /\ a + 1 < Len(next)
                     /\ next[Len(next) - (a + 1)] = replayCache[Len(replayCache) - a]
<1> DEFINE kept == IF Len(replayCache) = REPLAY_WINDOW THEN Tail(replayCache) ELSE replayCache
           next == Remember(replayCache, id)
<1>1. replayCache \in Seq(Ids) /\ Len(replayCache) <= REPLAY_WINDOW /\ REPLAY_WINDOW \in Nat
        /\ REPLAY_WINDOW > 0
  BY FirmwareBounds DEF DeviceTypeOK
<1>2. kept \in Seq(Ids)
  BY <1>1
<1>3. next = Append(kept, id)
  BY DEF Remember
<1>4. Len(next) = Len(kept) + 1 /\ next[Len(next)] = id /\ Len(kept) \in Nat
        /\ \A k \in 1..Len(kept) : next[k] = kept[k]
  <2> HIDE DEF kept, next
  <2> QED BY <1>2, <1>3
<1>5. ASSUME NEW a \in Nat, a < Len(replayCache), a + 1 < REPLAY_WINDOW
      PROVE  /\ a + 1 < Len(next)
             /\ next[Len(next) - (a + 1)] = replayCache[Len(replayCache) - a]
  <2>1. a < Len(kept) /\ kept[Len(kept) - a] = replayCache[Len(replayCache) - a]
    BY <1>1, <1>5
  <2>2. Len(kept) - a \in 1..Len(kept) /\ Len(next) - (a + 1) = Len(kept) - a
    BY <1>4, <2>1
  <2> QED BY <1>4, <2>1, <2>2
<1> QED BY <1>4, <1>5

LEMMA ConfirmKeepsWindow ==
    ASSUME Types, CacheFollowsLog, NEW p \in Proposals, Confirm(p)
    PROVE  CacheFollowsLog'
<1> DEFINE next == Remember(replayCache, p.id)
<1>1. Answer(p, AckOf(p)) /\ replayCache' = next /\ boot' = boot /\ p.id \in Ids
  BY ProposalFields DEF Confirm, AckOf
<1>2. PICK n \in Nat : n = Len(handled)
  BY <1>1, AnsweredEntry
<1>3. DOMAIN handled = 1..n /\ DOMAIN handled' = 1..n + 1
  BY <1>1, <1>2, AnsweredEntry
<1>4. \A i \in 1..n : handled'[i] = handled[i]
  BY <1>1, <1>2, AnsweredEntry
<1>5. handled'[n + 1] =
        [proposal |-> p, reply |-> AckOf(p), shown |-> display, boot |-> boot]
  BY <1>1, <1>2, AnsweredEntry
<1>6. \A i \in 1..n : After(i)' = After(i) + 1 /\ After(i) \in Nat
  <2>1. AckOf(p).type = "IntentAck"
    BY DEF AckOf
  <2>2. ASSUME NEW i \in 1..n
        PROVE  After(i)' = After(i) + 1
    BY <1>1, <1>2, <2>1, <2>2, AfterGrows
  <2>3. ASSUME NEW i \in 1..n
        PROVE  After(i) \in Nat
    BY <1>2, <2>3, AfterIsNat, i \in Nat
  <2> QED BY <2>2, <2>3
<1>7. /\ Len(next) \in Nat /\ 0 < Len(next) /\ next[Len(next)] = p.id
      /\ \A a \in Nat : a < Len(replayCache) /\ a + 1 < REPLAY_WINDOW =>
            /\ a + 1 < Len(next)
            /\ next[Len(next) - (a + 1)] = replayCache[Len(replayCache) - a]
  BY <1>1, RememberedPlaces DEF Types
<1> HIDE DEF next
<1>8. ASSUME NEW i \in 1..n, IsSigned(i)', handled'[i].boot = boot'
      PROVE  \/ After(i)' >= REPLAY_WINDOW
             \/ /\ After(i)' < Len(next)
                /\ next[Len(next) - After(i)'] = handled'[i].proposal.id
  <2>1. IsSigned(i) /\ handled[i].boot = boot
    BY <1>1, <1>4, <1>8 DEF IsSigned
  <2>2. \/ After(i) >= REPLAY_WINDOW
        \/ /\ After(i) < Len(replayCache)
           /\ replayCache[Len(replayCache) - After(i)] = handled[i].proposal.id
    BY <1>3, <2>1 DEF CacheFollowsLog
  <2>3. CASE After(i) + 1 >= REPLAY_WINDOW
    BY <1>6, <2>3
  <2>4. CASE After(i) + 1 < REPLAY_WINDOW
    <3>1. /\ After(i) + 1 < Len(next)
          /\ next[Len(next) - (After(i) + 1)] = handled[i].proposal.id
      BY <1>6, <1>7, <2>2, <2>4, FirmwareBounds
    <3> QED BY <1>4, <1>6, <3>1
  <2> QED BY <1>6, <2>3, <2>4, FirmwareBounds
<1>9. After(n + 1)' = 0
  <2>1. Len(handled') = n + 1
    BY <1>1, <1>2, AnsweredEntry
  <2>2. After(n + 1)' = Cardinality({k \in (n + 1) + 1..n + 1 : IsSigned(k)'})
    BY <2>1 DEF After
  <2>3. {k \in (n + 1) + 1..n + 1 : IsSigned(k)'} = {}
    OBVIOUS
  <2> QED BY <2>2, <2>3, FS_EmptySet
<1>10. ASSUME NEW i \in 1..n + 1, IsSigned(i)', handled'[i].boot = boot'
       PROVE  \/ After(i)' >= REPLAY_WINDOW
              \/ /\ After(i)' < Len(next)
                 /\ next[Len(next) - After(i)'] = handled'[i].proposal.id
  BY <1>5, <1>7, <1>8, <1>9, <1>10
<1> QED BY <1>1, <1>3, <1>10 DEF CacheFollowsLog

LEMMA NextWindow ==
    ASSUME Types, CacheFollowsLog, [Next]_deviceVars
    PROVE  CacheFollowsLog'
BY LogSteps, QuietKeepsWindow, RestartKeepsWindow, RefusalKeepsWindow, ConfirmKeepsWindow

\* Two signatures of one id in one boot have a window of others between them.
Apart(i, j) ==
    /\ IsSigned(i) /\ IsSigned(j)
    /\ handled[i].boot = handled[j].boot
    /\ handled[i].proposal.id = handled[j].proposal.id
    => Cardinality({k \in i + 1..j - 1 : IsSigned(k)}) >= REPLAY_WINDOW

LEMMA WindowIsApart ==
    ReplayWindowHolds <=> \A i, j \in DOMAIN handled : i < j => Apart(i, j)
BY DEF ReplayWindowHolds, Apart

\* What stands in the log stays apart when an answer is added.
LEMMA OldStayApart ==
    ASSUME Types, ReplayWindowHolds, NEW p, NEW reply, Answer(p, reply),
           NEW i \in 1..Len(handled), NEW j \in 1..Len(handled), i < j
    PROVE  Apart(i, j)'
<1>1. DOMAIN handled = 1..Len(handled) /\ Len(handled) \in Nat
  BY AnsweredEntry
<1>2. handled'[i] = handled[i] /\ handled'[j] = handled[j]
  BY AnsweredEntry
<1>3. Apart(i, j)
  BY <1>1, WindowIsApart
<1>4. {k \in i + 1..j - 1 : IsSigned(k)}' = {k \in i + 1..j - 1 : IsSigned(k)}
  <2>1. i + 1 \in Nat /\ j - 1 \in Nat /\ j - 1 <= Len(handled) /\ i + 1 >= 1
    BY <1>1
  <2> QED BY <2>1, SignedBetween
<1> QED BY <1>2, <1>3, <1>4 DEF Apart, IsSigned

\* A signature is given while its id is not in the window: the ids signed before it in
\* this boot have been passed over.
LEMMA ConfirmStaysApart ==
    ASSUME Types, Showing, CacheFollowsLog, NEW p \in Proposals, Confirm(p),
           NEW n \in Nat, n = Len(handled), NEW i \in 1..n
    PROVE  Apart(i, n + 1)'
<1>1. Answer(p, AckOf(p)) /\ p # NoProposal /\ confirming = p
  BY ProposalFields DEF Confirm, AckOf
<1>2. handled'[i] = handled[i] /\ i \in 1..n /\ DOMAIN handled = 1..n
  BY <1>1, AnsweredEntry
<1>3. handled'[n + 1] =
        [proposal |-> p, reply |-> AckOf(p), shown |-> display, boot |-> boot]
  BY <1>1, AnsweredEntry
<1>4. SUFFICES ASSUME IsSigned(i)', handled'[i].boot = handled'[n + 1].boot,
                      handled'[i].proposal.id = handled'[n + 1].proposal.id
               PROVE  Cardinality({k \in i + 1..n : IsSigned(k)'}) >= REPLAY_WINDOW
  BY DEF Apart
<1>5. IsSigned(i) /\ handled[i].boot = boot /\ handled[i].proposal.id = p.id
  BY <1>2, <1>3, <1>4 DEF IsSigned
<1>6. ~Replayed(p)
  BY <1>1 DEF Showing
<1>7. After(i) >= REPLAY_WINDOW
  <2>1. After(i) \in Nat
    BY <1>2, AfterIsNat, i \in Nat
  <2>2. replayCache \in Seq(Ids)
    BY DEF Types, DeviceTypeOK
  <2>3. ASSUME After(i) < Len(replayCache)
        PROVE  Len(replayCache) - After(i) \in DOMAIN replayCache
    BY <2>1, <2>2, <2>3
  <2> QED BY <1>2, <1>5, <1>6, <2>3 DEF CacheFollowsLog, Replayed
<1>8. {k \in i + 1..n : IsSigned(k)'} = {k \in i + 1..Len(handled) : IsSigned(k)}
  <2>1. \A k \in 1..n : handled'[k] = handled[k]
    BY <1>1, AnsweredEntry
  <2> QED BY <2>1 DEF IsSigned
<1> QED BY <1>7, <1>8 DEF After

LEMMA NextApart ==
    ASSUME Types, Showing, CacheFollowsLog, ReplayWindowHolds, [Next]_deviceVars
    PROVE  ReplayWindowHolds'
<1>1. CASE handled' = handled
  BY <1>1 DEF ReplayWindowHolds, IsSigned
<1>2. ASSUME NEW p \in Proposals, NEW reply \in Reply, Answer(p, reply),
             NEW n \in Nat, n = Len(handled),
             \A i \in 1..n : Apart(i, n + 1)'
      PROVE  ReplayWindowHolds'
  <2>1. DOMAIN handled' = 1..n + 1
    BY <1>2, AnsweredEntry
  <2>2. \A i, j \in 1..n : i < j => Apart(i, j)'
    BY <1>2, OldStayApart
  <2>3. \A i, j \in 1..n + 1 : i < j => Apart(i, j)'
    BY <1>2, <2>2
  <2> QED BY <2>1, <2>3 DEF ReplayWindowHolds, Apart
<1>3. ASSUME NEW p \in Proposals, Confirm(p) PROVE ReplayWindowHolds'
  <2>1. Answer(p, AckOf(p)) /\ AckOf(p) \in Reply
    BY <1>3, RepliesHold DEF Confirm, AckOf
  <2>2. PICK n \in Nat : n = Len(handled)
    BY <2>1, AnsweredEntry
  <2>3. \A i \in 1..n : Apart(i, n + 1)'
    BY <1>3, <2>2, ConfirmStaysApart
  <2> QED BY <1>2, <2>1, <2>2, <2>3
<1>4. ASSUME NEW p \in Proposals, NEW reply \in Reply, Answer(p, reply),
             reply.type = "IntentReject"
      PROVE  ReplayWindowHolds'
  <2>1. PICK n \in Nat : n = Len(handled)
    BY <1>4, AnsweredEntry
  <2>2. handled'[n + 1].reply.type # "IntentAck"
    <3>1. handled'[n + 1] =
            [proposal |-> p, reply |-> reply, shown |-> display, boot |-> boot]
      BY <1>4, <2>1, AnsweredEntry
    <3> QED BY <1>4, <3>1
  <2>3. \A i \in 1..n : Apart(i, n + 1)'
    <3>1. ASSUME NEW i \in 1..n PROVE Apart(i, n + 1)'
      BY <2>2 DEF Apart, IsSigned
    <3> QED BY <3>1
  <2> QED BY <1>2, <1>4, <2>1, <2>3
<1> QED BY <1>1, <1>3, <1>4, LogSteps DEF PowerCycle

------------------------------------------------------------------------------
(* The theorems *)

DeviceInv ==
    Types /\ Showing /\ SignsOnlyWhatWasShown /\ CacheFollowsLog /\ ReplayWindowHolds

LEMMA DeviceInvHolds == DeviceSpec => []DeviceInv
<1>1. Init => DeviceInv
  BY InitTypes, InitShowing, InitWindow DEF DeviceInv
<1>2. DeviceInv /\ [Next]_deviceVars => DeviceInv'
  BY NextTypes, NextShowing, NextShown, NextWindow, NextApart DEF DeviceInv
<1> QED BY <1>1, <1>2, PTL DEF DeviceSpec

\* Every message, answer and id in the device has its type, and the window its size.
THEOREM TypeCorrect == DeviceSpec => []DeviceTypeOK
BY DeviceInvHolds, PTL DEF DeviceInv, Types

\* The hash in every signature is that of an intent whose lines were on the display when
\* CONFIRM was pressed, whatever was refused, declined or repeated before.
THEOREM SignaturesWereShown == DeviceSpec => []SignsOnlyWhatWasShown
BY DeviceInvHolds, PTL DEF DeviceInv

\* In one boot an id is signed again only after REPLAY_WINDOW other signatures.
THEOREM WindowHolds == DeviceSpec => []ReplayWindowHolds
BY DeviceInvHolds, PTL DEF DeviceInv

================================================================================
