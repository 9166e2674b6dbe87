---------------------------- MODULE HostTransport ----------------------------
(***************************************************************************)
(* attester/host/src/transport.ts: the calls of openDevice over a serial   *)
(* port, in one Node process after another.                                *)
(*                                                                         *)
(* call() writes a frame and waits, once the write has completed, in a     *)
(* queue; the data handler gives each answer it unframes to the head of    *)
(* the queue; a timer takes a waiter out.  Each of these runs to           *)
(* completion; between them the event loop, the port, the device and the   *)
(* user interleave.                                                        *)
(***************************************************************************)
EXTENDS Naturals, Sequences

CONSTANTS
    Calls,          \* the calls ever made, each once
    MessageOf,      \* what each of them says, [Calls -> any]
    Oversized,      \* those whose message does not fit a frame
    Answers,        \* what the device may say
    Damages,        \* what the line may do to an answer
    MaxAnswers      \* bound: answers heard or on their way

\* "header": the magic is hit, the bytes are skipped.  "length": the length is, and the
\* frame takes more bytes than it has.  "body": the checksum tells.  "encoding": the
\* payload does not decode.
AllDamages == {"none", "header", "length", "body", "encoding"}

ASSUME HostBounds ==
    /\ DOMAIN MessageOf = Calls /\ Oversized \subseteq Calls
    /\ Damages \subseteq AllDamages
    /\ MaxAnswers \in Nat

VARIABLES
    port,           \* "off" between processes, "open", "closed"
    call,           \* [Calls -> state and the number of the answer]
    outgoing,       \* the calls being written, in order
    waiters,        \* the calls waiting for an answer, in order
    buffer,         \* frames received and not unframed
    toDevice,       \* the line: what was written and not read by the device
    toHost,         \* the line: frames on their way to the host
    heard,          \* history: the answers unframed, in order
    queued          \* history: the calls that ever waited, in order

hostVars == <<port, call, outgoing, waiters, buffer, toDevice, toHost, heard, queued>>

Frame == [answer : Answers, damage : AllDamages]

Pending == {"writing", "written", "waiting"}
Settled == {"resolved", "rejected", "timed out"}

Init ==
    /\ port = "off"
    /\ call = [c \in Calls |-> [state |-> "new", answer |-> 0]]
    /\ outgoing = <<>> /\ waiters = <<>> /\ buffer = <<>>
    /\ toDevice = <<>> /\ toHost = <<>>
    /\ heard = <<>> /\ queued = <<>>

\* splice(i - 1, 1), which is shift() for i = 1
Cut(s, i) == SubSeq(s, 1, i - 1) \o SubSeq(s, i + 1, Len(s))

\* splice at indexOf, if it is there
Without(s, c) ==
    IF \E i \in DOMAIN s : s[i] = c
    THEN Cut(s, CHOOSE i \in DOMAIN s : s[i] = c /\ \A j \in 1..i - 1 : s[j] # c)
    ELSE s

Becomes(c, state) == call' = [call EXCEPT ![c].state = state]

\* The process ends with this outcome of its calls; what had not settled never will.
ProcessEnds(outcome) ==
    /\ port' = "off"
    /\ call' = [c \in Calls |-> IF outcome[c].state \in Pending
                                THEN [outcome[c] EXCEPT !.state = "lost"] ELSE outcome[c]]
    /\ outgoing' = <<>> /\ waiters' = <<>> /\ buffer' = <<>>

------------------------------------------------------------------------------
(* openDevice, call and close *)

Open ==
    /\ port = "off"
    /\ port' = "open"
    /\ UNCHANGED <<call, outgoing, waiters, buffer, toDevice, toHost, heard, queued>>

\* call() encodes, frames and starts to write.
Call(c) ==
    /\ port # "off" /\ call[c].state = "new"
    /\ IF c \in Oversized THEN Becomes(c, "rejected") /\ UNCHANGED outgoing
                          ELSE Becomes(c, "writing") /\ outgoing' = Append(outgoing, c)
    /\ UNCHANGED <<port, waiters, buffer, toDevice, toHost, heard, queued>>

\* The bytes leave, in the order of the writes.
Transmit(c) ==
    /\ port = "open" /\ call[c].state = "writing"
    /\ \E i \in DOMAIN outgoing :
          outgoing[i] = c /\ \A j \in 1..i - 1 : call[outgoing[j]].state = "written"
    /\ toDevice' = Append(toDevice, MessageOf[c])
    /\ Becomes(c, "written")
    /\ UNCHANGED <<port, outgoing, waiters, buffer, toHost, heard, queued>>

\* The callback of write: only now does the call wait and its timer start.
Written(c) ==
    /\ outgoing # <<>> /\ c = Head(outgoing) /\ call[c].state = "written"
    /\ outgoing' = Tail(outgoing)
    /\ waiters' = Append(waiters, c)
    /\ queued' = Append(queued, c)
    /\ Becomes(c, "waiting")
    /\ UNCHANGED <<port, buffer, toDevice, toHost, heard>>

WriteFails(c) ==
    /\ outgoing # <<>> /\ c = Head(outgoing)
    /\ outgoing' = Tail(outgoing)
    /\ Becomes(c, "rejected")
    /\ UNCHANGED <<port, waiters, buffer, toDevice, toHost, heard, queued>>

WithoutFirst(s, c) == Tail(s)   \* mutant: shift() where splice(idx, 1) is meant

LeavesQueue(s, c) == Without(s, c)

GivesUpInSilence(c) == UNCHANGED call   \* mutant: the timer forgets to reject

GivesUp(c) == Becomes(c, "timed out")

\* The timer of a waiter fires.
Timeout(c) ==
    /\ port # "off" /\ call[c].state = "waiting"
    /\ waiters' = LeavesQueue(waiters, c)
    /\ GivesUp(c)
    /\ UNCHANGED <<port, outgoing, buffer, toDevice, toHost, heard, queued>>

Close ==
    /\ port = "open"
    /\ port' = "closed"
    /\ UNCHANGED <<call, outgoing, waiters, buffer, toDevice, toHost, heard, queued>>

\* The process is finished, or interrupted.
Exit ==
    /\ port # "off"
    /\ ProcessEnds(call)
    /\ UNCHANGED <<toDevice, toHost, heard, queued>>

------------------------------------------------------------------------------
(* The data handler *)

\* Where unframe throws or asks for more bytes.
Sticks(frames, i) == frames[i].damage \in {"length", "body"}

Passed(frames) ==
    LET stuck == {i \in DOMAIN frames : Sticks(frames, i)}
    IN  {i \in DOMAIN frames : \A j \in stuck : i < j}

\* A bad checksum is thrown at once, or when the bytes a bad length asks for are there.
Throws(frames, done) ==
    /\ done < Len(frames)
    /\ frames[done + 1].damage = "length" => done + 1 < Len(frames)

ServesTheLast(queue) == Len(queue)   \* mutant: pop() for shift()

Serves(queue) == 1

Settles(damage) == IF damage = "none" THEN "resolved" ELSE "rejected"

\* One round of the loop: a frame is skipped, or is answer number Len(heard) + 1, and
\* is given to the waiter shifted from the queue, if there is one.
Round(state, frame) ==
    LET served == state.waiters[Serves(state.waiters)]
        number == Len(state.heard) + 1
    IN  IF frame.damage = "header" THEN state
        ELSE IF state.waiters = <<>>
        THEN [waiters |-> <<>>, heard |-> Append(state.heard, frame.answer), call |-> state.call]
        ELSE [waiters |-> Cut(state.waiters, Serves(state.waiters)),
              heard |-> Append(state.heard, frame.answer),
              call |-> [state.call EXCEPT
                           ![served] = [state |-> Settles(frame.damage), answer |-> number]]]

\* Where the loop is when it has taken so many frames, one after another.
AfterRounds(start, frames, done) ==
    LET after[k \in 0..done] == IF k = 0 THEN start ELSE Round(after[k - 1], frames[k])
    IN  after[done]

Rest(frames, done) == SubSeq(frames, done + 1, Len(frames))

\* A data event brings n more frames, and the loop takes those that pass.
Data(n) ==
    LET frames == buffer \o SubSeq(toHost, 1, n)
        start == [waiters |-> waiters, heard |-> heard, call |-> call]
    IN  /\ port = "open" /\ n \in 1..Len(toHost)
        /\ toHost' = SubSeq(toHost, n + 1, Len(toHost))
        /\ \E done \in 0..Len(frames) :
              LET end == AfterRounds(start, frames, done)
              IN  /\ 1..done = Passed(frames)
                  /\ heard' = end.heard
                  /\ IF Throws(frames, done)
                     THEN ProcessEnds(end.call)
                     ELSE /\ call' = end.call
                          /\ waiters' = end.waiters
                          /\ buffer' = Rest(frames, done)
                          /\ UNCHANGED <<port, outgoing>>
        /\ UNCHANGED <<toDevice, queued>>

HostStep ==
    \/ Open
    \/ \E c \in Calls : Call(c) \/ Transmit(c) \/ Written(c) \/ WriteFails(c) \/ Timeout(c)
    \/ \E n \in 1..Len(toHost) : Data(n)
    \/ Close
    \/ Exit

------------------------------------------------------------------------------
(* The device *)

\* What it may write in one step: nothing, or an answer.
Said == {<<>>} \cup {<<[answer |-> a, damage |-> d]>> : a \in Answers, d \in Damages}

DeviceActs(n, frames) ==
    /\ Len(heard) + Len(buffer) + Len(toHost) + Len(frames) <= MaxAnswers
    /\ toDevice' = SubSeq(toDevice, n + 1, Len(toDevice))
    /\ toHost' = toHost \o frames
    /\ UNCHANGED <<port, call, outgoing, waiters, buffer, heard, queued>>

Next ==
    \/ HostStep
    \/ \E n \in 0..Len(toDevice), frames \in Said : DeviceActs(n, frames)

HostSpec == Init /\ [][Next]_hostVars

\* setTimeout fires.  Nothing is assumed of the port, the device or the user.
FairHostSpec == HostSpec /\ \A c \in Calls : WF_hostVars(Timeout(c))

------------------------------------------------------------------------------
(* Properties *)

\* Every variable has its type, and no frame is counted twice on its way.
HostTypeOK ==
    /\ port \in {"off", "open", "closed"}
    /\ call \in [Calls -> [state : {"new", "lost"} \cup Pending \cup Settled,
                           answer : 0..Len(heard)]]
    /\ outgoing \in Seq(Calls) /\ waiters \in Seq(Calls) /\ queued \in Seq(Calls)
    /\ buffer \in Seq(Frame) /\ toHost \in Seq(Frame) /\ toDevice \in Seq({MessageOf[c] : c \in Calls})
    /\ heard \in Seq(Answers)
    /\ Len(heard) + Len(buffer) + Len(toHost) <= MaxAnswers

\* The queue the handler serves holds exactly the calls that wait, each once and in the
\* order they began to: no answer is spent on a call that gave up, and none that waits
\* is passed over.
WaitersAreWhoWaits ==
    /\ \A c \in Calls :
          call[c].state = "waiting" <=> \E i \in DOMAIN waiters : waiters[i] = c
    /\ \A i, j \in DOMAIN waiters : i < j =>
          \E k, l \in DOMAIN queued : k < l /\ queued[k] = waiters[i] /\ queued[l] = waiters[j]
    /\ \A k, l \in DOMAIN queued : queued[k] = queued[l] => k = l

\* A call settles once: what it came to (an answer, an error, a timeout, the end of its
\* process) stands, whatever answer, timer or exit comes late.
OutcomesAreFinal ==
    [][\A c \in Calls : call[c].state \in Settled \cup {"lost"} => call'[c] = call[c]]_hostVars

\* Answers are handed out in the order in which they came, and none twice, however
\* timeouts, early answers and garbled frames fall between them.
AnswersKeepOrder ==
    \A i, j \in DOMAIN queued :
        i < j /\ call[queued[i]].answer # 0 /\ call[queued[j]].answer # 0
        => call[queued[i]].answer < call[queued[j]].answer

\* Whatever the device does, a call whose write completed is settled, or its process is gone.
WaitingEnds ==
    \A c \in Calls : call[c].state = "waiting" ~> call[c].state \in Settled \cup {"lost"}

===============================================================================
