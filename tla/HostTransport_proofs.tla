------------------------- MODULE HostTransport_proofs -------------------------
(***************************************************************************)
(* The queue of waiters of openDevice, for every number of calls and       *)
(* answers, every damage and every interleaving.                           *)
(*                                                                         *)
(* A data event runs a loop, so what one round of it keeps is extended to  *)
(* the whole loop by induction, which is derived here from the             *)
(* well-foundedness of < on the naturals.                                  *)
(***************************************************************************)
EXTENDS HostTransport, SequenceTheorems, WellFoundedInduction, TLAPS

------------------------------------------------------------------------------
(* Induction, and the loop of the data handler *)

\* A set of naturals with 0 that is closed under successor has every natural number.
LEMMA InductionOnSets ==
    ASSUME NEW S, 0 \in S, \A n \in Nat : n \in S => n + 1 \in S
    PROVE  Nat \subseteq S
<1> DEFINE R == OpToRel(<, Nat)
<1> SUFFICES ASSUME Nat \ S # {} PROVE FALSE
  OBVIOUS
<1>1. IsWellFoundedOn(R, Nat)
  BY NatLessThanWellFounded
<1>2. \A m, n \in Nat : m < n => <<m, n>> \in R
  BY DEF OpToRel
<1> HIDE DEF R
<1>3. PICK n \in Nat \ S : \A m \in Nat \ S : ~(<<m, n>> \in R)
  BY <1>1, WFMin
<1>4. n # 0 /\ n - 1 \in Nat /\ n - 1 < n /\ (n - 1) + 1 = n
  BY <1>3
<1>5. n - 1 \in S
  BY <1>2, <1>3, <1>4
<1> QED BY <1>3, <1>4, <1>5

\* The states of the loop, from the start to where it is after so many frames.
IsRun(after, start, frames, done) ==
    after = [k \in 0..done |-> IF k = 0 THEN start ELSE Round(after[k - 1], frames[k])]

LEMMA LoopRuns ==
    ASSUME NEW start, NEW frames, NEW done \in Nat
    PROVE  \E after : /\ IsRun(after, start, frames, done)
                      /\ AfterRounds(start, frames, done) = after[done]
<1> DEFINE S == {n \in Nat : \E after : IsRun(after, start, frames, n)}
<1>1. 0 \in S
  <2> DEFINE g == [k \in 0..0 |-> start]
  <2>1. IsRun(g, start, frames, 0)
    BY DEF IsRun
  <2> QED BY <2>1
<1>2. ASSUME NEW n \in Nat, n \in S PROVE n + 1 \in S
  <2>1. PICK f : IsRun(f, start, frames, n)
    BY <1>2
  <2> DEFINE g == [k \in 0..n + 1 |-> IF k = n + 1 THEN Round(f[n], frames[n + 1]) ELSE f[k]]
             h == [k \in 0..n + 1 |-> IF k = 0 THEN start ELSE Round(g[k - 1], frames[k])]
  <2>2. ASSUME NEW k \in 0..n PROVE f[k] = IF k = 0 THEN start ELSE Round(f[k - 1], frames[k])
    <3>1. f = [i \in 0..n |-> IF i = 0 THEN start ELSE Round(f[i - 1], frames[i])]
      BY <2>1 DEF IsRun
    <3> QED BY <3>1
  <2>3. ASSUME NEW k \in 0..n + 1 PROVE g[k] = h[k]
    <3>1. CASE k = n + 1
      <4>1. n \in 0..n + 1 /\ n # n + 1 /\ k # 0 /\ k - 1 = n
        BY <3>1
      <4> QED BY <3>1, <4>1
    <3>2. CASE k \in 0..n
      <4>1. k # n + 1 /\ k \in 0..n + 1
        BY <3>2
      <4>2. k # 0 => k - 1 \in 0..n + 1 /\ k - 1 # n + 1
        BY <3>2
      <4>3. g[k] = f[k] /\ (k # 0 => g[k - 1] = f[k - 1])
        BY <4>1, <4>2
      <4> QED BY <2>2, <3>2, <4>1, <4>3
    <3> QED BY <3>1, <3>2
  <2>4. g = h
    BY <2>3
  <2>5. IsRun(g, start, frames, n + 1)
    BY <2>4 DEF IsRun
  <2> QED BY <2>5
<1>3. \E after : IsRun(after, start, frames, done)
  <2> HIDE DEF S
  <2>1. Nat \subseteq S
    BY <1>1, <1>2, InductionOnSets
  <2> QED BY <2>1 DEF S
<1>4. IsRun(CHOOSE after : IsRun(after, start, frames, done), start, frames, done)
  BY <1>3
<1> QED BY <1>4, Zenon DEF AfterRounds, IsRun

\* What the start has and every round keeps, the loop has at its end.
LEMMA LoopKeeps ==
    ASSUME NEW S, NEW start \in S, NEW frames, NEW done \in Nat,
           \A s \in S, k \in 1..done : Round(s, frames[k]) \in S
    PROVE  AfterRounds(start, frames, done) \in S
<1>1. PICK after : /\ IsRun(after, start, frames, done)
                   /\ AfterRounds(start, frames, done) = after[done]
  BY LoopRuns
<1>2. ASSUME NEW k \in 0..done
      PROVE  after[k] = IF k = 0 THEN start ELSE Round(after[k - 1], frames[k])
  <2>1. after = [i \in 0..done |-> IF i = 0 THEN start ELSE Round(after[i - 1], frames[i])]
    BY <1>1 DEF IsRun
  <2> QED BY <2>1
<1> DEFINE T == {k \in Nat : k <= done => after[k] \in S}
<1>3. 0 \in T
  BY <1>2
<1>4. ASSUME NEW k \in Nat, k \in T PROVE k + 1 \in T
  <2> SUFFICES ASSUME k + 1 <= done PROVE after[k + 1] \in S
    OBVIOUS
  <2>1. k + 1 \in 0..done /\ k + 1 \in 1..done /\ k + 1 # 0 /\ (k + 1) - 1 = k /\ k <= done
    OBVIOUS
  <2>2. after[k + 1] = Round(after[k], frames[k + 1])
    BY <1>2, <2>1
  <2> QED BY <1>4, <2>1, <2>2
<1>5. Nat \subseteq T
  <2> HIDE DEF T
  <2> QED BY <1>3, <1>4, InductionOnSets
<1> QED BY <1>1, <1>5

\* A loop that takes one frame, or none.
LEMMA ShortLoops ==
    ASSUME NEW start, NEW frames
    PROVE  /\ AfterRounds(start, frames, 0) = start
           /\ AfterRounds(start, frames, 1) = Round(start, frames[1])
<1>1. AfterRounds(start, frames, 0) = start
  <2>1. PICK after : /\ IsRun(after, start, frames, 0)
                     /\ AfterRounds(start, frames, 0) = after[0]
    BY LoopRuns
  <2> QED BY <2>1 DEF IsRun
<1>2. AfterRounds(start, frames, 1) = Round(start, frames[1])
  <2>1. PICK after : /\ IsRun(after, start, frames, 1)
                     /\ AfterRounds(start, frames, 1) = after[1]
    BY LoopRuns
  <2>2. after = [k \in 0..1 |-> IF k = 0 THEN start ELSE Round(after[k - 1], frames[k])]
    BY <2>1 DEF IsRun
  <2>3. 0 \in 0..1 /\ 1 \in 0..1 /\ 1 - 1 = 0 /\ 1 # 0
    OBVIOUS
  <2>4. after[0] = start
    BY <2>2, <2>3
  <2>5. after[1] = Round(after[1 - 1], frames[1])
    BY <2>2, <2>3
  <2> QED BY <2>1, <2>3, <2>4, <2>5
<1> QED BY <1>1, <1>2

------------------------------------------------------------------------------
(* The books: who waits, who is being written, who got which answer.  They *)
(* are operators of the variables, so that they can be said of the states  *)
(* the loop goes through as well.                                          *)

States == {"new", "lost"} \cup Pending \cup Settled

BookTypes(w, cs, h, o, q) ==
    /\ w \in Seq(Calls) /\ o \in Seq(Calls) /\ q \in Seq(Calls)
    /\ h \in Seq(Answers)
    /\ cs \in [Calls -> [state : States, answer : 0..Len(h)]]

QueuedOnce(q) == \A k, l \in DOMAIN q : q[k] = q[l] => k = l

\* The waiters are who waits, and stand in the order in which they began to.
WhoWaits(w, cs, q) ==
    /\ \A c \in Calls : cs[c].state = "waiting" <=> \E i \in DOMAIN w : w[i] = c
    /\ \A i \in DOMAIN w : \E k \in DOMAIN q : q[k] = w[i]
    /\ \A i, j \in DOMAIN w, k, l \in DOMAIN q :
          i < j /\ q[k] = w[i] /\ q[l] = w[j] => k < l

\* A call is written once, before it waits, and got no answer until then.
WritesFirst(cs, o, q) ==
    /\ \A i, j \in DOMAIN o : o[i] = o[j] => i = j
    /\ \A i \in DOMAIN o : cs[o[i]].state \in {"writing", "written"}
    /\ \A k \in DOMAIN q : cs[q[k]].state \notin {"new", "writing", "written"}
    /\ \A c \in Calls : cs[c].state \in {"new"} \cup Pending => cs[c].answer = 0

\* Answers follow the order of the waits, and pass nobody over who still waits.
ServedInTurn(cs, q) ==
    \A k, l \in DOMAIN q : k < l =>
        /\ cs[q[k]].state = "waiting" => cs[q[l]].answer = 0
        /\ cs[q[k]].answer # 0 /\ cs[q[l]].answer # 0 => cs[q[k]].answer < cs[q[l]].answer

Books(w, cs, h, o, q) ==
    /\ BookTypes(w, cs, h, o, q) /\ QueuedOnce(q) /\ WhoWaits(w, cs, q)
    /\ WritesFirst(cs, o, q) /\ ServedInTurn(cs, q)

LEMMA CutProperties ==
    ASSUME NEW S, NEW s \in Seq(S), NEW i \in DOMAIN s
    PROVE  /\ Cut(s, i) \in Seq(S) /\ Len(Cut(s, i)) = Len(s) - 1
           /\ DOMAIN Cut(s, i) = 1..Len(s) - 1
           /\ \A j \in 1..Len(s) - 1 : Cut(s, i)[j] = IF j < i THEN s[j] ELSE s[j + 1]
<1> DEFINE a == SubSeq(s, 1, i - 1)
           b == SubSeq(s, i + 1, Len(s))
<1>1. i \in 1..Len(s) /\ Len(s) \in Nat
  OBVIOUS
<1>2. a \in Seq(S) /\ Len(a) = i - 1 /\ \A j \in 1..i - 1 : a[j] = s[j]
  BY <1>1, SubSeqProperties
<1>3. b \in Seq(S) /\ Len(b) = Len(s) - i /\ \A j \in 1..Len(s) - i : b[j] = s[i + j]
  <2>1. i + 1 \in 1..Len(s) + 1 /\ (i + 1 > Len(s) => i = Len(s))
    BY <1>1
  <2> QED BY <1>1, <2>1, SubSeqProperties
<1> HIDE DEF a, b
<1>4. /\ a \o b \in Seq(S) /\ Len(a \o b) = Len(s) - 1
      /\ \A j \in 1..Len(s) - 1 : (a \o b)[j] = IF j <= i - 1 THEN a[j] ELSE b[j - (i - 1)]
  <2>1. /\ a \o b \in Seq(S) /\ Len(a \o b) = Len(a) + Len(b)
        /\ \A j \in 1..Len(a) + Len(b) : (a \o b)[j] = IF j <= Len(a) THEN a[j] ELSE b[j - Len(a)]
    BY <1>2, <1>3, ConcatProperties
  <2>2. Len(a) = i - 1 /\ Len(a) + Len(b) = Len(s) - 1
    BY <1>1, <1>2, <1>3
  <2> QED BY <2>1, <2>2
<1>5. ASSUME NEW j \in 1..Len(s) - 1
      PROVE  (a \o b)[j] = IF j < i THEN s[j] ELSE s[j + 1]
  <2>1. CASE j < i
    <3>1. j \in 1..i - 1 /\ j <= i - 1
      BY <1>1, <2>1
    <3> QED BY <1>2, <1>4, <2>1, <3>1
  <2>2. CASE ~(j < i)
    <3>1. j - (i - 1) \in 1..Len(s) - i /\ ~(j <= i - 1) /\ i + (j - (i - 1)) = j + 1
      BY <1>1, <2>2
    <3> QED BY <1>3, <1>4, <2>2, <3>1
  <2> QED BY <2>1, <2>2
<1>6. DOMAIN (a \o b) = 1..Len(s) - 1
  BY <1>4
<1>7. Cut(s, i) = a \o b
  BY DEF Cut, a, b
<1> QED BY <1>4, <1>5, <1>6, <1>7

\* Where two of what a cut leaves had stood.
LEMMA PlacesBesideACut ==
    ASSUME NEW n \in Nat, NEW i \in 1..n, NEW j \in 1..n - 1, NEW l \in 1..n - 1, j < l
    PROVE  /\ (IF j < i THEN j ELSE j + 1) \in 1..n
           /\ (IF l < i THEN l ELSE l + 1) \in 1..n
           /\ (IF j < i THEN j ELSE j + 1) < (IF l < i THEN l ELSE l + 1)
OBVIOUS

\* A waiter who leaves the queue settled, by an answer to the first or by a timer,
\* leaves the books in order.
LEMMA LeavingKeepsWaiters ==
    ASSUME NEW w \in Seq(Calls), NEW cs, NEW q \in Seq(Calls), NEW i \in DOMAIN w, NEW r,
           cs \in [Calls -> [state : States, answer : Nat]],
           QueuedOnce(q), WhoWaits(w, cs, q), r.state \in Settled
    PROVE  WhoWaits(Cut(w, i), [cs EXCEPT ![w[i]] = r], q)
<1> DEFINE c == w[i]
           cs2 == [cs EXCEPT ![c] = r]
           w2 == Cut(w, i)
<1>1. c \in Calls /\ Len(w) \in Nat /\ DOMAIN w = 1..Len(w) /\ i \in 1..Len(w)
  OBVIOUS
<1>2. /\ DOMAIN w2 = 1..Len(w) - 1
      /\ \A j \in 1..Len(w) - 1 : w2[j] = IF j < i THEN w[j] ELSE w[j + 1]
  BY CutProperties
<1>3. \A j, k \in DOMAIN w : w[j] = w[k] => j = k
  <2> SUFFICES ASSUME NEW j \in DOMAIN w, NEW k \in DOMAIN w, w[j] = w[k], j < k PROVE FALSE
    <3>1. \A j, k \in DOMAIN w : j < k \/ k < j \/ j = k
      BY <1>1
    <3> QED BY <3>1
  <2>1. PICK l \in DOMAIN q : q[l] = w[j]
    BY DEF WhoWaits
  <2>2. l < l
    BY <2>1 DEF WhoWaits
  <2> QED BY <2>2
<1>4. /\ c \in Calls /\ cs2[c] = r /\ r.state # "waiting"
      /\ \A d \in Calls : d # c => cs2[d] = cs[d]
  BY <1>1 DEF Settled
<1>5. ASSUME NEW j \in DOMAIN w2 PROVE \E k \in DOMAIN w : w2[j] = w[k] /\ k # i
  <2>1. j < i => j \in DOMAIN w /\ j # i /\ w2[j] = w[j]
    BY <1>1, <1>2
  <2>2. ~(j < i) => j + 1 \in DOMAIN w /\ j + 1 # i /\ w2[j] = w[j + 1]
    BY <1>1, <1>2
  <2> HIDE DEF w2
  <2> QED BY <2>1, <2>2
<1>6. \A k \in DOMAIN w : k # i => \E j \in DOMAIN w2 : w2[j] = w[k]
  <2> SUFFICES ASSUME NEW k \in DOMAIN w, k # i PROVE \E j \in DOMAIN w2 : w2[j] = w[k]
    OBVIOUS
  <2>1. CASE k < i
    <3>1. k \in 1..Len(w) - 1
      BY <1>1, <2>1
    <3> QED BY <1>2, <2>1, <3>1
  <2>2. CASE k > i
    <3>1. k - 1 \in 1..Len(w) - 1 /\ ~(k - 1 < i) /\ (k - 1) + 1 = k
      BY <1>1, <2>2
    <3> QED BY <1>2, <3>1
  <2> QED BY <1>1, <2>1, <2>2
<1>7. \A j, l \in DOMAIN w2 : j < l =>
        \E k, m \in DOMAIN w : k < m /\ w2[j] = w[k] /\ w2[l] = w[m]
  <2> SUFFICES ASSUME NEW j \in DOMAIN w2, NEW l \in DOMAIN w2, j < l
               PROVE  \E k, m \in DOMAIN w : k < m /\ w2[j] = w[k] /\ w2[l] = w[m]
    OBVIOUS
  <2> DEFINE k == IF j < i THEN j ELSE j + 1
             m == IF l < i THEN l ELSE l + 1
  <2>1. k \in DOMAIN w /\ m \in DOMAIN w /\ k < m
    <3>1. j \in 1..Len(w) - 1 /\ l \in 1..Len(w) - 1
      BY <1>2
    <3>2. Len(w) \in Nat /\ i \in 1..Len(w)
      BY <1>1
    <3> HIDE DEF w2
    <3>3. k \in 1..Len(w) /\ m \in 1..Len(w) /\ k < m
      BY <3>1, <3>2, PlacesBesideACut
    <3> QED BY <1>1, <3>3
  <2>2. w2[j] = w[k] /\ w2[l] = w[m]
    BY <1>2
  <2> HIDE DEF k, m
  <2> QED BY <2>1, <2>2
<1> HIDE DEF cs2, w2, c
<1>8. ASSUME NEW d \in Calls
      PROVE  cs2[d].state = "waiting" <=> \E j \in DOMAIN w2 : w2[j] = d
  <2>1. cs[d].state = "waiting" <=> \E k \in DOMAIN w : w[k] = d
    BY DEF WhoWaits
  <2>2. CASE d = c
    <3>1. cs2[d].state # "waiting"
      BY <1>4, <2>2
    <3>2. \A j \in DOMAIN w2 : w2[j] # d
      BY <1>3, <1>5, <2>2 DEF c
    <3> QED BY <3>1, <3>2
  <2>3. CASE d # c
    <3>1. cs2[d] = cs[d]
      BY <1>4, <2>3
    <3>2. ASSUME NEW k \in DOMAIN w, w[k] = d PROVE \E j \in DOMAIN w2 : w2[j] = d
      BY <1>6, <2>3, <3>2 DEF c
    <3>3. ASSUME NEW j \in DOMAIN w2, w2[j] = d PROVE \E k \in DOMAIN w : w[k] = d
      BY <1>5, <3>3
    <3> QED BY <2>1, <3>1, <3>2, <3>3
  <2> QED BY <2>2, <2>3
<1>9. \A j \in DOMAIN w2 : \E k \in DOMAIN q : q[k] = w2[j]
  BY <1>5 DEF WhoWaits
<1>10. ASSUME NEW j \in DOMAIN w2, NEW l \in DOMAIN w2, NEW k \in DOMAIN q, NEW m \in DOMAIN q,
              j < l, q[k] = w2[j], q[m] = w2[l]
       PROVE  k < m
  BY <1>7, <1>10 DEF WhoWaits
<1>11. WhoWaits(w2, cs2, q)
  BY <1>8, <1>9, <1>10 DEF WhoWaits
<1> QED BY <1>11 DEF w2, cs2, c

\* The data handler gives the next answer to the first of the queue.
LEMMA ServingKeepsBooks ==
    ASSUME NEW w, NEW cs, NEW h, NEW o, NEW q, Books(w, cs, h, o, q), w # <<>>,
           NEW a \in Answers, NEW x \in {"resolved", "rejected"}
    PROVE  Books(Cut(w, 1), [cs EXCEPT ![w[1]] = [state |-> x, answer |-> Len(h) + 1]],
                 Append(h, a), o, q)
<1> DEFINE c == w[1]
           cs2 == [cs EXCEPT ![c] = [state |-> x, answer |-> Len(h) + 1]]
           h2 == Append(h, a)
<1>1. BookTypes(w, cs, h, o, q) /\ w \in Seq(Calls) /\ q \in Seq(Calls) /\ o \in Seq(Calls)
  BY DEF Books, BookTypes
<1>2. 1 \in DOMAIN w /\ c \in Calls
  BY <1>1
<1>3. Len(h) \in Nat /\ h2 \in Seq(Answers) /\ Len(h2) = Len(h) + 1
  BY <1>1 DEF BookTypes
<1> HIDE DEF h2
<1>4. /\ cs \in [Calls -> [state : States, answer : 0..Len(h)]]
      /\ cs \in [Calls -> [state : States, answer : Nat]]
  BY <1>1, <1>3 DEF BookTypes
<1>5. cs[c].state = "waiting"
  BY <1>2 DEF Books, WhoWaits
<1>6. WhoWaits(Cut(w, 1), cs2, q)
  <2>1. [state |-> x, answer |-> Len(h) + 1].state \in Settled
    BY DEF Settled
  <2> QED BY <1>1, <1>2, <1>4, <2>1, LeavingKeepsWaiters DEF Books
<1>7. /\ cs2[c].state = x /\ cs2[c].answer = Len(h) + 1
      /\ \A d \in Calls : d # c => cs2[d] = cs[d]
      /\ x \notin {"new"} \cup Pending
  BY <1>2, <1>4 DEF Pending
<1>8. cs2 \in [Calls -> [state : States, answer : 0..Len(h2)]]
  <2>1. [state |-> x, answer |-> Len(h) + 1] \in [state : States, answer : 0..Len(h2)]
    <3>1. Len(h) + 1 \in 0..Len(h2)
      BY <1>3
    <3>2. x \in States
      BY DEF States, Settled
    <3> QED BY <3>1, <3>2
  <2>2. \A d \in Calls : cs[d] \in [state : States, answer : 0..Len(h2)]
    BY <1>3, <1>4
  <2> QED BY <1>4, <2>1, <2>2
<1>9. BookTypes(Cut(w, 1), cs2, h2, o, q)
  BY <1>1, <1>2, <1>3, <1>8, CutProperties DEF BookTypes
<1> HIDE DEF cs2
<1>10. WritesFirst(cs2, o, q)
  <2>1. \A i \in DOMAIN o : o[i] \in Calls /\ o[i] # c
    BY <1>1, <1>5 DEF Books, WritesFirst
  <2>2. \A k \in DOMAIN q : q[k] \in Calls
    BY <1>1
  <2> QED BY <1>1, <1>2, <1>7, <2>1, <2>2 DEF Books, WritesFirst, Pending
<1> HIDE DEF c
<1>11. ServedInTurn(cs2, q)
  <2> SUFFICES ASSUME NEW k \in DOMAIN q, NEW l \in DOMAIN q, k < l
               PROVE  /\ cs2[q[k]].state = "waiting" => cs2[q[l]].answer = 0
                      /\ cs2[q[k]].answer # 0 /\ cs2[q[l]].answer # 0
                         => cs2[q[k]].answer < cs2[q[l]].answer
    BY DEF ServedInTurn
  <2>1. q[k] \in Calls /\ q[l] \in Calls /\ k # l
    BY <1>1
  <2>2. q[k] # q[l]
    BY <2>1 DEF Books, QueuedOnce
  <2>3. CASE q[k] = c
    <3>1. cs[q[l]].answer = 0
      BY <1>5, <2>3 DEF Books, ServedInTurn
    <3>2. cs2[q[l]].answer = 0 /\ cs2[q[k]].state # "waiting"
      BY <1>7, <2>1, <2>2, <2>3, <3>1 DEF Pending
    <3> QED BY <3>2
  <2>4. CASE q[l] = c
    <3>1. cs[q[k]].state # "waiting"
      <4> SUFFICES ASSUME cs[q[k]].state = "waiting" PROVE FALSE
        OBVIOUS
      <4>1. PICK j \in DOMAIN w : w[j] = q[k]
        BY <2>1 DEF Books, WhoWaits
      <4>2. 1 < j
        <5>1. w[j] # w[1]
          BY <2>2, <2>4, <4>1 DEF c
        <5>2. j # 1
          BY <5>1
        <5> QED BY <1>1, <5>2
      <4>3. l < k
        BY <1>2, <2>4, <4>1, <4>2 DEF Books, WhoWaits, c
      <4> QED BY <1>1, <4>3
    <3>2. cs2[q[k]] = cs[q[k]] /\ cs[q[k]].answer \in 0..Len(h)
      BY <1>4, <1>7, <2>1, <2>2, <2>4
    <3>3. cs2[q[l]].answer = Len(h) + 1
      BY <1>7, <2>4
    <3> QED BY <1>3, <3>1, <3>2, <3>3
  <2>5. CASE q[k] # c /\ q[l] # c
    <3>1. cs2[q[k]] = cs[q[k]] /\ cs2[q[l]] = cs[q[l]]
      BY <1>7, <2>1, <2>5
    <3> QED BY <3>1 DEF Books, ServedInTurn
  <2> QED BY <2>3, <2>4, <2>5
<1>12. QueuedOnce(q)
  BY DEF Books
<1>13. Books(Cut(w, 1), cs2, h2, o, q)
  BY <1>6, <1>9, <1>10, <1>11, <1>12 DEF Books
<1> QED BY <1>13 DEF cs2, h2, c

\* A round of the loop.
LEMMA RoundKeepsBooks ==
    ASSUME NEW s, NEW o, NEW q, Books(s.waiters, s.call, s.heard, o, q), NEW f \in Frame
    PROVE  LET t == Round(s, f)
           IN  /\ Books(t.waiters, t.call, t.heard, o, q)
               /\ Len(t.heard) <= Len(s.heard) + 1
<1>1. CASE f.damage = "header"
  <2>1. Round(s, f) = s
    BY <1>1 DEF Round
  <2>2. Len(s.heard) \in Nat
    BY DEF Books, BookTypes
  <2> QED BY <2>1, <2>2
<1>2. f.answer \in Answers /\ Settles(f.damage) \in {"resolved", "rejected"}
  BY DEF Frame, Settles
<1>3. Append(s.heard, f.answer) \in Seq(Answers) /\ Len(s.heard) \in Nat
      /\ Len(Append(s.heard, f.answer)) = Len(s.heard) + 1
  BY <1>2 DEF Books, BookTypes
<1>4. CASE f.damage # "header" /\ s.waiters = <<>>
  <2>1. Round(s, f) = [waiters |-> <<>>, heard |-> Append(s.heard, f.answer), call |-> s.call]
    BY <1>4 DEF Round
  <2>2. BookTypes(<<>>, s.call, Append(s.heard, f.answer), o, q)
    BY <1>3, <1>4 DEF Books, BookTypes
  <2>3. Books(<<>>, s.call, Append(s.heard, f.answer), o, q)
    BY <1>4, <2>2 DEF Books
  <2> QED BY <1>3, <2>1, <2>3
<1>5. CASE f.damage # "header" /\ s.waiters # <<>>
  <2> DEFINE w2 == Cut(s.waiters, 1)
             h2 == Append(s.heard, f.answer)
             cs2 == [s.call EXCEPT ![s.waiters[1]] =
                        [state |-> Settles(f.damage), answer |-> Len(s.heard) + 1]]
  <2>1. Round(s, f) = [waiters |-> w2, heard |-> h2, call |-> cs2]
    BY <1>5 DEF Round, Serves
  <2>2. Books(w2, cs2, h2, o, q)
    BY <1>2, <1>5, ServingKeepsBooks
  <2>3. Len(h2) = Len(s.heard) + 1 /\ Len(s.heard) \in Nat
    BY <1>3
  <2> HIDE DEF w2, h2, cs2
  <2> QED BY <2>1, <2>2, <2>3
<1> QED BY <1>1, <1>4, <1>5

\* The loop, for as many rounds as it makes.
LEMMA LoopKeepsBooks ==
    ASSUME NEW s, NEW o, NEW q, Books(s.waiters, s.call, s.heard, o, q),
           NEW frames \in Seq(Frame), NEW done \in 0..Len(frames)
    PROVE  LET t == AfterRounds(s, frames, done)
           IN  /\ Books(t.waiters, t.call, t.heard, o, q)
               /\ Len(t.heard) <= Len(s.heard) + done
<1>1. PICK after : IsRun(after, s, frames, done) /\ AfterRounds(s, frames, done) = after[done]
  BY LoopRuns
<1> DEFINE Fine(k) == /\ Books(after[k].waiters, after[k].call, after[k].heard, o, q)
                      /\ Len(after[k].heard) <= Len(s.heard) + k
           S == {k \in Nat : k <= done => Fine(k)}
<1>2. ASSUME NEW k \in 0..done
      PROVE  after[k] = IF k = 0 THEN s ELSE Round(after[k - 1], frames[k])
  <2>1. after = [i \in 0..done |-> IF i = 0 THEN s ELSE Round(after[i - 1], frames[i])]
    BY <1>1 DEF IsRun
  <2> QED BY <2>1
<1>3. Len(s.heard) \in Nat
  BY DEF Books, BookTypes
<1>4. 0 \in S
  <2>1. after[0] = s
    BY <1>2
  <2> QED BY <1>3, <2>1
<1>5. ASSUME NEW k \in Nat, k \in S PROVE k + 1 \in S
  <2> SUFFICES ASSUME k + 1 <= done PROVE Fine(k + 1)
    OBVIOUS
  <2>1. Fine(k)
    BY <1>5
  <2>2. k + 1 \in 0..done /\ k + 1 # 0 /\ (k + 1) - 1 = k /\ k + 1 \in 1..Len(frames)
    OBVIOUS
  <2>3. after[k + 1] = Round(after[k], frames[k + 1]) /\ frames[k + 1] \in Frame
    BY <1>2, <2>2
  <2>4. /\ Books(after[k + 1].waiters, after[k + 1].call, after[k + 1].heard, o, q)
        /\ Len(after[k + 1].heard) <= Len(after[k].heard) + 1
    BY <2>1, <2>3, RoundKeepsBooks
  <2>5. Len(after[k].heard) \in Nat /\ Len(after[k + 1].heard) \in Nat
    <3>1. ASSUME NEW w, NEW cs, NEW h, Books(w, cs, h, o, q) PROVE Len(h) \in Nat
      BY <3>1 DEF Books, BookTypes
    <3> HIDE DEF S
    <3> QED BY <2>1, <2>4, <3>1
  <2>6. Len(after[k + 1].heard) <= Len(s.heard) + (k + 1)
    <3>1. ASSUME NEW a \in Nat, NEW b \in Nat, NEW c \in Nat, a <= c + k, b <= a + 1
          PROVE  b <= c + (k + 1)
      BY <3>1
    <3> QED BY <1>3, <2>1, <2>4, <2>5, <3>1
  <2> QED BY <2>4, <2>6
<1>6. Nat \subseteq S
  <2> HIDE DEF S
  <2> QED BY <1>4, <1>5, InductionOnSets
<1>7. Fine(done)
  BY <1>6
<1> QED BY <1>1, <1>7

------------------------------------------------------------------------------
(* What the other steps do to the books *)

\* The writes o become o2 as the call c, which fails or is among them, gets a new state.
WritesBecome(o, c, failed, o2) ==
    /\ o2 \in Seq(Calls)
    /\ \A i, j \in DOMAIN o2 : o2[i] = o2[j] => i = j
    /\ \A i \in DOMAIN o2 : o2[i] = c \/ \E j \in DOMAIN o : o[j] = o2[i]
    /\ failed => \A i \in DOMAIN o2 : o2[i] # c

\* A call that does not wait yet goes on with its write, or fails.
LEMMA WritingKeepsBooks ==
    ASSUME NEW w, NEW cs, NEW h, NEW o, NEW q, Books(w, cs, h, o, q),
           NEW c \in Calls, cs[c].state \in {"new", "writing", "written"},
           NEW x \in {"writing", "written", "rejected"},
           NEW o2, WritesBecome(o, c, x = "rejected", o2)
    PROVE  Books(w, [cs EXCEPT ![c].state = x], h, o2, q)
<1> DEFINE cs2 == [cs EXCEPT ![c].state = x]
<1>0. /\ o2 \in Seq(Calls)
      /\ \A i, j \in DOMAIN o2 : o2[i] = o2[j] => i = j
      /\ \A i \in DOMAIN o2 : o2[i] = c \/ \E j \in DOMAIN o : o[j] = o2[i]
      /\ x = "rejected" => \A i \in DOMAIN o2 : o2[i] # c
  BY DEF WritesBecome
<1>1. /\ w \in Seq(Calls) /\ q \in Seq(Calls) /\ h \in Seq(Answers)
      /\ cs \in [Calls -> [state : States, answer : 0..Len(h)]]
  BY DEF Books, BookTypes
<1>2. x \in States
  BY DEF States, Pending, Settled
<1>3. cs2 \in [Calls -> [state : States, answer : 0..Len(h)]]
  BY <1>1, <1>2
<1>4. /\ cs2[c].state = x /\ cs2[c].answer = cs[c].answer
      /\ \A d \in Calls : d # c => cs2[d] = cs[d]
  BY <1>1
<1>5. BookTypes(w, cs2, h, o2, q)
  BY <1>0, <1>1, <1>3 DEF BookTypes
<1> HIDE DEF cs2
<1>6. WhoWaits(w, cs2, q)
  <2>1. \A d \in Calls : cs2[d].state = "waiting" <=> cs[d].state = "waiting"
    BY <1>4
  <2> QED BY <2>1 DEF Books, WhoWaits
<1>7. \A k \in DOMAIN q : q[k] \in Calls /\ q[k] # c /\ cs2[q[k]] = cs[q[k]]
  BY <1>1, <1>4 DEF Books, WritesFirst
<1>8. WritesFirst(cs2, o2, q)
  <2>1. \A i \in DOMAIN o2 : o2[i] \in Calls
    BY <1>0
  <2>2. \A d \in Calls : cs2[d].state \in {"new"} \cup Pending => cs2[d].answer = 0
    BY <1>4 DEF Books, WritesFirst, Pending
  <2> QED BY <1>0, <1>4, <1>7, <2>1, <2>2 DEF Books, WritesFirst
<1>9. ServedInTurn(cs2, q)
  BY <1>7 DEF Books, ServedInTurn
<1>10. Books(w, cs2, h, o2, q)
  BY <1>5, <1>6, <1>8, <1>9 DEF Books
<1> QED BY <1>10 DEF cs2

\* The call at the head of the writes has been written and begins to wait.
LEMMA WaitingKeepsBooks ==
    ASSUME NEW w, NEW cs, NEW h, NEW o, NEW q, Books(w, cs, h, o, q),
           o # <<>>, cs[Head(o)].state = "written"
    PROVE  Books(Append(w, Head(o)), [cs EXCEPT ![Head(o)].state = "waiting"], h, Tail(o),
                 Append(q, Head(o)))
<1> DEFINE c == Head(o)
           o2 == Tail(o)
           w2 == Append(w, c)
           q2 == Append(q, c)
           cs2 == [cs EXCEPT ![c].state = "waiting"]
<1>1. /\ w \in Seq(Calls) /\ q \in Seq(Calls) /\ h \in Seq(Answers) /\ o \in Seq(Calls)
      /\ cs \in [Calls -> [state : States, answer : 0..Len(h)]]
  BY DEF Books, BookTypes
<1>2. /\ c \in Calls /\ c = o[1] /\ 1 \in DOMAIN o
      /\ o2 \in Seq(Calls) /\ \A i \in DOMAIN o2 : i + 1 \in DOMAIN o /\ o2[i] = o[i + 1]
  BY <1>1
<1>3. /\ cs[c].state = "written"
      /\ cs2[c].state = "waiting" /\ cs2[c].answer = cs[c].answer
      /\ \A d \in Calls : d # c => cs2[d] = cs[d]
  BY <1>1, <1>2
<1>4. cs2 \in [Calls -> [state : States, answer : 0..Len(h)]]
  <2>1. "waiting" \in States
    BY DEF States, Pending
  <2> QED BY <1>1, <2>1
<1>5. /\ w2 \in Seq(Calls) /\ DOMAIN w2 = 1..Len(w) + 1 /\ Len(w) \in Nat /\ DOMAIN w = 1..Len(w)
      /\ w2[Len(w) + 1] = c /\ \A i \in 1..Len(w) : w2[i] = w[i]
  BY <1>1, <1>2
<1>6. /\ q2 \in Seq(Calls) /\ DOMAIN q2 = 1..Len(q) + 1 /\ Len(q) \in Nat /\ DOMAIN q = 1..Len(q)
      /\ q2[Len(q) + 1] = c /\ \A k \in 1..Len(q) : q2[k] = q[k]
  BY <1>1, <1>2
<1> HIDE DEF c, o2, w2, q2, cs2
<1>7. BookTypes(w2, cs2, h, o2, q2)
  BY <1>1, <1>2, <1>4, <1>5, <1>6 DEF BookTypes
<1>8. \A k \in DOMAIN q : q[k] \in Calls /\ q[k] # c /\ cs2[q[k]] = cs[q[k]]
  BY <1>1, <1>3 DEF Books, WritesFirst
<1>9. ASSUME NEW i \in DOMAIN w PROVE w[i] \in Calls /\ w[i] # c
  <2>1. w[i] \in Calls
    BY <1>1
  <2>2. cs[w[i]].state = "waiting"
    BY <2>1 DEF Books, WhoWaits
  <2> QED BY <1>3, <2>1, <2>2
<1>10. QueuedOnce(q2)
  <2> SUFFICES ASSUME NEW k \in DOMAIN q2, NEW l \in DOMAIN q2, q2[k] = q2[l] PROVE k = l
    BY DEF QueuedOnce
  <2>1. k \in DOMAIN q \/ k = Len(q) + 1
    BY <1>6
  <2>2. l \in DOMAIN q \/ l = Len(q) + 1
    BY <1>6
  <2> QED BY <1>6, <1>8, <2>1, <2>2 DEF Books, QueuedOnce
<1>11. WhoWaits(w2, cs2, q2)
  <2>1. ASSUME NEW d \in Calls
        PROVE  cs2[d].state = "waiting" <=> \E i \in DOMAIN w2 : w2[i] = d
    <3>1. CASE d = c
      <4>1. Len(w) + 1 \in DOMAIN w2
        BY <1>5
      <4> QED BY <1>3, <1>5, <3>1, <4>1
    <3>2. CASE d # c
      <4>1. cs[d].state = "waiting" <=> \E i \in DOMAIN w : w[i] = d
        BY DEF Books, WhoWaits
      <4>2. (\E i \in DOMAIN w : w[i] = d) <=> \E i \in DOMAIN w2 : w2[i] = d
        <5>1. \A i \in DOMAIN w2 : i \in DOMAIN w \/ i = Len(w) + 1
          BY <1>5
        <5>2. \A i \in DOMAIN w : i \in DOMAIN w2
          BY <1>5
        <5> QED BY <1>5, <3>2, <5>1, <5>2
      <4> QED BY <1>3, <3>2, <4>1, <4>2
    <3> QED BY <3>1, <3>2
  <2>2. ASSUME NEW i \in DOMAIN w2 PROVE \E k \in DOMAIN q2 : q2[k] = w2[i]
    <3>1. CASE i = Len(w) + 1
      BY <1>5, <1>6, <3>1
    <3>2. CASE i \in DOMAIN w
      <4>1. PICK k \in DOMAIN q : q[k] = w[i]
        BY <3>2 DEF Books, WhoWaits
      <4> QED BY <1>5, <1>6, <3>2, <4>1
    <3> QED BY <1>5, <3>1, <3>2
  <2>3. ASSUME NEW i \in DOMAIN w2, NEW j \in DOMAIN w2, NEW k \in DOMAIN q2, NEW l \in DOMAIN q2,
               i < j, q2[k] = w2[i], q2[l] = w2[j]
        PROVE  k < l
    <3>1. i \in DOMAIN w /\ w2[i] = w[i] /\ w[i] # c
      BY <1>5, <1>9, <2>3
    <3>2. k \in DOMAIN q /\ q[k] = w[i]
      BY <1>6, <2>3, <3>1
    <3>3. CASE l = Len(q) + 1
      BY <1>6, <3>2, <3>3
    <3>4. CASE l \in DOMAIN q
      <4>1. q[l] = w2[j] /\ w2[j] # c
        BY <1>6, <1>8, <2>3, <3>4
      <4>2. j \in DOMAIN w /\ w2[j] = w[j]
        BY <1>5, <4>1
      <4> QED BY <2>3, <3>1, <3>2, <3>4, <4>1, <4>2 DEF Books, WhoWaits
    <3> QED BY <1>6, <3>3, <3>4
  <2> QED BY <2>1, <2>2, <2>3 DEF WhoWaits
<1>12. WritesFirst(cs2, o2, q2)
  <2>1. \A i \in DOMAIN o2 : o2[i] \in Calls /\ o2[i] # c /\ \E j \in DOMAIN o : o[j] = o2[i]
    <3> SUFFICES ASSUME NEW i \in DOMAIN o2
                 PROVE  o2[i] \in Calls /\ o2[i] # c /\ \E j \in DOMAIN o : o[j] = o2[i]
      OBVIOUS
    <3>1. i + 1 \in DOMAIN o /\ o2[i] = o[i + 1] /\ i + 1 # 1
      BY <1>2
    <3> QED BY <1>1, <1>2, <3>1 DEF Books, WritesFirst
  <2>2. \A i, j \in DOMAIN o2 : o2[i] = o2[j] => i = j
    <3> SUFFICES ASSUME NEW i \in DOMAIN o2, NEW j \in DOMAIN o2, o2[i] = o2[j] PROVE i = j
      OBVIOUS
    <3>1. i + 1 = j + 1
      BY <1>2 DEF Books, WritesFirst
    <3>2. i \in Nat /\ j \in Nat
      BY <1>2
    <3> QED BY <3>1, <3>2
  <2>3. \A i \in DOMAIN o2 : cs2[o2[i]].state \in {"writing", "written"}
    BY <1>3, <2>1 DEF Books, WritesFirst
  <2>4. \A k \in DOMAIN q2 : cs2[q2[k]].state \notin {"new", "writing", "written"}
    <3>1. \A k \in DOMAIN q2 : k \in DOMAIN q \/ k = Len(q) + 1
      BY <1>6
    <3> QED BY <1>3, <1>6, <1>8, <3>1 DEF Books, WritesFirst
  <2>5. \A d \in Calls : cs2[d].state \in {"new"} \cup Pending => cs2[d].answer = 0
    BY <1>2, <1>3 DEF Books, WritesFirst, Pending
  <2> QED BY <2>2, <2>3, <2>4, <2>5 DEF WritesFirst
<1>13. ServedInTurn(cs2, q2)
  <2>1. cs2[c].answer = 0
    BY <1>2, <1>3 DEF Books, WritesFirst, Pending
  <2> SUFFICES ASSUME NEW k \in DOMAIN q2, NEW l \in DOMAIN q2, k < l
               PROVE  /\ cs2[q2[k]].state = "waiting" => cs2[q2[l]].answer = 0
                      /\ cs2[q2[k]].answer # 0 /\ cs2[q2[l]].answer # 0
                         => cs2[q2[k]].answer < cs2[q2[l]].answer
    BY DEF ServedInTurn
  <2>2. CASE l = Len(q) + 1
    BY <1>6, <2>1, <2>2
  <2>3. CASE l \in DOMAIN q
    <3>1. k \in DOMAIN q
      BY <1>6, <2>3
    <3> QED BY <1>6, <1>8, <2>3, <3>1 DEF Books, ServedInTurn
  <2> QED BY <1>6, <2>2, <2>3
<1>14. Books(w2, cs2, h, o2, q2)
  BY <1>7, <1>10, <1>11, <1>12, <1>13 DEF Books
<1> QED BY <1>14 DEF c, o2, w2, q2, cs2

\* The timer of a waiter fires.
LEMMA TimeoutKeepsBooks ==
    ASSUME NEW w, NEW cs, NEW h, NEW o, NEW q, Books(w, cs, h, o, q),
           NEW c \in Calls, cs[c].state = "waiting"
    PROVE  Books(Without(w, c), [cs EXCEPT ![c].state = "timed out"], h, o, q)
<1> DEFINE r == [cs[c] EXCEPT !.state = "timed out"]
           cs2 == [cs EXCEPT ![c] = r]
           First(i) == w[i] = c /\ \A j \in 1..i - 1 : w[j] # c
           i == CHOOSE i \in DOMAIN w : First(i)
<1>1. /\ w \in Seq(Calls) /\ q \in Seq(Calls) /\ o \in Seq(Calls) /\ h \in Seq(Answers)
      /\ cs \in [Calls -> [state : States, answer : 0..Len(h)]]
  BY DEF Books, BookTypes
<1>2. \E k \in DOMAIN w : w[k] = c
  BY DEF Books, WhoWaits
<1>3. \E k \in DOMAIN w : First(k)
  <2>1. PICK k \in DOMAIN w : w[k] = c
    BY <1>2
  <2>2. ASSUME NEW j \in 1..k - 1 PROVE w[j] # c
    <3> SUFFICES ASSUME w[j] = c PROVE FALSE
      OBVIOUS
    <3>1. j \in DOMAIN w /\ j < k /\ k \in Nat
      <4>1. k \in 1..Len(w) /\ Len(w) \in Nat /\ DOMAIN w = 1..Len(w)
        BY <1>1, <2>1
      <4>2. j \in 1..Len(w) /\ j < k /\ k \in Nat
        BY <4>1
      <4> QED BY <4>1, <4>2
    <3>2. WhoWaits(w, cs, q)
      BY DEF Books
    <3>3. PICK l \in DOMAIN q : q[l] = w[j]
      BY <3>1, <3>2 DEF WhoWaits
    <3>4. l < l
      BY <2>1, <3>1, <3>2, <3>3 DEF WhoWaits
    <3> QED BY <1>1, <3>4
  <2> QED BY <2>1, <2>2
<1>4. i \in DOMAIN w /\ w[i] = c
  <2> HIDE DEF First
  <2>1. i \in DOMAIN w /\ First(i)
    BY <1>3
  <2> QED BY <2>1 DEF First
<1>5. Without(w, c) = Cut(w, i)
  BY <1>2 DEF Without
<1> HIDE DEF i
<1>6. r.state = "timed out" /\ r.answer = cs[c].answer /\ r \in [state : States, answer : 0..Len(h)]
  <2>1. "timed out" \in States
    BY DEF States, Settled
  <2> QED BY <1>1, <2>1
<1>7. /\ cs2[c] = r /\ \A d \in Calls : d # c => cs2[d] = cs[d]
      /\ cs2 \in [Calls -> [state : States, answer : 0..Len(h)]]
  BY <1>1, <1>6
<1>8. cs2 = [cs EXCEPT ![c].state = "timed out"]
  OBVIOUS
<1> HIDE DEF r, cs2
<1>9. WhoWaits(Cut(w, i), cs2, q)
  <2>1. cs \in [Calls -> [state : States, answer : Nat]]
    BY <1>1
  <2>2. r.state \in Settled
    BY <1>6 DEF Settled
  <2>3. WhoWaits(Cut(w, i), [cs EXCEPT ![w[i]] = r], q)
    BY <1>1, <1>4, <2>1, <2>2, LeavingKeepsWaiters DEF Books
  <2> QED BY <1>4, <2>3 DEF cs2
<1>10. BookTypes(Cut(w, i), cs2, h, o, q)
  BY <1>1, <1>4, <1>7, CutProperties DEF BookTypes
<1>11. WritesFirst(cs2, o, q)
  <2>1. ASSUME NEW k \in DOMAIN o PROVE o[k] \in Calls /\ o[k] # c
    <3>1. cs[o[k]].state \in {"writing", "written"}
      BY DEF Books, WritesFirst
    <3> QED BY <1>1, <3>1
  <2>2. \A k \in DOMAIN q : q[k] \in Calls
    BY <1>1
  <2> QED BY <1>6, <1>7, <2>1, <2>2 DEF Books, WritesFirst, Pending
<1>12. ServedInTurn(cs2, q)
  <2>1. \A d \in Calls : /\ cs2[d].answer = cs[d].answer
                         /\ cs2[d].state = "waiting" => cs[d].state = "waiting"
    BY <1>6, <1>7
  <2>2. \A k \in DOMAIN q : q[k] \in Calls
    BY <1>1
  <2> QED BY <2>1, <2>2 DEF Books, ServedInTurn
<1>13. Books(Cut(w, i), cs2, h, o, q)
  BY <1>9, <1>10, <1>11, <1>12 DEF Books
<1> QED BY <1>5, <1>8, <1>13

Lost(cs) == [c \in Calls |-> IF cs[c].state \in Pending
                             THEN [cs[c] EXCEPT !.state = "lost"] ELSE cs[c]]

\* The process ends.
LEMMA EndingKeepsBooks ==
    ASSUME NEW w, NEW cs, NEW h, NEW o, NEW q, Books(w, cs, h, o, q)
    PROVE  Books(<<>>, Lost(cs), h, <<>>, q)
<1>1. /\ q \in Seq(Calls) /\ h \in Seq(Answers)
      /\ cs \in [Calls -> [state : States, answer : 0..Len(h)]]
  BY DEF Books, BookTypes
<1>2. ASSUME NEW c \in Calls
      PROVE  /\ Lost(cs)[c].answer = cs[c].answer
             /\ Lost(cs)[c].state = IF cs[c].state \in Pending THEN "lost" ELSE cs[c].state
             /\ Lost(cs)[c] \in [state : States, answer : 0..Len(h)]
  <2>1. "lost" \in States
    BY DEF States
  <2>2. Lost(cs)[c] = IF cs[c].state \in Pending THEN [cs[c] EXCEPT !.state = "lost"] ELSE cs[c]
    BY DEF Lost
  <2>3. cs[c] \in [state : States, answer : 0..Len(h)]
    BY <1>1
  <2> QED BY <2>1, <2>2, <2>3
<1>3. Lost(cs) \in [Calls -> [state : States, answer : 0..Len(h)]]
  <2>1. Lost(cs) = [c \in Calls |-> Lost(cs)[c]]
    BY DEF Lost
  <2> QED BY <1>2, <2>1
<1>4. BookTypes(<<>>, Lost(cs), h, <<>>, q)
  BY <1>1, <1>3 DEF BookTypes
<1>5. WhoWaits(<<>>, Lost(cs), q)
  BY <1>2 DEF WhoWaits, Pending
<1>6. \A k \in DOMAIN q : q[k] \in Calls
  BY <1>1
<1>7. WritesFirst(Lost(cs), <<>>, q)
  BY <1>2, <1>6 DEF Books, WritesFirst, Pending
<1>8. ServedInTurn(Lost(cs), q)
  BY <1>2, <1>6 DEF Books, ServedInTurn, Pending
<1> QED BY <1>4, <1>5, <1>7, <1>8 DEF Books

------------------------------------------------------------------------------
(* The invariant *)

Held == Books(waiters, call, heard, outgoing, queued)

\* The bytes under way, of which none is counted twice.
Flow ==
    /\ port \in {"off", "open", "closed"}
    /\ buffer \in Seq(Frame) /\ toHost \in Seq(Frame)
    /\ toDevice \in Seq({MessageOf[c] : c \in Calls})
    /\ Len(heard) + Len(buffer) + Len(toHost) <= MaxAnswers

HostHolds == Flow /\ Held

LEMMA SubSeqOfSeq ==
    ASSUME NEW S, NEW s \in Seq(S), NEW m \in Nat, m <= Len(s)
    PROVE  /\ SubSeq(s, m + 1, Len(s)) \in Seq(S) /\ Len(SubSeq(s, m + 1, Len(s))) = Len(s) - m
           /\ SubSeq(s, 1, m) \in Seq(S) /\ Len(SubSeq(s, 1, m)) = m
<1>1. Len(s) \in Nat /\ \A i \in 1..Len(s) : s[i] \in S
  OBVIOUS
<1>2. SubSeq(s, m + 1, Len(s)) \in Seq(S) /\ Len(SubSeq(s, m + 1, Len(s))) = Len(s) - m
  <2>1. m + 1 \in Int /\ Len(s) \in Int /\ \A i \in m + 1..Len(s) : s[i] \in S
    BY <1>1
  <2>2. /\ SubSeq(s, m + 1, Len(s)) \in Seq(S)
        /\ Len(SubSeq(s, m + 1, Len(s))) =
             IF m + 1 <= Len(s) THEN Len(s) - (m + 1) + 1 ELSE 0
    BY <2>1, SubSeqProperties
  <2> QED BY <1>1, <2>2
<1>3. SubSeq(s, 1, m) \in Seq(S) /\ Len(SubSeq(s, 1, m)) = m
  <2>1. \A i \in 1..m : s[i] \in S
    BY <1>1
  <2>2. /\ SubSeq(s, 1, m) \in Seq(S)
        /\ Len(SubSeq(s, 1, m)) = IF 1 <= m THEN m - 1 + 1 ELSE 0
    BY <2>1, SubSeqProperties
  <2> QED BY <2>2
<1> QED BY <1>2, <1>3

LEMMA CallKeeps ==
    ASSUME HostHolds, NEW c \in Calls, Call(c)
    PROVE  HostHolds'
<1>1. /\ outgoing \in Seq(Calls) /\ call[c].state = "new"
      /\ call \in [Calls -> [state : States, answer : 0..Len(heard)]]
  BY DEF HostHolds, Held, Books, BookTypes, Call
<1>2. \A i \in DOMAIN outgoing : outgoing[i] # c
  BY <1>1 DEF HostHolds, Held, Books, WritesFirst
<1>3. CASE c \in Oversized
  <2>1. call' = [call EXCEPT ![c].state = "rejected"] /\ outgoing' = outgoing
    BY <1>3 DEF Call, Becomes
  <2>2. \A i, j \in DOMAIN outgoing : outgoing[i] = outgoing[j] => i = j
    BY DEF HostHolds, Held, Books, WritesFirst
  <2>3. Books(waiters, [call EXCEPT ![c].state = "rejected"], heard, outgoing, queued)
    <3>1. WritesBecome(outgoing, c, "rejected" = "rejected", outgoing)
      BY <1>1, <1>2, <2>2 DEF WritesBecome
    <3>2. Books(waiters, call, heard, outgoing, queued)
      BY DEF HostHolds, Held
    <3>3. call[c].state \in {"new", "writing", "written"}
      BY <1>1
    <3> QED BY <3>1, <3>2, <3>3, WritingKeepsBooks
  <2> QED BY <2>1, <2>3 DEF HostHolds, Held, Flow, Call
<1>4. CASE c \notin Oversized
  <2> DEFINE o2 == Append(outgoing, c)
  <2>1. call' = [call EXCEPT ![c].state = "writing"] /\ outgoing' = o2
    BY <1>4 DEF Call, Becomes
  <2>2. /\ o2 \in Seq(Calls) /\ DOMAIN o2 = 1..Len(outgoing) + 1 /\ Len(outgoing) \in Nat
        /\ o2[Len(outgoing) + 1] = c
        /\ DOMAIN outgoing = 1..Len(outgoing) /\ \A i \in DOMAIN outgoing : o2[i] = outgoing[i]
    BY <1>1
  <2> HIDE DEF o2
  <2>3. \A i \in DOMAIN o2 : i = Len(outgoing) + 1 \/ i \in DOMAIN outgoing
    BY <2>2
  <2>4. \A i, j \in DOMAIN o2 : o2[i] = o2[j] => i = j
    <3> SUFFICES ASSUME NEW i \in DOMAIN o2, NEW j \in DOMAIN o2, o2[i] = o2[j] PROVE i = j
      OBVIOUS
    <3> QED BY <1>2, <2>2, <2>3 DEF HostHolds, Held, Books, WritesFirst
  <2>5. \A i \in DOMAIN o2 : o2[i] = c \/ \E j \in DOMAIN outgoing : outgoing[j] = o2[i]
    BY <2>2, <2>3
  <2>6. Books(waiters, call, heard, outgoing, queued)
    BY DEF HostHolds, Held
  <2>7. Books(waiters, [call EXCEPT ![c].state = "writing"], heard, o2, queued)
    <3>1. WritesBecome(outgoing, c, "writing" = "rejected", o2)
      BY <2>2, <2>4, <2>5 DEF WritesBecome
    <3>2. call[c].state \in {"new", "writing", "written"}
      BY <1>1
    <3> QED BY <2>6, <3>1, <3>2, WritingKeepsBooks
  <2> QED BY <2>1, <2>7 DEF HostHolds, Held, Flow, Call
<1> QED BY <1>3, <1>4

LEMMA TransmitKeeps ==
    ASSUME HostHolds, NEW c \in Calls, Transmit(c)
    PROVE  HostHolds'
<1>1. /\ call' = [call EXCEPT ![c].state = "written"] /\ call[c].state = "writing"
  BY DEF Transmit, Becomes
<1>2. /\ outgoing \in Seq(Calls)
      /\ \A i, j \in DOMAIN outgoing : outgoing[i] = outgoing[j] => i = j
      /\ \A i \in DOMAIN outgoing : \E j \in DOMAIN outgoing : outgoing[j] = outgoing[i]
  BY DEF HostHolds, Held, Books, BookTypes, WritesFirst
<1>3. Books(waiters, [call EXCEPT ![c].state = "written"], heard, outgoing, queued)
  <2>1. WritesBecome(outgoing, c, "written" = "rejected", outgoing)
    BY <1>2 DEF WritesBecome
  <2> QED BY <1>1, <2>1, WritingKeepsBooks DEF HostHolds, Held
<1>4. Append(toDevice, MessageOf[c]) \in Seq({MessageOf[d] : d \in Calls})
  BY DEF HostHolds, Flow
<1> QED BY <1>1, <1>3, <1>4 DEF HostHolds, Held, Flow, Transmit

LEMMA WrittenKeeps ==
    ASSUME HostHolds, NEW c \in Calls, Written(c)
    PROVE  HostHolds'
<1>1. /\ outgoing # <<>> /\ c = Head(outgoing) /\ call[c].state = "written"
      /\ call' = [call EXCEPT ![c].state = "waiting"]
  BY DEF Written, Becomes
<1>2. Books(Append(waiters, c), [call EXCEPT ![c].state = "waiting"], heard, Tail(outgoing),
            Append(queued, c))
  BY <1>1, WaitingKeepsBooks DEF HostHolds, Held
<1> QED BY <1>1, <1>2 DEF HostHolds, Held, Flow, Written

LEMMA WriteFailsKeeps ==
    ASSUME HostHolds, NEW c \in Calls, WriteFails(c)
    PROVE  HostHolds'
<1> DEFINE o2 == Tail(outgoing)
<1>1. /\ outgoing # <<>> /\ c = Head(outgoing) /\ outgoing' = o2
      /\ call' = [call EXCEPT ![c].state = "rejected"]
  BY DEF WriteFails, Becomes
<1>2. outgoing \in Seq(Calls)
  BY DEF HostHolds, Held, Books, BookTypes
<1>3. /\ c = outgoing[1] /\ 1 \in DOMAIN outgoing /\ o2 \in Seq(Calls)
      /\ \A i \in DOMAIN o2 : i \in Nat /\ i + 1 \in DOMAIN outgoing /\ i + 1 # 1 /\ o2[i] = outgoing[i + 1]
  BY <1>1, <1>2
<1>4. call[c].state \in {"new", "writing", "written"}
  BY <1>3 DEF HostHolds, Held, Books, WritesFirst
<1> HIDE DEF o2
<1>5. \A i, j \in DOMAIN o2 : o2[i] = o2[j] => i = j
  <2> SUFFICES ASSUME NEW i \in DOMAIN o2, NEW j \in DOMAIN o2, o2[i] = o2[j] PROVE i = j
    OBVIOUS
  <2>1. i + 1 = j + 1
    BY <1>3 DEF HostHolds, Held, Books, WritesFirst
  <2> QED BY <1>3, <2>1
<1>6. \A i \in DOMAIN o2 : o2[i] # c /\ \E j \in DOMAIN outgoing : outgoing[j] = o2[i]
  BY <1>3 DEF HostHolds, Held, Books, WritesFirst
<1>7. Books(waiters, [call EXCEPT ![c].state = "rejected"], heard, o2, queued)
  <2>1. WritesBecome(outgoing, c, "rejected" = "rejected", o2)
    BY <1>3, <1>5, <1>6 DEF WritesBecome
  <2>2. Books(waiters, call, heard, outgoing, queued)
    BY DEF HostHolds, Held
  <2> QED BY <1>4, <2>1, <2>2, WritingKeepsBooks
<1> QED BY <1>1, <1>7 DEF HostHolds, Held, Flow, WriteFails

LEMMA TimeoutKeeps ==
    ASSUME HostHolds, NEW c \in Calls, Timeout(c)
    PROVE  HostHolds'
<1>1. Books(Without(waiters, c), [call EXCEPT ![c].state = "timed out"], heard, outgoing, queued)
  BY TimeoutKeepsBooks DEF HostHolds, Held, Timeout
<1> QED BY <1>1 DEF HostHolds, Held, Flow, Timeout, LeavesQueue, GivesUp, Becomes

LEMMA EndKeeps ==
    ASSUME NEW w, NEW cs, NEW h, NEW o, NEW q, Books(w, cs, h, o, q),
           ProcessEnds(cs), heard' = h, queued' = q
    PROVE  Held'
<1>1. Books(<<>>, Lost(cs), h, <<>>, q)
  BY EndingKeepsBooks
<1> QED BY <1>1 DEF Held, ProcessEnds, Lost

LEMMA ExitKeeps ==
    ASSUME HostHolds, Exit
    PROVE  HostHolds'
<1>1. Held'
  BY EndKeeps DEF Exit, HostHolds, Held
<1>2. Flow'
  <2>1. Len(heard) \in Nat /\ Len(buffer) \in Nat /\ Len(toHost) \in Nat /\ MaxAnswers \in Nat
    BY HostBounds DEF HostHolds, Held, Flow, Books, BookTypes
  <2>2. buffer' = <<>> /\ heard' = heard /\ toHost' = toHost /\ toDevice' = toDevice /\ port' = "off"
    BY DEF Exit, ProcessEnds
  <2> QED BY <2>1, <2>2 DEF HostHolds, Flow
<1> QED BY <1>1, <1>2 DEF HostHolds

LEMMA DataKeeps ==
    ASSUME HostHolds, NEW n \in 1..Len(toHost), Data(n)
    PROVE  HostHolds'
<1> DEFINE frames == buffer \o SubSeq(toHost, 1, n)
           start == [waiters |-> waiters, heard |-> heard, call |-> call]
<1>1. /\ Len(toHost) \in Nat /\ Len(buffer) \in Nat /\ MaxAnswers \in Nat
      /\ Len(heard) + Len(buffer) + Len(toHost) <= MaxAnswers
      /\ toHost \in Seq(Frame) /\ buffer \in Seq(Frame)
  BY HostBounds DEF HostHolds, Flow
<1>2. frames \in Seq(Frame) /\ Len(frames) = Len(buffer) + n
  <2>1. n \in Nat /\ n <= Len(toHost)
    BY <1>1
  <2>2. SubSeq(toHost, 1, n) \in Seq(Frame) /\ Len(SubSeq(toHost, 1, n)) = n
    BY <1>1, <2>1, SubSeqOfSeq
  <2> QED BY <1>1, <2>2, ConcatProperties
<1>3. toHost' = SubSeq(toHost, n + 1, Len(toHost)) /\ toDevice' = toDevice /\ queued' = queued
  BY DEF Data
<1>4. toHost' \in Seq(Frame) /\ Len(toHost') = Len(toHost) - n
  <2>1. n \in Nat /\ n <= Len(toHost)
    BY <1>1
  <2> QED BY <1>1, <1>3, <2>1, SubSeqOfSeq
<1>5. Books(start.waiters, start.call, start.heard, outgoing, queued)
  BY DEF HostHolds, Held
<1>6. PICK done \in 0..Len(frames) :
         LET end == AfterRounds(start, frames, done)
         IN  /\ heard' = end.heard
             /\ IF Throws(frames, done)
                THEN ProcessEnds(end.call)
                ELSE /\ call' = end.call
                     /\ waiters' = end.waiters
                     /\ buffer' = Rest(frames, done)
                     /\ UNCHANGED <<port, outgoing>>
  BY DEF Data
<1> DEFINE end == AfterRounds(start, frames, done)
<1>7. start.heard = heard
  OBVIOUS
<1> HIDE DEF frames, start
<1>8. Books(end.waiters, end.call, end.heard, outgoing, queued) /\ Len(end.heard) <= Len(heard) + done
  BY <1>2, <1>5, <1>7, LoopKeepsBooks
<1> HIDE DEF end
<1>9. /\ heard' = end.heard
      /\ IF Throws(frames, done)
         THEN ProcessEnds(end.call)
         ELSE /\ call' = end.call
              /\ waiters' = end.waiters
              /\ buffer' = Rest(frames, done)
              /\ UNCHANGED <<port, outgoing>>
  BY <1>6 DEF end
<1>10. Held'
  <2>1. CASE Throws(frames, done)
    BY <1>3, <1>8, <1>9, <2>1, EndKeeps
  <2>2. CASE ~Throws(frames, done)
    BY <1>3, <1>8, <1>9, <2>2 DEF Held
  <2> QED BY <2>1, <2>2
<1>11. buffer' \in Seq(Frame) /\ Len(buffer') <= Len(frames) - done /\ Len(buffer') \in Nat
  <2>1. CASE Throws(frames, done)
    <3>1. buffer' = <<>>
      BY <1>9, <2>1 DEF ProcessEnds
    <3>2. Len(frames) \in Nat
      BY <1>2
    <3> QED BY <3>1, <3>2
  <2>2. CASE ~Throws(frames, done)
    <3>1. buffer' = SubSeq(frames, done + 1, Len(frames))
      BY <1>9, <2>2 DEF Rest
    <3>2. done \in Nat /\ done <= Len(frames) /\ Len(frames) \in Nat
      BY <1>2
    <3> QED BY <1>2, <3>1, <3>2, SubSeqOfSeq
  <2> QED BY <2>1, <2>2
<1>12. port' \in {"off", "open", "closed"}
  BY <1>9 DEF ProcessEnds, HostHolds, Flow
<1>13. Len(heard') + Len(buffer') + Len(toHost') <= MaxAnswers
  <2>1. Len(heard) \in Nat /\ Len(heard') \in Nat
    BY <1>5, <1>7, <1>8, <1>9 DEF Books, BookTypes
  <2>2. Len(heard') <= Len(heard) + done
    BY <1>8, <1>9
  <2>3. done \in Nat /\ n \in Nat
    BY <1>1, <1>2
  <2> QED BY <1>1, <1>2, <1>4, <1>11, <2>1, <2>2, <2>3
<1>14. toDevice' \in Seq({MessageOf[c] : c \in Calls})
  BY <1>3 DEF HostHolds, Flow
<1>15. Flow'
  BY <1>4, <1>11, <1>12, <1>13, <1>14 DEF Flow
<1> QED BY <1>10, <1>15 DEF HostHolds

\* The states the loop can be in: whoever is in its queue waited when it began, and
\* nobody else got an outcome.
LoopState ==
    {s \in [waiters : Seq(Calls), heard : Seq(Answers),
            call : [Calls -> [state : States, answer : Nat]]] :
        /\ \A i \in DOMAIN s.waiters : call[s.waiters[i]].state = "waiting"
        /\ \A c \in Calls :
              \/ s.call[c] = call[c]
              \/ call[c].state = "waiting" /\ s.call[c].state \in {"resolved", "rejected"}}

LEMMA RoundStays ==
    ASSUME NEW s \in LoopState, NEW f \in Frame
    PROVE  Round(s, f) \in LoopState
<1> DEFINE w == s.waiters
           cs == s.call
           h2 == Append(s.heard, f.answer)
           r == [state |-> Settles(f.damage), answer |-> Len(s.heard) + 1]
           cs2 == [cs EXCEPT ![w[1]] = r]
           w2 == Cut(w, 1)
<1>1. /\ w \in Seq(Calls) /\ cs \in [Calls -> [state : States, answer : Nat]]
      /\ s.heard \in Seq(Answers) /\ f.answer \in Answers
      /\ \A i \in DOMAIN w : call[w[i]].state = "waiting"
      /\ \A c \in Calls : \/ cs[c] = call[c]
                          \/ call[c].state = "waiting" /\ cs[c].state \in {"resolved", "rejected"}
  BY DEF LoopState, Frame
<1>2. h2 \in Seq(Answers) /\ Len(s.heard) + 1 \in Nat
  BY <1>1
<1>3. r \in [state : States, answer : Nat] /\ r.state \in {"resolved", "rejected"}
  BY <1>2 DEF Settles, States, Settled
<1> HIDE DEF h2, r
<1>4. CASE f.damage = "header"
  BY <1>4 DEF Round
<1>5. CASE f.damage # "header" /\ w = <<>>
  <2>1. Round(s, f) = [waiters |-> <<>>, heard |-> h2, call |-> cs]
    BY <1>5 DEF Round, h2
  <2>2. <<>> \in Seq(Calls) /\ \A i \in DOMAIN <<>> : call[<<>>[i]].state = "waiting"
    OBVIOUS
  <2> HIDE DEF cs
  <2> QED BY <1>1, <1>2, <2>1, <2>2 DEF LoopState
<1>6. CASE f.damage # "header" /\ w # <<>>
  <2>1. Round(s, f) = [waiters |-> w2, heard |-> h2, call |-> cs2]
    BY <1>6 DEF Round, Serves, h2, r
  <2>2. 1 \in DOMAIN w /\ w[1] \in Calls /\ call[w[1]].state = "waiting"
    BY <1>1, <1>6
  <2>3. w2 \in Seq(Calls) /\ \A i \in DOMAIN w2 : call[w2[i]].state = "waiting"
    <3>1. /\ w2 \in Seq(Calls) /\ DOMAIN w2 = 1..Len(w) - 1
          /\ \A j \in 1..Len(w) - 1 : w2[j] = IF j < 1 THEN w[j] ELSE w[j + 1]
      <4>1. w \in Seq(Calls) /\ 1 \in DOMAIN w
        BY <1>1, <2>2
      <4> HIDE DEF w
      <4> QED BY <4>1, CutProperties
    <3>2. ASSUME NEW i \in DOMAIN w2 PROVE call[w2[i]].state = "waiting"
      <4>1. i \in 1..Len(w) - 1 /\ Len(w) \in Nat /\ DOMAIN w = 1..Len(w)
        BY SMTT(30), <1>1, <3>1
      <4>2. ~(i < 1) /\ i + 1 \in DOMAIN w
        BY <4>1
      <4>3. w2[i] = w[i + 1]
        BY <3>1, <4>1, <4>2
      <4> QED BY <1>1, <4>2, <4>3
    <3> QED BY <3>1, <3>2
  <2>4. /\ cs2 \in [Calls -> [state : States, answer : Nat]]
        /\ \A c \in Calls :
              \/ cs2[c] = call[c]
              \/ call[c].state = "waiting" /\ cs2[c].state \in {"resolved", "rejected"}
    <3>1. cs2[w[1]] = r /\ \A c \in Calls : c # w[1] => cs2[c] = cs[c]
      BY <1>1, <2>2
    <3>2. cs2 \in [Calls -> [state : States, answer : Nat]]
      BY <1>1, <1>3, <2>2
    <3> HIDE DEF cs2
    <3> QED BY <1>1, <1>3, <2>2, <3>1, <3>2
  <2> HIDE DEF w2, cs2
  <2> QED BY <1>2, <2>1, <2>3, <2>4 DEF LoopState
<1> QED BY <1>4, <1>5, <1>6

\* A data event gives outcomes to calls that had none.
LEMMA DataSettles ==
    ASSUME HostHolds, NEW n \in 1..Len(toHost), Data(n), NEW c \in Calls
    PROVE  \/ call'[c] = call[c]
           \/ call[c].state \in Pending /\ call'[c].state \in {"resolved", "rejected", "lost"}
<1> DEFINE frames == buffer \o SubSeq(toHost, 1, n)
           start == [waiters |-> waiters, heard |-> heard, call |-> call]
<1>1. frames \in Seq(Frame)
  <2>1. toHost \in Seq(Frame) /\ buffer \in Seq(Frame) /\ n \in Nat /\ n <= Len(toHost)
    BY DEF HostHolds, Flow
  <2> QED BY <2>1, SubSeqOfSeq, ConcatProperties
<1>2. start \in LoopState
  <2>1. /\ waiters \in Seq(Calls) /\ heard \in Seq(Answers)
        /\ call \in [Calls -> [state : States, answer : 0..Len(heard)]]
    BY DEF HostHolds, Held, Books, BookTypes
  <2>2. call \in [Calls -> [state : States, answer : Nat]]
    BY <2>1
  <2>3. \A i \in DOMAIN waiters : call[waiters[i]].state = "waiting"
    BY <2>1 DEF HostHolds, Held, Books, WhoWaits
  <2> QED BY <2>1, <2>2, <2>3 DEF LoopState
<1>3. PICK done \in 0..Len(frames) :
         LET end == AfterRounds(start, frames, done)
         IN  IF Throws(frames, done) THEN ProcessEnds(end.call) ELSE call' = end.call
  BY DEF Data
<1> DEFINE end == AfterRounds(start, frames, done)
<1>4. end \in LoopState
  <2>1. done \in Nat /\ \A k \in 1..done : frames[k] \in Frame
    BY <1>1
  <2> HIDE DEF frames, start
  <2>2. \A s \in LoopState, k \in 1..done : Round(s, frames[k]) \in LoopState
    BY <2>1, RoundStays
  <2> QED BY <1>2, <2>1, <2>2, LoopKeeps
<1>5. IF Throws(frames, done) THEN ProcessEnds(end.call) ELSE call' = end.call
  BY <1>3
<1> HIDE DEF end, frames
<1>6. \/ end.call[c] = call[c]
      \/ call[c].state = "waiting" /\ end.call[c].state \in {"resolved", "rejected"}
  BY <1>4 DEF LoopState
<1>7. CASE ~Throws(frames, done)
  BY <1>5, <1>6, <1>7 DEF Pending
<1>8. CASE Throws(frames, done)
  <2>1. call'[c] = IF end.call[c].state \in Pending THEN [end.call[c] EXCEPT !.state = "lost"]
                                                    ELSE end.call[c]
    BY <1>5, <1>8 DEF ProcessEnds
  <2>2. end.call[c] \in [state : States, answer : Nat]
    BY <1>4 DEF LoopState
  <2>3. end.call[c].state \in Pending => call'[c].state = "lost"
    BY <2>1, <2>2
  <2> QED BY <1>6, <2>1, <2>3 DEF Pending
<1> QED BY <1>7, <1>8

LEMMA DeviceKeeps ==
    ASSUME HostHolds, NEW n \in 0..Len(toDevice), NEW frames \in Said, DeviceActs(n, frames)
    PROVE  HostHolds'
<1>1. frames \in Seq(Frame)
  <2>1. Damages \subseteq AllDamages
    BY HostBounds
  <2>2. CASE frames = <<>>
    BY <2>2
  <2>3. CASE frames # <<>>
    <3>1. PICK a \in Answers, d \in Damages : frames = <<[answer |-> a, damage |-> d]>>
      BY <2>3 DEF Said
    <3>2. [answer |-> a, damage |-> d] \in Frame
      BY <2>1 DEF Frame
    <3> QED BY <3>1, <3>2
  <2> QED BY <2>2, <2>3
<1>2. /\ toHost \in Seq(Frame) /\ Len(toHost) \in Nat /\ Len(frames) \in Nat
      /\ toDevice \in Seq({MessageOf[c] : c \in Calls}) /\ Len(toDevice) \in Nat
      /\ Len(heard) \in Nat /\ Len(buffer) \in Nat
  BY <1>1 DEF HostHolds, Flow, Held, Books, BookTypes
<1>3. toHost' \in Seq(Frame) /\ Len(toHost') = Len(toHost) + Len(frames)
  BY <1>1, <1>2, ConcatProperties DEF DeviceActs
<1>4. toDevice' \in Seq({MessageOf[c] : c \in Calls})
  <2>1. n \in Nat /\ n <= Len(toDevice) /\ toDevice' = SubSeq(toDevice, n + 1, Len(toDevice))
    BY <1>2 DEF DeviceActs
  <2> QED BY <1>2, <2>1, SubSeqOfSeq
<1>5. Len(heard') + Len(buffer') + Len(toHost') <= MaxAnswers
  <2>1. /\ Len(heard) + Len(buffer) + Len(toHost) + Len(frames) <= MaxAnswers
        /\ heard' = heard /\ buffer' = buffer /\ MaxAnswers \in Nat
    BY HostBounds DEF DeviceActs
  <2> QED BY <1>2, <1>3, <2>1
<1>6. Flow'
  BY <1>3, <1>4, <1>5 DEF Flow, HostHolds, DeviceActs
<1> QED BY <1>6 DEF HostHolds, Held, DeviceActs

LEMMA HostInit == Init => HostHolds
<1> SUFFICES ASSUME Init PROVE HostHolds
  OBVIOUS
<1>1. [state |-> "new", answer |-> 0] \in [state : States, answer : 0..Len(<<>>)]
  BY DEF States
<1>2. BookTypes(<<>>, call, <<>>, <<>>, <<>>)
  BY <1>1 DEF Init, BookTypes
<1>3. Books(<<>>, call, <<>>, <<>>, <<>>)
  BY <1>2 DEF Init, Books, QueuedOnce, WhoWaits, WritesFirst, ServedInTurn
<1>4. Flow
  BY HostBounds DEF Init, Flow
<1> QED BY <1>3, <1>4 DEF Init, HostHolds, Held

LEMMA HostNext == HostHolds /\ [Next]_hostVars => HostHolds'
<1> SUFFICES ASSUME HostHolds, [Next]_hostVars PROVE HostHolds'
  OBVIOUS
<1>1. CASE Open
  BY <1>1 DEF Open, HostHolds, Flow, Held
<1>2. CASE Close
  BY <1>2 DEF Close, HostHolds, Flow, Held
<1>3. CASE UNCHANGED hostVars
  BY <1>3 DEF hostVars, HostHolds, Flow, Held
<1> QED BY <1>1, <1>2, <1>3, CallKeeps, TransmitKeeps, WrittenKeeps, WriteFailsKeeps,
           TimeoutKeeps, ExitKeeps, DataKeeps, DeviceKeeps
        DEF Next, HostStep

LEMMA HostHoldsInvariant == HostSpec => []HostHolds
BY HostInit, HostNext, PTL DEF HostSpec

\* openDevice keeps every variable in its type, and takes no frame from the line twice.
THEOREM HostTypes == HostSpec => []HostTypeOK
<1>1. HostHolds => HostTypeOK
  BY DEF HostHolds, Flow, Held, Books, BookTypes, States, HostTypeOK
<1> QED BY <1>1, HostHoldsInvariant, PTL

\* The queue of waiters and the calls that wait are the same, in the order of the waits.
THEOREM WaitersWait == HostSpec => []WaitersAreWhoWaits
<1>1. HostHolds => WaitersAreWhoWaits
  <2> SUFFICES ASSUME HostHolds PROVE WaitersAreWhoWaits
    OBVIOUS
  <2>1. WhoWaits(waiters, call, queued) /\ QueuedOnce(queued)
    BY DEF HostHolds, Held, Books
  <2>2. ASSUME NEW i \in DOMAIN waiters, NEW j \in DOMAIN waiters, i < j
        PROVE  \E k, l \in DOMAIN queued :
                  k < l /\ queued[k] = waiters[i] /\ queued[l] = waiters[j]
    <3>1. PICK k \in DOMAIN queued : queued[k] = waiters[i]
      BY <2>1 DEF WhoWaits
    <3>2. PICK l \in DOMAIN queued : queued[l] = waiters[j]
      BY <2>1 DEF WhoWaits
    <3>3. k < l
      BY <2>1, <2>2, <3>1, <3>2 DEF WhoWaits
    <3> QED BY <3>1, <3>2, <3>3
  <2> QED BY <2>1, <2>2 DEF WaitersAreWhoWaits, WhoWaits, QueuedOnce
<1> QED BY <1>1, HostHoldsInvariant, PTL

LEMMA StepKeepsOutcomes ==
    ASSUME HostHolds, [Next]_hostVars, NEW c \in Calls, call[c].state \in Settled \cup {"lost"}
    PROVE  call'[c] = call[c]
<1>1. /\ call \in [Calls -> [state : States, answer : 0..Len(heard)]]
      /\ outgoing \in Seq(Calls)
      /\ \A i \in DOMAIN outgoing : call[outgoing[i]].state \in {"writing", "written"}
  BY DEF HostHolds, Held, Books, BookTypes, WritesFirst
<1>2. call[c].state \notin Pending /\ call[c].state # "new"
  BY DEF Settled, Pending
<1>3. ASSUME NEW d \in Calls, NEW x, Becomes(d, x), call[d].state \in {"new"} \cup Pending
      PROVE  call'[c] = call[c]
  BY <1>1, <1>2, <1>3 DEF Becomes
<1>4. ASSUME NEW d \in Calls, Call(d) \/ Transmit(d) \/ Written(d) \/ Timeout(d)
      PROVE  call'[c] = call[c]
  <2>1. call[d].state \in {"new"} \cup Pending /\ \E x : Becomes(d, x)
    BY <1>4, Zenon DEF Call, Transmit, Written, Timeout, GivesUp, Pending
  <2> QED BY <1>3, <2>1
<1>5. ASSUME NEW d \in Calls, WriteFails(d)
      PROVE  call'[c] = call[c]
  <2>1. 1 \in DOMAIN outgoing /\ d = outgoing[1] /\ Becomes(d, "rejected")
    BY <1>1, <1>5 DEF WriteFails
  <2>2. call[d].state \in {"new"} \cup Pending
    BY <1>1, <2>1 DEF Pending
  <2> QED BY <1>3, <2>1, <2>2
<1>6. CASE Exit
  BY <1>2, <1>6 DEF Exit, ProcessEnds
<1>7. ASSUME NEW n \in 1..Len(toHost), Data(n)
      PROVE  call'[c] = call[c]
  BY <1>2, <1>7, DataSettles
<1>8. CASE Open \/ Close
  BY <1>8 DEF Open, Close
<1>9. ASSUME NEW n \in 0..Len(toDevice), NEW frames \in Said, DeviceActs(n, frames)
      PROVE  call'[c] = call[c]
  BY <1>9 DEF DeviceActs
<1>10. CASE UNCHANGED hostVars
  BY <1>10 DEF hostVars
<1> QED BY <1>4, <1>5, <1>6, <1>7, <1>8, <1>9, <1>10 DEF Next, HostStep

\* What a call came to stands: no answer, no timer and no end of the process settles it anew.
THEOREM OutcomesStand == HostSpec => OutcomesAreFinal
<1>1. HostHolds /\ [Next]_hostVars =>
        [\A c \in Calls : call[c].state \in Settled \cup {"lost"} => call'[c] = call[c]]_hostVars
  BY StepKeepsOutcomes
<1> QED BY <1>1, HostHoldsInvariant, PTL DEF HostSpec, OutcomesAreFinal

\* The data handler hands answers out in the order in which they came, each once.
THEOREM AnswersInOrder == HostSpec => []AnswersKeepOrder
<1>1. HostHolds => AnswersKeepOrder
  BY DEF HostHolds, Held, Books, ServedInTurn, AnswersKeepOrder
<1> QED BY <1>1, HostHoldsInvariant, PTL

================================================================================
