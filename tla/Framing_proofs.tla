---------------------------- MODULE Framing_proofs ----------------------------
(***************************************************************************)
(* What the receivers of Framing hand on, for every alphabet, every set of *)
(* payloads, every number of frames and every damage.                      *)
(*                                                                         *)
(* A checksum on its way is the mark of a message that may still be handed *)
(* on: the proofs follow these marks through the stream, which is what the *)
(* receiver has buffered and what is on the line.                          *)
(***************************************************************************)
EXTENDS Framing, SequenceTheorems, WellFoundedInduction, TLAPS

------------------------------------------------------------------------------
(* Sequences *)

Drop(s, n) == SubSeq(s, n + 1, Len(s))

LEMMA DropProperties ==
    ASSUME NEW S, NEW s \in Seq(S), NEW n \in 0..Len(s)
    PROVE  /\ Drop(s, n) \in Seq(S) /\ Len(Drop(s, n)) = Len(s) - n
           /\ DOMAIN Drop(s, n) = 1..Len(s) - n
           /\ \A i \in 1..Len(s) - n : Drop(s, n)[i] = s[i + n]
<1>1. Len(s) \in Nat /\ n \in Nat /\ \A i \in n + 1..Len(s) : s[i] \in S
  OBVIOUS
<1>2. /\ Drop(s, n) \in Seq(S)
      /\ Len(Drop(s, n)) = IF n + 1 <= Len(s) THEN Len(s) - (n + 1) + 1 ELSE 0
      /\ \A i \in 1..Len(s) - (n + 1) + 1 : Drop(s, n)[i] = s[(n + 1) + i - 1]
  BY <1>1, SubSeqProperties DEF Drop
<1>3. Len(Drop(s, n)) = Len(s) - n
  BY <1>1, <1>2
<1>4. ASSUME NEW i \in 1..Len(s) - n PROVE Drop(s, n)[i] = s[i + n]
  <2>1. i \in 1..Len(s) - (n + 1) + 1 /\ (n + 1) + i - 1 = i + n
    BY <1>1
  <2> QED BY <1>2, <2>1
<1> QED BY <1>2, <1>3, <1>4

LEMMA TakeProperties ==
    ASSUME NEW S, NEW s \in Seq(S), NEW n \in 0..Len(s)
    PROVE  /\ SubSeq(s, 1, n) \in Seq(S) /\ Len(SubSeq(s, 1, n)) = n
           /\ \A i \in 1..n : SubSeq(s, 1, n)[i] = s[i]
<1>1. Len(s) \in Nat /\ n \in Nat /\ \A i \in 1..n : s[i] \in S
  OBVIOUS
<1>2. /\ SubSeq(s, 1, n) \in Seq(S)
      /\ Len(SubSeq(s, 1, n)) = IF 1 <= n THEN n - 1 + 1 ELSE 0
      /\ \A i \in 1..n - 1 + 1 : SubSeq(s, 1, n)[i] = s[1 + i - 1]
  BY <1>1, SubSeqProperties
<1> QED BY <1>1, <1>2

\* Cutting a sequence and joining the parts gives it back.
LEMMA CutAndJoin ==
    ASSUME NEW S, NEW s \in Seq(S), NEW n \in 0..Len(s)
    PROVE  SubSeq(s, 1, n) \o Drop(s, n) = s
<1>1. /\ SubSeq(s, 1, n) \in Seq(S) /\ Len(SubSeq(s, 1, n)) = n
      /\ \A i \in 1..n : SubSeq(s, 1, n)[i] = s[i]
  BY TakeProperties
<1>2. /\ Drop(s, n) \in Seq(S) /\ Len(Drop(s, n)) = Len(s) - n
      /\ \A i \in 1..Len(s) - n : Drop(s, n)[i] = s[i + n]
  BY DropProperties
<1> DEFINE a == SubSeq(s, 1, n)
           b == Drop(s, n)
<1> HIDE DEF a, b
<1>3. Len(s) \in Nat /\ n \in Nat
  OBVIOUS
<1>4. /\ a \o b \in Seq(S) /\ Len(a \o b) = Len(s)
      /\ \A i \in 1..Len(s) : (a \o b)[i] = IF i <= n THEN a[i] ELSE b[i - n]
  BY <1>1, <1>2, <1>3, ConcatProperties DEF a, b
<1>5. ASSUME NEW i \in 1..Len(s) PROVE (a \o b)[i] = s[i]
  <2>1. CASE i <= n
    <3>1. i \in 1..n
      BY <2>1
    <3> QED BY <1>1, <1>4, <2>1, <3>1 DEF a
  <2>2. CASE ~(i <= n)
    <3>1. i - n \in 1..Len(s) - n /\ (i - n) + n = i
      BY <1>3, <2>2
    <3> QED BY <1>2, <1>4, <2>2, <3>1 DEF b
  <2> QED BY <2>1, <2>2
<1>6. a \o b = s
  BY <1>4, <1>5, SeqEqual
<1> QED BY <1>6 DEF a, b

\* What is dropped from the front of the first is dropped from the front of both.
LEMMA DropOfJoin ==
    ASSUME NEW S, NEW s \in Seq(S), NEW t \in Seq(S), NEW n \in 0..Len(s)
    PROVE  Drop(s, n) \o t = Drop(s \o t, n)
<1>1. Len(s) \in Nat /\ Len(t) \in Nat /\ n \in Nat
  OBVIOUS
<1>2. /\ Drop(s, n) \in Seq(S) /\ Len(Drop(s, n)) = Len(s) - n
      /\ \A i \in 1..Len(s) - n : Drop(s, n)[i] = s[i + n]
  BY DropProperties
<1>3. /\ s \o t \in Seq(S) /\ Len(s \o t) = Len(s) + Len(t)
      /\ \A i \in 1..Len(s) + Len(t) : (s \o t)[i] = IF i <= Len(s) THEN s[i] ELSE t[i - Len(s)]
  BY ConcatProperties
<1> DEFINE a == Drop(s, n)
           u == s \o t
           b == Drop(u, n)
<1> HIDE DEF u
<1>4. n \in 0..Len(u) /\ u \in Seq(S)
  BY <1>1, <1>3 DEF u
<1>5. /\ b \in Seq(S) /\ Len(b) = Len(s) + Len(t) - n
      /\ \A i \in 1..Len(s) + Len(t) - n : b[i] = u[i + n]
  <2>1. Len(u) = Len(s) + Len(t)
    BY <1>3 DEF u
  <2>2. /\ b \in Seq(S) /\ Len(b) = Len(u) - n
        /\ \A i \in 1..Len(u) - n : b[i] = u[i + n]
    BY <1>4, DropProperties
  <2> HIDE DEF b
  <2> QED BY <2>1, <2>2
<1> HIDE DEF a, b
<1>6. /\ a \o t \in Seq(S) /\ Len(a \o t) = Len(s) - n + Len(t)
      /\ \A i \in 1..Len(s) - n + Len(t) :
            (a \o t)[i] = IF i <= Len(s) - n THEN a[i] ELSE t[i - (Len(s) - n)]
  <2>1. a \in Seq(S) /\ Len(a) = Len(s) - n
    BY <1>2 DEF a
  <2>2. /\ a \o t \in Seq(S) /\ Len(a \o t) = Len(a) + Len(t)
        /\ \A i \in 1..Len(a) + Len(t) :
              (a \o t)[i] = IF i <= Len(a) THEN a[i] ELSE t[i - Len(a)]
    BY <2>1, ConcatProperties
  <2> QED BY <2>1, <2>2
<1>7. ASSUME NEW i \in 1..Len(s) - n + Len(t) PROVE (a \o t)[i] = b[i]
  <2>1. /\ i + n \in 1..Len(s) + Len(t) /\ i \in 1..Len(s) + Len(t) - n
        /\ i <= Len(s) - n <=> i + n <= Len(s)
        /\ i - (Len(s) - n) = (i + n) - Len(s)
    BY <1>1
  <2>2. b[i] = u[i + n]
    BY <1>5, <2>1
  <2>3. u[i + n] = IF i + n <= Len(s) THEN s[i + n] ELSE t[(i + n) - Len(s)]
    BY <1>3, <2>1 DEF u
  <2>4. i <= Len(s) - n => a[i] = s[i + n]
    BY <1>1, <1>2 DEF a
  <2> QED BY <1>6, <2>1, <2>2, <2>3, <2>4
<1>8. a \o t = b
  <2>1. b \in Seq(S) /\ Len(b) = Len(s) - n + Len(t)
    BY <1>1, <1>5
  <2> QED BY <1>6, <1>7, <2>1, SeqEqual
<1> QED BY <1>8 DEF a, b, u

\* What is dropped from the front of the second, with the first.
LEMMA DropBeyond ==
    ASSUME NEW S, NEW s \in Seq(S), NEW t \in Seq(S), NEW n \in 0..Len(t)
    PROVE  Drop(t, n) = Drop(s \o t, Len(s) + n)
<1>1. Len(s) \in Nat /\ Len(t) \in Nat /\ n \in Nat
  OBVIOUS
<1>2. /\ Drop(t, n) \in Seq(S) /\ Len(Drop(t, n)) = Len(t) - n
      /\ \A i \in 1..Len(t) - n : Drop(t, n)[i] = t[i + n]
  BY DropProperties
<1>3. /\ s \o t \in Seq(S) /\ Len(s \o t) = Len(s) + Len(t)
      /\ \A i \in 1..Len(s) + Len(t) : (s \o t)[i] = IF i <= Len(s) THEN s[i] ELSE t[i - Len(s)]
  BY ConcatProperties
<1> DEFINE u == s \o t
           m == Len(s) + n
<1> HIDE DEF u
<1>4. m \in 0..Len(u) /\ Len(u) - m = Len(t) - n
  BY <1>1, <1>3 DEF u
<1>5. /\ Drop(u, m) \in Seq(S) /\ Len(Drop(u, m)) = Len(t) - n
      /\ \A i \in 1..Len(t) - n : Drop(u, m)[i] = u[i + m]
  <2>1. u \in Seq(S)
    BY <1>3 DEF u
  <2> QED BY <1>4, <2>1, DropProperties
<1>6. ASSUME NEW i \in 1..Len(t) - n PROVE u[i + m] = t[i + n]
  <2>1. i + m \in 1..Len(s) + Len(t) /\ ~(i + m <= Len(s)) /\ (i + m) - Len(s) = i + n
    BY <1>1
  <2> QED BY <1>3, <2>1 DEF u
<1>7. Drop(t, n) = Drop(u, m)
  BY <1>2, <1>5, <1>6, SeqEqual
<1> QED BY <1>7 DEF u

------------------------------------------------------------------------------
(* Frames *)

ByteSymbol == {<<b>> : b \in Byte}

\* The payloads that are ever sent: those whose length two bytes can say.
Framable == {p \in Payloads : Len(p) <= MaxLength}

Symbol == ByteSymbol \cup {Checked(p) : p \in Framable}

LEMMA JoinsAssociate ==
    ASSUME NEW r \in Seq(Symbol), NEW s \in Seq(Symbol), NEW t \in Seq(Symbol)
    PROVE  (r \o s) \o t = r \o (s \o t)
BY ConcatAssociative

\* The two bytes of the length are bytes and say the length.
LEMMA LengthFitsHeader ==
    ASSUME NEW B \in Nat \ {0}, NEW n \in Nat, n <= B * B - 1
    PROVE  /\ n \div B \in 0..B - 1 /\ n % B \in 0..B - 1
           /\ (n \div B) * B + (n % B) = n
<1>1. n \div B \in Nat /\ n % B \in 0..B - 1 /\ n = B * (n \div B) + (n % B)
  OBVIOUS
<1>2. n \div B < B
  <2> DEFINE d == n \div B
  <2>1. d \in Nat /\ B * d <= n
    BY <1>1
  <2> HIDE DEF d
  <2>2. ASSUME d >= B PROVE FALSE
    <3>1. B * B <= B * d
      BY <2>1, <2>2
    <3>2. B * B \in Nat /\ B * d \in Nat
      BY <2>1
    <3> QED BY <2>1, <3>1, <3>2
  <2>3. d < B
    BY <2>1, <2>2
  <2> QED BY <2>3 DEF d
<1> QED BY <1>1, <1>2

LEMMA CheckedProperties ==
    ASSUME NEW p \in Framable
    PROVE  /\ p \in Seq(ByteSymbol) /\ Len(p) \in Nat \ {0}
           /\ Checked(p) \in Seq(ByteSymbol) /\ Len(Checked(p)) = Len(p) + 4
           /\ Checked(p)[1] = <<MAGIC_0>> /\ Checked(p)[2] = <<MAGIC_1>>
           /\ Checked(p)[3] = <<Len(p) \div Base>> /\ Checked(p)[4] = <<Len(p) % Base>>
           /\ \A i \in 1..Len(p) : Checked(p)[i + 4] = p[i]
<1>1. p \in Seq(ByteSymbol) /\ p # <<>>
  BY FramingSorts DEF Framable, ByteSymbol
<1>2. Len(p) \in Nat \ {0}
  BY <1>1
<1>3. Base \in Nat \ {0} /\ MAGIC_0 \in Byte /\ MAGIC_1 \in Byte
  BY FramingSorts
<1>4. Len(p) \div Base \in Byte /\ Len(p) % Base \in Byte
  <2>1. Len(p) <= Base * Base - 1
    BY DEF Framable, MaxLength
  <2> QED BY <1>2, <1>3, <2>1, LengthFitsHeader DEF Byte
<1> DEFINE header == <<<<MAGIC_0>>, <<MAGIC_1>>, <<Len(p) \div Base>>, <<Len(p) % Base>>>>
<1>5. /\ <<MAGIC_0>> \in ByteSymbol /\ <<MAGIC_1>> \in ByteSymbol
      /\ <<Len(p) \div Base>> \in ByteSymbol /\ <<Len(p) % Base>> \in ByteSymbol
  BY <1>3, <1>4 DEF ByteSymbol
<1>6. /\ header \in Seq(ByteSymbol) /\ Len(header) = 4
      /\ header[1] = <<MAGIC_0>> /\ header[2] = <<MAGIC_1>>
      /\ header[3] = <<Len(p) \div Base>> /\ header[4] = <<Len(p) % Base>>
  BY <1>5
<1> HIDE DEF header
<1>7. /\ header \o p \in Seq(ByteSymbol) /\ Len(header \o p) = Len(header) + Len(p)
      /\ \A i \in 1..Len(header) + Len(p) :
            (header \o p)[i] = IF i <= Len(header) THEN header[i] ELSE p[i - Len(header)]
  BY <1>1, <1>6, ConcatProperties
<1>8. ASSUME NEW i \in 1..Len(p) PROVE (header \o p)[i + 4] = p[i]
  <2>1. i + 4 \in 1..Len(header) + Len(p) /\ ~(i + 4 <= Len(header)) /\ (i + 4) - Len(header) = i
    BY <1>2, <1>6
  <2> QED BY <1>7, <2>1
<1>9. \A i \in 1..4 : (header \o p)[i] = header[i]
  <2>1. \A i \in 1..4 : i \in 1..Len(header) + Len(p) /\ i <= Len(header)
    BY <1>2, <1>6
  <2> QED BY <1>7, <2>1
<1>10. Checked(p) = header \o p
  BY DEF Checked, header
<1>11. 1 \in 1..4 /\ 2 \in 1..4 /\ 3 \in 1..4 /\ 4 \in 1..4
  OBVIOUS
<1>12. Len(header \o p) = Len(p) + 4
  BY <1>2, <1>6, <1>7
<1> QED BY <1>1, <1>2, <1>6, <1>7, <1>8, <1>9, <1>10, <1>11, <1>12

LEMMA FrameProperties ==
    ASSUME NEW p \in Framable
    PROVE  /\ Frame(p) \in Seq(Symbol) /\ Len(Frame(p)) = Len(p) + 5
           /\ \A i \in 1..Len(p) + 4 : Frame(p)[i] = Checked(p)[i]
           /\ Frame(p)[Len(p) + 5] = Checked(p)
<1>1. Checked(p) \in Seq(ByteSymbol) /\ Len(Checked(p)) = Len(p) + 4 /\ Len(p) \in Nat
  BY CheckedProperties
<1>2. Checked(p) \in Seq(Symbol) /\ Checked(p) \in Symbol
  <2>1. ByteSymbol \subseteq Symbol /\ Checked(p) \in Symbol
    BY DEF Symbol
  <2> QED BY <1>1, <2>1, SeqMonotonic
<1> DEFINE c == Checked(p)
<1>3. Frame(p) = Append(c, c)
  BY DEF Frame
<1> HIDE DEF c
<1>4. /\ Append(c, c) \in Seq(Symbol) /\ Len(Append(c, c)) = Len(c) + 1
      /\ \A i \in 1..Len(c) : Append(c, c)[i] = c[i]
      /\ Append(c, c)[Len(c) + 1] = c
  BY <1>2, AppendProperties DEF c
<1>5. Len(c) = Len(p) + 4 /\ Len(c) + 1 = Len(p) + 5
  BY <1>1 DEF c
<1> QED BY <1>3, <1>4, <1>5 DEF c

\* A checksum is told from a byte, and tells its message.
LEMMA ChecksumIsNoByte ==
    ASSUME NEW p \in Framable
    PROVE  Len(Checked(p)) # 1 /\ Checked(p) \notin ByteSymbol
<1>1. Len(Checked(p)) = Len(p) + 4 /\ Len(p) \in Nat
  BY CheckedProperties
<1>2. \A x \in ByteSymbol : Len(x) = 1
  BY DEF ByteSymbol
<1>3. Len(Checked(p)) # 1
  BY <1>1
<1> QED BY <1>2, <1>3

LEMMA ByteAtIsByte ==
    ASSUME NEW s \in Seq(Symbol), NEW i \in 1..Len(s)
    PROVE  ByteAt(s, i) \in Byte
<1>1. s[i] \in Symbol
  OBVIOUS
<1>2. CASE s[i] \in ByteSymbol
  BY <1>2 DEF ByteSymbol, ByteAt
<1>3. CASE s[i] \notin ByteSymbol
  <2>1. PICK p \in Framable : s[i] = Checked(p)
    BY <1>1, <1>3 DEF Symbol
  <2>2. ByteAt(s, i) = ChecksumByte
    BY <2>1, ChecksumIsNoByte DEF ByteAt
  <2> QED BY <2>2, FramingSorts
<1> QED BY <1>2, <1>3

------------------------------------------------------------------------------
(* Marks: of[i] is the number of the message whose checksum stands at i,   *)
(* or 0 for a byte, and from[i] the number of the i-th message handed on.  *)

Marks(stream, messages, of) ==
    /\ \A i \in DOMAIN stream : IF of[i] = 0 THEN stream[i] \in ByteSymbol
                                             ELSE stream[i] = Checked(messages[of[i]])
    /\ \A i, j \in DOMAIN stream : i < j /\ of[i] # 0 /\ of[j] # 0 => of[i] < of[j]

Handed(d, messages, from) ==
    /\ \A i \in DOMAIN d : d[i] = messages[from[i]]
    /\ \A i, j \in DOMAIN d : i < j => from[i] < from[j]

Ahead(d, stream, from, of) ==
    \A i \in DOMAIN d, j \in DOMAIN stream : of[j] # 0 => from[i] < of[j]

\* What was handed on was sent, in order, and what may still be handed on was sent later.
Told(d, stream, messages) ==
    \E from \in [DOMAIN d -> DOMAIN messages], of \in [DOMAIN stream -> 0..Len(messages)] :
        Marks(stream, messages, of) /\ Handed(d, messages, from) /\ Ahead(d, stream, from, of)

\* A stream of symbols in their old order, some of them lost and some made other bytes.
IsRemnant(t, s, pos) ==
    /\ \A i \in DOMAIN t : t[i] = s[pos[i]] \/ t[i] \in ByteSymbol
    /\ \A i, j \in DOMAIN t : i < j => pos[i] < pos[j]

LEMMA RemnantsKeepTold ==
    ASSUME NEW d, NEW s, NEW messages \in Seq(Framable), Told(d, s, messages),
           NEW t, NEW pos \in [DOMAIN t -> DOMAIN s], IsRemnant(t, s, pos)
    PROVE  Told(d, t, messages)
<1>1. PICK from \in [DOMAIN d -> DOMAIN messages], of \in [DOMAIN s -> 0..Len(messages)] :
         Marks(s, messages, of) /\ Handed(d, messages, from) /\ Ahead(d, s, from, of)
  BY DEF Told
<1> DEFINE of2 == [i \in DOMAIN t |-> IF t[i] \in ByteSymbol THEN 0 ELSE of[pos[i]]]
<1>2. ASSUME NEW i \in DOMAIN t
      PROVE  /\ of2[i] = IF t[i] \in ByteSymbol THEN 0 ELSE of[pos[i]]
             /\ pos[i] \in DOMAIN s /\ of[pos[i]] \in 0..Len(messages)
             /\ of2[i] # 0 => of2[i] = of[pos[i]] /\ t[i] = s[pos[i]]
  BY DEF IsRemnant
<1>3. of2 \in [DOMAIN t -> 0..Len(messages)]
  <2>1. \A i \in DOMAIN t : of2[i] \in 0..Len(messages)
    <3> SUFFICES ASSUME NEW i \in DOMAIN t PROVE of2[i] \in 0..Len(messages)
      OBVIOUS
    <3>1. CASE t[i] \in ByteSymbol
      <4>1. of2[i] = 0 /\ of[pos[i]] \in 0..Len(messages)
        BY <1>2, <3>1
      <4> HIDE DEF of2
      <4>2. 0 \in 0..Len(messages)
        OBVIOUS
      <4> QED BY <4>1, <4>2
    <3>2. CASE t[i] \notin ByteSymbol
      BY <1>2, <3>2
    <3> QED BY <3>1, <3>2
  <2> QED BY <2>1
<1> HIDE DEF of2
<1>4. Marks(t, messages, of2)
  <2>1. ASSUME NEW i \in DOMAIN t
        PROVE  IF of2[i] = 0 THEN t[i] \in ByteSymbol ELSE t[i] = Checked(messages[of2[i]])
    <3>1. CASE of2[i] = 0
      <4>1. CASE t[i] \notin ByteSymbol
        <5>1. of[pos[i]] = 0 /\ t[i] = s[pos[i]]
          BY <1>2, <3>1, <4>1 DEF IsRemnant
        <5>2. s[pos[i]] \in ByteSymbol
          BY <1>1, <1>2, <5>1 DEF Marks
        <5> QED BY <4>1, <5>1, <5>2
      <4> QED BY <3>1, <4>1
    <3>2. CASE of2[i] # 0
      BY <1>1, <1>2, <3>2 DEF Marks
    <3> QED BY <3>1, <3>2
  <2>2. ASSUME NEW i \in DOMAIN t, NEW j \in DOMAIN t, i < j, of2[i] # 0, of2[j] # 0
        PROVE  of2[i] < of2[j]
    <3>1. pos[i] < pos[j] /\ of2[i] = of[pos[i]] /\ of2[j] = of[pos[j]]
      BY <1>2, <2>2 DEF IsRemnant
    <3> QED BY <1>1, <1>2, <2>2, <3>1 DEF Marks
  <2> QED BY <2>1, <2>2 DEF Marks
<1>5. Ahead(d, t, from, of2)
  <2> SUFFICES ASSUME NEW i \in DOMAIN d, NEW j \in DOMAIN t, of2[j] # 0
               PROVE  from[i] < of2[j]
    BY DEF Ahead
  <2>1. of2[j] = of[pos[j]]
    BY <1>2
  <2> QED BY <1>1, <1>2, <2>1 DEF Ahead
<1> QED BY <1>1, <1>3, <1>4, <1>5 DEF Told

LEMMA DropKeepsTold ==
    ASSUME NEW d, NEW messages \in Seq(Framable), NEW s \in Seq(Symbol), NEW n \in 0..Len(s),
           Told(d, s, messages)
    PROVE  Told(d, Drop(s, n), messages)
<1> DEFINE t == Drop(s, n)
           pos == [i \in DOMAIN t |-> i + n]
<1>1. /\ DOMAIN t = 1..Len(s) - n /\ DOMAIN s = 1..Len(s) /\ Len(s) \in Nat /\ n \in Nat
      /\ \A i \in 1..Len(s) - n : t[i] = s[i + n]
  BY DropProperties
<1> HIDE DEF t
<1>2. pos \in [DOMAIN t -> DOMAIN s]
  BY <1>1
<1>3. IsRemnant(t, s, pos)
  BY <1>1 DEF IsRemnant
<1> HIDE DEF pos
<1>4. Told(d, t, messages)
  BY <1>2, <1>3, RemnantsKeepTold
<1> QED BY <1>4 DEF t

\* A frame of one more message joins the stream.
LEMMA FrameKeepsTold ==
    ASSUME NEW d, NEW messages \in Seq(Framable), NEW s \in Seq(Symbol), NEW p \in Framable,
           Told(d, s, messages)
    PROVE  Told(d, s \o Frame(p), Append(messages, p))
<1> DEFINE t == s \o Frame(p)
           m2 == Append(messages, p)
           n == Len(messages)
           last == Len(s) + Len(p) + 5
<1>1. PICK from \in [DOMAIN d -> DOMAIN messages], of \in [DOMAIN s -> 0..n] :
         Marks(s, messages, of) /\ Handed(d, messages, from) /\ Ahead(d, s, from, of)
  BY DEF Told
<1>2. /\ n \in Nat /\ m2 \in Seq(Framable) /\ Len(m2) = n + 1 /\ m2[n + 1] = p
      /\ DOMAIN messages = 1..n /\ DOMAIN m2 = 1..n + 1
      /\ \A k \in 1..n : m2[k] = messages[k]
  BY AppendProperties
<1>3. /\ Len(p) \in Nat /\ Len(s) \in Nat /\ DOMAIN s = 1..Len(s)
      /\ Frame(p) \in Seq(Symbol) /\ Len(Frame(p)) = Len(p) + 5
      /\ Frame(p)[Len(p) + 5] = Checked(p)
      /\ \A i \in 1..Len(p) + 4 : Frame(p)[i] \in ByteSymbol
  <2>1. Checked(p) \in Seq(ByteSymbol) /\ Len(Checked(p)) = Len(p) + 4 /\ Len(p) \in Nat
    BY CheckedProperties
  <2>2. \A i \in 1..Len(p) + 4 : Checked(p)[i] \in ByteSymbol
    BY <2>1
  <2>3. /\ Frame(p) \in Seq(Symbol) /\ Len(Frame(p)) = Len(p) + 5
        /\ \A i \in 1..Len(p) + 4 : Frame(p)[i] = Checked(p)[i]
        /\ Frame(p)[Len(p) + 5] = Checked(p)
    BY FrameProperties
  <2>4. \A i \in 1..Len(p) + 4 : Frame(p)[i] \in ByteSymbol
    BY <2>2, <2>3
  <2>5. Len(s) \in Nat /\ DOMAIN s = 1..Len(s)
    OBVIOUS
  <2> QED BY <2>1, <2>3, <2>4, <2>5
<1>4. /\ t \in Seq(Symbol) /\ Len(t) = Len(s) + (Len(p) + 5)
      /\ \A i \in 1..Len(s) + (Len(p) + 5) :
            t[i] = IF i <= Len(s) THEN s[i] ELSE Frame(p)[i - Len(s)]
  <2>1. /\ t \in Seq(Symbol) /\ Len(t) = Len(s) + Len(Frame(p))
        /\ \A i \in 1..Len(s) + Len(Frame(p)) :
              t[i] = IF i <= Len(s) THEN s[i] ELSE Frame(p)[i - Len(s)]
    BY <1>3, ConcatProperties
  <2> HIDE DEF t
  <2> QED BY <1>3, <2>1
<1> HIDE DEF t, m2, n
<1> DEFINE of2 == [i \in DOMAIN t |-> IF i <= Len(s) THEN of[i] ELSE IF i = last THEN n + 1 ELSE 0]
<1>5. DOMAIN t = 1..last /\ last \in Nat /\ Len(s) < last
  BY <1>3, <1>4
<1>6. ASSUME NEW i \in DOMAIN t
      PROVE  \/ i \in DOMAIN s /\ t[i] = s[i] /\ of2[i] = of[i] /\ i < last
             \/ i = last /\ t[i] = Checked(p) /\ of2[i] = n + 1
             \/ t[i] \in ByteSymbol /\ of2[i] = 0 /\ i < last
  <2>1. CASE i <= Len(s)
    <3>1. i \in DOMAIN s /\ i < last
      BY <1>3, <1>5, <2>1
    <3> QED BY <1>4, <1>5, <2>1, <3>1
  <2>2. CASE i = last
    <3>1. ~(i <= Len(s)) /\ i - Len(s) = Len(p) + 5
      BY <1>3, <2>2
    <3> QED BY <1>3, <1>4, <1>5, <2>2, <3>1
  <2>3. CASE ~(i <= Len(s)) /\ i # last
    <3>1. i - Len(s) \in 1..Len(p) + 4 /\ i < last
      <4>1. i \in Nat /\ i <= last /\ Len(s) \in Nat /\ Len(p) \in Nat
        BY <1>3, <1>5
      <4>2. ASSUME NEW k \in Nat, NEW a \in Nat, NEW b \in Nat,
                   k <= a + b + 5, ~(k <= a), k # a + b + 5
            PROVE  k - a \in 1..b + 4 /\ k < a + b + 5
        BY <4>2
      <4> QED BY <2>3, <4>1, <4>2
    <3>2. t[i] = Frame(p)[i - Len(s)]
      BY <1>4, <1>5, <2>3
    <3> QED BY <1>3, <2>3, <3>1, <3>2
  <2> QED BY <2>1, <2>2, <2>3
<1>7. of2 \in [DOMAIN t -> 0..Len(m2)]
  <2>1. \A i \in DOMAIN t : of2[i] \in 0..n + 1
    BY <1>2, <1>6
  <2> QED BY <1>2, <2>1
<1> HIDE DEF of2, last
<1>8. Marks(t, m2, of2)
  <2>1. ASSUME NEW i \in DOMAIN t
        PROVE  IF of2[i] = 0 THEN t[i] \in ByteSymbol ELSE t[i] = Checked(m2[of2[i]])
    <3>1. CASE i \in DOMAIN s /\ t[i] = s[i] /\ of2[i] = of[i]
      <4>1. of[i] # 0 => of[i] \in 1..n /\ s[i] = Checked(messages[of[i]])
        BY <1>1, <1>2, <3>1 DEF Marks
      <4> QED BY <1>1, <1>2, <3>1, <4>1 DEF Marks
    <3>2. CASE i = last /\ t[i] = Checked(p) /\ of2[i] = n + 1
      BY <1>2, <3>2
    <3> QED BY <1>6, <3>1, <3>2
  <2>2. ASSUME NEW i \in DOMAIN t, NEW j \in DOMAIN t, i < j, of2[i] # 0, of2[j] # 0
        PROVE  of2[i] < of2[j]
    <3>1. i \in DOMAIN s /\ of2[i] = of[i]
      BY <1>5, <1>6, <2>2
    <3>2. CASE j \in DOMAIN s /\ of2[j] = of[j]
      BY <1>1, <2>2, <3>1, <3>2 DEF Marks
    <3>3. CASE j = last /\ of2[j] = n + 1
      <4>1. of[i] \in 0..n
        BY <3>1
      <4> QED BY <1>2, <3>1, <3>3, <4>1
    <3> QED BY <1>6, <2>2, <3>2, <3>3
  <2> QED BY <2>1, <2>2 DEF Marks
<1>9. Handed(d, m2, from) /\ from \in [DOMAIN d -> DOMAIN m2]
  <2>1. \A i \in DOMAIN d : from[i] \in 1..n /\ from[i] \in 1..n + 1
    BY <1>2
  <2> QED BY <1>1, <1>2, <2>1 DEF Handed
<1>10. Ahead(d, t, from, of2)
  <2> SUFFICES ASSUME NEW i \in DOMAIN d, NEW j \in DOMAIN t, of2[j] # 0
               PROVE  from[i] < of2[j]
    BY DEF Ahead
  <2>1. CASE j \in DOMAIN s /\ of2[j] = of[j]
    BY <1>1, <2>1 DEF Ahead
  <2>2. CASE of2[j] = n + 1
    <3>1. from[i] \in 1..n
      BY <1>2
    <3> QED BY <1>2, <2>2, <3>1
  <2> QED BY <1>6, <2>1, <2>2
<1>11. Told(d, t, m2)
  BY <1>7, <1>8, <1>9, <1>10 DEF Told
<1> QED BY <1>11 DEF t, m2

\* No two messages have the same checksum.
LEMMA ChecksumTells ==
    ASSUME NEW p \in Framable, NEW q \in Framable, Checked(p) = Checked(q)
    PROVE  p = q
<1>1. /\ p \in Seq(ByteSymbol) /\ Len(p) \in Nat /\ Len(Checked(p)) = Len(p) + 4
      /\ \A i \in 1..Len(p) : Checked(p)[i + 4] = p[i]
  BY CheckedProperties
<1>2. /\ q \in Seq(ByteSymbol) /\ Len(q) \in Nat /\ Len(Checked(q)) = Len(q) + 4
      /\ \A i \in 1..Len(q) : Checked(q)[i + 4] = q[i]
  BY CheckedProperties
<1>3. Len(p) = Len(q)
  BY <1>1, <1>2
<1>4. \A i \in 1..Len(p) : p[i] = q[i]
  BY <1>1, <1>2, <1>3
<1> QED BY <1>1, <1>2, <1>3, <1>4, SeqEqual

\* The message of a checksum is handed on, and what came up to the checksum is gone.
LEMMA TakeKeepsTold ==
    ASSUME NEW d \in Seq(Framable), NEW messages \in Seq(Framable), NEW s \in Seq(Symbol),
           NEW n \in 1..Len(s), NEW p \in Framable, s[n] = Checked(p), Told(d, s, messages)
    PROVE  Told(Append(d, p), Drop(s, n), messages)
<1> DEFINE t == Drop(s, n)
           d2 == Append(d, p)
           k == Len(d)
<1>1. PICK from \in [DOMAIN d -> DOMAIN messages], of \in [DOMAIN s -> 0..Len(messages)] :
         Marks(s, messages, of) /\ Handed(d, messages, from) /\ Ahead(d, s, from, of)
  BY DEF Told
<1>2. /\ DOMAIN s = 1..Len(s) /\ n \in DOMAIN s /\ n \in Nat /\ Len(s) \in Nat
      /\ Len(messages) \in Nat /\ DOMAIN messages = 1..Len(messages)
  OBVIOUS
<1>3. /\ DOMAIN t = 1..Len(s) - n
      /\ \A i \in 1..Len(s) - n : t[i] = s[i + n]
  <2>1. n \in 0..Len(s)
    BY <1>2
  <2> QED BY <2>1, DropProperties
<1>4. /\ k \in Nat /\ DOMAIN d = 1..k /\ DOMAIN d2 = 1..k + 1
      /\ d2[k + 1] = p /\ \A i \in 1..k : d2[i] = d[i]
  BY AppendProperties
<1> HIDE DEF t, d2, k
<1>5. of[n] \in DOMAIN messages /\ messages[of[n]] = p
  <2>1. of[n] # 0 /\ Checked(messages[of[n]]) = Checked(p)
    BY <1>1, <1>2, ChecksumIsNoByte DEF Marks
  <2>2. of[n] \in DOMAIN messages /\ messages[of[n]] \in Framable
    BY <1>2, <2>1
  <2> QED BY <2>1, <2>2, ChecksumTells
<1> DEFINE from2 == [i \in DOMAIN d2 |-> IF i = k + 1 THEN of[n] ELSE from[i]]
           of2 == [i \in DOMAIN t |-> of[i + n]]
<1>6. ASSUME NEW i \in DOMAIN t
      PROVE  i + n \in DOMAIN s /\ n < i + n /\ of2[i] = of[i + n] /\ t[i] = s[i + n] /\ i \in Nat
  BY <1>2, <1>3
<1>7. ASSUME NEW i \in DOMAIN d2
      PROVE  \/ i \in DOMAIN d /\ from2[i] = from[i] /\ d2[i] = d[i] /\ i <= k
             \/ i = k + 1 /\ from2[i] = of[n] /\ d2[i] = p
  <2>1. CASE i = k + 1
    BY <1>4, <2>1
  <2>2. CASE i # k + 1
    <3>1. i \in 1..k
      BY <1>4, <2>2
    <3> QED BY <1>4, <2>2, <3>1
  <2> QED BY <2>1, <2>2
<1>8. of2 \in [DOMAIN t -> 0..Len(messages)]
  BY <1>6
<1>9. from2 \in [DOMAIN d2 -> DOMAIN messages]
  <2>1. \A i \in DOMAIN d2 : from2[i] \in DOMAIN messages
    BY <1>5, <1>7
  <2> QED BY <2>1
<1> HIDE DEF from2, of2
<1>10. Marks(t, messages, of2)
  <2>1. ASSUME NEW i \in DOMAIN t
        PROVE  IF of2[i] = 0 THEN t[i] \in ByteSymbol ELSE t[i] = Checked(messages[of2[i]])
    BY <1>1, <1>6 DEF Marks
  <2>2. ASSUME NEW i \in DOMAIN t, NEW j \in DOMAIN t, i < j, of2[i] # 0, of2[j] # 0
        PROVE  of2[i] < of2[j]
    <3>1. i + n < j + n
      BY <1>2, <1>6, <2>2
    <3> QED BY <1>1, <1>6, <2>2, <3>1 DEF Marks
  <2> QED BY <2>1, <2>2 DEF Marks
<1>11. Handed(d2, messages, from2)
  <2>1. ASSUME NEW i \in DOMAIN d2 PROVE d2[i] = messages[from2[i]]
    BY <1>1, <1>5, <1>7 DEF Handed
  <2>2. ASSUME NEW i \in DOMAIN d2, NEW j \in DOMAIN d2, i < j PROVE from2[i] < from2[j]
    <3>1. i \in DOMAIN d /\ from2[i] = from[i]
      BY <1>4, <1>7, <2>2
    <3>2. CASE j \in DOMAIN d /\ from2[j] = from[j]
      BY <1>1, <2>2, <3>1, <3>2 DEF Handed
    <3>3. CASE from2[j] = of[n]
      <4>1. of[n] # 0
        BY <1>2, <1>5
      <4> QED BY <1>1, <1>2, <3>1, <3>3, <4>1 DEF Ahead
    <3> QED BY <1>7, <3>2, <3>3
  <2> QED BY <2>1, <2>2 DEF Handed
<1>12. Ahead(d2, t, from2, of2)
  <2> SUFFICES ASSUME NEW i \in DOMAIN d2, NEW j \in DOMAIN t, of2[j] # 0
               PROVE  from2[i] < of2[j]
    BY DEF Ahead
  <2>1. CASE i \in DOMAIN d /\ from2[i] = from[i]
    BY <1>1, <1>6, <2>1 DEF Ahead
  <2>2. CASE from2[i] = of[n]
    <3>1. of[n] # 0
      BY <1>2, <1>5
    <3> QED BY <1>1, <1>2, <1>6, <2>2, <3>1 DEF Marks
  <2> QED BY <1>7, <2>1, <2>2
<1>13. Told(d2, t, messages)
  BY <1>8, <1>9, <1>10, <1>11, <1>12 DEF Told
<1> QED BY <1>13 DEF d2, t

------------------------------------------------------------------------------
(* The receivers *)

\* unframe finds something, and a frame starts: then it is all there.
LEMMA FrameIsThere ==
    ASSUME NEW buf \in Seq(Symbol), ~WantsMore(buf), StartsFrame(buf)
    PROVE  FrameLength(buf) \in 5..Len(buf)
<1>1. Len(buf) \in Nat /\ Len(buf) >= 5 /\ ~(Len(buf) < FrameLength(buf))
  BY DEF WantsMore, HeaderLength
<1>2. 3 \in 1..Len(buf) /\ 4 \in 1..Len(buf)
  BY <1>1
<1>3. ByteAt(buf, 3) \in Byte /\ ByteAt(buf, 4) \in Byte
  BY <1>2, ByteAtIsByte
<1>4. Base \in Nat \ {0}
  BY FramingSorts
<1>5. ASSUME NEW x \in Nat, NEW y \in Nat, NEW z \in Nat
      PROVE  x * y \in Nat /\ 4 + x * y + z + 1 \in Nat /\ 4 + x * y + z + 1 >= 5
  <2>1. x * y \in Nat
    OBVIOUS
  <2>2. ASSUME NEW w \in Nat PROVE 4 + w + z + 1 \in Nat /\ 4 + w + z + 1 >= 5
    OBVIOUS
  <2> QED BY <2>1, <2>2
<1>6. ByteAt(buf, 3) \in Nat /\ ByteAt(buf, 4) \in Nat /\ Base \in Nat
  BY <1>3, <1>4 DEF Byte
<1>7. FrameLength(buf) \in Nat /\ FrameLength(buf) >= 5
  BY <1>5, <1>6 DEF FrameLength, HeaderLength
<1> HIDE DEF FrameLength
<1> QED BY <1>1, <1>7

\* What a receiver takes for a message ends at the checksum of that message.
LEMMA TakeFinds ==
    ASSUME NEW buf \in Seq(Symbol), ~WantsMore(buf), StartsFrame(buf), ChecksOut(buf)
    PROVE  \E p \in Framable : /\ buf[FrameLength(buf)] = Checked(p)
                               /\ Payload(buf) = p /\ p # <<>>
<1> DEFINE n == FrameLength(buf)
           c == SubSeq(buf, 1, n - 1)
<1>1. n \in 5..Len(buf) /\ Len(buf) \in Nat
  BY FrameIsThere
<1>2. buf[n] = c /\ Payload(buf) = SubSeq(buf, 5, n - 1)
  BY DEF ChecksOut, Payload, HeaderLength
<1> HIDE DEF n
<1>3. n - 1 \in 0..Len(buf) /\ n \in Nat /\ n >= 5
  BY <1>1
<1>4. c \in Seq(Symbol) /\ Len(c) = n - 1 /\ \A i \in 1..n - 1 : c[i] = buf[i]
  BY <1>3, TakeProperties
<1>5. c \in Symbol
  <2>1. n \in 1..Len(buf)
    BY <1>1
  <2>2. buf[n] \in Symbol
    BY <2>1
  <2> QED BY <1>2, <2>2
<1> HIDE DEF c
<1>6. c \notin ByteSymbol
  <2>1. \A x \in ByteSymbol : Len(x) = 1
    BY DEF ByteSymbol
  <2> QED BY <1>3, <1>4, <2>1
<1>7. PICK p \in Framable : c = Checked(p)
  BY <1>5, <1>6 DEF Symbol
<1>8. /\ p \in Seq(ByteSymbol) /\ Len(p) \in Nat \ {0} /\ Len(c) = Len(p) + 4
      /\ \A i \in 1..Len(p) : c[i + 4] = p[i]
  BY <1>7, CheckedProperties
<1>9. n = Len(p) + 5
  BY <1>3, <1>4, <1>8
<1>10. Payload(buf) = p
  <2> DEFINE q == SubSeq(buf, 5, n - 1)
  <2>1. \A i \in 5..n - 1 : buf[i] \in Symbol
    BY <1>1
  <2>2. /\ q \in Seq(Symbol)
        /\ Len(q) = IF 5 <= n - 1 THEN (n - 1) - 5 + 1 ELSE 0
        /\ \A i \in 1..(n - 1) - 5 + 1 : q[i] = buf[5 + i - 1]
    BY <1>3, <2>1, SubSeqProperties
  <2> HIDE DEF q
  <2>3. Len(q) = Len(p)
    BY <1>8, <1>9, <2>2
  <2>4. ASSUME NEW i \in 1..Len(p) PROVE q[i] = p[i]
    <3>1. i \in 1..(n - 1) - 5 + 1 /\ i + 4 \in 1..n - 1 /\ 5 + i - 1 = i + 4
      BY <1>8, <1>9
    <3> QED BY <1>4, <1>8, <2>2, <3>1
  <2>5. q = p
    BY <1>8, <2>2, <2>3, <2>4, SeqEqual
  <2> QED BY <1>2, <2>5 DEF q
<1>11. p # <<>>
  BY <1>8
<1> QED BY <1>2, <1>7, <1>10, <1>11 DEF n

------------------------------------------------------------------------------
(* The invariant *)

StreamTypes ==
    /\ line \in Seq(Symbol) /\ buffer \in Seq(Symbol)
    /\ sent \in Seq(Framable) /\ delivered \in Seq(Framable)

InOrder == StreamTypes /\ Told(delivered, buffer \o line, sent)

LEMMA EmptyIsTold ==
    ASSUME NEW messages \in Seq(Framable)
    PROVE  Told(<<>>, <<>>, messages)
<1>1. DOMAIN <<>> = {}
  OBVIOUS
<1> DEFINE none == [i \in {} |-> 0]
<1>2. none \in [{} -> DOMAIN messages] /\ none \in [{} -> 0..Len(messages)]
  OBVIOUS
<1>3. Marks(<<>>, messages, none) /\ Handed(<<>>, messages, none) /\ Ahead(<<>>, <<>>, none, none)
  BY <1>1 DEF Marks, Handed, Ahead
<1> HIDE DEF none
<1> QED BY <1>1, <1>2, <1>3 DEF Told

LEMMA InitInOrder == Init => InOrder
<1> SUFFICES ASSUME Init PROVE InOrder
  OBVIOUS
<1>1. line = <<>> /\ buffer = <<>> /\ sent = <<>> /\ delivered = <<>>
  BY DEF Init
<1>2. <<>> \in Seq(Framable) /\ <<>> \in Seq(Symbol) /\ <<>> \o <<>> = <<>>
  OBVIOUS
<1>3. Told(<<>>, <<>>, <<>>)
  BY <1>2, EmptyIsTold
<1> QED BY <1>1, <1>2, <1>3 DEF InOrder, StreamTypes

LEMMA SendKeeps ==
    ASSUME InOrder, NEW p \in Payloads, Send(p)
    PROVE  InOrder'
<1>1. /\ line \in Seq(Symbol) /\ buffer \in Seq(Symbol)
      /\ sent \in Seq(Framable) /\ delivered \in Seq(Framable)
      /\ Told(delivered, buffer \o line, sent)
  BY DEF InOrder, StreamTypes
<1>2. p \in Framable
  BY DEF Send, Framable
<1>3. /\ sent' = Append(sent, p) /\ line' = line \o Frame(p)
      /\ buffer' = buffer /\ delivered' = delivered
  BY DEF Send
<1>4. Frame(p) \in Seq(Symbol)
  BY <1>2, FrameProperties
<1>5. sent' \in Seq(Framable) /\ line' \in Seq(Symbol)
  BY <1>1, <1>2, <1>3, <1>4, AppendProperties, ConcatProperties
<1>6. buffer \o (line \o Frame(p)) = (buffer \o line) \o Frame(p)
  BY <1>1, <1>4, JoinsAssociate
<1>7. buffer \o line \in Seq(Symbol)
  BY <1>1, ConcatProperties
<1>8. Told(delivered, (buffer \o line) \o Frame(p), Append(sent, p))
  BY <1>1, <1>2, <1>7, FrameKeepsTold
<1> QED BY <1>1, <1>3, <1>5, <1>6, <1>8 DEF InOrder, StreamTypes

LEMMA ReadKeeps ==
    ASSUME InOrder, NEW n \in 1..Len(line), Read(n)
    PROVE  InOrder'
<1>1. /\ line \in Seq(Symbol) /\ buffer \in Seq(Symbol)
      /\ sent \in Seq(Framable) /\ delivered \in Seq(Framable)
      /\ Told(delivered, buffer \o line, sent)
  BY DEF InOrder, StreamTypes
<1>2. /\ buffer' = buffer \o SubSeq(line, 1, n) /\ line' = Drop(line, n)
      /\ sent' = sent /\ delivered' = delivered
  BY DEF Read, Drop
<1>3. n \in 0..Len(line)
  OBVIOUS
<1>4. SubSeq(line, 1, n) \in Seq(Symbol) /\ Drop(line, n) \in Seq(Symbol)
  BY <1>1, <1>3, TakeProperties, DropProperties
<1>5. buffer' \in Seq(Symbol)
  BY <1>1, <1>2, <1>4, ConcatProperties
<1>6. (buffer \o SubSeq(line, 1, n)) \o Drop(line, n) = buffer \o (SubSeq(line, 1, n) \o Drop(line, n))
  BY <1>1, <1>4, JoinsAssociate
<1>7. SubSeq(line, 1, n) \o Drop(line, n) = line
  BY <1>1, <1>3, CutAndJoin
<1> QED BY <1>1, <1>2, <1>4, <1>5, <1>6, <1>7 DEF InOrder, StreamTypes

\* Symbols at the front of the buffer are dropped and handed on as nothing.
LEMMA DroppedKeeps ==
    ASSUME InOrder, NEW n \in 0..Len(buffer), buffer' = Drop(buffer, n),
           line' = line, sent' = sent, delivered' = delivered
    PROVE  InOrder'
<1>1. /\ line \in Seq(Symbol) /\ buffer \in Seq(Symbol)
      /\ sent \in Seq(Framable) /\ delivered \in Seq(Framable)
      /\ Told(delivered, buffer \o line, sent)
  BY DEF InOrder, StreamTypes
<1>2. Drop(buffer, n) \in Seq(Symbol)
  BY <1>1, DropProperties
<1>3. Drop(buffer, n) \o line = Drop(buffer \o line, n)
  BY <1>1, DropOfJoin
<1>4. n \in 0..Len(buffer \o line) /\ buffer \o line \in Seq(Symbol)
  <2>1. buffer \o line \in Seq(Symbol) /\ Len(buffer \o line) = Len(buffer) + Len(line)
    BY <1>1, ConcatProperties
  <2> QED BY <1>1, <2>1
<1>5. Told(delivered, Drop(buffer \o line, n), sent)
  BY <1>1, <1>4, DropKeepsTold
<1> QED BY <1>1, <1>2, <1>3, <1>5 DEF InOrder, StreamTypes

\* The buffer is lost, and the front of the line.
LEMMA LostKeeps ==
    ASSUME InOrder, NEW n \in 0..Len(line), buffer' = <<>>, line' = Drop(line, n),
           sent' = sent, delivered' = delivered
    PROVE  InOrder'
<1>1. /\ line \in Seq(Symbol) /\ buffer \in Seq(Symbol)
      /\ sent \in Seq(Framable) /\ delivered \in Seq(Framable)
      /\ Told(delivered, buffer \o line, sent)
  BY DEF InOrder, StreamTypes
<1>2. Drop(line, n) \in Seq(Symbol) /\ <<>> \in Seq(Symbol)
  BY <1>1, DropProperties
<1>3. <<>> \o Drop(line, n) = Drop(line, n)
  BY <1>2, ConcatEmptySeq
<1>4. Drop(line, n) = Drop(buffer \o line, Len(buffer) + n)
  BY <1>1, DropBeyond
<1>5. Len(buffer) + n \in 0..Len(buffer \o line) /\ buffer \o line \in Seq(Symbol)
  <2>1. buffer \o line \in Seq(Symbol) /\ Len(buffer \o line) = Len(buffer) + Len(line)
    BY <1>1, ConcatProperties
  <2> QED BY <1>1, <2>1
<1>6. Told(delivered, Drop(buffer \o line, Len(buffer) + n), sent)
  BY <1>1, <1>5, DropKeepsTold
<1> QED BY <1>1, <1>2, <1>3, <1>4, <1>6 DEF InOrder, StreamTypes

LEMMA SkipKeeps ==
    ASSUME InOrder, Skip
    PROVE  InOrder'
<1>1. buffer \in Seq(Symbol) /\ Len(buffer) \in Nat
  BY DEF InOrder, StreamTypes
<1>2. Len(buffer) >= 5
  BY <1>1 DEF Skip, WantsMore, HeaderLength
<1>3. Tail(buffer) = Drop(buffer, 1) /\ 1 \in 0..Len(buffer)
  <2>1. buffer # <<>>
    BY <1>1, <1>2
  <2>2. Tail(buffer) = SubSeq(buffer, 2, Len(buffer))
    BY <1>1, <2>1, TailIsSubSeq
  <2>3. 1 + 1 = 2
    OBVIOUS
  <2> QED BY <1>1, <1>2, <2>2, <2>3 DEF Drop
<1>4. buffer' = Drop(buffer, 1) /\ line' = line /\ sent' = sent /\ delivered' = delivered
  BY <1>3 DEF Skip, AfterByte
<1> QED BY <1>3, <1>4, DroppedKeeps

LEMMA TakeKeeps ==
    ASSUME InOrder, Take
    PROVE  InOrder'
<1> DEFINE n == FrameLength(buffer)
<1>1. /\ line \in Seq(Symbol) /\ buffer \in Seq(Symbol)
      /\ sent \in Seq(Framable) /\ delivered \in Seq(Framable)
      /\ Told(delivered, buffer \o line, sent)
  BY DEF InOrder, StreamTypes
<1>2. ~WantsMore(buffer) /\ StartsFrame(buffer) /\ ChecksOut(buffer)
  BY DEF Take
<1>3. n \in 5..Len(buffer) /\ Len(buffer) \in Nat /\ Len(line) \in Nat
  BY <1>1, <1>2, FrameIsThere
<1>4. PICK p \in Framable : buffer[n] = Checked(p) /\ Payload(buffer) = p /\ p # <<>>
  BY <1>1, <1>2, TakeFinds
<1>5. /\ buffer' = Drop(buffer, n) /\ delivered' = Append(delivered, p)
      /\ line' = line /\ sent' = sent
  BY <1>4 DEF Take, AfterFrame, Drop
<1> HIDE DEF n
<1>6. n \in 0..Len(buffer) /\ n \in Nat /\ n >= 1
  BY <1>3
<1>7. Drop(buffer, n) \in Seq(Symbol) /\ Drop(buffer, n) \o line = Drop(buffer \o line, n)
  BY <1>1, <1>6, DropProperties, DropOfJoin
<1>8. /\ buffer \o line \in Seq(Symbol) /\ n \in 1..Len(buffer \o line)
      /\ (buffer \o line)[n] = Checked(p)
  <2>1. /\ buffer \o line \in Seq(Symbol) /\ Len(buffer \o line) = Len(buffer) + Len(line)
        /\ \A i \in 1..Len(buffer) + Len(line) :
              (buffer \o line)[i] = IF i <= Len(buffer) THEN buffer[i] ELSE line[i - Len(buffer)]
    BY <1>1, ConcatProperties
  <2>2. n \in 1..Len(buffer) + Len(line) /\ n <= Len(buffer)
    BY <1>3, <1>6
  <2> QED BY <1>4, <2>1, <2>2
<1>9. Told(Append(delivered, p), Drop(buffer \o line, n), sent)
  BY <1>1, <1>8, TakeKeepsTold
<1>10. Append(delivered, p) \in Seq(Framable)
  BY <1>1, AppendProperties
<1> QED BY <1>1, <1>5, <1>7, <1>9, <1>10 DEF InOrder, StreamTypes

LEMMA DropsKeep ==
    ASSUME InOrder, HostThrows \/ DeviceDrops
    PROVE  InOrder'
<1>1. line \in Seq(Symbol) /\ buffer \in Seq(Symbol)
  BY DEF InOrder, StreamTypes
<1>2. CASE HostThrows
  <2>1. 0 \in 0..Len(line) /\ Drop(line, 0) = line
    <3>1. Len(line) \in Nat
      BY <1>1
    <3>2. 0 \in 0..Len(line)
      BY <3>1
    <3>3. /\ Drop(line, 0) \in Seq(Symbol) /\ Len(Drop(line, 0)) = Len(line) - 0
          /\ \A i \in 1..Len(line) - 0 : Drop(line, 0)[i] = line[i + 0]
      BY <1>1, <3>2, DropProperties
    <3>4. Len(line) - 0 = Len(line) /\ \A i \in 1..Len(line) : i + 0 = i
      BY <3>1
    <3> QED BY <1>1, <3>2, <3>3, <3>4, SeqEqual
  <2>2. buffer' = <<>> /\ line' = line /\ sent' = sent /\ delivered' = delivered
    BY <1>2 DEF HostThrows
  <2> QED BY <2>1, <2>2, LostKeeps
<1>3. CASE DeviceDrops
  <2>1. ~WantsMore(buffer) /\ StartsFrame(buffer)
    BY <1>3 DEF DeviceDrops
  <2>2. FrameLength(buffer) \in 5..Len(buffer) /\ Len(buffer) \in Nat
    BY <1>1, <2>1, FrameIsThere
  <2>3. FrameLength(buffer) \in 0..Len(buffer)
    BY <2>2
  <2>4. /\ buffer' = Drop(buffer, FrameLength(buffer))
        /\ line' = line /\ sent' = sent /\ delivered' = delivered
    BY <1>3 DEF DeviceDrops, AfterFrame, Drop
  <2> QED BY <2>3, <2>4, DroppedKeeps
<1> QED BY <1>2, <1>3

LEMMA RestartKeeps ==
    ASSUME InOrder, Restart
    PROVE  InOrder'
<1>1. PICK n \in 0..Len(line) : line' = Drop(line, n)
  BY DEF Restart, Drop
<1>2. buffer' = <<>> /\ sent' = sent /\ delivered' = delivered
  BY DEF Restart
<1> QED BY <1>1, <1>2, LostKeeps

\* What befalls the line leaves a remnant of the stream.
LEMMA LineRemnant ==
    ASSUME NEW b \in Seq(Symbol), NEW l \in Seq(Symbol), NEW m \in Seq(Symbol),
           NEW pos \in [DOMAIN m -> DOMAIN l], IsRemnant(m, l, pos),
           NEW d, NEW messages \in Seq(Framable), Told(d, b \o l, messages)
    PROVE  Told(d, b \o m, messages)
<1> DEFINE k == Len(b)
           s == b \o l
           t == b \o m
           pos2 == [i \in DOMAIN t |-> IF i <= k THEN i ELSE pos[i - k] + k]
<1>1. /\ k \in Nat /\ Len(l) \in Nat /\ Len(m) \in Nat
      /\ DOMAIN l = 1..Len(l) /\ DOMAIN m = 1..Len(m)
  OBVIOUS
<1>2. /\ DOMAIN s = 1..k + Len(l)
      /\ \A i \in 1..k + Len(l) : s[i] = IF i <= k THEN b[i] ELSE l[i - k]
  <2>1. s \in Seq(Symbol) /\ Len(s) = k + Len(l)
        /\ \A i \in 1..k + Len(l) : s[i] = IF i <= k THEN b[i] ELSE l[i - k]
    BY ConcatProperties
  <2> HIDE DEF s
  <2> QED BY <2>1
<1>3. /\ DOMAIN t = 1..k + Len(m)
      /\ \A i \in 1..k + Len(m) : t[i] = IF i <= k THEN b[i] ELSE m[i - k]
  <2>1. t \in Seq(Symbol) /\ Len(t) = k + Len(m)
        /\ \A i \in 1..k + Len(m) : t[i] = IF i <= k THEN b[i] ELSE m[i - k]
    BY ConcatProperties
  <2> HIDE DEF t
  <2> QED BY <2>1
<1> HIDE DEF k, s, t
<1>4. ASSUME NEW i \in DOMAIN t
      PROVE  \/ i <= k /\ pos2[i] = i /\ i \in DOMAIN s /\ t[i] = s[i]
             \/ /\ i > k /\ i - k \in DOMAIN m /\ pos2[i] = pos[i - k] + k
                /\ pos[i - k] \in 1..Len(l) /\ pos2[i] \in DOMAIN s /\ pos2[i] > k
                /\ t[i] = m[i - k] /\ s[pos2[i]] = l[pos[i - k]]
  <2>1. CASE i <= k
    <3>1. i \in DOMAIN s
      BY <1>1, <1>2, <1>3, <2>1
    <3> QED BY <1>2, <1>3, <2>1, <3>1
  <2>2. CASE ~(i <= k)
    <3>1. i > k /\ i - k \in DOMAIN m
      BY <1>1, <1>3, <2>2
    <3>2. pos2[i] = pos[i - k] + k /\ pos[i - k] \in 1..Len(l) /\ t[i] = m[i - k]
      BY <1>1, <1>3, <2>2, <3>1
    <3> HIDE DEF pos2
    <3>3. pos2[i] \in DOMAIN s /\ pos2[i] > k /\ pos2[i] - k = pos[i - k]
      BY <1>1, <1>2, <3>2
    <3>4. s[pos2[i]] = l[pos[i - k]]
      BY <1>1, <1>2, <3>3
    <3> QED BY <3>1, <3>2, <3>3, <3>4
  <2> QED BY <2>1, <2>2
<1>5. pos2 \in [DOMAIN t -> DOMAIN s]
  BY <1>4
<1> HIDE DEF pos2
<1>6. IsRemnant(t, s, pos2)
  <2>1. ASSUME NEW i \in DOMAIN t PROVE t[i] = s[pos2[i]] \/ t[i] \in ByteSymbol
    BY <1>4 DEF IsRemnant
  <2>2. ASSUME NEW i \in DOMAIN t, NEW j \in DOMAIN t, i < j PROVE pos2[i] < pos2[j]
    <3>1. i \in Nat /\ j \in Nat
      BY <1>3
    <3>2. CASE i <= k
      <4>1. pos2[i] = i
        BY <1>1, <1>4, <3>1, <3>2
      <4>2. pos2[j] = j \/ (pos2[j] \in DOMAIN s /\ pos2[j] > k)
        BY <1>4
      <4> QED BY <1>1, <1>2, <2>2, <3>1, <3>2, <4>1, <4>2
    <3>3. CASE ~(i <= k)
      <4>1. i - k \in DOMAIN m /\ pos2[i] = pos[i - k] + k /\ pos[i - k] \in 1..Len(l)
        BY <1>4, <3>3
      <4>2. j - k \in DOMAIN m /\ pos2[j] = pos[j - k] + k /\ pos[j - k] \in 1..Len(l)
        BY <1>1, <1>4, <2>2, <3>1, <3>3
      <4>3. i - k < j - k
        BY <1>1, <2>2, <3>1
      <4>4. pos[i - k] < pos[j - k]
        BY <4>1, <4>2, <4>3 DEF IsRemnant
      <4> QED BY <1>1, <4>1, <4>2, <4>4
    <3> QED BY <3>2, <3>3
  <2> QED BY <2>1, <2>2 DEF IsRemnant
<1>7. Told(d, t, messages)
  BY <1>5, <1>6, RemnantsKeepTold DEF s
<1> QED BY <1>7 DEF t

\* A lost symbol leaves a remnant of the line.
LEMMA RemovedIsRemnant ==
    ASSUME NEW l \in Seq(Symbol), NEW k \in DOMAIN l
    PROVE  /\ RemoveAt(l, k) \in Seq(Symbol)
           /\ \E pos \in [DOMAIN RemoveAt(l, k) -> DOMAIN l] : IsRemnant(RemoveAt(l, k), l, pos)
<1> DEFINE a == SubSeq(l, 1, k - 1)
           b == Drop(l, k)
           t == a \o b
           pos == [i \in DOMAIN t |-> IF i <= k - 1 THEN i ELSE i + 1]
<1>1. Len(l) \in Nat /\ k \in 1..Len(l) /\ DOMAIN l = 1..Len(l)
  OBVIOUS
<1>2. k - 1 \in 0..Len(l) /\ k \in 0..Len(l)
  BY <1>1
<1>3. a \in Seq(Symbol) /\ Len(a) = k - 1 /\ \A i \in 1..k - 1 : a[i] = l[i]
  BY <1>2, TakeProperties
<1>4. b \in Seq(Symbol) /\ Len(b) = Len(l) - k /\ \A i \in 1..Len(l) - k : b[i] = l[i + k]
  BY <1>2, DropProperties
<1>5. RemoveAt(l, k) = t
  BY DEF RemoveAt, Drop
<1> HIDE DEF a, b
<1>6. /\ t \in Seq(Symbol) /\ DOMAIN t = 1..Len(l) - 1
      /\ \A i \in 1..Len(l) - 1 : t[i] = IF i <= k - 1 THEN a[i] ELSE b[i - (k - 1)]
  <2>1. /\ t \in Seq(Symbol) /\ Len(t) = Len(a) + Len(b)
        /\ \A i \in 1..Len(a) + Len(b) : t[i] = IF i <= Len(a) THEN a[i] ELSE b[i - Len(a)]
    BY <1>3, <1>4, ConcatProperties
  <2>2. Len(a) + Len(b) = Len(l) - 1
    BY <1>1, <1>3, <1>4
  <2> HIDE DEF t
  <2> QED BY <1>3, <2>1, <2>2
<1> HIDE DEF t
<1>7. ASSUME NEW i \in DOMAIN t
      PROVE  /\ pos[i] \in DOMAIN l /\ t[i] = l[pos[i]] /\ i \in Nat
             /\ pos[i] = IF i <= k - 1 THEN i ELSE i + 1
  <2>1. i \in 1..Len(l) - 1 /\ pos[i] = IF i <= k - 1 THEN i ELSE i + 1
    BY <1>6
  <2> HIDE DEF pos
  <2>2. CASE i <= k - 1
    <3>1. i \in 1..k - 1 /\ i \in 1..Len(l)
      BY <1>1, <2>1, <2>2
    <3> QED BY <1>1, <1>3, <1>6, <2>1, <2>2, <3>1
  <2>3. CASE ~(i <= k - 1)
    <3>1. i - (k - 1) \in 1..Len(l) - k /\ i + 1 \in 1..Len(l) /\ (i - (k - 1)) + k = i + 1
      BY <1>1, <2>1, <2>3
    <3> QED BY <1>1, <1>4, <1>6, <2>1, <2>3, <3>1
  <2> QED BY <2>2, <2>3
<1>8. pos \in [DOMAIN t -> DOMAIN l]
  BY <1>7
<1> HIDE DEF pos
<1>9. IsRemnant(t, l, pos)
  <2>1. ASSUME NEW i \in DOMAIN t, NEW j \in DOMAIN t, i < j PROVE pos[i] < pos[j]
    BY <1>1, <1>7, <2>1
  <2> QED BY <1>7, <2>1 DEF IsRemnant
<1> QED BY <1>5, <1>6, <1>8, <1>9

\* So does a symbol that became a byte.
LEMMA ReplacedIsRemnant ==
    ASSUME NEW l \in Seq(Symbol), NEW k \in DOMAIN l, NEW b \in Byte
    PROVE  /\ [l EXCEPT ![k] = <<b>>] \in Seq(Symbol)
           /\ \E pos \in [DOMAIN [l EXCEPT ![k] = <<b>>] -> DOMAIN l] :
                IsRemnant([l EXCEPT ![k] = <<b>>], l, pos)
<1> DEFINE t == [l EXCEPT ![k] = <<b>>]
           pos == [i \in DOMAIN l |-> i]
<1>1. <<b>> \in ByteSymbol /\ <<b>> \in Symbol
  BY DEF ByteSymbol, Symbol
<1>2. t \in Seq(Symbol) /\ DOMAIN t = DOMAIN l
  BY <1>1, ExceptSeq
<1>3. \A i \in DOMAIN l : t[i] = IF i = k THEN <<b>> ELSE l[i]
  OBVIOUS
<1> HIDE DEF t
<1>4. pos \in [DOMAIN t -> DOMAIN l] /\ \A i \in DOMAIN t : pos[i] = i
  BY <1>2
<1> HIDE DEF pos
<1>5. IsRemnant(t, l, pos)
  BY <1>1, <1>2, <1>3, <1>4 DEF IsRemnant
<1> QED BY <1>2, <1>4, <1>5 DEF t

LEMMA DamageKeeps ==
    ASSUME InOrder, Damage
    PROVE  InOrder'
<1>1. /\ line \in Seq(Symbol) /\ buffer \in Seq(Symbol)
      /\ sent \in Seq(Framable) /\ delivered \in Seq(Framable)
      /\ Told(delivered, buffer \o line, sent)
  BY DEF InOrder, StreamTypes
<1>2. buffer' = buffer /\ sent' = sent /\ delivered' = delivered
  BY DEF Damage
<1>3. /\ line' \in Seq(Symbol)
      /\ \E pos \in [DOMAIN line' -> DOMAIN line] : IsRemnant(line', line, pos)
  <2>1. PICK k \in DOMAIN line :
           \/ line' = RemoveAt(line, k)
           \/ \E b \in Byte : line' = [line EXCEPT ![k] = <<b>>]
    BY DEF Damage
  <2>2. CASE line' = RemoveAt(line, k)
    BY <1>1, <2>2, RemovedIsRemnant
  <2>3. CASE \E b \in Byte : line' = [line EXCEPT ![k] = <<b>>]
    <3>1. PICK b \in Byte : line' = [line EXCEPT ![k] = <<b>>]
      BY <2>3
    <3> QED BY <1>1, <3>1, ReplacedIsRemnant
  <2> QED BY <2>1, <2>2, <2>3
<1>4. Told(delivered, buffer \o line', sent)
  BY <1>1, <1>3, LineRemnant
<1> QED BY <1>1, <1>2, <1>3, <1>4 DEF InOrder, StreamTypes

LEMMA StepKeepsInOrder == InOrder /\ [Next]_vars => InOrder'
<1> SUFFICES ASSUME InOrder, [Next]_vars PROVE InOrder'
  OBVIOUS
<1>1. CASE \E p \in Payloads : Send(p)
  BY <1>1, SendKeeps
<1>2. CASE \E n \in 1..Len(line) : Read(n)
  BY <1>2, ReadKeeps
<1>3. CASE Unframe
  BY <1>3, SkipKeeps, TakeKeeps, DropsKeep DEF Unframe
<1>4. CASE Damage
  BY <1>4, DamageKeeps
<1>5. CASE Restart
  BY <1>5, RestartKeeps
<1>6. CASE UNCHANGED vars
  BY <1>6 DEF vars, InOrder, StreamTypes
<1> QED BY <1>1, <1>2, <1>3, <1>4, <1>5, <1>6 DEF Next

\* Whatever is lost, garbled or cut short, and wherever a payload happens to look like
\* the start of a frame, unframe and try_unframe hand on only what was sent, in the
\* order it was sent and no message twice.
THEOREM HandedOnInOrder == Spec => []DeliveredInOrder
<1>1. InOrder => DeliveredInOrder
  BY DEF InOrder, Told, Handed, DeliveredInOrder
<1> QED BY <1>1, InitInOrder, StepKeepsInOrder, PTL DEF Spec

------------------------------------------------------------------------------
(* Frames one after another                                                *)

\* A set of naturals with 0 that is closed under successor has every natural number.
LEMMA InductionOnSets ==
    ASSUME NEW S, 0 \in S, \A n \in Nat : n \in S => n + 1 \in S
    PROVE  Nat \subseteq S
<1> DEFINE R == OpToRel(<, Nat)
<1> SUFFICES ASSUME Nat \ S # {} PROVE FALSE
  OBVIOUS
<1>1. IsWellFoundedOn(R, Nat)
  BY NatLessThanWellFounded
<1>2. \A m, n \in Nat : m < n => <<m, n>> \in R
  BY DEF OpToRel
<1> HIDE DEF R
<1>3. PICK n \in Nat \ S : \A m \in Nat \ S : ~(<<m, n>> \in R)
  BY <1>1, WFMin
<1>4. n # 0 /\ n - 1 \in Nat /\ n - 1 < n /\ (n - 1) + 1 = n
  BY <1>3
<1>5. n - 1 \in S
  BY <1>2, <1>3, <1>4
<1> QED BY <1>3, <1>4, <1>5

\* The frames of the last 0, 1, ..., n messages.
AreLast(last, m, n) ==
    last = [i \in 0..n |-> IF i = 0 THEN <<>> ELSE Frame(m[Len(m) - i + 1]) \o last[i - 1]]

LEMMA LastExist ==
    ASSUME NEW m, NEW n \in Nat
    PROVE  \E last : AreLast(last, m, n) /\ LastFrames(m, n) = last[n]
<1> DEFINE S == {i \in Nat : \E last : AreLast(last, m, i)}
<1>1. 0 \in S
  <2> DEFINE g == [i \in 0..0 |-> <<>>]
  <2>1. AreLast(g, m, 0)
    BY DEF AreLast
  <2> QED BY <2>1
<1>2. ASSUME NEW k \in Nat, k \in S PROVE k + 1 \in S
  <2>1. PICK f : AreLast(f, m, k)
    BY <1>2
  <2> DEFINE g == [i \in 0..k + 1 |-> IF i = k + 1 THEN Frame(m[Len(m) - (k + 1) + 1]) \o f[k] ELSE f[i]]
             h == [i \in 0..k + 1 |-> IF i = 0 THEN <<>> ELSE Frame(m[Len(m) - i + 1]) \o g[i - 1]]
  <2>2. ASSUME NEW i \in 0..k
        PROVE  f[i] = IF i = 0 THEN <<>> ELSE Frame(m[Len(m) - i + 1]) \o f[i - 1]
    <3>1. f = [j \in 0..k |-> IF j = 0 THEN <<>> ELSE Frame(m[Len(m) - j + 1]) \o f[j - 1]]
      BY <2>1 DEF AreLast
    <3> QED BY <3>1
  <2>3. ASSUME NEW i \in 0..k + 1 PROVE g[i] = h[i]
    <3>1. CASE i = k + 1
      <4>1. k \in 0..k + 1 /\ k # k + 1 /\ i # 0 /\ i - 1 = k
        BY <3>1
      <4> QED BY <3>1, <4>1
    <3>2. CASE i \in 0..k
      <4>1. i # k + 1 /\ i \in 0..k + 1
        BY <3>2
      <4>2. i # 0 => i - 1 \in 0..k + 1 /\ i - 1 # k + 1
        BY <3>2
      <4>3. g[i] = f[i] /\ (i # 0 => g[i - 1] = f[i - 1])
        BY <4>1, <4>2
      <4> QED BY <2>2, <3>2, <4>1, <4>3
    <3> QED BY <3>1, <3>2
  <2>4. g = h
    BY <2>3
  <2>5. AreLast(g, m, k + 1)
    BY <2>4 DEF AreLast
  <2> QED BY <2>5
<1>3. \E last : AreLast(last, m, n)
  <2> HIDE DEF S
  <2>1. Nat \subseteq S
    BY <1>1, <1>2, InductionOnSets
  <2> QED BY <2>1 DEF S
<1>4. AreLast(CHOOSE last : AreLast(last, m, n), m, n)
  BY <1>3
<1> QED BY <1>4, Zenon DEF LastFrames, AreLast

LEMMA LastUnfold ==
    ASSUME NEW m, NEW n \in Nat
    PROVE  /\ LastFrames(m, 0) = <<>>
           /\ LastFrames(m, n + 1) = Frame(m[Len(m) - (n + 1) + 1]) \o LastFrames(m, n)
<1>1. PICK f : AreLast(f, m, n) /\ LastFrames(m, n) = f[n]
  BY LastExist
<1>2. PICK g : AreLast(g, m, n + 1) /\ LastFrames(m, n + 1) = g[n + 1]
  <2>1. n + 1 \in Nat
    OBVIOUS
  <2> QED BY <2>1, LastExist
<1>3. PICK e : AreLast(e, m, 0) /\ LastFrames(m, 0) = e[0]
  BY LastExist
<1>4. \A i \in 0..n : f[i] = IF i = 0 THEN <<>> ELSE Frame(m[Len(m) - i + 1]) \o f[i - 1]
  <2>1. f = [i \in 0..n |-> IF i = 0 THEN <<>> ELSE Frame(m[Len(m) - i + 1]) \o f[i - 1]]
    BY <1>1 DEF AreLast
  <2> QED BY <2>1
<1>5. \A i \in 0..n + 1 : g[i] = IF i = 0 THEN <<>> ELSE Frame(m[Len(m) - i + 1]) \o g[i - 1]
  <2>1. g = [i \in 0..n + 1 |-> IF i = 0 THEN <<>> ELSE Frame(m[Len(m) - i + 1]) \o g[i - 1]]
    BY <1>2 DEF AreLast
  <2> QED BY <2>1
<1>6. e[0] = <<>>
  <2>1. e = [i \in 0..0 |-> IF i = 0 THEN <<>> ELSE Frame(m[Len(m) - i + 1]) \o e[i - 1]]
    BY <1>3 DEF AreLast
  <2> QED BY <2>1
<1> DEFINE S == {i \in Nat : i <= n => f[i] = g[i]}
<1>7. 0 \in S
  BY <1>4, <1>5
<1>8. ASSUME NEW i \in Nat, i \in S PROVE i + 1 \in S
  <2>1. CASE i + 1 <= n
    <3>1. i <= n /\ i + 1 \in 0..n /\ i + 1 \in 0..n + 1 /\ i + 1 # 0 /\ (i + 1) - 1 = i
      BY <2>1
    <3>2. f[i] = g[i]
      BY <1>8, <3>1
    <3>3. f[i + 1] = Frame(m[Len(m) - (i + 1) + 1]) \o f[i]
      BY <1>4, <3>1
    <3>4. g[i + 1] = Frame(m[Len(m) - (i + 1) + 1]) \o g[i]
      BY <1>5, <3>1
    <3>5. f[i + 1] = g[i + 1] /\ i + 1 \in Nat
      BY <3>2, <3>3, <3>4
    <3> QED BY <3>5
  <2> QED BY <2>1
<1>9. f[n] = g[n]
  <2> HIDE DEF S
  <2>1. Nat \subseteq S
    BY <1>7, <1>8, InductionOnSets
  <2> QED BY <2>1 DEF S
<1>10. g[n + 1] = Frame(m[Len(m) - (n + 1) + 1]) \o g[n]
  <2>1. n + 1 \in 0..n + 1 /\ n + 1 # 0 /\ (n + 1) - 1 = n
    OBVIOUS
  <2> QED BY <1>5, <2>1
<1> QED BY <1>1, <1>2, <1>3, <1>6, <1>9, <1>10

\* The k-th message from the end.
LEMMA LastMessage ==
    ASSUME NEW m \in Seq(Framable), NEW n \in Nat, n < Len(m)
    PROVE  /\ Len(m) - n \in DOMAIN m /\ m[Len(m) - n] \in Framable
           /\ LastFrames(m, n + 1) = Frame(m[Len(m) - n]) \o LastFrames(m, n)
<1>1. Len(m) \in Nat /\ DOMAIN m = 1..Len(m)
  OBVIOUS
<1>2. Len(m) - n \in DOMAIN m /\ Len(m) - (n + 1) + 1 = Len(m) - n
  BY <1>1
<1>3. m[Len(m) - n] \in Framable
  BY <1>2
<1>4. LastFrames(m, n + 1) = Frame(m[Len(m) - (n + 1) + 1]) \o LastFrames(m, n)
  BY LastUnfold
<1> QED BY <1>2, <1>3, <1>4

LEMMA LastAreSymbols ==
    ASSUME NEW m \in Seq(Framable), NEW n \in 0..Len(m)
    PROVE  LastFrames(m, n) \in Seq(Symbol)
<1> DEFINE S == {i \in Nat : i <= Len(m) => LastFrames(m, i) \in Seq(Symbol)}
<1>1. 0 \in S
  <2>1. LastFrames(m, 0) = <<>>
    BY LastUnfold
  <2>2. <<>> \in Seq(Symbol)
    OBVIOUS
  <2>3. LastFrames(m, 0) \in Seq(Symbol)
    BY <2>1, <2>2
  <2> QED BY <2>3
<1>2. ASSUME NEW i \in Nat, i \in S PROVE i + 1 \in S
  <2>1. CASE i + 1 <= Len(m)
    <3>1. i < Len(m) /\ i <= Len(m)
      BY <2>1
    <3>2. LastFrames(m, i) \in Seq(Symbol)
      BY <1>2, <3>1
    <3>3. Frame(m[Len(m) - i]) \in Seq(Symbol)
      BY <3>1, LastMessage, FrameProperties
    <3>4. Frame(m[Len(m) - i]) \o LastFrames(m, i) \in Seq(Symbol)
      BY <3>2, <3>3, ConcatProperties
    <3>5. LastFrames(m, i + 1) \in Seq(Symbol)
      BY <3>1, <3>4, LastMessage
    <3> QED BY <3>5
  <2> QED BY <2>1
<1> HIDE DEF S
<1>3. n \in S
  <2>1. Nat \subseteq S
    BY <1>1, <1>2, InductionOnSets
  <2>2. n \in Nat
    OBVIOUS
  <2> QED BY <2>1, <2>2
<1> QED BY <1>3 DEF S

\* One more message is one more frame at the end.
LEMMA LastGrow ==
    ASSUME NEW m \in Seq(Framable), NEW p \in Framable, NEW n \in 0..Len(m)
    PROVE  LastFrames(Append(m, p), n + 1) = LastFrames(m, n) \o Frame(p)
<1> DEFINE m2 == Append(m, p)
           S == {i \in Nat : i <= Len(m) => LastFrames(m2, i + 1) = LastFrames(m, i) \o Frame(p)}
<1>1. /\ m2 \in Seq(Framable) /\ Len(m2) = Len(m) + 1 /\ m2[Len(m) + 1] = p
      /\ \A i \in 1..Len(m) : m2[i] = m[i]
  BY AppendProperties
<1>2. Len(m) \in Nat /\ Frame(p) \in Seq(Symbol)
  BY FrameProperties
<1> HIDE DEF m2
<1>3. 0 \in S
  <2>1. 0 < Len(m2) /\ Len(m2) - 0 = Len(m) + 1
    BY <1>1, <1>2
  <2>2. LastFrames(m2, 0 + 1) = Frame(m2[Len(m2) - 0]) \o LastFrames(m2, 0)
    BY <1>1, <2>1, LastMessage
  <2>3. LastFrames(m2, 0) = <<>> /\ LastFrames(m, 0) = <<>>
    BY LastUnfold
  <2>4. Frame(p) \o <<>> = Frame(p) /\ <<>> \o Frame(p) = Frame(p)
    BY <1>2, ConcatEmptySeq
  <2>5. LastFrames(m2, 0 + 1) = LastFrames(m, 0) \o Frame(p)
    BY <1>1, <2>1, <2>2, <2>3, <2>4
  <2> QED BY <2>5
<1>4. ASSUME NEW i \in Nat, i \in S PROVE i + 1 \in S
  <2>1. CASE i + 1 <= Len(m)
    <3> DEFINE q == m[Len(m) - i]
    <3>1. /\ i < Len(m) /\ i \in 0..Len(m) /\ i + 1 \in Nat /\ i + 1 < Len(m2)
          /\ Len(m2) - (i + 1) = Len(m) - i /\ Len(m) - i \in 1..Len(m)
      BY <1>1, <1>2, <2>1
    <3>2. LastFrames(m2, (i + 1) + 1) = Frame(m2[Len(m2) - (i + 1)]) \o LastFrames(m2, i + 1)
      BY <1>1, <3>1, LastMessage
    <3>3. m2[Len(m2) - (i + 1)] = q
      BY <1>1, <3>1
    <3>4. LastFrames(m2, i + 1) = LastFrames(m, i) \o Frame(p)
      BY <1>4, <3>1
    <3>5. q \in Framable /\ LastFrames(m, i + 1) = Frame(q) \o LastFrames(m, i)
      BY <3>1, LastMessage
    <3> HIDE DEF q
    <3>6. Frame(q) \in Seq(Symbol) /\ LastFrames(m, i) \in Seq(Symbol)
      BY <3>1, <3>5, FrameProperties, LastAreSymbols
    <3>7. (Frame(q) \o LastFrames(m, i)) \o Frame(p) = Frame(q) \o (LastFrames(m, i) \o Frame(p))
      BY <1>2, <3>6, JoinsAssociate
    <3>8. LastFrames(m2, (i + 1) + 1) = LastFrames(m, i + 1) \o Frame(p) /\ i + 1 \in Nat
      BY <3>1, <3>2, <3>3, <3>4, <3>5, <3>7
    <3> QED BY <3>8
  <2> QED BY <2>1
<1> HIDE DEF S
<1>5. n \in S
  <2>1. Nat \subseteq S
    BY <1>3, <1>4, InductionOnSets
  <2>2. n \in Nat
    OBVIOUS
  <2> QED BY <2>1, <2>2
<1> QED BY <1>5 DEF S, m2

------------------------------------------------------------------------------
(* An aligned receiver                                                     *)

\* unframe finds something in a stream that begins with a frame: it is that frame.
LEMMA FrameIsFound ==
    ASSUME NEW buf \in Seq(Symbol), NEW l \in Seq(Symbol), NEW p \in Framable,
           NEW rest \in Seq(Symbol), buf \o l = Frame(p) \o rest, ~WantsMore(buf)
    PROVE  /\ StartsFrame(buf) /\ ChecksOut(buf) /\ FrameLength(buf) = Len(p) + 5
           /\ Payload(buf) = p /\ p # <<>>
           /\ FrameLength(buf) \in 0..Len(buf)
           /\ Drop(buf, FrameLength(buf)) \o l = rest
<1> DEFINE k == Len(p)
           c == Checked(p)
<1>1. /\ k \in Nat \ {0} /\ c \in Seq(ByteSymbol) /\ Len(c) = k + 4
      /\ c[1] = <<MAGIC_0>> /\ c[2] = <<MAGIC_1>>
      /\ c[3] = <<k \div Base>> /\ c[4] = <<k % Base>>
  BY CheckedProperties
<1>2. /\ Frame(p) \in Seq(Symbol) /\ Len(Frame(p)) = k + 5
      /\ \A i \in 1..k + 4 : Frame(p)[i] = c[i]
      /\ Frame(p)[k + 5] = c
  BY FrameProperties
<1>3. k <= Base * Base - 1 /\ Base \in Nat \ {0}
  BY FramingSorts DEF Framable, MaxLength
<1>4. Len(buf) \in Nat /\ Len(l) \in Nat /\ Len(rest) \in Nat
  OBVIOUS
<1> HIDE DEF k, c
<1>5. \A i \in 1..Len(buf) : i <= k + 5 => buf[i] = Frame(p)[i]
  <2>1. \A i \in 1..Len(buf) + Len(l) :
           (buf \o l)[i] = IF i <= Len(buf) THEN buf[i] ELSE l[i - Len(buf)]
    BY ConcatProperties
  <2>2. \A i \in 1..Len(Frame(p)) + Len(rest) :
           (Frame(p) \o rest)[i] = IF i <= Len(Frame(p)) THEN Frame(p)[i] ELSE rest[i - Len(Frame(p))]
    BY <1>2, ConcatProperties
  <2> SUFFICES ASSUME NEW i \in 1..Len(buf), i <= k + 5 PROVE buf[i] = Frame(p)[i]
    OBVIOUS
  <2>3. i \in 1..Len(buf) + Len(l) /\ i <= Len(buf)
    BY <1>4
  <2>4. i \in 1..Len(Frame(p)) + Len(rest) /\ i <= Len(Frame(p))
    BY <1>1, <1>2, <1>4
  <2>5. (buf \o l)[i] = buf[i]
    BY <2>1, <2>3
  <2>6. (Frame(p) \o rest)[i] = Frame(p)[i]
    BY <2>2, <2>4
  <2> QED BY <2>5, <2>6
<1>6. Len(buf) >= 5 /\ (StartsFrame(buf) => ~(Len(buf) < FrameLength(buf)))
  BY <1>4 DEF WantsMore, HeaderLength
<1>7. ASSUME NEW i \in 1..4 PROVE buf[i] = c[i]
  <2>1. i \in 1..Len(buf) /\ i <= k + 5 /\ i \in 1..k + 4
    BY <1>1, <1>4, <1>6
  <2> QED BY <1>2, <1>5, <2>1
<1>8. /\ ByteAt(buf, 1) = MAGIC_0 /\ ByteAt(buf, 2) = MAGIC_1
      /\ ByteAt(buf, 3) = k \div Base /\ ByteAt(buf, 4) = k % Base
  <2>1. 1 \in 1..4 /\ 2 \in 1..4 /\ 3 \in 1..4 /\ 4 \in 1..4
    OBVIOUS
  <2>2. /\ buf[1] = <<MAGIC_0>> /\ buf[2] = <<MAGIC_1>>
        /\ buf[3] = <<k \div Base>> /\ buf[4] = <<k % Base>>
    BY <1>1, <1>7, <2>1
  <2> QED BY <2>2 DEF ByteAt
<1>9. FrameLength(buf) = k + 5
  <2>1. (k \div Base) * Base + (k % Base) = k /\ k \div Base \in 0..Base - 1 /\ k % Base \in 0..Base - 1
    BY <1>1, <1>3, LengthFitsHeader
  <2>2. FrameLength(buf) = 4 + (k \div Base) * Base + (k % Base) + 1
    BY <1>8 DEF FrameLength, HeaderLength
  <2>3. ASSUME NEW x \in Nat, NEW y \in Nat, x + y = k PROVE 4 + x + y + 1 = k + 5
    BY <2>3
  <2>4. (k \div Base) * Base \in Nat /\ k % Base \in Nat
    <3>1. k \div Base \in Nat /\ Base \in Nat /\ k % Base \in Nat
      BY <1>3, <2>1
    <3> QED BY <3>1
  <2> QED BY <2>1, <2>2, <2>3, <2>4
<1>10. StartsFrame(buf)
  BY <1>8 DEF StartsFrame
<1>11. k + 5 <= Len(buf)
  BY <1>1, <1>4, <1>6, <1>9, <1>10
<1>12. buf[k + 5] = c
  <2>1. k + 5 \in 1..Len(buf) /\ k + 5 <= k + 5
    BY <1>1, <1>11
  <2> QED BY <1>2, <1>5, <2>1
<1>13. ChecksOut(buf)
  <2> DEFINE t == SubSeq(buf, 1, k + 4)
  <2>1. k + 4 \in 0..Len(buf) /\ (k + 5) - 1 = k + 4
    BY <1>1, <1>4, <1>11
  <2>2. t \in Seq(Symbol) /\ Len(t) = k + 4 /\ \A i \in 1..k + 4 : t[i] = buf[i]
    BY <2>1, TakeProperties
  <2> HIDE DEF t
  <2>3. ASSUME NEW i \in 1..Len(t) PROVE t[i] = c[i]
    <3>1. i \in 1..k + 4 /\ i \in 1..Len(buf) /\ i <= k + 5
      BY <1>1, <1>4, <1>11, <2>2
    <3> QED BY <1>2, <1>5, <2>2, <3>1
  <2>4. t = c
    BY <1>1, <2>2, <2>3, SeqEqual
  <2> QED BY <1>9, <1>12, <2>1, <2>4 DEF ChecksOut, t
<1>14. Payload(buf) = p /\ p # <<>>
  <2>1. PICK q \in Framable : buf[FrameLength(buf)] = Checked(q) /\ Payload(buf) = q /\ q # <<>>
    BY <1>10, <1>13, TakeFinds
  <2>2. Checked(q) = Checked(p)
    BY <1>9, <1>12, <2>1 DEF c
  <2> QED BY <2>1, <2>2, ChecksumTells
<1>15. Drop(buf, k + 5) \o l = rest
  <2> DEFINE n == k + 5
  <2>1. n \in 0..Len(buf) /\ Len(Frame(p)) + 0 = n /\ 0 \in 0..Len(rest)
    BY <1>1, <1>2, <1>4, <1>11
  <2> HIDE DEF n
  <2>2. Drop(buf, n) \o l = Drop(buf \o l, n)
    BY <2>1, DropOfJoin
  <2>3. Drop(rest, 0) = Drop(Frame(p) \o rest, Len(Frame(p)) + 0)
    BY <1>2, <2>1, DropBeyond
  <2>4. Drop(rest, 0) = rest
    <3>1. /\ Drop(rest, 0) \in Seq(Symbol) /\ Len(Drop(rest, 0)) = Len(rest) - 0
          /\ \A i \in 1..Len(rest) - 0 : Drop(rest, 0)[i] = rest[i + 0]
      BY <2>1, DropProperties
    <3>2. Len(rest) - 0 = Len(rest) /\ \A i \in 1..Len(rest) : i + 0 = i
      BY <1>4
    <3> QED BY <3>1, <3>2, SeqEqual
  <2> QED BY <2>1, <2>2, <2>3, <2>4 DEF n
<1>16. k + 5 \in 0..Len(buf)
  BY <1>1, <1>4, <1>11
<1> QED BY <1>9, <1>10, <1>13, <1>14, <1>15, <1>16 DEF k

\* What is not yet unframed is whole frames, and there is something to unframe.
LEMMA AlignedIsFound ==
    ASSUME InOrder, NEW k \in 0..Len(sent), WholeFrames(k), ~WantsMore(buffer)
    PROVE  /\ k < Len(sent) /\ k + 1 \in 0..Len(sent)
           /\ StartsFrame(buffer) /\ ChecksOut(buffer)
           /\ Payload(buffer) = sent[k + 1] /\ Payload(buffer) # <<>>
           /\ AfterFrame(buffer) \o line = LastFrames(sent, Len(sent) - (k + 1))
<1> DEFINE n == Len(sent) - k
           m == sent
<1>1. /\ line \in Seq(Symbol) /\ buffer \in Seq(Symbol) /\ m \in Seq(Framable)
      /\ Len(line) \in Nat /\ Len(buffer) \in Nat /\ Len(m) \in Nat
  BY DEF InOrder, StreamTypes
<1>2. Len(buffer) >= 5
  BY <1>1 DEF WantsMore, HeaderLength
<1>3. buffer \o line = LastFrames(m, n)
  BY DEF WholeFrames
<1>4. n # 0
  <2>1. LastFrames(m, 0) = <<>> /\ Len(<<>>) = 0
    BY LastUnfold
  <2>2. Len(buffer \o line) = Len(buffer) + Len(line)
    BY <1>1, ConcatProperties
  <2>3. Len(buffer) + Len(line) # 0
    BY <1>1, <1>2
  <2> HIDE DEF n
  <2> QED BY <1>3, <2>1, <2>2, <2>3
<1>5. /\ n - 1 \in Nat /\ (n - 1) + 1 = n /\ n - 1 < Len(m) /\ n - 1 \in 0..Len(m)
      /\ Len(m) - (n - 1) = k + 1 /\ Len(m) - (k + 1) = n - 1 /\ k < Len(m) /\ k + 1 \in 0..Len(m)
  BY <1>1, <1>4
<1> HIDE DEF n, m
<1> DEFINE j == n - 1
           p == m[k + 1]
           rest == LastFrames(m, n - 1)
<1>6. p \in Framable /\ LastFrames(m, n) = Frame(p) \o rest
  <2>1. j \in Nat /\ j < Len(m) /\ j + 1 = n /\ Len(m) - j = k + 1
    BY <1>5
  <2> HIDE DEF j
  <2>2. m[Len(m) - j] \in Framable /\ LastFrames(m, j + 1) = Frame(m[Len(m) - j]) \o LastFrames(m, j)
    BY <1>1, <2>1, LastMessage
  <2> QED BY <2>1, <2>2 DEF j
<1>7. rest \in Seq(Symbol)
  BY <1>1, <1>5, LastAreSymbols
<1> HIDE DEF p, rest, j
<1>8. buffer \o line = Frame(p) \o rest
  BY <1>3, <1>6
<1>9. /\ StartsFrame(buffer) /\ ChecksOut(buffer)
      /\ Payload(buffer) = p /\ p # <<>>
      /\ Drop(buffer, FrameLength(buffer)) \o line = rest
  <2>1. ~WantsMore(buffer) /\ buffer \in Seq(Symbol) /\ line \in Seq(Symbol)
    BY <1>1
  <2> QED BY ZenonT(60), <1>6, <1>7, <1>8, <2>1, FrameIsFound
<1>10. AfterFrame(buffer) = Drop(buffer, FrameLength(buffer))
  BY DEF AfterFrame, Drop
<1>11. AfterFrame(buffer) \o line = rest
  BY <1>9, <1>10
<1> QED BY <1>5, <1>9, <1>11 DEF m, p, rest

FaultsCounted == faults \in Nat

LEMMA StepCountsFaults == FaultsCounted /\ [Next]_vars => FaultsCounted'
BY DEF FaultsCounted, Next, vars, Send, Read, Unframe, Skip, Take, HostThrows, DeviceDrops,
       Damage, Restart

\* What a step may do to an aligned receiver.
StaysAligned(k) ==
    /\ running'
    /\ \/ WholeFrames(k)' /\ delivered' = delivered
       \/ k < Len(sent) /\ WholeFrames(k + 1)' /\ delivered' = Append(delivered, sent[k + 1])

LEMMA SendStaysAligned ==
    ASSUME InOrder, running, NEW k \in 0..Len(sent), WholeFrames(k), NEW p \in Payloads, Send(p)
    PROVE  StaysAligned(k)
<1> DEFINE n == Len(sent) - k
<1>1. line \in Seq(Symbol) /\ buffer \in Seq(Symbol) /\ sent \in Seq(Framable)
  BY DEF InOrder, StreamTypes
<1>2. p \in Framable /\ Frame(p) \in Seq(Symbol)
  <2>1. p \in Framable
    BY DEF Send, Framable
  <2> QED BY <2>1, FrameProperties
<1>3. /\ sent' = Append(sent, p) /\ line' = line \o Frame(p)
      /\ buffer' = buffer /\ delivered' = delivered /\ running' = running
  BY DEF Send
<1>4. buffer \o (line \o Frame(p)) = (buffer \o line) \o Frame(p)
  <2>1. Frame(p) \in Seq(Symbol)
    BY <1>2
  <2> HIDE DEF n
  <2> QED BY <1>1, <2>1, JoinsAssociate
<1>5. Len(Append(sent, p)) - k = n + 1 /\ n \in 0..Len(sent)
  <2>1. Len(Append(sent, p)) = Len(sent) + 1 /\ Len(sent) \in Nat
    BY <1>1, <1>2, AppendProperties
  <2> QED BY <2>1
<1>6. buffer \o line = LastFrames(sent, n)
  BY DEF WholeFrames
<1> HIDE DEF n
<1>7. LastFrames(Append(sent, p), n + 1) = LastFrames(sent, n) \o Frame(p)
  BY <1>1, <1>2, <1>5, LastGrow
<1>8. WholeFrames(k)'
  BY <1>3, <1>4, <1>5, <1>6, <1>7 DEF WholeFrames
<1> QED BY <1>3, <1>8 DEF StaysAligned

LEMMA ReadStaysAligned ==
    ASSUME InOrder, running, NEW k \in 0..Len(sent), WholeFrames(k), NEW n \in 1..Len(line), Read(n)
    PROVE  StaysAligned(k)
<1>1. line \in Seq(Symbol) /\ buffer \in Seq(Symbol)
  BY DEF InOrder, StreamTypes
<1>2. /\ buffer' = buffer \o SubSeq(line, 1, n) /\ line' = Drop(line, n)
      /\ sent' = sent /\ delivered' = delivered /\ running' = running
  BY DEF Read, Drop
<1>3. n \in 0..Len(line)
  OBVIOUS
<1>4. SubSeq(line, 1, n) \in Seq(Symbol) /\ Drop(line, n) \in Seq(Symbol)
  BY <1>1, <1>3, TakeProperties, DropProperties
<1>5. (buffer \o SubSeq(line, 1, n)) \o Drop(line, n) = buffer \o (SubSeq(line, 1, n) \o Drop(line, n))
  BY <1>1, <1>4, JoinsAssociate
<1>6. SubSeq(line, 1, n) \o Drop(line, n) = line
  BY <1>1, <1>3, CutAndJoin
<1>7. WholeFrames(k)'
  BY <1>2, <1>5, <1>6 DEF WholeFrames
<1> QED BY <1>2, <1>7 DEF StaysAligned

LEMMA UnframeStaysAligned ==
    ASSUME InOrder, running, NEW k \in 0..Len(sent), WholeFrames(k), Unframe
    PROVE  StaysAligned(k)
<1>1. ~WantsMore(buffer)
  BY DEF Unframe, Skip, Take, HostThrows, DeviceDrops
<1>2. /\ k < Len(sent) /\ k + 1 \in 0..Len(sent)
      /\ StartsFrame(buffer) /\ ChecksOut(buffer)
      /\ Payload(buffer) = sent[k + 1] /\ Payload(buffer) # <<>>
      /\ AfterFrame(buffer) \o line = LastFrames(sent, Len(sent) - (k + 1))
  BY <1>1, AlignedIsFound
<1>3. Take
  BY <1>2 DEF Unframe, Skip, HostThrows, DeviceDrops
<1>4. /\ buffer' = AfterFrame(buffer) /\ delivered' = Append(delivered, sent[k + 1])
      /\ line' = line /\ sent' = sent /\ running' = running
  BY <1>2, <1>3 DEF Take
<1>5. WholeFrames(k + 1)'
  BY <1>2, <1>4 DEF WholeFrames
<1> QED BY <1>2, <1>4, <1>5 DEF StaysAligned

LEMMA StepStaysAligned ==
    ASSUME InOrder, FaultsCounted, [Next]_vars, running, faults' = faults,
           NEW k \in 0..Len(sent), WholeFrames(k)
    PROVE  StaysAligned(k)
<1>1. CASE \E p \in Payloads : Send(p)
  BY <1>1, SendStaysAligned
<1>2. CASE \E n \in 1..Len(line) : Read(n)
  BY <1>2, ReadStaysAligned
<1>3. CASE Unframe
  BY <1>3, UnframeStaysAligned
<1>4. CASE Damage \/ Restart
  <2>1. faults' = faults + 1
    BY <1>4 DEF Damage, Restart
  <2> QED BY <2>1 DEF FaultsCounted
<1>5. CASE UNCHANGED vars
  BY <1>5 DEF vars, StaysAligned, WholeFrames
<1> QED BY <1>1, <1>2, <1>3, <1>4, <1>5 DEF Next

\* Resynchronised is resynchronised: once the bytes to come are whole frames and nothing
\* more happens to the line, unframe and try_unframe skip, drop and misread none of
\* them, wherever the chunks are cut and whatever the payloads look like.
THEOREM AlignmentStays == Spec => AlignmentIsKept
<1> DEFINE I == InOrder /\ FaultsCounted
<1>1. Init => I
  BY InitInOrder DEF Init, FaultsCounted
<1>2. I /\ [Next]_vars => I'
  BY StepKeepsInOrder, StepCountsFaults
<1>3. I /\ [Next]_vars =>
        [\A k \in 0..Len(sent) : WholeFrames(k) /\ running /\ faults' = faults =>
            /\ running'
            /\ \/ WholeFrames(k)' /\ delivered' = delivered
               \/ k < Len(sent) /\ WholeFrames(k + 1)' /\ delivered' = Append(delivered, sent[k + 1])]_vars
  BY StepStaysAligned DEF StaysAligned
<1> QED BY <1>1, <1>2, <1>3, PTL DEF Spec, AlignmentIsKept

==============================================================================
