---------------------------------- MODULE Cbor ----------------------------------
(***************************************************************************)
(* The CBOR subset of attester/host/src/protocol.ts, for the messages of   *)
(* the attester protocol: one map from names to integers, byte strings and *)
(* texts.                                                                  *)
(*                                                                         *)
(* An encoding is a sequence of symbols: a head, which is the first byte   *)
(* of an item with its major type and additional info; a byte; a text,     *)
(* whole.  The widths of the integers are the code's, the values of a byte *)
(* are 0..Base - 1, and Small stands for 24.                               *)
(***************************************************************************)
EXTENDS Digits, FiniteSets, SequencesExt

CONSTANT Small      \* integers below it fit the head

ASSUME SmallBounds == Small \in Nat \ {0} /\ Small < Base

\* The field names of the messages, in the order of sort().
Names ==
    <<"action_args", "action_kind", "device_pubkey", "domain_sep", "expires_at", "intent_hash",
      "network", "nonce", "proposal_id", "reason", "signature", "signed_at", "type", "vault">>

\* 2^64
U64Size == Power[8]

Uint(n) == [major |-> 0, value |-> n]
Bytes(s) == [major |-> 2, value |-> s]
Text(t) == [major |-> 3, value |-> t]

------------------------------------------------------------------------------
(* cborEncode *)

WidestInfo == Small + 3

\* Bytes of an integer in the head's own info, in one byte, two, four or eight.
Width(info) == IF info < Small THEN 0 ELSE <<1, 2, 4, 8>>[info - Small + 1]

BigEndian(n, width) == [i \in 1..width |-> [byte |-> Digit(n, width - i)]]

\* The narrowest width that holds n; setBigUint64 takes n modulo 2^64.
InfoOf(n) ==
    IF n < Small THEN n
    ELSE IF n < Power[1] THEN Small
    ELSE IF n < Power[2] THEN Small + 1
    ELSE IF n < Power[4] THEN Small + 2
    ELSE WidestInfo

EncodeUint(major, n) ==
    <<[head |-> <<major, InfoOf(n)>>]>> \o BigEndian(n, Width(InfoOf(n)))

EncodeItem(v) ==
    CASE v.major = 0 -> EncodeUint(0, v.value)
      [] v.major = 2 -> EncodeUint(2, Len(v.value)) \o [i \in DOMAIN v.value |-> [byte |-> v.value[i]]]
      [] v.major = 3 -> EncodeUint(3, 1) \o <<[text |-> v.value]>>

EncodeEntry(key, value) == EncodeItem(Text(key)) \o EncodeItem(value)

EncodeMap(m) ==
    EncodeUint(5, Cardinality(DOMAIN m))
      \o FlattenSeq([i \in DOMAIN Names |->
            IF Names[i] \in DOMAIN m THEN EncodeEntry(Names[i], m[Names[i]]) ELSE <<>>])

------------------------------------------------------------------------------
(* cborDecode: what was read and what is left, or that it throws. *)

Throws == [ok |-> FALSE]

Read(value, rest) == [ok |-> TRUE, value |-> value, rest |-> rest]

\* The first byte has the highest weight.
Value(digits) == Number([i \in DOMAIN digits |-> digits[Len(digits) - i + 1].byte])

ReadUintUnchecked(info, rest) ==   \* mutant: no requireBytes, what is there counts
    IF info \notin 0..WidestInfo THEN Throws
    ELSE IF Width(info) = 0 THEN Read(info, rest)
    ELSE Read(Value(SubSeq(rest, 1, IF Len(rest) < Width(info) THEN Len(rest) ELSE Width(info))),
              SubSeq(rest, Width(info) + 1, Len(rest)))

ReadUint(info, rest) ==
    IF info \notin 0..WidestInfo \/ Len(rest) < Width(info) THEN Throws
    ELSE IF Width(info) = 0 THEN Read(info, rest)
    ELSE Read(Value(SubSeq(rest, 1, Width(info))), SubSeq(rest, Width(info) + 1, Len(rest)))

\* The value of an integer, or the length of a byte string, a text or a map.
DecodeHead(buf) ==
    IF buf = <<>> \/ "head" \notin DOMAIN buf[1] THEN Throws
    ELSE ReadUint(buf[1].head[2], Tail(buf))

\* The item in buf, whose head says len.
ItemOf(buf, len) ==
    LET major == buf[1].head[1]
        content == SubSeq(len.rest, 1, len.value)
        after == SubSeq(len.rest, len.value + 1, Len(len.rest))
    IN  IF ~len.ok THEN Throws
        ELSE IF major = 0 THEN Read(Uint(len.value), len.rest)
        ELSE IF Len(len.rest) < len.value THEN Throws
        ELSE IF major = 2 THEN Read(Bytes([i \in DOMAIN content |-> content[i].byte]), after)
        ELSE IF major = 3 THEN Read(Text(content[1].text), after)
        ELSE Throws

DecodeItem(buf) == ItemOf(buf, DecodeHead(buf))

\* obj[k] = v: an entry that comes later replaces one of the same name.
SetEntry(obj, key, value) ==
    IF ~value.ok THEN Throws
    ELSE Read([k \in DOMAIN obj \cup {key} |-> IF k = key THEN value.value ELSE obj[k]], value.rest)

EntryAfterKey(before, key) ==
    IF ~key.ok \/ key.value.major # 3 THEN Throws
    ELSE SetEntry(before.value, key.value.value, DecodeItem(key.rest))

\* One entry more.
DecodeEntry(before) ==
    IF ~before.ok THEN Throws ELSE EntryAfterKey(before, DecodeItem(before.rest))

Entries(count) ==
    LET entries[i \in 0..count.value] ==
            IF i = 0 THEN Read(<<>>, count.rest) ELSE DecodeEntry(entries[i - 1])
    IN  entries[count.value]

MapOf(count) == IF count.ok THEN Entries(count) ELSE Throws

DecodeMap(buf) == MapOf(DecodeHead(buf))

===============================================================================
