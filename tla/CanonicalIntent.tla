----------------------------- MODULE CanonicalIntent -----------------------------
(***************************************************************************)
(* Canonical intents, their hashes and the digests signed over them, as    *)
(* the four programs compute them that have to agree: the renderer library *)
(* (attester/renderer), the firmware (attester/firmware, render.rs and     *)
(* crypto.rs), the emulator of the host bridge (attester/host,             *)
(* transport.ts) and the SDK (attester/sdk).                               *)
(*                                                                         *)
(* Byte strings are sequences of numbers with the code's own lengths; only *)
(* the values of a data byte are fewer, 0..Base - 1.  A name and the       *)
(* domain separator are one symbol each, a number that no byte has.  A     *)
(* hash stands for the bytes hashed.                                       *)
(***************************************************************************)
EXTENDS Digits, FiniteSets, SequencesExt

CONSTANTS
    Values,     \* what adapters may decode to, the fields of its objects included
    Depth,      \* bound: how deep objects are nested in objects
    MICROS,     \* micro-dollars in a dollar: 1_000_000
    CENT        \* micro-dollars in a cent: 10_000

ASSUME CanonicalBounds == Depth \in Nat /\ MICROS \in Nat \ {0} /\ CENT \in Nat \ {0}

KeyLength == 32

DOMAIN_SEP == 1000

AsWritten ==   \* mutant: the fields as an adapter writes them down, not sorted
    <<"token", "fair_value_usd_micros", "oracle", "max_deposit_usd", "new_admin">>

\* The names of the canonical fields, in the order of sort().
FieldNames == <<"fair_value_usd_micros", "max_deposit_usd", "new_admin", "oracle", "token">>

NameSymbol(name) == DOMAIN_SEP + CHOOSE i \in DOMAIN FieldNames : FieldNames[i] = name

\* Seven bits in a byte, and whether there are more.
Varint[n \in Nat] == IF n < 128 THEN <<n>> ELSE <<128 + (n % 128)>> \o Varint[n \div 128]

------------------------------------------------------------------------------
(* canonicalSerialise of the renderer *)

\* The values it takes.
Str(s) == [string |-> s]
Raw(bytes) == [bytes |-> bytes]
Num(n) == [number |-> n]
Bool(b) == [boolean |-> b]
Big(n) == [bigint |-> n]
Obj(fields) == [object |-> fields]

\* The ranges of i64, u64 and u128.
Scalar ==
    [string : Seq(Byte)] \cup [bytes : Seq(Byte)]
      \cup [number : -(Power[8] \div 2)..Power[8] - 1]
      \cup [boolean : BOOLEAN] \cup [bigint : 0..Power[16] - 1]

IsFunction(f) == f = [x \in DOMAIN f |-> f[x]]

IsObject(v) ==
    /\ IsFunction(v) /\ DOMAIN v = {"object"}
    /\ IsFunction(v.object) /\ DOMAIN v.object \subseteq Range(FieldNames)

\* Objects within objects, so many deep.
Nested[depth \in Nat] ==
    LET inner == IF depth = 0 THEN {} ELSE Nested[depth - 1]
    IN  {v \in Values : v \in Scalar \/ (depth > 0 /\ IsObject(v) /\ Range(v.object) \subseteq inner)}

ASSUME ValuesAreNested == Values = Nested[Depth]

Unprefixed(bytes) == bytes   \* mutant: no varint(len)

Prefixed(bytes) == Varint[Len(bytes)] \o bytes

SerialiseScalar(v) ==
    IF "string" \in DOMAIN v THEN <<1>> \o Prefixed(v.string)
    ELSE IF "bytes" \in DOMAIN v THEN <<2>> \o Prefixed(v.bytes)
    ELSE IF "number" \in DOMAIN v
    THEN <<IF v.number < 0 THEN 4 ELSE 3>> \o LittleEndian(v.number, 8)
    ELSE IF "bigint" \in DOMAIN v THEN <<6>> \o LittleEndian(v.bigint, 16)
    ELSE <<5, IF v.boolean THEN 1 ELSE 0>>

\* Object.keys(obj).sort(), and each key with the bytes of its value.
SerialiseFields(bytesOf) ==
    <<16>> \o Varint[Cardinality(DOMAIN bytesOf)]
      \o FlattenSeq([i \in DOMAIN FieldNames |->
            IF FieldNames[i] \in DOMAIN bytesOf
            THEN <<1, NameSymbol(FieldNames[i])>> \o bytesOf[FieldNames[i]] ELSE <<>>])

Serialised[depth \in Nat] ==
    [v \in Values |->
        IF depth > 0 /\ IsObject(v)
        THEN SerialiseFields([name \in DOMAIN v.object |-> Serialised[depth - 1][v.object[name]]])
        ELSE SerialiseScalar(v)]

CanonicalSerialise(v) == Serialised[Depth][v]

\* An intent of one of the adapters there are, whose fields are no objects.
SerialiseIntent(intent) ==
    SerialiseFields([name \in DOMAIN intent |-> SerialiseScalar(intent[name])])

------------------------------------------------------------------------------
(* The adapters of the renderer *)

Fields(args, from, length) == SubSeq(args, from + 1, from + length)

ArgsLength == [kind \in {1, 3} |-> IF kind = 1 THEN 2 * KeyLength + 16 ELSE KeyLength]

\* getAdapter finds the kind and decode does not throw.
IsDecodable(kind, args) == kind \in DOMAIN ArgsLength /\ Len(args) = ArgsLength[kind]

DecodeCollateral(args) ==
    [token |-> Raw(Fields(args, 0, KeyLength)),
     fair_value_usd_micros |-> Big(Number(Fields(args, 32, 8))),
     oracle |-> Raw(Fields(args, 40, KeyLength)),
     max_deposit_usd |-> Big(Number(Fields(args, 72, 8)))]

DecodeTransfer(args) == [new_admin |-> Raw(Fields(args, 0, KeyLength))]

Decode(kind, args) == IF kind = 1 THEN DecodeCollateral(args) ELSE DecodeTransfer(args)

\* The first and the last n bytes of a key.
Short(key, n) == <<SubSeq(key, 1, n), SubSeq(key, Len(key) - n + 1, Len(key))>>

FormatUsd(micros) == <<micros \div MICROS, (micros % MICROS) \div CENT>>

Line(label, value) == [label |-> label, value |-> value]

RenderCollateral(intent) ==
    <<Line("Token", Short(intent.token.bytes, 4)),
      Line("Fair value (USD)", FormatUsd(intent.fair_value_usd_micros.bigint)),
      Line("Oracle", Short(intent.oracle.bytes, 4)),
      Line("Max deposit (USD)", <<intent.max_deposit_usd.bigint>>)>>

RenderTransfer(intent) == <<Line("New admin", Short(intent.new_admin.bytes, 6))>>

ActionName(kind) == IF kind = 1 THEN "WHITELIST_COLLATERAL" ELSE "TRANSFER_ADMIN"

Warning(kind) ==
    IF kind = 1 THEN "Adding collateral. Confirm fair value matches the live oracle."
    ELSE "Transferring administrative control. Verify the destination off-band before confirming."

\* renderIntent as the attest command prints it: the name of the action, the lines, the
\* warning.  (No screen shows a severity other than by colour.)
Preview(kind, args) ==
    LET intent == Decode(kind, args)
    IN  <<Line("action", ActionName(kind))>>
          \o (IF kind = 1 THEN RenderCollateral(intent) ELSE RenderTransfer(intent))
          \o <<Line("warning", Warning(kind))>>

\* sha256 on Solana, keccak_256 on EVM.
Hash(network, bytes) == [network |-> network, of |-> bytes]

ComputeIntentHash(i) ==
    Hash(i.network, <<DOMAIN_SEP>> \o i.vault \o LittleEndian(i.nonce, 8) \o LittleEndian(i.kind, 4)
                      \o SerialiseIntent(Decode(i.kind, i.args)))

------------------------------------------------------------------------------
(* The firmware: the same by hand, field after field *)

EncodeKey(name) == <<1, NameSymbol(name)>>
EncodeBytes(bytes) == <<2>> \o Varint[Len(bytes)] \o bytes
EncodeU128(n) == <<6>> \o LittleEndian(n, 16)

DeviceCanonical(kind, args) ==
    IF kind = 1
    THEN <<16>> \o Varint[4]
           \o EncodeKey("fair_value_usd_micros") \o EncodeU128(Number(Fields(args, 32, 8)))
           \o EncodeKey("max_deposit_usd") \o EncodeU128(Number(Fields(args, 72, 8)))
           \o EncodeKey("oracle") \o EncodeBytes(Fields(args, 40, 32))
           \o EncodeKey("token") \o EncodeBytes(Fields(args, 0, 32))
    ELSE <<16>> \o Varint[1]
           \o EncodeKey("new_admin") \o EncodeBytes(Fields(args, 0, 32))

RoundedUsd(micros) ==   \* mutant: to the nearest cent
    <<(micros + CENT \div 2) \div MICROS, ((micros + CENT \div 2) % MICROS) \div CENT>>

\* format_usd.
DeviceUsd(micros) == <<micros \div MICROS, (micros % MICROS) \div CENT>>

\* The lines of decode_whitelist_collateral and decode_transfer_admin.
Display(kind, args) ==
    IF kind = 1
    THEN <<Line("Token", Short(Fields(args, 0, 32), 6)),
           Line("Fair value (USD)", DeviceUsd(Number(Fields(args, 32, 8)))),
           Line("Oracle", Short(Fields(args, 40, 32), 6)),
           Line("Max deposit (USD)", <<Number(Fields(args, 72, 8))>>)>>
    ELSE <<Line("New admin", Short(Fields(args, 0, 32), 6))>>

\* canonical_intent_hash, where nonce is u64 and action_kind u32.
DeviceIntentHash(i) ==
    Hash(i.network, <<DOMAIN_SEP>> \o i.vault \o LittleEndian(i.nonce, 8) \o LittleEndian(i.kind, 4)
                      \o DeviceCanonical(i.kind, i.args))

------------------------------------------------------------------------------
(* What is signed *)

\* attest_digest of the firmware.
DeviceDigest(i, hash, signedAt) ==
    Hash(i.network, <<DOMAIN_SEP>> \o i.vault \o LittleEndian(i.nonce, 8) \o LittleEndian(i.kind, 4)
                      \o <<hash>> \o LittleEndian(signedAt, 8))

\* u64LE and u32LE of the host and the SDK throw outside their widths, those of the
\* renderer do not.
InWidth(i, signedAt) == i.nonce \in U64 /\ i.kind \in U32 /\ signedAt \in U64

\* attestDigest of the emulator.
EmulatorDigest(i, hash, signedAt) ==
    Hash(i.network, <<DOMAIN_SEP>> \o i.vault \o LittleEndian(i.nonce, 8) \o LittleEndian(i.kind, 4)
                      \o <<hash>> \o LittleEndian(signedAt, 8))

DigestWithoutKind(i, hash, signedAt) ==   \* mutant: action_kind is not bound
    Hash(i.network, <<DOMAIN_SEP>> \o i.vault \o LittleEndian(i.nonce, 8) \o <<hash>>
                      \o LittleEndian(signedAt, 8))

\* attesterDigest of the SDK.
AttesterDigest(i, hash, signedAt) ==
    Hash(i.network, <<DOMAIN_SEP>> \o i.vault \o LittleEndian(i.nonce, 8) \o LittleEndian(i.kind, 4)
                      \o <<hash>> \o LittleEndian(signedAt, 8))

===============================================================================
