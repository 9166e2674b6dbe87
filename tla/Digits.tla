--------------------------------- MODULE Digits ---------------------------------
(***************************************************************************)
(* Integers as bytes: the DataView setters and getters, to_le_bytes and    *)
(* from_le_bytes of the attester's programs.  A byte has Base values.      *)
(***************************************************************************)
EXTENDS Integers, Sequences

CONSTANT Base       \* 256

ASSUME BaseBounds == Base \in Nat /\ Base > 1

Byte == 0..Base - 1

Power[n \in Nat] == IF n = 0 THEN 1 ELSE Base * Power[n - 1]

U64 == 0..Power[8] - 1
U32 == 0..Power[4] - 1

\* The byte of this weight, of the two's complement of a negative number.
Digit(n, weight) == (n \div Power[weight]) % Base

\* setBigUint64(0, n, true) and its kin: n modulo the width, low byte first.
LittleEndian(n, width) == [i \in 1..width |-> Digit(n, i - 1)]

\* getBigUint64(0, true), from_le_bytes.
Number(bytes) ==
    LET sum[i \in 0..Len(bytes)] ==
            IF i = 0 THEN 0 ELSE sum[i - 1] + bytes[i] * Power[i - 1]
    IN  sum[Len(bytes)]

===============================================================================
