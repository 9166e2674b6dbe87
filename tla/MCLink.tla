-------------------------------- MODULE MCLink --------------------------------
(***************************************************************************)
(* Instances of AttesterLink for TLC.                                      *)
(***************************************************************************)
EXTENDS AttesterLink, TLC

CONSTANTS vault, body

Runs == 1..3

TransferLength == 3 :> 32
OneScreen == [x \in Kinds \X Bodies |-> x]

\* The second asks for what the device does not decode.
Requests ==
    [c \in Calls |->
        [id |-> c, network |-> "solana", vault |-> vault, nonce |-> 0, kind |-> 3,
         args |-> [length |-> IF c = 2 THEN 31 ELSE 32, body |-> body],
         hash |-> [network |-> "solana", vault |-> vault, nonce |-> 0, kind |-> 3,
                   canonical |-> <<3, body>>]]]
===============================================================================
