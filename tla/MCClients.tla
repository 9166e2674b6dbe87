------------------------------- MODULE MCClients -------------------------------
(***************************************************************************)
(* Instances of AttesterClients for TLC.                                   *)
(***************************************************************************)
EXTENDS AttesterClients, TLC

\* Keys that differ at their ends, between what preview and display show, or in the middle.
Key(ends, inner, middle) ==
    [i \in 1..32 |-> IF i \in {1, 32} THEN ends ELSE IF i \in {6, 27} THEN inner
                     ELSE IF i = 16 THEN middle ELSE 2]

Collateral(token, fair, oracle, cap) ==
    token \o LittleEndian(fair, 8) \o oracle \o LittleEndian(cap, 8)

\* Amounts that differ in the lowest and beyond the fourth byte.
CollateralArgs ==
    {Collateral(t, f, o, 1) : t \in {Key(0, 0, 0), Key(0, 1, 0)}, f \in {1, 2, 82},
                              o \in {Key(0, 0, 0), Key(0, 0, 1)}}
      \cup {Collateral(Key(0, 0, 0), 1, Key(0, 0, 0), 82)}

AdminArgs == {Key(0, 0, 0), Key(1, 0, 0), Key(0, 0, 2)}

AskFor(network, vault, nonce, kind, args) ==
    [network |-> network, vault |-> vault, nonce |-> nonce, kind |-> kind, args |-> args]

\* Bytes that look like the tags and lengths around them, lengths of one byte and of two,
\* integers that end alike, fields in all combinations, an object in an object.
Scalars ==
    {Str(s) : s \in {<<>>, <<1>>, <<1, 0>>, <<2, 1, 0>>}} \cup {Raw(s) : s \in {<<>>, <<0>>, <<0, 1>>, <<1, 0>>}}
      \cup {Raw([i \in 1..n |-> 1]) : n \in {127, 128, 256}}
      \cup {Num(n) : n \in {-2, -1, 0, 1, 81, 6560}} \cup {Big(n) : n \in {0, 1, 6561, 6562}}
      \cup {Bool(b) : b \in BOOLEAN}

Objects(values) ==
    {Obj([n \in names |-> IF n = "token" THEN v ELSE w]) :
        names \in SUBSET {"max_deposit_usd", "oracle", "token"}, v \in values, w \in values}

SomeValues ==
    Scalars \cup {Obj([token |-> Raw(<<0>>)])}
      \cup Objects({Str(<<1, 0>>), Raw(<<>>), Raw(<<0, 1>>), Num(-1), Big(1), Bool(TRUE)})
      \cup Objects({Obj([token |-> Raw(<<0>>)]), Bool(TRUE)})

\* 2^64 and its neighbours, in bytes of three values.
Nonces == {-1, 0, 1, 2, 3, 8, 9, 80, 81, 6560, 6561, 6562}

\* Every argument at one nonce and every nonce with one argument; an unknown network, an
\* unknown action, arguments of the wrong length.
SomeInputs ==
    {AskFor(n, v, 1, 1, a) : n \in {"solana", "evm"}, v \in {<<0>>, <<1>>, <<0, 1>>}, a \in CollateralArgs}
      \cup {AskFor(n, <<0>>, k, 3, a) : n \in {"solana", "evm"}, k \in Nonces, a \in AdminArgs}
      \cup {AskFor("ethereum", <<1, 1>>, 1, 3, Key(0, 0, 0)),
            AskFor("evm", <<0>>, 1, 2, Key(0, 0, 0)), AskFor("evm", <<0>>, 1, 1, Key(0, 0, 0))}
===============================================================================
