------------------------------- MODULE MCFraming -------------------------------
(***************************************************************************)
(* Instances of Framing for TLC.                                           *)
(***************************************************************************)
EXTENDS Framing, TLC

AsBytes(s) == [i \in DOMAIN s |-> <<s[i]>>]

\* A short payload, and one that begins like a frame of length 0 or 1.
LookAlikes == {AsBytes(<<0>>), AsBytes(<<1, 0, 0>>)}
===============================================================================
