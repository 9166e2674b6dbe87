-------------------------------- MODULE MCHost --------------------------------
(***************************************************************************)
(* Instances of HostTransport for TLC.                                     *)
(***************************************************************************)
EXTENDS HostTransport, TLC

CONSTANTS c1, c2, c3

\* A call is told by its message.
OwnMessages == [c \in Calls |-> c]
===============================================================================
