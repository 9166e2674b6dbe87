--------------------------- MODULE GuardedExecution ---------------------------
(***************************************************************************)
(* What an intentguard deployment promises, whatever chain it runs on      *)
(* (SPEC.md, sections 3, 6 and 8).  A proposal is approved into a queue    *)
(* under the nonce of its vault; it is then either vetoed or executed, and *)
(* each vault executes one proposal per nonce, in the order of the nonces. *)
(*                                                                         *)
(* A proposal is a record with the fields vaultId and nonce, and whatever  *)
(* else identifies it.                                                     *)
(***************************************************************************)
EXTENDS Naturals, Sequences

CONSTANTS
    Vaults,     \* the guarded authorities
    Proposals   \* the identities of everything that could ever be proposed

VARIABLES
    queued,     \* proposals waiting for execution or a veto
    vetoed,     \* proposals cancelled by the signers
    log         \* log[v]: the proposals the vault v has executed, in order

vars == <<queued, vetoed, log>>

Executed(v) == {log[v][i] : i \in DOMAIN log[v]}

Init ==
    /\ queued = {}
    /\ vetoed = {}
    /\ log = [v \in Vaults |-> <<>>]

\* A proposal enters the queue under the current nonce of its vault, once.
Approve(p) ==
    /\ p.nonce = Len(log[p.vaultId])
    /\ p \notin queued \cup vetoed
    /\ queued' = queued \cup {p}
    /\ UNCHANGED <<vetoed, log>>

\* Enough signers cancelled a queued proposal.
Veto(p) ==
    /\ p \in queued
    /\ queued' = queued \ {p}
    /\ vetoed' = vetoed \cup {p}
    /\ UNCHANGED log

\* The next proposal of a vault's serial order is executed.
Run(p) ==
    /\ p \in queued
    /\ p.nonce = Len(log[p.vaultId])
    /\ queued' = queued \ {p}
    /\ log' = [log EXCEPT ![p.vaultId] = Append(@, p)]
    /\ UNCHANGED vetoed

Next == \E p \in Proposals : Approve(p) \/ Veto(p) \/ Run(p)

Spec == Init /\ [][Next]_vars

------------------------------------------------------------------------------
(* What the promise comes to *)

\* A vault's log holds its own proposals, the one of nonce 0 first, then of nonce 1, and
\* so on: so no nonce is spent twice.  What was vetoed is neither in it nor waiting, and
\* what ran no longer waits.
EachSettledOnce ==
    /\ queued \cap vetoed = {}
    /\ \A v \in Vaults : \A i \in DOMAIN log[v] :
          /\ log[v][i].vaultId = v /\ log[v][i].nonce = i - 1
          /\ log[v][i] \notin queued \cup vetoed

===============================================================================
