---------------------------- MODULE GuardedListing ----------------------------
(***************************************************************************)
(* A vault of IntentGuardModule whose calls all go through a               *)
(* CollateralListingAdapter: the adapter decodes the intent when a call is *)
(* queued and weighs it against the oracle when the call is executed.      *)
(* Between the two, policies and answers change.                           *)
(***************************************************************************)
EXTENDS CollateralListingAdapter, Sequences, FiniteSets

CONSTANTS
    Vaults, Safes, Addresses, Targets, InitArgs,
    Max8, MaxSignatures, ClockSkew, SignAhead, AttestationTTLs,
    Values,         \* msg.value of a guarded call
    Garbage,        \* calldata that is no call of listCollateral
    Adapter,        \* the address of the adapter
    Undecodable     \* no intent

\* The (value, calldata) pairs of guarded calls.
Payloads == [value : Values, data : Claims \cup {Garbage}]

\* The WhitelistCollateral intent, bound to the call's target and value.
Intents ==
    [target : Targets, value : Values, token : Tokens, oracle : Oracles,
     fairValueUsdE18 : {c.fairValueUsdE18 : c \in Claims},
     maxDepositUsdE18 : {c.maxDepositUsdE18 : c \in Claims}]

\* _decode and intentHash.
IntentOf ==
    [x \in {Adapter} \X Targets \X Payloads |->
        LET c == x[3].data
        IN  IF c = Garbage THEN Undecodable
            ELSE [target |-> x[2], value |-> x[3].value, token |-> c.token,
                  oracle |-> c.oracle, fairValueUsdE18 |-> c.fairValueUsdE18,
                  maxDepositUsdE18 |-> c.maxDepositUsdE18]]

VARIABLES
    vaults, isSigner, allowedAdapter, proposals, cancelledBy,  \* IntentGuardModule
    signatures, safeCalls,      \* and now, which it shares with the adapter
    market          \* history: market[v][i], policies and rounds at safeCalls[v][i]

guardVars == <<vaults, isSigner, allowedAdapter, proposals, cancelledBy,
               now, signatures, safeCalls>>
listingVars == <<guardVars, feedPolicyByToken, rounds, market>>

Guard == INSTANCE IntentGuardModule WITH Adapters <- {Adapter}

ListingInit ==
    /\ Guard!Init /\ Init
    /\ market = [v \in Vaults |-> <<>>]

SkipsValidate(payload) == payload.data # Garbage   \* mutant: decodes, weighs nothing

\* validate on the calldata handed to execute.
Admits(payload) == payload.data # Garbage /\ Validate(payload.data)

\* execute calls validate before it writes anything; a revert undoes the call.
Execute(id, payload) ==
    /\ Admits(payload)
    /\ Guard!Execute(id, payload)
    /\ market' = [market EXCEPT ![id.vaultId] =
          Append(@, [policies |-> feedPolicyByToken, rounds |-> rounds])]
    /\ UNCHANGED <<feedPolicyByToken, rounds>>

\* Everything of the module but execute.
GuardStep ==
    /\ \/ \E v \in Vaults, safe \in Safes, a \in InitArgs : Guard!InitializeVault(v, safe, a)
       \/ \E safe \in Safes, v \in Vaults, target \in Targets, allowed \in BOOLEAN :
             Guard!SetAdapter(safe, v, target, Adapter, allowed)
       \/ \E v \in Vaults, action \in Guard!Action, expiresAt \in Guard!Uint64,
             atts \in SUBSET Guard!Presentable : Guard!Queue(v, action, expiresAt, atts)
       \/ \E id \in Guard!ProposalId, s \in Addresses : Guard!Cancel(id, s)
       \/ \E s \in Addresses, v \in Vaults, action \in Guard!Action, nonce \in Guard!Uint64,
             signedAt \in Guard!Uint64, ttl \in AttestationTTLs :
                Guard!Sign(s, v, action, nonce, signedAt, ttl)
       \/ Guard!Tick
    /\ UNCHANGED <<feedPolicyByToken, rounds, market>>

AdapterStep ==
    /\ \/ \E token \in Tokens, policy \in FeedPolicies :
             SetFeedPolicy(token, policy) /\ UNCHANGED rounds
       \/ \E oracle \in Oracles, answer \in Answers, decimals \in Decimals, updatedAt \in 0..Max64 :
             Publish(oracle, answer, decimals, updatedAt) /\ UNCHANGED feedPolicyByToken
    /\ UNCHANGED <<guardVars, market>>

ListingNext ==
    \/ \E id \in Guard!ProposalId, payload \in Payloads : Execute(id, payload)
    \/ GuardStep
    \/ AdapterStep

ListingSpec == ListingInit /\ [][ListingNext]_listingVars

------------------------------------------------------------------------------
(* Properties *)

\* The claim that was signed for a call, held against the policies and answers in force
\* when the call was carried out: it is about the oracle then trusted for its token, its
\* deposit is below the cap, and its value is near an answer that was then fresh.
MetTheMarket(call, m) ==
    LET intent == call.id.action.intentHash
        policy == m.policies[intent.token]
        round == m.rounds[intent.oracle]
        price == round.answer * TenTo[WAD]
        scale == TenTo[round.decimals]
    IN  /\ policy.allowed /\ policy.oracle = intent.oracle
        /\ intent.maxDepositUsdE18 <= policy.maxBootstrapDepositUsdE18
        /\ call.at \in round.updatedAt..round.updatedAt + policy.maxStalenessSecs
        /\ Distance(intent.fairValueUsdE18 * scale, price) * BPS
             <= price * policy.toleranceBps + IF round.decimals > WAD THEN BPS * scale ELSE 0

\* SPEC.md 3.9 across the cool-off: for every call that reached the Safe, the claim
\* that a quorum had signed (not the one somebody handed to execute) was, when it
\* was carried out, about the oracle the owner then trusted for that token, below
\* the deposit cap then in force, and near an answer that was then fresh.
SignedClaimsMetTheMarket ==
    \A v \in Vaults : \A i \in DOMAIN safeCalls[v] : MetTheMarket(safeCalls[v][i], market[v][i])

\* The adapter only restricts the module: under it, the module is still what
\* IntentGuardModule says of it, and keeps all that is proved there.
StillIntentGuard == Guard!Spec

===============================================================================
