----------------------- MODULE IntentGuardModule_proofs -----------------------
(***************************************************************************)
(* What holds of IntentGuardModule for all vaults, signers, configurations *)
(* and integer widths.                                                     *)
(***************************************************************************)
EXTENDS IntentGuardModule, FiniteSetTheorems, TLAPS

USE SortsAssumption, WidthsAssumption, InitArgsAssumption, BoundsAssumption

------------------------------------------------------------------------------
(* Types *)

\* The key of a proposal at a vault's current nonce is a proposal id.
LEMMA CurrentIdType ==
    ASSUME TypeOK, NEW v \in Vaults, NEW action \in Action
    PROVE  IdAtCurrentNonce(v, action) \in ProposalId
BY DEF TypeOK, IdAtCurrentNonce, ProposalId, VaultConfig

\* initializeVault stores a configuration of typed fields.
LEMMA InitializeVaultType ==
    ASSUME TypeOK, NEW v \in Vaults, NEW safe \in Safes, NEW a \in InitArgs,
           InitializeVault(v, safe, a)
    PROVE  TypeOK'
<1>1. a \in InitArg  OBVIOUS
<1>2. Range(a.signers) \subseteq Addresses
  <2>1. a.signers \in Seq(Addresses \cup {ZeroAddress})  BY <1>1 DEF InitArg
  <2>2. Range(a.signers) \subseteq Addresses \cup {ZeroAddress}
    BY <2>1 DEF Range
  <2>3. ZeroAddress \notin Range(a.signers)
    BY DEF InitializeVault, ValidSigners
  <2> QED BY <2>2, <2>3
<1>3. vaults' \in [Vaults -> VaultConfig]
  BY <1>1 DEF TypeOK, InitializeVault, VaultConfig, InitArg, Uint64
<1>4. isSigner' \in [Vaults -> SUBSET Addresses]
  BY <1>2 DEF TypeOK, InitializeVault
<1> QED BY <1>3, <1>4 DEF TypeOK, InitializeVault

\* setAdapter keeps the allowlist a set of <<target, adapter>> pairs.
LEMMA SetAdapterType ==
    ASSUME TypeOK, NEW caller \in Safes, NEW v \in Vaults, NEW target \in Targets,
           NEW adapter \in Adapters, NEW allowed \in BOOLEAN,
           SetAdapter(caller, v, target, adapter, allowed)
    PROVE  TypeOK'
<1>1. allowedAdapter' \in [Vaults -> SUBSET (Targets \X Adapters)]
  BY DEF TypeOK, SetAdapter
<1> QED BY <1>1 DEF TypeOK, SetAdapter

\* What queue leaves behind: one proposal changed, and how.
LEMMA QueueEffect ==
    ASSUME TypeOK, NEW v \in Vaults, NEW action \in Action, NEW expiresAt \in Uint64,
           NEW atts \in SUBSET Presentable, Queue(v, action, expiresAt, atts),
           NEW id, id = IdAtCurrentNonce(v, action)
    PROVE  /\ id \in ProposalId
           /\ proposals' \in [ProposalId -> Proposal]
           /\ proposals'[id].queuedAt = now
           /\ proposals'[id].expiresAt = expiresAt
           /\ proposals'[id].cancelCount = proposals[id].cancelCount
           /\ proposals'[id].state = "Queued"
           /\ \A x \in ProposalId : x # id => proposals'[x] = proposals[x]
<1>1. id \in ProposalId  BY CurrentIdType
<1> DEFINE stored == [proposals[id] EXCEPT !.queuedAt = now, !.expiresAt = expiresAt,
                                           !.state = "Queued"]
<1>2. proposals' = [proposals EXCEPT ![id] = stored]
  BY <1>1 DEF Queue, StoredProposal
<1>3. /\ stored \in Proposal
      /\ stored.queuedAt = now /\ stored.expiresAt = expiresAt
      /\ stored.cancelCount = proposals[id].cancelCount /\ stored.state = "Queued"
  <2>1. proposals[id] \in Proposal /\ now \in Uint64  BY <1>1 DEF TypeOK
  <2> QED BY <2>1 DEF Proposal
<1> HIDE DEF stored
<1> QED BY <1>1, <1>2, <1>3 DEF TypeOK

\* queue stores a typed proposal and nothing else.
LEMMA QueueType ==
    ASSUME TypeOK, NEW v \in Vaults, NEW action \in Action, NEW expiresAt \in Uint64,
           NEW atts \in SUBSET Presentable, Queue(v, action, expiresAt, atts)
    PROVE  TypeOK'
<1>1. proposals' \in [ProposalId -> Proposal]  BY QueueEffect
<1> QED BY <1>1 DEF TypeOK, Queue

\* cancel stays within uint8 or reverts.
LEMMA CancelType ==
    ASSUME TypeOK, NEW id \in ProposalId, NEW s \in Addresses, Cancel(id, s)
    PROVE  TypeOK'
<1>1. proposals[id].cancelCount + 1 \in Uint8
  BY DEF TypeOK, Cancel, Proposal, Uint8
<1>2. proposals' \in [ProposalId -> Proposal]
  BY ZenonT(40), <1>1 DEF TypeOK, Cancel, Proposal
<1>3. cancelledBy' \in [ProposalId -> SUBSET Addresses]
  BY DEF TypeOK, Cancel
<1> QED BY <1>2, <1>3 DEF TypeOK, Cancel

\* execute stays within uint64 or reverts, and calls the Safe with a payload.
LEMMA ExecuteType ==
    ASSUME TypeOK, NEW id \in ProposalId, NEW payload \in Payloads, Execute(id, payload)
    PROVE  TypeOK'
<1>1. id.vaultId \in Vaults  BY DEF ProposalId
<1>2. vaults[id.vaultId].nonce + 1 \in Uint64
  BY SMTT(30), <1>1 DEF TypeOK, Execute, VaultConfig, Uint64
<1>3. vaults' \in [Vaults -> VaultConfig]
  <2>1. vaults[id.vaultId] \in VaultConfig  BY <1>1 DEF TypeOK
  <2>2. [vaults[id.vaultId] EXCEPT !.nonce = @ + 1] \in VaultConfig
    BY <1>2, <2>1 DEF VaultConfig
  <2> QED BY <1>1, <2>2 DEF TypeOK, Execute
<1>4. proposals' \in [ProposalId -> Proposal]
  BY DEF TypeOK, Execute, Proposal
<1>5. safeCalls' \in [Vaults -> Seq(SafeCall)]
  <2>1. [id |-> id, payload |-> payload, at |-> now] \in SafeCall
    BY DEF TypeOK, SafeCall
  <2> QED BY <1>1, <2>1 DEF TypeOK, Execute
<1> QED BY <1>3, <1>4, <1>5 DEF TypeOK, Execute

\* What signers sign is bound to a proposal id.
LEMMA SignType ==
    ASSUME TypeOK, NEW s \in Addresses, NEW v \in Vaults, NEW action \in Action,
           NEW nonce \in Uint64, NEW signedAt \in Uint64, NEW ttl \in AttestationTTLs,
           Sign(s, v, action, nonce, signedAt, ttl)
    PROVE  TypeOK'
<1>1. signedAt + ttl \in Uint64  BY DEF Sign, Uint64
<1>2. signatures' \subseteq Signature
  BY <1>1 DEF TypeOK, Sign, Signature, ProposalId
<1> QED BY <1>2 DEF TypeOK, Sign, storage

\* Block time stays a uint64.
LEMMA TickType ==
    ASSUME TypeOK, Tick
    PROVE  TypeOK'
BY DEF TypeOK, Tick, storage, Uint64

\* Every value the contract stores keeps its type, whatever the widths.
THEOREM TypeCorrect == Spec => []TypeOK
<1>1. Init => TypeOK
  BY DEF Init, TypeOK, NoVault, NoProposal, VaultConfig, Proposal, Uint64, Uint8
<1>2. TypeOK /\ [Next]_vars => TypeOK'
  <2> SUFFICES ASSUME TypeOK, [Next]_vars PROVE TypeOK'
    OBVIOUS
  <2>1. CASE UNCHANGED vars
    BY <2>1 DEF TypeOK, vars
  <2>2. CASE Next
    BY <2>2, InitializeVaultType, SetAdapterType, QueueType, CancelType,
       ExecuteType, SignType, TickType DEF Next
  <2> QED BY <2>1, <2>2
<1> QED BY <1>1, <1>2, PTL DEF Spec

------------------------------------------------------------------------------
(* What the other calls leave behind *)

\* What cancel leaves behind: one more canceller and count, perhaps Cancelled.
LEMMA CancelEffect ==
    ASSUME TypeOK, NEW id \in ProposalId, NEW s \in Addresses, Cancel(id, s)
    PROVE  /\ proposals'[id].queuedAt = proposals[id].queuedAt
           /\ proposals'[id].expiresAt = proposals[id].expiresAt
           /\ proposals'[id].cancelCount = proposals[id].cancelCount + 1
           /\ proposals'[id].state =
                 IF proposals[id].cancelCount + 1 >= vaults[id.vaultId].vetoThreshold
                 THEN "Cancelled" ELSE "Queued"
           /\ \A x \in ProposalId : x # id => proposals'[x] = proposals[x]
           /\ cancelledBy'[id] = cancelledBy[id] \cup {s}
           /\ \A x \in ProposalId : x # id => cancelledBy'[x] = cancelledBy[x]
<1>1. proposals[id] \in Proposal  BY DEF TypeOK
<1> QED BY <1>1 DEF TypeOK, Cancel, Proposal, IsQueued

\* What execute leaves behind: one proposal Executed, the rest as it was.
LEMMA ExecuteEffect ==
    ASSUME TypeOK, NEW id \in ProposalId, NEW payload \in Payloads, Execute(id, payload)
    PROVE  /\ proposals'[id].queuedAt = proposals[id].queuedAt
           /\ proposals'[id].expiresAt = proposals[id].expiresAt
           /\ proposals'[id].cancelCount = proposals[id].cancelCount
           /\ proposals'[id].state = "Executed"
           /\ \A x \in ProposalId : x # id => proposals'[x] = proposals[x]
<1>1. proposals[id] \in Proposal  BY DEF TypeOK
<1> QED BY <1>1 DEF TypeOK, Execute, Proposal

\* Once initialised, a vault's configuration and signers never change: no
\* function but initializeVault writes them, and it runs once per vault.
LEMMA ConfigIsFrozen ==
    ASSUME TypeOK, [Next]_vars, NEW v \in Vaults, vaults[v].initialized
    PROVE  /\ vaults'[v] = [vaults[v] EXCEPT !.nonce = vaults'[v].nonce]
           /\ isSigner'[v] = isSigner[v]
<1>0. vaults[v] \in VaultConfig  BY DEF TypeOK
<1> DEFINE Frozen == /\ vaults'[v] = [vaults[v] EXCEPT !.nonce = vaults'[v].nonce]
                     /\ isSigner'[v] = isSigner[v]
<1>1. vaults' = vaults /\ isSigner' = isSigner => Frozen
  BY <1>0 DEF VaultConfig
<1>2. ASSUME NEW w \in Vaults, NEW safe \in Safes, NEW a \in InitArgs,
             InitializeVault(w, safe, a)
      PROVE  Frozen
  <2>1. w # v  BY <1>2 DEF InitializeVault
  <2>2. vaults'[v] = vaults[v] /\ isSigner'[v] = isSigner[v]
    BY <1>2, <2>1 DEF InitializeVault, TypeOK
  <2> QED BY <1>0, <2>2 DEF VaultConfig
<1>3. ASSUME NEW id \in ProposalId, NEW payload \in Payloads, Execute(id, payload)
      PROVE  Frozen
  <2>1. isSigner' = isSigner  BY <1>3 DEF Execute
  <2>2. CASE id.vaultId = v
    <3>1. vaults'[v] = [vaults[v] EXCEPT !.nonce = @ + 1]
      BY <1>3, <2>2 DEF Execute, TypeOK
    <3> QED BY <1>0, <2>1, <3>1 DEF VaultConfig
  <2>3. CASE id.vaultId # v
    <3>1. vaults'[v] = vaults[v]  BY <1>3, <2>3 DEF Execute, TypeOK
    <3> QED BY <1>0, <2>1, <3>1 DEF VaultConfig
  <2> QED BY <2>2, <2>3
<1> QED BY <1>1, <1>2, <1>3
       DEF Next, vars, storage, SetAdapter, Queue, Cancel, Sign, Tick

------------------------------------------------------------------------------
(* Vaults and proposals are well-formed records *)

\* The loop that marks signers marks as many as the array is long.
LEMMA DistinctSigners ==
    ASSUME NEW S, NEW signers \in Seq(S), IsInjective(signers)
    PROVE  /\ IsFiniteSet(Range(signers))
           /\ Cardinality(Range(signers)) = Len(signers)
<1> DEFINE n == Len(signers)
<1>1. n \in Nat /\ DOMAIN signers = 1..n  OBVIOUS
<1>2. signers \in Bijection(1..n, Range(signers))
  BY <1>1 DEF Bijection, Injection, Surjection, IsInjective, Range
<1>3. IsFiniteSet(1..n) /\ Cardinality(1..n) = n
  <2> HIDE DEF n
  <2>1. /\ IsFiniteSet(1..n)
        /\ Cardinality(1..n) = IF 1 > n THEN 0 ELSE n - 1 + 1
    BY <1>1, FS_Interval
  <2> QED BY <1>1, <2>1
<1> QED BY <1>2, <1>3, FS_Bijection DEF ExistsBijection

\* A configuration that passed every check of initializeVault is well formed.
LEMMA InitializeVaultRecords ==
    ASSUME Records, NEW v \in Vaults, NEW safe \in Safes, NEW a \in InitArgs,
           InitializeVault(v, safe, a)
    PROVE  VaultRecords'
<1>1. a \in InitArg  OBVIOUS
<1>2. /\ IsFiniteSet(Range(a.signers))
      /\ Cardinality(Range(a.signers)) = Len(a.signers)
  BY <1>1, DistinctSigners DEF InitializeVault, ValidSigners, InitArg
<1>3. isSigner'[v] = Range(a.signers)
  BY DEF InitializeVault, Records, VaultRecords, TypeOK
<1>4. vaults'[v].initialized
      /\ vaults'[v].cooloffSecs + vaults'[v].executeDelaySecs
            <= vaults'[v].minProposalLifetimeSecs
      /\ vaults'[v].threshold # 0 /\ vaults'[v].vetoThreshold # 0
      /\ vaults'[v].threshold <= Len(a.signers)
      /\ vaults'[v].vetoThreshold <= Len(a.signers)
  BY <1>1 DEF InitializeVault, ValidWindows, ValidThresholds, Records, TypeOK, InitArg, Uint64
<1>5. \A w \in Vaults : w # v => vaults'[w] = vaults[w] /\ isSigner'[w] = isSigner[w]
  BY DEF InitializeVault, Records, TypeOK
<1> QED BY <1>2, <1>3, <1>4, <1>5 DEF Records, VaultRecords

\* execute leaves configurations alone but for the nonce.
LEMMA ExecuteRecords ==
    ASSUME Records, NEW id \in ProposalId, NEW payload \in Payloads, Execute(id, payload)
    PROVE  VaultRecords'
<1>1. id.vaultId \in Vaults  BY DEF ProposalId
<1>2. vaults[id.vaultId].initialized
  BY DEF Records, ProposalRecords, Execute, IsQueued
<1>3. /\ isSigner' = isSigner
      /\ \A w \in Vaults : w # id.vaultId => vaults'[w] = vaults[w]
      /\ vaults'[id.vaultId] = [vaults[id.vaultId] EXCEPT !.nonce = @ + 1]
  BY <1>1 DEF Execute, Records, TypeOK
<1>4. vaults[id.vaultId] \in VaultConfig  BY <1>1 DEF Records, TypeOK
<1>5. vaults'[id.vaultId].initialized
      /\ vaults'[id.vaultId].cooloffSecs = vaults[id.vaultId].cooloffSecs
      /\ vaults'[id.vaultId].executeDelaySecs = vaults[id.vaultId].executeDelaySecs
      /\ vaults'[id.vaultId].minProposalLifetimeSecs = vaults[id.vaultId].minProposalLifetimeSecs
      /\ vaults'[id.vaultId].threshold = vaults[id.vaultId].threshold
      /\ vaults'[id.vaultId].vetoThreshold = vaults[id.vaultId].vetoThreshold
  BY <1>2, <1>3, <1>4 DEF VaultConfig
<1> SUFFICES ASSUME NEW v \in Vaults PROVE VaultRecords!(v)'
  BY DEF VaultRecords
<1>6. CASE v = id.vaultId
  BY ZenonT(40), <1>2, <1>3, <1>5, <1>6 DEF Records, VaultRecords
<1>7. CASE v # id.vaultId
  BY <1>3, <1>7 DEF Records, VaultRecords
<1> QED BY <1>6, <1>7

\* Proposals are created for initialised vaults only, and a vault stays initialised.
LEMMA ProposalRecordsStep ==
    ASSUME Records, [Next]_vars, TypeOK'
    PROVE  ProposalRecords'
<1> SUFFICES ASSUME NEW x \in ProposalId, proposals'[x].state # "None"
             PROVE  vaults'[x.vaultId].initialized
  BY DEF ProposalRecords
<1>1. x.vaultId \in Vaults  BY DEF ProposalId
<1>2. CASE vaults[x.vaultId].initialized
  <2>1. vaults[x.vaultId] \in VaultConfig  BY <1>1 DEF Records, TypeOK
  <2> QED BY <1>1, <1>2, <2>1, ConfigIsFrozen DEF Records, VaultConfig
<1>3. CASE ~vaults[x.vaultId].initialized
  <2>1. proposals[x].state = "None"  BY <1>3 DEF Records, ProposalRecords
  <2>2. proposals'[x] # proposals[x]  BY <2>1
  <2>3. PICK v \in Vaults, action \in Action, expiresAt \in Uint64,
             atts \in SUBSET Presentable : Queue(v, action, expiresAt, atts)
    <3>1. ASSUME NEW id \in ProposalId, NEW s \in Addresses, Cancel(id, s)
          PROVE  FALSE
      BY <2>1, <2>2, <3>1, CancelEffect DEF Records, Cancel, IsQueued
    <3>2. ASSUME NEW id \in ProposalId, NEW payload \in Payloads, Execute(id, payload)
          PROVE  FALSE
      BY <2>1, <2>2, <3>2, ExecuteEffect DEF Records, Execute, IsQueued
    <3> QED BY <2>2, <3>1, <3>2
            DEF Next, vars, storage, InitializeVault, SetAdapter, Sign, Tick
  <2>4. x = IdAtCurrentNonce(v, action)
    BY <2>2, <2>3, QueueEffect DEF Records
  <2>5. x.vaultId = v  BY <2>4 DEF IdAtCurrentNonce
  <2> QED BY <1>3, <2>3, <2>5 DEF Queue
<1> QED BY <1>2, <1>3

\* Stored configurations respect initializeVault's checks for ever, and there is
\* no proposal of a vault that was not initialised.
THEOREM RecordsHold == Spec => []Records
<1>1. Init => VaultRecords /\ ProposalRecords
  BY FS_EmptySet DEF Init, VaultRecords, ProposalRecords, NoVault, NoProposal, ProposalId
<1>2. Records /\ TypeOK' /\ [Next]_vars => Records'
  <2> SUFFICES ASSUME Records, TypeOK', [Next]_vars PROVE VaultRecords'
    BY ProposalRecordsStep DEF Records
  <2>1. vaults' = vaults /\ isSigner' = isSigner => VaultRecords'
    BY DEF Records, VaultRecords
  <2> QED BY <2>1, InitializeVaultRecords, ExecuteRecords
          DEF Next, vars, storage, SetAdapter, Queue, Cancel, Sign, Tick
<1> QED BY <1>1, <1>2, TypeCorrect, PTL DEF Spec, Records

------------------------------------------------------------------------------
(* Every proposal can still be executed *)

\* The fields of a vault that time guards read, for a proposal that exists.
LEMMA StoredConfigIsFrozen ==
    ASSUME Records, [Next]_vars, NEW id \in ProposalId, proposals[id].state # "None"
    PROVE  /\ id.vaultId \in Vaults
           /\ vaults[id.vaultId] \in VaultConfig
           /\ vaults[id.vaultId].initialized
           /\ vaults'[id.vaultId].initialized
           /\ vaults'[id.vaultId].freshWindowSecs = vaults[id.vaultId].freshWindowSecs
           /\ vaults'[id.vaultId].cooloffSecs = vaults[id.vaultId].cooloffSecs
           /\ vaults'[id.vaultId].executeDelaySecs = vaults[id.vaultId].executeDelaySecs
           /\ vaults'[id.vaultId].threshold = vaults[id.vaultId].threshold
           /\ vaults'[id.vaultId].vetoThreshold = vaults[id.vaultId].vetoThreshold
           /\ isSigner'[id.vaultId] = isSigner[id.vaultId]
<1>1. id.vaultId \in Vaults  BY DEF ProposalId
<1>2. vaults[id.vaultId] \in VaultConfig /\ vaults[id.vaultId].initialized
  BY <1>1 DEF Records, TypeOK, ProposalRecords
<1>3. /\ vaults'[id.vaultId] = [vaults[id.vaultId] EXCEPT !.nonce = vaults'[id.vaultId].nonce]
      /\ isSigner'[id.vaultId] = isSigner[id.vaultId]
  BY <1>1, <1>2, ConfigIsFrozen DEF Records
<1> QED BY <1>1, <1>2, <1>3 DEF VaultConfig

\* A step either leaves an existing proposal's times and backing alone, or it is
\* the queue call that created it.
LEMMA ProposalStep ==
    ASSUME Records, [Next]_vars, NEW id \in ProposalId
    PROVE  \/ /\ proposals[id].state # "None"
              /\ proposals'[id].state # "None"
              /\ proposals'[id].queuedAt = proposals[id].queuedAt
              /\ proposals'[id].expiresAt = proposals[id].expiresAt
           \/ proposals'[id] = proposals[id]
           \/ /\ proposals[id].state = "None"
              /\ proposals'[id].state = "Queued"
              /\ \E v \in Vaults, action \in Action, expiresAt \in Uint64,
                    atts \in SUBSET Presentable :
                   /\ Queue(v, action, expiresAt, atts)
                   /\ id = IdAtCurrentNonce(v, action)
<1> DEFINE Conclusion ==
      \/ /\ proposals[id].state # "None"
         /\ proposals'[id].state # "None"
         /\ proposals'[id].queuedAt = proposals[id].queuedAt
         /\ proposals'[id].expiresAt = proposals[id].expiresAt
      \/ proposals'[id] = proposals[id]
      \/ /\ proposals[id].state = "None"
         /\ proposals'[id].state = "Queued"
         /\ \E v \in Vaults, action \in Action, expiresAt \in Uint64,
               atts \in SUBSET Presentable :
              /\ Queue(v, action, expiresAt, atts)
              /\ id = IdAtCurrentNonce(v, action)
<1>1. ASSUME NEW v \in Vaults, NEW action \in Action, NEW expiresAt \in Uint64,
             NEW atts \in SUBSET Presentable, Queue(v, action, expiresAt, atts)
      PROVE  Conclusion
  <2>1. CASE id = IdAtCurrentNonce(v, action)
    BY ZenonT(40), <1>1, <2>1, QueueEffect DEF Records, Queue, Unused
  <2>2. CASE id # IdAtCurrentNonce(v, action)
    <3>1. proposals'[id] = proposals[id]  BY <1>1, <2>2, QueueEffect DEF Records
    <3> QED BY <3>1
  <2> QED BY <2>1, <2>2
<1>2. ASSUME NEW x \in ProposalId, NEW s \in Addresses, Cancel(x, s)
      PROVE  Conclusion
  <2>1. TypeOK  BY DEF Records
  <2>2. CASE x = id
    <3>1. proposals[id].state = "Queued"  BY <1>2, <2>2 DEF Cancel, IsQueued
    <3>2. /\ proposals'[id].queuedAt = proposals[id].queuedAt
          /\ proposals'[id].expiresAt = proposals[id].expiresAt
          /\ proposals'[id].state \in {"Cancelled", "Queued"}
      BY <1>2, <2>1, <2>2, CancelEffect
    <3> QED BY <3>1, <3>2
  <2>3. CASE x # id
    <3>1. proposals'[id] = proposals[id]  BY <1>2, <2>1, <2>3, CancelEffect
    <3> QED BY <3>1
  <2> QED BY <2>2, <2>3
<1>3. ASSUME NEW x \in ProposalId, NEW payload \in Payloads, Execute(x, payload)
      PROVE  Conclusion
  <2>1. TypeOK  BY DEF Records
  <2>2. CASE x = id
    <3>1. proposals[id].state = "Queued"  BY <1>3, <2>2 DEF Execute, IsQueued
    <3>2. /\ proposals'[id].queuedAt = proposals[id].queuedAt
          /\ proposals'[id].expiresAt = proposals[id].expiresAt
          /\ proposals'[id].state = "Executed"
      BY <1>3, <2>1, <2>2, ExecuteEffect
    <3> QED BY <3>1, <3>2
  <2>3. CASE x # id
    <3>1. proposals'[id] = proposals[id]  BY <1>3, <2>1, <2>3, ExecuteEffect
    <3> QED BY <3>1
  <2> QED BY <2>2, <2>3
<1>4. proposals' = proposals => Conclusion
  OBVIOUS
<1> HIDE DEF Conclusion
<1>5. Conclusion
  BY <1>1, <1>2, <1>3, <1>4
     DEF Next, vars, storage, InitializeVault, SetAdapter, Sign, Tick
<1> QED BY <1>5 DEF Conclusion

\* A configuration that initializeVault accepts and an expiry that queue accepts
\* leave every proposal a moment between its delays and its expiry.
THEOREM WindowStaysOpen == Spec => []ExecutionWindowIsOpen
<1>1. Init => ExecutionWindowIsOpen
  BY DEF Init, ExecutionWindowIsOpen, NoProposal
<1>2. Records /\ Records' /\ ExecutionWindowIsOpen /\ [Next]_vars => ExecutionWindowIsOpen'
  <2> SUFFICES ASSUME Records, Records', ExecutionWindowIsOpen, [Next]_vars,
                      NEW id \in ProposalId, proposals'[id].state # "None"
               PROVE  ExecutionWindowIsOpen!(id)!2'
    BY DEF ExecutionWindowIsOpen
  <2>1. now' >= now /\ now \in Nat /\ now' \in Nat
    <3>1. now \in Nat /\ now' \in Nat  BY DEF Records, TypeOK, Uint64
    <3>2. now' = now \/ now' = now + 1
      BY ZenonT(40) DEF Next, vars, storage, InitializeVault, SetAdapter, Queue, Cancel, Execute,
             Sign, Tick
    <3> QED BY <3>1, <3>2
  <2>2. CASE proposals[id].state # "None"
    <3>1. /\ proposals'[id].queuedAt = proposals[id].queuedAt
          /\ proposals'[id].expiresAt = proposals[id].expiresAt
      BY <2>2, ProposalStep
    <3>2. /\ vaults'[id.vaultId].cooloffSecs = vaults[id.vaultId].cooloffSecs
          /\ vaults'[id.vaultId].executeDelaySecs = vaults[id.vaultId].executeDelaySecs
      BY <2>2, StoredConfigIsFrozen
    <3>3. proposals[id].queuedAt \in Nat
      BY DEF Records, TypeOK, Proposal, Uint64
    <3> QED BY <2>1, <2>2, <3>1, <3>2, <3>3 DEF ExecutionWindowIsOpen, ExecuteAfter
  <2>3. CASE proposals[id].state = "None"
    <3>1. PICK v \in Vaults, action \in Action, expiresAt \in Uint64,
               atts \in SUBSET Presentable :
                 Queue(v, action, expiresAt, atts) /\ id = IdAtCurrentNonce(v, action)
      BY <2>3, ProposalStep
    <3>2. proposals'[id].queuedAt = now /\ proposals'[id].expiresAt = expiresAt
      BY <3>1, QueueEffect DEF Records
    <3>3. id.vaultId = v  BY <3>1 DEF IdAtCurrentNonce
    <3>4. vaults' = vaults /\ now' = now /\ vaults[v].initialized
          /\ expiresAt >= now + vaults[v].minProposalLifetimeSecs
      BY <3>1 DEF Queue
    <3>5. vaults[v] \in VaultConfig  BY DEF Records, TypeOK
    <3>6. vaults[v].cooloffSecs + vaults[v].executeDelaySecs
            <= vaults[v].minProposalLifetimeSecs
      BY <3>4 DEF Records, VaultRecords
    <3> QED BY <2>1, <3>2, <3>3, <3>4, <3>5, <3>6 DEF ExecuteAfter, VaultConfig, Uint64
  <2> QED BY <2>2, <2>3
<1> QED BY <1>1, <1>2, RecordsHold, PTL DEF Spec

------------------------------------------------------------------------------
(* Vetoes *)

\* cancel adds one signer who was not counted yet, and one to the count.
LEMMA CancelCounts ==
    ASSUME Records, VetoCountsDistinctSigners, NEW x \in ProposalId, NEW s \in Addresses,
           Cancel(x, s), NEW id \in ProposalId
    PROVE  VetoCountsDistinctSigners!(id)'
<1>1. vaults' = vaults /\ isSigner' = isSigner  BY DEF Cancel
<1>2. CASE x # id
  BY <1>1, <1>2, CancelEffect DEF Records, VetoCountsDistinctSigners
<1>3. CASE x = id
  <2>1. id.vaultId \in Vaults /\ s \in isSigner[id.vaultId] /\ s \notin cancelledBy[id]
        /\ proposals[id].state = "Queued"
    BY <1>3 DEF Cancel, MayCancel, IsQueued, ProposalId
  <2>2. IsFiniteSet(cancelledBy[id])
    BY <2>1, FS_Subset DEF Records, VaultRecords, VetoCountsDistinctSigners
  <2>3. Cardinality(cancelledBy[id] \cup {s}) = Cardinality(cancelledBy[id]) + 1
    BY <2>1, <2>2, FS_AddElement
  <2>4. /\ proposals'[id].cancelCount = proposals[id].cancelCount + 1
        /\ cancelledBy'[id] = cancelledBy[id] \cup {s}
        /\ proposals'[id].state =
             IF proposals[id].cancelCount + 1 >= vaults[id.vaultId].vetoThreshold
             THEN "Cancelled" ELSE "Queued"
    BY <1>3, CancelEffect DEF Records
  <2>5. vaults[id.vaultId].initialized
    BY <2>1 DEF Records, ProposalRecords
  <2> QED BY <1>1, <2>1, <2>3, <2>4, <2>5 DEF VetoCountsDistinctSigners
<1> QED BY <1>2, <1>3

\* initializeVault finds no proposal of its vault, so no count to disturb.
LEMMA InitializeVaultCounts ==
    ASSUME Records, Records', VetoCountsDistinctSigners, NEW v \in Vaults,
           NEW safe \in Safes, NEW a \in InitArgs, InitializeVault(v, safe, a),
           NEW id \in ProposalId
    PROVE  VetoCountsDistinctSigners!(id)'
<1>1. /\ proposals' = proposals /\ cancelledBy' = cancelledBy
      /\ \A w \in Vaults : w # v => vaults'[w] = vaults[w] /\ isSigner'[w] = isSigner[w]
  BY DEF InitializeVault, Records, TypeOK
<1>2. id.vaultId \in Vaults  BY DEF ProposalId
<1>3. CASE id.vaultId # v
  BY <1>1, <1>2, <1>3 DEF VetoCountsDistinctSigners
<1>4. CASE id.vaultId = v
  <2>1. isSigner[v] = {} /\ proposals[id].state = "None"
    BY <1>4 DEF InitializeVault, Records, VaultRecords, ProposalRecords
  <2>2. cancelledBy[id] = {} /\ proposals[id].cancelCount = 0
    BY <1>4, <2>1, FS_EmptySet DEF VetoCountsDistinctSigners
  <2>3. vaults'[v].initialized  BY DEF InitializeVault, Records, TypeOK
  <2>4. vaults'[v].vetoThreshold # 0 /\ vaults'[v].vetoThreshold \in Nat
    BY <2>3 DEF Records, VaultRecords, TypeOK, VaultConfig, Uint8
  <2> QED BY <1>1, <1>4, <2>1, <2>2, <2>4, FS_EmptySet DEF VetoCountsDistinctSigners
<1> QED BY <1>3, <1>4

\* A proposal is queued with no canceller and count zero.
LEMMA QueueCounts ==
    ASSUME Records, VetoCountsDistinctSigners, NEW v \in Vaults, NEW action \in Action,
           NEW expiresAt \in Uint64, NEW atts \in SUBSET Presentable,
           Queue(v, action, expiresAt, atts), NEW id \in ProposalId
    PROVE  VetoCountsDistinctSigners!(id)'
<1>1. vaults' = vaults /\ isSigner' = isSigner /\ cancelledBy' = cancelledBy
  BY DEF Queue
<1>2. CASE id # IdAtCurrentNonce(v, action)
  <2>1. proposals'[id] = proposals[id]  BY <1>2, QueueEffect DEF Records
  <2> QED BY <1>1, <2>1 DEF VetoCountsDistinctSigners
<1>3. CASE id = IdAtCurrentNonce(v, action)
  <2>1. /\ proposals'[id].cancelCount = proposals[id].cancelCount
        /\ proposals'[id].state = "Queued"
    BY <1>3, QueueEffect DEF Records
  <2>2. proposals[id].state = "None"  BY <1>3 DEF Queue, Unused
  <2> QED BY <1>1, <2>1, <2>2 DEF VetoCountsDistinctSigners
<1> QED BY <1>2, <1>3

\* execute changes no count, and what it settles was below the veto threshold.
LEMMA ExecuteCounts ==
    ASSUME Records, Records', [Next]_vars, VetoCountsDistinctSigners, NEW x \in ProposalId,
           NEW payload \in Payloads, Execute(x, payload), NEW id \in ProposalId
    PROVE  VetoCountsDistinctSigners!(id)'
<1>1. isSigner' = isSigner /\ cancelledBy' = cancelledBy  BY DEF Execute
<1>2. id.vaultId \in Vaults /\ vaults[x.vaultId] \in VaultConfig /\ x.vaultId \in Vaults
  BY DEF ProposalId, Records, TypeOK
<1>3. /\ vaults'[id.vaultId].initialized = vaults[id.vaultId].initialized
      /\ vaults'[id.vaultId].vetoThreshold = vaults[id.vaultId].vetoThreshold
  <2>1. vaults' = [vaults EXCEPT ![x.vaultId].nonce = @ + 1]  BY DEF Execute
  <2>2. CASE id.vaultId # x.vaultId
    BY <1>2, <2>1, <2>2 DEF Records, TypeOK
  <2>3. CASE id.vaultId = x.vaultId
    <3>1. vaults'[x.vaultId] = [vaults[x.vaultId] EXCEPT !.nonce = @ + 1]
      BY <1>2, <2>1 DEF Records, TypeOK
    <3> QED BY <1>2, <2>3, <3>1 DEF VaultConfig
  <2> QED BY <2>2, <2>3
<1>4. CASE x # id
  <2>1. proposals'[id] = proposals[id]  BY <1>4, ExecuteEffect DEF Records
  <2> QED BY <1>1, <1>3, <2>1 DEF VetoCountsDistinctSigners
<1>5. CASE x = id
  <2>1. /\ proposals'[id].cancelCount = proposals[id].cancelCount
        /\ proposals'[id].state = "Executed"
    BY <1>5, ExecuteEffect DEF Records
  <2>2. proposals[id].state = "Queued"  BY <1>5 DEF Execute, IsQueued
  <2> QED BY <1>1, <1>3, <2>1, <2>2 DEF VetoCountsDistinctSigners
<1> QED BY <1>4, <1>5

\* cancelCount never counts a signer twice or an outsider, and Cancelled means
\* exactly that vetoThreshold distinct signers said so.
THEOREM VetoesAreCounted == Spec => []VetoCountsDistinctSigners
<1>1. Init => VetoCountsDistinctSigners
  BY FS_EmptySet DEF Init, VetoCountsDistinctSigners, NoProposal, NoVault, ProposalId
<1>2. Records /\ Records' /\ VetoCountsDistinctSigners /\ [Next]_vars
        => VetoCountsDistinctSigners'
  <2> SUFFICES ASSUME Records, Records', VetoCountsDistinctSigners, [Next]_vars,
                      NEW id \in ProposalId
               PROVE  VetoCountsDistinctSigners!(id)'
    BY DEF VetoCountsDistinctSigners
  <2>1. ASSUME proposals' = proposals, cancelledBy' = cancelledBy,
               isSigner' = isSigner, vaults' = vaults
        PROVE  VetoCountsDistinctSigners!(id)'
    BY <2>1 DEF VetoCountsDistinctSigners
  <2> QED BY <2>1, CancelCounts, InitializeVaultCounts, QueueCounts, ExecuteCounts
          DEF Next, vars, storage, SetAdapter, Sign, Tick
<1> QED BY <1>1, <1>2, RecordsHold, PTL DEF Spec

\* A queued proposal can always still be vetoed by the signers who have not spoken.
THEOREM VetoIsReachable == Spec => []VetoStaysInReach
<1>1. Records /\ VetoCountsDistinctSigners => VetoStaysInReach
  <2> SUFFICES ASSUME Records, VetoCountsDistinctSigners,
                      NEW id \in ProposalId, proposals[id].state = "Queued"
               PROVE  VetoStaysInReach!(id)!2
    BY DEF VetoStaysInReach
  <2> DEFINE all == isSigner[id.vaultId]
             done == cancelledBy[id]
  <2>1. id.vaultId \in Vaults /\ vaults[id.vaultId].initialized
    BY DEF Records, ProposalRecords, ProposalId
  <2>2. IsFiniteSet(all) /\ vaults[id.vaultId].vetoThreshold <= Cardinality(all)
    BY <2>1 DEF Records, VaultRecords
  <2>3. done \subseteq all /\ proposals[id].cancelCount = Cardinality(done)
    BY DEF VetoCountsDistinctSigners
  <2>4. Cardinality(all \ done) = Cardinality(all) - Cardinality(all \cap done)
    <3> HIDE DEF all, done
    <3>1. IsFiniteSet(done)  BY <2>2, <2>3, FS_Subset
    <3> QED BY <2>2, <3>1, FS_Difference
  <2>5. all \cap done = done  BY <2>3
  <2>6. Cardinality(all) \in Nat /\ Cardinality(done) \in Nat
    <3> HIDE DEF all, done
    <3>1. IsFiniteSet(done)  BY <2>2, <2>3, FS_Subset
    <3> QED BY <2>2, <3>1, FS_CardinalityType
  <2>7. vaults[id.vaultId].vetoThreshold \in Nat
    BY <2>1 DEF Records, TypeOK, VaultConfig, Uint8
  <2>8. Cardinality(all \ done) = Cardinality(all) - Cardinality(done)
    BY <2>4, <2>5
  <2> HIDE DEF all, done
  <2>9. Cardinality(all \ done) + Cardinality(done) = Cardinality(all)
    BY <2>6, <2>8
  <2>10. Cardinality(all \ done) + Cardinality(done) >= vaults[id.vaultId].vetoThreshold
    BY <2>2, <2>6, <2>7, <2>9
  <2> QED BY <2>3, <2>10 DEF all, done
<1> QED BY <1>1, RecordsHold, VetoesAreCounted, PTL

------------------------------------------------------------------------------
(* One call per nonce *)

\* Only execute touches the Safe, a nonce, or what is Executed.
LEMMA OnlyExecuteExecutes ==
    ASSUME Records, [Next]_vars,
           ~ \E id \in ProposalId, payload \in Payloads : Execute(id, payload)
    PROVE  /\ safeCalls' = safeCalls
           /\ \A v \in Vaults : vaults'[v].nonce = vaults[v].nonce
           /\ \A id \in ProposalId :
                proposals'[id].state = "Executed" <=> proposals[id].state = "Executed"
<1>1. safeCalls' = safeCalls
  BY ZenonT(40) DEF Next, vars, storage, InitializeVault, SetAdapter, Queue, Cancel, Sign, Tick
<1>2. ASSUME NEW v \in Vaults PROVE vaults'[v].nonce = vaults[v].nonce
  <2>1. ASSUME NEW w \in Vaults, NEW safe \in Safes, NEW a \in InitArgs,
               InitializeVault(w, safe, a)
        PROVE  vaults'[v].nonce = vaults[v].nonce
    BY <1>2, <2>1 DEF InitializeVault, Records, VaultRecords, TypeOK
  <2> QED BY ZenonT(40), <1>2, <2>1 DEF Next, vars, storage, SetAdapter, Queue, Cancel, Sign, Tick
<1>3. ASSUME NEW id \in ProposalId
      PROVE  proposals'[id].state = "Executed" <=> proposals[id].state = "Executed"
  <2>1. ASSUME NEW v \in Vaults, NEW action \in Action, NEW expiresAt \in Uint64,
               NEW atts \in SUBSET Presentable, Queue(v, action, expiresAt, atts)
        PROVE  proposals'[id].state = "Executed" <=> proposals[id].state = "Executed"
    <3>1. proposals[IdAtCurrentNonce(v, action)].state = "None"
      BY <2>1 DEF Queue, Unused
    <3> QED BY <2>1, <3>1, QueueEffect DEF Records
  <2>2. ASSUME NEW x \in ProposalId, NEW s \in Addresses, Cancel(x, s)
        PROVE  proposals'[id].state = "Executed" <=> proposals[id].state = "Executed"
    <3>1. proposals[x].state = "Queued"  BY <2>2 DEF Cancel, IsQueued
    <3> QED BY <2>2, <3>1, CancelEffect DEF Records
  <2> QED BY <2>1, <2>2 DEF Next, vars, storage, InitializeVault, SetAdapter, Sign, Tick
<1> QED BY <1>1, <1>2, <1>3

\* execute appends the call of the current nonce and moves the nonce past it.
LEMMA ExecuteIsSerial ==
    ASSUME Records, CallsAreSerial, NEW x \in ProposalId, NEW payload \in Payloads,
           Execute(x, payload), NEW v \in Vaults
    PROVE  CallsAreSerial!(v)'
<1> DEFINE call == [id |-> x, payload |-> payload, at |-> now]
<1>1. x.vaultId \in Vaults /\ vaults[v] \in VaultConfig /\ safeCalls[v] \in Seq(SafeCall)
  BY DEF ProposalId, Records, TypeOK
<1>2. /\ proposals[x].state = "Queued" /\ proposals'[x].state = "Executed"
      /\ \A id \in ProposalId : id # x => proposals'[id] = proposals[id]
  BY ExecuteEffect DEF Execute, IsQueued, Records
<1>3. CASE v # x.vaultId
  <2>1. vaults'[v] = vaults[v] /\ safeCalls'[v] = safeCalls[v]
    BY <1>3 DEF Execute, Records, TypeOK
  <2> QED BY <1>2, <1>3, <2>1 DEF CallsAreSerial
<1>4. CASE v = x.vaultId
  <2>1. vaults'[v].nonce = vaults[v].nonce + 1
    <3>1. vaults'[v] = [vaults[v] EXCEPT !.nonce = @ + 1]
      BY <1>4 DEF Execute, Records, TypeOK
    <3> QED BY <1>1, <3>1 DEF VaultConfig
  <2>2. safeCalls'[v] = Append(safeCalls[v], call)
    BY <1>4 DEF Execute, Records, TypeOK
  <2>3. x.nonce = vaults[v].nonce  BY <1>4 DEF Execute, NonceMatches
  <2> DEFINE n == Len(safeCalls[v])
  <2>4. n \in Nat /\ n = vaults[v].nonce /\ DOMAIN safeCalls[v] = 1..n
    BY <1>1 DEF CallsAreSerial
  <2>5. /\ Len(safeCalls'[v]) = n + 1
        /\ DOMAIN safeCalls'[v] = 1..(n + 1)
        /\ \A i \in 1..n : safeCalls'[v][i] = safeCalls[v][i]
        /\ safeCalls'[v][n + 1] = call
    <3> HIDE DEF call
    <3> QED BY <1>1, <2>2
  <2>6. call.id = x  OBVIOUS
  <2> HIDE DEF call, n
  <2>7. Len(safeCalls'[v]) = vaults'[v].nonce
    BY <2>1, <2>4, <2>5
  <2>8. \A i \in DOMAIN safeCalls'[v] :
          safeCalls'[v][i].id.vaultId = v /\ safeCalls'[v][i].id.nonce = i - 1
    <3> SUFFICES ASSUME NEW i \in 1..(n + 1)
                 PROVE  safeCalls'[v][i].id.vaultId = v /\ safeCalls'[v][i].id.nonce = i - 1
      BY <2>5
    <3>1. CASE i \in 1..n
      <4>1. safeCalls[v][i].id.vaultId = v /\ safeCalls[v][i].id.nonce = i - 1
        BY <2>4, <3>1 DEF CallsAreSerial
      <4>2. safeCalls'[v][i] = safeCalls[v][i]  BY <2>5, <3>1
      <4> QED BY <4>1, <4>2
    <3>2. CASE i = n + 1
      BY SMTT(30), <1>4, <2>3, <2>4, <2>5, <2>6, <3>2
    <3> QED BY <2>4, <3>1, <3>2
  <2>9. ASSUME NEW id \in ProposalId, id.vaultId = v
        PROVE  proposals'[id].state = "Executed"
                 <=> \E i \in DOMAIN safeCalls'[v] : safeCalls'[v][i].id = id
    <3>1. CASE id = x
      <4>1. n + 1 \in DOMAIN safeCalls'[v]  BY <2>4, <2>5
      <4> QED BY <1>2, <2>5, <2>6, <3>1, <4>1
    <3>2. CASE id # x
      <4>1. proposals[id].state = "Executed"
              <=> \E i \in 1..n : safeCalls[v][i].id = id
        BY <2>4, <2>9 DEF CallsAreSerial
      <4>2. (\E i \in 1..(n + 1) : safeCalls'[v][i].id = id)
              <=> \E i \in 1..n : safeCalls[v][i].id = id
        <5>1. 1..(n + 1) = (1..n) \cup {n + 1}  BY <2>4
        <5> QED BY <2>5, <2>6, <3>2, <5>1
      <4> QED BY <1>2, <2>5, <3>2, <4>1, <4>2
    <3> QED BY <3>1, <3>2
  <2> QED BY <2>7, <2>8, <2>9
<1> QED BY <1>3, <1>4

\* Each vault executes exactly one proposal per nonce, in nonce order.
THEOREM CallsStaySerial == Spec => []CallsAreSerial
<1>1. Init => CallsAreSerial
  BY DEF Init, CallsAreSerial, NoVault, NoProposal
<1>2. Records /\ CallsAreSerial /\ [Next]_vars => CallsAreSerial'
  <2> SUFFICES ASSUME Records, CallsAreSerial, [Next]_vars, NEW v \in Vaults
               PROVE  CallsAreSerial!(v)'
    BY DEF CallsAreSerial
  <2>1. CASE \E id \in ProposalId, payload \in Payloads : Execute(id, payload)
    BY <2>1, ExecuteIsSerial
  <2>2. CASE ~ \E id \in ProposalId, payload \in Payloads : Execute(id, payload)
    BY <2>2, OnlyExecuteExecutes DEF CallsAreSerial
  <2> QED BY <2>1, <2>2
<1> QED BY <1>1, <1>2, RecordsHold, PTL DEF Spec

------------------------------------------------------------------------------
(* A fresh quorum behind every proposal *)

\* The final spread check of _verifyAttestations never rejects: attestations that
\* are each inside the freshness window are within that window of each other.
LEMMA SpreadFollowsFromFreshness ==
    ASSUME NEW atts, NEW window \in Nat, NEW t \in Nat,
           \A a \in atts : a.signedAt \in Nat /\ a.signedAt <= t /\ t - a.signedAt <= window
    PROVE  SpreadWithin(atts, window)
BY DEF SpreadWithin

\* Attestations by different signers number no more than their signers.
LEMMA AttestationsCountSigners ==
    ASSUME NEW atts, NEW signers, IsFiniteSet(signers), OnePerSigner(atts),
           \A a \in atts : a.signer \in signers
    PROVE  IsFiniteSet(atts) /\ Cardinality(atts) <= Cardinality(signers)
<1> DEFINE f == [a \in atts |-> a.signer]
<1>1. f \in Injection(atts, signers)
  BY DEF Injection, IsInjective, OnePerSigner
<1> HIDE DEF f
<1> QED BY <1>1, FS_Injection

\* The backers of a proposal are finitely many: they are among the signers.
LEMMA BackersAreFinite ==
    ASSUME Records, NEW id \in ProposalId
    PROVE  IsFiniteSet(Backers(id))
<1>1. IsFiniteSet(isSigner[id.vaultId])
  BY DEF Records, VaultRecords, ProposalId
<1>2. Backers(id) \in SUBSET isSigner[id.vaultId]  BY DEF Backers
<1> QED BY <1>1, <1>2, FS_Subset

\* Whoever backs a proposal backs it for ever.
LEMMA BackersStay ==
    ASSUME Records, [Next]_vars, NEW id \in ProposalId, proposals[id].state # "None"
    PROVE  Backers(id) \subseteq Backers(id)'
<1>1. /\ proposals'[id].queuedAt = proposals[id].queuedAt
      /\ proposals'[id].expiresAt = proposals[id].expiresAt
  BY ProposalStep
<1>2. /\ isSigner'[id.vaultId] = isSigner[id.vaultId]
      /\ vaults'[id.vaultId].freshWindowSecs = vaults[id.vaultId].freshWindowSecs
  BY StoredConfigIsFrozen
<1>3. signatures \subseteq signatures'
  BY ZenonT(40) DEF Next, vars, InitializeVault, SetAdapter, Queue, Cancel, Execute, Sign, Tick
<1> QED BY <1>1, <1>2, <1>3 DEF Backers, Backs

\* The attestations that queue accepts make a quorum of backers.
LEMMA QueueFindsBackers ==
    ASSUME Records, Records', NEW v \in Vaults, NEW action \in Action,
           NEW expiresAt \in Uint64, NEW atts \in SUBSET Presentable,
           Queue(v, action, expiresAt, atts), NEW id, id = IdAtCurrentNonce(v, action)
    PROVE  /\ IsFiniteSet(atts) /\ IsFiniteSet(Backers(id)')
           /\ Cardinality(atts) <= Cardinality(Backers(id)')
<1>1. /\ id \in ProposalId /\ proposals'[id].queuedAt = now
      /\ proposals'[id].expiresAt = expiresAt
  BY QueueEffect DEF Records
<1>2. vaults' = vaults /\ isSigner' = isSigner /\ signatures' = signatures
  BY DEF Queue
<1>3. VerifyAttestations(id, expiresAt, atts)  BY DEF Queue
<1>4. ASSUME NEW a \in atts PROVE a.signer \in Backers(id)'
  <2> DEFINE sig == [signer |-> a.signer, id |-> id,
                     signedAt |-> a.signedAt, expiresAt |-> a.expiresAt]
  <2>1. VerifyAttestation(id, expiresAt, a)  BY <1>3 DEF VerifyAttestations
  <2>2. sig \in signatures'  BY <1>2, <2>1 DEF VerifyAttestation, Recovers
  <2>3. a.signer \in isSigner'[id.vaultId]  BY <1>2, <2>1 DEF VerifyAttestation
  <2>4. Backs(sig, id)'
    BY <1>1, <1>2, <2>1, <2>3 DEF VerifyAttestation, Backs
  <2> QED BY <2>2, <2>3, <2>4 DEF Backers
<1>5. IsFiniteSet(Backers(id)')
  <2>1. IsFiniteSet(isSigner'[id.vaultId])
    BY <1>1 DEF Records, VaultRecords, ProposalId
  <2>2. Backers(id)' \in SUBSET isSigner'[id.vaultId]  BY DEF Backers
  <2> QED BY <2>1, <2>2, FS_Subset
<1> HIDE DEF Queue
<1>6. OnePerSigner(atts)  BY <1>3 DEF VerifyAttestations
<1> QED BY <1>4, <1>5, <1>6, AttestationsCountSigners

\* Behind every proposal ever queued stands a quorum of fresh signatures by
\* distinct signers of its vault over that proposal.
THEOREM QuorumIsFresh == Spec => []QueuedWithFreshQuorum
<1>1. Init => QueuedWithFreshQuorum
  BY DEF Init, QueuedWithFreshQuorum, NoProposal
<1>2. Records /\ Records' /\ QueuedWithFreshQuorum /\ [Next]_vars => QueuedWithFreshQuorum'
  <2> SUFFICES ASSUME Records, Records', QueuedWithFreshQuorum, [Next]_vars,
                      NEW id \in ProposalId, proposals'[id].state # "None"
               PROVE  Cardinality(Backers(id)') >= vaults'[id.vaultId].threshold
    BY DEF QueuedWithFreshQuorum
  <2>1. CASE proposals[id].state # "None"
    <3>1. Backers(id) \subseteq Backers(id)'  BY <2>1, BackersStay
    <3>2. IsFiniteSet(Backers(id)) /\ IsFiniteSet(Backers(id)')
      <4>1. IsFiniteSet(isSigner'[id.vaultId])
        BY DEF Records, VaultRecords, ProposalId
      <4>2. Backers(id)' \in SUBSET isSigner'[id.vaultId]  BY DEF Backers
      <4> QED BY <4>1, <4>2, BackersAreFinite, FS_Subset
    <3>3. Cardinality(Backers(id)) <= Cardinality(Backers(id)')
      BY <3>1, <3>2, FS_Subset
    <3>4. Cardinality(Backers(id)) \in Nat /\ Cardinality(Backers(id)') \in Nat
      BY <3>2, FS_CardinalityType
    <3>5. vaults'[id.vaultId].threshold = vaults[id.vaultId].threshold
          /\ vaults[id.vaultId].threshold \in Nat
      BY <2>1, StoredConfigIsFrozen DEF VaultConfig, Uint8
    <3>6. Cardinality(Backers(id)) >= vaults[id.vaultId].threshold
      BY <2>1 DEF QueuedWithFreshQuorum
    <3> QED BY <3>3, <3>4, <3>5, <3>6
  <2>2. CASE proposals[id].state = "None"
    <3>1. PICK v \in Vaults, action \in Action, expiresAt \in Uint64,
               atts \in SUBSET Presentable :
                 Queue(v, action, expiresAt, atts) /\ id = IdAtCurrentNonce(v, action)
      BY <2>2, ProposalStep
    <3>2. /\ IsFiniteSet(atts) /\ IsFiniteSet(Backers(id)')
          /\ Cardinality(atts) <= Cardinality(Backers(id)')
      BY <3>1, QueueFindsBackers
    <3>3. id.vaultId \in Vaults /\ vaults' = vaults
          /\ Cardinality(atts) >= vaults[id.vaultId].threshold
      BY <3>1 DEF Queue, VerifyAttestations, ProposalId
    <3>4. vaults[id.vaultId].threshold \in Nat
      BY <3>3 DEF Records, TypeOK, VaultConfig, Uint8
    <3>5. Cardinality(atts) \in Nat /\ Cardinality(Backers(id)') \in Nat
      BY <3>2, FS_CardinalityType
    <3> QED BY <3>2, <3>3, <3>4, <3>5
  <2> QED BY <2>1, <2>2
<1> QED BY <1>1, <1>2, RecordsHold, PTL DEF Spec

------------------------------------------------------------------------------
(* Settled proposals *)

\* Cancelled and Executed are final, and a queued proposal keeps its times.
THEOREM SettledStaysSettled == Spec => SettledIsFinal
<1>1. Records /\ [Next]_vars =>
        \A id \in ProposalId :
          /\ proposals[id].state \in {"Cancelled", "Executed"} => proposals'[id] = proposals[id]
          /\ proposals[id].state = "Queued" =>
               /\ proposals'[id].queuedAt = proposals[id].queuedAt
               /\ proposals'[id].expiresAt = proposals[id].expiresAt
  <2> SUFFICES ASSUME Records, [Next]_vars, NEW id \in ProposalId
               PROVE  /\ proposals[id].state \in {"Cancelled", "Executed"}
                           => proposals'[id] = proposals[id]
                      /\ proposals[id].state = "Queued" =>
                           /\ proposals'[id].queuedAt = proposals[id].queuedAt
                           /\ proposals'[id].expiresAt = proposals[id].expiresAt
    OBVIOUS
  <2>1. ASSUME proposals[id].state \in {"Cancelled", "Executed"}
        PROVE  proposals'[id] = proposals[id]
    <3>1. ASSUME NEW v \in Vaults, NEW action \in Action, NEW expiresAt \in Uint64,
                 NEW atts \in SUBSET Presentable, Queue(v, action, expiresAt, atts)
          PROVE  proposals'[id] = proposals[id]
      BY <2>1, <3>1, QueueEffect DEF Records, Queue, Unused
    <3>2. ASSUME NEW x \in ProposalId, NEW s \in Addresses, Cancel(x, s)
          PROVE  proposals'[id] = proposals[id]
      BY <2>1, <3>2, CancelEffect DEF Records, Cancel, IsQueued
    <3>3. ASSUME NEW x \in ProposalId, NEW payload \in Payloads, Execute(x, payload)
          PROVE  proposals'[id] = proposals[id]
      BY <2>1, <3>3, ExecuteEffect DEF Records, Execute, IsQueued
    <3> QED BY <3>1, <3>2, <3>3
            DEF Next, vars, storage, InitializeVault, SetAdapter, Sign, Tick
  <2> QED BY <2>1, ProposalStep
<1> QED BY <1>1, RecordsHold, PTL DEF Spec, SettledIsFinal

------------------------------------------------------------------------------
(* Every call the Safe has carried out *)

\* A call in the Safe's log was there before the step, or it is the one that
\* execute has just appended.
LEMMA CallsGrow ==
    ASSUME Records, [Next]_vars, NEW v \in Vaults, NEW i \in DOMAIN safeCalls'[v]
    PROVE  \/ i \in DOMAIN safeCalls[v] /\ safeCalls'[v][i] = safeCalls[v][i]
           \/ \E x \in ProposalId, payload \in Payloads :
                /\ Execute(x, payload)
                /\ safeCalls'[v][i] = [id |-> x, payload |-> payload, at |-> now]
<1>1. CASE ~ \E x \in ProposalId, payload \in Payloads : Execute(x, payload)
  BY <1>1, OnlyExecuteExecutes
<1>2. CASE \E x \in ProposalId, payload \in Payloads : Execute(x, payload)
  <2>1. PICK x \in ProposalId, payload \in Payloads : Execute(x, payload)
    BY <1>2
  <2>2. x.vaultId \in Vaults /\ safeCalls \in [Vaults -> Seq(SafeCall)]
    BY DEF ProposalId, Records, TypeOK
  <2> DEFINE call == [id |-> x, payload |-> payload, at |-> now]
  <2>3. safeCalls' = [safeCalls EXCEPT ![x.vaultId] = Append(@, call)]
    BY <2>1 DEF Execute
  <2>4. call = [id |-> x, payload |-> payload, at |-> now]  OBVIOUS
  <2> HIDE DEF call
  <2>5. CASE v # x.vaultId
    BY <2>2, <2>3, <2>5
  <2>6. CASE v = x.vaultId
    <3>1. safeCalls'[v] = Append(safeCalls[v], call)  BY <2>2, <2>3, <2>6
    <3> DEFINE n == Len(safeCalls[v])
    <3>2. /\ n \in Nat /\ DOMAIN safeCalls[v] = 1..n
          /\ DOMAIN safeCalls'[v] = 1..(n + 1)
          /\ \A j \in 1..n : safeCalls'[v][j] = safeCalls[v][j]
          /\ safeCalls'[v][n + 1] = call
      BY <2>2, <3>1
    <3> HIDE DEF n
    <3>3. i \in 1..n \/ i = n + 1  BY <3>2
    <3> QED BY <2>1, <2>4, <3>2, <3>3
  <2> QED BY <2>5, <2>6
<1> QED BY <1>1, <1>2

\* A call in the log of a vault is that of one of its proposals, which is Executed.
LEMMA CalledIsExecuted ==
    ASSUME Records, CallsAreSerial, NEW v \in Vaults, NEW i \in DOMAIN safeCalls[v]
    PROVE  /\ safeCalls[v][i] \in SafeCall
           /\ safeCalls[v][i].id \in ProposalId
           /\ safeCalls[v][i].id.vaultId = v
           /\ proposals[safeCalls[v][i].id].state = "Executed"
<1>1. safeCalls[v][i] \in SafeCall
  <2>1. safeCalls[v] \in Seq(SafeCall)  BY DEF Records, TypeOK
  <2> QED BY <2>1
<1>2. safeCalls[v][i].id \in ProposalId  BY <1>1 DEF SafeCall
<1> QED BY <1>1, <1>2 DEF CallsAreSerial

\* No call ever reached the Safe before the end of its delays or past its expiry,
\* and no later step moves the times it is judged by.
THEOREM CallsStayInWindow == Spec => []CallsRespectTheirWindow
<1>1. Init => CallsRespectTheirWindow
  BY DEF Init, CallsRespectTheirWindow
<1>2. Records /\ CallsAreSerial /\ CallsRespectTheirWindow /\ [Next]_vars
        => CallsRespectTheirWindow'
  <2> SUFFICES ASSUME Records, CallsAreSerial, CallsRespectTheirWindow, [Next]_vars,
                      NEW v \in Vaults, NEW i \in DOMAIN safeCalls'[v]
               PROVE  CallsRespectTheirWindow!(v)!(i)'
    BY DEF CallsRespectTheirWindow
  <2>1. ASSUME NEW x \in ProposalId, proposals[x].state # "None"
        PROVE  /\ ExecuteAfter(x)' = ExecuteAfter(x)
               /\ proposals'[x].expiresAt = proposals[x].expiresAt
    <3>1. proposals'[x].queuedAt = proposals[x].queuedAt
          /\ proposals'[x].expiresAt = proposals[x].expiresAt
      BY <2>1, ProposalStep
    <3> QED BY <2>1, <3>1, StoredConfigIsFrozen DEF ExecuteAfter
  <2>2. \E x \in ProposalId : /\ safeCalls'[v][i].id = x
                              /\ proposals[x].state # "None"
                              /\ ExecuteAfter(x) <= safeCalls'[v][i].at
                              /\ safeCalls'[v][i].at <= proposals[x].expiresAt
    <3>1. CASE i \in DOMAIN safeCalls[v] /\ safeCalls'[v][i] = safeCalls[v][i]
      <4> DEFINE c == safeCalls[v][i]
      <4>1. c.id \in ProposalId /\ proposals[c.id].state # "None"
        BY <3>1, CalledIsExecuted
      <4>2. ExecuteAfter(c.id) <= c.at /\ c.at <= proposals[c.id].expiresAt
        BY <3>1 DEF CallsRespectTheirWindow
      <4>3. safeCalls'[v][i] = c  BY <3>1
      <4> HIDE DEF c
      <4> QED BY <4>1, <4>2, <4>3
    <3>2. ASSUME NEW x \in ProposalId, NEW payload \in Payloads, Execute(x, payload),
                 safeCalls'[v][i] = [id |-> x, payload |-> payload, at |-> now]
          PROVE  /\ safeCalls'[v][i].id = x
                 /\ proposals[x].state # "None"
                 /\ ExecuteAfter(x) <= safeCalls'[v][i].at
                 /\ safeCalls'[v][i].at <= proposals[x].expiresAt
      <4>1. safeCalls'[v][i].id = x /\ safeCalls'[v][i].at = now  BY <3>2
      <4>2. proposals[x] \in Proposal /\ now \in Nat
        BY DEF Records, TypeOK, Uint64
      <4> QED BY <3>2, <4>1, <4>2 DEF Execute, IsQueued, CooledOff, Proposal, Uint64
    <3>3. CASE \E x \in ProposalId, payload \in Payloads :
                 /\ Execute(x, payload)
                 /\ safeCalls'[v][i] = [id |-> x, payload |-> payload, at |-> now]
      <4>1. PICK x \in ProposalId, payload \in Payloads :
                 /\ Execute(x, payload)
                 /\ safeCalls'[v][i] = [id |-> x, payload |-> payload, at |-> now]
        BY <3>3
      <4> WITNESS x \in ProposalId
      <4> QED BY <3>2, <4>1
    <3> QED BY <3>1, <3>3, CallsGrow
  <2>3. PICK x \in ProposalId : /\ safeCalls'[v][i].id = x
                               /\ proposals[x].state # "None"
                               /\ ExecuteAfter(x) <= safeCalls'[v][i].at
                               /\ safeCalls'[v][i].at <= proposals[x].expiresAt
    BY <2>2
  <2> QED BY <2>1, <2>3 DEF ExecuteAfter
<1> QED BY <1>1, <1>2, RecordsHold, CallsStaySerial, PTL DEF Spec

\* What queue and execute each check, kept for as long as the record lives: the
\* adapter decodes the named payload to the named intent, and a call carried that
\* payload.
IntentsMatch ==
    /\ \A id \in ProposalId : proposals[id].state # "None" =>
          IntentOf[<<id.action.adapter, id.action.target, id.action.payload>>]
             = id.action.intentHash
    /\ \A v \in Vaults : \A i \in DOMAIN safeCalls[v] :
          safeCalls[v][i].payload = safeCalls[v][i].id.action.payload

\* queue is the only way into the records and checks the intent there; execute is
\* the only way to the Safe and checks the payload there.
LEMMA IntentsStayMatched == Spec => []IntentsMatch
<1>1. Init => IntentsMatch
  BY DEF Init, IntentsMatch, NoProposal
<1>2. Records /\ IntentsMatch /\ [Next]_vars => IntentsMatch'
  <2> SUFFICES ASSUME Records, IntentsMatch, [Next]_vars PROVE IntentsMatch'
    OBVIOUS
  <2>1. ASSUME NEW id \in ProposalId, proposals'[id].state # "None"
        PROVE  IntentOf[<<id.action.adapter, id.action.target, id.action.payload>>]
                 = id.action.intentHash
    <3>1. CASE proposals[id].state # "None"
      BY <3>1 DEF IntentsMatch
    <3>2. CASE proposals[id].state = "None"
      <4>1. PICK v \in Vaults, action \in Action, expiresAt \in Uint64,
                 atts \in SUBSET Presentable :
                   Queue(v, action, expiresAt, atts) /\ id = IdAtCurrentNonce(v, action)
        BY <2>1, <3>2, ProposalStep
      <4>2. id.action = action  BY <4>1 DEF IdAtCurrentNonce
      <4> QED BY <4>1, <4>2 DEF Queue
    <3> QED BY <3>1, <3>2
  <2>2. ASSUME NEW v \in Vaults, NEW i \in DOMAIN safeCalls'[v]
        PROVE  safeCalls'[v][i].payload = safeCalls'[v][i].id.action.payload
    <3>1. CASE i \in DOMAIN safeCalls[v] /\ safeCalls'[v][i] = safeCalls[v][i]
      BY <3>1 DEF IntentsMatch
    <3>2. ASSUME NEW x \in ProposalId, NEW payload \in Payloads, Execute(x, payload),
                 safeCalls'[v][i] = [id |-> x, payload |-> payload, at |-> now]
          PROVE  safeCalls'[v][i].payload = safeCalls'[v][i].id.action.payload
      BY <3>2 DEF Execute, DataMatches
    <3> QED BY <3>1, <3>2, CallsGrow
  <2> QED BY <2>1, <2>2 DEF IntentsMatch
<1> QED BY <1>1, <1>2, RecordsHold, PTL DEF Spec

\* Whatever reached the Safe is what a quorum of its signers signed, and the
\* adapter decodes it to the intent they signed.
THEOREM CallsWereReviewed == Spec => []CallsAreAsReviewed
<1>1. Records /\ CallsAreSerial /\ IntentsMatch /\ QueuedWithFreshQuorum
        => CallsAreAsReviewed
  <2> SUFFICES ASSUME Records, CallsAreSerial, IntentsMatch, QueuedWithFreshQuorum,
                      NEW v \in Vaults, NEW i \in DOMAIN safeCalls[v]
               PROVE  CallsAreAsReviewed!(v)!(i)
    BY DEF CallsAreAsReviewed
  <2> DEFINE c == safeCalls[v][i]
             a == c.id.action
  <2>1. c.id \in ProposalId /\ c.id.vaultId = v /\ proposals[c.id].state # "None"
    BY CalledIsExecuted
  <2>2. c.payload = a.payload  BY DEF IntentsMatch
  <2>3. IntentOf[<<a.adapter, a.target, c.payload>>] = a.intentHash
    BY <2>1, <2>2 DEF IntentsMatch
  <2>4. \E quorum \in SUBSET isSigner[v] :
          /\ Cardinality(quorum) >= vaults[v].threshold
          /\ \A s \in quorum : \E sig \in signatures :
                /\ sig.signer = s /\ Backs(sig, c.id)
                /\ sig.id.action.payload = c.payload
    <3>1. Backers(c.id) \in SUBSET isSigner[v]  BY <2>1 DEF Backers
    <3>2. Cardinality(Backers(c.id)) >= vaults[v].threshold
      BY <2>1 DEF QueuedWithFreshQuorum
    <3>3. ASSUME NEW s \in Backers(c.id)
          PROVE  \E sig \in signatures :
                    /\ sig.signer = s /\ Backs(sig, c.id)
                    /\ sig.id.action.payload = c.payload
      <4>1. PICK sig \in signatures : sig.signer = s /\ Backs(sig, c.id)
        BY DEF Backers
      <4>2. sig.id = c.id  BY <4>1 DEF Backs
      <4> QED BY <2>2, <4>1, <4>2
    <3> HIDE DEF c, a
    <3> QED BY <3>1, <3>2, <3>3
  <2> QED BY <2>3, <2>4
<1> QED BY <1>1, RecordsHold, CallsStaySerial, IntentsStayMatched, QuorumIsFresh, PTL

------------------------------------------------------------------------------
(* The module keeps the promise of GuardedExecution *)

\* The abstract log of a vault grows as the Safe's calls do.
LEMMA LogOfAppend ==
    ASSUME NEW calls \in Seq(SafeCall), NEW c \in SafeCall
    PROVE  /\ Len(LogOf(calls)) = Len(calls)
           /\ LogOf(Append(calls, c)) = Append(LogOf(calls), c.id)
<1> DEFINE n == Len(calls)
<1>1. n \in Nat /\ Len(Append(calls, c)) = n + 1  OBVIOUS
<1>2. LogOf(calls) \in Seq(ProposalId)
  <2>1. \A i \in 1..n : calls[i] \in SafeCall  OBVIOUS
  <2>2. \A i \in 1..n : calls[i].id \in ProposalId  BY <2>1 DEF SafeCall
  <2> QED BY <1>1, <2>2 DEF LogOf
<1>3. Len(LogOf(calls)) = n  BY <1>1, <1>2 DEF LogOf
<1>4. c.id \in ProposalId  BY DEF SafeCall
<1>5. LogOf(Append(calls, c)) \in Seq(ProposalId)
  <2>1. Append(calls, c) \in Seq(SafeCall)  OBVIOUS
  <2>2. \A i \in 1..(n + 1) : Append(calls, c)[i] \in SafeCall
    BY <1>1, <2>1
  <2>3. \A i \in 1..(n + 1) : Append(calls, c)[i].id \in ProposalId
    BY <2>2 DEF SafeCall
  <2> QED BY <1>1, <2>3 DEF LogOf
<1>6. \A i \in 1..(n + 1) : LogOf(Append(calls, c))[i] = Append(LogOf(calls), c.id)[i]
  <2> SUFFICES ASSUME NEW i \in 1..(n + 1)
               PROVE  LogOf(Append(calls, c))[i] = Append(LogOf(calls), c.id)[i]
    OBVIOUS
  <2>1. LogOf(Append(calls, c))[i] = Append(calls, c)[i].id  BY <1>1 DEF LogOf
  <2>2. CASE i \in 1..n
    <3>1. Append(calls, c)[i] = calls[i]  BY <2>2
    <3>2. Append(LogOf(calls), c.id)[i] = LogOf(calls)[i]  BY <1>2, <1>3, <1>4, <2>2
    <3>3. LogOf(calls)[i] = calls[i].id  BY <2>2 DEF LogOf
    <3> QED BY <2>1, <3>1, <3>2, <3>3
  <2>3. CASE i = n + 1
    <3>1. Append(calls, c)[i] = c  BY <1>1, <2>3
    <3>2. Append(LogOf(calls), c.id)[i] = c.id  BY <1>2, <1>3, <1>4, <2>3
    <3> QED BY <2>1, <3>1, <3>2
  <2>4. i \in 1..n \/ i = n + 1
    <3>1. n \in Nat  BY <1>1
    <3> HIDE DEF n
    <3> QED BY <3>1
  <2> QED BY <2>2, <2>3, <2>4
<1>7. Append(LogOf(calls), c.id) \in Seq(ProposalId)
      /\ Len(Append(LogOf(calls), c.id)) = n + 1
  BY <1>1, <1>2, <1>3, <1>4
<1>8. Len(LogOf(Append(calls, c))) = n + 1
  BY <1>1, <1>5 DEF LogOf
<1> HIDE DEF n
<1> QED BY <1>1, <1>3, <1>5, <1>6, <1>7, <1>8

\* queue is Approve of the proposal it stores.
LEMMA QueueApproves ==
    ASSUME Records, CallsAreSerial, NEW v \in Vaults, NEW action \in Action,
           NEW expiresAt \in Uint64, NEW atts \in SUBSET Presentable,
           Queue(v, action, expiresAt, atts), NEW id, id = IdAtCurrentNonce(v, action)
    PROVE  id \in ProposalId /\ Promise!Approve(id)
<1>1. /\ id \in ProposalId /\ proposals'[id].state = "Queued"
      /\ proposals[id].state = "None"
      /\ \A x \in ProposalId : x # id => proposals'[x] = proposals[x]
  BY QueueEffect DEF Queue, Unused, Records
<1>2. safeCalls' = safeCalls  BY DEF Queue
<1>3. InState("Queued")' = InState("Queued") \cup {id}  BY <1>1 DEF InState
<1>4. InState("Cancelled")' = InState("Cancelled")  BY <1>1 DEF InState
<1>5. id.vaultId = v /\ id.nonce = Len(LogOf(safeCalls[v]))
  <2>1. id.vaultId = v /\ id.nonce = vaults[v].nonce  BY DEF IdAtCurrentNonce
  <2>2. Len(safeCalls[v]) = vaults[v].nonce  BY DEF CallsAreSerial
  <2>3. safeCalls[v] \in Seq(SafeCall)  BY DEF Records, TypeOK
  <2>4. Len(LogOf(safeCalls[v])) = Len(safeCalls[v])  BY <2>3 DEF LogOf
  <2> QED BY <2>1, <2>2, <2>4
<1>6. id \notin InState("Queued") \cup InState("Cancelled")  BY <1>1 DEF InState
<1> QED BY <1>1, <1>2, <1>3, <1>4, <1>5, <1>6 DEF Promise!Approve, LogOf

\* cancel is Veto when it is the deciding one and a stutter otherwise.
LEMMA CancelVetoes ==
    ASSUME Records, NEW id \in ProposalId, NEW s \in Addresses, Cancel(id, s)
    PROVE  Promise!Veto(id) \/ UNCHANGED Promise!vars
<1>1. /\ proposals[id].state = "Queued"
      /\ proposals'[id].state \in {"Queued", "Cancelled"}
      /\ \A x \in ProposalId : x # id => proposals'[x] = proposals[x]
  BY CancelEffect DEF Cancel, IsQueued, Records
<1>2. safeCalls' = safeCalls  BY DEF Cancel
<1>3. CASE proposals'[id].state = "Queued"
  <2>1. InState("Queued")' = InState("Queued")  BY <1>1, <1>3 DEF InState
  <2>2. InState("Cancelled")' = InState("Cancelled")  BY <1>1, <1>3 DEF InState
  <2> QED BY <1>2, <2>1, <2>2 DEF Promise!vars
<1>4. CASE proposals'[id].state = "Cancelled"
  <2>1. InState("Queued")' = InState("Queued") \ {id}  BY <1>1, <1>4 DEF InState
  <2>2. InState("Cancelled")' = InState("Cancelled") \cup {id}  BY <1>1, <1>4 DEF InState
  <2>3. id \in InState("Queued")  BY <1>1 DEF InState
  <2> QED BY <1>2, <2>1, <2>2, <2>3 DEF Promise!Veto
<1> QED BY <1>1, <1>3, <1>4

\* execute is Run of its proposal.
LEMMA ExecuteRuns ==
    ASSUME Records, CallsAreSerial, NEW id \in ProposalId, NEW payload \in Payloads,
           Execute(id, payload)
    PROVE  Promise!Run(id)
<1> DEFINE v == id.vaultId
           call == [id |-> id, payload |-> payload, at |-> now]
           logs == [w \in Vaults |-> LogOf(safeCalls[w])]
<1>1. /\ proposals[id].state = "Queued" /\ proposals'[id].state = "Executed"
      /\ \A x \in ProposalId : x # id => proposals'[x] = proposals[x]
  BY ExecuteEffect DEF Execute, IsQueued, Records
<1>2. v \in Vaults /\ call \in SafeCall /\ safeCalls \in [Vaults -> Seq(SafeCall)]
  BY DEF ProposalId, SafeCall, Records, TypeOK
<1>3. InState("Queued")' = InState("Queued") \ {id}  BY <1>1 DEF InState
<1>4. InState("Cancelled")' = InState("Cancelled")  BY <1>1 DEF InState
<1>5. id \in InState("Queued")  BY <1>1 DEF InState
<1>6. id.nonce = Len(logs[v])
  <2>1. Len(safeCalls[v]) = vaults[v].nonce /\ id.nonce = vaults[v].nonce
    BY <1>2 DEF CallsAreSerial, Execute, NonceMatches
  <2>2. Len(LogOf(safeCalls[v])) = Len(safeCalls[v])  BY <1>2 DEF LogOf
  <2> QED BY <1>2, <2>1, <2>2
<1>7. logs' = [logs EXCEPT ![v] = Append(@, id)]
  <2>1. safeCalls' = [safeCalls EXCEPT ![v] = Append(@, call)]  BY DEF Execute
  <2>2. LogOf(safeCalls'[v]) = Append(LogOf(safeCalls[v]), id)
    <3>1. call.id = id  OBVIOUS
    <3> HIDE DEF call, v
    <3>2. safeCalls'[v] = Append(safeCalls[v], call)  BY <1>2, <2>1
    <3> QED BY <1>2, <3>1, <3>2, LogOfAppend
  <2>3. \A w \in Vaults : w # v => safeCalls'[w] = safeCalls[w]
    BY <1>2, <2>1
  <2> HIDE DEF v, call
  <2> QED BY <1>2, <2>2, <2>3
<1> QED BY <1>3, <1>4, <1>5, <1>6, <1>7 DEF Promise!Run, LogOf

\* Every behaviour of the module is one that GuardedExecution allows: queue, the
\* deciding cancel and execute are its three steps and everything else stutters.
THEOREM ModuleRefinesPromise == Spec => RefinesPromise
<1>1. Init => Promise!Init
  BY DEF Init, Promise!Init, InState, NoProposal, LogOf
<1>2. Records /\ CallsAreSerial /\ [Next]_vars => [Promise!Next]_(Promise!vars)
  <2> SUFFICES ASSUME Records, CallsAreSerial, [Next]_vars
               PROVE  Promise!Next \/ UNCHANGED Promise!vars
    OBVIOUS
  <2>1. proposals' = proposals /\ safeCalls' = safeCalls => UNCHANGED Promise!vars
    BY DEF Promise!vars, InState
  <2>2. ASSUME NEW v \in Vaults, NEW action \in Action, NEW expiresAt \in Uint64,
               NEW atts \in SUBSET Presentable, Queue(v, action, expiresAt, atts)
        PROVE  Promise!Next
    BY <2>2, QueueApproves DEF Promise!Next
  <2>3. ASSUME NEW id \in ProposalId, NEW s \in Addresses, Cancel(id, s)
        PROVE  Promise!Next \/ UNCHANGED Promise!vars
    BY <2>3, CancelVetoes DEF Promise!Next
  <2>4. ASSUME NEW id \in ProposalId, NEW payload \in Payloads, Execute(id, payload)
        PROVE  Promise!Next
    BY <2>4, ExecuteRuns DEF Promise!Next
  <2> QED BY <2>1, <2>2, <2>3, <2>4
          DEF Next, vars, storage, InitializeVault, SetAdapter, Sign, Tick
<1> QED BY <1>1, <1>2, RecordsHold, CallsStaySerial, PTL
       DEF Spec, RefinesPromise, Promise!Spec

\* So the module keeps what GuardedExecution comes to: the calls of the Safe are of one
\* proposal per nonce, in order, none of which is vetoed or still waits.
THEOREM ModuleKeepsPromise == Spec => []Promise!EachSettledOnce
<1>1. Records /\ CallsAreSerial => Promise!EachSettledOnce
  <2> SUFFICES ASSUME Records, CallsAreSerial PROVE Promise!EachSettledOnce
    OBVIOUS
  <2>1. InState("Queued") \cap InState("Cancelled") = {}  BY DEF InState
  <2>2. ASSUME NEW v \in Vaults, NEW i \in DOMAIN LogOf(safeCalls[v])
        PROVE  /\ LogOf(safeCalls[v])[i].vaultId = v
               /\ LogOf(safeCalls[v])[i].nonce = i - 1
               /\ LogOf(safeCalls[v])[i] \notin InState("Queued") \cup InState("Cancelled")
    <3>1. i \in DOMAIN safeCalls[v] /\ LogOf(safeCalls[v])[i] = safeCalls[v][i].id
      <4>1. safeCalls[v] \in Seq(SafeCall)  BY DEF Records, TypeOK
      <4> QED BY <2>2, <4>1 DEF LogOf
    <3>2. safeCalls[v][i].id.vaultId = v /\ safeCalls[v][i].id.nonce = i - 1
      BY <3>1 DEF CallsAreSerial
    <3>3. \A id \in ProposalId : id = safeCalls[v][i].id => proposals[id].state = "Executed"
      BY <3>1, <3>2 DEF CallsAreSerial
    <3> QED BY <3>1, <3>2, <3>3 DEF InState
  <2> QED BY <2>1, <2>2 DEF Promise!EachSettledOnce
<1> QED BY <1>1, RecordsHold, CallsStaySerial, PTL

===============================================================================
