----------------------- MODULE IntentGuardSolana_proofs -----------------------
(***************************************************************************)
(* What holds of IntentGuardSolana for all vaults, keys, configurations,   *)
(* limits and integer widths.                                              *)
(***************************************************************************)
EXTENDS IntentGuardSolana, FiniteSetTheorems, TLAPS

USE WidthAssumption, LimitAssumption, ArgsAssumption, SortAssumption, BoundAssumption

------------------------------------------------------------------------------
(* Types *)

\* The PDA of the proposal at a vault's current nonce.
LEMMA SlotAtNonceType ==
    ASSUME TypeOK, NEW v \in Vaults, vaults[v] # NoAccount
    PROVE  /\ vaults[v] \in Vault
           /\ SlotAtNonce(v) \in Slot
           /\ SlotAtNonce(v).vaultId = v /\ SlotAtNonce(v).nonce = vaults[v].nonce
BY DEF TypeOK, SlotAtNonce, Slot, Vault

\* What init_vault leaves behind: the one new vault account.
LEMMA InitVaultEffect ==
    ASSUME TypeOK, NEW v \in Vaults, NEW a \in InitArgs, InitVault(v, a)
    PROVE  /\ vaults[v] = NoAccount
           /\ vaults' \in [Vaults -> Vault \cup {NoAccount}]
           /\ vaults'[v] \in Vault
           /\ vaults'[v].signers = a.signers /\ vaults'[v].nonce = 0
           /\ vaults'[v].threshold = a.threshold
           /\ vaults'[v].veto_threshold = a.veto_threshold
           /\ vaults'[v].cooloff_secs = a.cooloff_secs
           /\ vaults'[v].execute_delay_secs = a.execute_delay_secs
           /\ vaults'[v].min_proposal_lifetime_secs = a.min_proposal_lifetime_secs
           /\ \A w \in Vaults : w # v => vaults'[w] = vaults[w]
<1> DEFINE stored == [threshold |-> a.threshold,
                      veto_threshold |-> a.veto_threshold,
                      fresh_window_secs |-> a.fresh_window_secs,
                      cooloff_secs |-> a.cooloff_secs,
                      execute_delay_secs |-> a.execute_delay_secs,
                      min_proposal_lifetime_secs |-> a.min_proposal_lifetime_secs,
                      nonce |-> 0,
                      signers |-> a.signers]
<1>1. vaults[v] = NoAccount /\ vaults' = [vaults EXCEPT ![v] = stored]
  BY DEF InitVault
<1>2. /\ stored \in Vault /\ stored.signers = a.signers /\ stored.nonce = 0
      /\ stored.threshold = a.threshold /\ stored.veto_threshold = a.veto_threshold
      /\ stored.cooloff_secs = a.cooloff_secs
      /\ stored.execute_delay_secs = a.execute_delay_secs
      /\ stored.min_proposal_lifetime_secs = a.min_proposal_lifetime_secs
  <2>1. a \in InitArg  OBVIOUS
  <2> QED BY <2>1 DEF InitArg, Vault, U64
<1> HIDE DEF stored
<1> QED BY <1>1, <1>2 DEF TypeOK

\* What queue_proposal leaves behind: the one new proposal account.
LEMMA QueueEffect ==
    ASSUME TypeOK, NEW v \in Vaults, NEW action \in Action, NEW expires_at \in I64,
           NEW atts \in SUBSET Presentable, QueueProposal(v, action, expires_at, atts),
           NEW slot, slot = SlotAtNonce(v)
    PROVE  /\ slot \in Slot /\ slot.vaultId = v /\ slot.nonce = vaults[v].nonce
           /\ vaults[v] \in Vault
           /\ proposals[slot] = NoAccount
           /\ proposals' \in [Slot -> Proposal \cup {NoAccount}]
           /\ proposals'[slot] \in Proposal
           /\ proposals'[slot].action = action
           /\ proposals'[slot].queued_at = unix_timestamp
           /\ proposals'[slot].expires_at = expires_at
           /\ proposals'[slot].cancel_count = 0
           /\ proposals'[slot].cancellers = <<>>
           /\ proposals'[slot].state = "Queued"
           /\ \A s \in Slot : s # slot => proposals'[s] = proposals[s]
<1>1. slot \in Slot /\ slot.vaultId = v /\ slot.nonce = vaults[v].nonce /\ vaults[v] \in Vault
  BY SlotAtNonceType DEF QueueProposal
<1> DEFINE stored == [action |-> action, queued_at |-> unix_timestamp,
                      expires_at |-> expires_at, cancel_count |-> 0,
                      cancellers |-> <<>>, state |-> "Queued"]
<1>2. proposals[slot] = NoAccount /\ proposals' = [proposals EXCEPT ![slot] = stored]
  BY DEF QueueProposal, IsFree
<1>3. /\ stored \in Proposal /\ stored.action = action
      /\ stored.queued_at = unix_timestamp /\ stored.expires_at = expires_at
      /\ stored.cancel_count = 0 /\ stored.cancellers = <<>> /\ stored.state = "Queued"
  <2>1. unix_timestamp \in I64  BY DEF TypeOK, I64
  <2> QED BY <2>1 DEF Proposal, U8
<1> HIDE DEF stored
<1> QED BY <1>1, <1>2, <1>3 DEF TypeOK

\* What cancel leaves behind: one more canceller and, below the limit, one more in
\* the count.
LEMMA CancelEffect ==
    ASSUME TypeOK, NEW slot \in Slot, NEW key \in Keys, Cancel(slot, key)
    PROVE  /\ proposals[slot] \in Proposal /\ proposals[slot].state = "Queued"
           /\ proposals' \in [Slot -> Proposal \cup {NoAccount}]
           /\ proposals'[slot] \in Proposal
           /\ proposals'[slot].action = proposals[slot].action
           /\ proposals'[slot].queued_at = proposals[slot].queued_at
           /\ proposals'[slot].expires_at = proposals[slot].expires_at
           /\ proposals'[slot].cancel_count = SaturatingInc(proposals[slot].cancel_count, MaxU8)
           /\ proposals'[slot].cancellers = Append(proposals[slot].cancellers, key)
           /\ proposals'[slot].state =
                 IF SaturatingInc(proposals[slot].cancel_count, MaxU8)
                      >= vaults[slot.vaultId].veto_threshold
                 THEN "Cancelled" ELSE "Queued"
           /\ \A s \in Slot : s # slot => proposals'[s] = proposals[s]
<1> DEFINE p == proposals[slot]
           count == SaturatingInc(p.cancel_count, MaxU8)
           state == IF count >= vaults[slot.vaultId].veto_threshold
                    THEN "Cancelled" ELSE "Queued"
           stored == [p EXCEPT !.cancellers = Append(@, key), !.cancel_count = count,
                               !.state = state]
<1>1. p \in Proposal /\ p.state = "Queued"
  BY DEF Cancel, IsQueued, TypeOK
<1>2. proposals' = [proposals EXCEPT ![slot] = stored]
  BY <1>1 DEF Cancel, Proposal
<1>3. count \in U8
  BY <1>1 DEF Proposal, U8, SaturatingInc
<1>4. /\ stored \in Proposal /\ stored.action = p.action
      /\ stored.queued_at = p.queued_at /\ stored.expires_at = p.expires_at
      /\ stored.cancel_count = count /\ stored.cancellers = Append(p.cancellers, key)
      /\ stored.state = state
  <2>1. state \in {"Queued", "Cancelled"}  OBVIOUS
  <2>2. Append(p.cancellers, key) \in Seq(Keys)  BY <1>1 DEF Proposal
  <2> HIDE DEF p, count, state
  <2> QED BY <1>1, <1>3, <2>1, <2>2 DEF Proposal
<1> HIDE DEF stored
<1> QED BY <1>1, <1>2, <1>4 DEF TypeOK

\* What execute leaves behind: its proposal Executed, the nonce moved on and the CPI
\* invoked.
LEMMA ExecuteEffect ==
    ASSUME TypeOK, NEW slot \in Slot, NEW program \in Programs, NEW adapter \in Adapters,
           NEW data \in Data, NEW accounts \in SUBSET Forwardable,
           NEW outerSigners \in SUBSET (Keys \cap Forwardable),
           Execute(slot, program, adapter, data, accounts, outerSigners),
           vaults[slot.vaultId] # NoAccount
    PROVE  /\ proposals[slot] \in Proposal /\ proposals[slot].state = "Queued"
           /\ proposals' \in [Slot -> Proposal \cup {NoAccount}]
           /\ proposals'[slot] = [proposals[slot] EXCEPT !.state = "Executed"]
           /\ proposals'[slot] \in Proposal
           /\ \A s \in Slot : s # slot => proposals'[s] = proposals[s]
           /\ slot.vaultId \in Vaults /\ vaults[slot.vaultId] \in Vault
           /\ slot = SlotAtNonce(slot.vaultId)
           /\ vaults' \in [Vaults -> Vault \cup {NoAccount}]
           /\ vaults'[slot.vaultId] =
                [vaults[slot.vaultId] EXCEPT !.nonce = SaturatingInc(@, MaxU64)]
           /\ vaults'[slot.vaultId] \in Vault
           /\ \A w \in Vaults : w # slot.vaultId =>
                vaults'[w] = vaults[w] /\ cpis'[w] = cpis[w]
<1> DEFINE v == slot.vaultId
           p == proposals[slot]
           vault == vaults[v]
<1>1. p \in Proposal /\ p.state = "Queued" /\ v \in Vaults /\ vault \in Vault
  BY DEF Execute, IsQueued, TypeOK, Slot
<1>2. [p EXCEPT !.state = "Executed"] \in Proposal
  BY <1>1 DEF Proposal
<1>3. [vault EXCEPT !.nonce = SaturatingInc(@, MaxU64)] \in Vault
  <2>1. SaturatingInc(vault.nonce, MaxU64) \in U64
    BY <1>1 DEF Vault, U64, SaturatingInc
  <2> HIDE DEF vault
  <2> QED BY <1>1, <2>1 DEF Vault
<1>4. slot = SlotAtNonce(v)
  BY DEF Execute, NonceMatches, SlotAtNonce, Slot
<1>5. /\ proposals' = [proposals EXCEPT ![slot] = [p EXCEPT !.state = "Executed"]]
      /\ vaults' = [vaults EXCEPT ![v] = [vault EXCEPT !.nonce = SaturatingInc(@, MaxU64)]]
  BY DEF Execute
<1>6. \A w \in Vaults : w # v => cpis'[w] = cpis[w]
  BY DEF Execute, TypeOK
<1> HIDE DEF p, vault
<1>7. proposals'[slot] = [p EXCEPT !.state = "Executed"]  BY <1>5 DEF TypeOK
<1>8. vaults'[v] = [vault EXCEPT !.nonce = SaturatingInc(@, MaxU64)]
  BY <1>1, <1>5 DEF TypeOK
<1> QED BY <1>1, <1>2, <1>3, <1>4, <1>5, <1>6, <1>7, <1>8 DEF TypeOK, p, vault

------------------------------------------------------------------------------
(* Accounts are well formed *)

\* The facts about stored accounts that make the invariants inductive: init_vault's
\* checks hold of every vault, a proposal belongs to a vault, and what was vouched for
\* was queued.
VaultAccounts ==
    \A v \in Vaults : vaults[v] # NoAccount =>
        /\ IsInjective(vaults[v].signers)
        /\ Len(vaults[v].signers) <= MAX_SIGNERS
        /\ vaults[v].threshold > 0 /\ vaults[v].threshold <= Len(vaults[v].signers)
        /\ vaults[v].veto_threshold > 0
        /\ vaults[v].veto_threshold <= Len(vaults[v].signers)

ProposalAccounts ==
    \A slot \in Slot : Exists(slot) => vaults[slot.vaultId] # NoAccount

VouchedAccounts == \A slot \in vouched : Exists(slot)

Accounts == TypeOK /\ VaultAccounts /\ ProposalAccounts /\ VouchedAccounts

\* Only init_vault and execute write vault accounts, and execute only the nonce.
LEMMA VaultStep ==
    ASSUME Accounts, [Next]_vars, NEW v \in Vaults, vaults[v] # NoAccount
    PROVE  /\ vaults'[v] # NoAccount
           /\ vaults[v] \in Vault
           /\ vaults'[v] = [vaults[v] EXCEPT !.nonce = vaults'[v].nonce]
<1>1. vaults[v] \in Vault /\ TypeOK  BY DEF Accounts, TypeOK
<1> DEFINE Goal == /\ vaults'[v] # NoAccount
                   /\ vaults'[v] = [vaults[v] EXCEPT !.nonce = vaults'[v].nonce]
<1>2. vaults'[v] = vaults[v] => Goal
  BY <1>1 DEF Vault
<1>3. ASSUME NEW w \in Vaults, NEW a \in InitArgs, InitVault(w, a)
      PROVE  Goal
  BY <1>1, <1>2, <1>3, InitVaultEffect
<1>4. ASSUME NEW slot \in Slot, NEW program \in Programs, NEW adapter \in Adapters,
             NEW data \in Data, NEW accounts \in SUBSET Forwardable,
             NEW outerSigners \in SUBSET (Keys \cap Forwardable),
             Execute(slot, program, adapter, data, accounts, outerSigners)
      PROVE  Goal
  <2>0. vaults[slot.vaultId] # NoAccount
    BY <1>4 DEF Accounts, ProposalAccounts, Execute, IsQueued, Exists
  <2>1. /\ vaults'[slot.vaultId] =
             [vaults[slot.vaultId] EXCEPT !.nonce = SaturatingInc(@, MaxU64)]
        /\ vaults'[slot.vaultId] \in Vault
        /\ \A w \in Vaults : w # slot.vaultId => vaults'[w] = vaults[w]
    BY ZenonT(40), <1>1, <1>4, <2>0, ExecuteEffect
  <2>2. CASE slot.vaultId = v
    <3> DEFINE n == SaturatingInc(vaults[v].nonce, MaxU64)
    <3>1. vaults'[v] = [vaults[v] EXCEPT !.nonce = n] /\ vaults'[v] \in Vault
      BY <2>1, <2>2
    <3> HIDE DEF n
    <3>2. vaults'[v] # NoAccount  BY <3>1
    <3>3. vaults'[v].nonce = n  BY <1>1, <3>1 DEF Vault
    <3> QED BY <3>1, <3>2, <3>3
  <2>3. CASE slot.vaultId # v
    BY <1>2, <2>1, <2>3
  <2> QED BY <2>2, <2>3
<1> HIDE DEF Goal
<1>5. Goal
  BY <1>2, <1>3, <1>4
     DEF Next, vars, SomeQueue, SomeCancel, SomeExecute, SomeSign, QueueProposal, Cancel, Sign, Tick
<1> QED BY <1>1, <1>5 DEF Goal

\* The configuration of a vault, read off the lemma above.
LEMMA ConfigIsFrozen ==
    ASSUME Accounts, [Next]_vars, NEW v \in Vaults, vaults[v] # NoAccount
    PROVE  /\ vaults'[v] # NoAccount
           /\ vaults[v] \in Vault
           /\ vaults'[v].signers = vaults[v].signers
           /\ vaults'[v].threshold = vaults[v].threshold
           /\ vaults'[v].veto_threshold = vaults[v].veto_threshold
           /\ vaults'[v].fresh_window_secs = vaults[v].fresh_window_secs
           /\ vaults'[v].cooloff_secs = vaults[v].cooloff_secs
           /\ vaults'[v].execute_delay_secs = vaults[v].execute_delay_secs
           /\ vaults'[v].min_proposal_lifetime_secs = vaults[v].min_proposal_lifetime_secs
<1>1. /\ vaults'[v] # NoAccount /\ vaults[v] \in Vault
      /\ vaults'[v] = [vaults[v] EXCEPT !.nonce = vaults'[v].nonce]
  BY VaultStep
<1> DEFINE n == vaults'[v].nonce
<1>2. vaults'[v] = [vaults[v] EXCEPT !.nonce = n]  BY <1>1
<1> HIDE DEF n
<1> QED BY <1>1, <1>2 DEF Vault

\* A step leaves a proposal account alone, writes its cancellers, count or state while
\* it is queued, or is the queue_proposal that creates it.
LEMMA ProposalStep ==
    ASSUME Accounts, [Next]_vars, NEW slot \in Slot
    PROVE  \/ proposals'[slot] = proposals[slot]
           \/ /\ IsQueued(slot) /\ proposals'[slot] \in Proposal
              /\ proposals'[slot].action = proposals[slot].action
              /\ proposals'[slot].queued_at = proposals[slot].queued_at
              /\ proposals'[slot].expires_at = proposals[slot].expires_at
           \/ /\ proposals[slot] = NoAccount
              /\ \E v \in Vaults, action \in Action, expires_at \in I64,
                    atts \in SUBSET Presentable :
                   /\ QueueProposal(v, action, expires_at, atts)
                   /\ slot = SlotAtNonce(v)
<1> DEFINE Goal ==
      \/ proposals'[slot] = proposals[slot]
      \/ /\ IsQueued(slot) /\ proposals'[slot] \in Proposal
         /\ proposals'[slot].action = proposals[slot].action
         /\ proposals'[slot].queued_at = proposals[slot].queued_at
         /\ proposals'[slot].expires_at = proposals[slot].expires_at
      \/ /\ proposals[slot] = NoAccount
         /\ \E v \in Vaults, action \in Action, expires_at \in I64,
               atts \in SUBSET Presentable :
              /\ QueueProposal(v, action, expires_at, atts)
              /\ slot = SlotAtNonce(v)
<1>0. TypeOK  BY DEF Accounts
<1>1. ASSUME NEW v \in Vaults, NEW action \in Action, NEW expires_at \in I64,
             NEW atts \in SUBSET Presentable, QueueProposal(v, action, expires_at, atts)
      PROVE  Goal
  <2>1. CASE slot = SlotAtNonce(v)
    <3>1. proposals[slot] = NoAccount  BY <1>0, <1>1, <2>1, QueueEffect
    <3> QED BY <1>1, <2>1, <3>1
  <2>2. CASE slot # SlotAtNonce(v)
    <3>1. proposals'[slot] = proposals[slot]  BY <1>0, <1>1, <2>2, QueueEffect
    <3> QED BY <3>1
  <2> QED BY <2>1, <2>2
<1>2. ASSUME NEW s \in Slot, NEW key \in Keys, Cancel(s, key)
      PROVE  Goal
  <2>1. CASE slot = s
    <3>1. IsQueued(slot)  BY <1>2, <2>1 DEF Cancel
    <3>2. /\ proposals'[slot] \in Proposal
          /\ proposals'[slot].action = proposals[slot].action
          /\ proposals'[slot].queued_at = proposals[slot].queued_at
          /\ proposals'[slot].expires_at = proposals[slot].expires_at
      BY <1>0, <1>2, <2>1, CancelEffect
    <3> QED BY <3>1, <3>2
  <2>2. CASE slot # s
    <3>1. proposals'[slot] = proposals[slot]  BY <1>0, <1>2, <2>2, CancelEffect
    <3> QED BY <3>1
  <2> QED BY <2>1, <2>2
<1>3. ASSUME NEW s \in Slot, NEW program \in Programs, NEW adapter \in Adapters,
             NEW data \in Data, NEW accounts \in SUBSET Forwardable,
             NEW outerSigners \in SUBSET (Keys \cap Forwardable),
             Execute(s, program, adapter, data, accounts, outerSigners)
      PROVE  Goal
  <2>0. vaults[s.vaultId] # NoAccount
    BY <1>3 DEF Accounts, ProposalAccounts, Execute, IsQueued, Exists
  <2>1. /\ proposals[s] \in Proposal
        /\ proposals'[s] = [proposals[s] EXCEPT !.state = "Executed"]
        /\ proposals'[s] \in Proposal
        /\ \A t \in Slot : t # s => proposals'[t] = proposals[t]
    BY <1>0, <1>3, <2>0, ExecuteEffect
  <2>2. CASE slot = s
    <3>1. IsQueued(slot)  BY <1>3, <2>2 DEF Execute
    <3>2. /\ proposals'[slot].action = proposals[slot].action
          /\ proposals'[slot].queued_at = proposals[slot].queued_at
          /\ proposals'[slot].expires_at = proposals[slot].expires_at
      BY <2>1, <2>2 DEF Proposal
    <3> QED BY <2>1, <2>2, <3>1, <3>2
  <2>3. CASE slot # s
    BY <2>1, <2>3
  <2> QED BY <2>2, <2>3
<1>4. proposals' = proposals => Goal
  OBVIOUS
<1> HIDE DEF Goal
<1>5. Goal
  BY <1>1, <1>2, <1>3, <1>4
     DEF Next, vars, SomeQueue, SomeCancel, SomeExecute, SomeSign, InitVault, Sign, Tick
<1> QED BY <1>5 DEF Goal

\* What cannot fail to be typed, action by action.
LEMMA TypeStep ==
    ASSUME Accounts, [Next]_vars
    PROVE  TypeOK'
<1>0. TypeOK  BY DEF Accounts
<1>1. ASSUME NEW v \in Vaults, NEW a \in InitArgs, InitVault(v, a)
      PROVE  TypeOK'
  <2>1. vaults' \in [Vaults -> Vault \cup {NoAccount}]  BY <1>0, <1>1, InitVaultEffect
  <2> QED BY <1>0, <1>1, <2>1 DEF TypeOK, InitVault
<1>2. ASSUME NEW v \in Vaults, NEW action \in Action, NEW expires_at \in I64,
             NEW atts \in SUBSET Presentable, QueueProposal(v, action, expires_at, atts)
      PROVE  TypeOK'
  <2>1. proposals' \in [Slot -> Proposal \cup {NoAccount}]  BY <1>0, <1>2, QueueEffect
  <2>2. SlotAtNonce(v) \in Slot  BY <1>0, <1>2, SlotAtNonceType DEF QueueProposal
  <2>3. vouched' \subseteq vouched \cup {SlotAtNonce(v)}  BY <1>2 DEF QueueProposal
  <2> QED BY <1>0, <1>2, <2>1, <2>2, <2>3 DEF TypeOK, QueueProposal
<1>3. ASSUME NEW slot \in Slot, NEW key \in Keys, Cancel(slot, key)
      PROVE  TypeOK'
  <2>1. proposals' \in [Slot -> Proposal \cup {NoAccount}]  BY <1>0, <1>3, CancelEffect
  <2> QED BY <1>0, <1>3, <2>1 DEF TypeOK, Cancel
<1>4. ASSUME NEW slot \in Slot, NEW program \in Programs, NEW adapter \in Adapters,
             NEW data \in Data, NEW accounts \in SUBSET Forwardable,
             NEW outerSigners \in SUBSET (Keys \cap Forwardable),
             Execute(slot, program, adapter, data, accounts, outerSigners)
      PROVE  TypeOK'
  <2>1. vaults[slot.vaultId] # NoAccount
    BY <1>4 DEF Accounts, ProposalAccounts, Execute, IsQueued, Exists
  <2>2. /\ proposals' \in [Slot -> Proposal \cup {NoAccount}]
        /\ vaults' \in [Vaults -> Vault \cup {NoAccount}]
        /\ slot.vaultId \in Vaults
    BY <1>0, <1>4, <2>1, ExecuteEffect
  <2> DEFINE cpi == [slot |-> slot, program |-> program, data |-> data,
                     accounts |-> accounts,
                     signers |-> CpiSigners(accounts, outerSigners),
                     at |-> unix_timestamp]
  <2>3. cpi \in Cpi
    BY <1>0 DEF Cpi, CpiSigners, TypeOK, I64
  <2>4. cpis' = [cpis EXCEPT ![slot.vaultId] = Append(@, cpi)]  BY <1>4 DEF Execute
  <2> HIDE DEF cpi
  <2>5. cpis' \in [Vaults -> Seq(Cpi)]
    BY <1>0, <2>2, <2>3, <2>4 DEF TypeOK
  <2> QED BY <1>0, <1>4, <2>2, <2>5 DEF TypeOK, Execute
<1>5. ASSUME NEW key \in Keys, NEW slot \in Slot, NEW action \in Action,
             NEW signed_at \in SigningDates, NEW expires_at \in SigningExpiries,
             Sign(key, slot, action, signed_at, expires_at)
      PROVE  TypeOK'
  <2>1. signed_at \in I64 /\ expires_at \in I64  BY BoundAssumption
  <2>2. signatures' \subseteq Signature
    BY <1>0, <1>5, <2>1 DEF Sign, TypeOK, Signature
  <2> QED BY <1>0, <1>5, <2>2 DEF TypeOK, Sign
<1>6. ASSUME Tick PROVE TypeOK'
  BY <1>0, <1>6 DEF TypeOK, Tick
<1>7. ASSUME UNCHANGED vars PROVE TypeOK'
  BY <1>0, <1>7 DEF TypeOK, vars
<1> QED BY <1>1, <1>2, <1>3, <1>4, <1>5, <1>6, <1>7
        DEF Next, SomeQueue, SomeCancel, SomeExecute, SomeSign

\* Only queue_proposal vouches for a slot, the one it fills.
LEMMA VouchedStep ==
    ASSUME [Next]_vars, NEW slot, slot \in vouched', slot \notin vouched
    PROVE  \E v \in Vaults, action \in Action, expires_at \in I64, atts \in SUBSET Presentable :
             /\ QueueProposal(v, action, expires_at, atts)
             /\ slot = SlotAtNonce(v)
             /\ \A att \in atts : att.ed25519 = "verified"
<1>1. vouched' # vouched  OBVIOUS
<1>2. PICK v \in Vaults, action \in Action, expires_at \in I64, atts \in SUBSET Presentable :
          QueueProposal(v, action, expires_at, atts)
  BY ZenonT(40), <1>1
     DEF Next, vars, SomeQueue, SomeCancel, SomeExecute, SomeSign, InitVault, Cancel, Execute,
         Sign, Tick
<1>3. (\A att \in atts : att.ed25519 = "verified") /\ vouched' = vouched \cup {SlotAtNonce(v)}
  BY <1>1, <1>2 DEF QueueProposal
<1> QED BY <1>2, <1>3

\* Vault accounts pass init_vault's checks for ever, proposal accounts belong to
\* vaults, and what is vouched for exists.
THEOREM AccountsHold == Spec => []Accounts
<1>1. Init => Accounts
  BY DEF Init, Accounts, TypeOK, VaultAccounts, ProposalAccounts, VouchedAccounts, Exists
<1>2. Accounts /\ [Next]_vars => Accounts'
  <2> SUFFICES ASSUME Accounts, [Next]_vars PROVE Accounts'
    OBVIOUS
  <2>1. TypeOK'  BY TypeStep
  <2>2. VaultAccounts'
    <3> SUFFICES ASSUME NEW v \in Vaults, vaults'[v] # NoAccount
                 PROVE  VaultAccounts!(v)!2'
      BY DEF VaultAccounts
    <3>1. CASE vaults[v] # NoAccount
      BY <3>1, ConfigIsFrozen DEF Accounts, VaultAccounts
    <3>2. CASE vaults[v] = NoAccount
      <4>1. ASSUME NEW w \in Vaults, NEW a \in InitArgs, InitVault(w, a)
            PROVE  VaultAccounts!(v)!2'
        <5>1. w = v  BY <3>2, <4>1, InitVaultEffect DEF Accounts
        <5> QED BY <4>1, <5>1, InitVaultEffect
                DEF Accounts, InitVault, ValidSigners, ValidThresholds
      <4>2. ASSUME NEW slot \in Slot, NEW program \in Programs, NEW adapter \in Adapters,
                   NEW data \in Data, NEW accounts \in SUBSET Forwardable,
                   NEW outerSigners \in SUBSET (Keys \cap Forwardable),
                   Execute(slot, program, adapter, data, accounts, outerSigners)
            PROVE  FALSE
        <5>1. vaults[slot.vaultId] # NoAccount
          BY <4>2 DEF Accounts, ProposalAccounts, Execute, IsQueued, Exists
        <5> QED BY <3>2, <4>2, <5>1, ExecuteEffect DEF Accounts
      <4> QED BY <3>2, <4>1, <4>2
              DEF Next, vars, SomeQueue, SomeCancel, SomeExecute, SomeSign, QueueProposal, Cancel,
                  Sign, Tick
    <3> QED BY <3>1, <3>2
  <2>3. ProposalAccounts'
    <3> SUFFICES ASSUME NEW slot \in Slot, proposals'[slot] # NoAccount
                 PROVE  vaults'[slot.vaultId] # NoAccount
      BY DEF ProposalAccounts, Exists
    <3>1. slot.vaultId \in Vaults  BY DEF Slot
    <3>2. vaults[slot.vaultId] # NoAccount
      <4>1. CASE proposals[slot] # NoAccount
        BY <4>1 DEF Accounts, ProposalAccounts, Exists
      <4>2. CASE proposals[slot] = NoAccount
        <5>1. PICK v \in Vaults, action \in Action, expires_at \in I64,
                   atts \in SUBSET Presentable :
                     QueueProposal(v, action, expires_at, atts) /\ slot = SlotAtNonce(v)
          BY <4>2, ProposalStep DEF IsQueued
        <5> QED BY <5>1 DEF QueueProposal, SlotAtNonce
      <4> QED BY <4>1, <4>2
    <3> QED BY <3>1, <3>2, ConfigIsFrozen
  <2>4. VouchedAccounts'
    <3> SUFFICES ASSUME NEW slot \in vouched' PROVE proposals'[slot] # NoAccount
      BY DEF VouchedAccounts, Exists
    <3>1. slot \in Slot  BY <2>1 DEF TypeOK
    <3>2. CASE slot \in vouched
      <4>1. proposals[slot] # NoAccount  BY <3>2 DEF Accounts, VouchedAccounts, Exists
      <4> QED BY <3>1, <4>1, ProposalStep, SortAssumption
    <3>3. CASE slot \notin vouched
      <4>1. PICK v \in Vaults, action \in Action, expires_at \in I64,
                 atts \in SUBSET Presentable :
                   QueueProposal(v, action, expires_at, atts) /\ slot = SlotAtNonce(v)
        BY <3>3, VouchedStep
      <4> QED BY <4>1, QueueEffect, SortAssumption DEF Accounts
    <3> QED BY <3>2, <3>3
  <2> QED BY <2>1, <2>2, <2>3, <2>4 DEF Accounts
<1> QED BY <1>1, <1>2, PTL DEF Spec

\* Every account holds values of its fields' types, whatever the widths.
THEOREM TypeCorrect == Spec => []TypeOK
<1>1. Accounts => TypeOK  BY DEF Accounts
<1> QED BY <1>1, AccountsHold, PTL

------------------------------------------------------------------------------
(* Vetoes *)

\* Appending what a sequence of distinct elements does not hold keeps it one.
LEMMA AppendNew ==
    ASSUME NEW S, NEW s \in Seq(S), NEW e \in S, IsInjective(s), ~Contains(s, e)
    PROVE  /\ IsInjective(Append(s, e))
           /\ ToSet(Append(s, e)) = ToSet(s) \cup {e}
           /\ Len(Append(s, e)) = Len(s) + 1
<1> DEFINE n == Len(s)
           t == Append(s, e)
<1>1. /\ n \in Nat /\ DOMAIN s = 1..n /\ DOMAIN t = 1..(n + 1) /\ Len(t) = n + 1
      /\ \A i \in 1..n : t[i] = s[i]
      /\ t[n + 1] = e
  OBVIOUS
<1>2. \A i \in 1..n : s[i] # e  BY DEF Contains
<1>3. \A i, j \in 1..n : s[i] = s[j] => i = j  BY <1>1 DEF IsInjective
<1> HIDE DEF n, t
<1>4. IsInjective(t)
  <2> SUFFICES ASSUME NEW i \in 1..(n + 1), NEW j \in 1..(n + 1), t[i] = t[j]
               PROVE  i = j
    BY <1>1 DEF IsInjective
  <2> QED BY <1>1, <1>2, <1>3
<1>5. ToSet(t) = ToSet(s) \cup {e}
  <2>1. \A i \in 1..(n + 1) : i \in 1..n \/ i = n + 1  BY <1>1
  <2>2. \A i \in 1..n : i \in 1..(n + 1)  BY <1>1
  <2>3. n + 1 \in 1..(n + 1)  BY <1>1
  <2> QED BY <1>1, <2>1, <2>2, <2>3 DEF ToSet
<1> QED BY <1>1, <1>4, <1>5 DEF n, t

\* A sequence contains what is in the set of its elements.
LEMMA ContainsToSet ==
    ASSUME NEW S, NEW s \in Seq(S), NEW e
    PROVE  Contains(s, e) <=> e \in ToSet(s)
BY DEF Contains, ToSet

\* A sequence of distinct elements is as long as the set of them is large.
LEMMA DistinctElements ==
    ASSUME NEW S, NEW s \in Seq(S), IsInjective(s)
    PROVE  IsFiniteSet(ToSet(s)) /\ Cardinality(ToSet(s)) = Len(s)
<1> DEFINE n == Len(s)
<1>1. n \in Nat /\ DOMAIN s = 1..n  OBVIOUS
<1>2. s \in Bijection(1..n, ToSet(s))
  BY <1>1 DEF Bijection, Injection, Surjection, IsInjective, ToSet
<1>3. IsFiniteSet(1..n) /\ Cardinality(1..n) = n
  <2> HIDE DEF n
  <2>1. /\ IsFiniteSet(1..n)
        /\ Cardinality(1..n) = IF 1 > n THEN 0 ELSE n - 1 + 1
    BY <1>1, FS_Interval
  <2> QED BY <1>1, <2>1
<1> QED BY <1>2, <1>3, FS_Bijection DEF ExistsBijection

\* cancel adds a signer who was not there, and one to a count that has room for it.
LEMMA CancelCounts ==
    ASSUME Accounts, VetoCountsDistinctSigners, NEW slot \in Slot, NEW key \in Keys,
           Cancel(slot, key)
    PROVE  VetoCountsDistinctSigners!(slot)'
<1> DEFINE p == proposals[slot]
           q == proposals'[slot]
           vault == vaults[slot.vaultId]
<1>1. /\ p \in Proposal /\ p.state = "Queued" /\ q \in Proposal
      /\ q.cancel_count = SaturatingInc(p.cancel_count, MaxU8)
      /\ q.cancellers = Append(p.cancellers, key)
      /\ q.state = IF q.cancel_count >= vault.veto_threshold THEN "Cancelled" ELSE "Queued"
  BY CancelEffect DEF Accounts
<1>2. /\ IsInjective(p.cancellers) /\ ToSet(p.cancellers) \subseteq ToSet(vault.signers)
      /\ p.cancel_count = Len(p.cancellers)
  BY DEF VetoCountsDistinctSigners, Cancel, IsQueued, Exists
<1>3. /\ Contains(vault.signers, key) /\ ~Contains(p.cancellers, key)
      /\ Len(p.cancellers) < MAX_CANCELLERS
  BY DEF Cancel, MayCancel
<1>4. vault \in Vault /\ vaults' = vaults
  BY DEF Cancel, IsQueued, Exists, Accounts, ProposalAccounts, TypeOK, Slot
<1>5. p.cancellers \in Seq(Keys) /\ vault.signers \in Seq(Keys)
  BY <1>1, <1>4 DEF Proposal, Vault
<1>6. key \in ToSet(vault.signers)  BY <1>3, <1>5, ContainsToSet
<1>7. /\ IsInjective(q.cancellers) /\ ToSet(q.cancellers) = ToSet(p.cancellers) \cup {key}
      /\ Len(q.cancellers) = Len(p.cancellers) + 1
  BY <1>1, <1>2, <1>3, <1>5, AppendNew
<1>8. q.cancel_count = Len(q.cancellers)
  <2>1. Len(p.cancellers) \in Nat  BY <1>5
  <2> HIDE DEF p, q
  <2> QED BY <1>1, <1>2, <1>3, <1>7, <2>1 DEF SaturatingInc
<1>9. q.state = "Cancelled" <=> q.cancel_count >= vault.veto_threshold
  BY <1>1
<1> HIDE DEF p, q, vault
<1>10. /\ IsInjective(q.cancellers) /\ ToSet(q.cancellers) \subseteq ToSet(vault.signers)
       /\ q.cancel_count = Len(q.cancellers)
       /\ q.state = "Cancelled" <=> q.cancel_count >= vault.veto_threshold
  BY <1>2, <1>6, <1>7, <1>8, <1>9
<1> QED BY <1>4, <1>10 DEF VetoCountsDistinctSigners, p, q, vault

\* cancel_count counts distinct signers of the vault and nobody else, and Cancelled
\* means exactly that veto_threshold of them cancelled.
THEOREM VetoesAreCounted == Spec => []VetoCountsDistinctSigners
<1>1. Init => VetoCountsDistinctSigners
  BY DEF Init, VetoCountsDistinctSigners, Exists
<1>2. Accounts /\ Accounts' /\ VetoCountsDistinctSigners /\ [Next]_vars
        => VetoCountsDistinctSigners'
  <2> SUFFICES ASSUME Accounts, Accounts', VetoCountsDistinctSigners, [Next]_vars,
                      NEW slot \in Slot
               PROVE  VetoCountsDistinctSigners!(slot)'
    BY DEF VetoCountsDistinctSigners
  <2> DEFINE Goal == VetoCountsDistinctSigners!(slot)'
  <2>0. TypeOK /\ slot.vaultId \in Vaults  BY DEF Accounts, Slot
  <2>1. proposals'[slot] = proposals[slot] => Goal
    <3>1. CASE proposals[slot] = NoAccount
      BY <3>1 DEF VetoCountsDistinctSigners, Exists
    <3>2. CASE proposals[slot] # NoAccount
      <4>1. vaults[slot.vaultId] # NoAccount
        BY <3>2 DEF Accounts, ProposalAccounts, Exists
      <4>2. vaults'[slot.vaultId].signers = vaults[slot.vaultId].signers
            /\ vaults'[slot.vaultId].veto_threshold = vaults[slot.vaultId].veto_threshold
        BY <2>0, <4>1, ConfigIsFrozen
      <4> QED BY <4>2 DEF VetoCountsDistinctSigners, Exists
    <3> QED BY <3>1, <3>2
  <2>2. ASSUME NEW v \in Vaults, NEW action \in Action, NEW expires_at \in I64,
               NEW atts \in SUBSET Presentable, QueueProposal(v, action, expires_at, atts),
               slot = SlotAtNonce(v)
        PROVE  Goal
    <3>1. /\ proposals'[slot].cancel_count = 0 /\ proposals'[slot].cancellers = <<>>
          /\ proposals'[slot].state = "Queued" /\ slot.vaultId = v
      BY <2>0, <2>2, QueueEffect
    <3>2. vaults'[v] # NoAccount /\ vaults'[v].veto_threshold \in Nat
          /\ vaults'[v].veto_threshold > 0
      BY <2>2 DEF QueueProposal, Accounts, VaultAccounts, TypeOK, Vault, U8
    <3>3. IsInjective(<<>>)  BY DEF IsInjective
    <3>4. ToSet(<<>>) = {}   BY DEF ToSet
    <3> DEFINE p == proposals'[slot]
               vault == vaults'[slot.vaultId]
    <3>5. /\ IsInjective(p.cancellers) /\ p.cancel_count = Len(p.cancellers)
          /\ ToSet(p.cancellers) \subseteq ToSet(vault.signers)
      BY <3>1, <3>3, <3>4
    <3>6. p.state # "Cancelled" /\ ~(p.cancel_count >= vault.veto_threshold)
      BY <3>1, <3>2
    <3>7. Goal <=> (Exists(slot)' => /\ IsInjective(p.cancellers)
                                     /\ ToSet(p.cancellers) \subseteq ToSet(vault.signers)
                                     /\ p.cancel_count = Len(p.cancellers)
                                     /\ p.state = "Cancelled"
                                          <=> p.cancel_count >= vault.veto_threshold)
      OBVIOUS
    <3> HIDE DEF p, vault, Goal
    <3> QED BY <3>5, <3>6, <3>7
  <2>3. ASSUME NEW s \in Slot, NEW key \in Keys, Cancel(s, key)
        PROVE  Goal
    <3>1. VetoCountsDistinctSigners!(s)'
      BY <2>3, CancelCounts
    <3>2. s # slot => proposals'[slot] = proposals[slot]
      BY <2>0, <2>3, CancelEffect
    <3>3. CASE s = slot
      BY <3>1, <3>3
    <3>4. CASE s # slot
      <4> HIDE DEF Goal
      <4> QED BY <2>1, <3>2, <3>4
    <3> QED BY <3>3, <3>4
  <2>4. ASSUME NEW s \in Slot, NEW program \in Programs, NEW adapter \in Adapters,
               NEW data \in Data, NEW accounts \in SUBSET Forwardable,
               NEW outerSigners \in SUBSET (Keys \cap Forwardable),
               Execute(s, program, adapter, data, accounts, outerSigners)
        PROVE  Goal
    <3>1. vaults[s.vaultId] # NoAccount
      BY <2>4 DEF Accounts, ProposalAccounts, Execute, IsQueued, Exists
    <3>2. /\ proposals[s] \in Proposal /\ proposals[s].state = "Queued"
          /\ proposals'[s] = [proposals[s] EXCEPT !.state = "Executed"]
          /\ \A t \in Slot : t # s => proposals'[t] = proposals[t]
      BY <2>0, <2>4, <3>1, ExecuteEffect
    <3>3. CASE slot # s
      BY <2>1, <3>2, <3>3
    <3>4. CASE slot = s
      <4>1. /\ proposals'[slot].cancellers = proposals[slot].cancellers
            /\ proposals'[slot].cancel_count = proposals[slot].cancel_count
            /\ proposals'[slot].state = "Executed"
        BY <3>2, <3>4 DEF Proposal
      <4>2. /\ vaults'[slot.vaultId].signers = vaults[slot.vaultId].signers
            /\ vaults'[slot.vaultId].veto_threshold = vaults[slot.vaultId].veto_threshold
        BY <2>0, <3>1, <3>4, ConfigIsFrozen
      <4>3. proposals[slot] # NoAccount  BY <3>2, <3>4
      <4> QED BY <3>2, <3>4, <4>1, <4>2, <4>3 DEF VetoCountsDistinctSigners, Exists
    <3> QED BY <3>3, <3>4
  <2>5. ASSUME NEW v \in Vaults, NEW action \in Action, NEW expires_at \in I64,
               NEW atts \in SUBSET Presentable, QueueProposal(v, action, expires_at, atts)
        PROVE  Goal
    BY <2>0, <2>1, <2>2, <2>5, QueueEffect
  <2> HIDE DEF Goal
  <2>6. proposals' = proposals => Goal  BY <2>1
  <2>7. Goal
    BY <2>3, <2>4, <2>5, <2>6
       DEF Next, vars, SomeQueue, SomeCancel, SomeExecute, SomeSign, InitVault, Sign, Tick
  <2> QED BY <2>7 DEF Goal
<1> QED BY <1>1, <1>2, AccountsHold, PTL DEF Spec

\* The cancellers of a queued proposal are fewer than the signers while one of these
\* has not cancelled, and there are at most MAX_SIGNERS <= MAX_CANCELLERS of those.
THEOREM NobodyIsTurnedAway == Spec => []NoVetoIsTurnedAway
<1>1. Accounts /\ VetoCountsDistinctSigners => NoVetoIsTurnedAway
  <2> SUFFICES ASSUME Accounts, VetoCountsDistinctSigners, NEW slot \in Slot,
                      IsQueued(slot),
                      NEW k \in ToSet(vaults[slot.vaultId].signers)
                                  \ ToSet(proposals[slot].cancellers)
               PROVE  MayCancel(slot, k)
    BY DEF NoVetoIsTurnedAway
  <2> DEFINE signers == vaults[slot.vaultId].signers
             cancellers == proposals[slot].cancellers
  <2>1. slot.vaultId \in Vaults /\ vaults[slot.vaultId] \in Vault
        /\ vaults[slot.vaultId] # NoAccount
    BY DEF IsQueued, Exists, Accounts, ProposalAccounts, TypeOK, Slot
  <2>2. proposals[slot] \in Proposal  BY DEF IsQueued, Accounts, TypeOK
  <2>3. signers \in Seq(Keys) /\ cancellers \in Seq(Keys)
    BY <2>1, <2>2 DEF Vault, Proposal
  <2>4. IsInjective(signers) /\ Len(signers) <= MAX_SIGNERS
    BY <2>1 DEF Accounts, VaultAccounts
  <2>5. IsInjective(cancellers) /\ ToSet(cancellers) \subseteq ToSet(signers)
    BY DEF VetoCountsDistinctSigners, IsQueued, Exists
  <2> HIDE DEF signers, cancellers
  <2>6. /\ IsFiniteSet(ToSet(signers)) /\ Cardinality(ToSet(signers)) = Len(signers)
        /\ IsFiniteSet(ToSet(cancellers)) /\ Cardinality(ToSet(cancellers)) = Len(cancellers)
    BY <2>3, <2>4, <2>5, DistinctElements
  <2>7. Len(cancellers) < Len(signers)
    <3>1. k \in ToSet(signers) /\ k \notin ToSet(cancellers)  BY DEF signers, cancellers
    <3>2. Cardinality(ToSet(cancellers) \cup {k}) = Cardinality(ToSet(cancellers)) + 1
      BY <2>6, <3>1, FS_AddElement
    <3>3. Cardinality(ToSet(cancellers) \cup {k}) <= Cardinality(ToSet(signers))
      BY <2>5, <2>6, <3>1, FS_Subset
    <3>4. Len(cancellers) \in Nat /\ Len(signers) \in Nat  BY <2>3
    <3> QED BY <2>6, <3>2, <3>3, <3>4
  <2>8. Len(cancellers) < MAX_CANCELLERS
    <3>1. Len(cancellers) \in Nat /\ Len(signers) \in Nat  BY <2>3
    <3> QED BY <2>4, <2>7, <3>1
  <2>9. Contains(signers, k) /\ ~Contains(cancellers, k)
    BY <2>3, ContainsToSet DEF signers, cancellers
  <2> QED BY <2>8, <2>9 DEF MayCancel, signers, cancellers
<1> QED BY <1>1, AccountsHold, VetoesAreCounted, PTL

------------------------------------------------------------------------------
(* Settled proposals and blocked vaults *)

\* No instruction writes a settled proposal account again, and none changes what a
\* proposal is or when it was queued.
THEOREM SettledStaysSettled == Spec => SettledIsFinal
<1>1. Accounts /\ [Next]_vars =>
        \A slot \in Slot : Exists(slot) =>
          /\ proposals'[slot].action = proposals[slot].action
          /\ proposals'[slot].queued_at = proposals[slot].queued_at
          /\ proposals[slot].state # "Queued" => proposals'[slot] = proposals[slot]
  BY ProposalStep DEF Exists, IsQueued
<1> QED BY <1>1, AccountsHold, PTL DEF Spec, SettledIsFinal

\* A vault whose current proposal is settled or expired is written by no instruction.
LEMMA BlockedVaultKeeps ==
    ASSUME Accounts, [Next]_vars, NEW v \in Vaults, IsBlocked(v)
    PROVE  vaults'[v] = vaults[v] /\ cpis'[v] = cpis[v]
<1>0. TypeOK /\ vaults[v] # NoAccount  BY DEF Accounts, IsBlocked
<1>1. ASSUME NEW w \in Vaults, NEW a \in InitArgs, InitVault(w, a)
      PROVE  vaults'[v] = vaults[v] /\ cpis'[v] = cpis[v]
  <2>1. cpis' = cpis  BY <1>1 DEF InitVault
  <2> QED BY <1>0, <1>1, <2>1, InitVaultEffect
<1>2. ASSUME NEW s \in Slot, NEW program \in Programs, NEW adapter \in Adapters,
             NEW data \in Data, NEW accounts \in SUBSET Forwardable,
             NEW outerSigners \in SUBSET (Keys \cap Forwardable),
             Execute(s, program, adapter, data, accounts, outerSigners)
      PROVE  vaults'[v] = vaults[v] /\ cpis'[v] = cpis[v]
  <2>1. vaults[s.vaultId] # NoAccount
    BY <1>2 DEF Accounts, ProposalAccounts, Execute, IsQueued, Exists
  <2>2. /\ s = SlotAtNonce(s.vaultId) /\ proposals[s].state = "Queued"
        /\ \A w \in Vaults : w # s.vaultId => vaults'[w] = vaults[w] /\ cpis'[w] = cpis[w]
    BY <1>0, <1>2, <2>1, ExecuteEffect
  <2>3. s.vaultId # v
    <3> SUFFICES ASSUME s = SlotAtNonce(v) PROVE FALSE
      BY <2>2
    <3>1. proposals[s].expires_at >= unix_timestamp  BY <1>2 DEF Execute
    <3>2. proposals[s] \in Proposal /\ unix_timestamp \in Int
      BY <1>0, <1>2 DEF Execute, IsQueued, TypeOK
    <3>3. proposals[s].expires_at \in Int  BY <3>2 DEF Proposal, I64
    <3> QED BY <2>2, <3>1, <3>2, <3>3 DEF IsBlocked, IsStale, InState
  <2> QED BY <2>2, <2>3
<1> QED BY <1>1, <1>2
       DEF Next, vars, SomeQueue, SomeCancel, SomeExecute, SomeSign, QueueProposal, Cancel, Sign, Tick

\* Once the proposal at a vault's current nonce is cancelled or has expired, nothing is
\* queued or executed for that vault again: its accounts but for vetoes stay as they are.
THEOREM BlockedForEver == Spec => BlockedVaultsStayBlocked
<1>1. Accounts /\ Accounts' /\ [Next]_vars =>
        \A v \in Vaults : IsBlocked(v) =>
          /\ IsBlocked(v)'
          /\ vaults'[v] = vaults[v] /\ cpis'[v] = cpis[v]
          /\ \A n \in U64 : LET slot == [vaultId |-> v, nonce |-> n]
                            IN  proposals'[slot] = proposals[slot] \/ IsQueued(slot)
  <2> SUFFICES ASSUME Accounts, Accounts', [Next]_vars, NEW v \in Vaults, IsBlocked(v)
               PROVE  /\ IsBlocked(v)'
                      /\ vaults'[v] = vaults[v] /\ cpis'[v] = cpis[v]
                      /\ \A n \in U64 :
                           \/ proposals'[[vaultId |-> v, nonce |-> n]]
                                = proposals[[vaultId |-> v, nonce |-> n]]
                           \/ IsQueued([vaultId |-> v, nonce |-> n])
    OBVIOUS
  <2> DEFINE slot == SlotAtNonce(v)
  <2>0. TypeOK /\ TypeOK' /\ vaults[v] # NoAccount  BY DEF Accounts, IsBlocked
  <2>1. vaults'[v] = vaults[v] /\ cpis'[v] = cpis[v]  BY BlockedVaultKeeps
  <2>2. slot \in Slot /\ proposals[slot] # NoAccount
    BY <2>0, SlotAtNonceType DEF IsBlocked, Exists
  <2>3. slot' = slot  BY <2>1 DEF SlotAtNonce
  <2>4. unix_timestamp \in Nat /\ unix_timestamp' \in Nat
        /\ unix_timestamp <= unix_timestamp'
    <3>1. unix_timestamp \in Nat /\ unix_timestamp' \in Nat  BY <2>0 DEF TypeOK
    <3>2. unix_timestamp' = unix_timestamp \/ unix_timestamp' = unix_timestamp + 1
      BY ZenonT(40) DEF Next, vars, SomeQueue, SomeCancel, SomeExecute, SomeSign, InitVault, QueueProposal,
             Cancel, Execute, Sign, Tick
    <3> QED BY <3>1, <3>2
  <2>5. IsBlocked(v)'
    <3> DEFINE p == proposals[slot]
               q == proposals'[slot]
    <3>1. p \in Proposal  BY <2>0, <2>2 DEF TypeOK
    <3>2. p.state = "Cancelled" \/ p.expires_at < unix_timestamp
      BY DEF IsBlocked, IsStale, InState
    <3>3. q = p \/ (p.state = "Queued" /\ q \in Proposal /\ q.expires_at = p.expires_at)
      BY <2>2, ProposalStep DEF IsQueued
    <3>4. p.expires_at \in Int  BY <3>1 DEF Proposal, I64
    <3>5. q # NoAccount /\ (q.state = "Cancelled" \/ q.expires_at < unix_timestamp')
      <4> HIDE DEF p, q, slot
      <4> QED BY <2>2, <2>4, <3>1, <3>2, <3>3, <3>4 DEF p
    <3>6. proposals'[SlotAtNonce(v)'] = q  BY <2>3
    <3> HIDE DEF p, q, slot
    <3> QED BY <2>0, <2>1, <3>5, <3>6 DEF IsBlocked, IsStale, InState, Exists
  <2>6. ASSUME NEW n \in U64
        PROVE  \/ proposals'[[vaultId |-> v, nonce |-> n]]
                    = proposals[[vaultId |-> v, nonce |-> n]]
               \/ IsQueued([vaultId |-> v, nonce |-> n])
    <3> DEFINE s == [vaultId |-> v, nonce |-> n]
    <3>1. s \in Slot /\ s.vaultId = v  BY DEF Slot
    <3>2. CASE proposals[s] = NoAccount
      <4>1. ASSUME NEW w \in Vaults, NEW action \in Action, NEW expires_at \in I64,
                   NEW atts \in SUBSET Presentable,
                   QueueProposal(w, action, expires_at, atts), s = SlotAtNonce(w)
            PROVE  FALSE
        <5>1. w = v  BY <3>1, <4>1 DEF SlotAtNonce
        <5> QED BY <2>2, <4>1, <5>1 DEF QueueProposal, IsFree
      <4> HIDE DEF s
      <4>2. proposals'[s] = proposals[s]
        BY <3>1, <3>2, <4>1, ProposalStep DEF IsQueued
      <4> QED BY <4>2 DEF s
    <3>3. CASE proposals[s] # NoAccount
      <4> HIDE DEF s
      <4>1. proposals'[s] = proposals[s] \/ IsQueued(s)
        BY <3>1, <3>3, ProposalStep
      <4> QED BY <4>1 DEF s
    <3> QED BY <3>2, <3>3
  <2> QED BY <2>1, <2>5, <2>6
<1> QED BY <1>1, AccountsHold, PTL DEF Spec, BlockedVaultsStayBlocked

------------------------------------------------------------------------------
(* A fresh quorum behind every proposal *)

\* A sum that fits in an i64 is what the machine computes.
LEMMA WrapInRange ==
    ASSUME NEW x \in I64
    PROVE  Wrap(x) = x
<1> DEFINE m == 2 * (MaxI64 + 1)
           y == x + MaxI64 + 1
<1>1. m \in Nat /\ m > 0 /\ y \in Nat /\ y < m  BY DEF I64
<1>2. y % m = y
  <2> HIDE DEF m, y
  <2> QED BY <1>1
<1>3. Wrap(x) = (y % m) - (MaxI64 + 1)  BY DEF Wrap
<1>4. y - (MaxI64 + 1) = x  BY DEF I64
<1> HIDE DEF m, y
<1> QED BY <1>2, <1>3, <1>4

\* A sum of two overflows away from an i64 is taken back to it.
LEMMA WrapBack ==
    ASSUME NEW x \in I64
    PROVE  /\ Wrap(x + 2 * (MaxI64 + 1)) = x
           /\ Wrap(x - 2 * (MaxI64 + 1)) = x
<1> DEFINE m == 2 * (MaxI64 + 1)
           y == x + MaxI64 + 1
<1>1. m \in Nat /\ m > 0 /\ y \in Nat /\ y < m  BY WidthAssumption DEF I64
<1>2. /\ Wrap(x + m) = ((y + m) % m) - (MaxI64 + 1)
      /\ Wrap(x - m) = ((y - m) % m) - (MaxI64 + 1)
  <2>1. (x + m) + MaxI64 + 1 = y + m /\ (x - m) + MaxI64 + 1 = y - m
    BY WidthAssumption DEF I64
  <2> HIDE DEF y
  <2> QED BY <2>1 DEF Wrap
<1>3. y - (MaxI64 + 1) = x  BY WidthAssumption DEF I64
<1> HIDE DEF m, y
<1>4. (y + m) % m = y /\ (y - m) % m = y  BY <1>1
<1> QED BY <1>2, <1>3, <1>4 DEF m

\* What the transaction presents has the fields of an attestation.
LEMMA PresentedTypes ==
    ASSUME TypeOK, NEW att \in Presentable
    PROVE  att.signed_at \in I64 /\ att.expires_at \in I64
<1>1. CASE att \in Carriable
  BY <1>1, BoundAssumption DEF Attestation
<1>2. ASSUME NEW s \in signatures,
             att = [signer |-> s.signer, signed_at |-> s.signed_at, expires_at |-> s.expires_at,
                    ed25519 |-> "verified"]
      PROVE  att.signed_at \in I64 /\ att.expires_at \in I64
  <2>1. s \in Signature  BY DEF TypeOK
  <2> QED BY <1>2, <2>1 DEF Signature
<1> QED BY <1>1, <1>2 DEF Presentable

\* A signature that queue_proposal would take for a fresh one.
Backs(sig, slot) == Covers(sig, slot) /\ (IsFresh(sig, slot) \/ AgeWraps(sig, slot))

\* The signers of a vault with a signature that could have backed a proposal.
Backers(slot) ==
    {k \in ToSet(vaults[slot.vaultId].signers) :
        \E sig \in signatures : sig.signer = k /\ Backs(sig, slot)}

\* They are finitely many.
LEMMA BackersAreFinite ==
    ASSUME Accounts, NEW slot \in Slot, Exists(slot)
    PROVE  IsFiniteSet(Backers(slot))
<1>1. vaults[slot.vaultId] \in Vault /\ vaults[slot.vaultId] # NoAccount
      /\ slot.vaultId \in Vaults
  BY DEF Accounts, ProposalAccounts, TypeOK, Slot
<1>2. vaults[slot.vaultId].signers \in Seq(Keys)
      /\ IsInjective(vaults[slot.vaultId].signers)
  BY <1>1 DEF Vault, Accounts, VaultAccounts
<1>3. IsFiniteSet(ToSet(vaults[slot.vaultId].signers))  BY <1>2, DistinctElements
<1>4. Backers(slot) \in SUBSET ToSet(vaults[slot.vaultId].signers)  BY DEF Backers
<1> QED BY <1>3, <1>4, FS_Subset

\* Whoever backs a proposal backs it for ever.
LEMMA BackersStay ==
    ASSUME Accounts, [Next]_vars, NEW slot \in Slot, Exists(slot)
    PROVE  Backers(slot) \subseteq Backers(slot)'
<1>1. /\ proposals'[slot].action = proposals[slot].action
      /\ proposals'[slot].queued_at = proposals[slot].queued_at
      /\ proposals'[slot].expires_at = proposals[slot].expires_at
  BY ProposalStep DEF Exists
<1>2. slot.vaultId \in Vaults /\ vaults[slot.vaultId] # NoAccount
  BY DEF Accounts, ProposalAccounts, Slot
<1>3. /\ vaults'[slot.vaultId].signers = vaults[slot.vaultId].signers
      /\ vaults'[slot.vaultId].fresh_window_secs = vaults[slot.vaultId].fresh_window_secs
  BY <1>2, ConfigIsFrozen
<1>4. signatures \subseteq signatures'
  BY ZenonT(40) DEF Next, vars, SomeQueue, SomeCancel, SomeExecute, SomeSign, InitVault, QueueProposal, Cancel,
         Execute, Sign, Tick
<1> QED BY <1>1, <1>3, <1>4 DEF Backers, Backs, Covers, IsFresh, AgeWraps, AgeAtQueue

\* Attestations by different signers number no more than their signers.
LEMMA AttestationsCountSigners ==
    ASSUME NEW atts, NEW keys, IsFiniteSet(keys), OnePerSigner(atts),
           \A a \in atts : a.signer \in keys
    PROVE  IsFiniteSet(atts) /\ Cardinality(atts) <= Cardinality(keys)
<1> DEFINE f == [a \in atts |-> a.signer]
<1>1. f \in Injection(atts, keys)
  BY DEF Injection, IsInjective, OnePerSigner
<1> HIDE DEF f
<1> QED BY <1>1, FS_Injection

\* The attestations that queue_proposal accepts make a quorum of backers: each is for
\* the new proposal's slot and action and was fresh at its queued_at.
LEMMA QueueFindsBackers ==
    ASSUME Accounts, Accounts', NEW v \in Vaults, NEW action \in Action,
           NEW expires_at \in I64, NEW atts \in SUBSET Presentable,
           QueueProposal(v, action, expires_at, atts), NEW slot, slot = SlotAtNonce(v),
           \A att \in atts : att.ed25519 = "verified"
    PROVE  /\ IsFiniteSet(atts) /\ IsFiniteSet(Backers(slot)')
           /\ Cardinality(atts) <= Cardinality(Backers(slot)')
<1>1. /\ slot \in Slot /\ slot.vaultId = v
      /\ proposals'[slot] # NoAccount
      /\ proposals'[slot].action = action
      /\ proposals'[slot].queued_at = unix_timestamp
      /\ proposals'[slot].expires_at = expires_at
  BY QueueEffect DEF Accounts
<1>2. vaults' = vaults /\ signatures' = signatures  BY DEF QueueProposal
<1>3. VerifyAttestations(slot, action, expires_at, atts)  BY DEF QueueProposal
<1>4. ASSUME NEW a \in atts PROVE a.signer \in Backers(slot)'
  <2> DEFINE sig == [signer |-> a.signer, slot |-> slot, action |-> action,
                     signed_at |-> a.signed_at, expires_at |-> a.expires_at]
  <2>1. VerifyAttestation(slot, action, expires_at, a)  BY <1>3 DEF VerifyAttestations
  <2>2. sig \in signatures  BY <2>1 DEF VerifyAttestation, Ed25519Verifies, IsSigned
  <2>3. a.signer \in ToSet(vaults[v].signers)
    <3>1. vaults[v].signers \in Seq(Keys)
      BY DEF QueueProposal, Accounts, TypeOK, Vault
    <3> QED BY <1>1, <2>1, <3>1, ContainsToSet DEF VerifyAttestation
  <2>4. \/ unix_timestamp - a.signed_at <= vaults[v].fresh_window_secs
        \/ ~OverflowChecks /\ unix_timestamp - a.signed_at > MaxI64
    <3>1. a \in Presentable /\ TypeOK  BY DEF Accounts
    <3>2. a.signed_at \in I64 /\ a.signed_at <= unix_timestamp
      BY <2>1, <3>1, PresentedTypes DEF VerifyAttestation
    <3>3. unix_timestamp \in Int  BY <3>1 DEF TypeOK
    <3> DEFINE age == unix_timestamp - a.signed_at
    <3>4. Defined(age) /\ Wrap(age) <= vaults[v].fresh_window_secs
      BY <1>1, <2>1 DEF VerifyAttestation
    <3>5. age \in Int /\ age >= 0  BY <3>2, <3>3 DEF I64
    <3> HIDE DEF age
    <3>6. CASE age <= MaxI64
      <4>1. age \in I64  BY <3>5, <3>6, WidthAssumption DEF I64
      <4> QED BY <3>4, <4>1, WrapInRange DEF age
    <3>7. CASE age > MaxI64
      <4>1. age \notin I64  BY <3>5, <3>7, WidthAssumption DEF I64
      <4> QED BY <3>4, <3>7, <4>1 DEF Defined, age
    <3> QED BY <3>5, <3>6, <3>7, WidthAssumption
  <2>5. Backs(sig, slot)'
    <3>1. Covers(sig, slot)'
      BY <1>1, <1>2, <2>1 DEF VerifyAttestation, Covers
    <3>2. AgeAtQueue(sig, slot)' = unix_timestamp - a.signed_at
      BY <1>1 DEF AgeAtQueue
    <3>3. vaults'[slot.vaultId].fresh_window_secs = vaults[v].fresh_window_secs
      BY <1>1, <1>2
    <3> QED BY <2>4, <3>1, <3>2, <3>3 DEF Backs, IsFresh, AgeWraps
  <2>6. sig \in signatures' /\ sig.signer = a.signer  BY <1>2, <2>2
  <2>7. a.signer \in ToSet(vaults'[slot.vaultId].signers)  BY <1>1, <1>2, <2>3
  <2> HIDE DEF sig
  <2> QED BY <2>5, <2>6, <2>7 DEF Backers
<1>5. IsFiniteSet(Backers(slot)')
  <2>1. vaults'[v] \in Vault /\ vaults'[v] # NoAccount
    BY <1>2 DEF QueueProposal, Accounts, TypeOK
  <2>2. vaults'[v].signers \in Seq(Keys) /\ IsInjective(vaults'[v].signers)
    BY <2>1 DEF Vault, Accounts, VaultAccounts
  <2>3. IsFiniteSet(ToSet(vaults'[v].signers))  BY <2>2, DistinctElements
  <2>4. Backers(slot)' \in SUBSET ToSet(vaults'[v].signers)  BY <1>1 DEF Backers
  <2> QED BY <2>3, <2>4, FS_Subset
<1>6. OnePerSigner(atts)  BY <1>3 DEF VerifyAttestations
<1> QED BY <1>4, <1>5, <1>6, AttestationsCountSigners

\* Behind every proposal whose attestations the ed25519 program has verified stands a
\* quorum of fresh signatures by distinct signers of its vault over that action at that
\* nonce, in a build with overflow checks or without.
THEOREM QuorumIsFresh == Spec => []QueuedWithFreshQuorum
<1>1. Init => QueuedWithFreshQuorum
  BY DEF Init, QueuedWithFreshQuorum
<1>2. Accounts /\ Accounts' /\ QueuedWithFreshQuorum /\ [Next]_vars => QueuedWithFreshQuorum'
  <2> SUFFICES ASSUME Accounts, Accounts', QueuedWithFreshQuorum, [Next]_vars,
                      NEW slot \in vouched'
               PROVE  Cardinality(Backers(slot)') >= vaults'[slot.vaultId].threshold
    BY DEF QueuedWithFreshQuorum, Backers, Backs
  <2>0. slot \in Slot  BY DEF Accounts, TypeOK
  <2>1. CASE slot \in vouched
    <3>0. Exists(slot)  BY <2>1 DEF Accounts, VouchedAccounts
    <3>1. Backers(slot) \subseteq Backers(slot)'  BY <2>0, <3>0, BackersStay
    <3>2. slot.vaultId \in Vaults /\ vaults[slot.vaultId] # NoAccount
      BY <2>0, <3>0 DEF Accounts, ProposalAccounts, Slot
    <3>3. vaults'[slot.vaultId] # NoAccount
          /\ vaults'[slot.vaultId].threshold = vaults[slot.vaultId].threshold
          /\ vaults[slot.vaultId] \in Vault
      BY <3>2, ConfigIsFrozen
    <3>4. IsFiniteSet(Backers(slot)')
      <4>1. vaults'[slot.vaultId] \in Vault  BY <3>2, <3>3 DEF Accounts, TypeOK
      <4>2. vaults'[slot.vaultId].signers \in Seq(Keys)
            /\ IsInjective(vaults'[slot.vaultId].signers)
        BY <3>2, <3>3, <4>1 DEF Vault, Accounts, VaultAccounts
      <4>3. IsFiniteSet(ToSet(vaults'[slot.vaultId].signers))  BY <4>2, DistinctElements
      <4>4. Backers(slot)' \in SUBSET ToSet(vaults'[slot.vaultId].signers)  BY DEF Backers
      <4> QED BY <4>3, <4>4, FS_Subset
    <3>5. Cardinality(Backers(slot)) <= Cardinality(Backers(slot)')
      BY <3>1, <3>4, FS_Subset
    <3>6. Cardinality(Backers(slot)) \in Nat /\ Cardinality(Backers(slot)') \in Nat
      BY <2>0, <3>0, <3>4, BackersAreFinite, FS_CardinalityType
    <3>7. Cardinality(Backers(slot)) >= vaults[slot.vaultId].threshold
      BY <2>1 DEF QueuedWithFreshQuorum, Backers, Backs
    <3>8. vaults[slot.vaultId].threshold \in Nat  BY <3>3 DEF Vault, U8
    <3> QED BY <3>3, <3>5, <3>6, <3>7, <3>8
  <2>2. CASE slot \notin vouched
    <3>1. PICK v \in Vaults, action \in Action, expires_at \in I64,
               atts \in SUBSET Presentable :
                 /\ QueueProposal(v, action, expires_at, atts) /\ slot = SlotAtNonce(v)
                 /\ \A att \in atts : att.ed25519 = "verified"
      BY <2>2, VouchedStep
    <3>2. /\ IsFiniteSet(atts) /\ IsFiniteSet(Backers(slot)')
          /\ Cardinality(atts) <= Cardinality(Backers(slot)')
      BY <3>1, QueueFindsBackers
    <3>3. slot.vaultId = v /\ vaults' = vaults /\ vaults[v] # NoAccount
          /\ Cardinality(atts) >= vaults[v].threshold
      BY <3>1 DEF QueueProposal, VerifyAttestations, SlotAtNonce
    <3>4. vaults[v].threshold \in Nat
      BY <3>3 DEF Accounts, TypeOK, Vault, U8
    <3>5. Cardinality(atts) \in Nat /\ Cardinality(Backers(slot)') \in Nat
      BY <3>2, FS_CardinalityType
    <3> QED BY <3>2, <3>3, <3>4, <3>5
  <2> QED BY <2>1, <2>2
<1> QED BY <1>1, <1>2, AccountsHold, PTL DEF Spec

------------------------------------------------------------------------------
(* One CPI per nonce *)

\* The instruction that invokes a CPI, with some arguments.
Executes(slot) ==
    \E program \in Programs, adapter \in Adapters, data \in Data,
       accounts \in SUBSET Forwardable, outerSigners \in SUBSET (Keys \cap Forwardable) :
          Execute(slot, program, adapter, data, accounts, outerSigners)

\* Only execute invokes a CPI, moves the nonce of an existing vault or makes a proposal
\* Executed.
LEMMA OnlyExecuteExecutes ==
    ASSUME Accounts, [Next]_vars, ~ \E slot \in Slot : Executes(slot)
    PROVE  /\ cpis' = cpis
           /\ \A v \in Vaults : vaults[v] # NoAccount => vaults'[v] = vaults[v]
           /\ \A slot \in Slot : InState(slot, "Executed")' <=> InState(slot, "Executed")
<1>0. TypeOK /\ ~SomeExecute  BY DEF Accounts, Executes, SomeExecute
<1>1. cpis' = cpis
  BY <1>0 DEF Next, vars, SomeQueue, SomeCancel, SomeSign, InitVault, QueueProposal, Cancel, Sign, Tick
<1>2. ASSUME NEW v \in Vaults, vaults[v] # NoAccount
      PROVE  vaults'[v] = vaults[v]
  <2>1. ASSUME NEW w \in Vaults, NEW a \in InitArgs, InitVault(w, a)
        PROVE  vaults'[v] = vaults[v]
    BY <1>0, <1>2, <2>1, InitVaultEffect
  <2> QED BY <1>0, <2>1
          DEF Next, vars, SomeQueue, SomeCancel, SomeSign, QueueProposal, Cancel, Sign, Tick
<1>3. ASSUME NEW slot \in Slot
      PROVE  InState(slot, "Executed")' <=> InState(slot, "Executed")
  <2> DEFINE Goal == InState(slot, "Executed")' <=> InState(slot, "Executed")
  <2>1. proposals'[slot] = proposals[slot] => Goal
    BY DEF InState, Exists
  <2>2. ASSUME NEW v \in Vaults, NEW action \in Action, NEW expires_at \in I64,
               NEW atts \in SUBSET Presentable, QueueProposal(v, action, expires_at, atts)
        PROVE  Goal
    BY <1>0, <2>1, <2>2, QueueEffect DEF InState, Exists
  <2>3. ASSUME NEW s \in Slot, NEW key \in Keys, Cancel(s, key)
        PROVE  Goal
    BY <1>0, <2>1, <2>3, CancelEffect DEF InState, Exists
  <2> HIDE DEF Goal
  <2>4. proposals' = proposals => Goal  BY <2>1
  <2>5. Goal
    BY <1>0, <2>2, <2>3, <2>4 DEF Next, vars, SomeQueue, SomeCancel, SomeSign, InitVault, Sign, Tick
  <2> QED BY <2>5 DEF Goal
<1> QED BY <1>1, <1>2, <1>3

\* What CallsAreSerial says of one vault, part by part.
CpisInOrder(v) ==
    \A i \in DOMAIN cpis[v] :
        /\ cpis[v][i].slot = [vaultId |-> v, nonce |-> i - 1]
        /\ cpis[v][i].data = proposals[cpis[v][i].slot].action.instruction_data_hash

ExecutedBelow(v) ==
    \A n \in U64 : InState([vaultId |-> v, nonce |-> n], "Executed") <=> n < Len(cpis[v])

NothingAbove(v) ==
    vaults[v] # NoAccount =>
        /\ vaults[v].nonce = IF Len(cpis[v]) < MaxU64 THEN Len(cpis[v]) ELSE MaxU64
        /\ \A n \in U64 : n > vaults[v].nonce => ~Exists([vaultId |-> v, nonce |-> n])

\* A CPI in the log of a vault is that of one of its Executed proposals.
LEMMA InvokedIsExecuted ==
    ASSUME Accounts, NEW v \in Vaults, CpisInOrder(v), ExecutedBelow(v),
           NEW i \in DOMAIN cpis[v]
    PROVE  /\ cpis[v][i].slot \in Slot
           /\ cpis[v][i].slot.vaultId = v
           /\ InState(cpis[v][i].slot, "Executed")
<1>1. cpis[v] \in Seq(Cpi)  BY DEF Accounts, TypeOK
<1>2. cpis[v][i] \in Cpi /\ i \in 1..Len(cpis[v]) /\ Len(cpis[v]) \in Nat  BY <1>1
<1>3. cpis[v][i].slot \in Slot  BY <1>2 DEF Cpi
<1>4. cpis[v][i].slot = [vaultId |-> v, nonce |-> i - 1]  BY DEF CpisInOrder
<1>5. i - 1 \in U64  BY <1>3, <1>4 DEF Slot
<1>6. i - 1 < Len(cpis[v])  BY <1>2
<1> QED BY <1>3, <1>4, <1>5, <1>6 DEF ExecutedBelow

\* execute appends the CPI of the current nonce and moves the nonce past it, or leaves
\* it at u64::MAX, where nothing can be queued any more.
LEMMA ExecuteIsSerial ==
    ASSUME Accounts, Accounts', NEW slot \in Slot, Executes(slot),
           NEW v \in Vaults, CpisInOrder(v), ExecutedBelow(v), NothingAbove(v)
    PROVE  CpisInOrder(v)' /\ ExecutedBelow(v)' /\ NothingAbove(v)'
<1>0. PICK program \in Programs, adapter \in Adapters, data \in Data,
           accounts \in SUBSET Forwardable, outerSigners \in SUBSET (Keys \cap Forwardable) :
             Execute(slot, program, adapter, data, accounts, outerSigners)
  BY DEF Executes
<1>1. vaults[slot.vaultId] # NoAccount
  BY <1>0 DEF Accounts, ProposalAccounts, Execute, IsQueued, Exists
<1>2. /\ proposals[slot] \in Proposal /\ proposals[slot].state = "Queued"
      /\ proposals'[slot] = [proposals[slot] EXCEPT !.state = "Executed"]
      /\ proposals'[slot] \in Proposal
      /\ \A s \in Slot : s # slot => proposals'[s] = proposals[s]
      /\ slot = SlotAtNonce(slot.vaultId)
      /\ vaults[slot.vaultId] \in Vault
      /\ vaults'[slot.vaultId] =
            [vaults[slot.vaultId] EXCEPT !.nonce = SaturatingInc(@, MaxU64)]
      /\ \A w \in Vaults : w # slot.vaultId => vaults'[w] = vaults[w] /\ cpis'[w] = cpis[w]
  BY <1>0, <1>1, ExecuteEffect DEF Accounts
<1>3. /\ proposals'[slot].action = proposals[slot].action
      /\ proposals'[slot].state = "Executed" /\ proposals'[slot] # NoAccount
  BY <1>2 DEF Proposal
<1>4. \A n \in U64 : [vaultId |-> v, nonce |-> n] \in Slot  BY DEF Slot
<1>5. CASE v # slot.vaultId
  <2>1. \A n \in U64 : proposals'[[vaultId |-> v, nonce |-> n]]
                         = proposals[[vaultId |-> v, nonce |-> n]]
    BY <1>2, <1>4, <1>5
  <2>2. cpis'[v] = cpis[v] /\ vaults'[v] = vaults[v]  BY <1>2, <1>5
  <2>3. CpisInOrder(v)'
    <3> SUFFICES ASSUME NEW i \in DOMAIN cpis[v]
                 PROVE  /\ cpis'[v][i].slot = [vaultId |-> v, nonce |-> i - 1]
                        /\ cpis'[v][i].data =
                             proposals'[cpis'[v][i].slot].action.instruction_data_hash
      BY <2>2 DEF CpisInOrder
    <3>1. cpis[v][i].slot \in Slot /\ cpis[v][i].slot # slot
      BY <1>5, InvokedIsExecuted
    <3> QED BY <1>2, <2>2, <3>1 DEF CpisInOrder
  <2>4. ExecutedBelow(v)'
    BY <2>1, <2>2 DEF ExecutedBelow, InState, Exists
  <2>5. NothingAbove(v)'
    BY <2>1, <2>2 DEF NothingAbove, Exists
  <2> QED BY <2>3, <2>4, <2>5
<1>6. CASE v = slot.vaultId
  <2> DEFINE cpi == [slot |-> slot, program |-> program, data |-> data,
                     accounts |-> accounts,
                     signers |-> CpiSigners(accounts, outerSigners),
                     at |-> unix_timestamp]
             len == Len(cpis[v])
  <2>1. cpis' = [cpis EXCEPT ![v] = Append(@, cpi)]
        /\ data = proposals[slot].action.instruction_data_hash
    BY <1>0, <1>6 DEF Execute, DataMatches
  <2>2. cpi.slot = slot /\ cpi.data = data  OBVIOUS
  <2>3. cpis[v] \in Seq(Cpi) /\ cpis \in [Vaults -> Seq(Cpi)]
    BY DEF Accounts, TypeOK
  <2> HIDE DEF cpi
  <2>4. /\ len \in Nat /\ DOMAIN cpis[v] = 1..len
        /\ Len(cpis'[v]) = len + 1 /\ DOMAIN cpis'[v] = 1..(len + 1)
        /\ \A i \in 1..len : cpis'[v][i] = cpis[v][i]
        /\ cpis'[v][len + 1] = cpi
    <3>1. cpis'[v] = Append(cpis[v], cpi)  BY <2>1, <2>3
    <3> QED BY <2>3, <3>1
  <2> HIDE DEF len
  <2>5. slot.nonce = vaults[v].nonce /\ vaults[v].nonce \in U64
        /\ slot = [vaultId |-> v, nonce |-> vaults[v].nonce]
    BY <1>2, <1>6 DEF SlotAtNonce, Vault
  <2>6. vaults[v].nonce = IF len < MaxU64 THEN len ELSE MaxU64
    BY <1>1, <1>6 DEF NothingAbove, len
  <2>7. vaults[v].nonce = len /\ len <= MaxU64
    <3>1. ~InState(slot, "Executed")  BY <1>2 DEF InState
    <3>2. ~(vaults[v].nonce < len)  BY <2>5, <3>1 DEF ExecutedBelow, len
    <3> QED BY <2>4, <2>6, <3>2
  <2>8. vaults'[v].nonce = IF len + 1 < MaxU64 THEN len + 1 ELSE MaxU64
    <3>1. vaults'[v].nonce = SaturatingInc(vaults[v].nonce, MaxU64)
      BY <1>2, <1>6 DEF Vault
    <3> QED BY <2>4, <2>7, <3>1 DEF SaturatingInc
  <2>9. CpisInOrder(v)'
    <3> SUFFICES ASSUME NEW i \in 1..(len + 1)
                 PROVE  /\ cpis'[v][i].slot = [vaultId |-> v, nonce |-> i - 1]
                        /\ cpis'[v][i].data =
                             proposals'[cpis'[v][i].slot].action.instruction_data_hash
      BY <2>4 DEF CpisInOrder
    <3>1. CASE i \in 1..len
      <4>1. cpis[v][i].slot = [vaultId |-> v, nonce |-> i - 1]
            /\ cpis[v][i].data = proposals[cpis[v][i].slot].action.instruction_data_hash
        BY <2>4, <3>1 DEF CpisInOrder
      <4>2. cpis[v][i].slot \in Slot /\ InState(cpis[v][i].slot, "Executed")
        BY <2>4, <3>1, InvokedIsExecuted
      <4>3. cpis[v][i].slot # slot  BY <1>2, <4>2 DEF InState
      <4>4. proposals'[cpis[v][i].slot] = proposals[cpis[v][i].slot]
        BY <1>2, <4>2, <4>3
      <4>5. cpis'[v][i] = cpis[v][i]  BY <2>4, <3>1
      <4> QED BY <4>1, <4>4, <4>5
    <3>2. CASE i = len + 1
      <4>1. cpis'[v][i].slot = slot
            /\ cpis'[v][i].data = proposals[slot].action.instruction_data_hash
        BY <2>1, <2>2, <2>4, <3>2
      <4>2. slot = [vaultId |-> v, nonce |-> i - 1]  BY <2>4, <2>5, <2>7, <3>2
      <4> QED BY <1>3, <4>1, <4>2
    <3> QED BY <2>4, <3>1, <3>2
  <2>10. ExecutedBelow(v)'
    <3> SUFFICES ASSUME NEW n \in U64
                 PROVE  InState([vaultId |-> v, nonce |-> n], "Executed")' <=> n < len + 1
      BY <2>4 DEF ExecutedBelow
    <3>0. n \in Nat  BY DEF U64
    <3>1. CASE n = len
      <4>1. slot = [vaultId |-> v, nonce |-> n]  BY <2>5, <2>7, <3>1
      <4>2. InState(slot, "Executed")'  BY <1>3 DEF InState, Exists
      <4> QED BY <2>4, <3>1, <4>1, <4>2
    <3>2. CASE n # len
      <4> DEFINE s == [vaultId |-> v, nonce |-> n]
      <4>1. s.nonce = n /\ s \in Slot  BY <1>4
      <4> HIDE DEF s
      <4>2. s # slot  BY <2>5, <2>7, <3>2, <4>1
      <4>3. proposals'[s] = proposals[s]  BY <1>2, <4>1, <4>2
      <4>4. InState(s, "Executed")' <=> InState(s, "Executed")  BY <4>3 DEF InState, Exists
      <4>5. InState(s, "Executed") <=> n < len  BY DEF ExecutedBelow, s, len
      <4>6. n < len <=> n < len + 1  BY <2>4, <3>0, <3>2
      <4>7. InState(s, "Executed")' <=> n < len + 1  BY <4>4, <4>5, <4>6
      <4> QED BY <4>7 DEF s
    <3> QED BY <3>1, <3>2
  <2>11. NothingAbove(v)'
    <3> SUFFICES ASSUME NEW n \in U64, n > vaults'[v].nonce
                 PROVE  ~Exists([vaultId |-> v, nonce |-> n])'
      BY <2>4, <2>8 DEF NothingAbove
    <3> DEFINE s == [vaultId |-> v, nonce |-> n]
    <3>1. s.nonce = n /\ s \in Slot  BY <1>4
    <3>2. n \in Nat /\ n > vaults[v].nonce
      <4>1. n \in Nat /\ vaults'[v].nonce \in Nat /\ vaults[v].nonce <= vaults'[v].nonce
        BY <2>4, <2>7, <2>8 DEF U64
      <4>2. vaults[v].nonce \in Nat  BY <2>4, <2>7
      <4> QED BY <4>1, <4>2
    <3>3. ~Exists(s)  BY <1>1, <1>6, <3>2 DEF NothingAbove
    <3> HIDE DEF s
    <3>4. s # slot
      <4>1. vaults[v].nonce \in Nat  BY <2>4, <2>7
      <4> QED BY <2>5, <3>1, <3>2, <4>1
    <3>5. ~Exists(s)'  BY <1>2, <3>1, <3>3, <3>4 DEF Exists
    <3> QED BY <3>5 DEF s
  <2> QED BY <2>9, <2>10, <2>11
<1> QED BY <1>5, <1>6

\* Every other instruction leaves the order as it is; a new vault starts with none.
LEMMA OthersKeepSerial ==
    ASSUME Accounts, Accounts', [Next]_vars, ~ \E slot \in Slot : Executes(slot),
           NEW v \in Vaults, CpisInOrder(v), ExecutedBelow(v), NothingAbove(v)
    PROVE  CpisInOrder(v)' /\ ExecutedBelow(v)' /\ NothingAbove(v)'
<1>1. /\ cpis' = cpis
      /\ vaults[v] # NoAccount => vaults'[v] = vaults[v]
      /\ \A slot \in Slot : InState(slot, "Executed")' <=> InState(slot, "Executed")
  BY OnlyExecuteExecutes
<1>2. \A n \in U64 : [vaultId |-> v, nonce |-> n] \in Slot  BY DEF Slot
<1>3. CpisInOrder(v)'
  <2> SUFFICES ASSUME NEW i \in DOMAIN cpis[v]
               PROVE  /\ cpis'[v][i].slot = [vaultId |-> v, nonce |-> i - 1]
                      /\ cpis'[v][i].data =
                           proposals'[cpis'[v][i].slot].action.instruction_data_hash
    BY <1>1 DEF CpisInOrder
  <2> DEFINE s == cpis[v][i].slot
  <2>1. s \in Slot /\ InState(s, "Executed")  BY InvokedIsExecuted
  <2>2. proposals'[s].action = proposals[s].action
    <3> HIDE DEF s
    <3> QED BY <2>1, ProposalStep DEF InState, Exists
  <2>3. s = [vaultId |-> v, nonce |-> i - 1]
        /\ cpis[v][i].data = proposals[s].action.instruction_data_hash
    BY DEF CpisInOrder
  <2> QED BY <1>1, <2>2, <2>3
<1>4. ExecutedBelow(v)'
  <2> SUFFICES ASSUME NEW n \in U64
               PROVE  InState([vaultId |-> v, nonce |-> n], "Executed")'
                        <=> n < Len(cpis[v])
    BY <1>1 DEF ExecutedBelow
  <2> DEFINE s == [vaultId |-> v, nonce |-> n]
  <2>1. InState(s, "Executed") <=> n < Len(cpis[v])  BY DEF ExecutedBelow
  <2>2. s \in Slot  BY <1>2
  <2> HIDE DEF s
  <2>3. InState(s, "Executed")' <=> n < Len(cpis[v])  BY <1>1, <2>1, <2>2
  <2> QED BY <2>3 DEF s
<1>5. NothingAbove(v)'
  <2>1. CASE vaults[v] = NoAccount
    <3> SUFFICES ASSUME vaults'[v] # NoAccount PROVE NothingAbove(v)!2'
      BY DEF NothingAbove
    <3>1. PICK w \in Vaults, a \in InitArgs : InitVault(w, a)
      BY <2>1 DEF Next, vars, SomeQueue, SomeCancel, SomeExecute, SomeSign, QueueProposal, Cancel,
                  Sign, Tick, Executes
    <3>2. w = v  BY <2>1, <3>1, InitVaultEffect DEF Accounts
    <3>3. vaults'[v].nonce = 0  BY <3>1, <3>2, InitVaultEffect DEF Accounts
    <3>4. \A n \in U64 : ~Exists([vaultId |-> v, nonce |-> n])
      BY <1>2, <2>1 DEF Accounts, ProposalAccounts
    <3>5. proposals' = proposals  BY <3>1 DEF InitVault
    <3>6. Len(cpis[v]) = 0
      <4>1. 0 \in U64  BY DEF U64
      <4>2. ~(0 < Len(cpis[v]))  BY <3>4, <4>1 DEF ExecutedBelow, InState
      <4>3. Len(cpis[v]) \in Nat  BY DEF Accounts, TypeOK
      <4> QED BY <4>2, <4>3
    <3>7. vaults'[v].nonce = IF Len(cpis'[v]) < MaxU64 THEN Len(cpis'[v]) ELSE MaxU64
      BY <1>1, <3>3, <3>6
    <3>8. \A n \in U64 : ~Exists([vaultId |-> v, nonce |-> n])'
      BY <3>4, <3>5 DEF Exists
    <3> QED BY <3>7, <3>8
  <2>2. CASE vaults[v] # NoAccount
    <3>1. vaults'[v] = vaults[v]  BY <1>1, <2>2
    <3>2. vaults'[v].nonce = IF Len(cpis'[v]) < MaxU64 THEN Len(cpis'[v]) ELSE MaxU64
      BY <1>1, <2>2, <3>1 DEF NothingAbove
    <3>3. ASSUME NEW n \in U64, n > vaults'[v].nonce
          PROVE  ~Exists([vaultId |-> v, nonce |-> n])'
      <4> DEFINE s == [vaultId |-> v, nonce |-> n]
      <4>1. s \in Slot /\ s.vaultId = v /\ s.nonce = n  BY <1>2
      <4>2. ~Exists(s)  BY <2>2, <3>1, <3>3 DEF NothingAbove
      <4>3. s # SlotAtNonce(v)
        <5>1. vaults[v].nonce \in Nat /\ n \in Nat
          BY <2>2 DEF Accounts, TypeOK, Vault, U64
        <5>2. n # vaults[v].nonce  BY <3>1, <3>3, <5>1
        <5> QED BY <5>2 DEF SlotAtNonce
      <4> HIDE DEF s
      <4>4. \A w \in Vaults : s = SlotAtNonce(w) => w = v
        BY <4>1 DEF SlotAtNonce
      <4>5. ~Exists(s)'
        BY <4>1, <4>2, <4>3, <4>4, ProposalStep DEF Exists, IsQueued
      <4> QED BY <4>5 DEF s
    <3> QED BY <3>2, <3>3 DEF NothingAbove
  <2> QED BY <2>1, <2>2
<1> QED BY <1>3, <1>4, <1>5

\* A vault's CPIs carry its nonces in order, one each, with the data of the proposal at
\* that nonce, up to and including the saturated last nonce.
THEOREM CallsStaySerial == Spec => []CallsAreSerial
<1>1. Init => CallsAreSerial
  <2> SUFFICES ASSUME Init, NEW v \in Vaults PROVE CallsAreSerial!(v)
    BY DEF CallsAreSerial
  <2>1. cpis[v] = <<>> /\ vaults[v] = NoAccount  BY DEF Init
  <2>2. \A n \in U64 : proposals[[vaultId |-> v, nonce |-> n]] = NoAccount
    BY DEF Init, Slot
  <2>3. \A n \in U64 : ~InState([vaultId |-> v, nonce |-> n], "Executed") /\ ~(n < 0)
    BY <2>2 DEF InState, Exists, U64
  <2>4. Len(cpis[v]) = 0 /\ DOMAIN cpis[v] = {}  BY <2>1
  <2> QED BY <2>1, <2>3, <2>4
<1>2. Accounts /\ Accounts' /\ CallsAreSerial /\ [Next]_vars => CallsAreSerial'
  <2> SUFFICES ASSUME Accounts, Accounts', CallsAreSerial, [Next]_vars, NEW v \in Vaults
               PROVE  CallsAreSerial!(v)'
    BY DEF CallsAreSerial
  <2>1. CpisInOrder(v) /\ ExecutedBelow(v) /\ NothingAbove(v)
    BY DEF CallsAreSerial, CpisInOrder, ExecutedBelow, NothingAbove
  <2>2. CASE \E slot \in Slot : Executes(slot)
    <3>1. CpisInOrder(v)' /\ ExecutedBelow(v)' /\ NothingAbove(v)'
      BY <2>1, <2>2, ExecuteIsSerial
    <3> QED BY <3>1 DEF CpisInOrder, ExecutedBelow, NothingAbove
  <2>3. CASE ~ \E slot \in Slot : Executes(slot)
    <3>1. CpisInOrder(v)' /\ ExecutedBelow(v)' /\ NothingAbove(v)'
      BY <2>1, <2>3, OthersKeepSerial
    <3> QED BY <3>1 DEF CpisInOrder, ExecutedBelow, NothingAbove
  <2> QED BY <2>2, <2>3
<1> QED BY <1>1, <1>2, AccountsHold, PTL DEF Spec

------------------------------------------------------------------------------
(* Execution windows *)

\* The lifetime that a vault asks of its proposals covers its delays, as the machine adds
\* them up.
DelaysFitLifetime ==
    \A v \in Vaults : vaults[v] # NoAccount =>
        Wrap(vaults[v].cooloff_secs + vaults[v].execute_delay_secs)
           <= vaults[v].min_proposal_lifetime_secs

\* The sum of two i64 and what the machine makes of it.
LEMMA SumOfTwo ==
    ASSUME NEW c \in I64, NEW d \in I64
    PROVE  /\ Wrap(c + d) \in I64
           /\ \/ c + d = Wrap(c + d)
              \/ c + d = Wrap(c + d) + 2 * (MaxI64 + 1)
              \/ c + d = Wrap(c + d) - 2 * (MaxI64 + 1)
<1> DEFINE m == 2 * (MaxI64 + 1)
           x == c + d
<1>1. /\ m \in Int /\ x \in Int /\ x + m \in Int /\ x - m \in Int
      /\ x \in I64 \/ x - m \in I64 \/ x + m \in I64
  BY WidthAssumption DEF I64
<1>2. (x - m) + m = x /\ (x + m) - m = x
  BY <1>1
<1> HIDE DEF x
<1>3. CASE x \in I64
  BY <1>3, WrapInRange DEF x
<1>4. CASE x - m \in I64
  <2>1. Wrap((x - m) + m) = x - m  BY <1>4, WrapBack DEF m
  <2>2. Wrap(x) = x - m  BY <1>2, <2>1
  <2> HIDE DEF m
  <2>3. Wrap(x) \in I64 /\ x = Wrap(x) + m  BY <1>1, <1>2, <1>4, <2>2
  <2> QED BY <2>3 DEF x, m
<1>5. CASE x + m \in I64
  <2>1. Wrap((x + m) - m) = x + m  BY <1>5, WrapBack DEF m
  <2>2. Wrap(x) = x + m  BY <1>2, <2>1
  <2> HIDE DEF m
  <2>3. Wrap(x) \in I64 /\ x = Wrap(x) - m  BY <1>1, <1>2, <1>5, <2>2
  <2> QED BY <2>3 DEF x, m
<1> QED BY <1>1, <1>3, <1>4, <1>5

\* A sum of three that overflows on the way comes out as if it had not, when it fits.
LEMMA SumOfThree ==
    ASSUME NEW q \in Int, NEW c \in I64, NEW d \in I64, q + Wrap(c + d) \in I64
    PROVE  Wrap(q + c + d) = q + Wrap(c + d)
<1> DEFINE m == 2 * (MaxI64 + 1)
           w == Wrap(c + d)
           x == q + w
<1>1. m \in Int /\ w \in Int /\ c \in Int /\ d \in Int
  BY SumOfTwo, WidthAssumption DEF I64
<1>2. c + d = w \/ c + d = w + m \/ c + d = w - m
  BY SumOfTwo
<1>3. Wrap(x) = x /\ Wrap(x + m) = x /\ Wrap(x - m) = x
  BY WrapInRange, WrapBack
<1> HIDE DEF m, w
<1>4. q + c + d = x \/ q + c + d = x + m \/ q + c + d = x - m
  BY <1>1, <1>2
<1> QED BY <1>3, <1>4 DEF w

\* init_vault checks it, and the configuration never changes.
LEMMA DelaysKeepFitting ==
    Spec => []DelaysFitLifetime
<1>1. Init => DelaysFitLifetime
  BY DEF Init, DelaysFitLifetime
<1>2. Accounts /\ DelaysFitLifetime /\ [Next]_vars => DelaysFitLifetime'
  <2> SUFFICES ASSUME Accounts, DelaysFitLifetime, [Next]_vars,
                      NEW v \in Vaults, vaults'[v] # NoAccount
               PROVE  DelaysFitLifetime!(v)!2'
    BY DEF DelaysFitLifetime
  <2>1. CASE vaults[v] # NoAccount
    BY <2>1, ConfigIsFrozen DEF DelaysFitLifetime
  <2>2. CASE vaults[v] = NoAccount
    <3>1. \E w \in Vaults, a \in InitArgs : InitVault(w, a)
      <4>1. ASSUME NEW slot \in Slot, NEW program \in Programs, NEW adapter \in Adapters,
                   NEW data \in Data, NEW accounts \in SUBSET Forwardable,
                   NEW outerSigners \in SUBSET (Keys \cap Forwardable),
                   Execute(slot, program, adapter, data, accounts, outerSigners)
            PROVE  FALSE
        <5>1. vaults[slot.vaultId] # NoAccount
          BY <4>1 DEF Accounts, ProposalAccounts, Execute, IsQueued, Exists
        <5> QED BY <2>2, <4>1, <5>1, ExecuteEffect DEF Accounts
      <4> QED BY <2>2, <4>1
              DEF Next, vars, SomeQueue, SomeCancel, SomeExecute, SomeSign, QueueProposal, Cancel,
                  Sign, Tick
    <3>2. PICK w \in Vaults, a \in InitArgs : InitVault(w, a)  BY <3>1
    <3>3. w = v  BY <2>2, <3>2, InitVaultEffect DEF Accounts
    <3>4. /\ vaults'[v].cooloff_secs = a.cooloff_secs
          /\ vaults'[v].execute_delay_secs = a.execute_delay_secs
          /\ vaults'[v].min_proposal_lifetime_secs = a.min_proposal_lifetime_secs
      BY <3>2, <3>3, InitVaultEffect DEF Accounts
    <3>5. a.min_proposal_lifetime_secs >= Wrap(a.cooloff_secs + a.execute_delay_secs)
      BY <3>2 DEF InitVault, ValidWindows
    <3>6. Wrap(a.cooloff_secs + a.execute_delay_secs) \in Int /\ a.min_proposal_lifetime_secs \in Int
      <4>1. a \in InitArg  BY ArgsAssumption
      <4>2. /\ a.cooloff_secs \in I64 /\ a.execute_delay_secs \in I64
            /\ a.min_proposal_lifetime_secs \in I64
        BY <4>1 DEF InitArg
      <4> QED BY <4>2, SumOfTwo DEF I64
    <3> QED BY <3>4, <3>5, <3>6
  <2> QED BY <2>1, <2>2
<1> QED BY <1>1, <1>2, AccountsHold, PTL DEF Spec

\* What queue_proposal stores can be executed at some moment of its lifetime, unless
\* that lifetime is past the last i64 and nobody checks.
LEMMA QueueOpensWindow ==
    ASSUME Accounts, DelaysFitLifetime, NEW v \in Vaults,
           NEW action \in Action, NEW expires_at \in I64, NEW atts \in SUBSET Presentable,
           QueueProposal(v, action, expires_at, atts)
    PROVE  /\ unix_timestamp <= expires_at
           /\ \/ /\ ExecuteAfterDefined(vaults[v], unix_timestamp)
                 /\ ExecuteAfterOf(vaults[v], unix_timestamp) <= expires_at
              \/ ~OverflowChecks /\ unix_timestamp + vaults[v].min_proposal_lifetime_secs > MaxI64
<1> DEFINE lifetime == vaults[v].min_proposal_lifetime_secs
           cooloff == vaults[v].cooloff_secs
           delay == vaults[v].execute_delay_secs
           wait == Wrap(cooloff + delay)
<1>1. /\ vaults[v] # NoAccount /\ ExecuteAfterDefined(vaults[v], unix_timestamp)
      /\ Defined(unix_timestamp + lifetime)
      /\ expires_at >= Wrap(unix_timestamp + lifetime)
      /\ VerifyAttestations(SlotAtNonce(v), action, expires_at, atts)
  BY DEF QueueProposal, ExpiryFarEnough
<1>2. /\ vaults[v] \in Vault /\ expires_at \in Int
      /\ unix_timestamp \in Nat /\ unix_timestamp <= MaxI64
  BY <1>1, WidthAssumption DEF Accounts, TypeOK, I64
<1>3. cooloff \in I64 /\ delay \in I64 /\ lifetime \in I64
  BY <1>2 DEF Vault
<1>4. wait \in I64 /\ wait <= lifetime
  BY <1>1, <1>3, SumOfTwo DEF DelaysFitLifetime
<1>5. ExecuteAfterOf(vaults[v], unix_timestamp) = Wrap(unix_timestamp + cooloff + delay)
  BY DEF ExecuteAfterOf
<1>6. unix_timestamp <= expires_at
  <2>1. Cardinality(atts) >= vaults[v].threshold
    BY <1>1 DEF VerifyAttestations, SlotAtNonce
  <2>2. vaults[v].threshold > 0 /\ vaults[v].threshold \in Nat
    BY <1>1, <1>2 DEF Accounts, VaultAccounts, Vault, U8
  <2>3. atts # {}
    <3>1. SUFFICES ASSUME atts = {} PROVE FALSE
      OBVIOUS
    <3>2. Cardinality(atts) = 0  BY <3>1, FS_EmptySet
    <3> DEFINE threshold == vaults[v].threshold
               count == Cardinality(atts)
    <3>3. count = 0 /\ count >= threshold /\ threshold > 0 /\ threshold \in Nat
      BY <2>1, <2>2, <3>2
    <3> HIDE DEF threshold, count
    <3> QED BY <3>3
  <2>4. PICK att \in atts : TRUE  BY <2>3
  <2>5. att.expires_at >= unix_timestamp /\ att.expires_at <= expires_at
    BY <1>1 DEF VerifyAttestations, VerifyAttestation
  <2>6. att.expires_at \in Int
    BY PresentedTypes DEF Accounts, I64
  <2> QED BY <1>2, <2>5, <2>6
<1> HIDE DEF lifetime, cooloff, delay
<1>7. CASE unix_timestamp + lifetime <= MaxI64
  <2> HIDE DEF wait
  <2>1. /\ unix_timestamp + lifetime \in I64 /\ unix_timestamp + wait \in I64
        /\ unix_timestamp + wait <= unix_timestamp + lifetime
        /\ unix_timestamp + wait \in Int /\ unix_timestamp + lifetime \in Int
    BY <1>2, <1>3, <1>4, <1>7, WidthAssumption DEF I64
  <2>2. Wrap(unix_timestamp + lifetime) = unix_timestamp + lifetime
    BY <2>1, WrapInRange
  <2>3. Wrap(unix_timestamp + cooloff + delay) = unix_timestamp + wait
    BY <1>2, <1>3, <2>1, SumOfThree DEF wait
  <2>4. Wrap(unix_timestamp + cooloff + delay) <= expires_at
    BY <1>1, <1>2, <2>1, <2>2, <2>3
  <2> QED BY <1>1, <1>5, <1>6, <2>4
<1>8. CASE unix_timestamp + lifetime > MaxI64
  <2>1. unix_timestamp + lifetime \notin I64
    BY <1>2, <1>3, <1>8, WidthAssumption DEF I64
  <2>2. ~OverflowChecks
    BY <1>1, <2>1 DEF Defined
  <2> QED BY <1>6, <1>8, <2>2 DEF lifetime
<1> QED BY <1>2, <1>3, <1>7, <1>8, WidthAssumption DEF I64

\* Every proposal has a moment between the end of its delays and its expiry, but for the
\* lifetimes that a build without overflow checks lets wrap.
THEOREM WindowStaysOpen == Spec => []ExecutionWindowIsOpen
<1>1. Init => ExecutionWindowIsOpen
  BY DEF Init, ExecutionWindowIsOpen, Exists
<1>2. Accounts /\ DelaysFitLifetime /\ ExecutionWindowIsOpen /\ [Next]_vars
        => ExecutionWindowIsOpen'
  <2> SUFFICES ASSUME Accounts, DelaysFitLifetime, ExecutionWindowIsOpen, [Next]_vars,
                      NEW slot \in Slot, Exists(slot)'
               PROVE  ExecutionWindowIsOpen!(slot)!2'
    BY DEF ExecutionWindowIsOpen
  <2>1. CASE Exists(slot)
    <3>1. slot.vaultId \in Vaults /\ vaults[slot.vaultId] # NoAccount
      BY <2>1 DEF Accounts, ProposalAccounts, Slot
    <3>2. /\ vaults'[slot.vaultId].cooloff_secs = vaults[slot.vaultId].cooloff_secs
          /\ vaults'[slot.vaultId].execute_delay_secs
               = vaults[slot.vaultId].execute_delay_secs
          /\ vaults'[slot.vaultId].min_proposal_lifetime_secs
               = vaults[slot.vaultId].min_proposal_lifetime_secs
      BY <3>1, ConfigIsFrozen
    <3>3. /\ proposals'[slot].queued_at = proposals[slot].queued_at
          /\ proposals'[slot].expires_at = proposals[slot].expires_at
      BY <2>1, ProposalStep DEF Exists
    <3>4. ExecutionWindowIsOpen!(slot)!2
      BY <2>1 DEF ExecutionWindowIsOpen
    <3> QED BY <3>2, <3>3, <3>4 DEF ExecuteAfterDefined, ExecuteAfterOf
  <2>2. CASE ~Exists(slot)
    <3>1. PICK v \in Vaults, action \in Action, expires_at \in I64,
               atts \in SUBSET Presentable :
                 QueueProposal(v, action, expires_at, atts) /\ slot = SlotAtNonce(v)
      BY <2>2, ProposalStep DEF Exists, IsQueued
    <3>2. /\ proposals'[slot].queued_at = unix_timestamp
          /\ proposals'[slot].expires_at = expires_at /\ slot.vaultId = v
      BY <3>1, QueueEffect DEF Accounts
    <3>3. vaults' = vaults  BY <3>1 DEF QueueProposal
    <3>4. /\ unix_timestamp <= expires_at
          /\ \/ /\ ExecuteAfterDefined(vaults[v], unix_timestamp)
                /\ ExecuteAfterOf(vaults[v], unix_timestamp) <= expires_at
             \/ ~OverflowChecks /\ unix_timestamp + vaults[v].min_proposal_lifetime_secs > MaxI64
      BY <3>1, QueueOpensWindow
    <3> QED BY <3>2, <3>3, <3>4 DEF ExecuteAfterDefined, ExecuteAfterOf
  <2> QED BY <2>1, <2>2
<1> QED BY <1>1, <1>2, AccountsHold, DelaysKeepFitting, PTL DEF Spec

\* A CPI in the log was there before the step, or execute has just appended it.
LEMMA CpisGrow ==
    ASSUME Accounts, [Next]_vars, NEW v \in Vaults, NEW i \in DOMAIN cpis'[v]
    PROVE  \/ i \in DOMAIN cpis[v] /\ cpis'[v][i] = cpis[v][i]
           \/ \E slot \in Slot :
                /\ slot.vaultId = v
                /\ Executes(slot)
                /\ cpis'[v][i].slot = slot
                /\ cpis'[v][i].at = unix_timestamp
<1>1. CASE ~ \E slot \in Slot : Executes(slot)
  BY <1>1, OnlyExecuteExecutes
<1>2. ASSUME NEW slot \in Slot, Executes(slot)
      PROVE  \/ i \in DOMAIN cpis[v] /\ cpis'[v][i] = cpis[v][i]
             \/ /\ slot.vaultId = v
                /\ Executes(slot)
                /\ cpis'[v][i].slot = slot
                /\ cpis'[v][i].at = unix_timestamp
  <2>1. PICK program \in Programs, adapter \in Adapters, data \in Data,
             accounts \in SUBSET Forwardable,
             outerSigners \in SUBSET (Keys \cap Forwardable) :
               Execute(slot, program, adapter, data, accounts, outerSigners)
    BY <1>2 DEF Executes
  <2> DEFINE cpi == [slot |-> slot, program |-> program, data |-> data,
                     accounts |-> accounts,
                     signers |-> CpiSigners(accounts, outerSigners),
                     at |-> unix_timestamp]
  <2>2. slot.vaultId \in Vaults /\ cpis \in [Vaults -> Seq(Cpi)]
    BY DEF Slot, Accounts, TypeOK
  <2>3. cpis' = [cpis EXCEPT ![slot.vaultId] = Append(@, cpi)]
    BY <2>1 DEF Execute
  <2>4. cpi.slot = slot /\ cpi.at = unix_timestamp  OBVIOUS
  <2> HIDE DEF cpi
  <2>5. CASE v # slot.vaultId
    BY <2>2, <2>3, <2>5
  <2>6. CASE v = slot.vaultId
    <3>1. cpis'[v] = Append(cpis[v], cpi)  BY <2>2, <2>3, <2>6
    <3> DEFINE n == Len(cpis[v])
    <3>2. /\ n \in Nat /\ DOMAIN cpis[v] = 1..n /\ DOMAIN cpis'[v] = 1..(n + 1)
          /\ \A j \in 1..n : cpis'[v][j] = cpis[v][j]
          /\ cpis'[v][n + 1] = cpi
      BY <2>2, <3>1
    <3> HIDE DEF n
    <3>3. i \in 1..n \/ i = n + 1  BY <3>2
    <3> QED BY <1>2, <2>4, <2>6, <3>2, <3>3
  <2> QED BY <2>5, <2>6
<1> QED BY <1>1, <1>2

\* No CPI was invoked past the expiry, nor before the end of the configured delays, but
\* for the delays that a build without overflow checks lets wrap.
THEOREM CallsStayInWindow == Spec => []CallsRespectTheirWindow
<1>1. Init => CallsRespectTheirWindow
  BY DEF Init, CallsRespectTheirWindow
<1>2. Accounts /\ CallsAreSerial /\ CallsRespectTheirWindow /\ [Next]_vars
        => CallsRespectTheirWindow'
  <2> SUFFICES ASSUME Accounts, CallsAreSerial, CallsRespectTheirWindow, [Next]_vars,
                      NEW v \in Vaults, NEW i \in DOMAIN cpis'[v]
               PROVE  CallsRespectTheirWindow!(v)!(i)'
    BY DEF CallsRespectTheirWindow
  <2>1. ASSUME NEW slot \in Slot, Exists(slot), slot.vaultId = v
        PROVE  /\ proposals'[slot].queued_at = proposals[slot].queued_at
               /\ proposals'[slot].expires_at = proposals[slot].expires_at
               /\ vaults'[v].cooloff_secs = vaults[v].cooloff_secs
               /\ vaults'[v].execute_delay_secs = vaults[v].execute_delay_secs
    <3>1. vaults[v] # NoAccount  BY <2>1 DEF Accounts, ProposalAccounts
    <3> QED BY <2>1, <3>1, ConfigIsFrozen, ProposalStep DEF Exists
  <2>2. CASE i \in DOMAIN cpis[v] /\ cpis'[v][i] = cpis[v][i]
    <3>1. CpisInOrder(v) /\ ExecutedBelow(v)
      BY DEF CallsAreSerial, CpisInOrder, ExecutedBelow
    <3>2. PICK slot \in Slot : slot = cpis[v][i].slot /\ Exists(slot) /\ slot.vaultId = v
      BY <2>2, <3>1, InvokedIsExecuted DEF InState
    <3>3. /\ cpis[v][i].at <= proposals[slot].expires_at
          /\ \/ WaitEnd(v, slot) <= cpis[v][i].at
             \/ ~OverflowChecks /\ WaitEnd(v, slot) > MaxI64
      BY <2>2, <3>2 DEF CallsRespectTheirWindow
    <3>4. cpis'[v][i].slot = slot /\ cpis'[v][i].at = cpis[v][i].at  BY <2>2, <3>2
    <3>5. /\ proposals'[slot].queued_at = proposals[slot].queued_at
          /\ proposals'[slot].expires_at = proposals[slot].expires_at
          /\ vaults'[v].cooloff_secs = vaults[v].cooloff_secs
          /\ vaults'[v].execute_delay_secs = vaults[v].execute_delay_secs
      BY <2>1, <3>2
    <3>6. WaitEnd(v, slot)' = WaitEnd(v, slot)  BY <3>5 DEF WaitEnd
    <3> QED BY <3>3, <3>4, <3>5, <3>6
  <2>3. ASSUME NEW slot \in Slot, slot.vaultId = v, Executes(slot),
               cpis'[v][i].slot = slot, cpis'[v][i].at = unix_timestamp
        PROVE  CallsRespectTheirWindow!(v)!(i)'
    <3>1. /\ Exists(slot) /\ proposals[slot].expires_at >= unix_timestamp
          /\ CooledOff(slot)
      BY <2>3 DEF Executes, Execute, IsQueued, Exists
    <3> DEFINE end == WaitEnd(v, slot)
    <3>2. end <= unix_timestamp \/ (~OverflowChecks /\ end > MaxI64)
      <4>1. vaults[v] \in Vault /\ proposals[slot] \in Proposal /\ unix_timestamp \in Nat
        BY <2>3, <3>1 DEF Accounts, TypeOK, ProposalAccounts, Exists
      <4>2. proposals[slot].queued_at \in Int /\ vaults[v].cooloff_secs \in Int
            /\ vaults[v].execute_delay_secs \in Int
        BY SMTT(30), <4>1 DEF Vault, Proposal, I64
      <4>3. end \in Int  BY <4>2 DEF WaitEnd
      <4>4. Defined(end) /\ unix_timestamp >= Wrap(end)
        BY <2>3, <3>1 DEF CooledOff, ExecuteAfterDefined, ExecuteAfterOf, WaitEnd
      <4> HIDE DEF end
      <4>5. CASE end \in I64
        BY <4>1, <4>3, <4>4, <4>5, WrapInRange
      <4>6. CASE end \notin I64
        <5>1. ~OverflowChecks  BY <4>4, <4>6 DEF Defined
        <5>2. end > MaxI64 \/ end < 0  BY <4>3, <4>6, WidthAssumption DEF I64
        <5> QED BY <4>1, <4>3, <5>1, <5>2
      <4> QED BY <4>5, <4>6
    <3>3. unix_timestamp <= proposals[slot].expires_at
      <4>1. unix_timestamp \in Int /\ proposals[slot] \in Proposal
        BY <3>1 DEF Accounts, TypeOK, Exists
      <4>2. proposals[slot].expires_at \in Int  BY <4>1 DEF Proposal, I64
      <4> QED BY <3>1, <4>1, <4>2
    <3>4. /\ proposals'[slot].queued_at = proposals[slot].queued_at
          /\ proposals'[slot].expires_at = proposals[slot].expires_at
          /\ vaults'[v].cooloff_secs = vaults[v].cooloff_secs
          /\ vaults'[v].execute_delay_secs = vaults[v].execute_delay_secs
      BY <2>1, <2>3, <3>1
    <3>5. WaitEnd(v, slot)' = end  BY <3>4 DEF WaitEnd
    <3> HIDE DEF end
    <3> QED BY <2>3, <3>2, <3>3, <3>4, <3>5
  <2> QED BY <2>2, <2>3, CpisGrow
<1> QED BY <1>1, <1>2, AccountsHold, CallsStaySerial, PTL DEF Spec

------------------------------------------------------------------------------
(* The program keeps the promise of GuardedExecution *)

\* What the proposal in a slot is called there.
NameOf(slot) ==
    [vaultId |-> slot.vaultId, nonce |-> slot.nonce, action |-> proposals[slot].action]

\* The proposals of a vault that were executed, in order.
LogOf(v) == [i \in 1..Len(cpis[v]) |->
               [vaultId |-> v, nonce |-> i - 1,
                action |-> proposals[[vaultId |-> v, nonce |-> i - 1]].action]]

\* Where a proposal stands can be told from its slot alone.
LEMMA NamedBySlot ==
    ASSUME NEW slot \in Slot, NEW s
    PROVE  \A x : x.vaultId = slot.vaultId /\ x.nonce = slot.nonce =>
             (x \in Named(s) <=> InState(slot, s) /\ x = NameOf(slot))
<1> SUFFICES ASSUME NEW x, x.vaultId = slot.vaultId, x.nonce = slot.nonce
             PROVE  x \in Named(s) <=> InState(slot, s) /\ x = NameOf(slot)
  OBVIOUS
<1>1. ASSUME x \in Named(s) PROVE InState(slot, s) /\ x = NameOf(slot)
  <2>1. PICK t \in Slot : InState(t, s) /\ x = NameOf(t)
    BY <1>1 DEF Named, NameOf
  <2>2. t.vaultId = slot.vaultId /\ t.nonce = slot.nonce  BY <2>1 DEF NameOf
  <2>3. t = slot  BY <2>2 DEF Slot
  <2> QED BY <2>1, <2>3
<1>2. ASSUME InState(slot, s), x = NameOf(slot) PROVE x \in Named(s)
  BY <1>2 DEF Named, NameOf
<1> QED BY <1>1, <1>2

\* A step that writes one proposal account moves that proposal and no other.
LEMMA NamedStep ==
    ASSUME NEW slot \in Slot, proposals'[slot] # NoAccount,
           \A t \in Slot : t # slot => proposals'[t] = proposals[t],
           Exists(slot) => proposals'[slot].action = proposals[slot].action,
           NEW p, p = NameOf(slot)', NEW s
    PROVE  /\ InState(slot, s)' => Named(s)' = Named(s) \cup {p}
           /\ ~InState(slot, s)' => Named(s)' = Named(s) \ {p}
           /\ p \in Named(s) <=> InState(slot, s)
<1>1. p.vaultId = slot.vaultId /\ p.nonce = slot.nonce  BY DEF NameOf
<1>2. InState(slot, s) => p = NameOf(slot)  BY DEF InState, NameOf
<1>3. p \in Named(s) <=> InState(slot, s)
  BY <1>1, <1>2, NamedBySlot
<1>4. ASSUME NEW t \in Slot, t # slot
      PROVE  /\ NameOf(t)' = NameOf(t) /\ NameOf(t) # p
             /\ InState(t, s)' <=> InState(t, s)
  <2>1. proposals'[t] = proposals[t]  BY <1>4
  <2>2. t.vaultId # slot.vaultId \/ t.nonce # slot.nonce  BY <1>4 DEF Slot
  <2>3. NameOf(t).vaultId = t.vaultId /\ NameOf(t).nonce = t.nonce  BY DEF NameOf
  <2>4. NameOf(t) # p  BY <1>1, <2>2, <2>3
  <2> QED BY <2>1, <2>4 DEF NameOf, InState, Exists
<1>5. \A x : x \in Named(s) <=> \E t \in Slot : InState(t, s) /\ x = NameOf(t)
  BY DEF Named, NameOf
<1>6. \A x : x \in Named(s)' <=> \E t \in Slot : InState(t, s)' /\ x = NameOf(t)'
  BY DEF Named, NameOf
<1>7. ASSUME InState(slot, s)' PROVE Named(s)' = Named(s) \cup {p}
  BY <1>2, <1>4, <1>5, <1>6, <1>7
<1>8. ASSUME ~InState(slot, s)' PROVE Named(s)' = Named(s) \ {p}
  BY <1>2, <1>4, <1>5, <1>6, <1>8
<1> QED BY <1>3, <1>7, <1>8

\* No step rewrites the log of what was executed.
LEMMA LogKeeps ==
    ASSUME Accounts, CallsAreSerial, [Next]_vars, NEW v \in Vaults,
           NEW i \in 1..Len(cpis[v])
    PROVE  proposals'[[vaultId |-> v, nonce |-> i - 1]].action
             = proposals[[vaultId |-> v, nonce |-> i - 1]].action
<1>1. CpisInOrder(v) /\ ExecutedBelow(v)
  BY DEF CallsAreSerial, CpisInOrder, ExecutedBelow
<1>2. i \in DOMAIN cpis[v]  BY DEF Accounts, TypeOK
<1> DEFINE slot == cpis[v][i].slot
<1>3. slot \in Slot /\ proposals[slot] # NoAccount
  BY <1>1, <1>2, InvokedIsExecuted DEF InState, Exists
<1>4. slot = [vaultId |-> v, nonce |-> i - 1]  BY <1>1, <1>2 DEF CpisInOrder
<1> HIDE DEF slot
<1>5. proposals'[slot].action = proposals[slot].action  BY <1>3, ProposalStep
<1> QED BY <1>4, <1>5

\* A step without a CPI leaves the logs alone.
LEMMA LogsKeep ==
    ASSUME Accounts, CallsAreSerial, [Next]_vars, NEW v \in Vaults, cpis'[v] = cpis[v]
    PROVE  LogOf(v)' = LogOf(v)
BY LogKeeps DEF LogOf

\* A proposal that waits at its vault's nonce waits behind everything executed.
LEMMA NonceIsLength ==
    ASSUME Accounts, CallsAreSerial, NEW v \in Vaults, vaults[v] # NoAccount,
           ~InState(SlotAtNonce(v), "Executed")
    PROVE  vaults[v].nonce = Len(LogOf(v))
<1>1. vaults[v].nonce = IF Len(cpis[v]) < MaxU64 THEN Len(cpis[v]) ELSE MaxU64
  BY DEF CallsAreSerial
<1>2. vaults[v].nonce \in U64 /\ Len(cpis[v]) \in Nat
  BY DEF Accounts, TypeOK, Vault
<1>3. ~(vaults[v].nonce < Len(cpis[v]))
  BY <1>2 DEF CallsAreSerial, SlotAtNonce
<1>4. Len(LogOf(v)) = Len(cpis[v])  BY <1>2 DEF LogOf
<1> QED BY <1>1, <1>2, <1>3, <1>4

\* queue_proposal is Approve of the proposal it stores.
LEMMA QueueApproves ==
    ASSUME Accounts, CallsAreSerial, [Next]_vars, NEW v \in Vaults, NEW action \in Action,
           NEW expires_at \in I64, NEW atts \in SUBSET Presentable,
           QueueProposal(v, action, expires_at, atts)
    PROVE  Promise!Next
<1> DEFINE slot == SlotAtNonce(v)
           p == [vaultId |-> v, nonce |-> vaults[v].nonce, action |-> action]
<1>1. /\ slot \in Slot /\ slot.vaultId = v /\ slot.nonce = vaults[v].nonce
      /\ proposals[slot] = NoAccount
      /\ proposals'[slot] \in Proposal
      /\ proposals'[slot].action = action /\ proposals'[slot].state = "Queued"
      /\ \A s \in Slot : s # slot => proposals'[s] = proposals[s]
  BY QueueEffect DEF Accounts
<1>2. p \in [vaultId : Vaults, nonce : U64, action : Action]
  BY <1>1 DEF Slot
<1>3. p = NameOf(slot)'  BY <1>1 DEF NameOf, QueueProposal, SlotAtNonce
<1>4. /\ vaults[v] # NoAccount /\ cpis' = cpis /\ vaults' = vaults  BY DEF QueueProposal
<1>5. /\ proposals'[slot] # NoAccount /\ ~Exists(slot)
      /\ \A s : ~InState(slot, s)
  BY <1>1 DEF Exists, InState
<1>6. p.nonce = Len(LogOf(v)) /\ p.vaultId = v
  BY <1>4, <1>5, NonceIsLength
<1>7. \A w \in Vaults : LogOf(w)' = LogOf(w)  BY <1>4, LogsKeep
<1>8. slot' = slot  BY <1>4 DEF SlotAtNonce
<1> HIDE DEF p, slot
<1>9. PICK s \in Slot : s = slot  BY <1>1
<1>10. InState(s, "Queued")' /\ ~InState(s, "Cancelled")'
  BY <1>1, <1>5, <1>9 DEF InState, Exists
<1>11. p = NameOf(s)'  BY <1>3, <1>8, <1>9 DEF NameOf
<1>12. /\ proposals'[s] # NoAccount /\ ~Exists(s)
       /\ \A t \in Slot : t # s => proposals'[t] = proposals[t]
  BY <1>1, <1>5, <1>9
<1>13. /\ Named("Queued")' = Named("Queued") \cup {p}
       /\ Named("Cancelled")' = Named("Cancelled")
       /\ p \notin Named("Queued") \cup Named("Cancelled")
  <2>1. ~InState(s, "Queued") /\ ~InState(s, "Cancelled")  BY <1>12 DEF InState
  <2>2. /\ Named("Queued")' = Named("Queued") \cup {p} /\ p \notin Named("Queued")
    BY <1>10, <1>11, <1>12, <2>1, NamedStep
  <2>3. /\ Named("Cancelled")' = Named("Cancelled") \ {p} /\ p \notin Named("Cancelled")
    BY <1>10, <1>11, <1>12, <2>1, NamedStep
  <2> QED BY <2>2, <2>3
<1>14. Promise!Approve(p)
  BY <1>6, <1>7, <1>13 DEF Promise!Approve, LogOf
<1> QED BY <1>2, <1>14 DEF Promise!Next

\* cancel is Veto when it is the deciding one and a stutter otherwise.
LEMMA CancelVetoes ==
    ASSUME Accounts, CallsAreSerial, [Next]_vars, NEW slot \in Slot, NEW key \in Keys,
           Cancel(slot, key)
    PROVE  Promise!Next \/ UNCHANGED Promise!vars
<1>1. /\ proposals[slot] \in Proposal /\ proposals[slot].state = "Queued"
      /\ proposals'[slot] \in Proposal
      /\ proposals'[slot].action = proposals[slot].action
      /\ proposals'[slot].state \in {"Queued", "Cancelled"}
      /\ \A s \in Slot : s # slot => proposals'[s] = proposals[s]
  BY CancelEffect DEF Accounts
<1> DEFINE p == NameOf(slot)
<1>2. p \in [vaultId : Vaults, nonce : U64, action : Action]
  BY <1>1 DEF NameOf, Slot, Proposal
<1>3. p = NameOf(slot)'  BY <1>1 DEF NameOf
<1>4. \A w \in Vaults : LogOf(w)' = LogOf(w)  BY LogsKeep DEF Cancel
<1>5. /\ proposals'[slot] # NoAccount /\ Exists(slot)
      /\ InState(slot, "Queued") /\ ~InState(slot, "Cancelled")
  BY <1>1 DEF InState, Exists
<1> HIDE DEF p
<1>6. p \in Named("Queued") /\ p \notin Named("Cancelled")
  BY <1>1, <1>3, <1>5, NamedStep
<1>7. CASE proposals'[slot].state = "Queued"
  <2>1. InState(slot, "Queued")' /\ ~InState(slot, "Cancelled")'
    BY <1>5, <1>7 DEF InState, Exists
  <2>2. Named("Queued")' = Named("Queued") \cup {p}
        /\ Named("Cancelled")' = Named("Cancelled") \ {p}
    BY <1>1, <1>3, <1>5, <2>1, NamedStep
  <2>3. Named("Queued")' = Named("Queued") /\ Named("Cancelled")' = Named("Cancelled")
    BY <1>6, <2>2
  <2> QED BY <1>4, <2>3 DEF Promise!vars, LogOf
<1>8. CASE proposals'[slot].state = "Cancelled"
  <2>1. ~InState(slot, "Queued")' /\ InState(slot, "Cancelled")'
    BY <1>5, <1>8 DEF InState, Exists
  <2>2. Named("Queued")' = Named("Queued") \ {p}
        /\ Named("Cancelled")' = Named("Cancelled") \cup {p}
    BY <1>1, <1>3, <1>5, <2>1, NamedStep
  <2>3. Promise!Veto(p)  BY <1>4, <1>6, <2>2 DEF Promise!Veto, LogOf
  <2> QED BY <1>2, <2>3 DEF Promise!Next
<1> QED BY <1>1, <1>7, <1>8

\* execute is Run of its proposal.
LEMMA ExecuteRuns ==
    ASSUME Accounts, CallsAreSerial, [Next]_vars, NEW slot \in Slot, Executes(slot)
    PROVE  Promise!Next
<1>0. PICK program \in Programs, adapter \in Adapters, data \in Data,
           accounts \in SUBSET Forwardable, outerSigners \in SUBSET (Keys \cap Forwardable) :
             Execute(slot, program, adapter, data, accounts, outerSigners)
  BY DEF Executes
<1>1. vaults[slot.vaultId] # NoAccount
  BY <1>0 DEF Accounts, ProposalAccounts, Execute, IsQueued, Exists
<1> DEFINE v == slot.vaultId
           p == NameOf(slot)
<1>2. /\ proposals[slot] \in Proposal /\ proposals[slot].state = "Queued"
      /\ proposals'[slot] = [proposals[slot] EXCEPT !.state = "Executed"]
      /\ proposals'[slot] \in Proposal
      /\ \A s \in Slot : s # slot => proposals'[s] = proposals[s]
      /\ slot = SlotAtNonce(v) /\ v \in Vaults
      /\ \A w \in Vaults : w # v => cpis'[w] = cpis[w]
  BY ZenonT(40), <1>0, <1>1, ExecuteEffect DEF Accounts
<1>3. /\ proposals'[slot].action = proposals[slot].action
      /\ proposals'[slot].state = "Executed" /\ proposals'[slot] # NoAccount
  BY <1>2 DEF Proposal
<1>4. p \in [vaultId : Vaults, nonce : U64, action : Action]
  BY <1>2 DEF NameOf, Slot, Proposal
<1>5. p = NameOf(slot)'  BY <1>3 DEF NameOf
<1>6. /\ Exists(slot) /\ InState(slot, "Queued")
      /\ ~InState(slot, "Cancelled") /\ ~InState(slot, "Executed")
      /\ ~InState(slot, "Queued")' /\ ~InState(slot, "Cancelled")'
  BY <1>2, <1>3 DEF InState, Exists
<1>7. p.vaultId = v /\ p.nonce = Len(LogOf(v))
  <2>1. vaults[v].nonce = Len(LogOf(v))
    <3> HIDE DEF v
    <3> QED BY <1>1, <1>2, <1>6, NonceIsLength DEF v
  <2>2. slot.nonce = vaults[v].nonce  BY <1>0 DEF Execute, NonceMatches
  <2> QED BY <2>1, <2>2 DEF NameOf
<1>8. LogOf(v)' = Append(LogOf(v), p)
  <2> DEFINE n == Len(cpis[v])
             new == [i \in 1..(n + 1) |->
                       [vaultId |-> v, nonce |-> i - 1,
                        action |-> proposals[[vaultId |-> v, nonce |-> i - 1]].action]]
  <2>1. n \in Nat /\ cpis[v] \in Seq(Cpi) /\ cpis \in [Vaults -> Seq(Cpi)]
    BY <1>2 DEF Accounts, TypeOK
  <2>2. Len(cpis'[v]) = n + 1
    <3> DEFINE cpi == [slot |-> slot, program |-> program, data |-> data,
                       accounts |-> accounts,
                       signers |-> CpiSigners(accounts, outerSigners),
                       at |-> unix_timestamp]
    <3>1. cpis' = [cpis EXCEPT ![v] = Append(@, cpi)]  BY <1>0 DEF Execute
    <3> HIDE DEF cpi, v
    <3>2. cpis'[v] = Append(cpis[v], cpi)  BY <1>2, <2>1, <3>1
    <3> QED BY <2>1, <3>2
  <2>3. slot = [vaultId |-> v, nonce |-> n]
    <3>1. slot.nonce = n  BY <1>7, <2>1 DEF LogOf, NameOf
    <3> QED BY <3>1 DEF Slot
  <2>4. p = [vaultId |-> v, nonce |-> n, action |-> proposals[slot].action]
    BY <2>3 DEF NameOf
  <2>5. \A i \in 1..(n + 1) :
          proposals'[[vaultId |-> v, nonce |-> i - 1]].action
            = proposals[[vaultId |-> v, nonce |-> i - 1]].action
    <3> SUFFICES ASSUME NEW i \in 1..(n + 1)
                 PROVE  proposals'[[vaultId |-> v, nonce |-> i - 1]].action
                          = proposals[[vaultId |-> v, nonce |-> i - 1]].action
      OBVIOUS
    <3>1. CASE i \in 1..n
      <4> HIDE DEF v
      <4> QED BY <1>2, <3>1, LogKeeps
    <3>2. CASE i = n + 1
      <4>1. i - 1 = n  BY <2>1, <3>2
      <4> QED BY <1>3, <2>3, <4>1
    <3>3. i \in 1..n \/ i = n + 1
      <4> HIDE DEF n
      <4> QED BY <2>1
    <3> QED BY <3>1, <3>2, <3>3
  <2>6. LogOf(v)' = new  BY <2>2, <2>5 DEF LogOf
  <2>7. LogOf(v) = [i \in 1..n |->
                      [vaultId |-> v, nonce |-> i - 1,
                       action |-> proposals[[vaultId |-> v, nonce |-> i - 1]].action]]
    BY DEF LogOf
  <2>8. (n + 1) - 1 = n
    <3> HIDE DEF n
    <3> QED BY <2>1
  <2> HIDE DEF n, v, p
  <2>9. Len(LogOf(v)) = n  BY <2>1, <2>7
  <2>10. new = Append(LogOf(v), p)
    <3> DEFINE s == LogOf(v)
               S == {s[i] : i \in 1..n} \cup {p}
    <3>1. s \in Seq(S) /\ Len(s) = n /\ p \in S
      <4>1. \A i \in 1..n : s[i] \in S  OBVIOUS
      <4>2. s = [i \in 1..n |-> s[i]]  BY <2>7
      <4> HIDE DEF s, S
      <4>3. s \in [1..n -> S]  BY <4>1, <4>2
      <4>4. s \in Seq(S) /\ Len(s) = n  BY <2>1, <4>3
      <4> QED BY <4>4 DEF S
    <3>2. \A i \in 1..n : s[i] = new[i]
      BY <2>1, <2>7
    <3>3. new[n + 1] = p  BY <2>1, <2>3, <2>4, <2>8
    <3>4. new = [i \in 1..(n + 1) |-> new[i]]  OBVIOUS
    <3> HIDE DEF s, S, new
    <3>5. \A i \in 1..(n + 1) : i \in 1..n \/ i = n + 1  BY <2>1
    <3>6. \A i \in 1..n : s[i] \in S  BY <3>1
    <3>7. new \in [1..(n + 1) -> S]  BY <3>1, <3>2, <3>3, <3>4, <3>5, <3>6
    <3>8. new \in Seq(S) /\ Len(new) = n + 1  BY <2>1, <3>7
    <3>9. /\ Append(s, p) \in Seq(S) /\ Len(Append(s, p)) = n + 1
          /\ \A i \in 1..n : Append(s, p)[i] = s[i]
          /\ Append(s, p)[n + 1] = p
      BY <2>1, <3>1
    <3>10. \A i \in 1..(n + 1) : new[i] = Append(s, p)[i]
      BY <3>2, <3>3, <3>5, <3>9
    <3>11. new = Append(s, p)  BY <2>1, <3>8, <3>9, <3>10
    <3> QED BY <3>11 DEF s
  <2> QED BY <2>6, <2>10
<1>9. \A w \in Vaults : w # v => LogOf(w)' = LogOf(w)
  BY <1>2, LogsKeep
<1> HIDE DEF p
<1>10. /\ Named("Queued")' = Named("Queued") \ {p} /\ p \in Named("Queued")
       /\ Named("Cancelled")' = Named("Cancelled") \ {p} /\ p \notin Named("Cancelled")
  BY ZenonT(40), <1>2, <1>3, <1>5, <1>6, NamedStep
<1>11. Named("Cancelled")' = Named("Cancelled")  BY <1>10
<1>12. PICK q \in [vaultId : Vaults, nonce : U64, action : Action] : q = p
  BY <1>4
<1>13. Promise!Run(q)
  <2> DEFINE logs == [w \in Vaults |-> LogOf(w)]
  <2>1. logs' = [logs EXCEPT ![v] = Append(@, q)]
    BY <1>2, <1>8, <1>9, <1>12
  <2>2. q.nonce = Len(logs[q.vaultId])  BY <1>2, <1>7, <1>12
  <2>3. logs' = [logs EXCEPT ![q.vaultId] = Append(@, q)]  BY <1>7, <1>12, <2>1
  <2> QED BY <1>10, <1>11, <1>12, <2>2, <2>3 DEF Promise!Run, LogOf
<1> QED BY <1>13 DEF Promise!Next

\* Every behaviour of the program is one that GuardedExecution allows: queue_proposal,
\* the deciding cancel and execute are its three steps and everything else stutters.
THEOREM ProgramRefinesPromise == Spec => RefinesPromise
<1>1. Init => Promise!Init
  <2> SUFFICES ASSUME Init PROVE Promise!Init
    OBVIOUS
  <2>1. \A slot \in Slot, s \in {"Queued", "Cancelled"} : ~InState(slot, s)
    BY DEF Init, InState, Exists
  <2>2. Named("Queued") = {} /\ Named("Cancelled") = {}
    BY <2>1 DEF Named
  <2>3. \A v \in Vaults : LogOf(v) = <<>>
    BY DEF Init, LogOf
  <2> QED BY <2>2, <2>3 DEF Promise!Init, LogOf
<1>2. Accounts /\ CallsAreSerial /\ [Next]_vars => [Promise!Next]_(Promise!vars)
  <2> SUFFICES ASSUME Accounts, CallsAreSerial, [Next]_vars
               PROVE  Promise!Next \/ UNCHANGED Promise!vars
    OBVIOUS
  <2>1. proposals' = proposals /\ cpis' = cpis => UNCHANGED Promise!vars
    BY DEF Promise!vars, Named, InState, Exists
  <2>2. ASSUME NEW v \in Vaults, NEW action \in Action, NEW expires_at \in I64,
               NEW atts \in SUBSET Presentable, QueueProposal(v, action, expires_at, atts)
        PROVE  Promise!Next
    BY <2>2, QueueApproves
  <2>3. ASSUME NEW slot \in Slot, NEW key \in Keys, Cancel(slot, key)
        PROVE  Promise!Next \/ UNCHANGED Promise!vars
    BY <2>3, CancelVetoes
  <2>4. ASSUME SomeExecute PROVE Promise!Next
    <3>1. PICK slot \in Slot : Executes(slot)  BY <2>4 DEF SomeExecute, Executes
    <3> QED BY <3>1, ExecuteRuns
  <2> QED BY <2>1, <2>2, <2>3, <2>4
          DEF Next, vars, SomeQueue, SomeCancel, SomeSign, InitVault, Sign, Tick
<1> QED BY <1>1, <1>2, AccountsHold, CallsStaySerial, PTL
       DEF Spec, RefinesPromise, Promise!Spec
\* So the program keeps what GuardedExecution comes to: each vault's CPIs are of one
\* proposal per nonce, in order, none of which is vetoed or still waits.
THEOREM ProgramKeepsPromise == Spec => []Promise!EachSettledOnce
<1>1. Accounts /\ CallsAreSerial => Promise!EachSettledOnce
  <2> SUFFICES ASSUME Accounts, CallsAreSerial PROVE Promise!EachSettledOnce
    OBVIOUS
  <2>1. ASSUME NEW s \in {"Queued", "Cancelled"}, NEW p \in Named(s)
        PROVE  /\ [vaultId |-> p.vaultId, nonce |-> p.nonce] \in Slot
               /\ InState([vaultId |-> p.vaultId, nonce |-> p.nonce], s)
    BY <2>1 DEF Named, Slot
  <2>2. Named("Queued") \cap Named("Cancelled") = {}
    BY <2>1 DEF InState
  <2>3. ASSUME NEW v \in Vaults, NEW i \in DOMAIN LogOf(v)
        PROVE  /\ LogOf(v)[i].vaultId = v /\ LogOf(v)[i].nonce = i - 1
               /\ LogOf(v)[i] \notin Named("Queued") \cup Named("Cancelled")
    <3>1. LogOf(v)[i].vaultId = v /\ LogOf(v)[i].nonce = i - 1 /\ i \in 1..Len(cpis[v])
      BY <2>3 DEF LogOf
    <3>2. Len(cpis[v]) \in Nat /\ MaxU64 \in Nat  BY WidthAssumption DEF Accounts, TypeOK
    <3>3. i - 1 < Len(cpis[v]) /\ i - 1 \in Nat  BY <3>1, <3>2
    <3>4. ASSUME NEW s \in {"Queued", "Cancelled"}, LogOf(v)[i] \in Named(s)
          PROVE  FALSE
      <4>1. /\ [vaultId |-> v, nonce |-> i - 1] \in Slot
            /\ InState([vaultId |-> v, nonce |-> i - 1], s)
        BY <2>1, <3>1, <3>4
      <4>2. i - 1 \in U64  BY <4>1 DEF Slot
      <4>3. InState([vaultId |-> v, nonce |-> i - 1], "Executed")
        BY <3>3, <4>2 DEF CallsAreSerial
      <4> QED BY <4>1, <4>3 DEF InState
    <3> QED BY <3>1, <3>4
  <2> QED BY <2>2, <2>3 DEF Promise!EachSettledOnce, LogOf
<1> QED BY <1>1, AccountsHold, CallsStaySerial, PTL

==============================================================================
