---------------------------- MODULE StakeCalls -----------------------------
(***************************************************************************)
(* Concurrent calls of one owner's SDK clients that stake, withdraw and    *)
(* lock tokens (src/src/solana/io-writeable.ts).  A call reads what it     *)
(* needs, above all the counter that numbers the account it will create,   *)
(* builds a transaction and sends it; the transaction lands, is rejected,  *)
(* or its confirmation is lost, and then it may land after the call has    *)
(* thrown.  What is read and what is sent right after it are one step:     *)
(* nothing else the call depends on is read in between.                    *)
(***************************************************************************)
EXTENDS Holdings

CONSTANTS Calls,      \* calls made by the owner's clients
          Amounts     \* amounts the owner asks for

ASSUME AmountsAssumption == Amounts \subseteq Nat \ {0}

VARIABLE call

NoParams == [op |-> "none"]
Idle == [pc |-> "idle", p |-> NoParams, tx |-> <<>>, made |-> NoId,
         cost |-> 0, seen |-> <<>>, plan |-> <<>>, raced |-> FALSE]

Ended == {"ok", "rejected", "failed", "refused", "short"}
End(k, how) == [Idle EXCEPT !.pc = how, !.raced = k.raced]

(* Ops of one call are told apart by the record of its parameters.  A      *)
(* method that creates an account reads the counter that numbers it.       *)
Delegating    == {"delegateStake", "decreaseDelegateStake"}
Operating     == {"increaseOperatorStake", "decreaseOperatorStake"}
Withdrawing   == {"instantWithdrawal", "cancelWithdrawal"}
Claiming      == {"claimDelegateFromLeavingGateway",
                  "claimDelegateFromDisabledGateway"}
Membership    == {"joinNetwork", "leaveNetwork"}
Locking       == {"createVault", "vaultedTransfer"}
LockChanging  == {"extendVault", "increaseVault", "revokeVault"}

CreateAta(id) == [t |-> "create_ata", id |-> id]

(* vaultedTransfer, createVault: the new vault's token account   *)
(* is created in the same transaction, at the account of the next vault.   *)
NewLockTx(p) ==
    LET id == NextId(h.locks) IN
    IF p.op = "createVault"
    THEN <<CreateAta(id), [t |-> "create_vault", id |-> id, amt |-> p.amt]>>
    ELSE <<CreateAta(id),
           [t |-> "vaulted_transfer", id |-> id, amt |-> p.amt]>>

(* extendVault, increaseVault, revokeVault: one instruction that names the *)
(* vault the caller gave.                                                  *)
ChangeLockTx(p) ==
    CASE p.op = "extendVault"   -> <<[t |-> "extend_vault", id |-> p.id]>>
      [] p.op = "increaseVault" ->
           <<[t |-> "increase_vault", id |-> p.id, amt |-> p.amt]>>
      [] p.op = "revokeVault"   -> <<[t |-> "revoke_vault", id |-> p.id]>>

(* Mutant: the owner is taken to have a token account. *)
ReleaseLockOnly(p) == <<[t |-> "release_vault", id |-> p.id]>>

(* releaseVault: its owner may have no token account yet. *)
ReleaseLockTx(p) ==
    <<CreateAta(NoId), [t |-> "release_vault", id |-> p.id]>>

(* joinNetwork, leaveNetwork: leaving creates up to two withdrawals, and   *)
(* the accounts of both are passed whether or not the second is needed.    *)
MembershipTx(p) ==
    IF p.op = "joinNetwork" THEN <<[t |-> "join_network", amt |-> p.amt]>>
    ELSE LET id == NextId(h.vaults)
         IN  <<[t |-> "leave_network", id |-> id, id2 |-> id + 1]>>

(* increaseOperatorStake, decreaseOperatorStake, delegateStake,            *)
(* decreaseDelegateStake.  The instant option of decreaseOperatorStake is  *)
(* not used by the code.                                                   *)
ChangeStakeTx(p) ==
    CASE p.op = "increaseOperatorStake" ->
           <<[t |-> "increase_operator_stake", amt |-> p.amt]>>
      [] p.op = "decreaseOperatorStake" ->
           <<[t |-> "decrease_operator_stake", amt |-> p.amt,
              id |-> NextId(h.vaults)]>>
      [] p.op = "delegateStake" ->
           <<[t |-> "delegate_stake", g |-> p.g, amt |-> p.amt]>>
      [] p.op = "decreaseDelegateStake" ->
           <<[t |-> "decrease_delegate_stake", g |-> p.g, amt |-> p.amt,
              id |-> NextId(h.vaults)]>>

RedelegateTx(p) ==
    <<[t |-> "redelegate_stake", g |-> p.g, g2 |-> p.g2, amt |-> p.amt]>>

(* instantWithdrawal and cancelWithdrawal: a withdrawal of the owner's own *)
(* gateway is cancelled without naming one.                                *)
WithdrawalTx(p) ==
    IF p.op = "instantWithdrawal"
    THEN <<[t |-> "instant_withdrawal", id |-> p.id]>>
    ELSE <<[t |-> "cancel_withdrawal", id |-> p.id, g |-> p.g]>>

ClaimWithdrawalTx(p) == <<[t |-> "claim_withdrawal", id |-> p.id]>>

(* The owner or a cranker on the owner's behalf: the counter read is the   *)
(* delegator's, whoever pays.                                              *)
ClaimDelegateTx(p) ==
    <<[t |-> IF p.op = "claimDelegateFromLeavingGateway"
             THEN "claim_delegate_from_leaving_gateway"
             ELSE "claim_delegate_from_disabled_gateway",
       g |-> p.g, id |-> NextId(h.vaults)]>>

(* transfer: its recipient may have no token account yet either.           *)
TransferTx(p) ==
    <<[t |-> "create_payee_ata"], [t |-> "transfer", amt |-> p.amt]>>

TxOf(p) ==
    CASE p.op = "transfer"     -> TransferTx(p)
      [] p.op \in Locking      -> NewLockTx(p)
      [] p.op = "releaseVault" -> ReleaseLockTx(p)
      [] p.op \in LockChanging -> ChangeLockTx(p)
      [] p.op \in Membership   -> MembershipTx(p)
      [] p.op \in Delegating \union Operating -> ChangeStakeTx(p)
      [] p.op = "redelegateStake" -> RedelegateTx(p)
      [] p.op = "claimWithdrawal" -> ClaimWithdrawalTx(p)
      [] p.op \in Withdrawing  -> WithdrawalTx(p)
      [] p.op \in Claiming     -> ClaimDelegateTx(p)

----------------------------------------------------------------------------
(* What an owner may ask for. *)
OpenIds(seq) == {i \in DOMAIN seq : seq[i].open}

Requests ==
    [op : {"transfer", "joinNetwork", "createVault", "vaultedTransfer"}
            \union Operating, amt : Amounts]
      \union [op : {"leaveNetwork"}]
      \union [op : {"delegateStake"}, g : Gateways, amt : Amounts]
      \union [op : {"decreaseDelegateStake"}, g : Gateways, amt : Amounts,
              instant : BOOLEAN]
      \union [op : {"redelegateStake"}, g : Gateways, g2 : Gateways,
              amt : Amounts]
      \union [op : {"instantWithdrawal", "claimWithdrawal"},
              id : OpenIds(h.vaults)]
      \union [op : {"cancelWithdrawal"}, id : OpenIds(h.vaults),
              g : Gateways \union {NoGw}]
      \union [op : Claiming, g : Gateways]
      \union [op : {"extendVault", "revokeVault", "releaseVault"},
              id : OpenIds(h.locks)]
      \union [op : {"increaseVault"}, id : OpenIds(h.locks), amt : Amounts]

(* A request is sensible when what it asks for exists: whether the SDK's   *)
(* transaction for it is then accepted is what is checked.                 *)
Payout(p) == p.op \in {"instantWithdrawal", "claimWithdrawal"}

Sensible(p) ==
    CASE p.op \in {"transfer", "createVault"} -> h.liquid >= p.amt
      [] p.op = "vaultedTransfer" -> TRUE
      [] p.op = "joinNetwork" -> /\ ~h.joined /\ h.liquid >= p.amt
                                 /\ p.amt >= MinOperator
      [] p.op = "leaveNetwork" -> h.joined
      [] p.op = "increaseOperatorStake" -> h.joined /\ h.liquid >= p.amt
      [] p.op = "decreaseOperatorStake" ->
           h.joined /\ h.own >= p.amt + MinOperator
      [] p.op = "delegateStake" ->
           h.liquid >= p.amt /\ h.status[p.g] = "joined"
      [] p.op = "decreaseDelegateStake" -> h.stake[p.g] >= p.amt
      [] p.op = "redelegateStake" -> /\ p.g # p.g2 /\ h.stake[p.g] >= p.amt
                                     /\ h.status[p.g2] = "joined"
      [] p.op = "instantWithdrawal" -> ~h.vaults[p.id].isProtected
      [] p.op = "claimWithdrawal" -> h.vaults[p.id].matured
      [] p.op = "cancelWithdrawal" ->
           /\ ~h.vaults[p.id].isProtected /\ h.vaults[p.id].gw = p.g
           /\ IF p.g = NoGw THEN h.joined ELSE h.status[p.g] = "joined"
      [] p.op = "claimDelegateFromLeavingGateway" ->
           h.stake[p.g] > 0 /\ h.status[p.g] = "leaving"
      [] p.op = "claimDelegateFromDisabledGateway" ->
           h.stake[p.g] > 0 /\ h.status[p.g] = "disabled"
      [] p.op = "increaseVault" -> h.liquid >= p.amt
      [] p.op = "revokeVault" -> ~h.locks[p.id].isProtected
      [] p.op = "releaseVault" -> h.locks[p.id].matured
      [] p.op = "extendVault" -> TRUE

----------------------------------------------------------------------------
Submit(c, p) ==
    /\ call[c].pc = "idle"
    /\ Sensible(p)
    /\ call' = [call EXCEPT ![c] = [Idle EXCEPT !.pc = "flight", !.p = p,
                                                !.tx = TxOf(p)]]
    /\ UNCHANGED <<h, env>>

(* Others see that the holdings changed since they read them. *)
Racing(k) == IF k.pc = "idle" \/ k.pc \in Ended THEN k
             ELSE [k EXCEPT !.raced = TRUE]
ChangesFor(c, new) ==
    [d \in Calls |-> IF d = c THEN new ELSE Racing(call[d])]

(* An instant decrease goes on, once its first transaction is confirmed,   *)
(* with the withdrawal that created, at the account read before it.        *)
WantsSecond(k) ==
    /\ k.p.op = "decreaseDelegateStake" /\ k.p.instant /\ k.made = NoId

AfterLanding(k) ==
    IF WantsSecond(k) THEN [k EXCEPT !.pc = "confirmed", !.made = k.tx[1].id]
    ELSE End(k, "ok")

(* Mutant: the newest withdrawal is taken. *)
SecondNewest(k) == WithdrawalTx([op |-> "instantWithdrawal",
                                 id |-> NextId(h.vaults) - 1])

SecondTx(k) == WithdrawalTx([op |-> "instantWithdrawal", id |-> k.tx[1].id])

SendSecond(c) ==
    /\ call[c].pc = "confirmed"
    /\ call' = [call EXCEPT ![c].pc = "flight", ![c].tx = SecondTx(call[c])]
    /\ UNCHANGED <<h, env>>

Land(c) ==
    /\ call[c].pc = "flight"
    /\ h' \in Execute(h, call[c].tx)
    /\ call' = ChangesFor(c, AfterLanding(call[c]))
    /\ UNCHANGED env

Reject(c) ==
    /\ call[c].pc = "flight"
    /\ Execute(h, call[c].tx) = {}
    /\ call' = [call EXCEPT ![c] = End(@, "rejected")]
    /\ UNCHANGED <<h, env>>

(* The confirmation does not arrive: the call throws, and its transaction  *)
(* is accepted later or never.                                             *)
LoseConfirmation(c) ==
    /\ call[c].pc = "flight" /\ env < MaxEnv
    /\ call' = [call EXCEPT ![c].pc = "late"]
    /\ env' = env + 1
    /\ UNCHANGED h

LandLate(c) ==
    /\ call[c].pc = "late"
    /\ h' \in Execute(h, call[c].tx)
    /\ call' = ChangesFor(c, End(call[c], "failed"))
    /\ UNCHANGED env

Expire(c) ==
    /\ call[c].pc = "late"
    /\ call' = [call EXCEPT ![c] = End(@, "failed")]
    /\ UNCHANGED <<h, env>>

Network ==
    /\ env < MaxEnv
    /\ h' \in MovePrice(h) \union DecayPremium(h) \union Matures(h)
                \union LosesGateway(h)
    /\ env' = env + 1
    /\ call' = [c \in Calls |-> Racing(call[c])]
=============================================================================
