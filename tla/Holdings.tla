----------------------------- MODULE Holdings ------------------------------
(***************************************************************************)
(* What one owner holds in the AR.IO programs, and what the programs do to *)
(* it when a transaction of the SDK lands: liquid tokens, stake delegated  *)
(* to gateways, withdrawals and token vaults, both numbered by a counter   *)
(* of the program, the owner's own gateway, and what was paid for names.   *)
(*                                                                         *)
(* The programs are not in the repository: Execute and what it is made of  *)
(* model them from how src/src/solana/io-writeable.ts calls them and from  *)
(* the errors its comments name.  A rejected transaction changes nothing.  *)
(***************************************************************************)
EXTENDS FundingPlan

CONSTANTS Gateways,      \* gateways of other operators
          MinDelegation, \* [Gateways -> Nat], the floor a gateway has set
          MinOperator,   \* the floor of operator stake
          MaxPrice,      \* bound: the highest price of a name
          MaxEnv         \* bound: moves of the network, lost confirmations

ASSUME HoldingsAssumption ==
    /\ IsFiniteSet(Gateways) /\ MinDelegation \in [Gateways -> Nat]
    /\ MinOperator \in Nat \ {0}
    /\ MaxPrice \in Nat \ {0} /\ MaxEnv \in Nat

VARIABLES h,     \* the holdings: a record, see HoldingsType
          env    \* moves of the network and lost confirmations so far

(* A withdrawal or a token vault; the account of the next one is numbered  *)
(* by the counter of its sequence.                                         *)
Deposit == [amt : Nat, gw : Gateways \union {NoGw}, isProtected : BOOLEAN,
            matured : BOOLEAN, open : BOOLEAN]

HoldingsType ==
    [liquid : Nat, hasAta : BOOLEAN, payeeAta : BOOLEAN, stake : [Gateways -> Nat],
     status : [Gateways -> {"joined", "leaving", "disabled"}],
     own : Nat, joined : BOOLEAN,
     vaults : Seq(Deposit), locks : Seq(Deposit), lockAtas : SUBSET Nat,
     price : 0..MaxPrice, premium : Nat, paid : Nat]

NextId(seq) == Len(seq) + 1
OpenAt(seq, id) == id \in 1..Len(seq) /\ seq[id].open
Closed(seq, id) == [seq EXCEPT ![id].open = FALSE, ![id].amt = 0]
New(amt, g, isProtected) ==
    [amt |-> amt, gw |-> g, isProtected |-> isProtected, matured |-> FALSE,
     open |-> TRUE]

(* The outcomes of an instruction: one when it is accepted, else none. *)
When(accepted, outcome) == IF accepted THEN {outcome} ELSE {}

----------------------------------------------------------------------------
Moved(stake, g, g2, amt) ==
    LET left == [stake EXCEPT ![g] = @ - amt]
    IN  [left EXCEPT ![g2] = @ + amt]

(* Staking and withdrawals (ario-gar).  A new withdrawal is created at the *)
(* account the transaction names, and only the next one is accepted.       *)
OnStake(x, ix) ==
    CASE ix.t = "delegate_stake" ->
           When(x.liquid >= ix.amt /\ x.status[ix.g] = "joined",
                [x EXCEPT !.liquid = @ - ix.amt, !.stake[ix.g] = @ + ix.amt])
      [] ix.t = "redelegate_stake" ->
           When(x.stake[ix.g] >= ix.amt /\ x.status[ix.g2] = "joined",
                [x EXCEPT !.stake = Moved(@, ix.g, ix.g2, ix.amt)])
      [] ix.t = "decrease_delegate_stake" ->
           When(x.stake[ix.g] >= ix.amt /\ ix.id = NextId(x.vaults),
                [x EXCEPT !.stake[ix.g] = @ - ix.amt,
                          !.vaults = Append(@, New(ix.amt, ix.g, FALSE))])
      [] ix.t \in {"claim_delegate_from_leaving_gateway",
                   "claim_delegate_from_disabled_gateway"} ->
           When(/\ x.stake[ix.g] > 0 /\ ix.id = NextId(x.vaults)
                /\ x.status[ix.g] = IF ix.t = "claim_delegate_from_leaving_gateway"
                                    THEN "leaving" ELSE "disabled",
                [x EXCEPT !.stake[ix.g] = 0,
                          !.vaults = Append(@, New(x.stake[ix.g], ix.g, FALSE))])
      [] ix.t = "increase_operator_stake" ->
           When(x.joined /\ x.liquid >= ix.amt,
                [x EXCEPT !.liquid = @ - ix.amt, !.own = @ + ix.amt])
      [] ix.t = "decrease_operator_stake" ->
           When(/\ x.joined /\ x.own - ix.amt >= MinOperator
                /\ ix.id = NextId(x.vaults),
                [x EXCEPT !.own = @ - ix.amt,
                          !.vaults = Append(@, New(ix.amt, NoGw, FALSE))])
      [] ix.t = "leave_network" ->
           When(x.joined /\ ix.id = NextId(x.vaults) /\ ix.id2 = ix.id + 1,
                [x EXCEPT !.joined = FALSE, !.own = 0,
                          !.vaults = @ \o <<New(MinOperator, NoGw, TRUE)>>
                             \o (IF x.own > MinOperator
                                 THEN <<New(x.own - MinOperator, NoGw, FALSE)>>
                                 ELSE <<>>)])
      [] ix.t = "join_network" ->
           When(~x.joined /\ x.liquid >= ix.amt /\ ix.amt >= MinOperator,
                [x EXCEPT !.joined = TRUE, !.own = ix.amt,
                          !.liquid = @ - ix.amt])

(* What becomes of a withdrawal; a payout needs the owner's token account. *)
OnWithdrawal(x, ix) ==
    CASE ix.t = "instant_withdrawal" ->
           When(/\ OpenAt(x.vaults, ix.id) /\ x.hasAta
                /\ ~x.vaults[ix.id].isProtected,
                [x EXCEPT !.liquid = @ + x.vaults[ix.id].amt,
                          !.vaults = Closed(@, ix.id)])
      [] ix.t = "claim_withdrawal" ->
           When(/\ OpenAt(x.vaults, ix.id) /\ x.hasAta
                /\ x.vaults[ix.id].matured,
                [x EXCEPT !.liquid = @ + x.vaults[ix.id].amt,
                          !.vaults = Closed(@, ix.id)])
      [] ix.t = "cancel_withdrawal" ->
           When(/\ OpenAt(x.vaults, ix.id) /\ ~x.vaults[ix.id].isProtected
                /\ x.vaults[ix.id].gw = ix.g
                /\ IF ix.g = NoGw THEN x.joined ELSE x.status[ix.g] = "joined",
                IF ix.g = NoGw
                THEN [x EXCEPT !.own = @ + x.vaults[ix.id].amt,
                               !.vaults = Closed(@, ix.id)]
                ELSE [x EXCEPT !.stake[ix.g] = @ + x.vaults[ix.id].amt,
                               !.vaults = Closed(@, ix.id)])

(* Token accounts and token vaults (ario-core).  The program initialises   *)
(* neither a vault's token account nor the owner's.                        *)
OnTokens(x, ix) ==
    CASE ix.t = "create_ata" ->
           {IF ix.id = NoId THEN [x EXCEPT !.hasAta = TRUE]
            ELSE [x EXCEPT !.lockAtas = @ \union {ix.id}]}
      [] ix.t = "create_payee_ata" -> {[x EXCEPT !.payeeAta = TRUE]}
      [] ix.t = "transfer" ->
           When(x.liquid >= ix.amt /\ x.payeeAta, [x EXCEPT !.liquid = @ - ix.amt])
      [] ix.t = "create_vault" ->
           When(/\ x.liquid >= ix.amt /\ ix.id = NextId(x.locks)
                /\ ix.id \in x.lockAtas,
                [x EXCEPT !.liquid = @ - ix.amt,
                          !.locks = Append(@, New(ix.amt, NoGw, TRUE))])
      [] ix.t = "vaulted_transfer" ->
           When(ix.id = NextId(x.locks) /\ ix.id \in x.lockAtas,
                [x EXCEPT !.locks = Append(@, New(ix.amt, NoGw, FALSE))])
      [] ix.t = "increase_vault" ->
           When(x.liquid >= ix.amt /\ OpenAt(x.locks, ix.id),
                [x EXCEPT !.liquid = @ - ix.amt, !.locks[ix.id].amt = @ + ix.amt])
      [] ix.t = "extend_vault" ->
           When(OpenAt(x.locks, ix.id), [x EXCEPT !.locks[ix.id].matured = FALSE])
      [] ix.t = "revoke_vault" ->
           When(OpenAt(x.locks, ix.id) /\ ~x.locks[ix.id].isProtected,
                [x EXCEPT !.locks = Closed(@, ix.id)])
      [] ix.t = "release_vault" ->
           When(OpenAt(x.locks, ix.id) /\ x.locks[ix.id].matured /\ x.hasAta,
                [x EXCEPT !.liquid = @ + x.locks[ix.id].amt,
                          !.locks = Closed(@, ix.id)])

----------------------------------------------------------------------------
(* Payments.  A single source pays the live price; a plan names amounts,   *)
(* which must add up to the price, a withdrawal account for each of its    *)
(* withdrawals, and an account for each stake it leaves below its floor.   *)
Debit(x, s, amt) ==
    CASE s.kind = "balance" ->
           When(x.liquid >= amt, [x EXCEPT !.liquid = @ - amt])
      [] s.kind = "delegation" ->
           When(s.gw \in Gateways /\ x.stake[s.gw] >= amt,
                [x EXCEPT !.stake[s.gw] = @ - amt])
      [] s.kind = "operatorStake" ->
           When(x.joined /\ x.own - amt >= MinOperator, [x EXCEPT !.own = @ - amt])
      [] s.kind = "withdrawal" ->
           When(/\ OpenAt(x.vaults, s.id) /\ x.vaults[s.id].amt >= amt
                /\ ~x.vaults[s.id].isProtected,
                [x EXCEPT !.vaults[s.id].amt = @ - amt])

DebitAll(x, sources) ==
    FoldLeft(LAMBDA S, s : UNION {Debit(y, s, s.amount) : y \in S}, {x}, sources)

BelowFloor(x, sources) ==
    {g \in PlanGateways(sources) : x.stake[g] \in 1..(MinDelegation[g] - 1)}

ToVault(y, g) ==
    LET vaults == Append(y.vaults, New(y.stake[g], g, FALSE))
    IN  [y EXCEPT !.vaults = vaults, !.stake[g] = 0]

Vaulted(x, gs) == FoldSet(LAMBDA g, y : ToVault(y, g), x, gs)

ResidueIds(x, n) == [i \in 1..n |-> NextId(x.vaults) + i - 1]

OnPayment(x, ix) ==
    LET share == IF ix.returned THEN x.premium ELSE 0
        y == [x EXCEPT !.liquid = @ - share, !.paid = @ + x.price + share]
    IN  IF x.liquid < share THEN {}
        ELSE IF ix.t = "pay_single" THEN Debit(y, ix.source, x.price)
        ELSE {Vaulted(z, BelowFloor(z, ix.sources)) :
                z \in {w \in DebitAll(y, ix.sources) :
                         /\ AmountOf(ix.sources) = x.price
                         /\ ix.residue = ResidueIds(w, Cardinality(
                                                BelowFloor(w, ix.sources)))}}

StakeIxs == {"delegate_stake", "redelegate_stake", "decrease_delegate_stake",
             "claim_delegate_from_leaving_gateway",
             "claim_delegate_from_disabled_gateway", "increase_operator_stake",
             "decrease_operator_stake", "leave_network", "join_network"}
WithdrawalIxs == {"instant_withdrawal", "claim_withdrawal", "cancel_withdrawal"}
PaymentIxs == {"pay_single", "pay_plan"}

OnInstruction(x, ix) ==
    IF ix.t \in StakeIxs THEN OnStake(x, ix)
    ELSE IF ix.t \in WithdrawalIxs THEN OnWithdrawal(x, ix)
    ELSE IF ix.t \in PaymentIxs THEN OnPayment(x, ix)
    ELSE OnTokens(x, ix)

(* A transaction is atomic: its instructions in order, here one or two, or *)
(* nothing.                                                                *)
Execute(x, ixs) ==
    UNION {IF Len(ixs) = 1 THEN {y} ELSE OnInstruction(y, ixs[2]) :
             y \in OnInstruction(x, ixs[1])}

----------------------------------------------------------------------------
(* The rest of the network: the demand factor moves the price, the premium *)
(* of an auction decays, deposits mature, gateways leave or stop taking    *)
(* delegations.                                                            *)
MovePrice(x) == {[x EXCEPT !.price = p] : p \in 1..MaxPrice \ {x.price}}
DecayPremium(x) == When(x.premium > 0, [x EXCEPT !.premium = @ - 1])
Matures(x) ==
    {[x EXCEPT !.vaults[i].matured = TRUE] : i \in {j \in DOMAIN x.vaults :
        x.vaults[j].open /\ ~x.vaults[j].matured}}
      \union
    {[x EXCEPT !.locks[i].matured = TRUE] : i \in {j \in DOMAIN x.locks :
        x.locks[j].open /\ ~x.locks[j].matured}}
LosesGateway(x) ==
    {[x EXCEPT !.status[g] = s] :
        g \in {f \in Gateways : x.status[f] = "joined"},
        s \in {"leaving", "disabled"}}
=============================================================================
