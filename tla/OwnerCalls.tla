---------------------------- MODULE OwnerCalls -----------------------------
(***************************************************************************)
(* One owner, several concurrent calls: StakeCalls and PurchaseCalls over  *)
(* one set of holdings.                                                    *)
(***************************************************************************)
EXTENDS PurchaseCalls

CONSTANT Portfolios      \* what the owner may start with

ASSUME PortfoliosAssumption == Portfolios \subseteq HoldingsType

vars == <<h, env, call>>

Init ==
    /\ h \in Portfolios
    /\ env = 0
    /\ call = [c \in Calls |-> Idle]

Begin(c) ==
    /\ call[c].pc = "idle"
    /\ \/ \E p \in Requests : Submit(c, p)
       \/ c \in Buyers /\ \E p \in Purchases : BeginPurchase(c, p)

Outcome(c) ==
    \/ Land(c) \/ SendSecond(c) \/ Reject(c)
    \/ LoseConfirmation(c) \/ LandLate(c) \/ Expire(c)

Next == Network \/ \E c \in Calls : Begin(c) \/ PurchaseStep(c) \/ Outcome(c)

Spec == Init /\ [][Next]_vars

----------------------------------------------------------------------------
TypeOK ==
    /\ h \in HoldingsType
    /\ env \in 0..MaxEnv
    /\ \A c \in Calls :
         /\ call[c].pc \in {"idle", "plan", "pick", "planning", "picking",
                            "planned", "insufficient", "flight", "confirmed",
                            "late"} \union Ended
         /\ call[c].cost \in Nat /\ call[c].raced \in BOOLEAN
         /\ call[c].made \in Nat \union {NoId}
         /\ \A i \in DOMAIN call[c].plan : call[c].plan[i].amount \in Nat

(* A plan made from discovered sources pays the quoted price exactly, from *)
(* what each source has, within both caps and without naming a source      *)
(* twice (buildFundingPlan, funding-plan.ts:285).                          *)
Planned(k) == k.pc = "planned" /\ ~HasSources(k.p)

PlanSound ==
    \A c \in Calls : Planned(call[c]) =>
      LET plan == call[c].plan IN
      /\ AmountOf(plan) = call[c].cost
      /\ \A i \in DOMAIN plan : plan[i].amount \in 1..plan[i].avail
      /\ Len(plan) <= MaxFundingSources
      /\ Cardinality(PlanGateways(plan)) <= MaxDelegationSources
      /\ \A i, j \in DOMAIN plan :
           i # j => <<plan[i].kind, plan[i].gw, plan[i].id>>
                      # <<plan[j].kind, plan[j].gw, plan[j].id>>

(* A floor is drained only when nothing better is left: whatever the mode  *)
(* allows of balance, withdrawals and excess stake is used up, or a cap    *)
(* kept it out (the drawdown order of funding-plan.ts:22-34).              *)
TakenFrom(plan, s) ==
    AmountOf(Keep(plan, {t \in ToSet(plan) : /\ t.kind = s.kind
                                             /\ t.gw = s.gw /\ t.id = s.id}))
BetterPart(s) == IF s.kind = "delegation" THEN Above(s.avail, s.min) ELSE s.avail

FloorsLast ==
    \A c \in Calls : Planned(call[c]) =>
      LET plan == call[c].plan
          seen == call[c].seen
          rest == {i \in Usable(seen, call[c].p.mode, call[c].p.asOp) :
                     TakenFrom(plan, seen[i]) < BetterPart(seen[i])}
      IN  (\E i \in DOMAIN plan : /\ plan[i].kind = "delegation"
                                  /\ plan[i].amount > BetterPart(plan[i]))
            => \A i \in rest : ~MayPush(plan, seen[i])

(* The planner gives up only on an amount that nothing could pay, unless   *)
(* there are more usable sources than the caps admit.                      *)
FailsOnlyIfShort ==
    \A c \in Calls : call[c].pc = "insufficient" =>
      LET seen == call[c].seen
          all  == Usable(seen, call[c].p.mode, call[c].p.asOp)
      IN  WithinCaps(seen, all) => ~(CanPay(seen, all) >= call[c].cost)

(* A transaction built for holdings that have not changed since the call   *)
(* read them is accepted: the accounts it names, the counters it predicted *)
(* and the token accounts it creates are what the programs expect.  A plan *)
(* that was discovered assumes the default floor of a gateway; where a     *)
(* gateway has set another one its residue is not predicted.               *)
Payable(p, spend) ==
    /\ ~GivenRefused(p) /\ AmountOf(p.srcs) = h.price
    /\ \A i \in DOMAIN p.srcs :
         LET s == WithState(p, p.srcs[i]) IN
         CASE s.kind = "balance"       -> spend >= s.amount
           [] s.kind = "delegation"    -> h.stake[s.gw] >= s.amount
           [] s.kind = "operatorStake" -> h.joined /\ h.own >= s.amount + MinOperator
           [] s.kind = "withdrawal"    ->
                LET id == IdOf(p, s, 1) IN
                /\ OpenAt(h.vaults, id) /\ ~h.vaults[id].isProtected
                /\ h.vaults[id].amt >= s.amount

Affordable(p, cost) ==
    LET share == IF p.op = "buyReturned" THEN h.premium ELSE 0
        spend == h.liquid - share
        route == IF Route(p) = "pick"
                 THEN IF Candidates(p, cost) = <<>> THEN "balance" ELSE "picked"
                 ELSE Route(p)
    IN  spend >= 0 /\
        CASE route = "balance"       -> spend >= h.price
          [] route = "delegation"    -> h.stake[p.gw] >= h.price
          [] route = "operatorStake" -> h.joined /\ h.own >= h.price + MinOperator
          [] route = "withdrawal"    -> /\ ~h.vaults[p.id].isProtected
                                        /\ h.vaults[p.id].amt >= h.price
          [] route = "picked"        -> TRUE
          [] route = "plan"          ->
               IF HasSources(p) THEN Payable(p, spend)
               ELSE \A g \in Gateways : MinDelegation[g] = DefaultMin
                                          \/ h.stake[g] = 0

UnracedAccepted ==
    [][\A c \in Calls :
         LET k == call[c] IN
         k.pc = "flight" /\ call'[c].pc = "rejected" /\ ~k.raced
           => k.p.op \in Kinds /\ ~Affordable(k.p, k.cost)]_vars

(* The second transaction of an instant decrease cashes the withdrawal its *)
(* own first transaction created, whatever was created or cancelled in     *)
(* between (io-writeable.ts:1374).                                         *)
InstantTakesItsOwn ==
    [][\A c \in Calls :
         call[c].made # NoId /\ h' # h /\ call'[c].pc \in Ended /\ call[c].pc \notin Ended
           => /\ call[c].tx = <<[t |-> "instant_withdrawal", id |-> call[c].made]>>
              /\ h.vaults[call[c].made].gw = call[c].p.g
              /\ ~h'.vaults[call[c].made].open]_vars

(* A purchase that asks to be paid from stakes or withdrawals leaves the   *)
(* liquid balance alone; of a returned name only the initiator's premium   *)
(* is paid from it (io-writeable.ts:1690-1694).                            *)
PaidBy(c) == /\ call[c].pc \in {"flight", "late"}
             /\ call'[c].pc \in {"ok", "failed"}
             /\ call[c].p.op \in Kinds /\ h' # h

LiquidUntouched ==
    [][\A c \in Calls :
         PaidBy(c) /\ call[c].p.mode \in {"stakes", "withdrawal"}
                   /\ ~HasSources(call[c].p)
           => h.liquid - h'.liquid
                = IF call[c].p.op = "buyReturned" THEN h.premium ELSE 0]_vars
=============================================================================
