--------------------------- MODULE PurchaseCalls ---------------------------
(***************************************************************************)
(* Calls that pay for a name: buyRecord, the three manage operations,      *)
(* buyReturnedName and the primary-name requests, from any of the sources  *)
(* an owner has (src/src/solana/io-writeable.ts, funding-plan.ts).  A plan *)
(* is made in steps: the price is simulated, the sources are discovered    *)
(* (or given), the accounts of the withdrawals it will create are          *)
(* predicted, and the transaction is sent; other calls of the owner and    *)
(* the network move in between.                                            *)
(***************************************************************************)
EXTENDS StakeCalls

CONSTANTS DefaultMin,    \* the floor discovery assumes for every gateway
          Started,       \* [Gateways -> Nat], when a delegation started
          SourceLists,   \* lists of sources a caller may give
          Buyers         \* bound: the calls that may be purchases

(* A source as the caller gives it; the amount is an unsigned number and   *)
(* may be zero.                                                            *)
GivenSource ==
    [kind : {"balance", "delegation", "operatorStake", "withdrawal"},
     gw : Gateways \union {NoGw}, id : Nat \union {NoId}, amount : Nat,
     rank : Seq(Int), at : Nat]

ASSUME PurchaseAssumption ==
    /\ DefaultMin \in Nat /\ Started \in [Gateways -> Nat]
    /\ SourceLists \subseteq Seq(GivenSource)
    /\ Buyers \subseteq Calls

Modes == {"balance", "stakes", "withdrawal", "any", "plan"}
Kinds == {"buyRecord", "manage", "buyReturned", "primaryName"}

(* given tells an absent list of sources from an empty one.  A parameter   *)
(* that no route looks at in a mode is left at its default.                *)
Purchase(modes, gws, ids, ops, given, lists) ==
    [op : Kinds, mode : modes, gw : gws, id : ids, asOp : ops, given : given,
     srcs : lists]

Purchases ==
    Purchase({"balance", "plan"}, {NoGw}, {NoId}, {FALSE}, {FALSE}, {<<>>})
      \union Purchase({"stakes"}, Gateways \union {NoGw}, {NoId}, BOOLEAN,
                     {FALSE}, {<<>>})
      \union Purchase({"any"}, Gateways \union {NoGw}, {NoId}, {FALSE},
                     {FALSE}, {<<>>})
      \union Purchase({"withdrawal"}, {NoGw}, OpenIds(h.vaults) \union {NoId},
                     {FALSE}, {FALSE}, {<<>>})
      \union Purchase({"plan"}, Gateways \union {NoGw},
                     OpenIds(h.vaults) \union {NoId}, {FALSE}, {TRUE},
                     SourceLists \ {<<>>})
      \union Purchase({"any"}, {NoGw}, {NoId}, {FALSE}, {TRUE}, {<<>>})

HasSources(p) == p.given /\ p.srcs # <<>>

----------------------------------------------------------------------------
(* Which way a purchase is paid.  One named source is used alone; the      *)
(* other requests for stakes or withdrawals go through the planner.        *)
SingleStake(p) == IF p.asOp THEN "operatorStake" ELSE "delegation"

(* Mutant: stakes without a gateway fall through to the balance. *)
RouteOfBuyFallingThrough(p) ==
    CASE p.mode = "stakes" /\ p.gw # NoGw     -> SingleStake(p)
      [] p.mode = "withdrawal" /\ p.id # NoId -> "withdrawal"
      [] p.mode \in {"any", "plan"}           -> "plan"
      [] OTHER                                -> "balance"

RouteOfBuy(p) ==
    CASE p.mode = "stakes" /\ p.gw # NoGw     -> SingleStake(p)
      [] p.mode = "withdrawal" /\ p.id # NoId -> "withdrawal"
      [] p.mode = "balance"                   -> "balance"
      [] OTHER                                -> "plan"

(* The manage operations: extend, upgrade, increase the undername limit. *)
RouteOfManage(p) ==
    CASE p.mode = "balance"                   -> "balance"
      [] p.mode = "stakes" /\ p.gw # NoGw     -> SingleStake(p)
      [] p.mode = "withdrawal" /\ p.id # NoId -> "withdrawal"
      [] OTHER                                -> "plan"

(* A returned name is paid from one source, picked when none is named,     *)
(* for its price moves with every slot.                                    *)
MustPick(p) ==
    /\ p.mode \in {"stakes", "withdrawal", "any"}
    /\ p.gw = NoGw /\ p.id = NoId /\ ~HasSources(p)

RouteOfReturned(p) ==
    IF p.mode = "balance" THEN "balance"
    ELSE IF MustPick(p) THEN "pick"
    ELSE IF p.gw # NoGw THEN SingleStake(p)
    ELSE IF p.id # NoId THEN "withdrawal"
    ELSE IF p.mode = "plan" /\ HasSources(p) THEN "plan"
    ELSE "refuse"

RouteOfPrimaryName(p) == IF p.mode = "balance" THEN "balance" ELSE "plan"

Route(p) ==
    CASE p.op = "buyRecord"   -> RouteOfBuy(p)
      [] p.op = "manage"      -> RouteOfManage(p)
      [] p.op = "buyReturned" -> RouteOfReturned(p)
      [] p.op = "primaryName" -> RouteOfPrimaryName(p)

----------------------------------------------------------------------------
(* discoverFundingSources.  Drained and protected withdrawals are left     *)
(* out; the floor of every gateway is taken to be the default; the source  *)
(* of operator stake is never filled in.                                   *)
BalanceSource ==
    IF h.liquid = 0 THEN <<>>
    ELSE <<[kind |-> "balance", gw |-> NoGw, id |-> NoId, avail |-> h.liquid,
            min |-> 0, rank |-> <<0, 0, 0>>, at |-> 0]>>

WithdrawalSources ==
    LET ids == Keep([i \in 1..Len(h.vaults) |-> i],
                    {i \in 1..Len(h.vaults) : /\ h.vaults[i].amt > 0
                                              /\ ~h.vaults[i].isProtected})
    IN  [i \in 1..Len(ids) |->
          [kind |-> "withdrawal", gw |-> NoGw, id |-> ids[i], at |-> ids[i],
           avail |-> h.vaults[ids[i]].amt, min |-> 0, rank |-> <<0, 0, 0>>]]

DelegationSources ==
    LET gs == SetToSeq({g \in Gateways : h.stake[g] > 0})
        Source(g) == [kind |-> "delegation", gw |-> g, id |-> NoId, at |-> 0,
                      avail |-> h.stake[g], min |-> DefaultMin,
                      rank |-> <<1, 0, -Started[g]>>]
        Key(s) == <<-Above(s.avail, s.min)>> \o s.rank
        found == [i \in 1..Len(gs) |-> Source(gs[i])]
    IN  Sort(found, {e \in Pairs(found) : LexLess(Key(e[1]), Key(e[2]))})

Discovered == BalanceSource \o WithdrawalSources \o DelegationSources

(* A given source names its gateway, or falls back on the call's; the live *)
(* stake and the gateway's own floor are read for the residue.             *)
GivenGateway(p, s) ==
    IF s.kind \in {"delegation", "operatorStake"} /\ s.gw = NoGw THEN p.gw
    ELSE s.gw

WithState(p, s) ==
    LET g == GivenGateway(p, s)
        isRead == s.kind = "delegation" /\ g # NoGw
    IN  [kind |-> s.kind, gw |-> g, id |-> s.id, rank |-> s.rank, at |-> s.at,
         avail |-> IF isRead THEN h.stake[g] ELSE s.amount,
         min |-> IF isRead THEN MinDelegation[g] ELSE 0,
         amount |-> s.amount]

GivenPlan(p) == [i \in 1..Len(p.srcs) |-> WithState(p, p.srcs[i])]

GivenRefused(p) ==
    \E i \in 1..Len(p.srcs) :
      /\ p.srcs[i].kind \in {"delegation", "operatorStake"}
      /\ GivenGateway(p, p.srcs[i]) = NoGw

(* _detectResidueIndexes throws when an account it reads is not there: that *)
(* of a delegation without stake may be, until it is closed.               *)
MayMiss(p) ==
    \E i \in 1..Len(p.srcs), g \in Gateways :
      /\ p.srcs[i].kind = "delegation" /\ GivenGateway(p, p.srcs[i]) = g
      /\ h.stake[g] = 0

(* The account of each planned withdrawal: the list given by the caller is *)
(* consulted, even an empty one, before the plan.                          *)
IdOf(p, s, i) == IF s.id # NoId THEN s.id ELSE IF i = 1 THEN p.id ELSE NoId

WithdrawalIds(p, plan) ==
    LET ws == OfKind(IF p.given THEN p.srcs ELSE plan, "withdrawal")
    IN  [i \in 1..Len(ws) |-> IdOf(p, ws[i], i)]

MissingId(p, plan) ==
    LET ids == WithdrawalIds(p, plan) IN
    \/ NoId \in ToSet(ids)
    \/ Len(ids) < Len(OfKind(plan, "withdrawal"))

(* buildFundingPlanRemainingAccounts: the i-th planned withdrawal gets the *)
(* i-th of those accounts.                                                 *)
WithAccounts(plan, ids) ==
    [i \in 1..Len(plan) |->
       IF plan[i].kind # "withdrawal" THEN plan[i]
       ELSE [plan[i] EXCEPT !.id =
               ids[Len(OfKind(SubSeq(plan, 1, i), "withdrawal"))]]]

(* predictResidueVaults: the next accounts of the withdrawal counter. *)
PredictResidue(plan) == ResidueIds(h, Cardinality(ResidueIndexes(plan)))

PlanTx(p, plan) ==
    <<[t |-> "pay_plan", returned |-> p.op = "buyReturned",
                         sources  |-> WithAccounts(plan, WithdrawalIds(p, plan)),
                         residue  |-> PredictResidue(plan)]>>

SingleTx(p, kind, g, id) ==
    LET pay == [t |-> "pay_single", returned |-> p.op = "buyReturned",
                                    source |-> [kind |-> kind, gw |-> g,
                                                id |-> id]]
    IN  IF p.op = "buyReturned" THEN <<CreateAta(NoId), pay>> ELSE <<pay>>

(* _autoPickReturnedNameStakeSource: the largest source of the wanted kind *)
(* that covers the price with its premium.                                 *)
WantedKind(p) ==
    IF p.mode = "withdrawal" THEN "withdrawal"
    ELSE IF p.asOp THEN "operatorStake" ELSE "delegation"

Candidates(p, estimate) ==
    LET fit == Keep(Discovered, {s \in ToSet(Discovered) :
                                   /\ s.kind = WantedKind(p)
                                   /\ s.avail >= estimate})
    IN  Sort(fit, {e \in Pairs(fit) : e[1].avail > e[2].avail})

----------------------------------------------------------------------------
(* The steps of a purchase. *)
Send(c, tx) ==
    /\ call' = [call EXCEPT ![c].pc = "flight", ![c].tx = tx, ![c].plan = <<>>]
    /\ UNCHANGED <<h, env>>
Stop(c, how) ==
    call' = [call EXCEPT ![c] = End(@, how)] /\ UNCHANGED <<h, env>>

BeginPurchase(c, p) ==
    /\ call[c].pc = "idle"
    /\ LET k == [Idle EXCEPT !.p = p] IN
       \/ /\ Route(p) \in {"balance", "delegation", "operatorStake", "withdrawal"}
          /\ call' = [call EXCEPT ![c] =
               [k EXCEPT !.pc = "flight", !.tx = SingleTx(p, Route(p), p.gw, p.id)]]
       \/ /\ Route(p) \in {"plan", "pick"}
          /\ call' = [call EXCEPT ![c] = [k EXCEPT !.pc = Route(p)]]
       \/ /\ Route(p) = "refuse"
          /\ call' = [call EXCEPT ![c] = End(@, "refused")]
    /\ UNCHANGED <<h, env>>

(* _simulateTokenCost rolls the demand factor first, so the price is the   *)
(* one the program would charge now; an estimate includes the premium.     *)
Quote(c) ==
    /\ call[c].pc \in {"plan", "pick"}
    /\ call' = [call EXCEPT ![c].cost =
                  h.price + (IF call[c].pc = "pick" THEN h.premium ELSE 0),
                ![c].pc = IF @ = "pick" THEN "picking" ELSE "planning"]
    /\ UNCHANGED <<h, env>>

(* _resolveFundingPlan. *)
ResolveGiven(c) ==
    LET p == call[c].p IN
    /\ call[c].pc = "planning" /\ HasSources(p)
    /\ \/ (GivenRefused(p) \/ MayMiss(p)) /\ Stop(c, "refused")
       \/ /\ ~GivenRefused(p)
          /\ call' = [call EXCEPT ![c].plan = GivenPlan(p), ![c].pc = "planned"]
          /\ UNCHANGED <<h, env>>

ResolveDiscovered(c) ==
    LET p  == call[c].p
        st == BuildFundingPlan(Discovered, call[c].cost, p.mode, p.gw, p.asOp)
    IN  /\ call[c].pc = "planning" /\ ~HasSources(p)
        /\ IF p.mode = "plan" THEN Stop(c, "refused")
           ELSE /\ call' = [call EXCEPT
                     ![c].seen = Discovered, ![c].plan = st.plan,
                     ![c].pc = IF st.short > 0 THEN "insufficient" ELSE "planned"]
                /\ UNCHANGED <<h, env>>

ThrowInsufficient(c) == call[c].pc = "insufficient" /\ Stop(c, "short")

(* _materializeFundingPlan and the transaction. *)
Materialize(c) ==
    LET k == call[c] IN
    /\ k.pc = "planned"
    /\ IF MissingId(k.p, k.plan) THEN Stop(c, "refused")
       ELSE Send(c, PlanTx(k.p, k.plan))

PickSource(c) ==
    LET k  == call[c]
        cs == Candidates(k.p, k.cost)
    IN  /\ k.pc = "picking"
        /\ IF cs # <<>>
           THEN Send(c, SingleTx(k.p, cs[1].kind, cs[1].gw, cs[1].id))
           ELSE IF k.p.mode = "any"
           THEN Send(c, SingleTx(k.p, "balance", NoGw, NoId))
           ELSE Stop(c, "refused")

PurchaseStep(c) ==
    \/ Quote(c) \/ ResolveGiven(c) \/ ResolveDiscovered(c)
    \/ ThrowInsufficient(c) \/ Materialize(c) \/ PickSource(c)
=============================================================================
