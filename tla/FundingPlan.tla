---------------------------- MODULE FundingPlan ----------------------------
(***************************************************************************)
(* The funding planner of the SDK (src/src/solana/funding-plan.ts): from   *)
(* the sources an owner can draw on, the plan that pays an amount, or the  *)
(* verdict that it cannot be paid.  Pure operators; PurchaseCalls runs     *)
(* them between the reads and the transaction of a purchase.               *)
(*                                                                         *)
(* A source is a record: kind, gw (the gateway of a stake), id (of a       *)
(* withdrawal), avail, min (the floor of a stake), rank (performance       *)
(* ratio, total stake and start, as the tuple the code compares) and at    *)
(* (the maturity of a withdrawal).  A planned source adds the amount       *)
(* taken.                                                                  *)
(***************************************************************************)
EXTENDS Integers, Sequences, FiniteSets, SequencesExt

CONSTANTS MaxFundingSources,     \* sources in one plan
          MaxDelegationSources   \* gateways delegated to in one plan

ASSUME CapsAssumption ==
    MaxFundingSources \in Nat \ {0} /\ MaxDelegationSources \in Nat \ {0}

NoGw == "none"
NoId == -1

Lesser(a, b) == IF a < b THEN a ELSE b

(* Mutant: no clamp at the floor. *)
AboveUnclamped(avail, min) == avail - min

Above(avail, min) == IF avail > min THEN avail - min ELSE 0

(* Lexicographic order on tuples of integers of one length. *)
LexLess(s, t) ==
    \E i \in 1..Len(s) : s[i] < t[i] /\ \A j \in 1..(i - 1) : s[j] = t[j]

(* Array.prototype.filter and sort, over a set of elements and a set of    *)
(* pairs.  The sort is stable: each source in turn is placed after those   *)
(* it does not come before.                                                *)
Keep(seq, S) ==
    FoldLeft(LAMBDA kept, s : IF s \in S THEN Append(kept, s) ELSE kept,
             <<>>, seq)

Place(sorted, s, before) ==
    LET earlier == {i \in 1..Len(sorted) : <<s, sorted[i]>> \notin before}
    IN  InsertAt(sorted, Cardinality(earlier) + 1, s)

Sort(srcs, before) ==
    FoldLeft(LAMBDA sorted, s : Place(sorted, s, before), <<>>, srcs)

Pairs(srcs) == ToSet(srcs) \X ToSet(srcs)

OfKind(srcs, k) == Keep(srcs, {s \in ToSet(srcs) : s.kind = k})
AmountOf(plan)  == FoldLeft(LAMBDA n, s : n + s.amount, 0, plan)
PlanGateways(plan) == {s.gw : s \in ToSet(OfKind(plan, "delegation"))}

----------------------------------------------------------------------------
(* The state of the planner: the sources planned so far, what is missing,  *)
(* and whether the current pass was stopped by a cap.                      *)
Start(need) == [plan |-> <<>>, short |-> need, capped |-> FALSE]

MayPush(plan, s) ==
    /\ Len(plan) < MaxFundingSources
    /\ s.kind = "delegation" /\ s.gw \notin PlanGateways(plan)
         => Cardinality(PlanGateways(plan)) < MaxDelegationSources

Taken(s, amount) ==
    [kind |-> s.kind, gw |-> s.gw, id |-> s.id, avail |-> s.avail,
     min |-> s.min, rank |-> s.rank, at |-> s.at, amount |-> amount]

(* Mutant: takes all a source has. *)
DrawAll(st, s, limit) ==
    IF st.capped \/ st.short <= 0 \/ limit = 0 THEN st
    ELSE IF ~MayPush(st.plan, s) THEN [st EXCEPT !.capped = TRUE]
    ELSE [st EXCEPT !.plan  = Append(@, Taken(s, limit)),
                    !.short = IF limit > @ THEN 0 ELSE @ - limit]

(* pushSource with what the passes do around it: take what is left to pay, *)
(* at most limit; a refused source ends the pass.                          *)
Draw(st, s, limit) ==
    LET take == Lesser(limit, st.short) IN
    IF st.capped \/ take = 0 THEN st
    ELSE IF ~MayPush(st.plan, s) THEN [st EXCEPT !.capped = TRUE]
    ELSE [st EXCEPT !.plan  = Append(@, Taken(s, take)),
                    !.short = @ - take]

(* One pass over sources; it takes all they have or spares their floors.   *)
Limit(s, takes) == IF takes = "all" THEN s.avail ELSE Above(s.avail, s.min)

Pass(st, srcs, takes) ==
    FoldLeft(LAMBDA acc, s : Draw(acc, s, Limit(s, takes)),
             [st EXCEPT !.capped = FALSE], srcs)

ByMaturity(srcs) == Sort(srcs, {e \in Pairs(srcs) : e[1].at < e[2].at})

BalancePass(st, srcs) == Pass(st, OfKind(srcs, "balance"), "all")

VaultPass(st, srcs) ==
    Pass(st, ByMaturity(OfKind(srcs, "withdrawal")), "all")

(* The preferred gateway first, the others in the order they came. *)
OrderedDelegations(srcs, prefer) ==
    LET ds == OfKind(srcs, "delegation") IN
    Keep(ds, {s \in ToSet(ds) : s.gw = prefer})
        \o Keep(ds, {s \in ToSet(ds) : s.gw # prefer})

ExcessPass(st, ordered) == Pass(st, ordered, "excess")

OperatorPass(st, srcs) == Pass(st, OfKind(srcs, "operatorStake"), "excess")

FloorOrder(ordered, prefer) ==
    LET Key(s) == <<IF s.gw = prefer THEN 0 ELSE 1>> \o s.rank
    IN  Sort(ordered, {e \in Pairs(ordered) : LexLess(Key(e[1]), Key(e[2]))})

(* The last pass drains the floors.  A gateway already in the plan has its *)
(* entry raised; another one needs an entry, and a refused entry stops the *)
(* pass for the gateways after it too.                                     *)
EntryOf(plan, g) ==
    {i \in 1..Len(plan) : plan[i].kind = "delegation" /\ plan[i].gw = g}

(* Mutant: only gateways that are not in the plan yet. *)
DrainNewOnly(st, s) ==
    IF EntryOf(st.plan, s.gw) # {} THEN st ELSE Draw(st, s, s.avail)

DrainFloor(st, s) ==
    LET at   == EntryOf(st.plan, s.gw)
        i    == CHOOSE j \in at : TRUE
        take == Lesser(s.avail - st.plan[i].amount, st.short)
    IN  IF st.capped THEN st
        ELSE IF at = {} THEN Draw(st, s, s.avail)
        ELSE [st EXCEPT !.plan[i].amount = @ + take, !.short = @ - take]

FloorPass(st, ordered, prefer) ==
    FoldLeft(DrainFloor, [st EXCEPT !.capped = FALSE],
             FloorOrder(ordered, prefer))

(* Mutant: the withdrawals are passed over when stakes are asked for. *)
BuildWithoutVaults(srcs, need, mode, prefer, asOperator) ==
    LET ordered == OrderedDelegations(srcs, prefer)
        b == IF mode \in {"balance", "any", "plan"}
             THEN BalancePass(Start(need), srcs) ELSE Start(need)
        v == IF mode \in {"balance", "stakes"} THEN b ELSE VaultPass(b, srcs)
    IN  IF mode \in {"balance", "withdrawal"} THEN v
        ELSE FloorPass(ExcessPass(v, ordered), ordered, prefer)

(* buildFundingPlan: the passes in their order; a pass after the amount is *)
(* covered takes nothing, as the early returns of the code.                *)
BuildFundingPlan(srcs, need, mode, prefer, asOperator) ==
    LET ordered == OrderedDelegations(srcs, prefer)
        b == IF mode \in {"balance", "any", "plan"}
             THEN BalancePass(Start(need), srcs) ELSE Start(need)
        v == IF mode = "balance" THEN b ELSE VaultPass(b, srcs)
        e == ExcessPass(v, ordered)
        o == IF asOperator THEN OperatorPass(e, srcs) ELSE e
    IN  IF mode \in {"balance", "withdrawal"} THEN v
        ELSE FloorPass(o, ordered, prefer)

(* computeResidueIndexes, which finalizePlan repeats for its own plans:    *)
(* the stakes that the plan leaves above zero and below their floor.       *)
ResidueIndexes(plan) ==
    {i \in 1..Len(plan) :
       /\ plan[i].kind = "delegation"
       /\ plan[i].avail - plan[i].amount > 0
       /\ plan[i].avail - plan[i].amount < plan[i].min}

----------------------------------------------------------------------------
(* A reference for the planner: what any admissible choice of sources can  *)
(* pay.                                                                    *)
Drawable(s) == IF s.kind = "operatorStake" THEN Above(s.avail, s.min)
               ELSE s.avail

AllowedKinds(mode, asOperator) ==
    CASE mode = "balance"    -> {"balance"}
      [] mode = "withdrawal" -> {"withdrawal"}
      [] OTHER -> (IF mode = "stakes" THEN {} ELSE {"balance"})
                    \union {"withdrawal", "delegation"}
                    \union (IF asOperator THEN {"operatorStake"} ELSE {})

Usable(srcs, mode, asOperator) ==
    {i \in 1..Len(srcs) : /\ srcs[i].kind \in AllowedKinds(mode, asOperator)
                          /\ Drawable(srcs[i]) > 0}

WithinCaps(srcs, S) ==
    /\ Cardinality(S) <= MaxFundingSources
    /\ Cardinality({i \in S : srcs[i].kind = "delegation"})
         <= MaxDelegationSources

CanPay(srcs, S) == FoldSet(LAMBDA i, n : n + Drawable(srcs[i]), 0, S)
=============================================================================
