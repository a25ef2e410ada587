--------------------------- MODULE RegistryLedger ---------------------------
(***************************************************************************)
(* The gateway registry of ario-gar: operators in slots, the last of which *)
(* moves into the slot that one leaves, the epoch whose observers are      *)
(* drawn from the slots, and the reports about them, one bit a slot.  The  *)
(* program is not in the repository; see AssetLedger.                      *)
(***************************************************************************)
EXTENDS Naturals, Sequences, FiniteSets, FiniteSetsExt, SequencesExt

CONSTANTS Operators,
          Weight,        \* [Operators -> Nat], the composite weights
          Draws,         \* the random values of the epoch's hash chain
          MaxObservers,  \* prescribed_observer_count
          BatchSize,     \* slots tallied by one transaction
          LeavePeriod,   \* GATEWAY_LEAVE_PERIOD_SECONDS
          Retention,     \* FINALIZE_GONE_EPOCH_RETENTION
          Precision,     \* REWARD_PRECISION
          MaxAmount,     \* the greatest amount of tokens, U64_MAX
          MaxTime,       \* bound: seconds of the cluster's clock
          NoOperator

ASSUME RegistryAssumption ==
    /\ IsFiniteSet(Operators) /\ Weight \in [Operators -> Nat] /\ Draws \in Seq(Nat)
    /\ MaxObservers \in Nat /\ BatchSize \in Nat \ {0} /\ NoOperator \notin Operators
    /\ LeavePeriod \in Nat /\ Retention \in Nat /\ MaxTime \in Nat
    /\ Precision \in Nat \ {0} /\ MaxAmount \in Nat \ {0}

VARIABLE g               \* the accounts, see RegistryType

Reports == [bits : Seq(BOOLEAN), count : Nat]

(* Stake that one operator has delegated to the gateway of another; the    *)
(* rewards up to debt are in amt.  Withdrawals are numbered per owner.     *)
Stakes == [amt : 0..MaxAmount, debt : Nat]
Withdrawals == [amt : 0..MaxAmount, gw : Operators, isDelegate : BOOLEAN, open : BOOLEAN]

RegistryType ==
    [slots : Seq(Operators), status : [Operators -> {"joined", "deficient", "leaving", "gone"}],
     outs : [Operators -> Seq(Withdrawals)],
     stake : [Operators \X Operators -> Stakes \union {NoOperator}],  \* at, of
     cum : [Operators -> Nat],                         \* cumulative_reward_per_token
     takes : [Operators -> BOOLEAN], gated : [Operators -> BOOLEAN],
     allowed : [Operators -> SUBSET Operators],        \* the allow list, for gated ones
     observer : [Operators -> Operators],              \* the key a gateway observes with
     live : Nat, active : Nat, tallied : Nat,
     observers : SUBSET Operators \union {{NoOperator}},
     leave : [Operators -> [at : Nat, snap : Nat]],    \* when, and the epoch's length then
     duration : Nat, time : 0..MaxTime,                \* epoch_duration, the clock
     report : [Operators -> Reports \union {NoOperator}], closed : SUBSET Operators]

SlotOf(x, o) == CHOOSE i \in DOMAIN x.slots : x.slots[i] = o
Last1(seq) == seq[Len(seq)]
SwapRemove(seq, i) == SubSeq([seq EXCEPT ![i] = Last1(seq)], 1, Len(seq) - 1)

(* The program's draw: of the first rounds that name enough operators,     *)
(* those they name.                                                        *)
WeightBefore(slots, i) == FoldLeft(+, 0, [j \in 1..(i - 1) |-> Weight[slots[j]]])
Total(slots) == WeightBefore(slots, Len(slots) + 1)
Hit(slots, value) ==
    slots[CHOOSE i \in DOMAIN slots :
            /\ WeightBefore(slots, i) <= value % Total(slots)
            /\ value % Total(slots) < WeightBefore(slots, i + 1)]
Named(slots, rounds) == {Hit(slots, Draws[k]) : k \in 1..rounds}
Drawn(slots) ==
    LET cap == Min({MaxObservers, Len(slots)})
        enough == {k \in 0..Len(Draws) : Cardinality(Named(slots, k)) = cap}
    IN  IF Total(slots) = 0 THEN {}
        ELSE Named(slots, IF enough = {} THEN Len(Draws) ELSE Min(enough))

(* Delegated stake and withdrawals.                                        *)
NextOut(x, d) == Len(x.outs[d]) + 1
Withdraw(x, d, o, amt, isDelegate) ==
    [x EXCEPT !.outs[d] = Append(@, [amt |-> amt, gw |-> o, isDelegate |-> isDelegate,
                                     open |-> TRUE])]
StakeAt(x, o, d) == IF x.stake[<<o, d>>] = NoOperator THEN 0 ELSE x.stake[<<o, d>>].amt
Staked(x, o) == \E d \in Operators : StakeAt(x, o, d) > 0

(* What a delegation is worth once its rewards are settled.                *)
Settled1(st, cum) ==
    IF cum <= st.debt THEN st
    ELSE [amt  |-> Min({MaxAmount, st.amt + (st.amt * (cum - st.debt)) \div Precision}),
          debt |-> cum]
TakeOut(x, o, d) ==
    LET all == Settled1(x.stake[<<o, d>>], x.cum[o])
    IN  Withdraw([x EXCEPT !.stake[<<o, d>>] = [all EXCEPT !.amt = 0]], d, o, all.amt, TRUE)

(* When finalize_gone takes a gateway that leaves.                         *)
Longer(i, j) == IF i > j THEN i ELSE j
Over(x, o) ==
    /\ ~Staked(x, o)
    /\ x.time >= x.leave[o].at + LeavePeriod
                  + Retention * Longer(x.leave[o].snap, x.duration)

Leave(x, o) == [x EXCEPT !.status[o] = "leaving",
                         !.leave[o] = [at |-> x.time, snap |-> x.duration]]

Accepts(accepted, outcome) == IF accepted THEN {outcome} ELSE {}

OnRegistry(x, ix) ==
    CASE ix.op = "finalize_gone" ->
           IF x.status[ix.o] # "leaving" \/ ~Over(x, ix.o) THEN {}
           ELSE LET i == SlotOf(x, ix.o) IN
                Accepts(i = Len(x.slots) \/ ix.swapped = Last1(x.slots),
                        [x EXCEPT !.slots = SwapRemove(@, i), !.status[ix.o] = "gone"])
      [] ix.op = "prune_gateway" ->
           Accepts(x.status[ix.o] = "deficient" /\ ix.id = NextOut(x, ix.o),
                   Withdraw(Leave(x, ix.o), ix.o, ix.o, 1, FALSE))
      [] ix.op = "tally_weights" ->
           LET last == Min({x.tallied + BatchSize, x.active, Len(x.slots)}) IN
           Accepts(x.tallied < last /\ ix.slots = SubSeq(x.slots, x.tallied + 1, last),
                   [x EXCEPT !.tallied = last])
      [] ix.op = "prescribe_epoch" ->
           LET walked == SubSeq(x.slots, 1, Min({x.active, Len(x.slots)})) IN
           Accepts(x.observers = {NoOperator} /\ Drawn(walked) \subseteq ix.accounts,
                   [x EXCEPT !.observers = Drawn(walked)])
      [] ix.op = "save_observations" ->
           Accepts(ix.epoch = x.live /\ ix.by \in x.observers /\ x.report[ix.by] = NoOperator,
                   [x EXCEPT !.report[ix.by] = [bits |-> ix.bits, count |-> ix.count]])
      [] ix.op = "close_observation" ->
           Accepts(x.report[ix.o] # NoOperator /\ ix.o \notin x.closed,
                   [x EXCEPT !.closed = @ \union {ix.o}])

RegistryIxs == {"finalize_gone", "prune_gateway", "tally_weights", "prescribe_epoch",
                "save_observations", "close_observation"}

(* What operators, delegates and the administrator do meanwhile.           *)
RegistryMoves(x) ==
    {Leave(x, o) : o \in {p \in Operators : x.status[p] = "joined"}}
      \union
    {Withdraw(x, o, o, 1, FALSE) : o \in {p \in Operators : x.status[p] = "deficient"}}
      \union
    {TakeOut(x, k[1], k[2]) : k \in {j \in Operators \X Operators :
                                        /\ x.status[j[1]] = "leaving"
                                        /\ StakeAt(x, j[1], j[2]) > 0}}
Elapse(x) == IF x.time < MaxTime THEN {[x EXCEPT !.time = @ + 1]} ELSE {}
=============================================================================
