---------------------------- MODULE RegistryCalls ---------------------------
(***************************************************************************)
(* The calls that go by the slots of the gateway registry: finalizeGone,   *)
(* saveObservations, tallies, predictions, pruneGateway and the closing of *)
(* observations (io-writeable.ts, predict-prescribed-observers.ts), and    *)
(* what a cranker or an observer makes of them with the discovery reads of *)
(* io-readable.ts: sweepGone finalizes a gateway that                      *)
(* getFinalizableGoneGateways found, sweepDeficient prunes one that        *)
(* getDeficientGateways found, submitReport asks                           *)
(* getEpochObservationStatus before it saves.  A call p reads the accounts *)
(* RegistryReads names, one at a time, and sends RegistryTx for what it    *)
(* has seen; RegistryRefuses says when it throws or has nothing to do.     *)
(***************************************************************************)
EXTENDS RegistryLedger, TLC

RegistryOps == {"finalizeGone", "pruneGateway", "tallyWeights", "prescribeEpoch",
                "saveObservations", "closeObservations",
                "sweepGone", "sweepDeficient", "submitReport"}

(* A gateway account as a scan finds it, none once it is gone.             *)
GatewayScan(x) ==
    [o \in {p \in Operators : x.status[p] # "gone"} |->
       [status |-> x.status[o], leave |-> x.leave[o], staked |-> Staked(x, o),
        cum |-> x.cum[o], takes |-> x.takes[o]]]

(* getEpochObservationStatus.                                              *)
ObservationStatus(x, o) ==
    [prescribed |-> o \in x.observers, observed |-> x.report[o] # NoOperator]

RegistryValue(x, key) ==
    CASE key[1] = "slots"       -> x.slots
      [] key[1] = "gateway"     -> IF x.status[key[2]] = "gone" THEN 0 ELSE SlotOf(x, key[2])
      [] key[1] = "nextId"      -> NextOut(x, key[2])
      [] key[1] = "epoch"       -> [active |-> x.active, tallied |-> x.tallied]
      [] key[1] = "settings"    -> x.live + 1     \* current_epoch_index: the next to create
      [] key[1] = "scan"        -> GatewayScan(x)
      [] key[1] = "duration"    -> x.duration
      [] key[1] = "time"        -> x.time + key[2]   \* the client's clock may be ahead
      [] key[1] = "status"      -> ObservationStatus(x, key[2])
      [] key[1] = "observation" -> {o \in key[2] : x.report[o] # NoOperator /\ o \notin x.closed}

Slots == <<"slots">>
Scan  == <<"scan">>

(* Mutant: the current length of the epoch is not looked at.               *)
EligibleAtBySnapshot(gw, duration) == gw.leave.at + LeavePeriod + Retention * gw.leave.snap

(* getFinalizableGoneGateways.  If the settings cannot be read, the length *)
(* of the epoch at the time of leaving has to do.                          *)
EligibleAt(gw, duration) ==
    gw.leave.at + LeavePeriod + Retention * Longer(gw.leave.snap, duration)

Finalizable(p, seen) ==
    LET duration == IF p.fails THEN 0 ELSE seen[<<"duration">>]
        found == seen[Scan]
    IN  {o \in DOMAIN found :
           /\ found[o].status = "leaving" /\ ~found[o].staked
           /\ EligibleAt(found[o], duration) <= seen[<<"time", p.ahead>>]}

Deficient(seen) == {o \in DOMAIN seen[Scan] : seen[Scan][o].status = "deficient"}

FinalizeReads(o) == <<<<"gateway", o>>, Slots>>
SaveReads(p) == IF p.epoch = 0 THEN <<<<"settings">>, Slots>> ELSE <<Slots>>

(* A sweep finds its gateways first, and then does one of them.            *)
Found(p, seen) ==
    CASE p.op = "sweepGone"      -> Finalizable(p, seen)
      [] p.op = "sweepDeficient" -> Deficient(seen)
Chosen(p, seen) == IF p.op \in {"sweepGone", "sweepDeficient"}
                   THEN CHOOSE o \in Found(p, seen) : TRUE ELSE p.o
SweepReads(p, seen) ==
    LET first == IF p.op = "sweepDeficient" THEN <<Scan>>
                 ELSE (IF p.fails THEN <<>> ELSE <<<<"duration">>>>) \o <<Scan, <<"time", p.ahead>>>>
    IN  IF ~(ToSet(first) \subseteq DOMAIN seen) \/ Found(p, seen) = {} THEN first
        ELSE first \o (IF p.op = "sweepGone" THEN FinalizeReads(Chosen(p, seen))
                       ELSE <<<<"nextId", Chosen(p, seen)>>>>)

RegistryReads(p, seen) ==
    CASE p.op = "finalizeGone"      -> FinalizeReads(p.o)
      [] p.op = "pruneGateway"      -> <<<<"nextId", p.o>>>>
      [] p.op = "tallyWeights"      -> <<<<"epoch">>, Slots>>
      [] p.op = "prescribeEpoch"    -> <<<<"epoch">>, Slots, <<"settings">>>>
      [] p.op = "saveObservations"  -> SaveReads(p)
      [] p.op = "submitReport"      -> <<<<"status", p.o>>>> \o SaveReads(p)
      [] p.op = "closeObservations" -> <<<<"observation", p.os>>>>
      [] OTHER                      -> SweepReads(p, seen)

----------------------------------------------------------------------------
(* Who moves into the slot that a gateway leaves: the last, unless that is *)
(* the one that leaves.                                                    *)
SwapOperator(i, slots) == IF i = Len(slots) THEN NoOperator ELSE Last1(slots)

(* Mutant: the bits are laid out by the operators that failed.             *)
BitmapInverted(slots, failed) == [i \in DOMAIN slots |-> slots[i] \in failed]

(* buildObservationBitmap: a bit for each slot, clear if its operator      *)
(* failed.                                                                 *)
Bitmap(slots, failed) == [i \in DOMAIN slots |-> slots[i] \notin failed]

Batch(start, slots) == SubSeq(slots, start + 1, Min({start + BatchSize, Len(slots)}))

(* predictPrescribedObservers: rounds of a weighted roulette until enough  *)
(* operators are selected, each taken once.                                *)
Predict(slots, max) ==
    LET cap == Min({max, Len(slots)})
        Wins(i, value) == /\ Weight[slots[i]] > 0
                          /\ WeightBefore(slots, i + 1) > value
        Round(sel, value) ==
          LET o == slots[Min({i \in DOMAIN slots : Wins(i, value % Total(slots))})]
          IN  IF Len(sel) >= cap \/ o \in ToSet(sel) THEN sel ELSE Append(sel, o)
    IN  IF Total(slots) = 0 THEN {} ELSE ToSet(FoldLeft(Round, <<>>, Draws))

(* getObservations reads the bits of a report by the registry as it is     *)
(* now.                                                                    *)
FailuresIn(report, slots) ==
    {slots[i] : i \in {j \in 1..Min({report.count, Len(slots)}) : ~report.bits[j]}}

FinalizeTx(o, seen) ==
    <<[op |-> "finalize_gone", o |-> o,
       swapped |-> SwapOperator(seen[<<"gateway", o>>], seen[Slots])]>>
PruneTx(o, seen) == <<[op |-> "prune_gateway", o |-> o, id |-> seen[<<"nextId", o>>]]>>

NotInRegistry(o, seen) == seen[<<"gateway", o>>] \notin DOMAIN seen[Slots]

RegistryRefuses(p, seen) ==
    \/ p.op = "finalizeGone" /\ NotInRegistry(p.o, seen)
    \/ p.op = "closeObservations" /\ seen[<<"observation", p.os>>] = {}
    \/ /\ p.op \in {"sweepGone", "sweepDeficient"}
       /\ Found(p, seen) = {} \/ (p.op = "sweepGone" /\ NotInRegistry(Chosen(p, seen), seen))
    \/ /\ p.op = "submitReport"
       /\ ~seen[<<"status", p.o>>].prescribed \/ seen[<<"status", p.o>>].observed

RegistryTx(p, seen) ==
    CASE p.op \in {"finalizeGone", "sweepGone"} -> FinalizeTx(Chosen(p, seen), seen)
      [] p.op \in {"pruneGateway", "sweepDeficient"} -> PruneTx(Chosen(p, seen), seen)
      [] p.op = "tallyWeights" ->
           <<[op |-> "tally_weights",
              slots |-> Batch(seen[<<"epoch">>].tallied, seen[Slots])]>>
      [] p.op = "prescribeEpoch" ->
           LET walk == Min({seen[<<"epoch">>].active, Len(seen[Slots])}) IN
           <<[op |-> "prescribe_epoch",
              accounts |-> Predict(SubSeq(seen[Slots], 1, walk), MaxObservers)]>>
      [] p.op \in {"saveObservations", "submitReport"} ->
           <<[op |-> "save_observations", by |-> p.o,
              epoch |-> IF p.epoch = 0 THEN seen[<<"settings">>] ELSE p.epoch,
              bits |-> Bitmap(seen[Slots], p.os), count |-> Len(seen[Slots])]>>
      [] p.op = "closeObservations" ->
           LET os == SetToSeq(seen[<<"observation", p.os>>]) IN
           [i \in DOMAIN os |-> [op |-> "close_observation", o |-> os[i]]]

(* When the programs have to accept what was built for accounts that have  *)
(* not changed.  A sweep is owed that whatever it found, if the client's   *)
(* clock is not ahead and it could read the settings.                      *)
RegistryDue(p, x) ==
    CASE p.op = "finalizeGone"      -> x.status[p.o] = "leaving" /\ Over(x, p.o)
      [] p.op = "pruneGateway"      -> x.status[p.o] = "deficient"
      [] p.op = "tallyWeights"      -> x.tallied < Min({x.active, Len(x.slots)})
      [] p.op = "prescribeEpoch"    -> x.observers = {NoOperator}
      [] p.op = "saveObservations"  -> /\ p.epoch = x.live /\ p.o \in x.observers
                                       /\ x.report[p.o] = NoOperator
      [] p.op = "submitReport"      -> p.epoch = x.live
      [] p.op = "sweepGone"         -> p.ahead = 0 /\ ~p.fails
      [] p.op \in {"closeObservations", "sweepDeficient"} -> TRUE
=============================================================================
