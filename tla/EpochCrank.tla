----------------------------- MODULE EpochCrank -----------------------------
(***************************************************************************)
(* The permissionless epoch crank: SolanaARIOWriteable.crankEpochStep and  *)
(* the calls it makes (src/src/solana/io-writeable.ts).                    *)
(*                                                                         *)
(* Several processes call crankEpochStep on their own schedule.  A call    *)
(* samples the wall clock, reads EpochSettings, then reads one Epoch       *)
(* account, decides on one transaction and sends it.  Nothing makes these  *)
(* reads and the send atomic: between any two of them another cranker may  *)
(* send its own transaction, the clock may advance, a gateway may leave,   *)
(* and a transaction whose confirmation was lost may still land.           *)
(*                                                                         *)
(* The accounts and the checks of the on-chain program ario-gar are not in *)
(* this repository.  They are modelled from what the SDK reads, from what  *)
(* it documents of each instruction, and from the errors it handles.       *)
(***************************************************************************)
EXTENDS Integers, FiniteSets

CONSTANTS
  Crankers,            \* processes that call crankEpochStep
  Observers,           \* gateways that may save observations
  FirstEpoch,          \* current_epoch_index before any epoch exists (0 at
                       \* genesis, larger after admin_set_current_epoch_index)
  LastEpoch,           \* bound: no later epoch is created
  Duration,            \* epoch_duration, in clock ticks
  Window,              \* end_timestamp - start_timestamp of an epoch
  StartDelay,          \* ticks from the initial clock to the first start
  MaxClock,            \* bound: the clock stops here
  Skews,               \* what a cranker's clock may be off by
  RegistrySize,        \* how many gateways each version of the registry lists
  Batch,               \* gateways per tally or distribute transaction
  CloseBatch,          \* MAX_CLOSE_OBSERVATION_BATCH
  Retention,           \* epochRetention (GAR-006)
  FactorPeriod,        \* DEMAND_FACTOR_PERIOD_SECONDS, in clock ticks
  MaxRegistryChanges,  \* bound: departures and arrivals, each a new version
  MaxOrphans,          \* bound: observations closed without being counted
  MaxBacklog,          \* bound: ArNS lifecycle work items
  MaxErrors,           \* bound: failed reads and lost confirmations
  MaxLost,             \* bound: lost transactions that may still land
  NoEpoch              \* an Epoch account that does not exist

ASSUME EpochAssumption ==
  /\ FirstEpoch \in Nat /\ LastEpoch \in Nat /\ FirstEpoch <= LastEpoch
  /\ Duration \in Nat \ {0} /\ Window \in 1..Duration
  /\ StartDelay \in Nat /\ MaxClock \in Nat /\ Skews \subseteq Int
  /\ Batch \in Nat \ {0} /\ CloseBatch \in Nat \ {0}
  /\ Retention \in Nat \ {0} /\ FactorPeriod \in Nat \ {0}
  /\ MaxRegistryChanges \in Nat /\ MaxOrphans \in Nat /\ MaxBacklog \in Nat
  /\ MaxErrors \in Nat /\ MaxLost \in Nat
  /\ IsFiniteSet(Observers)

ASSUME RegistryAssumption == RegistrySize \in [0..MaxRegistryChanges -> Nat]

EpochIds == 0..LastEpoch

(* The account fields crankEpochStep reads.  observationsSubmitted is the  *)
(* size of observed, observationsClosed that of counted; open are the      *)
(* Observation accounts that exist.                                        *)
Epoch == [active : Nat, tallyIndex : Nat, distributionIndex : Nat,
          weightsTallied : BOOLEAN, prescriptionsDone : BOOLEAN,
          rewardsDistributed : BOOLEAN,
          observed : SUBSET Observers, open : SUBSET Observers,
          counted : SUBSET Observers]

ASSUME NoEpochAssumption == NoEpoch \notin Epoch

Start(k) == StartDelay + (k - FirstEpoch) * Duration
End(k)   == Start(k) + Window
Period(t) == IF t < 0 THEN 1 ELSE (t \div FactorPeriod) + 1

VARIABLES
  \* the chain
  clock, enabled, next, epochs, registry, orphans,
  compoundDue, ghost, period, backlog,
  \* transactions whose confirmation was lost; failures so far
  inflight, errors,
  \* each cranker's call in progress, and its scan throttle
  call, throttled

chain == <<enabled, next, epochs, registry, orphans, compoundDue, ghost,
           period, backlog>>
net   == <<inflight, errors>>
vars  == <<clock, chain, net, call, throttled>>

ClosePcs == {"close", "observers", "closeObservations", "closeEpoch"}
Pcs == ClosePcs \cup
       {"idle", "epoch", "tally", "predict", "prescribe", "distribute",
        "compound", "sendCompound", "factor", "sendFactor", "arns", "tail",
        "create", "sendCreate"}

(* The locals of one call: what it sampled, read and decided on.           *)
Call == [pc : Pcs, now : Int, index : Nat, cursor : Nat, retried : BOOLEAN,
         batch : SUBSET Observers]

NoCall == [pc |-> "idle", now |-> 0, index |-> 0, cursor |-> 0,
           retried |-> FALSE, batch |-> {}]

Exists(k) == k \in EpochIds /\ epochs[k] # NoEpoch
Done(k)   == Exists(k) /\ epochs[k].rewardsDistributed

NewEpoch(n) ==
  [active |-> n, tallyIndex |-> 0, distributionIndex |-> 0,
   weightsTallied |-> FALSE, prescriptionsDone |-> FALSE,
   rewardsDistributed |-> FALSE,
   observed |-> {}, open |-> {}, counted |-> {}]

Init ==
  /\ clock = 0 /\ enabled \in BOOLEAN
  /\ next = FirstEpoch
  /\ epochs = [k \in EpochIds |-> NoEpoch]
  /\ registry = 0 /\ orphans = 0
  /\ compoundDue = FALSE /\ ghost = FALSE
  /\ period = 1 /\ backlog \in 0..MaxBacklog
  /\ inflight = {} /\ errors = 0
  /\ call = [c \in Crankers |-> NoCall]
  /\ throttled = [c \in Crankers |-> FALSE]

-----------------------------------------------------------------------------
(* The chain: what each instruction requires and does.  A transaction      *)
(* names its epoch, the position it was built for (a cursor, a registry    *)
(* version or, for a create, the index its sender decided on) and the      *)
(* observers it closes.                                                    *)

Tx(kind, k, at, obs) == [kind |-> kind, epoch |-> k, at |-> at, obs |-> obs]

AcceptsCreate(tx) ==
  /\ tx.kind = "create"
  /\ tx.epoch = next /\ next \in EpochIds
  /\ clock >= Start(next)

AcceptsTally(tx) ==
  /\ tx.kind = "tally" /\ Exists(tx.epoch)
  /\ ~epochs[tx.epoch].weightsTallied
  /\ epochs[tx.epoch].tallyIndex = tx.at

AcceptsPrescribe(tx) ==
  /\ tx.kind = "prescribe" /\ Exists(tx.epoch)
  /\ epochs[tx.epoch].weightsTallied
  /\ ~epochs[tx.epoch].prescriptionsDone
  /\ tx.at = registry

AcceptsDistribute(tx) ==
  /\ tx.kind = "distribute" /\ Exists(tx.epoch)
  /\ epochs[tx.epoch].prescriptionsDone
  /\ ~epochs[tx.epoch].rewardsDistributed
  /\ epochs[tx.epoch].distributionIndex = tx.at
  /\ clock >= End(tx.epoch)

AcceptsCloseObservations(tx) ==
  /\ tx.kind = "closeObservations" /\ Exists(tx.epoch)
  /\ tx.obs \subseteq epochs[tx.epoch].open

AcceptsCloseEpoch(tx) ==
  /\ tx.kind = "closeEpoch" /\ Done(tx.epoch)
  /\ epochs[tx.epoch].counted = epochs[tx.epoch].observed
  /\ tx.epoch + Retention < next

\* A compound batch that names a delegation which no longer exists reverts.
AcceptsCompound(tx) == tx.kind = "compound" /\ tx.at = 0

Accepts(tx) ==
  \/ AcceptsCreate(tx) \/ AcceptsTally(tx) \/ AcceptsPrescribe(tx)
  \/ AcceptsDistribute(tx) \/ AcceptsCloseObservations(tx)
  \/ AcceptsCloseEpoch(tx) \/ AcceptsCompound(tx) \/ tx.kind = "factor"

\* The gateways the registry lists now.
Live == RegistrySize[registry]

\* Mutant: the last batch is not clipped to the registry.
UptoUnclipped(i, n) == i + Batch

\* The position after a batch that starts at i of the n gateways stamped on the
\* epoch.  getRegistryGatewayPDAs takes the next Batch slots the registry lists
\* now: of a registry that has shrunk below i it takes none.
Upto(i, n) ==
  LET end == IF Live < n THEN Live ELSE n IN
  IF i + Batch < end THEN i + Batch ELSE IF i < end THEN end ELSE i

SetEpoch(k, e) == epochs' = [epochs EXCEPT ![k] = e]

ApplyCreate(tx) ==
  /\ AcceptsCreate(tx)
  /\ SetEpoch(next, NewEpoch(Live))
  /\ next' = next + 1
  /\ UNCHANGED <<enabled, registry, orphans, compoundDue, ghost, period,
                 backlog>>

ApplyTally(tx) ==
  /\ AcceptsTally(tx)
  /\ LET e == epochs[tx.epoch]  i == Upto(e.tallyIndex, e.active) IN
     SetEpoch(tx.epoch,
              [e EXCEPT !.tallyIndex = i, !.weightsTallied = (i = e.active)])
  /\ UNCHANGED <<enabled, next, registry, orphans, compoundDue, ghost,
                 period, backlog>>

ApplyPrescribe(tx) ==
  /\ AcceptsPrescribe(tx)
  /\ SetEpoch(tx.epoch, [epochs[tx.epoch] EXCEPT !.prescriptionsDone = TRUE])
  /\ UNCHANGED <<enabled, next, registry, orphans, compoundDue, ghost,
                 period, backlog>>

\* The last batch credits the delegations, which then await compounding; the
\* account index may go on listing a delegation that has been closed since.
ApplyDistribute(tx) ==
  /\ AcceptsDistribute(tx)
  /\ LET e == epochs[tx.epoch]  i == Upto(e.distributionIndex, e.active)
         last == (i = e.active) IN
     /\ SetEpoch(tx.epoch, [e EXCEPT !.distributionIndex = i,
                                     !.rewardsDistributed = last])
     /\ compoundDue' = (compoundDue \/ last)
     /\ IF last THEN ghost' \in BOOLEAN ELSE ghost' = ghost
  /\ UNCHANGED <<enabled, next, registry, orphans, period, backlog>>

ApplyCloseObservations(tx) ==
  /\ AcceptsCloseObservations(tx)
  /\ SetEpoch(tx.epoch, [epochs[tx.epoch] EXCEPT !.open = @ \ tx.obs,
                                                 !.counted = @ \cup tx.obs])
  /\ UNCHANGED <<enabled, next, registry, orphans, compoundDue, ghost,
                 period, backlog>>

ApplyCloseEpoch(tx) ==
  /\ AcceptsCloseEpoch(tx)
  /\ SetEpoch(tx.epoch, NoEpoch)
  /\ UNCHANGED <<enabled, next, registry, orphans, compoundDue, ghost,
                 period, backlog>>

ApplyCompound(tx) ==
  /\ AcceptsCompound(tx)
  /\ compoundDue' = FALSE
  /\ UNCHANGED <<enabled, next, epochs, registry, orphans, ghost, period,
                 backlog>>

ApplyFactor(tx) ==
  /\ tx.kind = "factor"
  /\ period' = Period(clock)
  /\ UNCHANGED <<enabled, next, epochs, registry, orphans, compoundDue,
                 ghost, backlog>>

Apply(tx) ==
  \/ ApplyCreate(tx) \/ ApplyTally(tx) \/ ApplyPrescribe(tx)
  \/ ApplyDistribute(tx) \/ ApplyCloseObservations(tx) \/ ApplyCloseEpoch(tx)
  \/ ApplyCompound(tx) \/ ApplyFactor(tx)

-----------------------------------------------------------------------------
(* One call of crankEpochStep by cranker c.                                *)

\* A call's locals end with it; cursor and batch with the step they are for.
Goto(c, l) ==
  call' = [call EXCEPT ![c] =
    IF l = "idle" THEN NoCall
    ELSE [@ EXCEPT !.pc = l, !.cursor = 0, !.batch = {}]]

GotoWith(c, l, cur, obs) ==
  call' = [call EXCEPT ![c].pc = l, ![c].cursor = cur, ![c].batch = obs]

At(c, l) == call[c].pc = l

\* The epoch that is live: one before the next to create.
Target(c) == IF call[c].index > 0 THEN call[c].index - 1 ELSE 0

CloseTarget(c) == Target(c) - Retention

\* A transaction lands and is confirmed, is rejected, or is sent without its
\* confirmation being seen: then the call fails but the transaction may land.
Send(c, tx, onError) ==
  \/ /\ Apply(tx)
     /\ Goto(c, "idle")
     /\ UNCHANGED net
  \/ /\ ~Accepts(tx)
     /\ Goto(c, onError)
     /\ UNCHANGED <<chain, net>>
  \/ /\ errors < MaxErrors /\ Cardinality(inflight) < MaxLost
     /\ inflight' = inflight \cup {tx}
     /\ errors' = errors + 1
     /\ Goto(c, onError)
     /\ UNCHANGED chain

\* `now` and the EpochSettings account.
ReadSettings(c) ==
  /\ At(c, "idle")
  /\ enabled
  /\ \E s \in Skews :
       call' = [call EXCEPT ![c] = [NoCall EXCEPT !.pc = "epoch",
                                                  !.now = clock + s,
                                                  !.index = next]]
  /\ UNCHANGED <<clock, chain, net, throttled>>

\* Mutant: the epoch is taken for finished once its observation window is.
StepForUndistributed(c, e) ==
  IF ~e.weightsTallied THEN "tally"
  ELSE IF ~e.prescriptionsDone THEN "predict"
  ELSE IF call[c].now < End(Target(c)) THEN "arns"
  ELSE IF Target(c) >= Retention THEN "close" ELSE "compound"

\* Mutant: rewards are distributed without waiting for the observations.
StepForUnobserved(c, e) ==
  IF ~e.weightsTallied THEN "tally"
  ELSE IF ~e.prescriptionsDone THEN "predict"
  ELSE IF ~e.rewardsDistributed THEN "distribute"
  ELSE IF Target(c) >= Retention THEN "close" ELSE "compound"

\* The step getEpochRaw(target) leads to when that epoch exists.
StepFor(c, e) ==
  IF ~e.weightsTallied THEN "tally"
  ELSE IF ~e.prescriptionsDone THEN "predict"
  ELSE IF call[c].now < End(Target(c)) THEN "arns"
  ELSE IF ~e.rewardsDistributed THEN "distribute"
  ELSE IF Target(c) >= Retention THEN "close" ELSE "compound"

\* Mutant: a batch starts after the gateway the cursor is at.
CursorForNext(l, e) ==
  CASE l = "tally"      -> e.tallyIndex + 1
    [] l = "distribute" -> e.distributionIndex + 1
    [] OTHER            -> 0

\* Mutant: every batch starts at the first gateway.
CursorForFirst(l, e) == 0

CursorFor(l, e) ==
  CASE l = "tally"      -> e.tallyIndex
    [] l = "distribute" -> e.distributionIndex
    [] OTHER            -> 0

\* Mutant: only epoch 0 may be created without a live epoch before it.
ColdStartAtGenesis(c) ==
  IF call[c].now < Start(call[c].index) \/ call[c].index > 0
  THEN "idle" ELSE "create"

\* The live epoch does not exist: at genesis, or after the administrator set
\* the index.
ColdStart(c) ==
  IF call[c].now < Start(call[c].index) THEN "idle" ELSE "create"

ReadEpoch(c) ==
  /\ At(c, "epoch")
  /\ LET e == epochs[Target(c)] IN
     IF Exists(Target(c))
     THEN GotoWith(c, StepFor(c, e), CursorFor(StepFor(c, e), e), {})
     ELSE Goto(c, ColdStart(c))
  /\ UNCHANGED <<clock, chain, net, throttled>>

TallyWeights(c) ==
  /\ At(c, "tally")
  /\ Send(c, Tx("tally", Target(c), call[c].cursor, {}), "idle")
  /\ UNCHANGED <<clock, throttled>>

DistributeEpoch(c) ==
  /\ At(c, "distribute")
  /\ Send(c, Tx("distribute", Target(c), call[c].cursor, {}), "idle")
  /\ UNCHANGED <<clock, throttled>>

\* getPredictedObserverPDAs: a selection made against one registry version.
Predict(c) ==
  /\ At(c, "predict")
  /\ GotoWith(c, "prescribe", registry, {})
  /\ UNCHANGED <<clock, chain, net, throttled>>

\* prescribeWithPrediction: InvalidGatewayAccount is retried once with a new
\* prediction; every other error, and the second, goes to the caller.
PrescribeEpoch(c) ==
  LET tx == Tx("prescribe", Target(c), call[c].cursor, {})
      again == ~call[c].retried /\ ~Accepts(tx) /\ tx.at # registry
  IN
  /\ At(c, "prescribe")
  /\ \/ ~again /\ Send(c, tx, "idle")
     \/ /\ again
        /\ call' = [call EXCEPT ![c].pc = "predict", ![c].retried = TRUE,
                                ![c].cursor = 0]
        /\ UNCHANGED <<chain, net>>
  /\ UNCHANGED <<clock, throttled>>

\* Mutant: the old epoch is closed whatever its observation counters say.
CloseUncounted(c) ==
  /\ At(c, "close")
  /\ Goto(c, IF ~Done(CloseTarget(c)) THEN "compound" ELSE "closeEpoch")
  /\ UNCHANGED <<clock, chain, net, throttled>>

\* The retention branch: the old epoch, its live observations, then the epoch
\* itself.  Every failure in it falls through to the steps after it.
ReadCloseTarget(c) ==
  /\ At(c, "close")
  /\ LET k == CloseTarget(c) IN
     Goto(c, IF ~Done(k) THEN "compound"
             ELSE IF Cardinality(epochs[k].observed) >
                     Cardinality(epochs[k].counted)
                  THEN "observers" ELSE "closeEpoch")
  /\ UNCHANGED <<clock, chain, net, throttled>>

\* Mutant: what the index lists is taken for live.
ListedObservers(listed, open) == listed

\* filterLiveObservations: the listed observers whose account exists.
LiveObservers(listed, open) == listed \cap open

\* getEpochObservers asks an index that may still list closed observations.
ReadObservers(c) ==
  /\ At(c, "observers")
  /\ LET k == CloseTarget(c)
         e == IF Exists(k) THEN epochs[k] ELSE NewEpoch(0) IN
     \E ghosts \in SUBSET (e.observed \ e.open) :
       LET live == LiveObservers(e.open \cup ghosts, e.open) IN
       \/ live = {} /\ Goto(c, "compound")
       \/ \E b \in (SUBSET live) \ {{}} :
            /\ Cardinality(b) <= CloseBatch
            /\ b = live \/ Cardinality(b) = CloseBatch
            /\ GotoWith(c, "closeObservations", 0, b)
  /\ UNCHANGED <<clock, chain, net, throttled>>

CloseObservations(c) ==
  /\ At(c, "closeObservations")
  /\ Send(c, Tx("closeObservations", CloseTarget(c), 0, call[c].batch),
          "compound")
  /\ UNCHANGED <<clock, throttled>>

CloseEpoch(c) ==
  /\ At(c, "closeEpoch")
  /\ Send(c, Tx("closeEpoch", CloseTarget(c), 0, {}), "compound")
  /\ UNCHANGED <<clock, throttled>>

\* maybeCompoundStep: the listed delegations are not read again before the
\* batch is sent.
ReadDelegations(c) ==
  /\ At(c, "compound")
  /\ IF compoundDue \/ ghost
     THEN GotoWith(c, "sendCompound", IF ghost THEN 1 ELSE 0, {})
     ELSE Goto(c, "factor")
  /\ UNCHANGED <<clock, chain, net, throttled>>

CompoundDelegationRewards(c) ==
  /\ At(c, "sendCompound")
  /\ Send(c, Tx("compound", 0, call[c].cursor, {}), "idle")
  /\ UNCHANGED <<clock, throttled>>

\* maybeRollDemandFactorStep.
ReadDemandFactor(c) ==
  /\ At(c, "factor")
  /\ Goto(c, IF Period(call[c].now) > period THEN "sendFactor" ELSE "arns")
  /\ UNCHANGED <<clock, chain, net, throttled>>

UpdateDemandFactor(c) ==
  /\ At(c, "sendFactor")
  /\ Send(c, Tx("factor", 0, 0, {}), "idle")
  /\ UNCHANGED <<clock, throttled>>

\* maybeArnsLifecycleStep, in outline (module ArnsLifecycle has its detail):
\* throttled, it does nothing; otherwise it finds nothing, completes an item
\* of the backlog, or fails.
ArnsLifecycleStep(c) ==
  /\ At(c, "arns")
  /\ \/ /\ throttled[c] \/ backlog = 0
        /\ Goto(c, "tail")
        /\ UNCHANGED backlog
     \/ /\ ~throttled[c] /\ backlog > 0
        /\ backlog' \in {backlog - 1, backlog}
        /\ Goto(c, "idle")
  /\ throttled' = [throttled EXCEPT ![c] = TRUE]
  /\ UNCHANGED <<clock, enabled, next, epochs, registry, orphans, compoundDue,
                 ghost, period, net>>

\* waiting_for_observations and epoch_complete, or the next epoch.
CreateOrIdle(c) ==
  /\ At(c, "tail")
  /\ Goto(c, IF \/ call[c].now < End(Target(c))
                \/ call[c].now < Start(call[c].index)
             THEN "idle" ELSE "create")
  /\ UNCHANGED <<clock, chain, net, throttled>>

\* createEpoch reads EpochSettings again and creates what it then finds next.
ReadIndexToCreate(c) ==
  /\ At(c, "create")
  /\ GotoWith(c, "sendCreate", next, {})
  /\ UNCHANGED <<clock, chain, net, throttled>>

CreateEpoch(c) ==
  /\ At(c, "sendCreate")
  /\ Send(c, Tx("create", call[c].cursor, call[c].index, {}), "idle")
  /\ UNCHANGED <<clock, throttled>>

\* A read or a send fails before anything reaches the chain.
RpcError(c) ==
  /\ ~At(c, "idle")
  /\ errors < MaxErrors
  /\ errors' = errors + 1
  /\ Goto(c, IF call[c].pc \in ClosePcs THEN "compound" ELSE "idle")
  /\ UNCHANGED <<clock, chain, inflight, throttled>>

CrankEpochStep(c) ==
  \/ ReadSettings(c) \/ ReadEpoch(c) \/ TallyWeights(c)
  \/ Predict(c) \/ PrescribeEpoch(c) \/ DistributeEpoch(c)
  \/ ReadCloseTarget(c) \/ ReadObservers(c)
  \/ CloseObservations(c) \/ CloseEpoch(c)
  \/ ReadDelegations(c) \/ CompoundDelegationRewards(c)
  \/ ReadDemandFactor(c) \/ UpdateDemandFactor(c)
  \/ ArnsLifecycleStep(c) \/ CreateOrIdle(c)
  \/ ReadIndexToCreate(c) \/ CreateEpoch(c)

-----------------------------------------------------------------------------
(* Everything else that happens.                                           *)

Tick ==
  /\ clock < MaxClock
  /\ clock' = clock + 1
  /\ throttled' = [c \in Crankers |-> FALSE]
  /\ UNCHANGED <<chain, net, call>>

EnableEpochs ==
  /\ ~enabled
  /\ enabled' = TRUE
  /\ UNCHANGED <<clock, next, epochs, registry, orphans, compoundDue, ghost,
                 period, backlog, net, call, throttled>>

\* A lost transaction lands after all, or its blockhash expires.
LandLate(tx) ==
  /\ inflight' = inflight \ {tx}
  /\ \/ Apply(tx)
     \/ UNCHANGED chain
  /\ UNCHANGED <<clock, errors, call, throttled>>

\* A prescribed observer saves its observation while the epoch is live.
SaveObservations(k, o) ==
  /\ Exists(k) /\ epochs[k].prescriptionsDone
  /\ Start(k) <= clock /\ clock < End(k)
  /\ o \notin epochs[k].observed
  /\ SetEpoch(k, [epochs[k] EXCEPT !.observed = @ \cup {o},
                                   !.open = @ \cup {o}])
  /\ UNCHANGED <<clock, enabled, next, registry, orphans, compoundDue, ghost,
                 period, backlog, net, call, throttled>>

\* An observation account is gone without having been counted.
OrphanObservation(k, o) ==
  /\ orphans < MaxOrphans
  /\ Done(k) /\ o \in epochs[k].open
  /\ SetEpoch(k, [epochs[k] EXCEPT !.open = @ \ {o}])
  /\ orphans' = orphans + 1
  /\ UNCHANGED <<clock, enabled, next, registry, compoundDue, ghost, period,
                 backlog, net, call, throttled>>

\* A gateway leaves or joins: predictions made before are of another selection,
\* and the registry may list fewer gateways than the live epoch was stamped with.
GatewaysChange ==
  /\ registry < MaxRegistryChanges
  /\ registry' = registry + 1
  /\ UNCHANGED <<clock, enabled, next, epochs, orphans, compoundDue, ghost,
                 period, backlog, net, call, throttled>>

\* getProgramAccounts stops listing delegations that were closed.
IndexCatchesUp ==
  /\ ghost
  /\ ghost' = FALSE
  /\ UNCHANGED <<clock, enabled, next, epochs, registry, orphans, compoundDue,
                 period, backlog, net, call, throttled>>

Environment ==
  \/ Tick \/ EnableEpochs \/ GatewaysChange \/ IndexCatchesUp
  \/ \E tx \in inflight : LandLate(tx)
  \/ \E k \in EpochIds, o \in Observers :
       SaveObservations(k, o) \/ OrphanObservation(k, o)

Next ==
  \/ \E c \in Crankers : CrankEpochStep(c) \/ RpcError(c)
  \/ Environment

Spec == Init /\ [][Next]_vars

\* Operators call the crank forever, time passes, and a lagging index is
\* refreshed in the end.
Fairness ==
  /\ \A c \in Crankers : WF_vars(CrankEpochStep(c))
  /\ WF_vars(Tick) /\ WF_vars(EnableEpochs) /\ WF_vars(IndexCatchesUp)

FairSpec == Spec /\ Fairness

-----------------------------------------------------------------------------
(* Properties.                                                             *)

\* The accounts and the calls are well formed: no cursor passes the stamped
\* gateway count (getRegistryGatewayPDAs clips the last batch), a flag is set
\* only once its cursor is at the end, and a closing is counted only for an
\* observation that was saved and is gone.
EpochOK(e) ==
  /\ e.tallyIndex <= e.active /\ e.distributionIndex <= e.active
  /\ e.weightsTallied => e.tallyIndex = e.active
  /\ e.prescriptionsDone => e.weightsTallied
  /\ e.rewardsDistributed =>
       e.prescriptionsDone /\ e.distributionIndex = e.active
  /\ e.counted \subseteq e.observed \ e.open
  /\ e.open \subseteq e.observed

Kinds == {"create", "tally", "prescribe", "distribute", "closeObservations",
          "closeEpoch", "compound", "factor"}

Txs == [kind : Kinds, epoch : Int, at : Nat, obs : SUBSET Observers]

TypeOK ==
  /\ clock \in Nat /\ enabled \in BOOLEAN
  /\ next \in Nat /\ registry \in 0..MaxRegistryChanges /\ orphans \in Nat
  /\ epochs \in [EpochIds -> Epoch \cup {NoEpoch}]
  /\ \A k \in EpochIds : Exists(k) => EpochOK(epochs[k])
  /\ compoundDue \in BOOLEAN /\ ghost \in BOOLEAN
  /\ period \in Nat /\ backlog \in Nat
  /\ inflight \subseteq Txs /\ errors \in Nat
  /\ call \in [Crankers -> Call]
  /\ throttled \in [Crankers -> BOOLEAN]

\* The epoch before k is not left half way: it is done, closed, or never was.
Settled(k) == k = 0 \/ ~Exists(k - 1) \/ Done(k - 1)

\* createEpoch creates whatever index it reads when it is about to send, not
\* the one the call decided on.  What still holds, whatever the interleaving,
\* the losses and the skew of the clocks: a create whose decision was made for
\* the current index finds the live epoch settled.  An epoch is abandoned half
\* way only by a call that decided before that epoch existed.
CreateDecisionSound ==
  /\ \A c \in Crankers :
       call[c].pc \in {"create", "sendCreate"} /\ call[c].index = next
         => Settled(next)
  /\ \A tx \in inflight : tx.kind = "create" /\ tx.at = next => Settled(next)

\* The close_epoch a call is about to send is one the program accepts, unless
\* the epoch was closed by another cranker since: the counters, the retention
\* age and the distribution it read cannot be undone.
CloseDecisionSound ==
  \A c \in Crankers :
    call[c].pc = "closeEpoch" =>
      \/ ~Exists(CloseTarget(c))
      \/ AcceptsCloseEpoch(Tx("closeEpoch", CloseTarget(c), 0, {}))

\* A tally or distribute batch, about to be sent or still in flight, starts at
\* or before the position the chain has reached, so no interleaving makes a
\* batch skip gateways.
BatchNeverSkips ==
  /\ \A c \in Crankers :
       LET k == Target(c) IN
       /\ call[c].pc = "tally" =>
            ~Exists(k) \/ call[c].cursor <= epochs[k].tallyIndex
       /\ call[c].pc = "distribute" =>
            ~Exists(k) \/ call[c].cursor <= epochs[k].distributionIndex
  /\ \A tx \in inflight :
       /\ tx.kind = "tally" =>
            ~Exists(tx.epoch) \/ tx.at <= epochs[tx.epoch].tallyIndex
       /\ tx.kind = "distribute" =>
            ~Exists(tx.epoch) \/ tx.at <= epochs[tx.epoch].distributionIndex

\* With one cranker, no losses and a true clock, every lifecycle transaction
\* it sends is accepted: the accounts it reads one after the other add up to
\* a decision the program agrees with.
SoloAccepted ==
  \A c \in Crankers :
    /\ At(c, "tally") =>
         Accepts(Tx("tally", Target(c), call[c].cursor, {}))
    /\ At(c, "distribute") =>
         Accepts(Tx("distribute", Target(c), call[c].cursor, {}))
    /\ At(c, "sendCreate") =>
         Accepts(Tx("create", call[c].cursor, call[c].index, {}))
    /\ At(c, "closeObservations") =>
         Accepts(Tx("closeObservations", CloseTarget(c), 0, call[c].batch))

\* While no epoch is abandoned half way, no distributed epoch is older than
\* the one the close branch looks at, which is the only one it ever looks at:
\* a close that fails is tried again before the next epoch moves the branch on.
CleanupKeepsUp ==
  (\A k \in EpochIds : Exists(k) => k + 1 = next \/ Done(k))
    => \A k \in EpochIds : Done(k) => next <= k + Retention + 1

\* The registry lists fewer gateways than an unfinished epoch counts: the crank
\* repeats an empty batch until gateways join again.
Short ==
  \E k \in EpochIds : Exists(k) /\ ~Done(k) /\ Live < epochs[k].active

\* Every epoch whose time has come is created, whatever old epochs, ghosts in
\* the account index, compounding or the ArNS backlog do, unless the registry
\* stays short for ever.
EveryEpochCreated ==
  \A k \in FirstEpoch..LastEpoch :
    <>[]Short \/ ((enabled /\ clock >= Start(k)) ~> (next > k))

\* Every epoch that is created and over is fully distributed, unless the
\* registry stays short for ever.
EveryEpochDistributed ==
  \A k \in FirstEpoch..LastEpoch :
    <>[]Short \/ ((Exists(k) /\ clock >= End(k)) ~> (Done(k) \/ ~Exists(k)))

\* The crank implements the epoch lifecycle.
PhaseOf(e) ==
  CASE e = NoEpoch -> "absent"
    [] OTHER -> IF e.rewardsDistributed THEN "done"
                ELSE IF e.prescriptionsDone THEN "observe"
                ELSE IF e.weightsTallied THEN "prescribe" ELSE "tally"

Lifecycle == INSTANCE EpochLifecycle
  WITH phase <- [k \in EpochIds |-> PhaseOf(epochs[k])]

ImplementsLifecycle == Lifecycle!Spec
=============================================================================
