-------------------------- MODULE EpochCrankProofs --------------------------
(***************************************************************************)
(* Proofs about EpochCrank for any number of crankers, observers, epochs,  *)
(* gateways, failures and any skew of the crankers' clocks.                *)
(*                                                                         *)
(* The argument: the chain only moves forward (Forward), every decision a  *)
(* call holds is about something that cannot be undone by a forward step   *)
(* (CallSound), and a transaction in flight inherits what held of the call *)
(* that sent it (TxSound).                                                 *)
(*                                                                         *)
(* One cranker, whose unconfirmed sends do not land late, is never         *)
(* overtaken: the index it read is the one that is next (Orderly), so the  *)
(* crank implements EpochLifecycle; what it read is still so when it sends *)
(* (Fresh); and it leaves the close branch only when that has nothing left *)
(* to close (Closing).                                                     *)
(***************************************************************************)
EXTENDS EpochCrank, FiniteSetTheorems, TLAPS

-----------------------------------------------------------------------------
(* The inductive invariant.                                                *)

\* No epoch exists at or after the index to create next.
NoFutureEpoch == \A k \in EpochIds : k >= next => ~Exists(k)

\* Rewards are distributed only after the observation window.
DoneIsOver == \A k \in EpochIds : Done(k) => clock >= End(k)

\* The epoch before i is not left half way.
SettledBefore(i) == i > 0 => ~Exists(i - 1) \/ Done(i - 1)

\* The steps of a call that has found the live epoch distributed.
AfterDone == ClosePcs \cup {"compound", "sendCompound", "factor", "sendFactor"}

CallSound(c) ==
  /\ call[c].index <= next
  /\ call[c].pc \in AfterDone \cup {"create", "sendCreate"} =>
       SettledBefore(call[c].index)
  /\ call[c].pc \in {"arns", "tail"} /\ call[c].now >= End(Target(c)) =>
       SettledBefore(call[c].index)
  /\ call[c].pc = "tally" =>
       /\ Target(c) < next
       /\ ~Exists(Target(c)) \/ call[c].cursor <= epochs[Target(c)].tallyIndex
  /\ call[c].pc = "distribute" =>
       /\ Target(c) < next
       /\ \/ ~Exists(Target(c))
          \/ call[c].cursor <= epochs[Target(c)].distributionIndex
  /\ call[c].pc \in ClosePcs => call[c].index > 0
  /\ call[c].pc = "closeEpoch" =>
       \/ ~Exists(CloseTarget(c))
       \/ /\ Done(CloseTarget(c))
          /\ epochs[CloseTarget(c)].counted = epochs[CloseTarget(c)].observed

TxSound(tx) ==
  /\ tx.kind = "create" => tx.at <= next /\ SettledBefore(tx.at)
  /\ tx.kind = "tally" =>
       /\ tx.epoch < next
       /\ ~Exists(tx.epoch) \/ tx.at <= epochs[tx.epoch].tallyIndex
  /\ tx.kind = "distribute" =>
       /\ tx.epoch < next
       /\ ~Exists(tx.epoch) \/ tx.at <= epochs[tx.epoch].distributionIndex

IInv ==
  /\ TypeOK
  /\ NoFutureEpoch
  /\ DoneIsOver
  /\ \A c \in Crankers : CallSound(c)
  /\ \A tx \in inflight : TxSound(tx)

-----------------------------------------------------------------------------
(* The chain moves forward.                                                *)

\* What one account may become of another.
Later(e, f) ==
  /\ e.tallyIndex <= f.tallyIndex
  /\ e.distributionIndex <= f.distributionIndex
  /\ e.rewardsDistributed =>
       f.rewardsDistributed /\ f.observed = e.observed
         /\ e.counted \subseteq f.counted

Forward ==
  /\ next <= next'
  /\ \A k \in EpochIds :
       k < next /\ epochs'[k] # NoEpoch =>
         Exists(k) /\ Later(epochs[k], epochs'[k])

\* The part of the type invariant that is about the chain.
ChainOK ==
  /\ clock \in Nat /\ enabled \in BOOLEAN
  /\ next \in Nat /\ registry \in 0..MaxRegistryChanges /\ orphans \in Nat
  /\ epochs \in [EpochIds -> Epoch \cup {NoEpoch}]
  /\ \A k \in EpochIds : Exists(k) => EpochOK(epochs[k])
  /\ compoundDue \in BOOLEAN /\ ghost \in BOOLEAN
  /\ period \in Nat /\ backlog \in Nat

ChainInv == ChainOK /\ NoFutureEpoch /\ DoneIsOver

\* A period number is a natural number.
LEMMA PeriodType == ASSUME NEW t \in Nat PROVE Period(t) \in Nat
<1>1. t \div FactorPeriod \in Nat
  BY EpochAssumption
<1> QED BY <1>1 DEF Period

\* Every version of the registry lists a number of gateways.
LEMMA LiveType == ASSUME ChainInv PROVE Live \in Nat
<1>1. registry \in 0..MaxRegistryChanges
  BY DEF ChainInv, ChainOK
<1> QED BY <1>1, RegistryAssumption DEF Live

\* The position after a batch stays within the stamped count and never goes
\* back, however many gateways the registry lists.
LEMMA UptoBounds ==
  ASSUME ChainInv, NEW i \in Nat, NEW n \in Nat, i <= n
  PROVE  Upto(i, n) \in Nat /\ Upto(i, n) <= n /\ i <= Upto(i, n)
<1>1. Live \in Nat /\ Batch \in Nat
  BY LiveType, EpochAssumption
<1> QED BY <1>1 DEF Upto

\* A new account is well formed.
LEMMA NewEpochType ==
  ASSUME NEW n \in Nat
  PROVE  NewEpoch(n) \in Epoch /\ EpochOK(NewEpoch(n))
         /\ ~NewEpoch(n).rewardsDistributed
BY DEF NewEpoch, Epoch, EpochOK

\* Changing one existing epoch into a later, well-formed one keeps the chain
\* sound.
LEMMA ChangeOne ==
  ASSUME ChainInv, NEW k, Exists(k), NEW f \in Epoch, EpochOK(f),
         SetEpoch(k, f), next' = next, clock' = clock,
         Later(epochs[k], f),
         f.rewardsDistributed => clock >= End(k)
  PROVE  /\ epochs' \in [EpochIds -> Epoch \cup {NoEpoch}]
         /\ (\A j \in EpochIds : Exists(j) => EpochOK(epochs[j]))'
         /\ NoFutureEpoch' /\ DoneIsOver' /\ Forward
<1> USE DEF EpochIds
<1>1. /\ k \in EpochIds /\ epochs[k] # NoEpoch
      /\ epochs \in [EpochIds -> Epoch \cup {NoEpoch}] /\ next \in Nat
      /\ LastEpoch \in Nat
  BY EpochAssumption DEF Exists, ChainInv, ChainOK
<1>2. epochs' = [epochs EXCEPT ![k] = f]
  BY DEF SetEpoch
<1>3. epochs' \in [EpochIds -> Epoch \cup {NoEpoch}]
  BY <1>1, <1>2
<1>4. \A j \in EpochIds : epochs'[j] = IF j = k THEN f ELSE epochs[j]
  BY <1>1, <1>2
<1>5. (\A j \in EpochIds : Exists(j) => EpochOK(epochs[j]))'
  BY <1>4 DEF Exists, ChainInv, ChainOK
<1>6. NoFutureEpoch'
  BY <1>4, <1>1 DEF NoFutureEpoch, ChainInv, Exists
<1>7. DoneIsOver'
  <2> SUFFICES ASSUME NEW j \in EpochIds, Done(j)'
               PROVE  (clock >= End(j))'
    BY DEF DoneIsOver
  <2>1. CASE j = k
    BY <2>1, <1>4 DEF Done, Exists, End, Start
  <2>2. CASE j # k
    BY <2>2, <1>4 DEF Done, Exists, ChainInv, DoneIsOver, End, Start
  <2> QED BY <2>1, <2>2
<1>8. Forward
  <2> SUFFICES ASSUME NEW j \in EpochIds, j < next, epochs'[j] # NoEpoch
               PROVE  Exists(j) /\ Later(epochs[j], epochs'[j])
    BY <1>1 DEF Forward
  <2>1. CASE j = k
    BY <2>1, <1>4
  <2>2. CASE j # k
    <3>1. epochs[j] \in Epoch /\ epochs'[j] = epochs[j] /\ Exists(j)
      BY <2>2, <1>1, <1>4 DEF Exists
    <3>2. Later(epochs[j], epochs[j])
      BY <3>1 DEF Later, Epoch
    <3> QED BY <3>1, <3>2
  <2> QED BY <2>1, <2>2
<1> QED BY <1>3, <1>5, <1>6, <1>7, <1>8

\* What every step of the chain keeps.
ChainKept == ChainInv' /\ Forward

\* A create that lands adds one fresh account, at the index, and moves it on.
LEMMA CreateKeeps ==
  ASSUME ChainInv, NEW tx, ApplyCreate(tx), clock' = clock
  PROVE  ChainKept
<1> USE DEF EpochIds
<1> DEFINE n == Live
<1>0. n \in Nat
  BY LiveType
<1>1. SetEpoch(next, NewEpoch(n))
  BY DEF ApplyCreate
<1> HIDE DEF n
<1>2. /\ next \in EpochIds /\ next \in Nat /\ next' = next + 1
      /\ clock >= Start(next) /\ n \in Nat /\ LastEpoch \in Nat
  BY <1>0, EpochAssumption DEF ApplyCreate, AcceptsCreate, ChainInv, ChainOK
<1>3. NewEpoch(n) \in Epoch /\ EpochOK(NewEpoch(n))
      /\ ~NewEpoch(n).rewardsDistributed
  BY <1>2, NewEpochType
<1>4. \A j \in EpochIds :
        epochs'[j] = IF j = next THEN NewEpoch(n) ELSE epochs[j]
  BY <1>1, <1>2 DEF SetEpoch, ChainInv, ChainOK
<1>5. epochs' \in [EpochIds -> Epoch \cup {NoEpoch}]
  BY <1>1, <1>2, <1>3 DEF SetEpoch, ChainInv, ChainOK
<1>6. ChainOK'
  <2>1. (\A j \in EpochIds : Exists(j) => EpochOK(epochs[j]))'
    BY <1>3, <1>4 DEF Exists, ChainInv, ChainOK
  <2> QED BY <2>1, <1>2, <1>5 DEF ApplyCreate, ChainInv, ChainOK
<1>7. NoFutureEpoch'
  BY <1>2, <1>4 DEF NoFutureEpoch, ChainInv, Exists
<1>8. DoneIsOver'
  <2> SUFFICES ASSUME NEW j \in EpochIds, Done(j)'
               PROVE  (clock >= End(j))'
    BY DEF DoneIsOver
  <2>1. j # next
    BY <1>3, <1>4 DEF Done
  <2> QED BY <2>1, <1>4 DEF Done, Exists, ChainInv, DoneIsOver, End, Start
<1>9. Forward
  <2> SUFFICES ASSUME NEW j \in EpochIds, j < next, epochs'[j] # NoEpoch
               PROVE  Exists(j) /\ Later(epochs[j], epochs'[j])
    BY <1>2 DEF Forward
  <2>1. epochs'[j] = epochs[j] /\ Exists(j) /\ epochs[j] \in Epoch
    BY <1>2, <1>4 DEF Exists, ChainInv, ChainOK
  <2> QED BY <2>1 DEF Later, Epoch
<1> QED BY <1>6, <1>7, <1>8, <1>9 DEF ChainKept, ChainInv

\* A tally batch that lands moves one cursor on, up to the stamped count.
LEMMA TallyKeeps ==
  ASSUME ChainInv, NEW tx, ApplyTally(tx), clock' = clock
  PROVE  ChainKept
<1> DEFINE k == tx.epoch
           e == epochs[k]
           i == Upto(e.tallyIndex, e.active)
           f == [e EXCEPT !.tallyIndex = i, !.weightsTallied = (i = e.active)]
<1>1. /\ Exists(k) /\ ~e.weightsTallied /\ SetEpoch(k, f)
      /\ UNCHANGED <<enabled, next, registry, orphans, compoundDue, ghost,
                     period, backlog>>
  BY DEF ApplyTally, AcceptsTally
<1>2. e \in Epoch /\ EpochOK(e)
  BY <1>1 DEF Exists, ChainInv, ChainOK
<1>3. i \in Nat /\ i <= e.active /\ e.tallyIndex <= i
  BY <1>2, UptoBounds DEF Epoch, EpochOK
<1> HIDE DEF i, e
<1>4. f \in Epoch
  BY <1>2, <1>3 DEF Epoch
<1>5. /\ f.active = e.active /\ f.tallyIndex = i
      /\ f.weightsTallied = (i = e.active)
      /\ f.distributionIndex = e.distributionIndex
      /\ f.prescriptionsDone = e.prescriptionsDone
      /\ f.rewardsDistributed = e.rewardsDistributed
      /\ f.observed = e.observed /\ f.open = e.open
      /\ f.counted = e.counted
  BY <1>2 DEF Epoch
<1>6. ~e.rewardsDistributed /\ ~e.prescriptionsDone
  BY <1>1, <1>2 DEF Epoch, EpochOK, e
<1> HIDE DEF f, k
<1>7. EpochOK(f)
  BY <1>2, <1>3, <1>4, <1>5, <1>6 DEF EpochOK
<1>8. Later(e, f) /\ ~f.rewardsDistributed
  BY <1>2, <1>3, <1>5, <1>6 DEF Later, Epoch
<1>9. /\ epochs' \in [EpochIds -> Epoch \cup {NoEpoch}]
      /\ (\A j \in EpochIds : Exists(j) => EpochOK(epochs[j]))'
      /\ NoFutureEpoch' /\ DoneIsOver' /\ Forward
  BY <1>1, <1>4, <1>7, <1>8, ChangeOne DEF e
<1> QED BY <1>1, <1>9 DEF ChainKept, ChainInv, ChainOK

\* A prescription that lands only sets the flag of one tallied epoch.
LEMMA PrescribeKeeps ==
  ASSUME ChainInv, NEW tx, ApplyPrescribe(tx), clock' = clock
  PROVE  ChainKept
<1> DEFINE k == tx.epoch
           e == epochs[k]
           f == [e EXCEPT !.prescriptionsDone = TRUE]
<1>1. /\ Exists(k) /\ e.weightsTallied /\ ~e.prescriptionsDone
      /\ SetEpoch(k, f)
      /\ UNCHANGED <<enabled, next, registry, orphans, compoundDue, ghost,
                     period, backlog>>
  BY DEF ApplyPrescribe, AcceptsPrescribe
<1>2. e \in Epoch /\ EpochOK(e)
  BY <1>1 DEF Exists, ChainInv, ChainOK
<1> HIDE DEF e
<1>3. f \in Epoch
  BY <1>2 DEF Epoch
<1>4. /\ f.active = e.active /\ f.tallyIndex = e.tallyIndex
      /\ f.weightsTallied = e.weightsTallied /\ f.prescriptionsDone
      /\ f.distributionIndex = e.distributionIndex
      /\ f.rewardsDistributed = e.rewardsDistributed
      /\ f.observed = e.observed /\ f.open = e.open
      /\ f.counted = e.counted
  BY <1>2 DEF Epoch
<1>5. ~e.rewardsDistributed /\ e.weightsTallied
  BY <1>1, <1>2 DEF Epoch, EpochOK, e
<1> HIDE DEF f, k
<1>6. EpochOK(f)
  BY <1>2, <1>4, <1>5 DEF EpochOK
<1>7. Later(e, f) /\ ~f.rewardsDistributed
  BY <1>2, <1>4, <1>5 DEF Later, Epoch
<1>8. /\ epochs' \in [EpochIds -> Epoch \cup {NoEpoch}]
      /\ (\A j \in EpochIds : Exists(j) => EpochOK(epochs[j]))'
      /\ NoFutureEpoch' /\ DoneIsOver' /\ Forward
  BY <1>1, <1>3, <1>6, <1>7, ChangeOne DEF e
<1> QED BY <1>1, <1>8 DEF ChainKept, ChainInv, ChainOK

\* A distribute batch that lands moves one cursor on, after the epoch's end.
LEMMA DistributeKeeps ==
  ASSUME ChainInv, NEW tx, ApplyDistribute(tx), clock' = clock
  PROVE  ChainKept
<1> DEFINE k == tx.epoch
           e == epochs[k]
           i == Upto(e.distributionIndex, e.active)
           f == [e EXCEPT !.distributionIndex = i,
                          !.rewardsDistributed = (i = e.active)]
<1>1. /\ Exists(k) /\ e.prescriptionsDone /\ ~e.rewardsDistributed
      /\ clock >= End(k) /\ SetEpoch(k, f)
      /\ compoundDue' = (compoundDue \/ (i = e.active))
      /\ IF i = e.active THEN ghost' \in BOOLEAN ELSE ghost' = ghost
      /\ UNCHANGED <<enabled, next, registry, orphans, period, backlog>>
  BY DEF ApplyDistribute, AcceptsDistribute
<1>2. e \in Epoch /\ EpochOK(e)
  BY <1>1 DEF Exists, ChainInv, ChainOK
<1>3. i \in Nat /\ i <= e.active /\ e.distributionIndex <= i
  BY <1>2, UptoBounds DEF Epoch, EpochOK
<1> HIDE DEF i
<1>4. f \in Epoch /\ EpochOK(f) /\ Later(e, f)
  BY <1>1, <1>2, <1>3 DEF Epoch, EpochOK, Later
<1>5. compoundDue' \in BOOLEAN /\ ghost' \in BOOLEAN
  BY <1>1 DEF ChainInv, ChainOK
<1> HIDE DEF f, e, k
<1>6. /\ epochs' \in [EpochIds -> Epoch \cup {NoEpoch}]
      /\ (\A j \in EpochIds : Exists(j) => EpochOK(epochs[j]))'
      /\ NoFutureEpoch' /\ DoneIsOver' /\ Forward
  BY <1>1, <1>4, ChangeOne DEF e
<1> QED BY <1>1, <1>5, <1>6 DEF ChainKept, ChainInv, ChainOK

\* Closing observations turns open ones of one epoch into counted ones.
LEMMA CloseObservationsKeeps ==
  ASSUME ChainInv, NEW tx, ApplyCloseObservations(tx), clock' = clock
  PROVE  ChainKept
<1> DEFINE k == tx.epoch
           e == epochs[k]
           f == [e EXCEPT !.open = @ \ tx.obs, !.counted = @ \cup tx.obs]
<1>1. /\ Exists(k) /\ tx.obs \subseteq e.open /\ SetEpoch(k, f)
      /\ UNCHANGED <<enabled, next, registry, orphans, compoundDue, ghost,
                     period, backlog>>
  BY DEF ApplyCloseObservations, AcceptsCloseObservations
<1>2. e \in Epoch /\ EpochOK(e)
  BY <1>1 DEF Exists, ChainInv, ChainOK
<1> HIDE DEF e
<1>3. f \in Epoch
  <2>1. tx.obs \in SUBSET Observers
    BY <1>1, <1>2 DEF Epoch, e
  <2> QED BY <1>2, <2>1 DEF Epoch
<1>4. /\ f.active = e.active /\ f.tallyIndex = e.tallyIndex
      /\ f.weightsTallied = e.weightsTallied
      /\ f.prescriptionsDone = e.prescriptionsDone
      /\ f.distributionIndex = e.distributionIndex
      /\ f.rewardsDistributed = e.rewardsDistributed
      /\ f.observed = e.observed /\ f.open = e.open \ tx.obs
      /\ f.counted = e.counted \cup tx.obs
  BY <1>2 DEF Epoch
<1> HIDE DEF f
<1>5. EpochOK(f)
  <2>1. tx.obs \subseteq e.open
    BY <1>1 DEF e
  <2> QED BY <1>2, <1>4, <2>1 DEF EpochOK
<1>6. Later(e, f)
  BY <1>2, <1>4 DEF Later, Epoch
<1>7. f.rewardsDistributed => clock >= End(k)
  BY <1>1, <1>4 DEF ChainInv, DoneIsOver, Done, Exists, e
<1> HIDE DEF k
<1>8. /\ epochs' \in [EpochIds -> Epoch \cup {NoEpoch}]
      /\ (\A j \in EpochIds : Exists(j) => EpochOK(epochs[j]))'
      /\ NoFutureEpoch' /\ DoneIsOver' /\ Forward
  BY <1>1, <1>3, <1>5, <1>6, <1>7, ChangeOne DEF e
<1> QED BY <1>1, <1>8 DEF ChainKept, ChainInv, ChainOK

\* Closing an epoch removes one account that is older than the live one.
LEMMA CloseEpochKeeps ==
  ASSUME ChainInv, NEW tx, ApplyCloseEpoch(tx), clock' = clock
  PROVE  ChainKept
<1> USE DEF EpochIds
<1>1. /\ Exists(tx.epoch) /\ SetEpoch(tx.epoch, NoEpoch)
      /\ UNCHANGED <<enabled, next, registry, orphans, compoundDue, ghost,
                     period, backlog>>
  BY DEF ApplyCloseEpoch, AcceptsCloseEpoch, Done
<1>2. /\ tx.epoch \in EpochIds /\ next \in Nat
      /\ epochs \in [EpochIds -> Epoch \cup {NoEpoch}]
  BY <1>1 DEF Exists, ChainInv, ChainOK
<1>3. /\ epochs' \in [EpochIds -> Epoch \cup {NoEpoch}]
      /\ \A j \in EpochIds : epochs'[j] = NoEpoch \/ epochs'[j] = epochs[j]
  BY <1>1, <1>2 DEF SetEpoch
<1>4. (\A j \in EpochIds : Exists(j) => EpochOK(epochs[j]))'
  BY <1>3 DEF Exists, ChainInv, ChainOK
<1>5. NoFutureEpoch'
  BY <1>1, <1>3 DEF NoFutureEpoch, ChainInv, Exists
<1>6. DoneIsOver'
  BY <1>3 DEF DoneIsOver, Done, Exists, ChainInv, End, Start
<1>7. Forward
  <2> SUFFICES ASSUME NEW j \in EpochIds, epochs'[j] # NoEpoch
               PROVE  Exists(j) /\ Later(epochs[j], epochs'[j])
    BY <1>1, <1>2 DEF Forward
  <2>1. epochs'[j] = epochs[j] /\ Exists(j) /\ epochs[j] \in Epoch
    BY <1>2, <1>3 DEF Exists
  <2> QED BY <2>1 DEF Later, Epoch
<1> QED BY <1>1, <1>3, <1>4, <1>5, <1>6, <1>7 DEF ChainKept, ChainInv, ChainOK

\* A step that leaves the accounts and the clock alone.
LEMMA UntouchedEpochs ==
  ASSUME ChainInv, UNCHANGED <<epochs, next>>, clock' \in Nat, clock <= clock'
  PROVE  NoFutureEpoch' /\ DoneIsOver' /\ Forward
<1>1. NoFutureEpoch'
  BY DEF NoFutureEpoch, ChainInv, Exists
<1>2. DoneIsOver'
  <2> SUFFICES ASSUME NEW k \in EpochIds, Done(k)'
               PROVE  (clock >= End(k))'
    BY DEF DoneIsOver
  <2>1. clock >= End(k) /\ clock \in Nat /\ End(k) \in Int /\ End(k)' = End(k)
    BY EpochAssumption
    DEF Done, Exists, ChainInv, ChainOK, DoneIsOver, End, Start, EpochIds
  <2> QED BY <2>1
<1>3. Forward
  <2> SUFFICES ASSUME NEW j \in EpochIds, epochs[j] # NoEpoch
               PROVE  Exists(j) /\ Later(epochs[j], epochs[j])
    BY DEF Forward, ChainInv, ChainOK
  <2>1. Exists(j) /\ epochs[j] \in Epoch
    BY DEF Exists, ChainInv, ChainOK
  <2> QED BY <2>1 DEF Later, Epoch
<1> QED BY <1>1, <1>2, <1>3

\* A step that changes neither the accounts nor the index.
LEMMA OthersKeep ==
  ASSUME ChainInv, ChainOK', UNCHANGED <<epochs, next>>, clock <= clock'
  PROVE  ChainKept
<1>1. clock' \in Nat
  BY DEF ChainOK
<1> QED BY <1>1, UntouchedEpochs DEF ChainKept, ChainInv

\* Every transaction that lands keeps the chain sound.
LEMMA ApplyKeeps ==
  ASSUME ChainInv, NEW tx, Apply(tx), clock' = clock
  PROVE  ChainKept
<1>1. CASE ApplyCreate(tx)
  BY <1>1, CreateKeeps
<1>2. CASE ApplyTally(tx)
  BY <1>2, TallyKeeps
<1>3. CASE ApplyPrescribe(tx)
  BY <1>3, PrescribeKeeps
<1>4. CASE ApplyDistribute(tx)
  BY <1>4, DistributeKeeps
<1>5. CASE ApplyCloseObservations(tx)
  BY <1>5, CloseObservationsKeeps
<1>6. CASE ApplyCloseEpoch(tx)
  BY <1>6, CloseEpochKeeps
<1>7. CASE ApplyCompound(tx)
  <2>1. ChainOK'
    BY <1>7 DEF ApplyCompound, ChainInv, ChainOK, Exists
  <2>2. clock <= clock'
    BY DEF ChainInv, ChainOK
  <2> QED BY <1>7, <2>1, <2>2, OthersKeep DEF ApplyCompound
<1>8. CASE ApplyFactor(tx)
  <2>1. ChainOK'
    BY <1>8, PeriodType DEF ApplyFactor, ChainInv, ChainOK, Exists
  <2>2. clock <= clock'
    BY DEF ChainInv, ChainOK
  <2> QED BY <1>8, <2>1, <2>2, OthersKeep DEF ApplyFactor
<1> QED
  BY <1>1, <1>2, <1>3, <1>4, <1>5, <1>6, <1>7, <1>8 DEF Apply

\* An observation is saved while its epoch is live, so not in one that is done.
LEMMA SaveKeeps ==
  ASSUME ChainInv, NEW k \in EpochIds, NEW o \in Observers,
         SaveObservations(k, o)
  PROVE  ChainKept
<1> DEFINE e == epochs[k]
           f == [e EXCEPT !.observed = @ \cup {o}, !.open = @ \cup {o}]
<1>1. /\ Exists(k) /\ clock < End(k) /\ SetEpoch(k, f) /\ o \notin e.observed
      /\ UNCHANGED <<clock, enabled, next, registry, orphans, compoundDue,
                     ghost, period, backlog>>
  BY DEF SaveObservations
<1>2. e \in Epoch /\ EpochOK(e)
  BY <1>1 DEF Exists, ChainInv, ChainOK
<1>3. ~e.rewardsDistributed
  <2>1. clock \in Nat /\ End(k) \in Int
    BY EpochAssumption DEF ChainInv, ChainOK, EpochIds, End, Start
  <2> QED BY <1>1, <2>1 DEF ChainInv, DoneIsOver, Done
<1>4. o \notin e.observed
  BY <1>1
<1> HIDE DEF e
<1>5. f \in Epoch
  BY <1>2 DEF Epoch
<1>6. /\ f.active = e.active /\ f.tallyIndex = e.tallyIndex
      /\ f.weightsTallied = e.weightsTallied
      /\ f.prescriptionsDone = e.prescriptionsDone
      /\ f.distributionIndex = e.distributionIndex
      /\ f.rewardsDistributed = e.rewardsDistributed
      /\ f.observed = e.observed \cup {o} /\ f.open = e.open \cup {o}
      /\ f.counted = e.counted
  BY <1>2 DEF Epoch
<1> HIDE DEF f
<1>7. EpochOK(f)
  BY <1>2, <1>4, <1>6 DEF EpochOK
<1>8. Later(e, f) /\ ~f.rewardsDistributed
  BY <1>2, <1>3, <1>6 DEF Later, Epoch
<1>9. /\ epochs' \in [EpochIds -> Epoch \cup {NoEpoch}]
      /\ (\A j \in EpochIds : Exists(j) => EpochOK(epochs[j]))'
      /\ NoFutureEpoch' /\ DoneIsOver' /\ Forward
  BY <1>1, <1>5, <1>7, <1>8, ChangeOne DEF e
<1> QED BY <1>1, <1>9 DEF ChainKept, ChainInv, ChainOK

\* An observation that vanishes leaves what was saved and counted as it is.
LEMMA OrphanKeeps ==
  ASSUME ChainInv, NEW k \in EpochIds, NEW o \in Observers,
         OrphanObservation(k, o)
  PROVE  ChainKept
<1> DEFINE e == epochs[k]
           f == [e EXCEPT !.open = @ \ {o}]
<1>1. /\ Exists(k) /\ Done(k) /\ SetEpoch(k, f) /\ orphans' = orphans + 1
      /\ UNCHANGED <<clock, enabled, next, registry, compoundDue,
                     ghost, period, backlog>>
  BY DEF OrphanObservation, Done
<1>2. e \in Epoch /\ EpochOK(e)
  BY <1>1 DEF Exists, ChainInv, ChainOK
<1>3. clock >= End(k)
  BY <1>1 DEF ChainInv, DoneIsOver
<1> HIDE DEF e
<1>4. f \in Epoch
  BY <1>2 DEF Epoch
<1>5. /\ f.active = e.active /\ f.tallyIndex = e.tallyIndex
      /\ f.weightsTallied = e.weightsTallied
      /\ f.prescriptionsDone = e.prescriptionsDone
      /\ f.distributionIndex = e.distributionIndex
      /\ f.rewardsDistributed = e.rewardsDistributed
      /\ f.observed = e.observed /\ f.open = e.open \ {o}
      /\ f.counted = e.counted
  BY <1>2 DEF Epoch
<1> HIDE DEF f
<1>6. EpochOK(f)
  BY <1>2, <1>5 DEF EpochOK
<1>7. Later(e, f)
  BY <1>2, <1>5 DEF Later, Epoch
<1>8. /\ epochs' \in [EpochIds -> Epoch \cup {NoEpoch}]
      /\ (\A j \in EpochIds : Exists(j) => EpochOK(epochs[j]))'
      /\ NoFutureEpoch' /\ DoneIsOver' /\ Forward
  BY <1>1, <1>3, <1>4, <1>6, <1>7, ChangeOne DEF e
<1>9. orphans' \in Nat
  BY <1>1 DEF ChainInv, ChainOK
<1> QED BY <1>1, <1>8, <1>9 DEF ChainKept, ChainInv, ChainOK

-----------------------------------------------------------------------------
(* What a call decided stays true while the chain moves forward.           *)

\* An epoch that is settled stays so.
LEMMA SettledStays ==
  ASSUME ChainInv, ChainKept, NEW i \in Nat, i <= next, SettledBefore(i)
  PROVE  SettledBefore(i)'
<1> SUFFICES ASSUME i > 0, Exists(i - 1)' PROVE Done(i - 1)'
  BY DEF SettledBefore
<1>1. /\ i - 1 \in EpochIds /\ epochs'[i - 1] # NoEpoch
      /\ i - 1 < next /\ next \in Nat
  BY EpochAssumption DEF Exists, EpochIds, ChainInv, ChainOK
<1>2. Exists(i - 1) /\ Later(epochs[i - 1], epochs'[i - 1])
  BY <1>1 DEF ChainKept, Forward
<1>3. epochs[i - 1].rewardsDistributed
  BY <1>2 DEF SettledBefore, Done
<1> QED BY <1>2, <1>3 DEF Later, Done

\* A cursor the chain has reached stays behind it.
LEMMA CursorStays ==
  ASSUME ChainInv, ChainKept, NEW k \in Int, NEW x \in Nat, k < next,
         Exists(k)'
  PROVE  /\ k < next'
         /\ Exists(k)
         /\ x <= epochs[k].tallyIndex => x <= epochs'[k].tallyIndex
         /\ x <= epochs[k].distributionIndex =>
              x <= epochs'[k].distributionIndex
<1>1. k \in EpochIds /\ epochs'[k] # NoEpoch /\ next \in Nat /\ next' \in Nat
  BY DEF Exists, EpochIds, ChainInv, ChainOK, ChainKept
<1>2. Exists(k) /\ Later(epochs[k], epochs'[k]) /\ next <= next'
  BY <1>1 DEF ChainKept, Forward
<1>3. epochs[k] \in Epoch /\ epochs'[k] \in Epoch
  BY <1>1, <1>2 DEF Exists, ChainInv, ChainOK, ChainKept
<1> QED BY <1>1, <1>2, <1>3 DEF Later, Epoch

\* A fully counted epoch stays so until it is closed.
LEMMA CountedStays ==
  ASSUME ChainInv, ChainKept, NEW k \in Int, k < next, Exists(k)',
         Done(k), epochs[k].counted = epochs[k].observed
  PROVE  Done(k)' /\ epochs'[k].counted = epochs'[k].observed
<1>1. k \in EpochIds /\ epochs'[k] # NoEpoch
  BY DEF Exists
<1>2. Later(epochs[k], epochs'[k]) /\ EpochOK(epochs'[k])
  BY <1>1 DEF ChainKept, Forward, ChainInv, ChainOK, Exists
<1> QED BY <1>2 DEF Later, EpochOK, Done

\* A call that takes no step keeps what it decided.
LEMMA CallStays ==
  ASSUME ChainInv, ChainKept, NEW c \in Crankers, call[c] \in Call,
         call'[c] = call[c], CallSound(c)
  PROVE  CallSound(c)'
<1>1. /\ call[c].index \in Nat /\ call[c].cursor \in Nat
      /\ call[c].index <= next /\ next \in Nat /\ next' \in Nat
      /\ next <= next' /\ Retention \in Nat
  BY EpochAssumption
  DEF Call, CallSound, ChainInv, ChainOK, ChainKept, Forward
<1>2. /\ Target(c)' = Target(c) /\ CloseTarget(c)' = CloseTarget(c)
      /\ Target(c) \in Nat /\ CloseTarget(c) \in Int
      /\ End(Target(c))' = End(Target(c))
  BY <1>1 DEF Target, CloseTarget, End, Start
<1>3. SettledBefore(call[c].index) => SettledBefore(call[c].index)'
  BY <1>1, SettledStays DEF SettledBefore
<1>4. call[c].index <= next'
  BY <1>1
<1>5. call[c].pc = "tally" =>
        /\ Target(c) < next'
        /\ \/ ~Exists(Target(c))'
           \/ call[c].cursor <= epochs'[Target(c)].tallyIndex
  <2> SUFFICES ASSUME call[c].pc = "tally"
               PROVE /\ Target(c) < next'
                     /\ Exists(Target(c))' =>
                          call[c].cursor <= epochs'[Target(c)].tallyIndex
    OBVIOUS
  <2> QED BY <1>1, <1>2, CursorStays DEF CallSound
<1>6. call[c].pc = "distribute" =>
        /\ Target(c) < next'
        /\ \/ ~Exists(Target(c))'
           \/ call[c].cursor <= epochs'[Target(c)].distributionIndex
  <2> SUFFICES ASSUME call[c].pc = "distribute"
               PROVE /\ Target(c) < next'
                     /\ Exists(Target(c))' =>
                          call[c].cursor <= epochs'[Target(c)].distributionIndex
    OBVIOUS
  <2> QED BY <1>1, <1>2, CursorStays DEF CallSound
<1>7. call[c].pc = "closeEpoch" =>
        \/ ~Exists(CloseTarget(c))'
        \/ /\ Done(CloseTarget(c))'
           /\ epochs'[CloseTarget(c)].counted
                = epochs'[CloseTarget(c)].observed
  <2> SUFFICES ASSUME call[c].pc = "closeEpoch", Exists(CloseTarget(c))'
               PROVE  /\ Done(CloseTarget(c))'
                      /\ epochs'[CloseTarget(c)].counted
                           = epochs'[CloseTarget(c)].observed
    OBVIOUS
  <2>1. CloseTarget(c) < next
    BY <1>1, <1>2 DEF CallSound, ClosePcs, CloseTarget, Target
  <2>2. Exists(CloseTarget(c))
    BY <1>2, <2>1, CursorStays, <1>1
  <2> QED BY <1>2, <2>1, <2>2, CountedStays DEF CallSound
<1> QED BY <1>2, <1>3, <1>4, <1>5, <1>6, <1>7 DEF CallSound

\* So does a transaction in flight.
LEMMA TxStays ==
  ASSUME ChainInv, ChainKept, NEW tx \in Txs, TxSound(tx)
  PROVE  TxSound(tx)'
<1>1. tx.at \in Nat /\ tx.epoch \in Int /\ next \in Nat /\ next' \in Nat
      /\ next <= next'
  BY DEF Txs, ChainInv, ChainOK, ChainKept, Forward
<1>2. tx.kind = "create" => tx.at <= next' /\ SettledBefore(tx.at)'
  BY <1>1, SettledStays DEF TxSound
<1>3. tx.kind = "tally" =>
        /\ tx.epoch < next'
        /\ ~Exists(tx.epoch)' \/ tx.at <= epochs'[tx.epoch].tallyIndex
  BY <1>1, CursorStays DEF TxSound
<1>4. tx.kind = "distribute" =>
        /\ tx.epoch < next'
        /\ ~Exists(tx.epoch)' \/ tx.at <= epochs'[tx.epoch].distributionIndex
  BY <1>1, CursorStays DEF TxSound
<1> QED BY <1>2, <1>3, <1>4 DEF TxSound

-----------------------------------------------------------------------------
(* A step of one call.                                                     *)

\* The type invariant contains its part about the chain.
LEMMA ChainPart ==
  ASSUME IInv PROVE ChainInv
BY DEF IInv, TypeOK, ChainOK, ChainInv

\* A step that changes nothing on chain keeps the chain sound.
LEMMA ChainRests ==
  ASSUME IInv, UNCHANGED <<clock, chain>>
  PROVE  ChainKept
<1>1. ChainInv
  BY ChainPart
<1>2. ChainOK' /\ clock <= clock' /\ UNCHANGED <<epochs, next>>
  BY <1>1 DEF chain, ChainInv, ChainOK, Exists
<1> QED BY <1>1, <1>2, OthersKeep

\* The transactions that were in flight stay sound.
LEMMA NetStays ==
  ASSUME IInv, ChainKept, inflight' \subseteq inflight
  PROVE  inflight' \subseteq Txs /\ \A tx \in inflight' : TxSound(tx)'
<1>1. ChainInv /\ inflight \subseteq Txs /\ \A tx \in inflight : TxSound(tx)
  BY ChainPart DEF IInv, TypeOK
<1>2. ASSUME NEW tx \in inflight' PROVE TxSound(tx)'
  BY <1>1, TxStays
<1> QED BY <1>1, <1>2

\* What remains to be shown of a step of cranker c: its own next decision.
LEMMA StepKeeps ==
  ASSUME IInv, ChainKept, NEW c \in Crankers,
         call' \in [Crankers -> Call],
         \A d \in Crankers \ {c} : call'[d] = call[d],
         CallSound(c)',
         inflight' \subseteq Txs, \A tx \in inflight' : TxSound(tx)',
         errors' \in Nat, throttled' \in [Crankers -> BOOLEAN]
  PROVE  IInv'
<1>1. ChainInv /\ call \in [Crankers -> Call]
      /\ \A d \in Crankers : CallSound(d)
  BY ChainPart DEF IInv, TypeOK
<1>2. ASSUME NEW d \in Crankers PROVE CallSound(d)'
  <2>1. CASE d = c
    BY <2>1
  <2>2. CASE d # c
    <3>1. call'[d] = call[d] /\ call[d] \in Call /\ CallSound(d)
      BY <1>1, <2>2
    <3> QED BY <1>1, <3>1, CallStays
  <2> QED BY <2>1, <2>2
<1>3. TypeOK' /\ NoFutureEpoch' /\ DoneIsOver'
  BY DEF ChainKept, ChainInv, ChainOK, TypeOK
<1> QED BY <1>2, <1>3 DEF IInv

\* What Goto does to the call of c, and to the calls of the others.
LEMMA GotoFacts ==
  ASSUME IInv, NEW c \in Crankers, NEW l \in Pcs, Goto(c, l)
  PROVE  /\ call' \in [Crankers -> Call]
         /\ \A d \in Crankers \ {c} : call'[d] = call[d]
         /\ call'[c].pc = l
         /\ l = "idle" => call'[c].index = 0
         /\ l # "idle" => /\ call'[c].index = call[c].index
                          /\ call'[c].now = call[c].now
                          /\ call'[c].cursor = 0
<1>1. call \in [Crankers -> Call] /\ call[c] \in Call
  BY DEF IInv, TypeOK
<1>2. NoCall \in Call /\ NoCall.pc = "idle" /\ NoCall.index = 0
  BY DEF NoCall, Call, Pcs
<1>3. CASE l = "idle"
  BY <1>1, <1>2, <1>3 DEF Goto
<1>4. CASE l # "idle"
  <2>1. call' = [call EXCEPT ![c] =
                   [call[c] EXCEPT !.pc = l, !.cursor = 0, !.batch = {}]]
    BY <1>1, <1>4 DEF Goto
  <2>2. [call[c] EXCEPT !.pc = l, !.cursor = 0, !.batch = {}] \in Call
    BY <1>1 DEF Call
  <2> QED BY <1>1, <1>4, <2>1, <2>2 DEF Call
<1> QED BY <1>3, <1>4

\* What GotoWith does to the call of c, and to the calls of the others.
LEMMA GotoWithFacts ==
  ASSUME IInv, NEW c \in Crankers, NEW l \in Pcs, NEW cur \in Nat,
         NEW obs \in SUBSET Observers, GotoWith(c, l, cur, obs)
  PROVE  /\ call' \in [Crankers -> Call]
         /\ \A d \in Crankers \ {c} : call'[d] = call[d]
         /\ call'[c].pc = l
         /\ call'[c].index = call[c].index
         /\ call'[c].now = call[c].now
         /\ call'[c].cursor = cur
<1>1. call \in [Crankers -> Call] /\ call[c] \in Call
  BY DEF IInv, TypeOK
<1>2. call' = [call EXCEPT ![c] =
                 [call[c] EXCEPT !.pc = l, !.cursor = cur, !.batch = obs]]
  BY <1>1 DEF GotoWith
<1>3. [call[c] EXCEPT !.pc = l, !.cursor = cur, !.batch = obs] \in Call
  BY <1>1 DEF Call
<1> QED BY <1>1, <1>2, <1>3 DEF Call

\* A call that goes on to a step for which nothing but a settled live epoch
\* has to hold.
Plain == {"epoch", "predict", "prescribe"}
SettledPcs == (AfterDone \ {"closeEpoch"}) \cup {"create", "sendCreate"}

\* A call that goes on to l holds sound decisions if l needs none, or needs
\* only the live epoch to be settled and the call has seen that it is.
LEMMA GoesOn ==
  ASSUME IInv, ChainKept, NEW c \in Crankers, NEW l \in Pcs,
         call'[c].pc = l, call'[c].index \in Nat, call'[c].now \in Int,
         l # "idle" => call'[c].index = call[c].index,
         l = "idle" => call'[c].index = 0,
         \/ l \in {"idle"} \cup Plain
         \/ /\ l \in SettledPcs \cup {"arns", "tail"}
            /\ SettledBefore(call[c].index)
            /\ l \in ClosePcs => call[c].index > 0
         \/ /\ l \in {"arns", "tail"}
            /\ call'[c].now >= End(Target(c)) => SettledBefore(call[c].index)
  PROVE  CallSound(c)'
<1>1. /\ ChainInv /\ call[c] \in Call /\ call[c].index <= next
      /\ next \in Nat /\ next' \in Nat /\ next <= next'
  BY ChainPart
  DEF IInv, TypeOK, CallSound, ChainInv, ChainOK, ChainKept, Forward
<1>2. call[c].index \in Nat /\ call'[c].index <= next'
  BY <1>1 DEF Call
<1>3. SettledBefore(call[c].index) /\ l # "idle"
        => SettledBefore(call[c].index)'
  <2> SUFFICES ASSUME SettledBefore(call[c].index), l # "idle"
               PROVE  SettledBefore(call[c].index)'
    OBVIOUS
  <2>1. PICK i \in Nat : i = call[c].index /\ i = call'[c].index
    BY <1>2
  <2>2. i <= next /\ SettledBefore(i)
    BY <1>1, <2>1 DEF SettledBefore
  <2>3. SettledBefore(i)'
    BY <1>1, <2>2, SettledStays
  <2> QED BY <2>1, <2>3 DEF SettledBefore
<1>4. l # "idle" => End(Target(c))' = End(Target(c))
  BY DEF Target, End, Start
<1> QED
  BY <1>2, <1>3, <1>4
  DEF CallSound, SettledPcs, AfterDone, ClosePcs, Plain

\* Sending a transaction that is sound for the chain the call has read.
LEMMA SendKeeps ==
  ASSUME IInv, NEW c \in Crankers, NEW tx \in Txs, TxSound(tx),
         NEW l, Send(c, tx, l),
         l = "idle" \/ (l = "compound" /\ SettledBefore(call[c].index)),
         UNCHANGED <<clock, throttled>>
  PROVE  IInv'
<1>1. /\ ChainInv /\ call \in [Crankers -> Call] /\ errors \in Nat
      /\ throttled' \in [Crankers -> BOOLEAN]
      /\ inflight \subseteq Txs
  BY ChainPart DEF IInv, TypeOK
<1>2. l \in Pcs /\ "idle" \in Pcs
  BY DEF Pcs
<1>3. ASSUME ChainKept, NEW m, m = "idle" \/ m = l, Goto(c, m),
             inflight' \subseteq Txs, \A t \in inflight' : TxSound(t)',
             errors' \in Nat
      PROVE  IInv'
  <2>1. m \in Pcs
    BY <1>2, <1>3
  <2>2. /\ call' \in [Crankers -> Call]
        /\ \A d \in Crankers \ {c} : call'[d] = call[d]
        /\ call'[c].pc = m
        /\ m = "idle" => call'[c].index = 0
        /\ m # "idle" => call'[c].index = call[c].index
    BY <1>3, <2>1, GotoFacts
  <2>3. call'[c].index \in Nat /\ call'[c].now \in Int
    BY <2>2 DEF Call
  <2>4. CallSound(c)'
    <3>1. CASE m = "idle"
      BY <3>1, <1>3, <2>1, <2>2, <2>3, GoesOn
    <3>2. CASE m = "compound" /\ SettledBefore(call[c].index)
      <4>1. m \in SettledPcs /\ m \notin ClosePcs
        BY <3>2 DEF SettledPcs, AfterDone, ClosePcs
      <4> QED BY <3>2, <4>1, <1>3, <2>1, <2>2, <2>3, GoesOn
    <3> QED BY <1>3, <3>1, <3>2
  <2> QED BY <1>1, <1>3, <2>2, <2>4, StepKeeps
<1>4. CASE Apply(tx) /\ Goto(c, "idle") /\ UNCHANGED net
  <2>1. ChainKept
    BY <1>1, <1>4, ApplyKeeps
  <2>2. inflight' = inflight /\ errors' \in Nat
    BY <1>1, <1>4 DEF net
  <2>3. inflight' \subseteq Txs /\ \A t \in inflight' : TxSound(t)'
    BY <2>1, <2>2, NetStays
  <2> QED BY <1>3, <1>4, <2>1, <2>2, <2>3
<1>5. CASE Goto(c, l) /\ UNCHANGED <<chain, net>>
  <2>1. ChainKept
    BY <1>5, ChainRests
  <2>2. inflight' = inflight /\ errors' \in Nat
    BY <1>1, <1>5 DEF net
  <2>3. inflight' \subseteq Txs /\ \A t \in inflight' : TxSound(t)'
    BY <2>1, <2>2, NetStays
  <2> QED BY <1>3, <1>5, <2>1, <2>2, <2>3
<1>6. CASE /\ inflight' = inflight \cup {tx} /\ errors' = errors + 1
           /\ Goto(c, l) /\ UNCHANGED chain
  <2>1. ChainKept
    BY <1>6, ChainRests
  <2>2. inflight' \subseteq Txs /\ errors' \in Nat
    BY <1>1, <1>6
  <2>3. ASSUME NEW t \in inflight' PROVE TxSound(t)'
    <3>1. TxSound(t) /\ t \in Txs
      BY <1>1, <1>6, <2>3 DEF IInv
    <3> QED BY <1>1, <2>1, <3>1, TxStays
  <2> QED BY <1>3, <1>6, <2>1, <2>2, <2>3
<1> QED BY <1>4, <1>5, <1>6 DEF Send

-----------------------------------------------------------------------------
(* Every step of the system keeps the invariant.                           *)

\* A step that only reads.
LEMMA ReadKeeps ==
  ASSUME IInv, NEW c \in Crankers,
         call' \in [Crankers -> Call],
         \A d \in Crankers \ {c} : call'[d] = call[d],
         CallSound(c)',
         UNCHANGED <<clock, chain, inflight, throttled>>, errors' \in Nat
  PROVE  IInv'
<1>1. ChainKept
  BY ChainRests
<1>2. inflight' \subseteq Txs /\ \A tx \in inflight' : TxSound(tx)'
  BY <1>1, NetStays
<1>3. throttled' \in [Crankers -> BOOLEAN]
  BY DEF IInv, TypeOK
<1> QED BY <1>1, <1>2, <1>3, StepKeeps

\* A step that only reads and goes on to l.
LEMMA GotoKeeps ==
  ASSUME IInv, NEW c \in Crankers, NEW l \in Pcs, Goto(c, l),
         \/ l \in {"idle"} \cup Plain
         \/ /\ l \in SettledPcs \cup {"arns", "tail"}
            /\ SettledBefore(call[c].index)
            /\ l \in ClosePcs => call[c].index > 0
         \/ /\ l \in {"arns", "tail"}
            /\ call[c].now >= End(Target(c)) => SettledBefore(call[c].index),
         UNCHANGED <<clock, chain, inflight, throttled>>, errors' \in Nat
  PROVE  IInv'
<1>1. ChainKept
  BY ChainRests
<1>2. /\ call' \in [Crankers -> Call]
      /\ \A d \in Crankers \ {c} : call'[d] = call[d]
      /\ call'[c].pc = l
      /\ l = "idle" => call'[c].index = 0
      /\ l # "idle" => /\ call'[c].index = call[c].index
                       /\ call'[c].now = call[c].now
  BY GotoFacts
<1>3. call'[c].index \in Nat /\ call'[c].now \in Int
  BY <1>2 DEF Call
<1>4. l \in {"arns", "tail"} => l # "idle"
  OBVIOUS
<1>5. CallSound(c)'
  BY <1>1, <1>2, <1>3, <1>4, GoesOn
<1> QED BY <1>2, <1>5, ReadKeeps

\* A step that only reads and goes on to l with a cursor and a batch.
LEMMA GotoWithKeeps ==
  ASSUME IInv, NEW c \in Crankers, NEW l \in Pcs, NEW cur \in Nat,
         NEW obs \in SUBSET Observers, GotoWith(c, l, cur, obs),
         \/ l \in Plain
         \/ /\ l \in SettledPcs \cup {"arns", "tail"}
            /\ SettledBefore(call[c].index)
            /\ l \in ClosePcs => call[c].index > 0
         \/ /\ l \in {"arns", "tail"}
            /\ call[c].now >= End(Target(c)) => SettledBefore(call[c].index),
         UNCHANGED <<clock, chain, inflight, throttled>>, errors' \in Nat
  PROVE  IInv'
<1>1. ChainKept
  BY ChainRests
<1>2. /\ call' \in [Crankers -> Call]
      /\ \A d \in Crankers \ {c} : call'[d] = call[d]
      /\ call'[c].pc = l
      /\ call'[c].index = call[c].index
      /\ call'[c].now = call[c].now
  BY GotoWithFacts
<1>3. call'[c].index \in Nat /\ call'[c].now \in Int
  BY <1>2 DEF Call
<1>4. l # "idle"
  BY DEF Plain, SettledPcs, AfterDone, ClosePcs
<1>5. CallSound(c)'
  BY <1>1, <1>2, <1>3, <1>4, GoesOn
<1> QED BY <1>2, <1>5, ReadKeeps

\* The facts about a call every step starts from.
LEMMA CallFacts ==
  ASSUME IInv, NEW c \in Crankers
  PROVE  /\ ChainInv /\ CallSound(c) /\ call[c] \in Call
         /\ call[c].index \in Nat /\ call[c].cursor \in Nat
         /\ call[c].now \in Int /\ call[c].batch \in SUBSET Observers
         /\ next \in Nat /\ clock \in Nat /\ errors \in Nat
         /\ Target(c) \in Nat /\ CloseTarget(c) \in Int
         /\ call[c].index > 0 => Target(c) = call[c].index - 1
<1>1. call[c] \in Call /\ CallSound(c)
  BY DEF IInv, TypeOK
<1>2. ChainInv
  BY ChainPart
<1>3. Retention \in Nat
  BY EpochAssumption
<1> QED
  BY <1>1, <1>2, <1>3
  DEF Call, IInv, TypeOK, Target, CloseTarget

\* ReadSettings takes the index that is next, so it decides nothing yet.
LEMMA ReadSettingsKeeps ==
  ASSUME IInv, NEW c \in Crankers, ReadSettings(c)
  PROVE  IInv'
<1>1. PICK s \in Skews :
        call' = [call EXCEPT ![c] = [NoCall EXCEPT !.pc = "epoch",
                                                   !.now = clock + s,
                                                   !.index = next]]
  BY DEF ReadSettings
<1>2. call \in [Crankers -> Call] /\ s \in Int /\ clock \in Nat /\ next \in Nat
  BY EpochAssumption DEF IInv, TypeOK
<1>3. [NoCall EXCEPT !.pc = "epoch", !.now = clock + s, !.index = next] \in Call
  <2>1. NoCall \in Call /\ "epoch" \in Pcs
    BY DEF NoCall, Call, Pcs
  <2>2. clock + s \in Int
    BY <1>2
  <2> QED BY <1>2, <2>1, <2>2 DEF Call
<1>4. /\ call' \in [Crankers -> Call]
      /\ \A d \in Crankers \ {c} : call'[d] = call[d]
      /\ call'[c].pc = "epoch" /\ call'[c].index = next
  BY <1>1, <1>2, <1>3 DEF NoCall
<1>5. UNCHANGED <<clock, chain, inflight, throttled>> /\ UNCHANGED next
      /\ errors' = errors /\ errors' \in Nat
  BY DEF ReadSettings, net, chain, IInv, TypeOK
<1>6. CallSound(c)'
  BY <1>2, <1>4, <1>5 DEF CallSound, AfterDone, ClosePcs
<1> QED BY <1>4, <1>5, <1>6, ReadKeeps

\* ReadEpoch decides from the account it reads, at the state it reads it in.
LEMMA ReadEpochKeeps ==
  ASSUME IInv, NEW c \in Crankers, ReadEpoch(c)
  PROVE  IInv'
<1> DEFINE k == Target(c)
           e == epochs[k]
           l == StepFor(c, e)
<1>1. /\ ChainInv /\ CallSound(c) /\ call[c].index \in Nat
      /\ call[c].now \in Int /\ k \in Nat /\ next \in Nat
      /\ call[c].index > 0 => k = call[c].index - 1
      /\ End(k) \in Int /\ Retention \in Nat \ {0}
  BY CallFacts, EpochAssumption DEF End, Start
<1>2. UNCHANGED <<clock, chain, inflight, throttled>> /\ errors' \in Nat
      /\ UNCHANGED <<epochs, next>>
  BY DEF ReadEpoch, net, chain, IInv, TypeOK
<1>3. CASE Exists(k)
  <2>1. e \in Epoch /\ k \in EpochIds /\ k < next
    BY <1>1, <1>3
    DEF Exists, ChainInv, ChainOK, NoFutureEpoch, EpochIds
  <2>2. GotoWith(c, l, CursorFor(l, e), {})
    BY <1>3 DEF ReadEpoch
  <2>3. l \in Pcs /\ CursorFor(l, e) \in Nat /\ {} \in SUBSET Observers
    BY <2>1 DEF StepFor, CursorFor, Epoch, Pcs, ClosePcs
  <2>4. CASE l \in {"tally", "distribute"}
    <3>1. /\ call' \in [Crankers -> Call]
          /\ \A d \in Crankers \ {c} : call'[d] = call[d]
          /\ call'[c].pc = l /\ call'[c].index = call[c].index
          /\ call'[c].cursor = CursorFor(l, e)
      BY <2>2, <2>3, GotoWithFacts
    <3>2. /\ l = "tally" => call'[c].cursor = e.tallyIndex
          /\ l = "distribute" => call'[c].cursor = e.distributionIndex
          /\ e.tallyIndex \in Nat /\ e.distributionIndex \in Nat
      BY <2>1, <3>1 DEF CursorFor, Epoch
    <3>3. Target(c)' = k
      BY <3>1 DEF Target
    <3>4. CallSound(c)'
      BY <1>1, <1>2, <2>1, <2>4, <3>1, <3>2, <3>3
      DEF CallSound, AfterDone, ClosePcs
    <3> QED BY <1>2, <3>1, <3>4, ReadKeeps
  <2>5. CASE l = "predict"
    BY <1>2, <2>2, <2>3, <2>5, GotoWithKeeps DEF Plain
  <2>6. CASE l = "arns"
    <3>1. call[c].now < End(k)
      BY <2>6 DEF StepFor
    <3>2. ~(call[c].now >= End(Target(c)))
      BY <1>1, <3>1
    <3> QED BY <1>2, <2>2, <2>3, <2>6, <3>2, GotoWithKeeps
  <2>7. CASE l \in {"close", "compound"}
    <3>1. Done(k)
      BY <1>3, <2>7 DEF StepFor, Done
    <3>2. SettledBefore(call[c].index)
      BY <1>1, <3>1 DEF SettledBefore
    <3>3. l = "close" => call[c].index > 0
      <4>1. l = "close" => k >= Retention
        BY <2>7 DEF StepFor
      <4> QED BY <1>1, <4>1 DEF Target
    <3>4. l \in SettledPcs
      BY <2>7 DEF SettledPcs, AfterDone, ClosePcs
    <3>5. l \in ClosePcs => call[c].index > 0
      BY <2>7, <3>3 DEF ClosePcs
    <3> QED BY <1>2, <2>2, <2>3, <3>2, <3>4, <3>5, GotoWithKeeps
  <2> QED BY <2>4, <2>5, <2>6, <2>7 DEF StepFor
<1>4. CASE ~Exists(k)
  <2>1. Goto(c, ColdStart(c))
    BY <1>4 DEF ReadEpoch
  <2>2. SettledBefore(call[c].index)
    BY <1>1, <1>4 DEF SettledBefore
  <2>3. /\ ColdStart(c) \in {"idle", "create"} /\ ColdStart(c) \in Pcs
        /\ ColdStart(c) \notin ClosePcs
        /\ ColdStart(c) \in {"idle"} \/ ColdStart(c) \in SettledPcs
    BY DEF ColdStart, Pcs, SettledPcs, AfterDone, ClosePcs
  <2> QED BY <1>2, <2>1, <2>2, <2>3, GotoKeeps
<1> QED BY <1>3, <1>4

\* The fields of a transaction.
LEMMA TxFields ==
  ASSUME NEW kind \in Kinds, NEW k \in Int, NEW at \in Nat,
         NEW obs \in SUBSET Observers
  PROVE  /\ Tx(kind, k, at, obs) \in Txs
         /\ Tx(kind, k, at, obs).kind = kind
         /\ Tx(kind, k, at, obs).epoch = k
         /\ Tx(kind, k, at, obs).at = at
BY DEF Tx, Txs

\* The calls that send a transaction.
LEMMA SendsKeep ==
  ASSUME IInv, NEW c \in Crankers,
         \/ TallyWeights(c) \/ DistributeEpoch(c) \/ CloseObservations(c)
         \/ CloseEpoch(c) \/ CompoundDelegationRewards(c)
         \/ UpdateDemandFactor(c) \/ CreateEpoch(c)
  PROVE  IInv'
<1> USE DEF Kinds, At
<1>1. /\ CallSound(c) /\ call[c].index \in Nat /\ call[c].cursor \in Nat
      /\ call[c].batch \in SUBSET Observers
      /\ Target(c) \in Nat /\ CloseTarget(c) \in Int
      /\ {} \in SUBSET Observers /\ 0 \in Nat /\ 0 \in Int
  BY CallFacts
<1>2. call[c].pc \in ClosePcs => SettledBefore(call[c].index)
  BY <1>1 DEF CallSound, AfterDone
<1>3. CASE TallyWeights(c)
  <2> DEFINE tx == Tx("tally", Target(c), call[c].cursor, {})
  <2>1. tx \in Txs /\ tx.kind = "tally" /\ tx.epoch = Target(c)
        /\ tx.at = call[c].cursor
    BY <1>1, TxFields
  <2>2. Send(c, tx, "idle") /\ UNCHANGED <<clock, throttled>>
    BY <1>3 DEF TallyWeights
  <2> HIDE DEF tx
  <2>3. TxSound(tx)
    BY <1>1, <1>3, <2>1 DEF TallyWeights, TxSound, CallSound
  <2> QED BY <2>1, <2>2, <2>3, SendKeeps
<1>4. CASE DistributeEpoch(c)
  <2> DEFINE tx == Tx("distribute", Target(c), call[c].cursor, {})
  <2>1. tx \in Txs /\ tx.kind = "distribute" /\ tx.epoch = Target(c)
        /\ tx.at = call[c].cursor
    BY <1>1, TxFields
  <2>2. Send(c, tx, "idle") /\ UNCHANGED <<clock, throttled>>
    BY <1>4 DEF DistributeEpoch
  <2> HIDE DEF tx
  <2>3. TxSound(tx)
    BY <1>1, <1>4, <2>1 DEF DistributeEpoch, TxSound, CallSound
  <2> QED BY <2>1, <2>2, <2>3, SendKeeps
<1>5. CASE CloseObservations(c)
  <2> DEFINE tx == Tx("closeObservations", CloseTarget(c), 0, call[c].batch)
  <2>1. tx \in Txs /\ tx.kind = "closeObservations"
    BY <1>1, TxFields
  <2>2. Send(c, tx, "compound") /\ UNCHANGED <<clock, throttled>>
    BY <1>5 DEF CloseObservations
  <2> HIDE DEF tx
  <2>3. TxSound(tx)
    BY <1>1, <1>5, <2>1 DEF CloseObservations, TxSound, CallSound
  <2>4. SettledBefore(call[c].index)
    BY <1>2, <1>5 DEF CloseObservations, ClosePcs
  <2> QED BY <2>1, <2>2, <2>3, <2>4, SendKeeps
<1>6. CASE CloseEpoch(c)
  <2> DEFINE tx == Tx("closeEpoch", CloseTarget(c), 0, {})
  <2>1. tx \in Txs /\ tx.kind = "closeEpoch"
    BY <1>1, TxFields
  <2>2. Send(c, tx, "compound") /\ UNCHANGED <<clock, throttled>>
    BY <1>6 DEF CloseEpoch
  <2> HIDE DEF tx
  <2>3. TxSound(tx)
    BY <1>1, <1>6, <2>1 DEF CloseEpoch, TxSound, CallSound
  <2>4. SettledBefore(call[c].index)
    BY <1>2, <1>6 DEF CloseEpoch, ClosePcs
  <2> QED BY <2>1, <2>2, <2>3, <2>4, SendKeeps
<1>7. CASE CompoundDelegationRewards(c)
  <2> DEFINE tx == Tx("compound", 0, call[c].cursor, {})
  <2>1. tx \in Txs /\ tx.kind = "compound"
    BY <1>1 DEF Tx, Txs
  <2>2. Send(c, tx, "idle") /\ UNCHANGED <<clock, throttled>>
    BY <1>7 DEF CompoundDelegationRewards
  <2> HIDE DEF tx
  <2>3. TxSound(tx)
    BY <1>1, <1>7, <2>1 DEF CompoundDelegationRewards, TxSound, CallSound
  <2> QED BY <2>1, <2>2, <2>3, SendKeeps
<1>8. CASE UpdateDemandFactor(c)
  <2> DEFINE tx == Tx("factor", 0, 0, {})
  <2>1. tx \in Txs /\ tx.kind = "factor"
    <3>1. "factor" \in Kinds /\ 0 \in Nat /\ 0 \in Int
      OBVIOUS
    <3>2. {} \in SUBSET Observers
      OBVIOUS
    <3> QED BY <3>1, <3>2 DEF Tx, Txs
  <2>2. Send(c, tx, "idle") /\ UNCHANGED <<clock, throttled>>
    BY <1>8 DEF UpdateDemandFactor
  <2> HIDE DEF tx
  <2>3. TxSound(tx)
    BY <1>1, <1>8, <2>1 DEF UpdateDemandFactor, TxSound, CallSound
  <2> QED BY <2>1, <2>2, <2>3, SendKeeps
<1>9. CASE CreateEpoch(c)
  <2> DEFINE tx == Tx("create", call[c].cursor, call[c].index, {})
  <2>1. tx \in Txs /\ tx.kind = "create" /\ tx.epoch = call[c].cursor
        /\ tx.at = call[c].index
    BY <1>1, TxFields
  <2>2. Send(c, tx, "idle") /\ UNCHANGED <<clock, throttled>>
    BY <1>9 DEF CreateEpoch
  <2> HIDE DEF tx
  <2>3. TxSound(tx)
    BY <1>1, <1>9, <2>1 DEF CreateEpoch, TxSound, CallSound
  <2> QED BY <2>1, <2>2, <2>3, SendKeeps
<1> QED BY <1>3, <1>4, <1>5, <1>6, <1>7, <1>8, <1>9

\* A prescription, sent or predicted again, decides nothing else.
LEMMA PrescribeEpochKeeps ==
  ASSUME IInv, NEW c \in Crankers, PrescribeEpoch(c)
  PROVE  IInv'
<1> DEFINE tx == Tx("prescribe", Target(c), call[c].cursor, {})
<1>1. CASE Send(c, tx, "idle") /\ UNCHANGED <<clock, throttled>>
  <2>1. tx \in Txs /\ tx.kind = "prescribe"
    BY CallFacts, TxFields DEF Kinds
  <2> HIDE DEF tx
  <2>2. TxSound(tx)
    BY <2>1 DEF TxSound
  <2> QED BY <1>1, <2>1, <2>2, SendKeeps
<1>2. CASE /\ call' = [call EXCEPT ![c].pc = "predict", ![c].retried = TRUE,
                                   ![c].cursor = 0]
           /\ UNCHANGED <<clock, throttled>> /\ UNCHANGED <<chain, net>>
  <2>1. /\ call \in [Crankers -> Call] /\ call[c] \in Call
        /\ call[c].index \in Nat /\ errors \in Nat
    BY CallFacts DEF IInv, TypeOK
  <2>2. [call[c] EXCEPT !.pc = "predict", !.retried = TRUE, !.cursor = 0]
          \in Call
    BY <2>1 DEF Call, Pcs
  <2>3. /\ call' \in [Crankers -> Call]
        /\ \A d \in Crankers \ {c} : call'[d] = call[d]
        /\ call'[c].pc = "predict" /\ call'[c].index = call[c].index
    BY <1>2, <2>1, <2>2 DEF Call
  <2>4. call'[c].index \in Nat /\ call'[c].now \in Int
    BY <2>3 DEF Call
  <2>5. UNCHANGED <<clock, chain, inflight, throttled>> /\ errors' \in Nat
    BY <1>2, <2>1 DEF net
  <2>6. ChainKept
    BY <2>5, ChainRests
  <2>7. "predict" \in Pcs /\ "predict" \in Plain
    BY DEF Pcs, Plain
  <2>8. CallSound(c)'
    BY <2>3, <2>4, <2>6, <2>7, GoesOn
  <2> QED BY <2>3, <2>5, <2>8, ReadKeeps
<1> QED BY <1>1, <1>2 DEF PrescribeEpoch

\* The reads between the live epoch and the sends.
LEMMA ReadsKeep ==
  ASSUME IInv, NEW c \in Crankers,
         \/ Predict(c) \/ ReadObservers(c) \/ ReadDelegations(c)
         \/ ReadDemandFactor(c) \/ CreateOrIdle(c) \/ ReadIndexToCreate(c)
  PROVE  IInv'
<1> USE DEF Pcs, Plain, SettledPcs, AfterDone, ClosePcs
<1>1. /\ CallSound(c) /\ call[c].index \in Nat /\ call[c].now \in Int
      /\ next \in Nat /\ registry \in Nat /\ Target(c) \in Nat
      /\ End(Target(c)) \in Int
  BY CallFacts, EpochAssumption DEF IInv, TypeOK, End, Start
<1>2. UNCHANGED <<clock, chain, inflight, throttled>> /\ errors' \in Nat
  BY DEF Predict, ReadObservers, ReadDelegations, ReadDemandFactor,
         CreateOrIdle, ReadIndexToCreate, net, IInv, TypeOK
<1>3. CASE Predict(c)
  BY <1>1, <1>2, <1>3, GotoWithKeeps DEF Predict
<1>4. CASE ReadObservers(c)
  <2>1. SettledBefore(call[c].index) /\ call[c].index > 0
    BY <1>1, <1>4 DEF ReadObservers, At, CallSound
  <2>2. CASE Goto(c, "compound")
    BY <1>2, <2>1, <2>2, GotoKeeps
  <2>3. CASE \E b \in SUBSET Observers :
               GotoWith(c, "closeObservations", 0, b)
    BY <1>2, <2>1, <2>3, GotoWithKeeps
  <2>4. LET k == CloseTarget(c)
            e == IF Exists(k) THEN epochs[k] ELSE NewEpoch(0)
        IN e.open \in SUBSET Observers
    <3>1. ChainInv
      BY ChainPart
    <3> QED BY <3>1, NewEpochType DEF Exists, ChainInv, ChainOK, Epoch
  <2> QED BY <1>4, <2>2, <2>3, <2>4 DEF ReadObservers, LiveObservers
<1>5. CASE ReadDelegations(c)
  <2>1. SettledBefore(call[c].index)
    BY <1>1, <1>5 DEF ReadDelegations, At, CallSound
  <2>2. CASE Goto(c, "factor")
    BY <1>2, <2>1, <2>2, GotoKeeps
  <2>3. CASE GotoWith(c, "sendCompound", IF ghost THEN 1 ELSE 0, {})
    BY <1>2, <2>1, <2>3, GotoWithKeeps
  <2> QED BY <1>5, <2>2, <2>3 DEF ReadDelegations
<1>6. CASE ReadDemandFactor(c)
  <2>1. SettledBefore(call[c].index)
    BY <1>1, <1>6 DEF ReadDemandFactor, At, CallSound
  <2>2. CASE Goto(c, "sendFactor")
    BY <1>2, <2>1, <2>2, GotoKeeps
  <2>3. CASE Goto(c, "arns")
    BY <1>2, <2>1, <2>3, GotoKeeps
  <2> QED BY <1>6, <2>2, <2>3 DEF ReadDemandFactor
<1>7. CASE CreateOrIdle(c)
  <2>1. CASE Goto(c, "idle")
    BY <1>2, <2>1, GotoKeeps
  <2>2. CASE Goto(c, "create") /\ ~(call[c].now < End(Target(c)))
    <3>1. SettledBefore(call[c].index)
      BY <1>1, <1>7, <2>2 DEF CreateOrIdle, At, CallSound
    <3> QED BY <1>2, <2>2, <3>1, GotoKeeps
  <2> QED BY <1>7, <2>1, <2>2 DEF CreateOrIdle
<1>8. CASE ReadIndexToCreate(c)
  <2>1. SettledBefore(call[c].index)
    BY <1>1, <1>8 DEF ReadIndexToCreate, At, CallSound
  <2>2. GotoWith(c, "sendCreate", next, {})
    BY <1>8 DEF ReadIndexToCreate
  <2> QED BY <1>1, <1>2, <2>1, <2>2, GotoWithKeeps
<1> QED BY <1>3, <1>4, <1>5, <1>6, <1>7, <1>8

\* ReadCloseTarget goes on to close only an epoch it finds fully counted.
LEMMA ReadCloseTargetKeeps ==
  ASSUME IInv, NEW c \in Crankers, ReadCloseTarget(c)
  PROVE  IInv'
<1> DEFINE k == CloseTarget(c)
           e == epochs[k]
<1>1. /\ ChainInv /\ CallSound(c) /\ call[c].index \in Nat
      /\ SettledBefore(call[c].index) /\ call[c].index > 0
  BY CallFacts DEF ReadCloseTarget, At, CallSound, AfterDone, ClosePcs
<1>2. UNCHANGED <<clock, chain, inflight, throttled>> /\ errors' \in Nat
      /\ UNCHANGED <<epochs, next>>
  BY DEF ReadCloseTarget, net, chain, IInv, TypeOK
<1>3. CASE Goto(c, "compound")
  BY <1>1, <1>2, <1>3, GotoKeeps DEF Pcs, SettledPcs, AfterDone, ClosePcs
<1>4. CASE Goto(c, "observers")
  BY <1>1, <1>2, <1>4, GotoKeeps DEF Pcs, SettledPcs, AfterDone, ClosePcs
<1>5. CASE /\ Goto(c, "closeEpoch") /\ Done(k)
           /\ ~(Cardinality(e.observed) > Cardinality(e.counted))
  <2>1. e \in Epoch /\ EpochOK(e)
    BY <1>1, <1>5 DEF Done, Exists, ChainInv, ChainOK
  <2>2. e.counted \subseteq e.observed /\ e.observed \subseteq Observers
    BY <2>1 DEF Epoch, EpochOK
  <2>3. IsFiniteSet(e.observed)
    BY <2>2, EpochAssumption, FS_Subset
  <2>4. e.counted = e.observed
    <3>1. Cardinality(e.observed) \in Nat /\ Cardinality(e.counted) \in Nat
      BY <2>2, <2>3, FS_Subset, FS_CardinalityType
    <3>2. Cardinality(e.counted) <= Cardinality(e.observed)
          /\ (Cardinality(e.counted) = Cardinality(e.observed)
                => e.counted = e.observed)
      BY <2>2, <2>3, FS_Subset
    <3> QED BY <1>5, <3>1, <3>2
  <2>5. /\ call' \in [Crankers -> Call]
        /\ \A d \in Crankers \ {c} : call'[d] = call[d]
        /\ call'[c].pc = "closeEpoch" /\ call'[c].index = call[c].index
    BY <1>5, GotoFacts DEF Pcs, ClosePcs
  <2>6. CloseTarget(c)' = k
    BY <2>5 DEF CloseTarget, Target
  <2>7. SettledBefore(call[c].index)' /\ Done(k)' /\ e' = e
    BY <1>1, <1>2, <1>5, <2>5, <2>6 DEF SettledBefore, Done, Exists
  <2>8. CallSound(c)'
    BY <1>1, <1>2, <2>4, <2>5, <2>6, <2>7 DEF CallSound, ClosePcs
  <2> QED BY <1>2, <2>5, <2>8, ReadKeeps
<1> QED BY <1>3, <1>4, <1>5 DEF ReadCloseTarget

\* The ArNS step keeps what the call knows of the live epoch.
LEMMA ArnsLifecycleKeeps ==
  ASSUME IInv, NEW c \in Crankers, ArnsLifecycleStep(c)
  PROVE  IInv'
<1>1. /\ ChainInv /\ CallSound(c) /\ At(c, "arns")
      /\ throttled' \in [Crankers -> BOOLEAN] /\ errors' \in Nat
      /\ backlog' \in Nat /\ inflight' = inflight
      /\ UNCHANGED <<clock, enabled, next, epochs, registry, orphans,
                     compoundDue, ghost, period>>
  BY CallFacts DEF ArnsLifecycleStep, net, IInv, TypeOK
<1>2. ChainKept
  <2>1. ChainOK' /\ clock <= clock'
    BY <1>1 DEF ChainInv, ChainOK, Exists
  <2> QED BY <1>1, <2>1, OthersKeep
<1>3. inflight' \subseteq Txs /\ \A tx \in inflight' : TxSound(tx)'
  BY <1>1, <1>2, NetStays
<1>4. PICK l \in {"tail", "idle"} : Goto(c, l)
  BY DEF ArnsLifecycleStep
<1>5. /\ l \in Pcs /\ call' \in [Crankers -> Call]
      /\ \A d \in Crankers \ {c} : call'[d] = call[d]
      /\ call'[c].pc = l
      /\ l = "idle" => call'[c].index = 0
      /\ l # "idle" => /\ call'[c].index = call[c].index
                       /\ call'[c].now = call[c].now
  BY <1>4, GotoFacts DEF Pcs
<1>6. call'[c].index \in Nat /\ call'[c].now \in Int
  BY <1>5 DEF Call
<1>7. call[c].now >= End(Target(c)) => SettledBefore(call[c].index)
  BY <1>1 DEF CallSound, At
<1>8. CallSound(c)'
  <2>1. CASE l = "idle"
    BY <1>2, <1>5, <1>6, <2>1, GoesOn
  <2>2. CASE l = "tail"
    <3>1. l \in {"arns", "tail"} /\ l # "idle"
      BY <2>2
    <3>2. call'[c].now >= End(Target(c)) => SettledBefore(call[c].index)
      BY <1>5, <1>7, <3>1
    <3> QED BY <1>2, <1>5, <1>6, <3>1, <3>2, GoesOn
  <2> QED BY <1>4, <2>1, <2>2
<1> QED BY <1>1, <1>2, <1>3, <1>5, <1>8, StepKeeps

\* A failure ends the call, or leaves the retention branch.
LEMMA RpcErrorKeeps ==
  ASSUME IInv, NEW c \in Crankers, RpcError(c)
  PROVE  IInv'
<1>1. /\ CallSound(c) /\ errors' \in Nat
      /\ UNCHANGED <<clock, chain, inflight, throttled>>
  BY CallFacts DEF RpcError
<1>2. CASE call[c].pc \in ClosePcs /\ Goto(c, "compound")
  <2>1. SettledBefore(call[c].index)
    BY <1>1, <1>2 DEF CallSound, AfterDone
  <2> QED
    BY <1>1, <1>2, <2>1, GotoKeeps DEF Pcs, SettledPcs, AfterDone, ClosePcs
<1>3. CASE Goto(c, "idle")
  BY <1>1, <1>3, GotoKeeps DEF Pcs
<1> QED BY <1>2, <1>3 DEF RpcError

\* The environment touches no call.
LEMMA EnvironmentKeeps ==
  ASSUME IInv, Environment
  PROVE  IInv'
<1>1. /\ ChainInv /\ TypeOK
  BY ChainPart DEF IInv
<1>2. /\ UNCHANGED call /\ inflight' \subseteq inflight /\ errors' \in Nat
      /\ throttled' \in [Crankers -> BOOLEAN]
  BY <1>1 DEF TypeOK, Environment, Tick, EnableEpochs, GatewaysChange,
     IndexCatchesUp, LandLate, SaveObservations, OrphanObservation, net
<1>3. ChainKept
  <2>1. ASSUME NEW tx \in inflight, LandLate(tx) PROVE ChainKept
    <3>1. CASE Apply(tx)
      BY <1>1, <2>1, <3>1, ApplyKeeps DEF LandLate
    <3>2. CASE UNCHANGED chain
      BY <2>1, <3>2, ChainRests DEF LandLate
    <3> QED BY <2>1, <3>1, <3>2 DEF LandLate
  <2>2. CASE Tick \/ EnableEpochs \/ GatewaysChange \/ IndexCatchesUp
    <3>1. /\ UNCHANGED <<epochs, next, orphans, compoundDue, period, backlog>>
          /\ clock' = clock \/ clock' = clock + 1
          /\ enabled' \in {enabled, TRUE} /\ ghost' \in {ghost, FALSE}
          /\ \/ registry' = registry
             \/ registry < MaxRegistryChanges /\ registry' = registry + 1
      BY <2>2 DEF Tick, EnableEpochs, GatewaysChange, IndexCatchesUp, chain
    <3>2. /\ clock' \in Nat /\ clock <= clock'
          /\ registry' \in 0..MaxRegistryChanges
          /\ next' \in Nat /\ orphans' \in Nat /\ period' \in Nat
          /\ backlog' \in Nat
      BY <1>1, <3>1, EpochAssumption DEF ChainInv, ChainOK
    <3>3. enabled' \in BOOLEAN /\ ghost' \in BOOLEAN /\ compoundDue' \in BOOLEAN
      BY <1>1, <3>1 DEF ChainInv, ChainOK
    <3>4. ChainOK'
      BY <1>1, <3>1, <3>2, <3>3 DEF ChainInv, ChainOK, Exists
    <3> QED BY <1>1, <3>1, <3>2, <3>4, OthersKeep
  <2> QED BY <1>1, <2>1, <2>2, SaveKeeps, OrphanKeeps DEF Environment
<1>4. inflight' \subseteq Txs /\ \A tx \in inflight' : TxSound(tx)'
  BY <1>2, <1>3, NetStays
<1>5. ASSUME NEW c \in Crankers PROVE CallSound(c)'
  <2>1. CallSound(c) /\ call[c] \in Call /\ call'[c] = call[c]
    BY <1>2, CallFacts
  <2> QED BY <1>1, <1>3, <2>1, CallStays
<1>6. TypeOK' /\ NoFutureEpoch' /\ DoneIsOver'
  BY <1>1, <1>2, <1>3, <1>4 DEF ChainKept, ChainInv, ChainOK, TypeOK
<1> QED BY <1>4, <1>5, <1>6 DEF IInv

-----------------------------------------------------------------------------
(* The theorems.                                                           *)

\* The inductive invariant holds at first.
LEMMA InitSound == Init => IInv
<1> SUFFICES ASSUME Init PROVE IInv
  OBVIOUS
<1> USE DEF Init
<1>1. \A k \in EpochIds : ~Exists(k)
  BY DEF Exists
<1>2. /\ next \in Nat /\ period \in Nat /\ backlog \in Nat
      /\ registry \in 0..MaxRegistryChanges
  BY EpochAssumption
<1>3. call \in [Crankers -> Call]
      /\ \A c \in Crankers : call[c].pc = "idle" /\ call[c].index = 0
  BY DEF NoCall, Call, Pcs
<1>4. TypeOK
  BY <1>1, <1>2, <1>3 DEF TypeOK
<1>5. \A c \in Crankers : CallSound(c)
  BY <1>2, <1>3 DEF CallSound, AfterDone, ClosePcs
<1> QED BY <1>1, <1>4, <1>5 DEF IInv, NoFutureEpoch, DoneIsOver, Done

\* Every step keeps the inductive invariant.
LEMMA NextSound == IInv /\ [Next]_vars => IInv'
<1> SUFFICES ASSUME IInv, [Next]_vars PROVE IInv'
  OBVIOUS
<1>1. ASSUME NEW c \in Crankers, CrankEpochStep(c) PROVE IInv'
  BY <1>1, ReadSettingsKeeps, ReadEpochKeeps, SendsKeep, PrescribeEpochKeeps,
     ReadsKeep, ReadCloseTargetKeeps, ArnsLifecycleKeeps
  DEF CrankEpochStep
<1>2. ASSUME NEW c \in Crankers, RpcError(c) PROVE IInv'
  BY <1>2, RpcErrorKeeps
<1>3. CASE Environment
  BY <1>3, EnvironmentKeeps
<1>4. CASE UNCHANGED vars
  <2>1. UNCHANGED <<clock, enabled, next, epochs, registry, orphans,
                    compoundDue, ghost, period, backlog, inflight, errors,
                    call, throttled>>
    BY <1>4 DEF vars, chain, net
  <2> QED
    BY <2>1
    DEF IInv, TypeOK, NoFutureEpoch, DoneIsOver, CallSound, TxSound, Exists,
        Done, SettledBefore, Target, CloseTarget, End, Start
<1> QED BY <1>1, <1>2, <1>3, <1>4 DEF Next

\* The inductive invariant: what the calls in progress and the transactions in
\* flight have decided is never contradicted by the chain.
THEOREM Invariance == Spec => []IInv
BY InitSound, NextSound, PTL DEF Spec

\* The accounts and calls of crankEpochStep stay well formed: no tally or
\* distribute cursor passes the stamped gateway count, each flag follows the
\* one before it, a counted observation was saved and is gone.
THEOREM TypeCorrectness == Spec => []TypeOK
<1>1. IInv => TypeOK
  BY DEF IInv
<1> QED BY <1>1, Invariance, PTL

\* A create_epoch decided for the current index never abandons an epoch half
\* way, whatever the interleaving, the lost sends and the clock skew.
THEOREM CreateDecisions == Spec => []CreateDecisionSound
<1>1. IInv => CreateDecisionSound
  <2> SUFFICES ASSUME IInv PROVE CreateDecisionSound
    OBVIOUS
  <2>1. next \in Nat
    BY DEF IInv, TypeOK
  <2>2. SettledBefore(next) => Settled(next)
    BY <2>1 DEF SettledBefore, Settled
  <2>3. ASSUME NEW c \in Crankers,
               call[c].pc \in {"create", "sendCreate"}, call[c].index = next
        PROVE  Settled(next)
    BY <2>2, <2>3 DEF IInv, CallSound
  <2>4. ASSUME NEW tx \in inflight, tx.kind = "create", tx.at = next
        PROVE  Settled(next)
    BY <2>2, <2>4 DEF IInv, TxSound
  <2> QED BY <2>3, <2>4 DEF CreateDecisionSound
<1> QED BY <1>1, Invariance, PTL

\* The retention branch of crankEpochStep sends close_epoch only for an epoch
\* the program lets go, or one another cranker has closed since.
THEOREM CloseDecisions == Spec => []CloseDecisionSound
<1>1. IInv => CloseDecisionSound
  <2> SUFFICES ASSUME IInv, NEW c \in Crankers, call[c].pc = "closeEpoch",
                      Exists(CloseTarget(c))
               PROVE  AcceptsCloseEpoch(Tx("closeEpoch", CloseTarget(c), 0, {}))
    BY DEF CloseDecisionSound
  <2>1. /\ Done(CloseTarget(c))
        /\ epochs[CloseTarget(c)].counted = epochs[CloseTarget(c)].observed
        /\ call[c].index > 0 /\ call[c].index <= next
    BY DEF IInv, CallSound, ClosePcs
  <2>2. CloseTarget(c) + Retention < next
    <3>1. /\ call[c].index \in Nat /\ next \in Nat /\ Retention \in Nat
          /\ Target(c) = call[c].index - 1
      BY <2>1, CallFacts, EpochAssumption
    <3> QED BY <2>1, <3>1 DEF CloseTarget
  <2> QED BY <2>1, <2>2 DEF AcceptsCloseEpoch, Tx
<1> QED BY <1>1, Invariance, PTL

\* No interleaving, retry or late landing makes a tally or a distribute batch
\* start beyond the position the chain has reached.
THEOREM Batches == Spec => []BatchNeverSkips
<1>1. IInv => BatchNeverSkips
  BY DEF IInv, CallSound, TxSound, BatchNeverSkips
<1> QED BY <1>1, Invariance, PTL

-----------------------------------------------------------------------------
(* A lone cranker whose sends are not lost implements the lifecycle.       *)

Alone == (\A c, d \in Crankers : c = d) /\ MaxLost = 0

\* No epoch but the live one is left half way.
OneLive == \A k \in EpochIds : Exists(k) => k + 1 = next \/ Done(k)

\* A call knows the index it acts for.
Orderly ==
  /\ inflight = {} /\ OneLive
  /\ \A c \in Crankers : /\ call[c].pc # "idle" => call[c].index = next
                         /\ call[c].pc = "sendCreate" => call[c].cursor = next

\* A step of the lifecycle, after which again one epoch at most is live.
Follows == OneLive' /\ [Lifecycle!Next]_(Lifecycle!vars)

PhaseNow == [k \in EpochIds |-> PhaseOf(epochs[k])]

LEMMA PhaseFacts ==
  /\ PhaseOf(NoEpoch) = "absent"
  /\ \A e \in Epoch :
       PhaseOf(e) = IF e.rewardsDistributed THEN "done"
                    ELSE IF e.prescriptionsDone THEN "observe"
                    ELSE IF e.weightsTallied THEN "prescribe" ELSE "tally"
BY NoEpochAssumption DEF PhaseOf

LEMMA PhaseChanges ==
  ASSUME ChainInv, NEW k \in EpochIds, NEW f, SetEpoch(k, f)
  PROVE  PhaseNow' = [PhaseNow EXCEPT ![k] = PhaseOf(f)]
<1>1. \A j \in EpochIds : epochs'[j] = IF j = k THEN f ELSE epochs[j]
  BY DEF SetEpoch, ChainInv, ChainOK
<1> QED BY <1>1 DEF PhaseNow

\* A step that leaves the epochs as they are.
LEMMA RestFollows ==
  ASSUME OneLive, UNCHANGED <<epochs, next>> PROVE Follows
BY DEF Follows, OneLive, Exists, Done, Lifecycle!vars

\* A change of an existing epoch that leaves its phase or moves it on by one.
LEMMA ChangeFollows ==
  ASSUME ChainInv, OneLive, NEW k, Exists(k), NEW f \in Epoch, SetEpoch(k, f),
         next' = next,
         \/ PhaseOf(f) = PhaseOf(epochs[k])
         \/ /\ PhaseOf(epochs[k]) \in DOMAIN Lifecycle!Successor
            /\ PhaseOf(f) = Lifecycle!Successor[PhaseOf(epochs[k])]
  PROVE  Follows
<1>1. k \in EpochIds /\ epochs[k] \in Epoch /\ epochs[k] # NoEpoch
  BY DEF Exists, ChainInv, ChainOK
<1>2. \A j \in EpochIds : epochs'[j] = IF j = k THEN f ELSE epochs[j]
  BY <1>1 DEF SetEpoch, ChainInv, ChainOK
<1>3. PhaseNow' = [PhaseNow EXCEPT ![k] = PhaseOf(f)] /\ PhaseNow[k] = PhaseOf(epochs[k])
  BY <1>1, PhaseChanges DEF PhaseNow
<1>4. Done(k) => f.rewardsDistributed
  <2> SUFFICES ASSUME epochs[k].rewardsDistributed PROVE f.rewardsDistributed
    BY DEF Done
  <2>1. PhaseOf(epochs[k]) = "done"
    BY <1>1, PhaseFacts
  <2>2. PhaseOf(f) = "done"
    BY <2>1 DEF Lifecycle!Successor
  <2> QED BY <2>2, PhaseFacts
<1>5. OneLive'
  <2> SUFFICES ASSUME NEW j \in EpochIds, Exists(j)' PROVE j + 1 = next' \/ Done(j)'
    BY DEF OneLive
  <2>1. Exists(j) /\ (j + 1 = next \/ Done(j))
    BY <1>1, <1>2 DEF Exists, OneLive
  <2> QED BY <1>2, <1>4, <2>1 DEF Done, Exists
<1>6. CASE PhaseOf(f) = PhaseOf(epochs[k])
  <2>1. PhaseNow' = PhaseNow
    BY <1>1, <1>3, <1>6 DEF PhaseNow
  <2> QED BY <1>5, <2>1 DEF Follows, Lifecycle!vars, PhaseNow
<1>7. CASE /\ PhaseOf(epochs[k]) \in DOMAIN Lifecycle!Successor
           /\ PhaseOf(f) = Lifecycle!Successor[PhaseOf(epochs[k])]
  <2>1. ~Done(k)
    <3>1. PhaseOf(epochs[k]) # "done"
      BY <1>7 DEF Lifecycle!Successor
    <3> QED BY <1>1, <3>1, PhaseFacts DEF Done
  <2>2. k + 1 = next
    BY <1>1, <2>1 DEF OneLive
  <2>3. PhaseNow' = [PhaseNow EXCEPT ![k] = Lifecycle!Successor[PhaseNow[k]]]
    BY <1>3, <1>7
  <2>4. Lifecycle!Advance(k)
    BY <1>3, <1>7, <2>2, <2>3 DEF Lifecycle!Advance, PhaseNow
  <2> QED BY <1>1, <1>5, <2>4 DEF Follows, Lifecycle!Next, Lifecycle!EpochIds, EpochIds
<1> QED BY <1>6, <1>7

LEMMA CreateFollows ==
  ASSUME ChainInv, OneLive, NEW tx, ApplyCreate(tx), SettledBefore(next)
  PROVE  Follows
<1> DEFINE n == Live
<1>0. n \in Nat
  BY LiveType
<1>1. SetEpoch(next, NewEpoch(n))
  BY DEF ApplyCreate
<1> HIDE DEF n
<1>2. next \in EpochIds /\ next' = next + 1 /\ next \in Nat
  BY DEF ApplyCreate, AcceptsCreate, ChainInv, ChainOK
<1> DEFINE f == NewEpoch(n)
<1>3. f \in Epoch /\ ~f.weightsTallied /\ ~f.prescriptionsDone /\ ~f.rewardsDistributed
  BY <1>0, NewEpochType DEF NewEpoch
<1>4. SetEpoch(next, f)
  BY <1>1
<1> HIDE DEF f
<1>5. \A j \in EpochIds : epochs'[j] = IF j = next THEN f ELSE epochs[j]
  BY <1>4 DEF SetEpoch, ChainInv, ChainOK
<1>6. PhaseNow' = [PhaseNow EXCEPT ![next] = "tally"]
  BY <1>2, <1>3, <1>4, PhaseChanges, PhaseFacts
<1>7. Lifecycle!LiveIsSettled
  <2> SUFFICES ASSUME next > 0 PROVE PhaseNow[next - 1] \in {"absent", "done"}
    BY DEF Lifecycle!LiveIsSettled, PhaseNow
  <2>1. next - 1 \in EpochIds /\ (~Exists(next - 1) \/ Done(next - 1))
    BY <1>2, EpochAssumption DEF SettledBefore, EpochIds
  <2>2. CASE ~Exists(next - 1)
    BY <2>1, <2>2, PhaseFacts DEF Exists, PhaseNow
  <2>3. CASE Done(next - 1)
    <3>1. epochs[next - 1] \in Epoch /\ epochs[next - 1].rewardsDistributed
      BY <2>1, <2>3 DEF Done, Exists, ChainInv, ChainOK
    <3> QED BY <2>1, <3>1, PhaseFacts DEF PhaseNow
  <2> QED BY <2>1, <2>2, <2>3
<1>8. OneLive'
  <2> SUFFICES ASSUME NEW j \in EpochIds, Exists(j)', j # next
               PROVE  Done(j)'
    BY <1>2 DEF OneLive
  <2>1. Exists(j) /\ (j + 1 = next \/ Done(j))
    BY <1>5 DEF Exists, OneLive
  <2>2. j \in Nat
    BY EpochAssumption DEF EpochIds
  <2>3. Done(j)
    BY <1>2, <2>1, <2>2 DEF SettledBefore
  <2> QED BY <1>5, <2>3 DEF Done, Exists
<1>9. Lifecycle!Create
  BY <1>2, <1>6, <1>7 DEF Lifecycle!Create, PhaseNow, EpochIds, Lifecycle!EpochIds
<1> QED BY <1>8, <1>9 DEF Follows, Lifecycle!Next

\* Every transaction that lands is a step of the lifecycle, a create if the
\* live epoch is settled.
LEMMA ApplyFollows ==
  ASSUME ChainInv, OneLive, NEW tx, Apply(tx), tx.kind = "create" => SettledBefore(next)
  PROVE  Follows
<1> DEFINE k == tx.epoch
           e == epochs[k]
<1>0. Exists(k) => e \in Epoch /\ EpochOK(e)
  BY DEF Exists, ChainInv, ChainOK
<1>1. CASE ApplyCreate(tx)
  BY <1>1, CreateFollows DEF ApplyCreate, AcceptsCreate
<1>2. CASE ApplyTally(tx)
  <2> DEFINE i == Upto(e.tallyIndex, e.active)
             f == [e EXCEPT !.tallyIndex = i, !.weightsTallied = (i = e.active)]
  <2>1. Exists(k) /\ ~e.weightsTallied /\ SetEpoch(k, f) /\ next' = next
    BY <1>2 DEF ApplyTally, AcceptsTally
  <2> HIDE DEF e
  <2>2. e.tallyIndex \in Nat /\ e.active \in Nat /\ e.tallyIndex <= e.active
        /\ ~e.prescriptionsDone /\ ~e.rewardsDistributed
    BY <1>0, <2>1 DEF Epoch, EpochOK
  <2>3. i \in Nat /\ (i = e.active) \in BOOLEAN
    BY <2>2, UptoBounds
  <2> HIDE DEF i
  <2>4. f \in Epoch /\ ~f.prescriptionsDone /\ ~f.rewardsDistributed
    BY <1>0, <2>1, <2>2, <2>3 DEF Epoch
  <2> HIDE DEF f
  <2>5. PhaseOf(e) = "tally" /\ PhaseOf(f) \in {"tally", "prescribe"}
    BY <1>0, <2>1, <2>2, <2>4, PhaseFacts
  <2>6. Lifecycle!Successor["tally"] = "prescribe" /\ "tally" \in DOMAIN Lifecycle!Successor
    BY DEF Lifecycle!Successor
  <2> QED BY <2>1, <2>4, <2>5, <2>6, ChangeFollows DEF e
<1>3. CASE ApplyPrescribe(tx)
  <2> DEFINE f == [e EXCEPT !.prescriptionsDone = TRUE]
  <2>1. /\ Exists(k) /\ e.weightsTallied /\ ~e.prescriptionsDone
        /\ SetEpoch(k, f) /\ next' = next
    BY <1>3 DEF ApplyPrescribe, AcceptsPrescribe
  <2> HIDE DEF e
  <2>2. ~e.rewardsDistributed
    BY <1>0, <2>1 DEF EpochOK
  <2>3. f \in Epoch /\ f.prescriptionsDone /\ ~f.rewardsDistributed
    BY <1>0, <2>1, <2>2 DEF Epoch
  <2> HIDE DEF f
  <2>4. PhaseOf(e) = "prescribe" /\ PhaseOf(f) = "observe"
    BY <1>0, <2>1, <2>2, <2>3, PhaseFacts
  <2>5. Lifecycle!Successor["prescribe"] = "observe"
        /\ "prescribe" \in DOMAIN Lifecycle!Successor
    BY DEF Lifecycle!Successor
  <2> QED BY <2>1, <2>3, <2>4, <2>5, ChangeFollows DEF e
<1>4. CASE ApplyDistribute(tx)
  <2> DEFINE i == Upto(e.distributionIndex, e.active)
             last == (i = e.active)
             f == [e EXCEPT !.distributionIndex = i, !.rewardsDistributed = last]
  <2>1. /\ Exists(k) /\ e.prescriptionsDone /\ ~e.rewardsDistributed
        /\ SetEpoch(k, f) /\ next' = next
    BY <1>4 DEF ApplyDistribute, AcceptsDistribute
  <2> HIDE DEF e
  <2>2. e.distributionIndex \in Nat /\ e.active \in Nat /\ e.distributionIndex <= e.active
    BY <1>0, <2>1 DEF Epoch, EpochOK
  <2>3. i \in Nat /\ last \in BOOLEAN
    BY <2>2, UptoBounds
  <2> HIDE DEF last, i
  <2>4. f \in Epoch /\ f.prescriptionsDone
    BY <1>0, <2>1, <2>3 DEF Epoch
  <2> HIDE DEF f
  <2>5. PhaseOf(e) = "observe" /\ PhaseOf(f) \in {"observe", "done"}
    BY <1>0, <2>1, <2>4, PhaseFacts
  <2>6. Lifecycle!Successor["observe"] = "done" /\ "observe" \in DOMAIN Lifecycle!Successor
    BY DEF Lifecycle!Successor
  <2> QED BY <2>1, <2>4, <2>5, <2>6, ChangeFollows DEF e
<1>5. CASE ApplyCloseObservations(tx)
  <2> DEFINE f == [e EXCEPT !.open = @ \ tx.obs, !.counted = @ \cup tx.obs]
  <2>1. Exists(k) /\ tx.obs \subseteq e.open /\ SetEpoch(k, f) /\ next' = next
    BY <1>5 DEF ApplyCloseObservations, AcceptsCloseObservations
  <2> HIDE DEF e
  <2>2. /\ f \in Epoch /\ f.weightsTallied = e.weightsTallied
        /\ f.prescriptionsDone = e.prescriptionsDone
        /\ f.rewardsDistributed = e.rewardsDistributed
    BY <1>0, <2>1 DEF Epoch
  <2> HIDE DEF f
  <2>3. PhaseOf(f) = PhaseOf(e)
    BY <1>0, <2>1, <2>2, PhaseFacts
  <2> QED BY <2>1, <2>2, <2>3, ChangeFollows DEF e
<1>6. CASE ApplyCloseEpoch(tx)
  <2>1. Done(k) /\ Exists(k) /\ k + Retention < next /\ SetEpoch(k, NoEpoch) /\ next' = next
    BY <1>6 DEF ApplyCloseEpoch, AcceptsCloseEpoch, Done
  <2>2. k \in EpochIds /\ PhaseOf(e) = "done"
    BY <1>0, <2>1, PhaseFacts DEF Done, Exists
  <2>3. PhaseNow' = [PhaseNow EXCEPT ![k] = "absent"] /\ PhaseNow[k] = "done"
    BY <2>1, <2>2, PhaseChanges, PhaseFacts DEF PhaseNow
  <2>4. Lifecycle!Close(k)
    BY <2>1, <2>3 DEF Lifecycle!Close, PhaseNow
  <2>5. OneLive'
    <3>1. \A j \in EpochIds : epochs'[j] = IF j = k THEN NoEpoch ELSE epochs[j]
      BY <2>1 DEF SetEpoch, ChainInv, ChainOK
    <3> QED BY <2>1, <3>1 DEF OneLive, Exists, Done
  <2> QED BY <2>2, <2>4, <2>5 DEF Follows, Lifecycle!Next, Lifecycle!EpochIds, EpochIds
<1>7. CASE ApplyCompound(tx) \/ ApplyFactor(tx)
  BY <1>7, RestFollows DEF ApplyCompound, ApplyFactor
<1> QED BY <1>1, <1>2, <1>3, <1>4, <1>5, <1>6, <1>7 DEF Apply

\* What the observers do leaves the phases alone.
LEMMA ObserversFollow ==
  ASSUME ChainInv, OneLive, NEW k \in EpochIds, NEW o \in Observers,
         SaveObservations(k, o) \/ OrphanObservation(k, o)
  PROVE  Follows
<1> DEFINE e == epochs[k]
           f == [e EXCEPT !.observed = @ \cup {o}, !.open = @ \cup {o}]
           g == [e EXCEPT !.open = @ \ {o}]
<1>1. /\ Exists(k) /\ next' = next /\ e \in Epoch
      /\ SetEpoch(k, f) \/ SetEpoch(k, g)
  BY DEF SaveObservations, OrphanObservation, Done, Exists, ChainInv, ChainOK
<1> HIDE DEF e
<1>2. /\ f \in Epoch /\ f.weightsTallied = e.weightsTallied
      /\ f.prescriptionsDone = e.prescriptionsDone
      /\ f.rewardsDistributed = e.rewardsDistributed
  BY <1>1 DEF Epoch
<1>3. /\ g \in Epoch /\ g.weightsTallied = e.weightsTallied
      /\ g.prescriptionsDone = e.prescriptionsDone
      /\ g.rewardsDistributed = e.rewardsDistributed
  BY <1>1 DEF Epoch
<1> HIDE DEF f, g
<1>4. PhaseOf(f) = PhaseOf(e) /\ PhaseOf(g) = PhaseOf(e)
  BY <1>1, <1>2, <1>3, PhaseFacts
<1> QED BY <1>1, <1>2, <1>3, <1>4, ChangeFollows DEF e

\* A step of the lone cranker that only reads.
LEMMA ReadFollows ==
  ASSUME Alone, Orderly, NEW c \in Crankers, UNCHANGED <<epochs, next, inflight>>,
         call'[c].pc # "idle" => call'[c].index = next,
         call'[c].pc = "sendCreate" => call'[c].cursor = next
  PROVE  Orderly' /\ Follows
<1>1. Follows
  BY RestFollows DEF Orderly
<1> QED BY <1>1 DEF Orderly, Follows, Alone

LEMMA GotoFollows ==
  ASSUME Alone, IInv, Orderly, NEW c \in Crankers, call[c].pc # "idle",
         UNCHANGED <<epochs, next, inflight>>,
         NEW l \in Pcs \ {"sendCreate"}, Goto(c, l)
  PROVE  Orderly' /\ Follows
BY GotoFacts, ReadFollows DEF Orderly

LEMMA GotoWithFollows ==
  ASSUME Alone, IInv, Orderly, NEW c \in Crankers, call[c].pc # "idle",
         UNCHANGED <<epochs, next, inflight>>,
         NEW l \in Pcs, NEW cur \in Nat, NEW obs \in SUBSET Observers,
         GotoWith(c, l, cur, obs), l = "sendCreate" => cur = next
  PROVE  Orderly' /\ Follows
BY GotoWithFacts, ReadFollows DEF Orderly

\* A transaction is executed or rejected: none is lost.
LEMMA SendFollows ==
  ASSUME Alone, IInv, Orderly, NEW c \in Crankers, call[c].pc # "idle", NEW tx,
         tx.kind = "create" => SettledBefore(next),
         NEW l \in {"idle", "compound"}, Send(c, tx, l), clock' = clock
  PROVE  Orderly' /\ Follows
<1>1. CASE Apply(tx) /\ Goto(c, "idle") /\ UNCHANGED net
  <2>1. Follows
    BY <1>1, ChainPart, ApplyFollows DEF Orderly
  <2>2. call'[c].pc = "idle"
    BY <1>1, GotoFacts DEF Pcs
  <2> QED BY <1>1, <2>1, <2>2 DEF Orderly, Follows, Alone, net
<1>2. CASE Goto(c, l) /\ UNCHANGED <<chain, net>>
  BY <1>2, GotoFollows DEF chain, net, Pcs
<1>3. ~(Cardinality(inflight) < MaxLost)
  BY FS_EmptySet DEF Orderly, Alone
<1> QED BY <1>1, <1>2, <1>3 DEF Send

LEMMA SendsFollow ==
  ASSUME Alone, IInv, Orderly, NEW c \in Crankers,
         \/ TallyWeights(c) \/ DistributeEpoch(c) \/ CloseObservations(c)
         \/ CloseEpoch(c) \/ CompoundDelegationRewards(c)
         \/ UpdateDemandFactor(c) \/ CreateEpoch(c)
  PROVE  Orderly' /\ Follows
<1>1. call[c].pc # "idle" /\ clock' = clock
  BY DEF TallyWeights, DistributeEpoch, CloseObservations, CloseEpoch,
         CompoundDelegationRewards, UpdateDemandFactor, CreateEpoch, At
<1>2. CASE CreateEpoch(c)
  <2> DEFINE tx == Tx("create", call[c].cursor, call[c].index, {})
  <2>1. SettledBefore(next)
    BY <1>2 DEF CreateEpoch, At, IInv, CallSound, Orderly
  <2>2. Send(c, tx, "idle")
    BY <1>2 DEF CreateEpoch
  <2> HIDE DEF tx
  <2> QED BY <1>1, <2>1, <2>2, SendFollows
<1>3. ASSUME NEW kind \in Kinds \ {"create"}, NEW k, NEW at, NEW obs,
             NEW l \in {"idle", "compound"}, Send(c, Tx(kind, k, at, obs), l)
      PROVE  Orderly' /\ Follows
  <2> DEFINE tx == Tx(kind, k, at, obs)
  <2>1. tx.kind # "create"
    BY DEF Tx
  <2>2. Send(c, tx, l)
    BY <1>3
  <2> HIDE DEF tx
  <2> QED BY <1>1, <2>1, <2>2, SendFollows
<1> QED
  BY <1>2, <1>3
  DEF TallyWeights, DistributeEpoch, CloseObservations, CloseEpoch,
      CompoundDelegationRewards, UpdateDemandFactor, Kinds

LEMMA PrescribeFollows ==
  ASSUME Alone, IInv, Orderly, NEW c \in Crankers, PrescribeEpoch(c)
  PROVE  Orderly' /\ Follows
<1> DEFINE tx == Tx("prescribe", Target(c), call[c].cursor, {})
<1>1. call[c].pc # "idle" /\ clock' = clock /\ call[c].index = next
  BY DEF PrescribeEpoch, At, Orderly
<1>2. CASE Send(c, tx, "idle")
  <2>1. tx.kind # "create"
    BY DEF Tx
  <2> HIDE DEF tx
  <2> QED BY <1>1, <1>2, <2>1, SendFollows
<1>3. CASE /\ call' = [call EXCEPT ![c].pc = "predict", ![c].retried = TRUE,
                                   ![c].cursor = 0]
           /\ UNCHANGED <<chain, net>>
  <2>1. call \in [Crankers -> Call]
    BY DEF IInv, TypeOK
  <2>2. call'[c].pc = "predict" /\ call'[c].index = next
    BY <1>1, <1>3, <2>1 DEF Call
  <2> QED BY <1>3, <2>2, ReadFollows DEF chain, net
<1> QED BY <1>2, <1>3 DEF PrescribeEpoch

LEMMA ReadsFollow ==
  ASSUME Alone, IInv, Orderly, NEW c \in Crankers,
         \/ ReadSettings(c) \/ ReadEpoch(c) \/ Predict(c) \/ ReadCloseTarget(c)
         \/ ReadObservers(c) \/ ReadDelegations(c) \/ ReadDemandFactor(c)
         \/ ArnsLifecycleStep(c) \/ CreateOrIdle(c) \/ ReadIndexToCreate(c)
         \/ RpcError(c)
  PROVE  Orderly' /\ Follows
<1> USE DEF Pcs, ClosePcs
<1>1. UNCHANGED <<epochs, next, inflight>>
  BY DEF ReadSettings, ReadEpoch, Predict, ReadCloseTarget, ReadObservers,
         ReadDelegations, ReadDemandFactor, ArnsLifecycleStep, CreateOrIdle,
         ReadIndexToCreate, RpcError, chain, net
<1>2. CASE ReadSettings(c)
  <2>1. call'[c].index = next /\ call'[c].pc = "epoch"
    BY <1>2 DEF ReadSettings, NoCall, IInv, TypeOK
  <2> QED BY <1>1, <2>1, ReadFollows
<1>3. CASE ~ReadSettings(c)
  <2>1. call[c].pc # "idle"
    BY <1>3 DEF ReadEpoch, Predict, ReadCloseTarget, ReadObservers,
         ReadDelegations, ReadDemandFactor, ArnsLifecycleStep, CreateOrIdle,
         ReadIndexToCreate, RpcError, At
  <2>2. ASSUME NEW l \in Pcs \ {"sendCreate"}, Goto(c, l) PROVE Orderly' /\ Follows
    BY <1>1, <2>1, <2>2, GotoFollows
  <2>3. ASSUME NEW l \in Pcs, NEW cur \in Nat, NEW obs \in SUBSET Observers,
               GotoWith(c, l, cur, obs), l = "sendCreate" => cur = next
        PROVE  Orderly' /\ Follows
    BY <1>1, <2>1, <2>3, GotoWithFollows
  <2>4. /\ next \in Nat /\ registry \in Nat /\ {} \in SUBSET Observers
        /\ ChainInv
    BY ChainPart, EpochAssumption DEF IInv, TypeOK
  <2>5. CASE ReadEpoch(c)
    <3> DEFINE e == epochs[Target(c)]
               l == StepFor(c, e)
    <3>1. CASE Exists(Target(c))
      <4>1. e \in Epoch
        BY <2>4, <3>1 DEF Exists, ChainInv, ChainOK
      <4>2. GotoWith(c, l, CursorFor(l, e), {})
        BY <2>5, <3>1 DEF ReadEpoch
      <4> HIDE DEF e
      <4>3. l \in Pcs /\ l # "sendCreate"
        BY DEF StepFor
      <4> HIDE DEF l
      <4>4. CursorFor(l, e) \in Nat
        BY <4>1 DEF CursorFor, Epoch
      <4> QED BY <2>3, <2>4, <4>2, <4>3, <4>4
    <3>2. CASE ~Exists(Target(c))
      <4>1. Goto(c, ColdStart(c)) /\ ColdStart(c) \in {"idle", "create"}
        BY <2>5, <3>2 DEF ReadEpoch, ColdStart
      <4> QED BY <2>2, <4>1
    <3> QED BY <3>1, <3>2
  <2>6. CASE Predict(c)
    BY <2>3, <2>4, <2>6 DEF Predict
  <2>7. CASE ReadCloseTarget(c)
    BY <2>2, <2>7 DEF ReadCloseTarget
  <2>8. CASE ReadObservers(c)
    <3>1. LET k == CloseTarget(c)
              e == IF Exists(k) THEN epochs[k] ELSE NewEpoch(0)
          IN e.open \in SUBSET Observers
      BY <2>4, NewEpochType DEF Exists, ChainInv, ChainOK, Epoch
    <3>2. \/ Goto(c, "compound")
          \/ \E b \in SUBSET Observers : GotoWith(c, "closeObservations", 0, b)
      BY <2>8, <3>1 DEF ReadObservers, LiveObservers
    <3> QED BY <2>2, <2>3, <3>2
  <2>9. CASE ReadDelegations(c)
    BY <2>2, <2>3, <2>4, <2>9 DEF ReadDelegations
  <2>10. CASE ReadDemandFactor(c)
    BY <2>2, <2>10 DEF ReadDemandFactor
  <2>11. CASE ArnsLifecycleStep(c)
    BY <2>2, <2>11 DEF ArnsLifecycleStep
  <2>12. CASE CreateOrIdle(c)
    BY <2>2, <2>12 DEF CreateOrIdle
  <2>13. CASE ReadIndexToCreate(c)
    BY <2>3, <2>4, <2>13 DEF ReadIndexToCreate
  <2>14. CASE RpcError(c)
    BY <2>2, <2>14 DEF RpcError
  <2> QED BY <1>3, <2>5, <2>6, <2>7, <2>8, <2>9, <2>10, <2>11, <2>12, <2>13, <2>14
<1> QED BY <1>2, <1>3

LEMMA OrderlyInit == Init => Orderly /\ Lifecycle!Init
<1> SUFFICES ASSUME Init PROVE Orderly /\ Lifecycle!Init
  OBVIOUS
<1>1. \A k \in EpochIds : epochs[k] = NoEpoch /\ ~Exists(k)
  BY DEF Init, Exists
<1>2. Orderly
  BY <1>1 DEF Init, Orderly, OneLive, NoCall
<1>3. Lifecycle!Init
  BY <1>1, PhaseFacts DEF Init, Lifecycle!Init, EpochIds, Lifecycle!EpochIds
<1> QED BY <1>2, <1>3

LEMMA OrderlyStep ==
  ASSUME Alone
  PROVE  IInv /\ Orderly /\ [Next]_vars
           => Orderly' /\ [Lifecycle!Next]_(Lifecycle!vars)
<1> SUFFICES ASSUME IInv, Orderly, [Next]_vars PROVE Orderly' /\ Follows
  BY DEF Follows
<1>1. CASE UNCHANGED vars
  <2>1. UNCHANGED <<epochs, next, inflight, call>>
    BY <1>1 DEF vars, chain, net
  <2> QED BY <2>1, RestFollows DEF Orderly, Follows
<1>2. ASSUME NEW c \in Crankers, CrankEpochStep(c) \/ RpcError(c)
      PROVE  Orderly' /\ Follows
  BY <1>2, SendsFollow, PrescribeFollows, ReadsFollow DEF CrankEpochStep
<1>3. CASE Tick \/ EnableEpochs \/ GatewaysChange \/ IndexCatchesUp
  <2>1. UNCHANGED <<epochs, next, inflight, call>>
    BY <1>3 DEF Tick, EnableEpochs, GatewaysChange, IndexCatchesUp, chain, net
  <2> QED BY <2>1, RestFollows DEF Orderly, Follows
<1>4. ASSUME NEW k \in EpochIds, NEW o \in Observers,
             SaveObservations(k, o) \/ OrphanObservation(k, o)
      PROVE  Orderly' /\ Follows
  <2>1. Follows
    BY <1>4, ChainPart, ObserversFollow DEF Orderly
  <2>2. UNCHANGED <<next, inflight, call>>
    BY <1>4 DEF SaveObservations, OrphanObservation, net
  <2> QED BY <2>1, <2>2 DEF Orderly, Follows
<1>5. \A tx \in inflight : ~LandLate(tx)
  BY DEF Orderly
<1> QED BY <1>1, <1>2, <1>3, <1>4, <1>5 DEF Next, Environment

\* ImplementsLifecycle: whatever fails to be read or sent, whatever its clock
\* says, one cranker by itself takes the epochs through crankEpochStep in
\* order, each through all its phases, and closes none early.
THEOREM Implementation ==
  ASSUME Alone
  PROVE  Spec => ImplementsLifecycle
<1>1. Init => Orderly /\ Lifecycle!Init
  BY OrderlyInit
<1>2. IInv /\ Orderly /\ [Next]_vars
        => Orderly' /\ [Lifecycle!Next]_(Lifecycle!vars)
  BY OrderlyStep
<1> QED BY <1>1, <1>2, Invariance, PTL DEF Spec, ImplementsLifecycle, Lifecycle!Spec

-----------------------------------------------------------------------------
(* What a lone cranker reads is still so when it sends.                    *)

\* No clock is ahead, no observation is lost, and time ends before the last
\* epoch the model has room for.
Undisturbed ==
  /\ Alone /\ MaxOrphans = 0
  /\ \A s \in Skews : s <= 0
  /\ MaxClock < Start(LastEpoch + 1)

CallFresh(c) ==
  /\ call[c].pc # "idle" => call[c].now <= clock
  /\ call[c].pc = "tally" =>
       /\ Exists(Target(c)) /\ ~epochs[Target(c)].weightsTallied
       /\ epochs[Target(c)].tallyIndex = call[c].cursor
  /\ call[c].pc = "distribute" =>
       /\ Exists(Target(c)) /\ clock >= End(Target(c))
       /\ epochs[Target(c)].prescriptionsDone
       /\ ~epochs[Target(c)].rewardsDistributed
       /\ epochs[Target(c)].distributionIndex = call[c].cursor
  /\ call[c].pc \in {"create", "sendCreate"} => clock >= Start(next)
  /\ call[c].pc = "closeObservations" =>
       /\ Exists(CloseTarget(c))
       /\ call[c].batch \subseteq epochs[CloseTarget(c)].open

Fresh == clock <= MaxClock /\ \A c \in Crankers : CallFresh(c)

\* The steps for which a call needs nothing to be as it was.
Quiet == Pcs \ {"tally", "distribute", "closeObservations", "create", "sendCreate"}

LEMMA QuietFresh ==
  ASSUME Fresh, clock' = clock, NEW c \in Crankers, call'[c].pc \in Quiet,
         call'[c].pc # "idle" => call[c].pc # "idle" /\ call'[c].now = call[c].now
  PROVE  CallFresh(c)'
BY DEF CallFresh, Fresh, Quiet

LEMMA GotoFresh ==
  ASSUME IInv, Fresh, clock' = clock, NEW c \in Crankers, call[c].pc # "idle",
         NEW l \in Quiet, Goto(c, l)
  PROVE  CallFresh(c)'
BY GotoFacts, QuietFresh DEF Quiet

LEMMA GotoWithFresh ==
  ASSUME IInv, Fresh, clock' = clock, NEW c \in Crankers, call[c].pc # "idle",
         NEW l \in Quiet, NEW cur \in Nat, NEW obs \in SUBSET Observers,
         GotoWith(c, l, cur, obs)
  PROVE  CallFresh(c)'
BY GotoWithFacts, QuietFresh DEF Quiet

LEMMA SendFresh ==
  ASSUME IInv, Fresh, clock' = clock, NEW c \in Crankers, call[c].pc # "idle",
         NEW tx, NEW l \in {"idle", "compound"}, Send(c, tx, l)
  PROVE  CallFresh(c)'
<1>1. Goto(c, l) \/ Goto(c, "idle")
  BY DEF Send
<1> QED BY <1>1, GotoFresh DEF Quiet, Pcs

LEMMA SendsFresh ==
  ASSUME IInv, Fresh, NEW c \in Crankers,
         \/ TallyWeights(c) \/ DistributeEpoch(c) \/ CloseObservations(c)
         \/ CloseEpoch(c) \/ CompoundDelegationRewards(c)
         \/ UpdateDemandFactor(c) \/ CreateEpoch(c)
  PROVE  CallFresh(c)'
<1>1. call[c].pc # "idle" /\ clock' = clock
  BY DEF TallyWeights, DistributeEpoch, CloseObservations, CloseEpoch,
         CompoundDelegationRewards, UpdateDemandFactor, CreateEpoch, At
<1>2. ASSUME NEW tx, NEW l \in {"idle", "compound"}, Send(c, tx, l)
      PROVE  CallFresh(c)'
  BY <1>1, <1>2, SendFresh
<1> QED BY <1>2 DEF TallyWeights, DistributeEpoch, CloseObservations,
        CloseEpoch, CompoundDelegationRewards, UpdateDemandFactor, CreateEpoch

LEMMA PrescribeFresh ==
  ASSUME IInv, Fresh, NEW c \in Crankers, PrescribeEpoch(c)
  PROVE  CallFresh(c)'
<1>1. call[c].pc # "idle" /\ clock' = clock
  BY DEF PrescribeEpoch, At
<1>2. CASE \E tx : Send(c, tx, "idle")
  BY <1>1, <1>2, SendFresh
<1>3. CASE call' = [call EXCEPT ![c].pc = "predict", ![c].retried = TRUE,
                                ![c].cursor = 0]
  <2>1. call \in [Crankers -> Call]
    BY DEF IInv, TypeOK
  <2>2. call'[c].pc = "predict" /\ call'[c].now = call[c].now
    BY <1>3, <2>1 DEF Call
  <2> QED BY <1>1, <2>2, QuietFresh DEF Quiet, Pcs
<1> QED BY <1>2, <1>3 DEF PrescribeEpoch

LEMMA ReadEpochFresh ==
  ASSUME IInv, Orderly, Fresh, NEW c \in Crankers, ReadEpoch(c)
  PROVE  CallFresh(c)'
<1> DEFINE k == Target(c)
           e == epochs[k]
           l == StepFor(c, e)
<1>1. /\ call[c].pc # "idle" /\ call[c].index = next /\ call[c].now <= clock
      /\ UNCHANGED <<clock, epochs, next>>
  BY DEF ReadEpoch, At, Orderly, Fresh, CallFresh, chain
<1>2. /\ call[c].now \in Int /\ clock \in Nat /\ k \in Nat /\ next \in Nat
      /\ End(k) \in Int /\ Start(next) \in Int /\ ChainInv
  BY CallFacts, EpochAssumption DEF End, Start
<1>3. CASE Exists(k)
  <2>1. e \in Epoch
    BY <1>2, <1>3 DEF Exists, ChainInv, ChainOK
  <2>2. GotoWith(c, l, CursorFor(l, e), {})
    BY <1>3 DEF ReadEpoch
  <2>3. l \in Pcs /\ CursorFor(l, e) \in Nat /\ {} \in SUBSET Observers
    BY <2>1 DEF StepFor, CursorFor, Epoch, Pcs, ClosePcs
  <2>4. /\ call'[c].pc = l /\ call'[c].index = call[c].index
        /\ call'[c].now = call[c].now /\ call'[c].cursor = CursorFor(l, e)
    BY <2>2, <2>3, GotoWithFacts
  <2>5. Target(c)' = k
    BY <2>4 DEF Target
  <2>6. CASE l = "tally"
    <3>1. ~e.weightsTallied /\ call'[c].cursor = e.tallyIndex
      BY <2>4, <2>6 DEF StepFor, CursorFor
    <3> QED BY <1>1, <1>3, <2>4, <2>5, <2>6, <3>1 DEF CallFresh, Exists
  <2>7. CASE l = "distribute"
    <3>1. /\ e.prescriptionsDone /\ ~e.rewardsDistributed
          /\ ~(call[c].now < End(k)) /\ call'[c].cursor = e.distributionIndex
      BY <2>4, <2>7 DEF StepFor, CursorFor
    <3>2. clock >= End(k)
      BY <1>1, <1>2, <3>1
    <3>3. End(Target(c))' = End(k)
      BY <2>5 DEF End, Start
    <3> QED BY <1>1, <1>3, <2>4, <2>5, <2>7, <3>1, <3>2, <3>3 DEF CallFresh, Exists
  <2>8. CASE l \notin {"tally", "distribute"}
    <3>1. l \in Quiet
      BY <2>3, <2>8 DEF StepFor, Quiet
    <3> QED BY <1>1, <2>4, <3>1, QuietFresh
  <2> QED BY <2>6, <2>7, <2>8
<1>4. CASE ~Exists(k)
  <2>1. Goto(c, ColdStart(c))
    BY <1>4 DEF ReadEpoch
  <2>2. CASE call[c].now < Start(call[c].index)
    BY <1>1, <2>1, <2>2, GotoFresh DEF ColdStart, Quiet, Pcs
  <2>3. CASE ~(call[c].now < Start(call[c].index))
    <3>1. clock >= Start(next) /\ Start(next)' = Start(next)
      BY <1>1, <1>2, <2>3 DEF Start
    <3>2. call'[c].pc = "create" /\ call'[c].now = call[c].now
      BY <2>1, <2>3, GotoFacts DEF ColdStart, Pcs
    <3> QED BY <1>1, <3>1, <3>2 DEF CallFresh
  <2> QED BY <2>2, <2>3
<1> QED BY <1>3, <1>4

LEMMA ReadsFresh ==
  ASSUME Undisturbed, IInv, Orderly, Fresh, NEW c \in Crankers,
         \/ ReadSettings(c) \/ Predict(c) \/ ReadCloseTarget(c)
         \/ ReadObservers(c) \/ ReadDelegations(c) \/ ReadDemandFactor(c)
         \/ ArnsLifecycleStep(c) \/ CreateOrIdle(c) \/ ReadIndexToCreate(c)
         \/ RpcError(c)
  PROVE  CallFresh(c)'
<1> USE DEF Pcs, ClosePcs, Quiet
<1>1. UNCHANGED <<clock, epochs, next>>
  BY DEF ReadSettings, Predict, ReadCloseTarget, ReadObservers,
         ReadDelegations, ReadDemandFactor, ArnsLifecycleStep, CreateOrIdle,
         ReadIndexToCreate, RpcError, chain
<1>2. /\ call[c].now \in Int /\ clock \in Nat /\ next \in Nat /\ registry \in Nat
      /\ Start(next) \in Int /\ {} \in SUBSET Observers /\ ChainInv
      /\ call \in [Crankers -> Call]
  BY CallFacts, EpochAssumption DEF Start, IInv, TypeOK
<1>3. CASE ReadSettings(c)
  <2>1. PICK s \in Skews :
          call' = [call EXCEPT ![c] = [NoCall EXCEPT !.pc = "epoch",
                                                     !.now = clock + s,
                                                     !.index = next]]
    BY <1>3 DEF ReadSettings
  <2>2. call'[c].pc = "epoch" /\ call'[c].now = clock + s
    BY <1>2, <2>1 DEF NoCall
  <2>3. s \in Int /\ s <= 0
    BY EpochAssumption DEF Undisturbed
  <2>4. call'[c].now <= clock
    BY <1>2, <2>2, <2>3
  <2> QED BY <1>1, <2>2, <2>4 DEF CallFresh
<1>4. CASE ~ReadSettings(c)
  <2>1. call[c].pc # "idle" /\ clock' = clock /\ call[c].index = next
        /\ call[c].now <= clock
    BY <1>1, <1>4 DEF Predict, ReadCloseTarget, ReadObservers,
         ReadDelegations, ReadDemandFactor, ArnsLifecycleStep, CreateOrIdle,
         ReadIndexToCreate, RpcError, At, Orderly, Fresh, CallFresh
  <2>2. ASSUME NEW l \in Quiet, Goto(c, l) PROVE CallFresh(c)'
    BY <2>1, <2>2, GotoFresh
  <2>3. ASSUME NEW l \in Quiet, NEW cur \in Nat, GotoWith(c, l, cur, {})
        PROVE  CallFresh(c)'
    BY <1>2, <2>1, <2>3, GotoWithFresh
  <2>4. CASE Predict(c)
    BY <1>2, <2>3, <2>4 DEF Predict
  <2>5. CASE ReadCloseTarget(c)
    BY <2>2, <2>5 DEF ReadCloseTarget
  <2>6. CASE ReadObservers(c)
    <3>1. PICK k : k = CloseTarget(c)
      OBVIOUS
    <3>2. PICK e : e = IF Exists(k) THEN epochs[k] ELSE NewEpoch(0)
      OBVIOUS
    <3>3. \E ghosts \in SUBSET (e.observed \ e.open) :
            \/ Goto(c, "compound")
            \/ \E b \in (SUBSET ((e.open \cup ghosts) \cap e.open)) \ {{}} :
                 GotoWith(c, "closeObservations", 0, b)
      BY <2>6, <3>1, <3>2 DEF ReadObservers, LiveObservers
    <3>4. CASE Goto(c, "compound")
      BY <2>2, <3>4
    <3>5. ASSUME NEW b \in (SUBSET e.open) \ {{}},
                 GotoWith(c, "closeObservations", 0, b)
          PROVE  CallFresh(c)'
      <4>1. k \in EpochIds /\ epochs[k] # NoEpoch /\ b \subseteq epochs[k].open
        BY <3>2 DEF NewEpoch, Exists
      <4>2. call' = [call EXCEPT ![c] =
                [call[c] EXCEPT !.pc = "closeObservations", !.cursor = 0, !.batch = b]]
        BY <1>2, <3>5 DEF GotoWith
      <4>3. /\ call'[c].pc = "closeObservations" /\ call'[c].batch = b
            /\ call'[c].index = call[c].index /\ call'[c].now = call[c].now
        BY <1>2, <4>2 DEF Call
      <4>4. CloseTarget(c)' = k
        BY <3>1, <4>3 DEF CloseTarget, Target
      <4> QED BY <1>1, <2>1, <4>1, <4>3, <4>4 DEF CallFresh, Exists
    <3>6. ASSUME NEW ghosts, NEW b \in (SUBSET ((e.open \cup ghosts) \cap e.open)) \ {{}}
          PROVE  b \in (SUBSET e.open) \ {{}}
      <4>1. (e.open \cup ghosts) \cap e.open = e.open
        OBVIOUS
      <4> QED BY <4>1
    <3>7. \/ Goto(c, "compound")
          \/ \E b \in (SUBSET e.open) \ {{}} :
               GotoWith(c, "closeObservations", 0, b)
      BY ONLY <3>3, <3>6
    <3> QED BY <3>4, <3>5, <3>7
  <2>7. CASE ReadDelegations(c)
    BY <2>2, <2>3, <2>7 DEF ReadDelegations
  <2>8. CASE ReadDemandFactor(c)
    BY <2>2, <2>8 DEF ReadDemandFactor
  <2>9. CASE ArnsLifecycleStep(c)
    BY <2>2, <2>9 DEF ArnsLifecycleStep
  <2>10. CASE CreateOrIdle(c)
    <3>1. CASE Goto(c, "idle")
      BY <2>2, <3>1
    <3>2. CASE Goto(c, "create") /\ ~(call[c].now < Start(call[c].index))
      <4>1. call'[c].pc = "create" /\ call'[c].now = call[c].now
        BY <3>2, GotoFacts
      <4>2. clock >= Start(next) /\ Start(next)' = Start(next)
        BY <1>1, <1>2, <2>1, <3>2 DEF Start
      <4> QED BY <1>1, <2>1, <4>1, <4>2 DEF CallFresh
    <3> QED BY <2>10, <3>1, <3>2 DEF CreateOrIdle
  <2>11. CASE ReadIndexToCreate(c)
    <3>1. clock >= Start(next) /\ Start(next)' = Start(next)
      BY <1>1, <2>11 DEF ReadIndexToCreate, At, Fresh, CallFresh, Start
    <3>2. call'[c].pc = "sendCreate" /\ call'[c].now = call[c].now
      BY <1>2, <2>11, GotoWithFacts DEF ReadIndexToCreate
    <3> QED BY <1>1, <2>1, <3>1, <3>2 DEF CallFresh
  <2>12. CASE RpcError(c)
    BY <2>2, <2>12 DEF RpcError
  <2> QED BY <1>4, <2>4, <2>5, <2>6, <2>7, <2>8, <2>9, <2>10, <2>11, <2>12
<1> QED BY <1>3, <1>4

\* The environment moves no cursor and takes no observation away.
LEMMA EnvironmentFresh ==
  ASSUME Undisturbed, IInv, Orderly, Fresh, Environment
  PROVE  Fresh'
<1>1. call' = call /\ next' = next /\ ChainInv /\ clock \in Nat
  <2>1. \A tx \in inflight : ~LandLate(tx)
    BY DEF Orderly
  <2>2. UNCHANGED <<call, next>>
    BY <2>1 DEF Environment, Tick, EnableEpochs, GatewaysChange, IndexCatchesUp,
       SaveObservations, OrphanObservation, chain
  <2> QED BY <2>2, ChainPart DEF ChainInv, ChainOK
<1>2. clock <= clock' /\ clock' <= MaxClock /\ clock' \in Nat
  <2>1. CASE Tick
    BY <1>1, <2>1, EpochAssumption DEF Tick
  <2>2. CASE ~Tick
    <3>1. \A tx \in inflight : ~LandLate(tx)
      BY DEF Orderly
    <3>2. clock' = clock
      BY <2>2, <3>1 DEF Environment, EnableEpochs, GatewaysChange, IndexCatchesUp,
         SaveObservations, OrphanObservation
    <3> QED BY <1>1, <3>2 DEF Fresh
  <2> QED BY <2>1, <2>2
<1>3. ASSUME NEW k \in EpochIds, epochs[k] # NoEpoch
      PROVE  /\ epochs'[k] # NoEpoch
             /\ epochs'[k].weightsTallied = epochs[k].weightsTallied
             /\ epochs'[k].tallyIndex = epochs[k].tallyIndex
             /\ epochs'[k].prescriptionsDone = epochs[k].prescriptionsDone
             /\ epochs'[k].rewardsDistributed = epochs[k].rewardsDistributed
             /\ epochs'[k].distributionIndex = epochs[k].distributionIndex
             /\ epochs[k].open \subseteq epochs'[k].open
  <2>1. CASE \E j \in EpochIds, o \in Observers : SaveObservations(j, o)
    <3>1. PICK j \in EpochIds, o \in Observers : SaveObservations(j, o)
      BY <2>1
    <3>2. PICK f : f = [epochs[j] EXCEPT !.observed = @ \cup {o},
                                         !.open = @ \cup {o}]
      OBVIOUS
    <3>3. epochs' = [epochs EXCEPT ![j] = f] /\ epochs[j] # NoEpoch
      BY <3>1, <3>2 DEF SaveObservations, SetEpoch, Exists
    <3>4. epochs \in [EpochIds -> Epoch \cup {NoEpoch}] /\ epochs[j] \in Epoch
      BY <1>1, <3>3 DEF ChainInv, ChainOK
    <3>5. f \in Epoch
      BY <3>2, <3>4 DEF Epoch
    <3>6. f # NoEpoch
      BY <3>5, NoEpochAssumption
    <3>7. CASE k = j
      <4>1. epochs'[k] = f
        BY <3>3, <3>4, <3>7
      <4> QED BY <3>2, <3>4, <3>6, <3>7, <4>1 DEF Epoch
    <3>8. CASE k # j
      <4>1. epochs'[k] = epochs[k]
        BY <3>3, <3>4, <3>8
      <4> QED BY <1>3, <4>1
    <3> QED BY <3>7, <3>8
  <2>2. CASE ~\E j \in EpochIds, o \in Observers : SaveObservations(j, o)
    <3>1. \A tx \in inflight : ~LandLate(tx)
      BY DEF Orderly
    <3>2. \A j \in EpochIds, o \in Observers : ~OrphanObservation(j, o)
      BY <1>1 DEF OrphanObservation, Undisturbed, ChainInv, ChainOK
    <3>3. epochs' = epochs
      BY <2>2, <3>1, <3>2 DEF Environment, Tick, EnableEpochs, GatewaysChange,
         IndexCatchesUp, chain
    <3> QED BY <1>3, <3>3
  <2> QED BY <2>1, <2>2
<1>4. ASSUME NEW c \in Crankers PROVE CallFresh(c)'
  <2>1. /\ CallFresh(c) /\ call[c].now \in Int /\ Target(c) \in Nat
        /\ End(Target(c)) \in Int /\ Start(next) \in Int
    BY <1>1, CallFacts, EpochAssumption
    DEF Fresh, End, Start, ChainInv, ChainOK
  <2>2. /\ Target(c)' = Target(c) /\ CloseTarget(c)' = CloseTarget(c)
        /\ End(Target(c))' = End(Target(c)) /\ Start(next)' = Start(next)
    BY <1>1 DEF Target, CloseTarget, End, Start
  <2>3. call[c].pc # "idle" => call[c].now <= clock'
    BY <1>1, <1>2, <2>1 DEF CallFresh
  <2>4. clock >= End(Target(c)) => clock' >= End(Target(c))
    BY <1>1, <1>2, <2>1
  <2>5. clock >= Start(next) => clock' >= Start(next)
    BY <1>1, <1>2, <2>1
  <2>6. call[c].pc = "closeObservations" =>
          /\ CloseTarget(c) \in EpochIds /\ epochs'[CloseTarget(c)] # NoEpoch
          /\ call[c].batch \subseteq epochs'[CloseTarget(c)].open
    BY <1>3, <2>1 DEF CallFresh, Exists
  <2>7. Exists(Target(c)) => Exists(Target(c))'
    BY <1>3, <2>2 DEF Exists
  <2>8. call[c].pc = "tally" =>
          /\ Exists(Target(c))' /\ ~epochs'[Target(c)].weightsTallied
          /\ epochs'[Target(c)].tallyIndex = call[c].cursor
    BY <1>3, <2>1, <2>7 DEF CallFresh, Exists
  <2>9. call[c].pc = "distribute" =>
          /\ Exists(Target(c))' /\ clock' >= End(Target(c))
          /\ epochs'[Target(c)].prescriptionsDone
          /\ ~epochs'[Target(c)].rewardsDistributed
          /\ epochs'[Target(c)].distributionIndex = call[c].cursor
    BY <1>3, <2>1, <2>4, <2>7 DEF CallFresh, Exists
  <2> QED BY <1>1, <2>1, <2>2, <2>3, <2>5, <2>6, <2>8, <2>9 DEF CallFresh, Exists
<1> QED BY <1>2, <1>4 DEF Fresh

LEMMA FreshStep ==
  ASSUME Undisturbed
  PROVE  IInv /\ Orderly /\ Fresh /\ [Next]_vars => Fresh'
<1> SUFFICES ASSUME IInv, Orderly, Fresh, [Next]_vars PROVE Fresh'
  OBVIOUS
<1>1. ASSUME NEW c \in Crankers, CrankEpochStep(c) \/ RpcError(c)
      PROVE  Fresh'
  <2>1. CallFresh(c)'
    BY <1>1, SendsFresh, PrescribeFresh, ReadEpochFresh, ReadsFresh
    DEF CrankEpochStep
  <2>2. \A d \in Crankers : d = c
    BY DEF Undisturbed, Alone
  <2>3. clock' = clock
    BY <1>1 DEF CrankEpochStep, ReadSettings, ReadEpoch, TallyWeights, Predict,
       PrescribeEpoch, DistributeEpoch, ReadCloseTarget, ReadObservers,
       CloseObservations, CloseEpoch, ReadDelegations,
       CompoundDelegationRewards, ReadDemandFactor, UpdateDemandFactor,
       ArnsLifecycleStep, CreateOrIdle, ReadIndexToCreate, CreateEpoch, RpcError
  <2>4. \A d \in Crankers : CallFresh(d)'
    <3> TAKE d \in Crankers
    <3>1. d = c
      BY <2>2
    <3> QED BY <2>1, <3>1
  <2> QED BY <2>3, <2>4 DEF Fresh
<1>2. CASE Environment
  BY <1>2, EnvironmentFresh
<1>3. CASE UNCHANGED vars
  <2>1. UNCHANGED <<clock, next, epochs, call>>
    BY <1>3 DEF vars, chain
  <2> QED
    BY <2>1 DEF Fresh, CallFresh, Exists, Target, CloseTarget, End, Start
<1> QED BY <1>1, <1>2, <1>3 DEF Next

\* An epoch whose start has come by MaxClock is one there is room for.
LEMMA RoomForEpoch ==
  ASSUME Undisturbed, NEW n \in Nat, Start(n) <= MaxClock
  PROVE  n \in EpochIds
<1> SUFFICES ASSUME n > LastEpoch PROVE FALSE
  BY EpochAssumption DEF EpochIds
<1> DEFINE d == n - (LastEpoch + 1)
<1>1. d \in Nat /\ Duration \in Nat /\ MaxClock \in Nat /\ LastEpoch \in Nat
      /\ FirstEpoch \in Nat /\ StartDelay \in Nat
  BY EpochAssumption
<1>2. d * Duration \in Nat
  <2> HIDE DEF d
  <2> QED BY <1>1
<1>3. (n - FirstEpoch) * Duration
        = ((LastEpoch + 1) - FirstEpoch) * Duration + d * Duration
  BY <1>1
<1>4. ((LastEpoch + 1) - FirstEpoch) * Duration \in Int
  BY <1>1
<1> QED BY <1>1, <1>2, <1>3, <1>4 DEF Undisturbed, Start

\* SoloAccepted: an undisturbed cranker of crankEpochStep sends no tally,
\* distribute, close_observation or create_epoch that the program would
\* reject: the accounts it read one after the other are still as it read them.
THEOREM SoloDecisions ==
  ASSUME Undisturbed
  PROVE  Spec => []SoloAccepted
<1>1. Init => Orderly /\ Fresh
  <2> SUFFICES ASSUME Init PROVE Fresh
    BY OrderlyInit
  <2> QED BY EpochAssumption DEF Init, Fresh, CallFresh, NoCall
<1>2. IInv /\ Orderly /\ [Next]_vars => Orderly'
  BY OrderlyStep DEF Undisturbed
<1>3. IInv /\ Orderly /\ Fresh /\ [Next]_vars => Fresh'
  BY FreshStep
<1>4. IInv /\ Orderly /\ Fresh => SoloAccepted
  <2> SUFFICES ASSUME IInv, Orderly, Fresh, NEW c \in Crankers
               PROVE  /\ At(c, "tally") =>
                           Accepts(Tx("tally", Target(c), call[c].cursor, {}))
                      /\ At(c, "distribute") =>
                           Accepts(Tx("distribute", Target(c), call[c].cursor, {}))
                      /\ At(c, "sendCreate") =>
                           Accepts(Tx("create", call[c].cursor, call[c].index, {}))
                      /\ At(c, "closeObservations") =>
                           Accepts(Tx("closeObservations", CloseTarget(c), 0,
                                      call[c].batch))
    BY DEF SoloAccepted
  <2>1. CallFresh(c) /\ clock <= MaxClock
    BY DEF Fresh
  <2>2. At(c, "sendCreate") => call[c].cursor = next /\ next \in EpochIds
    <3> SUFFICES ASSUME At(c, "sendCreate") PROVE call[c].cursor = next /\ next \in EpochIds
      OBVIOUS
    <3>1. /\ call[c].cursor = next /\ next \in Nat /\ clock \in Nat
          /\ clock >= Start(next) /\ Start(next) \in Int
      BY <2>1, EpochAssumption DEF At, Orderly, IInv, TypeOK, CallFresh, Start
    <3>2. Start(next) <= MaxClock
      BY <2>1, <3>1, EpochAssumption
    <3> QED BY <3>1, <3>2, RoomForEpoch
  <2>3. At(c, "tally") => Accepts(Tx("tally", Target(c), call[c].cursor, {}))
    BY <2>1 DEF At, CallFresh, Accepts, AcceptsTally, Tx
  <2>4. At(c, "distribute") =>
          Accepts(Tx("distribute", Target(c), call[c].cursor, {}))
    BY <2>1 DEF At, CallFresh, Accepts, AcceptsDistribute, Tx
  <2>5. At(c, "sendCreate") =>
          Accepts(Tx("create", call[c].cursor, call[c].index, {}))
    BY <2>1, <2>2 DEF At, CallFresh, Accepts, AcceptsCreate, Tx
  <2>6. At(c, "closeObservations") =>
          Accepts(Tx("closeObservations", CloseTarget(c), 0, call[c].batch))
    BY <2>1 DEF At, CallFresh, Accepts, AcceptsCloseObservations, Tx
  <2> QED BY <2>3, <2>4, <2>5, <2>6
<1> QED BY <1>1, <1>2, <1>3, <1>4, Invariance, PTL DEF Spec

-----------------------------------------------------------------------------
(* A lone cranker that nothing fails closes an epoch before it moves on.   *)

Unfailing == Undisturbed /\ MaxErrors = 0

\* The live epoch exists, every observation is open or counted, and the close
\* branch still looks at the oldest distributed epoch.
Tidy ==
  /\ next >= FirstEpoch /\ (next = FirstEpoch \/ Exists(next - 1))
  /\ \A k \in EpochIds : Exists(k) =>
       k >= FirstEpoch /\ epochs[k].open = epochs[k].observed \ epochs[k].counted
  /\ \A k \in EpochIds : Done(k) => next <= k + Retention + 1

\* A call that is past the close branch has left no epoch in it.
ClosesFirst(c) ==
  LET k == CloseTarget(c) IN
  /\ call[c].pc \in {"compound", "sendCompound", "factor", "sendFactor",
                     "create", "sendCreate"} => ~Done(k)
  /\ call[c].pc \in {"arns", "tail"} => call[c].now < End(Target(c)) \/ ~Done(k)
  /\ call[c].pc = "observers" =>
       Done(k) /\ epochs[k].counted # epochs[k].observed
  /\ call[c].pc = "closeEpoch" => Done(k)

Closing == Tidy /\ \A c \in Crankers : ClosesFirst(c)

\* Changing one existing epoch keeps the epochs tidy, if its observations are
\* still open or counted and only the live epoch becomes distributed.
LEMMA ChangeTidy ==
  ASSUME ChainInv, Tidy, NEW k, Exists(k), NEW f \in Epoch, SetEpoch(k, f),
         next' = next, f.open = f.observed \ f.counted,
         f.rewardsDistributed => Done(k) \/ next <= k + Retention + 1
  PROVE  Tidy'
<1>1. \A j \in EpochIds : epochs'[j] = IF j = k THEN f ELSE epochs[j]
  BY DEF SetEpoch, ChainInv, ChainOK
<1>2. f # NoEpoch /\ k \in EpochIds
  BY NoEpochAssumption DEF Exists
<1>3. \A j \in EpochIds : Exists(j)' <=> Exists(j)
  BY <1>1, <1>2 DEF Exists
<1>4. next = FirstEpoch \/ Exists(next - 1)'
  BY <1>3 DEF Tidy, Exists
<1>5. ASSUME NEW j \in EpochIds, Exists(j)'
      PROVE  j >= FirstEpoch /\ epochs'[j].open = epochs'[j].observed \ epochs'[j].counted
  BY <1>1, <1>3, <1>5 DEF Tidy
<1>6. ASSUME NEW j \in EpochIds, Done(j)' PROVE next <= j + Retention + 1
  <2>1. CASE j = k
    BY <1>1, <1>2, <1>6, <2>1 DEF Done, Tidy
  <2>2. CASE j # k
    BY <1>1, <1>3, <1>6, <2>2 DEF Done, Tidy
  <2> QED BY <2>1, <2>2
<1> QED BY <1>4, <1>5, <1>6 DEF Tidy

\* A create keeps them tidy if the close branch has nothing left to close.
LEMMA CreateTidy ==
  ASSUME ChainInv, Tidy, NEW tx, ApplyCreate(tx),
         next > 0 => ~Done((next - 1) - Retention)
  PROVE  Tidy'
<1> DEFINE n == Live
<1>0. n \in Nat
  BY LiveType
<1>1. SetEpoch(next, NewEpoch(n))
  BY DEF ApplyCreate
<1> HIDE DEF n
<1>2. /\ next \in EpochIds /\ next' = next + 1 /\ next \in Nat
      /\ FirstEpoch \in Nat /\ Retention \in Nat /\ n \in Nat
  BY <1>0, EpochAssumption DEF ApplyCreate, AcceptsCreate, ChainInv, ChainOK
<1> DEFINE f == NewEpoch(n)
<1>3. f \in Epoch /\ ~f.rewardsDistributed /\ f.open = f.observed \ f.counted
  BY <1>2, NewEpochType DEF NewEpoch
<1>4. SetEpoch(next, f)
  BY <1>1
<1> HIDE DEF f
<1>5. \A j \in EpochIds : epochs'[j] = IF j = next THEN f ELSE epochs[j]
  BY <1>4 DEF SetEpoch, ChainInv, ChainOK
<1>6. f # NoEpoch
  BY <1>3, NoEpochAssumption
<1>7. next' >= FirstEpoch /\ Exists(next - 1)'
  <2>1. next' - 1 = next
    BY <1>2
  <2>2. epochs'[next] # NoEpoch
    BY <1>2, <1>5, <1>6
  <2>3. Exists(next - 1)'
    BY <1>2, <2>1, <2>2 DEF Exists
  <2> QED BY <1>2, <2>3 DEF Tidy
<1>8. ASSUME NEW j \in EpochIds, Exists(j)'
      PROVE  j >= FirstEpoch /\ epochs'[j].open = epochs'[j].observed \ epochs'[j].counted
  BY <1>3, <1>5, <1>8 DEF Tidy, Exists
<1>9. ASSUME NEW j \in EpochIds, Done(j)' PROVE next' <= j + Retention + 1
  <2>1. j # next /\ Done(j) /\ j \in Nat
    BY <1>3, <1>5, <1>9, EpochAssumption DEF Done, Exists, EpochIds
  <2>2. next <= j + Retention + 1
    BY <2>1 DEF Tidy
  <2>3. next # j + Retention + 1
    <3> SUFFICES ASSUME next = j + Retention + 1 PROVE FALSE
      OBVIOUS
    <3>1. next > 0 /\ (next - 1) - Retention = j
      BY <1>2, <2>1
    <3> QED BY <2>1, <3>1
  <2> QED BY <1>2, <2>1, <2>2, <2>3
<1> QED BY <1>7, <1>8, <1>9 DEF Tidy

\* Every transaction that lands keeps them tidy.
LEMMA ApplyTidy ==
  ASSUME ChainInv, Tidy, NEW tx, Apply(tx), tx.obs \subseteq Observers,
         tx.kind = "create" /\ next > 0 => ~Done((next - 1) - Retention),
         tx.kind = "distribute" => next <= tx.epoch + Retention + 1
  PROVE  Tidy'
<1> DEFINE k == tx.epoch
           e == epochs[k]
<1>0. Exists(k) => /\ e \in Epoch /\ EpochOK(e)
                   /\ e.open = e.observed \ e.counted
                   /\ (e.rewardsDistributed => Done(k))
  BY DEF Exists, ChainInv, ChainOK, Tidy, Done
<1>1. CASE ApplyCreate(tx)
  BY <1>1, CreateTidy DEF ApplyCreate, AcceptsCreate
<1>2. CASE ApplyTally(tx)
  <2> DEFINE i == Upto(e.tallyIndex, e.active)
             f == [e EXCEPT !.tallyIndex = i, !.weightsTallied = (i = e.active)]
  <2>1. Exists(k) /\ SetEpoch(k, f) /\ next' = next
    BY <1>2 DEF ApplyTally, AcceptsTally
  <2> HIDE DEF e
  <2>2. e.tallyIndex \in Nat /\ e.active \in Nat /\ e.tallyIndex <= e.active
    BY <1>0, <2>1 DEF Epoch, EpochOK
  <2>3. i \in Nat /\ (i = e.active) \in BOOLEAN
    BY <2>2, UptoBounds
  <2> HIDE DEF i
  <2>4. /\ f \in Epoch /\ f.open = e.open /\ f.observed = e.observed
        /\ f.counted = e.counted /\ f.rewardsDistributed = e.rewardsDistributed
    BY <1>0, <2>1, <2>3 DEF Epoch
  <2> HIDE DEF f
  <2> QED BY <1>0, <2>1, <2>4, ChangeTidy DEF e
<1>3. CASE ApplyPrescribe(tx)
  <2> DEFINE f == [e EXCEPT !.prescriptionsDone = TRUE]
  <2>1. Exists(k) /\ SetEpoch(k, f) /\ next' = next
    BY <1>3 DEF ApplyPrescribe, AcceptsPrescribe
  <2> HIDE DEF e
  <2>2. /\ f \in Epoch /\ f.open = e.open /\ f.observed = e.observed
        /\ f.counted = e.counted /\ f.rewardsDistributed = e.rewardsDistributed
    BY <1>0, <2>1 DEF Epoch
  <2> HIDE DEF f
  <2> QED BY <1>0, <2>1, <2>2, ChangeTidy DEF e
<1>4. CASE ApplyDistribute(tx)
  <2> DEFINE i == Upto(e.distributionIndex, e.active)
             last == (i = e.active)
             f == [e EXCEPT !.distributionIndex = i, !.rewardsDistributed = last]
  <2>1. /\ Exists(k) /\ SetEpoch(k, f) /\ next' = next
        /\ next <= k + Retention + 1
    BY <1>4 DEF ApplyDistribute, AcceptsDistribute
  <2> HIDE DEF e
  <2>2. e.distributionIndex \in Nat /\ e.active \in Nat /\ e.distributionIndex <= e.active
    BY <1>0, <2>1 DEF Epoch, EpochOK
  <2>3. i \in Nat /\ last \in BOOLEAN
    BY <2>2, UptoBounds
  <2> HIDE DEF last, i
  <2>4. /\ f \in Epoch /\ f.open = e.open /\ f.observed = e.observed
        /\ f.counted = e.counted
    BY <1>0, <2>1, <2>3 DEF Epoch
  <2> HIDE DEF f
  <2> QED BY <1>0, <2>1, <2>4, ChangeTidy DEF e
<1>5. CASE ApplyCloseObservations(tx)
  <2> DEFINE f == [e EXCEPT !.open = @ \ tx.obs, !.counted = @ \cup tx.obs]
  <2>1. Exists(k) /\ SetEpoch(k, f) /\ next' = next
    BY <1>5 DEF ApplyCloseObservations, AcceptsCloseObservations
  <2> HIDE DEF e
  <2>2. /\ f \in Epoch /\ f.open = e.open \ tx.obs /\ f.observed = e.observed
        /\ f.counted = e.counted \cup tx.obs
        /\ f.rewardsDistributed = e.rewardsDistributed
    BY <1>0, <2>1 DEF Epoch
  <2> HIDE DEF f
  <2>3. f.open = f.observed \ f.counted
    BY <1>0, <2>1, <2>2
  <2> QED BY <1>0, <2>1, <2>2, <2>3, ChangeTidy DEF e
<1>6. CASE ApplyCloseEpoch(tx)
  <2>1. Done(k) /\ Exists(k) /\ k + Retention < next /\ SetEpoch(k, NoEpoch) /\ next' = next
    BY <1>6 DEF ApplyCloseEpoch, AcceptsCloseEpoch, Done
  <2>2. \A j \in EpochIds : epochs'[j] = IF j = k THEN NoEpoch ELSE epochs[j]
    BY <2>1 DEF SetEpoch, ChainInv, ChainOK
  <2>3. k \in Nat /\ next \in Nat /\ Retention \in Nat \ {0} /\ k # next - 1
    BY <2>1, EpochAssumption DEF Exists, EpochIds, ChainInv, ChainOK
  <2>4. Exists(next - 1) => Exists(next - 1)'
    BY <2>1, <2>2, <2>3 DEF Exists
  <2> QED BY <2>1, <2>2, <2>4 DEF Tidy, Exists, Done
<1>7. CASE ApplyCompound(tx) \/ ApplyFactor(tx)
  <2>1. UNCHANGED <<epochs, next>>
    BY <1>7 DEF ApplyCompound, ApplyFactor
  <2> QED BY <2>1 DEF Tidy, Exists, Done
<1> QED BY <1>1, <1>2, <1>3, <1>4, <1>5, <1>6, <1>7 DEF Apply

\* A transaction that is accepted, or whose rejection ends the call, ends it.
LEMMA SendTidy ==
  ASSUME Unfailing, IInv, Tidy, NEW c \in Crankers, NEW tx, NEW l \in Pcs,
         Send(c, tx, l), l = "idle" \/ Accepts(tx), tx.obs \subseteq Observers,
         tx.kind = "create" /\ next > 0 => ~Done((next - 1) - Retention),
         tx.kind = "distribute" => next <= tx.epoch + Retention + 1
  PROVE  Tidy' /\ ClosesFirst(c)'
<1>1. ~(errors < MaxErrors) /\ ChainInv
  BY CallFacts DEF Unfailing
<1>2. Goto(c, "idle") /\ (Apply(tx) \/ UNCHANGED chain)
  BY <1>1 DEF Send
<1>3. call'[c].pc = "idle"
  BY <1>2, GotoFacts DEF Pcs
<1>4. CASE Apply(tx)
  BY <1>1, <1>3, <1>4, ApplyTidy DEF ClosesFirst
<1>5. CASE UNCHANGED chain
  <2>1. UNCHANGED <<epochs, next>>
    BY <1>5 DEF chain
  <2> QED BY <1>3, <2>1 DEF ClosesFirst, Tidy, Exists, Done
<1> QED BY <1>2, <1>4, <1>5

LEMMA SendsTidy ==
  ASSUME Unfailing, IInv, Orderly, Fresh, Tidy, NEW c \in Crankers,
         ClosesFirst(c),
         \/ TallyWeights(c) \/ DistributeEpoch(c) \/ CloseObservations(c)
         \/ CloseEpoch(c) \/ CompoundDelegationRewards(c)
         \/ UpdateDemandFactor(c) \/ CreateEpoch(c)
  PROVE  Tidy' /\ ClosesFirst(c)'
<1>1. /\ ChainInv /\ CallSound(c) /\ call[c].cursor \in Nat /\ next \in Nat
      /\ call[c].batch \subseteq Observers /\ Target(c) \in Nat
      /\ CloseTarget(c) \in Int /\ Retention \in Nat /\ CallFresh(c)
      /\ call[c].index \in Nat
  BY CallFacts, EpochAssumption DEF Fresh
<1> USE DEF Pcs, ClosePcs
<1>3. CASE TallyWeights(c)
  <2> DEFINE tx == Tx("tally", Target(c), call[c].cursor, {})
  <2>1. tx.kind = "tally" /\ tx.obs = {} /\ Send(c, tx, "idle")
    BY <1>3 DEF TallyWeights, Tx
  <2> HIDE DEF tx
  <2> QED BY <2>1, SendTidy
<1>4. CASE DistributeEpoch(c)
  <2> DEFINE tx == Tx("distribute", Target(c), call[c].cursor, {})
  <2>1. /\ tx.kind = "distribute" /\ tx.obs = {} /\ Send(c, tx, "idle")
        /\ tx.epoch = Target(c)
    BY <1>4 DEF DistributeEpoch, Tx
  <2>2. call[c].index = next /\ Exists(Target(c))
    BY <1>1, <1>4 DEF DistributeEpoch, At, Orderly, CallFresh
  <2>3. next <= Target(c) + Retention + 1
    BY <1>1, <2>2 DEF Target
  <2> HIDE DEF tx
  <2> QED BY <2>1, <2>3, SendTidy
<1>5. CASE CloseObservations(c)
  <2> DEFINE tx == Tx("closeObservations", CloseTarget(c), 0, call[c].batch)
  <2>1. /\ tx.kind = "closeObservations" /\ tx.obs = call[c].batch
        /\ Send(c, tx, "compound") /\ tx.epoch = CloseTarget(c)
    BY <1>5 DEF CloseObservations, Tx
  <2>2. Accepts(tx)
    BY <1>1, <1>5, <2>1
    DEF CloseObservations, At, CallFresh, Accepts, AcceptsCloseObservations
  <2> HIDE DEF tx
  <2> QED BY <1>1, <2>1, <2>2, SendTidy
<1>6. CASE CloseEpoch(c)
  <2> DEFINE tx == Tx("closeEpoch", CloseTarget(c), 0, {})
  <2>1. /\ tx.kind = "closeEpoch" /\ tx.obs = {}
        /\ Send(c, tx, "compound") /\ tx.epoch = CloseTarget(c)
    BY <1>6 DEF CloseEpoch, Tx
  <2>2. /\ Done(CloseTarget(c)) /\ Exists(CloseTarget(c))
        /\ epochs[CloseTarget(c)].counted = epochs[CloseTarget(c)].observed
        /\ call[c].index = next /\ next > 0
    BY <1>1, <1>6 DEF CloseEpoch, At, ClosesFirst, Done, CallSound, Orderly
  <2>3. CloseTarget(c) + Retention < next
    BY <1>1, <2>2 DEF CloseTarget, Target
  <2>4. Accepts(tx)
    BY <2>1, <2>2, <2>3 DEF Accepts, AcceptsCloseEpoch
  <2> HIDE DEF tx
  <2> QED BY <2>1, <2>4, SendTidy
<1>7. CASE CompoundDelegationRewards(c)
  <2> DEFINE tx == Tx("compound", 0, call[c].cursor, {})
  <2>1. tx.kind = "compound" /\ tx.obs = {} /\ Send(c, tx, "idle")
    BY <1>7 DEF CompoundDelegationRewards, Tx
  <2> HIDE DEF tx
  <2> QED BY <2>1, SendTidy
<1>8. CASE UpdateDemandFactor(c)
  <2> DEFINE tx == Tx("factor", 0, 0, {})
  <2>1. tx.kind = "factor" /\ tx.obs = {} /\ Send(c, tx, "idle")
    BY <1>8 DEF UpdateDemandFactor, Tx
  <2> HIDE DEF tx
  <2> QED BY <2>1, SendTidy
<1>9. CASE CreateEpoch(c)
  <2> DEFINE tx == Tx("create", call[c].cursor, call[c].index, {})
  <2>1. tx.kind = "create" /\ tx.obs = {} /\ Send(c, tx, "idle")
    BY <1>9 DEF CreateEpoch, Tx
  <2>2. call[c].index = next /\ ~Done(CloseTarget(c))
    BY <1>9 DEF CreateEpoch, At, Orderly, ClosesFirst
  <2>3. next > 0 => ~Done((next - 1) - Retention)
    BY <1>1, <2>2 DEF CloseTarget, Target
  <2> HIDE DEF tx
  <2> QED BY <2>1, <2>3, SendTidy
<1> QED BY <1>3, <1>4, <1>5, <1>6, <1>7, <1>8, <1>9

\* A step that keeps the epochs and is at none of the steps that know
\* something of the epoch to close.
LEMMA RestTidy ==
  ASSUME IInv, Tidy, UNCHANGED <<epochs, next>>
  PROVE  Tidy'
BY DEF Tidy, Exists, Done

Careless == {"idle", "epoch", "tally", "predict", "prescribe", "distribute",
             "close", "closeObservations"}

LEMMA CarelessTidy ==
  ASSUME NEW c \in Crankers, call'[c].pc \in Careless
  PROVE  ClosesFirst(c)'
BY DEF ClosesFirst, Careless

\* A call whose index stays has the same epoch to close.
LEMMA StillClosed ==
  ASSUME NEW c \in Crankers, UNCHANGED <<epochs, next>>,
         call'[c].index = call[c].index, ~Done(CloseTarget(c)),
         call'[c].pc \notin {"observers", "closeEpoch"}
  PROVE  ClosesFirst(c)'
<1>1. CloseTarget(c)' = CloseTarget(c)
  BY DEF CloseTarget, Target
<1>2. ~Done(CloseTarget(c))'
  BY <1>1 DEF Done, Exists
<1> QED BY <1>2 DEF ClosesFirst

LEMMA ReadEpochTidy ==
  ASSUME IInv, Orderly, Tidy, NEW c \in Crankers, ReadEpoch(c)
  PROVE  ClosesFirst(c)'
<1> DEFINE k == Target(c)
           e == epochs[k]
           l == StepFor(c, e)
<1>1. /\ call[c].index = next /\ UNCHANGED <<epochs, next>>
  BY DEF ReadEpoch, At, Orderly, chain
<1>2. /\ call[c].now \in Int /\ k \in Nat /\ next \in Nat /\ Retention \in Nat \ {0}
      /\ End(k) \in Int /\ ChainInv /\ FirstEpoch \in Nat
      /\ (next > 0 => k = next - 1)
  BY <1>1, CallFacts, EpochAssumption DEF End, Start
<1>3. CASE Exists(k)
  <2>1. e \in Epoch
    BY <1>2, <1>3 DEF Exists, ChainInv, ChainOK
  <2>2. GotoWith(c, l, CursorFor(l, e), {})
    BY <1>3 DEF ReadEpoch
  <2>3. l \in Pcs /\ CursorFor(l, e) \in Nat /\ {} \in SUBSET Observers
    BY <2>1 DEF StepFor, CursorFor, Epoch, Pcs, ClosePcs
  <2>4. /\ call'[c].pc = l /\ call'[c].index = call[c].index
        /\ call'[c].now = call[c].now
    BY <2>2, <2>3, GotoWithFacts
  <2>5. Target(c)' = k /\ End(Target(c))' = End(k)
    BY <2>4 DEF Target, End, Start
  <2>6. CASE l \in Careless
    BY <2>4, <2>6, CarelessTidy
  <2>7. CASE l = "arns"
    <3>1. call[c].now < End(k)
      BY <2>7 DEF StepFor
    <3> QED BY <2>4, <2>5, <2>7, <3>1 DEF ClosesFirst
  <2>8. CASE l = "compound"
    <3>1. ~(k >= Retention)
      BY <2>8 DEF StepFor
    <3>2. ~Done(CloseTarget(c))
      BY <1>2, <3>1, EpochAssumption DEF CloseTarget, Done, Exists, EpochIds
    <3> QED BY <1>1, <2>4, <2>8, <3>2, StillClosed
  <2> QED BY <2>6, <2>7, <2>8 DEF StepFor, Careless
<1>4. CASE ~Exists(k)
  <2>1. Goto(c, ColdStart(c)) /\ ColdStart(c) \in {"idle", "create"}
    BY <1>4 DEF ReadEpoch, ColdStart
  <2>2. CASE ColdStart(c) = "idle"
    <3>1. call'[c].pc = "idle"
      BY <2>1, <2>2, GotoFacts DEF Pcs
    <3> QED BY <3>1, CarelessTidy DEF Careless
  <2>3. CASE ColdStart(c) = "create"
    <3>1. call'[c].pc = "create" /\ call'[c].index = call[c].index
      BY <2>1, <2>3, GotoFacts DEF Pcs
    <3>2. ~Done(CloseTarget(c))
      <4>1. CASE next = 0
        <5>1. CloseTarget(c) < 0
          BY <1>1, <1>2, <4>1 DEF CloseTarget, Target
        <5> QED BY <5>1, EpochAssumption DEF Done, Exists, EpochIds
      <4>2. CASE next > 0
        <5>1. next = FirstEpoch
          BY <1>2, <1>4, <4>2 DEF Tidy
        <5>2. CloseTarget(c) < FirstEpoch
          BY <1>2, <4>2, <5>1 DEF CloseTarget
        <5>3. CloseTarget(c) \in EpochIds => CloseTarget(c) \in Nat
          BY EpochAssumption DEF EpochIds
        <5> QED BY <1>2, <5>2, <5>3 DEF Tidy, Done, Exists
      <4> QED BY <1>2, <4>1, <4>2
    <3> QED BY <1>1, <3>1, <3>2, StillClosed
  <2> QED BY <2>1, <2>2, <2>3
<1> QED BY <1>3, <1>4

LEMMA ReadCloseTargetTidy ==
  ASSUME IInv, NEW c \in Crankers, ReadCloseTarget(c)
  PROVE  ClosesFirst(c)'
<1>1. PICK k : k = CloseTarget(c)
  OBVIOUS
<1>2. UNCHANGED <<epochs, next>>
  BY DEF ReadCloseTarget, chain
<1>3. CASE ~Done(k) /\ Goto(c, "compound")
  <2>1. call'[c].pc = "compound" /\ call'[c].index = call[c].index
    BY <1>3, GotoFacts DEF Pcs
  <2> QED BY <1>1, <1>2, <1>3, <2>1, StillClosed
<1>4. ASSUME Done(k), NEW l \in {"observers", "closeEpoch"}, Goto(c, l),
             l = "observers" => epochs[k].counted # epochs[k].observed
      PROVE  ClosesFirst(c)'
  <2>1. call'[c].pc = l /\ call'[c].index = call[c].index
    BY <1>4, GotoFacts DEF Pcs, ClosePcs
  <2>2. CloseTarget(c)' = k
    BY <1>1, <2>1 DEF CloseTarget, Target
  <2>3. CASE l = "observers"
    BY <1>2, <1>4, <2>1, <2>2, <2>3 DEF ClosesFirst, Done, Exists
  <2>4. CASE l = "closeEpoch"
    BY <1>2, <1>4, <2>1, <2>2, <2>4 DEF ClosesFirst, Done, Exists
  <2> QED BY <2>3, <2>4
<1>5. Cardinality(epochs[k].observed) > Cardinality(epochs[k].counted)
        => \/ epochs[k].counted # epochs[k].observed
           \/ ~Done(k)
  <2> SUFFICES ASSUME Done(k), epochs[k].counted = epochs[k].observed,
                      Cardinality(epochs[k].observed) > Cardinality(epochs[k].counted)
               PROVE  FALSE
    OBVIOUS
  <2>1. epochs[k].observed \subseteq Observers
    BY ChainPart DEF Done, Exists, ChainInv, ChainOK, Epoch
  <2>2. Cardinality(epochs[k].observed) \in Nat
    BY <2>1, EpochAssumption, FS_Subset, FS_CardinalityType
  <2> QED BY <2>2
<1> QED BY <1>1, <1>3, <1>4, <1>5 DEF ReadCloseTarget

LEMMA ReadObserversTidy ==
  ASSUME IInv, Orderly, Tidy, NEW c \in Crankers, ClosesFirst(c), ReadObservers(c)
  PROVE  ClosesFirst(c)'
<1>1. PICK k : k = CloseTarget(c)
  OBVIOUS
<1>2. PICK e : e = epochs[k]
  OBVIOUS
<1>3. Done(k) /\ Exists(k) /\ e.counted # e.observed
  BY <1>1, <1>2 DEF ReadObservers, At, ClosesFirst, Done
<1>4. e.counted \subseteq e.observed /\ e.open = e.observed \ e.counted
      /\ e.observed \subseteq Observers
  BY <1>2, <1>3, ChainPart DEF Exists, ChainInv, ChainOK, EpochOK, Tidy, Epoch
<1>5. e.open # {} /\ e.open \subseteq Observers
  BY <1>3, <1>4
<1>6. \E ghosts \in SUBSET (e.observed \ e.open) :
        \/ (e.open \cup ghosts) \cap e.open = {}
        \/ \E b \in (SUBSET ((e.open \cup ghosts) \cap e.open)) \ {{}} :
             GotoWith(c, "closeObservations", 0, b)
  BY <1>1, <1>2, <1>3 DEF ReadObservers, LiveObservers
<1>7. \E b \in SUBSET Observers : GotoWith(c, "closeObservations", 0, b)
  <2>1. \A ghosts : (e.open \cup ghosts) \cap e.open = e.open
    OBVIOUS
  <2>2. \E b \in (SUBSET e.open) \ {{}} : GotoWith(c, "closeObservations", 0, b)
    BY ONLY <1>5, <1>6, <2>1
  <2> QED BY ONLY <1>5, <2>2
<1>8. PICK b \in SUBSET Observers : GotoWith(c, "closeObservations", 0, b)
  BY <1>7
<1>9. call'[c].pc = "closeObservations"
  BY <1>8, GotoWithFacts DEF Pcs, ClosePcs
<1> QED BY <1>9, CarelessTidy DEF Careless

LEMMA ReadsTidy ==
  ASSUME Unfailing, IInv, Orderly, Tidy, NEW c \in Crankers, ClosesFirst(c),
         \/ ReadSettings(c) \/ Predict(c) \/ ReadDelegations(c)
         \/ ReadDemandFactor(c) \/ ArnsLifecycleStep(c) \/ CreateOrIdle(c)
         \/ ReadIndexToCreate(c) \/ RpcError(c)
  PROVE  ClosesFirst(c)'
<1> USE DEF Pcs, ClosePcs
<1>1. UNCHANGED <<epochs, next>>
  BY DEF ReadSettings, Predict, ReadDelegations, ReadDemandFactor,
         ArnsLifecycleStep, CreateOrIdle, ReadIndexToCreate, RpcError, chain
<1>2. /\ call[c].now \in Int /\ next \in Nat /\ registry \in Nat
      /\ {} \in SUBSET Observers /\ call \in [Crankers -> Call]
      /\ Target(c) \in Nat /\ End(Target(c)) \in Int /\ errors \in Nat
  BY CallFacts, EpochAssumption DEF Start, End, IInv, TypeOK
<1>3. ASSUME Goto(c, "idle") PROVE ClosesFirst(c)'
  <2>1. call'[c].pc = "idle"
    BY <1>3, GotoFacts
  <2> QED BY <2>1, CarelessTidy DEF Careless
<1>4. ASSUME ~Done(CloseTarget(c)),
             NEW l \in {"factor", "sendFactor", "arns", "tail", "create"}, Goto(c, l)
      PROVE  ClosesFirst(c)'
  <2>1. call'[c].pc = l /\ call'[c].index = call[c].index
    BY <1>4, GotoFacts
  <2> QED BY <1>1, <1>4, <2>1, StillClosed
<1>5. ASSUME ~Done(CloseTarget(c)), NEW l \in {"sendCompound", "sendCreate"},
             NEW cur \in Nat, GotoWith(c, l, cur, {})
      PROVE  ClosesFirst(c)'
  <2>1. call'[c].pc = l /\ call'[c].index = call[c].index
    BY <1>2, <1>5, GotoWithFacts
  <2> QED BY <1>1, <1>5, <2>1, StillClosed
<1>6. CASE ReadSettings(c)
  <2>1. call'[c].pc = "epoch"
    BY <1>2, <1>6 DEF ReadSettings, NoCall
  <2> QED BY <2>1, CarelessTidy DEF Careless
<1>7. CASE Predict(c)
  <2>1. call'[c].pc = "prescribe"
    BY <1>2, <1>7, GotoWithFacts DEF Predict
  <2> QED BY <2>1, CarelessTidy DEF Careless
<1>8. CASE ReadDelegations(c)
  <2>1. ~Done(CloseTarget(c))
    BY <1>8 DEF ReadDelegations, At, ClosesFirst
  <2> QED BY <1>4, <1>5, <1>8, <2>1 DEF ReadDelegations
<1>9. CASE ReadDemandFactor(c)
  <2>1. ~Done(CloseTarget(c))
    BY <1>9 DEF ReadDemandFactor, At, ClosesFirst
  <2> QED BY <1>4, <1>9, <2>1 DEF ReadDemandFactor
<1>10. CASE ArnsLifecycleStep(c)
  <2>1. call[c].now < End(Target(c)) \/ ~Done(CloseTarget(c))
    BY <1>10 DEF ArnsLifecycleStep, At, ClosesFirst
  <2>2. CASE Goto(c, "idle")
    BY <1>3, <2>2
  <2>3. CASE Goto(c, "tail")
    <3>1. CASE ~Done(CloseTarget(c))
      BY <1>4, <2>3, <3>1
    <3>2. CASE call[c].now < End(Target(c))
      <4>1. /\ call'[c].pc = "tail" /\ call'[c].index = call[c].index
            /\ call'[c].now = call[c].now
        BY <2>3, GotoFacts
      <4>2. End(Target(c))' = End(Target(c))
        BY <4>1 DEF Target, End, Start
      <4> QED BY <3>2, <4>1, <4>2 DEF ClosesFirst
    <3> QED BY <2>1, <3>1, <3>2
  <2> QED BY <1>10, <2>2, <2>3 DEF ArnsLifecycleStep
<1>11. CASE CreateOrIdle(c)
  <2>1. CASE call[c].now < End(Target(c))
    BY <1>3, <1>11, <2>1 DEF CreateOrIdle
  <2>2. CASE ~(call[c].now < End(Target(c)))
    <3>1. ~Done(CloseTarget(c))
      BY <1>11, <2>2 DEF CreateOrIdle, At, ClosesFirst
    <3> QED BY <1>3, <1>4, <1>11, <3>1 DEF CreateOrIdle
  <2> QED BY <2>1, <2>2
<1>12. CASE ReadIndexToCreate(c)
  <2>1. ~Done(CloseTarget(c))
    BY <1>12 DEF ReadIndexToCreate, At, ClosesFirst
  <2> QED BY <1>2, <1>5, <1>12, <2>1 DEF ReadIndexToCreate
<1>13. ~RpcError(c)
  BY <1>2 DEF RpcError, Unfailing
<1> QED BY <1>6, <1>7, <1>8, <1>9, <1>10, <1>11, <1>12, <1>13

LEMMA PrescribeTidy ==
  ASSUME Unfailing, IInv, Tidy, NEW c \in Crankers, PrescribeEpoch(c)
  PROVE  Tidy' /\ ClosesFirst(c)'
<1>1. CASE Send(c, Tx("prescribe", Target(c), call[c].cursor, {}), "idle")
  <2> DEFINE tx == Tx("prescribe", Target(c), call[c].cursor, {})
  <2>1. tx.kind = "prescribe" /\ tx.obs = {} /\ Send(c, tx, "idle")
    BY <1>1 DEF Tx
  <2> HIDE DEF tx
  <2> QED BY <2>1, SendTidy DEF Pcs
<1>2. CASE /\ call' = [call EXCEPT ![c].pc = "predict", ![c].retried = TRUE,
                                   ![c].cursor = 0]
           /\ UNCHANGED chain
  <2>1. call \in [Crankers -> Call] /\ UNCHANGED <<epochs, next>>
    BY <1>2 DEF IInv, TypeOK, chain
  <2>2. call'[c].pc = "predict"
    BY <1>2, <2>1 DEF Call
  <2> QED BY <2>1, <2>2, CarelessTidy, RestTidy DEF Careless
<1> QED BY <1>1, <1>2 DEF PrescribeEpoch

\* The environment closes no epoch and undoes no count.
LEMMA EnvironmentTidy ==
  ASSUME Unfailing, IInv, Orderly, Tidy, \A c \in Crankers : ClosesFirst(c),
         Environment
  PROVE  Tidy' /\ \A c \in Crankers : ClosesFirst(c)'
<1>1. call' = call /\ next' = next /\ ChainInv
  <2>1. \A tx \in inflight : ~LandLate(tx)
    BY DEF Orderly
  <2> QED BY <2>1, ChainPart DEF Environment, Tick, EnableEpochs, GatewaysChange,
     IndexCatchesUp, SaveObservations, OrphanObservation, chain
<1>2. CASE \E j \in EpochIds, o \in Observers : SaveObservations(j, o)
  <2>1. PICK j \in EpochIds, o \in Observers : SaveObservations(j, o)
    BY <1>2
  <2>2. PICK f : f = [epochs[j] EXCEPT !.observed = @ \cup {o},
                                       !.open = @ \cup {o}]
    OBVIOUS
  <2>3. epochs' = [epochs EXCEPT ![j] = f] /\ Exists(j) /\ o \notin epochs[j].observed
        /\ SetEpoch(j, f) /\ clock < End(j)
    BY <2>1, <2>2 DEF SaveObservations, SetEpoch
  <2>4. /\ epochs \in [EpochIds -> Epoch \cup {NoEpoch}] /\ epochs[j] \in Epoch
        /\ epochs[j].counted \subseteq epochs[j].observed
        /\ epochs[j].open = epochs[j].observed \ epochs[j].counted
    BY <1>1, <2>3 DEF ChainInv, ChainOK, Exists, EpochOK, Tidy
  <2>5. /\ f \in Epoch /\ f # NoEpoch /\ f.counted = epochs[j].counted
        /\ f.observed = epochs[j].observed \cup {o}
        /\ f.open = epochs[j].open \cup {o}
        /\ f.rewardsDistributed = epochs[j].rewardsDistributed
    <3>1. f \in Epoch
      BY <2>2, <2>4 DEF Epoch
    <3>2. f # NoEpoch
      BY <3>1, NoEpochAssumption
    <3> QED BY <2>2, <2>4, <3>1, <3>2 DEF Epoch
  <2>6. f.open = f.observed \ f.counted
    BY <2>3, <2>4, <2>5
  <2>7. ~Done(j)
    <3>1. clock \in Nat /\ End(j) \in Int
      BY <1>1, EpochAssumption DEF ChainInv, ChainOK, End, Start, EpochIds
    <3> QED BY <1>1, <2>3, <3>1 DEF ChainInv, DoneIsOver
  <2>8. Tidy'
    BY <1>1, <2>3, <2>5, <2>6, <2>7, ChangeTidy DEF Done
  <2>9. \A k : /\ Done(k)' <=> Done(k)
               /\ Done(k) => epochs'[k] = epochs[k]
    <3> TAKE k
    <3>1. CASE k = j
      BY <2>3, <2>4, <2>5, <2>7, <3>1 DEF Done, Exists
    <3>2. CASE k # j
      BY <2>3, <2>4, <3>2 DEF Done, Exists
    <3> QED BY <3>1, <3>2
  <2>10. ASSUME NEW c \in Crankers PROVE ClosesFirst(c)'
    <3>1. /\ CloseTarget(c)' = CloseTarget(c) /\ Target(c)' = Target(c)
          /\ End(Target(c))' = End(Target(c))
      BY <1>1 DEF CloseTarget, Target, End, Start
    <3>2. ClosesFirst(c) /\ call'[c] = call[c]
      BY <1>1
    <3>3. Done(CloseTarget(c))' <=> Done(CloseTarget(c))
      BY <2>9, <3>1 DEF Done, Exists
    <3> QED BY <2>9, <3>1, <3>2, <3>3 DEF ClosesFirst
  <2> QED BY <2>8, <2>10
<1>3. CASE ~\E j \in EpochIds, o \in Observers : SaveObservations(j, o)
  <2>1. \A tx \in inflight : ~LandLate(tx)
    BY DEF Orderly
  <2>2. \A j \in EpochIds, o \in Observers : ~OrphanObservation(j, o)
    BY <1>1 DEF OrphanObservation, Unfailing, Undisturbed, ChainInv, ChainOK
  <2>3. epochs' = epochs
    BY <1>3, <2>1, <2>2 DEF Environment, Tick, EnableEpochs, GatewaysChange,
       IndexCatchesUp, chain
  <2>4. \A c \in Crankers : ClosesFirst(c)'
    BY <1>1, <2>3
    DEF ClosesFirst, CloseTarget, Target, Done, Exists, End, Start
  <2> QED BY <1>1, <2>3, <2>4, RestTidy
<1> QED BY <1>2, <1>3

LEMMA TidyStep ==
  ASSUME Unfailing
  PROVE  IInv /\ Orderly /\ Fresh /\ Closing /\ [Next]_vars => Closing'
<1> SUFFICES ASSUME IInv, Orderly, Fresh, Tidy,
                    \A c \in Crankers : ClosesFirst(c), [Next]_vars
             PROVE  Tidy' /\ \A c \in Crankers : ClosesFirst(c)'
  BY DEF Closing
<1>1. ASSUME NEW c \in Crankers, CrankEpochStep(c) \/ RpcError(c)
      PROVE  Tidy' /\ \A d \in Crankers : ClosesFirst(d)'
  <2>1. ASSUME \/ ReadSettings(c) \/ ReadEpoch(c) \/ Predict(c)
               \/ ReadCloseTarget(c) \/ ReadObservers(c) \/ ReadDelegations(c)
               \/ ReadDemandFactor(c) \/ ArnsLifecycleStep(c) \/ CreateOrIdle(c)
               \/ ReadIndexToCreate(c) \/ RpcError(c)
        PROVE  Tidy' /\ ClosesFirst(c)'
    <3>1. UNCHANGED <<epochs, next>>
      BY <2>1 DEF ReadSettings, ReadEpoch, Predict, ReadCloseTarget,
         ReadObservers, ReadDelegations, ReadDemandFactor, ArnsLifecycleStep,
         CreateOrIdle, ReadIndexToCreate, RpcError, chain
    <3>2. ClosesFirst(c)'
      BY <2>1, ReadEpochTidy, ReadCloseTargetTidy, ReadObserversTidy, ReadsTidy
    <3> QED BY <3>1, <3>2, RestTidy
  <2>2. ASSUME \/ TallyWeights(c) \/ DistributeEpoch(c) \/ CloseObservations(c)
               \/ CloseEpoch(c) \/ CompoundDelegationRewards(c)
               \/ UpdateDemandFactor(c) \/ CreateEpoch(c)
        PROVE  Tidy' /\ ClosesFirst(c)'
    BY <2>2, SendsTidy
  <2>3. Tidy' /\ ClosesFirst(c)'
    BY <1>1, <2>1, <2>2, PrescribeTidy DEF CrankEpochStep
  <2>4. \A d \in Crankers : d = c
    BY DEF Unfailing, Undisturbed, Alone
  <2>5. ASSUME NEW d \in Crankers PROVE ClosesFirst(d)'
    <3>1. d = c
      BY <2>4
    <3> QED BY <2>3, <3>1
  <2> QED BY <2>3, <2>5
<1>2. CASE Environment
  BY <1>2, EnvironmentTidy
<1>3. CASE UNCHANGED vars
  <2>1. UNCHANGED <<next, epochs, call>>
    BY <1>3 DEF vars, chain
  <2>2. \A c \in Crankers : ClosesFirst(c)'
    BY <2>1 DEF ClosesFirst, CloseTarget, Target, Done, Exists, End, Start
  <2> QED BY <2>1, <2>2, RestTidy
<1> QED BY <1>1, <1>2, <1>3 DEF Next

\* CleanupKeepsUp: the close branch of an undisturbed cranker, none of whose
\* reads and sends fails, leaves no distributed epoch behind.  A failure does
\* leave one behind: the branch looks at one epoch only, and falls through to
\* create_epoch, which moves it on.
THEOREM Cleanup ==
  ASSUME Unfailing
  PROVE  Spec => []CleanupKeepsUp
<1>1. Init => Orderly /\ Fresh /\ Closing
  <2> SUFFICES ASSUME Init
               PROVE  Fresh /\ Tidy /\ \A c \in Crankers : ClosesFirst(c)
    BY OrderlyInit DEF Closing
  <2>1. Fresh
    BY EpochAssumption DEF Init, Fresh, CallFresh, NoCall
  <2>2. Tidy
    BY EpochAssumption DEF Init, Tidy, Exists, Done
  <2> QED BY <2>1, <2>2 DEF Init, ClosesFirst, NoCall
<1>2. IInv /\ Orderly /\ [Next]_vars => Orderly'
  BY OrderlyStep DEF Unfailing, Undisturbed
<1>3. IInv /\ Orderly /\ Fresh /\ [Next]_vars => Fresh'
  BY FreshStep DEF Unfailing
<1>4. IInv /\ Orderly /\ Fresh /\ Closing /\ [Next]_vars => Closing'
  BY TidyStep
<1>5. Closing => CleanupKeepsUp
  BY DEF Closing, Tidy, CleanupKeepsUp
<1> QED BY <1>1, <1>2, <1>3, <1>4, <1>5, Invariance, PTL DEF Spec
=============================================================================
