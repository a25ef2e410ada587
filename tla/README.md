# Verification of the AR.IO SDK in TLA+

TLA+ modules, TLC model-checking runs and TLAPS proofs for the AR.IO SDK: the
TypeScript client of the AR.IO network on Solana (`src/solana/`, with its CLI
and shared types). The SDK keeps little state of its own. What it does is
decide: it reads accounts one after the other, decides on a transaction, sends
it, and reacts to what comes back, while other processes do the same to the
same accounts. The modules are about those decisions.

The on-chain programs (`ario-core`, `ario-gar`, `ario-arns`, `ario-ant`,
`ario-ant-escrow`), Solana's Address Lookup Table program and the RPC nodes are
not part of the repository. They are modelled from what the SDK sends them, the
account fields it reads, the errors it handles and what its comments say of
them, and are marked external in `PROJECT.json`.

## 1. Inventory

Paths are relative to `src/` of the repository. State in italics lives in the
SDK process, other state on chain.

| Component | Source | State | Operations | What is hard |
|---|---|---|---|---|
| Epoch crank | `solana/io-writeable.ts` 3955-4690, 4867-4961, 5206-5305 | EpochSettings, Epoch and Observation accounts, delegation accumulators, demand factor; *locals of one call* | `crankEpochStep` and everything it calls | several crankers, non-atomic reads, lost confirmations, swallowed and propagated errors, skewed clocks |
| ArNS lifecycle | `solana/io-writeable.ts` 4692-4860, 4963-5066; `solana/io-readable.ts` 3046-3176 | ArnsRecord and ReturnedName accounts; *three scan timestamps* | `maybeArnsLifecycleStep`, its three steps, `pruneNameToReturned`, `pruneReturnedNames`, `pruneExpiredNames` | deadlines, throttles, partial failure, two crankers on one backlog |
| Ephemeral lookup tables | `solana/send.ts` 690-1020 | lookup tables, the signer's history; *locals of a send and of a pass* | `sendWithEphemeralLookupTable`, `waitForLookupTableActive`, `reclaimLookupTablesForSigner` | multi-transaction sends that fail half way, discovery through a bounded history, cooldown |
| Transaction sending | `solana/send.ts` 336-640 | *blockhash, fee, compute limit* | `sendAndConfirm`, fee estimates | expiry, unseen confirmations, wallets that rewrite the message |
| RPC transport | `solana/rpc-circuit-breaker.ts`, `solana/retry.ts` | *token bucket, queue, timer, rate, success streak, breaker* | rate gate, breaker with fallback, `withRetry` | callbacks in any order, timers, rate-limit answers while requests are in flight |
| Funding plans | `solana/funding-plan.ts`, `solana/io-writeable.ts` 1879-2220 | none | `buildFundingPlan`, `predictResidueVaults`, `_resolveFundingPlan`, `_materializeFundingPlan` | greedy choice under caps, stale balances and withdrawal ids |
| ArNS purchases | `solana/io-writeable.ts` 1553-1870, 2334-2500, 3475-3870; `solana/spawn-ant.ts`, `solana/gas.ts` | records, returned names, balances | `buyRecord`, `buyReturnedName`, `extendLease`, `increaseUndernameLimit`, `upgradeRecord`, `releaseName`, `reassignName` | price changes between quote and landing, atomic spawn, best-effort follow-ups |
| Gateway registry | `solana/io-writeable.ts` 1097-1260, 5101-5200; `solana/predict-prescribed-observers.ts` | Gateway and GatewayRegistry accounts | `joinNetwork`, `leaveNetwork`, `pruneGateway`, `finalizeGone`, prediction of observers | slots are swap-removed while others index them |
| Stake and withdrawals | `solana/io-writeable.ts` 1247-1443, 1504-1552, 3273-3470; `solana/delegation-math.ts` | Delegation and Withdrawal accounts, id counters | stake changes, instant withdrawal, claims, allow lists | ids read before use, operations of two transactions, balances that lag behind rewards |
| Observations | `solana/io-writeable.ts` 362-420, 1444-1502, 5206-5305 | Observation accounts | `saveObservations`, `closeObservations`, `getObservations` | bits laid out by a registry that changes |
| Primary names | `solana/io-writeable.ts` 2741-3170 | requests and names | request, set, approve, remove | forward and reverse records that disagree |
| Vaults | `solana/io-writeable.ts` 858-1096, 3198-3245 | vaults, id counter | create, extend, increase, revoke, release | ids read before use |
| ANT and ACL registry | `solana/ant-*.ts` | ANT accounts, ACL pages | transfers, controllers, records, page maintenance | plans made from pages read earlier |
| Escrow | `solana/escrow.ts`, `solana/canonical-message.ts` | escrows | deposit, claim, cancel, refund | claims signed for a nonce that rotates |
| Reads | `solana/io-readable.ts`, `solana/ant-readable.ts`, `solana/deserialize.ts`, `solana/metadata.ts`, `solana/mpl-core.ts` | *account cache* | queries, listings page by page, byte layouts | answers put together from several requests, cursors into lists that are fetched again, stale cache |
| Derivation, clusters | `solana/pda.ts`, `solana/ata.ts`, `solana/clusters.ts`, `solana/constants.ts` | none | pure | none |
| CLI and utilities | `cli/`, `common/`, `utils/`, `types/` | none | parsing, output, HTTP, logging | none |

How they interact: everything that writes goes through `sendAndConfirm`; the
prescription of an epoch, and a purchase with many accounts, go through an
ephemeral lookup table first; the crank's last stage is the ArNS lifecycle,
whose failures therefore reach epoch creation; all reads and sends share one RPC
transport, whose throttling and fallback decide how long the reads of one
decision are apart.

What makes each component correct:

- Epoch crank: epochs go through their phases in order, none is abandoned half
  way, no batch leaves gateways out, old epochs are closed, nothing that fails
  in between keeps the next epoch from being created.
- ArNS lifecycle: a lapsed lease is auctioned within its window, or closed
  after it, and a name is free only when its time is over; one bad record does
  not cost other names their auction.
- Lookup tables: a table that is consumed resolves; rent comes back; tables of
  others are never touched.
- RPC transport: every request is answered, none is released during a cooldown,
  the rate returns to its ceiling.
- Funding: a plan covers the amount, respects the caps, and is found when one
  exists.
- Registry and observations: the swapped slot is the one the program swaps; a
  bit speaks of the gateway it was meant for.
- Withdrawals, vaults, delegated stake: what is built from a read is accepted if
  nothing changed since, and the second half of an operation takes what its
  first half made.
- ANTs and access control lists: the lists name the owner and the controllers
  of an ANT, each once, as long as its changes go through the SDK.
- Escrow: a deposit is released only to whom its recipient signed for.
- Primary names: setting one is all or nothing.
- Reads: what an answer says was true while it was read, and what belongs together
  at one moment; a walk over pages is complete.

## 2. Plan

| Order | Module | Composes | Status |
|---|---|---|---|
| 1 | `EpochCrank`, abstract `EpochLifecycle`, `EpochCrankProofs` | | checked, safety and refinement proved |
| 2 | `ArnsLifecycle`, abstract `NameLifecycle`, `ArnsLifecycleProofs` | called by the crank in outline | checked, type invariant and refinement proved |
| 3 | `LookupTables`, `LookupTablesProofs` | used by the prescription | checked, safety proved |
| 4 | `RpcTransport`, `RpcTransportProofs` | under every read and send | checked, safety proved |
| 5 | `FundingPlan` (proved about in `OwnerCallsProofs`) | | checked, proved sound and complete within the caps |
| 6 | `Holdings`, `StakeCalls`, `PurchaseCalls`, composed by `OwnerCalls`; `OwnerCallsProofs` | `FundingPlan` | checked, all but `UnracedAccepted` proved |
| 7 | `AclPages`, `AssetLedger`, `AntCalls`, `EscrowCalls`, `NameCalls`, `AntQueries` | | checked |
| 8 | `RegistryLedger`, `RegistryCalls`, `PoolLedger`, `PoolCalls` | | checked |
| 9 | `Listings`, and `SdkCalls`, which composes 7 and 8; `SdkCallsLemmas`, `SdkCallsProofs` | 7, 8 | checked, all but `UnracedLands` and `WalkComplete` proved |

`FoldLemmas` holds the induction over sequences and sets that the proofs of 3
to 6 rest on.

No module declares a RECURSIVE operator; constants have named assumptions; each
operation is one action or, where many calls share one protocol of reading,
building and sending, one entry of the operators that describe a call;
invariants are conjunctions of named parts.

## 3. The modules

### EpochCrank

`crankEpochStep` as a state machine per cranker. `call[c]` holds the locals of
the call in progress: the sampled `now`, the index read from EpochSettings, the
cursor of a batch, whether the prescription was retried, the observations of a
batch, and `pc`, the read or send the call is about to make. One action is one
RPC: `ReadSettings`, `ReadEpoch` (which decides the phase: `StepFor`,
`ColdStart`), `TallyWeights`, `Predict` and `PrescribeEpoch` (retry once on
`InvalidGatewayAccount`), `DistributeEpoch`, the close branch
(`ReadCloseTarget`, `ReadObservers`, `CloseObservations`, `CloseEpoch`), the
maintenance steps (`ReadDelegations`, `CompoundDelegationRewards`,
`ReadDemandFactor`, `UpdateDemandFactor`, `ArnsLifecycleStep`) and the creation
(`CreateOrIdle`, `ReadIndexToCreate`, `CreateEpoch`). `RpcError` is a failure of
any of them; in the close branch it goes on to compounding, elsewhere it ends
the call, as the one `try` of the code has it.

`Send` has the three outcomes a caller can see: the transaction lands and is
confirmed, is rejected, or its confirmation is not seen. In the last case it
waits in `inflight` and may land later or never (`LandLate`).

The chain is `Accepts...` and `Apply...`, one pair per instruction. A batch of
tally or distribution moves its cursor on from where the batch was built for;
a prescription is accepted if the registry is the one it was predicted from.

Options are left at their defaults (`enableClose`, `enableCompound` and so on
are on, `compoundMinPendingRewards` is 0). `retention`, batch sizes and the
period are constants. Of the registry's list of gateways only its
length is kept, for each of its versions (`RegistrySize`): the count stamped on
an epoch is what it was at the creation, and a batch is clipped to what it is
when the batch lands, as `getRegistryGatewayPDAs` does just before it is sent.
While the registry is shorter than the cursor an unfinished epoch has reached, the crank sends
empty batches, which move nothing. Whether a delegation is due is one bit, and `ghost`
says that the index lists a delegation that no longer exists. A parse error of
an epoch account, which `getEpochRaw` turns into "does not exist", is left out.

### EpochLifecycle

What the crank promises without crankers: create in order, only when the live
epoch is done or absent; phases in order; close what is done and old enough.
`EpochCrank!ImplementsLifecycle` instantiates it with `PhaseOf` of each account.
It is checked and proved for one cranker; section 6 says why not for two.

### ArnsLifecycle and NameLifecycle

`maybeArnsLifecycleStep` per cranker: `Begin` samples the clock; `ScanToReturned`,
`ScanReturned` and `ScanExpired` are the throttled scans with their windows
(`Lapsed`, `AuctionOver`, `WindowPassed`); `PruneNameToReturned` is one turn of
the conversion loop with its budget and its rule for failures; the two batch
steps free what the program still finds eligible. Owners buy, extend and
release. A cranker that is between calls makes `Polls` of them in each tick, so
that deadlines mean something: a tick is the scan interval or more. Time passes
under a slow call too, which keeps the `now` it began with while its loop sends
one transaction after the other: by at most `MaxLag` ticks, each of which counts
as a fault against `MaxErrors`.
`NameLifecycle` is the life of a name without crankers, and
`ImplementsLifecycle` the refinement: the program checks only the start of an
auction window again, so an auction may start late by what the clocks are behind
(`MaxBehind`) and the calls are slow (`Late` is the sum), and not more. Scans see the accounts as they are; the
lag of the index and the cache of the settings are left out.

### LookupTables

A send is five steps (`DeriveTable`, `CreateLookupTable`, `ExtendLookupTable`,
`WaitForLookupTableActive`, `Consume`), each of which may fail with or without
effect and then leaves its table behind. A pass of the reclaimer reads the
history once (`ScanHistory`, with the slot it compares cooldowns to), then takes
the candidates one by one (`ReadTable`, `DeactivateLookupTable`,
`CloseLookupTable`). A table's address is the slot it was derived from.
Two sends that read the same finalized slot (`send.ts` 735) derive the same
address. What the external program makes of the second creation is not in the
repository, so it is a choice of `CreateLookupTable`: refused, or accepted
without effect, which `shared` remembers. In a shared table the sends' entries
mix, whatever the SDK does after it: `ConsumeResolves` and
`OtherTablesUntouched` say nothing of such a table, `EveryTableClosed` does.
`done` counts the submissions of a pass that were confirmed, as line 944 does.
The order of instruction accounts and the sizes of batches (20 addresses) are
left out.

### RpcTransport

`gate` holds the variables of `createRateGate` as a record; its functions are
operators from one gate to the next (`Schedule`, `Refill`, `Pump`, `Acquire`,
`SetRate`, `PauseFor`), because in the code each runs to the end without being
interrupted. An action is one turn of the event loop: a first or a later
attempt of `withRetry` (`Request`, `Retry`), an answer of the primary
(`PrimarySucceeds`, `RateLimited`, `PrimaryFails`) with the listeners it calls,
an answer of the fallback, or the timer (`TimerFires`). `RateLimited` is all of
`onError`: the new rate, which pumps the queue, then the cooldown. `Release`
fires the requests that left the queue, after the turn as the promises of the
code do, hence with the state of the circuit the turn leaves.

Times are kept relative (the age of the last refill, what is left of the
cooldown and of the timer), so the run has no bound on the clock. The clock is
taken to go forward; a timer may fire late, or `Early` ticks too early. opossum
is external: when a circuit opens is left open, a half open circuit lets one
request through, and a success closes it. Its listener order, `failure` before
the circuit opens, is of no consequence for the gate. `maxConcurrent` has its
default. The headers are `Limits` and `RetryAfters`, any of which may be absent.

### Owner calls: FundingPlan, Holdings, StakeCalls, PurchaseCalls, OwnerCalls

One owner with several clients. `FundingPlan` holds the planner as pure
operators: the filter by mode (`Usable`), the drawdown order (balance,
withdrawals by maturity, the part of each delegation above its floor, then the
floors), both caps, and the residues it predicts. Sources are ranked by a
tuple, as the comparison of the code goes.

`Holdings` is what the owner has in the programs, whether the recipient of a
transfer has a token account (which `transfer` creates along), and, as `Execute`, what the
programs do with a transaction: an instruction that fails undoes the whole of
it. Withdrawals and token vaults are numbered by counters of the program.
`StakeCalls` is a call's life: `Submit` (the reads next to a send, and the
transaction they lead to), `Land`, `Reject`, `SendSecond` (an instant decrease
is two transactions), `LoseConfirmation`, after which `LandLate` or `Expire`.
`PurchaseCalls` adds what pays for a name: the route each `fundFrom` takes
(`RouteOfBuy` and its like), the quote, the discovery of sources, the plan, and
its materialization with predicted accounts, each a step of its own, so that
other calls and the network come in between. A given plan is refused before
anything is sent if it names a delegation whose account does not exist; a
delegation of no stake may or may not have one (`MayMiss`). `OwnerCalls` composes them.

### SDK calls: AclPages to SdkCalls

Two or more callers on shared accounts. A call is described, not programmed: a
module of calls says what it can read next when it has seen so much (`AntReads`,
`EscrowReads`, `NameReads`, `RegistryReads`, `PoolReads`, `QueryReads`,
`PageReads`), when it throws (`...Refuses`), and the one transaction it sends
(`...Tx`). Reads that the code awaits one by one come in that order, those of a
`Promise.all` in any. `SdkCalls` turns this into actions: `Submit`, `Read` (one
request), `Build`, `Land`, `Reject`, `Lose` (the caller is told of a failure and
the transaction landed or did not), and the moves of others. A purchase with a
new ANT is three transactions in a row, the last two best effort (`Ended`).

| Module | Models |
|---|---|
| `AclPages` | the plan that brings an entry into or out of the pages of a user's access control list |
| `AssetLedger` | external: the accounts of `ario-ant`, `ario-ant-escrow`, `ario-arns`, `ario-core` and MPL Core, and their instructions; the canonical message of a claim is the code's |
| `AntCalls` | transfer, controllers, records, metadata, `syncAcl`, reconcile, spawn, upgrade |
| `EscrowCalls` | `ANTEscrow` and `TokenEscrow`: deposit, update of the recipient, cancel, claims of ANTs, tokens and vaults |
| `NameCalls` | names and the ANT behind them; primary names |
| `AntQueries` | reads that put an ANT together from several accounts, in batches and scans |
| `RegistryLedger` | external: slots with swap-removal, departure, epochs, reports, the program's draw of observers |
| `RegistryCalls` | `finalizeGone`, `pruneGateway`, tally, the predicted prescription, `saveObservations` and its bitmap, `closeObservations`, and the discovery reads a cranker starts from |
| `PoolLedger` | external: delegated stake, its rewards, settings and allow list |
| `PoolCalls` | compounding one or a batch, claiming from a disabled gateway, closing what is empty or drained, gateway settings, allow list, and their discovery reads |
| `Listings` | eleven paginated listings: what each page fetches, filter, sort, cursor |
| `SdkCalls` | all of it together |

Signatures are abstract: `sigs` holds which key signed which message, `wishes`
what was meant by it. `drift` is history: whether each change of an ANT so far
kept its entries along. The
message of a claim binds the type and the id of the asset: of tokens and vaults
not who deposited them, so what keeps two equal deposits apart is the nonce
(`AssetOf`). The stake of a gateway is owned by operators, and the
reward per token is a small integer over a `Precision` of 2, so that rounding
and the saturating cap (`MaxAmount`) both happen.

## 4. Runs

| Run | Checks | Bounds | States |
|---|---|---|---|
| `EpochCrankRace` | `TypeOK`, `CreateDecisionSound`, `CloseDecisionSound`, `BatchNeverSkips` | 2 crankers, 1 observer, epochs 1-2, retention 1, three gateways in batches of two, one lost confirmation or error, one orphaned observation | 1.9 million |
| `EpochCrankSolo` | `SoloAccepted`, `CleanupKeepsUp`, `ImplementsLifecycle`, `EveryEpochCreated`, `EveryEpochDistributed` | 1 cranker, 2 observers, epochs 1-3, two gateways in batches of one, which may both leave and come back, one ArNS item | 132 thousand |
| `EpochCrankLeak` | `CleanupKeepsUp`, violated | 1 cranker, 2 errors, epochs 1-4 | |
| `ArnsLifecycle` | `TypeOK`, `NoAuctionMissed`, `EveryLapsedLeaseLeaves`, `ImplementsLifecycle` | 2 crankers, 2 names, grace 2, auction 2, a scan per tick, one record that cannot be converted, one fault (a failure or a call that lasts into the next tick), 2 trades | 808 thousand |
| `ArnsStranded` | `NoneStranded`, violated | 1 cranker, 2 names, no failure | |
| `ArnsSkew` | `AuctionsEarned`, violated | 1 cranker one tick behind, 1 name, 2 failures | |
| `LookupTables` | `TypeOK`, `ConsumeResolves`, `OtherTablesUntouched`, `EveryTableClosed` | 2 senders, 1 reclaimer, 2 tables with room for two fills, one candidate per submission to spare, and one fault: a failure, an entry closed, or a second creation accepted | 185 thousand |
| `LookupTablesStarve` | `EveryTableClosed`, violated | 1 sender, 4 tables, the headroom of 3 in the code, no failure | |
| `RpcTransport` | `TypeOK`, `WakesInTime`, `RatesAgree`, `RateRespected`, `CooldownHonoured`, `EveryRequestAnswered`, `RateRecovers` | 2 callers with 2 attempts, ceiling 2 requests a second of 2 ticks, cooldowns of 1 and 3 ticks, two successes to recover; clock and number of 429s unbounded | 93 thousand |
| `RpcRaise` | `BacksOff`, violated | as `RpcTransport` | |
| `OwnerCalls` | `TypeOK`, `PlanSound`, `FloorsLast`, `FailsOnlyIfShort`, `UnracedAccepted`, `InstantTakesItsOwn`, `LiquidUntouched` | 2 calls, one of which may be a purchase, 4 portfolios, 2 gateways, caps 2 and 1, one move of the network or lost confirmation | 945 thousand |
| `SdkCalls` | `TypeOK`, `UnracedLands`, `AclExact`, `AclKept`, `StatesOfOneMoment`, `ReleasedOnlyAsSigned`, `ChangeAtomic`, `BitsNameGateways`, `WalkComplete` | 2 calls, 33 scenes with 2 to 9 requests each, 2 users, ANTs and names, 3 operators, pages and batches of 2, two moves of others (a single one in four scenes about stake) | 229 thousand |

Why the bounds are enough. The epochs start at 1, so that the cold start after
the administrator set the index is the first thing that happens. Two of them,
with a retention of one, are enough for a call to be a whole epoch late while
the other cranker closes the epoch it read; the runs with one cranker take
three and four, so that the close branch has a history to keep up with.
`EpochCrankRace` gives every decision one adversary (a second cranker) and one
lost send: each decision is of one transaction about one or two accounts, so an
adversary that can take any number of steps between the read and the send is
what matters. Batches of two over three gateways, and of one over two, make the cursor stop
half way and the last batch come out short. Gateways that leave between two batches
leave the crank with empty ones until they are back; if they leave before the
creation the epoch has none; a prediction made before either is predicted again.
Two names and a budget of one make one name wait for another; the auction
window of two scans leaves room for one failure or one slow call, which is the
claim of `NoAuctionMissed`; a failure in the middle of a longer scan is met in
`ArnsStranded`, whose budget is two. Lookup tables need a history longer than the candidates of a
pass to starve, and exactly as long not to. At the gate two callers and a
ceiling of two fill and empty the bucket, wait behind each other, and answer a
429 each while the other waits; the two cooldowns are shorter and longer than
a second. Each bound is a constant named
`Max...` in its module.

Owner calls: the hazards are of one other change between a read and a landing,
so two calls, or one call and one move of the network, are enough; the caps are
small against the three or four sources of a portfolio, so plans run into them.
SDK calls: a scene of `MCSdkCalls` is a state the accounts can be in, the
requests that are made in it and the moves of others; the two calls take any of
its requests. A scene groups the requests that touch the same accounts;
pairs of requests from different scenes, such as a deposit into escrow with a
`syncAcl` of the same ANT, are left out. A page of two
entries is full after one ANT that its owner controls; three slots are the
fewest in which a removal from the middle moves a third gateway. The two calls
are interchangeable in everything the module says (`CallSymmetry`); no liveness
is checked in that run.

### What the violated runs show

- `EpochCrankLeak`: the close branch catches every failure and the call goes on
  to create the next epoch when its start has come. From then on the branch
  looks at a later epoch only. "Retried next tick" holds only if the next
  epoch has not been created in between, and by default it starts when the live
  one ends. The epoch and its rent stay.
- `ArnsStranded`: the conversion loop ends at the first failure. A record that
  cannot be converted and that each scan lists first ends every scan, and the
  names after it miss their auction.
- `ArnsSkew`: the program checks the start of the auction window again but not
  its end, so a client whose clock is behind puts up names that are past it.
- `LookupTablesStarve`: closed tables, and the signer's other tables, remain in
  the history; once three times `maxTables` of them are newer than a table, no
  pass looks at it again.
- `RpcRaise`: `onError` takes the advertised limit for the new rate without
  comparing it with the present one. Where a provider advertises more than the
  ceiling, a 429 brings a rate that was lowered back to the ceiling.

Disagreements found while reading, without a run: a cleanup pass is said to
make at most `maxTables` submissions (`send.ts` 871-872), but line 944 counts
those that were confirmed, so a pass whose submissions fail makes up to three
times as many; a ceiling below one request
per second is raised to one by the gate; a 429 that arrives after a cooldown
has ended and before its timer ran releases a burst, through `setRate`, just
before its own cooldown starts; a `Retry-After` beyond what `setTimeout` can
wait for (24.8 days) makes the timer fire every millisecond; the default of `batchSize` is
documented as 30 (`io-writeable.ts` 506) and is 18 (4441-4444);
`isRetryableError` retries every 4xx from 408 on, where its comment names 429
only. Those met while modelling the calls are in section 8.

## 5. Fairness

`FairSpec` of each module assumes weak fairness of each cranker's (reclaimer's)
own steps, and of time. The README of the repository has the operator call the
crank from a timer for ever, and an `await` in a call resolves or rejects, so a
call that can go on does. Fairness is of the whole call, not of each action, so
no choice within it (which error, which batch) is forced, and none of errors,
departures, lost sends that land late, trades or senders is assumed to happen.
`EpochCrank` also assumes that epochs are enabled in the end and that the
secondary index stops listing closed delegations; the crank does stand still
while it does not, and `EveryEpochCreated` is false without that assumption.
That gateways come back is not assumed: `EveryEpochCreated` and
`EveryEpochDistributed` except behaviours in which the registry is short of an
unfinished epoch's count from some time on (`Short`). The crank stands
still in these, which is what `io-writeable.ts` 4187 does if `ario-gar` waits for
the gateways an epoch was stamped with; whether it does is not in the repository.

`RpcTransport` assumes that time passes, that the event loop runs a timer that
is due, and that each request in flight is answered, which the timeouts of the
breaker and of `fetch` see to. It does not assume that 429s end: a request is
released in the end even if every answer is one, since each cooldown is started
by a request that was released before. `RateRecovers` states what it needs of
the primary as a premise.

`OwnerCalls` and `SdkCalls` state safety only and assume no fairness: an owner may
stop, a send may stay unconfirmed.

## 6. Proofs

`EpochCrankProofs` proves, for any number of crankers, observers, epochs and
gateways that come and go, any batch size, any number of failures and any skew of the clocks:

- `TypeCorrectness`: `Spec => []TypeOK`
- `CreateDecisions`: `Spec => []CreateDecisionSound`
- `CloseDecisions`: `Spec => []CloseDecisionSound`
- `Batches`: `Spec => []BatchNeverSkips`

from `EpochAssumption`, `RegistryAssumption` and `NoEpochAssumption`, which only say of which type the
constants are, that durations and batches are positive, that the observation
window is not longer than an epoch and that the observers are finitely many.

None of these is inductive. A create that is about to be sent is sound because
of what a call saw two reads before, and a transaction in flight because of what
held of a call that has ended since. The inductive invariant `IInv` therefore
adds to `TypeOK`: no epoch exists at or after the next index (`NoFutureEpoch`);
a distributed epoch is over (`DoneIsOver`); for each call what its program
counter says it has seen (`CallSound`: past the distribution check the live
epoch was settled, a cursor was the chain's, counters were equal); and for each
transaction in flight what its sender had seen (`TxSound`).

The proof is one idea used everywhere. `Forward` says what any step may do to
the accounts: the index and the cursors only grow, a distributed epoch stays
distributed with the observations it has, an epoch that is gone stays gone
below the index. `ApplyKeeps` shows that every transaction moves the chain
forward; `SettledStays`, `CursorStays` and `CountedStays` that what was seen is
not undone by a forward step; `CallStays` and `TxStays` that other calls and
transactions therefore stay sound. What is left for each action is the decision
of the call that takes it (`StepKeeps`): one lemma per action, most of them
instances of `SendKeeps`, `GotoKeeps` and `GotoWithKeeps`. The strict bound on
clocks is not needed: `now` is any integer, because the program checks time
itself and the decisions above rest on flags and counters.

`DoneIsOver` is needed for `SaveObservations`: an observation may be saved only
before the end, hence not in a distributed epoch, hence counters that were equal
stay equal.

`RpcTransportProofs` proves, for any number of callers, any ceiling, headers
and cooldowns, and timers as late as they like:

- `NoLostWakeUp`: `Spec => []WakesInTime`
- `Agreement`: `Spec => []RatesAgree`
- `Cooldowns`: `Spec => CooldownHonoured`

from `RpcAssumption`. The invariant `GateInv` says that the gate is `Good`:
well formed at a rate of at least `MIN_RATE` (`Sound`), its timer in time even
when nobody waits (`Timely`, without which a request that comes while an old
timer is set would not be woken in time), and somebody's timer set when
somebody waits (`Awake`). Each function of the gate has a lemma that it keeps a
good gate good. The one that needs arithmetic is `DrainGood`: those that are
left wait for less than a token, and at `MIN_RATE` or more a token takes at most
a second (`CeilDivBound`). `Cooldowns` speaks of every request that is fired,
whether it waited or has just come or come back: it needs in addition that
`Pump`, and so everything built on it, leaves the queue alone during a cooldown
(`PumpPaused`), that `Acquire` puts a newcomer into it, and that a turn in which
nobody left the queue fires nobody (`NobodyFired`).

The last part of `RpcTransportProofs` proves, from `RpcAssumption` too:

- `Rates`: `Spec => []RateRespected`
- `TypeCorrectness`: `Spec => []TypeOK`

`RateRespected` bounds what leaves the queue within a second, whatever the
rate did meanwhile. The argument is one of accounts: a gate is worth its tokens
and what a refill would add now (`Level`). No operation of the gate raises the
level, a request that leaves lowers it by a token, a tick raises it by the rate
at most. `TransportInv` therefore says, besides `GateInv`, that what left in
the last k ticks and the level together are at most a full bucket and k - 1
ticks at the ceiling, for every k that `recent` remembers; and, for `TypeOK`,
that the queue and the calls agree on who waits (`Lined`, `Waits`, `Apart`).

### One cranker

The rest of `EpochCrankProofs` is about a single cranker, and each theorem
names what it assumes:

- `Implementation`: `Spec => ImplementsLifecycle`, assuming `Alone`: there is
  one cranker, and a send whose confirmation is not seen does not land late.
  Reads and sends may fail and the clock may be off. With two crankers the
  refinement is false: `createEpoch` reads the index again and creates what is
  next then, so one may create the epoch after one that the other has just
  begun (this is why `CreateDecisionSound` speaks of decisions made for the
  index that is still next).
- `SoloDecisions`: `Spec => []SoloAccepted`, assuming `Undisturbed`: in
  addition the clock is not ahead, no observation is lost, and time ends
  (`MaxClock`, a bound of the model) before the start of the first epoch the
  model has no room for.
- `Cleanup`: `Spec => []CleanupKeepsUp`, assuming `Unfailing`: in addition no
  read and no send fails. `EpochCrankLeak` is the counterexample without it.

`EpochCrankSolo` satisfies all three. `Orderly` is the invariant that makes a
lone cranker simple: the index a call has read is the one that is next, and no
epoch but the live one is half way. `Fresh` adds to it what the call read and
is about to act on, and is kept because only the environment moves in between,
which moves no cursor and removes no observation. `Closing` says that a call
past the close branch has left no distributed epoch in it (`ClosesFirst`), that
each observation of an epoch is open or counted, and that the live epoch exists
(`Tidy`), without which the cold start would skip the close branch.

### ArnsLifecycleProofs

- `TypeCorrectness`: `Spec => []TypeOK`
- `Implementation`: `Spec => ImplementsLifecycle`
- `Auctions`: a lease is put up for auction less than `MaxBehind + MaxLag` after
  its window; `AuctionsEarned` is the case where both are zero, and `ArnsSkew`
  shows it false when a clock is behind

from `ArnsAssumption` alone. The invariant is `TypeOK /\ Punctual`: a call's
`now` is not behind the clock by more than `MaxBehind` and the age of the call,
and no name it is about to convert was past its window that long ago
(`Decided`). It is kept although owners trade between the scan and the
transactions: a lease past its grace period cannot be extended, and one bought
meanwhile has not lapsed (`Steady`); a tick makes the call older and the clock
later by the same.

### LookupTablesProofs

- `OtherPrograms`: `Spec => []OtherTablesUntouched`
- `Consumption`: `Spec => []ConsumeResolves`
- `TypeCorrectness`: `Spec => []TypeOK`

from `TableAssumption` and `NoTableAssumption`, whatever the lookup table
program makes of a second creation. `Sorted` gives the shapes, and that what a
pass holds was created. `Owning` adds that a table which only one send created
belongs to that send, which extends and consumes it alone; that it is in no
transaction of the history until that send lets go of it; that a pass holds
tables of the history only, so that no entry is added to a table between the
reading of its fingerprint and its deactivation. All of it is said of tables
that are not `shared`, and `shared` never turns back. What `Candidates` makes of
the history is a fold, whose lemmas come from `FoldLemmas`.

### OwnerCallsProofs

The first part is about `FundingPlan` alone, the rest about `OwnerCalls`.

- `PlannerSound`: what `BuildFundingPlan` returns, for every list of sources
  that are told apart by their names and have no negative balance, and every
  amount, mode, preferred gateway and caps: the plan and what is missing add up
  to the amount, each entry takes between 1 and what its source has, both caps
  hold, no source is named twice, and only kinds of the mode are used.
- `PlannerServes`: under the same hypotheses, whom the plan leaves out. If it
  breaks a floor, or reports something missing, it takes from every source of
  the mode all that the passes that spare floors may take, or has no room for
  it; if it reports something missing, it takes from every source of the mode
  all that can be drawn on, or has no room for some stake.
- `Plans`: `Spec => []PlanSound`
- `Floors`: `Spec => []FloorsLast`
- `GivesUp`: `Spec => []FailsOnlyIfShort`
- `LiquidKept`: `Spec => LiquidUntouched`
- `SecondsOwn`: `Spec => InstantTakesItsOwn`
- `TypeCorrectness`: `Spec => []TypeOK`

`Sound` is the invariant of the planner's state; each pass keeps it because its
sources were not drawn on by an earlier pass, except the last, which raises an
entry it finds (`Raised`). Sorting and filtering are used only through what
they preserve (`SortFacts`, `KeepFacts`: the same sources, none twice).

`PlannerServes` rests on `Served(plan, s, m)`: the plan holds an entry of `s` with
at least `m`, or refuses it (`Refused`: a cap is reached and `s` has no entry).
That lasts, whatever is added to the plan (`Onward`): entries stay and are only
raised, and as both caps hold for every plan (`Sound`), a cap once reached stays
reached. A pass serves all of its list unless it pays the rest (`PassServes`);
`Goes` collects, pass by pass, the kinds served so far, and that no floor is
broken before the last (`SparesFloors`). `FloorsLast` follows, for what is refused
may not be pushed (`RefusedNotPushed`). For `FailsOnlyIfShort`, when the usable
sources are within the caps none is refused, because the entries of the plan are
names of usable sources (`Backed`) and there would be one source more than a cap
admits; so the plan takes all of each, and what they can pay, a sum over a set, is
at most the amount planned (`CanPayAtMost`, by induction over that set, entry by
entry of the plan masked to it). The plan a call holds is the one of the sources
it saw, whatever happens to the holdings meanwhile (`Looks`).

The inductive invariant `IInv` of `OwnerCalls` says of a call by its program
counter what it holds: a well-formed request, sources read from some earlier
holdings, a plan that `Pays` its cost, transactions that are built of these.
Transactions change the holdings by `Grown`: withdrawals and vaults are only
added, and keep their gateway. So the identifier that the first transaction of
an instant decrease was given stays the call's own, which is `SecondsOwn`; and
a transaction that pays from stakes names no debit of the balance, which is
`LiquidKept`.

The proofs changed the model in three places without changing what it allows:
filters, sorts and sums are folds (`Keep`, `Place`, `Sort`, `AmountOf`) rather
than `SelectSeq` and `SortSeq`; a few helpers became operators of their own
(`Taken`, `Limit`, `Moved`, `ToVault`, `GivenSource`); and `LockChanging` and
`Withdrawing` no longer share kinds with other arms of `TxOf`, an overlap of
CASE arms that no run could notice, since TLC takes the first. New assumptions on
constants say only that gateways are finitely many and that portfolios and
given sources have the types of the code (`PortfoliosAssumption`,
`SourceLists`).

### SdkCallsLemmas and SdkCallsProofs

For any users, ANTs, names, escrows and operators, pages of any size, batches of
any even size, and any scenes that `ScenesAssumption` admits:

- `TypesKept`: `Spec => []TypeOK`
- `ClaimsAreSigned`: `Spec => ReleasedOnlyAsSigned`
- `NamesChangeAtOnce`: `Spec => ChangeAtomic`
- `BitsAreNamed`: `Spec => BitsNameGateways`
- `AnswersAreOfOneMoment`: `Spec => []StatesOfOneMoment`
- `ListsStayExact`: `Spec => []AclExact`
- `BuyersAreListed`: `Spec => AclKept`

from `LedgerAssumption`, `RegistryAssumption`, `ChunkAssumption` and
`ScenesAssumption`. The first two say that users and operators are finitely many, that the markers for nobody
and nothing are none of the values they stand in for, that no ANT is named like
an escrow of tokens, and which numbers the
periods, weights and amounts are. `ScenesAssumption` says which states a
behaviour may begin in: accounts of their types, pages that are not over full,
deposits with a nonce already given out, no operator in two slots, and entries
that accord with the history a scene gives each ANT (`Accords`).
`ChunkAssumption` says that a batch holds an even number of accounts, as the 100
of the code does.

`SdkCallsLemmas` goes through the composition from below: what each helper of
a ledger, each instruction (`OnAssetTyped`, `OnGarTyped`), each read and each
`Tx` of a call returns, given that the call was asked one of `Asks` (`Asked`) and
has read what its reads can answer (`SeenOK`). A transaction is executed
instruction by instruction, which `ExecutePath` turns from a fold over the
transaction into a sequence of states (`Path`) that the later proofs walk along.

The inductive invariant `IInv` has three parts. `AccountsOK` types the accounts.
`CallsOK` says of a call by its program counter what it was asked, what it has
seen, and of what its transaction is made (`Shape`, `AsksWell`, `SendsWell`); and
of a report nobody crossed that it is about the slots as they are
(`ReportsWell`), which is `BitsNameGateways` as soon as it lands. `EscrowsOK` is
what `ReleasedOnlyAsSigned` needs and does not say: every deposit has a nonce of
its own, already given out (`Deposited`); so a deposit somebody signed for
either still lies in its escrow, as it was, or never will again, and every
signature there is goes with a wish (`Signed`). `BoxStep` is what an instruction
may do to the escrows, `BoxPath` what a transaction may: a box is emptied, or
filled under a nonce not yet given out, or the recipient of its deposit changes
and with it the nonce.

`AnswersAreOfOneMoment` has an invariant of its own on top, `QueriesOK`: what a
query has read so far was there, each account or batch at one of the moments the
query has been through (`Honest`), and the last of these moments is now, so what
is read next is there too; whatever changes the accounts adds a moment. What is
left is what `getANTStates` does with the batches: `FlattenSeqFacts` says where
in the concatenation the values of a batch are, `ChunksFacts` that a list cut
into chunks keeps its order, and `ChunksShown` that two neighbouring accounts at
an odd and an even place fall into one chunk, because a chunk is even: this is why
the two accounts of an ANT are of one moment, and why nothing of the kind
holds for the three that `getANTSummaries` reads, each of which is only said to have
been so at some moment.

`ListsStayExact` is about how often an entry is on the pages of a list, and a
page is picked from what was read before. `Says` and `Silent` put the counts of
`Told` and `Untold` as sets of positions (`ToldSays`); `Gains` and `Loses` say
what one record or removal does to them. A transaction that only records and
removes is read as what it puts where (`Puts`, `Relisted`, `AclPath`), and the
planner is shown to plan exactly that: `BootstrapIs` for a purchase,
`SpawnRights`, `SyncRights`, `TransferRights` and `BoughtRights` for the calls
that promise exact lists. The invariants on top of `IInv` are `CallsSaw` and
`ListsOK`. `CallsSaw`: what a call that nobody crossed has read is how the accounts
are now (`NowAt`), and its transaction was built from such reads (`Built`).
`ListsOK` says by the history of an ANT what its entries are (`Accords`), more than
`AclExact` does: "exact" entries are exact and the program knows the owner; "raw"
ones are as they were for the owner it still knows, or not there yet (`Stale`),
which is what `syncAcl` and the second stage of a purchase put right; and an ANT
nobody owns has no entries (`Blank`), without which a new one could start with those of
another. Each instruction that is not about the entries of an ANT keeps all
three (`MildPath`).

`BuyersAreListed` needs the other direction as well: that the programs take what
the planner planned, whatever room the pages have. `Tracks` follows the plan one
operation at a time: the instructions so far lead to pages that are the
ones the planner works on (`HeadTracks`, `RecordTracks`), so the whole plan leads
somewhere (`BootstrapTaken`), and `PathExecute`, the converse of `ExecutePath`,
makes of it that the sync of the entries is never rejected before anything
crosses it. `BuysOK` says by stage what a purchase has left: entries untouched
and the ANT the buyer's after the first, both entries after the second, which
the third keeps. The property is one of the step in which the call returns.
Stated of every later state, as it was at first, it is not inductive and not even
true: after the call two moves outside the SDK with a `syncAcl` in between
give the buyer his ANT back without his entries, a behaviour beyond the
bounds of the run.

The proof asked for three changes of the model that do not change what it
allows: functions on few keys are written `Just` and `With` instead of with `:>` and
`@@`, `InTurn` takes the least position left over instead of filtering the
sequence of keys, and what a scene may hold became `ScenesAssumption`.

### FoldLemmas

The induction theorems of the TLAPS library take an operator as a parameter,
which the provers in use cannot instantiate. `FoldLemmas` takes sets and
functions instead: from the well-foundedness of the strict subset order on
finite sets (`FS_StrictSubsetOrderingWellFounded`, `WFMin`) it derives induction
over the naturals for a set (`NatByInduction`) and that a left fold over a
sequence has its run of intermediate results (`FoldLeftExists`). So what a fold
computes for every sequence is proved here, not assumed.

### Model-checked only

Liveness, which is outside the prover's reach (`EveryEpochCreated`,
`EveryEpochDistributed`, `EveryLapsedLeaseLeaves`, `EveryTableClosed`,
`EveryRequestAnswered`, `RateRecovers`); `NoAuctionMissed`, which rests on how
often calls happen per tick; `UnracedAccepted` of `OwnerCalls`; of `SdkCalls` `UnracedLands` and
`WalkComplete`. `WalkComplete` speaks of what was true over the whole
of a walk, `UnracedLands` of every guard of every instruction at once.

## 7. Not modelled

- Prices: what a name, an extension or an auction costs is a number the program
  decides; quotes are modelled as reads of it that may be stale.
- The funding of `SdkCalls`: its purchases take their payment for granted, which
  `OwnerCalls` models; `OwnerCalls` in turn has no ANTs.
- `redelegateStake` knows no fee; `adminSetRewardRatios` and `pruneExpiredReservation` are one
  instruction without a read and are left out.
- Reads of a single account (balances, supply, configuration, one vault) return
  what they read. The cache of the ArNS settings is left out, and so is the lag
  of the secondary index outside the epoch crank.
- How `ario-gar` treats a batch that is shorter than the stamped count: `EpochCrank`
  and `RegistryLedger` assume that it moves the cursor on by the gateways it is given.
- Byte layouts, address derivation, fee and rent estimates (`gas.ts`), signing
  order of wallets, logging, factories and HTTP helpers hold no protocol state
  and are left to the repository's unit tests. So is the CLI: each of its commands
  parses arguments, asks for confirmation and makes one call of the SDK.

## 8. Disagreements met while modelling the calls

Each is between the code and what a comment says or a caller may expect. The
properties above are stated so that they do not depend on them; where one
needed a premise for it, the premise is the reason it has.

Funding and stake
- Discovery takes 10 million mARIO for the floor of every gateway
  (`funding-plan.ts` 887-914), while whether a stake leaves a residue, and so
  which accounts the transaction names, depends on the floor the gateway set.
  `UnracedAccepted` therefore speaks of gateways at the default floor.
- The planner is greedy, and its pass over the floors ends at the first source
  the caps keep out: it may report insufficient funds although a plan within
  the caps exists. `FailsOnlyIfShort` excludes portfolios beyond the caps.
- `restrictToKind` is never used; an empty `sources` list makes
  `_materializeFundingPlan` throw; operator stake is never discovered;
  `buildPublicFundingPlan` leaves out operator withdrawals, which the planner
  would use.
- `_autoPickReturnedNameStakeSource` promises matured withdrawals only and does
  not look at maturity; `buyReturnedName` with a gateway takes the delegation
  even in mode `withdrawal`.
- `decreaseOperatorStake` ignores `instant`; `claimWithdrawal` and
  `instantWithdrawal` do not create the owner's token account, `releaseVault`
  does.
- `joinNetwork` with `allowDelegatedStaking: 'allowlist'` enables delegation
  without the list; `updateGatewaySettings` ignores that value, which
  `getGateway` returns, and sends an empty transaction when called without a field.
- `getDelegations` reads stakes and withdrawals in two scans at once, so a
  decrease in between is counted twice or not at all; live balances combine a
  delegation and a reward of two moments.

ANTs, names and access control lists
- `syncAcl` puts the owner entry at the first page with room, so a call without
  any drift may record it a second time on another page, where its comment says
  that such a call records nothing; a later transfer removes one copy. With
  controllers present it also tries to remove their live entries.
- After a raw transfer from u1 to u2 and a transfer through the SDK from u2 to u3
  the entry of u1 stays for ever; after `reconcile` `syncAcl` cannot find who held
  the stale one. `AclExact` speaks of ANTs for which neither happened.
- A transfer that crosses with `addController` leaves a stale controller entry.
- After a purchase whose bootstrap failed `syncAcl` restores the owner entry
  only, not the controller entry.
- `requestPrimaryName` removes the present primary name in the transaction of
  the request, before any approval. `getPrimaryName` splits at every underscore,
  `splitPrimaryName` at the first. `removeRecord` names no metadata account.
- `getOwner` and `getState` report `lastKnownOwner`, stale after a raw transfer.
  `getANTSummaries` splits a chunk of 100 in the middle of an ANT's three
  accounts; `getANTStates` has two and never does.
- `claimArweave` and `claimTokensArweave` send no attestation and cannot succeed
  alone.

Registry and listings
- `saveObservations` without `epochIndex` uses `current_epoch_index`, which
  `crankEpochStep` documents as the next epoch to create.
- `getObservations` decodes stored bits by the registry of the moment; after a
  removal they name other gateways. `BitsNameGateways` speaks of the registry at
  landing.
- `getFinalizableGoneGateways` goes by the stored snapshot alone if the settings
  cannot be read.
- A cursor is an offset into a list that is fetched anew, and scans have no
  order: a walk that is not sorted, or sorted with ties, need not be complete,
  and one with `limit: 0` never ends. `WalkComplete` speaks of walks sorted
  without ties, and of those over accounts in a fixed order.
