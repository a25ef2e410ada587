---------------------------- MODULE ArnsLifecycle ----------------------------
(***************************************************************************)
(* ArNS maintenance by the crank: SolanaARIOWriteable's                    *)
(* maybeArnsLifecycleStep and the three steps it runs, with the scans that *)
(* find their work (getPruneableToReturnedRecords, getExpiredReturnedNames *)
(* and getExpiredArnsRecords in io-readable.ts).                           *)
(*                                                                         *)
(* Crankers call it over and over; each samples its own clock, scans the   *)
(* accounts at most once per scan interval and step, and sends what the    *)
(* scan found.  Owners trade names meanwhile.  The program ario-arns is    *)
(* external: it checks each account again, but of prune_name_to_returned   *)
(* it checks the grace period only (io-readable.ts 3098-3101).             *)
(***************************************************************************)
EXTENDS Integers, FiniteSets

CONSTANTS
  Crankers,      \* processes that run the crank
  Names,         \* ArNS names
  Grace,         \* grace_period_seconds, in ticks
  Auction,       \* return_auction_duration_seconds, in ticks
  Terms,         \* lengths of a lease, in ticks
  Budget,        \* pruneToReturnedTxsPerCycle
  PruneBatch,    \* pruneBatchSize
  ExpiredBatch,  \* pruneExpiredBatchSize
  ScanInterval,  \* pruneScanIntervalMs, in ticks
  Polls,         \* calls a cranker makes per tick
  Skews,         \* what a cranker's clock may be off by
  MaxBehind,     \* bound: what a cranker's clock may be behind by
  MaxLag,        \* bound: the ticks that pass under one call
  MaxStuck,      \* bound: names whose record cannot be converted
  MaxTrades,     \* bound: what owners do
  MaxErrors,     \* bound: failed reads, lost confirmations and slow calls
  MaxClock       \* bound: the clock stops here

ASSUME ArnsAssumption ==
  /\ IsFiniteSet(Crankers)
  /\ Grace \in Nat /\ Auction \in Nat \ {0} /\ Terms \subseteq Nat \ {0}
  /\ Budget \in Int /\ PruneBatch \in Nat \ {0} /\ ExpiredBatch \in Nat \ {0}
  /\ ScanInterval \in Nat /\ Polls \in Nat \ {0} /\ MaxBehind \in Nat
  /\ Skews \subseteq {s \in Int : s >= -MaxBehind} /\ MaxLag \in Nat
  /\ MaxStuck \in Nat /\ MaxTrades \in Nat /\ MaxErrors \in Nat
  /\ MaxClock \in Nat

Steps == {"toReturned", "returned", "expired"}
Pcs   == {"idle", "convert", "pruneReturned", "pruneExpired"} \cup Steps

Name == [state : {"free", "lease", "permabuy", "auction"}, at : Nat]
Call == [pc : Pcs, now : Int, age : 0..MaxLag, due : SUBSET Names, left : Nat]

VARIABLES
  clock,
  name,    \* the accounts of each name: ArnsRecord or ReturnedName
  stuck,   \* names whose conversion the program refuses
  call,    \* each cranker's call in progress
  wait,    \* ticks until a cranker's step may scan again
  polls,   \* calls each cranker has made in this tick
  trades, errors

vars == <<clock, name, stuck, call, wait, polls, trades, errors>>

Free   == [state |-> "free", at |-> 0]
NoCall == [pc |-> "idle", now |-> 0, age |-> 0, due |-> {}, left |-> 0]

Init ==
  /\ clock = 0
  /\ name = [n \in Names |-> Free]
  /\ stuck \in {S \in SUBSET Names : Cardinality(S) <= MaxStuck}
  /\ call = [c \in Crankers |-> NoCall]
  /\ wait = [c \in Crankers |-> [s \in Steps |-> 0]]
  /\ polls = [c \in Crankers |-> 0]
  /\ trades = 0 /\ errors = 0

-----------------------------------------------------------------------------
(* The scans: what is due at time t.                                       *)

\* Mutant: past the grace period is enough.
LapsedOrPast(t) ==
  {n \in Names : name[n].state = "lease" /\ name[n].at + Grace <= t}

\* Mutant: the window is counted from the end of the lease.
LapsedSinceEnd(t) ==
  {n \in Names : /\ name[n].state = "lease"
                 /\ name[n].at + Grace <= t
                 /\ t < name[n].at + Auction}

\* getPruneableToReturnedRecords: a band, not a threshold.
Lapsed(t) ==
  {n \in Names : /\ name[n].state = "lease"
                 /\ name[n].at + Grace <= t
                 /\ t < name[n].at + Grace + Auction}

\* getExpiredReturnedNames.
AuctionOver(t) ==
  {n \in Names : name[n].state = "auction" /\ name[n].at + Auction <= t}

\* getExpiredArnsRecords.
WindowPassed(t) ==
  {n \in Names : /\ name[n].state = "lease"
                 /\ name[n].at + Grace + Auction <= t}

\* What the program lets a prune_name_to_returned convert.
Convertible(n) ==
  /\ name[n].state = "lease" /\ name[n].at + Grace <= clock
  /\ n \notin stuck

-----------------------------------------------------------------------------
(* One call of maybeArnsLifecycleStep.                                     *)

At(c, l) == call[c].pc = l

Return(c) == call' = [call EXCEPT ![c] = NoCall]

Goto(c, l) == call' = [call EXCEPT ![c].pc = l]

\* Mutant: the three steps share one throttle.
ThrottleAll(c, s) ==
  wait' = [wait EXCEPT ![c] = [r \in Steps |-> ScanInterval]]

\* The time of the scan is noted before the scan is made.
Throttle(c, s) == wait' = [wait EXCEPT ![c][s] = ScanInterval]

\* The names a batch takes of those that are due.
Batches(due, size) ==
  {b \in SUBSET due : /\ Cardinality(b) <= size
                      /\ b = due \/ Cardinality(b) = size}

Begin(c) ==
  /\ At(c, "idle") /\ polls[c] < Polls
  /\ polls' = [polls EXCEPT ![c] = @ + 1]
  /\ \E s \in Skews :
       call' = [call EXCEPT ![c] = [NoCall EXCEPT !.pc = "toReturned",
                                                  !.now = clock + s]]
  /\ UNCHANGED <<clock, name, stuck, wait, trades, errors>>

TxsPerScan == IF Budget < 1 THEN 1 ELSE Budget

\* A scan of step s, which finds nothing and leaves the call to step l, or
\* finds due names and goes on to send them.
Scan(c, s, due, l, send) ==
  /\ At(c, s)
  /\ IF wait[c][s] > 0
     THEN /\ IF l = "idle" THEN Return(c) ELSE Goto(c, l)
          /\ UNCHANGED wait
     ELSE /\ Throttle(c, s)
          /\ IF due # {} THEN send
             ELSE IF l = "idle" THEN Return(c) ELSE Goto(c, l)
  /\ UNCHANGED <<clock, name, stuck, polls, trades, errors>>

ScanToReturned(c) ==
  LET due == Lapsed(call[c].now) IN
  Scan(c, "toReturned", due, "returned",
       call' = [call EXCEPT ![c].pc = "convert", ![c].due = due,
                            ![c].left = TxsPerScan])

ScanReturned(c) ==
  LET due == AuctionOver(call[c].now) IN
  Scan(c, "returned", due, "expired",
       \E b \in Batches(due, PruneBatch) :
         call' = [call EXCEPT ![c].pc = "pruneReturned", ![c].due = b])

ScanExpired(c) ==
  LET due == WindowPassed(call[c].now) IN
  Scan(c, "expired", due, "idle",
       \E b \in Batches(due, ExpiredBatch) :
         call' = [call EXCEPT ![c].pc = "pruneExpired", ![c].due = b])

\* Mutant: the loop goes on while names are due.
LoopOnDue(c, rest, left) ==
  IF rest = {} THEN Return(c)
  ELSE call' = [call EXCEPT ![c].due = rest, ![c].left = left]

Loop(c, rest, left) ==
  IF rest = {} \/ left = 0 THEN Return(c)
  ELSE call' = [call EXCEPT ![c].due = rest, ![c].left = left]

ToAuction(n) ==
  name' = [name EXCEPT ![n] = [state |-> "auction", at |-> clock]]

\* The loop of maybePruneToReturnedStep: one transaction per name.  It goes
\* on after a success; a failure ends the step, as an error if it is the
\* first, as partial progress otherwise.
PruneNameToReturned(c) ==
  /\ At(c, "convert")
  /\ \E n \in call[c].due :
       \/ /\ Convertible(n)
          /\ ToAuction(n)
          /\ Loop(c, call[c].due \ {n}, call[c].left - 1)
          /\ UNCHANGED errors
       \/ /\ ~Convertible(n)
          /\ Return(c)
          /\ UNCHANGED <<name, errors>>
       \/ /\ errors < MaxErrors
          /\ errors' = errors + 1
          /\ Return(c)
          /\ IF Convertible(n) THEN ToAuction(n) \/ UNCHANGED name
             ELSE UNCHANGED name
  /\ UNCHANGED <<clock, stuck, wait, polls, trades>>

\* A batch frees the names the program finds eligible when it lands; one
\* stale account makes the program skip it or refuse the batch.
FreeBatch(c, ok) ==
  /\ \/ /\ name' = [n \in Names |-> IF n \in ok THEN Free ELSE name[n]]
        /\ UNCHANGED errors
     \/ /\ ok # call[c].due
        /\ UNCHANGED <<name, errors>>
     \/ /\ errors < MaxErrors
        /\ errors' = errors + 1
        /\ name' = [n \in Names |-> IF n \in ok THEN Free ELSE name[n]]
  /\ Return(c)
  /\ UNCHANGED <<clock, stuck, wait, polls, trades>>

PruneReturnedNames(c) ==
  At(c, "pruneReturned") /\ FreeBatch(c, call[c].due \cap AuctionOver(clock))

PruneExpiredNames(c) ==
  At(c, "pruneExpired") /\ FreeBatch(c, call[c].due \cap WindowPassed(clock))

\* A read fails, after the throttle was set, or a send before it is sent.
RpcError(c) ==
  /\ ~At(c, "idle")
  /\ errors < MaxErrors
  /\ errors' = errors + 1
  /\ IF call[c].pc \in Steps
     THEN wait[c][call[c].pc] = 0 /\ Throttle(c, call[c].pc)
     ELSE UNCHANGED wait
  /\ Return(c)
  /\ UNCHANGED <<clock, name, stuck, polls, trades>>

ArnsLifecycleStep(c) ==
  \/ Begin(c) \/ ScanToReturned(c) \/ ScanReturned(c) \/ ScanExpired(c)
  \/ PruneNameToReturned(c) \/ PruneReturnedNames(c) \/ PruneExpiredNames(c)

-----------------------------------------------------------------------------
(* The owners, and time.                                                   *)

Trade(n, x) ==
  /\ trades < MaxTrades
  /\ trades' = trades + 1
  /\ name' = [name EXCEPT ![n] = x]
  /\ UNCHANGED <<clock, stuck, call, wait, polls, errors>>

Owned == {[state |-> "permabuy", at |-> 0]} \cup
         {[state |-> "lease", at |-> clock + t] : t \in Terms}

\* buyRecord, and buyReturnedName while the auction runs.
Buy(n) ==
  /\ \/ name[n].state = "free"
     \/ name[n].state = "auction" /\ clock < name[n].at + Auction
  /\ \E x \in Owned : Trade(n, x)

ExtendLease(n) ==
  /\ name[n].state = "lease" /\ clock < name[n].at + Grace
  /\ \E t \in Terms : Trade(n, [name[n] EXCEPT !.at = @ + t])

ReleaseName(n) ==
  /\ name[n].state = "permabuy"
  /\ Trade(n, [state |-> "auction", at |-> clock])

\* The crank is called Polls times in each tick.  Time passes under a slow
\* call too, which keeps the time it began with while it sends what its scan
\* found, one transaction after the other; it ends within MaxLag ticks.
Tick ==
  /\ clock < MaxClock
  /\ \A c \in Crankers : IF At(c, "idle") THEN polls[c] = Polls
                         ELSE call[c].age < MaxLag
  /\ errors' = errors + Cardinality({c \in Crankers : ~At(c, "idle")})
  /\ errors' <= MaxErrors
  /\ clock' = clock + 1
  /\ call' = [c \in Crankers |-> IF At(c, "idle") THEN call[c]
                                ELSE [call[c] EXCEPT !.age = @ + 1]]
  /\ wait' = [c \in Crankers |->
               [s \in Steps |-> IF wait[c][s] > 0 THEN wait[c][s] - 1 ELSE 0]]
  /\ polls' = [c \in Crankers |-> 0]
  /\ UNCHANGED <<name, stuck, trades>>

Next ==
  \/ \E c \in Crankers : ArnsLifecycleStep(c) \/ RpcError(c)
  \/ \E n \in Names : Buy(n) \/ ExtendLease(n) \/ ReleaseName(n)
  \/ Tick

Spec == Init /\ [][Next]_vars

Fairness ==
  /\ \A c \in Crankers : WF_vars(ArnsLifecycleStep(c))
  /\ WF_vars(Tick)

FairSpec == Spec /\ Fairness

-----------------------------------------------------------------------------
(* Properties.                                                             *)

\* The accounts and the calls are well formed, and the loop of
\* maybePruneToReturnedStep never has fewer than one transaction left.
TypeOK ==
  /\ clock \in Nat /\ name \in [Names -> Name] /\ stuck \subseteq Names
  /\ call \in [Crankers -> Call]
  /\ \A c \in Crankers : At(c, "convert") => call[c].left > 0
  /\ wait \in [Crankers -> [Steps -> 0..ScanInterval]]
  /\ polls \in [Crankers -> 0..Polls]
  /\ trades \in 0..MaxTrades /\ errors \in 0..MaxErrors

\* The leases that missed their auction: maybeArnsLifecycleStep runs its
\* conversions first so that there are none.
Missed == WindowPassed(clock)

\* Where every record can be converted and the window is long enough for the
\* names that lapse, the budget and the failures, no lease misses its auction,
\* though scans are throttled, a failed scan waits for the next interval, sends
\* are lost and a second cranker converts the same names.
NoAuctionMissed == stuck = {} => Missed = {}

\* "One unconvertible record must not strand the rest of the backlog" (the
\* comment in maybePruneToReturnedStep): a lease that could be converted does
\* not miss its auction because of one that cannot.
NoneStranded == Missed \subseteq stuck

\* "The contract re-checks the grace window itself, so a skewed client clock
\* is safe" (the comment of maybePruneToReturnedStep), where a lease past its
\* auction window is not entitled to an auction.
AuctionsEarned ==
  [][\A n \in Names :
       name[n].state = "lease" /\ name'[n].state = "auction"
         => clock < name[n].at + Grace + Auction]_vars

\* A lease that lapses leaves the registry, converted or closed, even when its
\* conversion, or another's, fails for ever.
EveryLapsedLeaseLeaves ==
  \A n \in Names, e \in 1..(MaxClock - Grace - Auction - 2) :
    LET lease == [state |-> "lease", at |-> e] IN
    name[n] = lease ~> name[n] # lease

\* What was decided within a lease's window, on a clock that may be behind,
\* lands this much after it at most.
Late == MaxBehind + MaxLag

\* Each name keeps to its lifecycle: it is auctioned only after its grace
\* period and less than Late after its window, and freed only after its window
\* or its auction.
Lifecycle == INSTANCE NameLifecycle
ImplementsLifecycle == Lifecycle!Spec
=============================================================================
