---------------------------- MODULE RpcTransport ----------------------------
(***************************************************************************)
(* The RPC transport every read and send goes through: withRetry           *)
(* (src/src/solana/retry.ts) over a token bucket with a cooldown           *)
(* (createRateGate), over a circuit breaker with a fallback endpoint       *)
(* (createCircuitBreakerRpc, src/src/solana/rpc-circuit-breaker.ts).       *)
(*                                                                         *)
(* Callers share one gate.  The code of the gate runs in three callbacks   *)
(* that come in any order: a caller that asks for a token, an answer of    *)
(* the primary endpoint that changes the rate, and one timer.              *)
(*                                                                         *)
(* Time is relative: the gate keeps how long ago the bucket was refilled   *)
(* and how much of the cooldown and of the timer is left.  Rates count in  *)
(* 1/Unit requests per second and a second has Second ticks, so that a     *)
(* token is Unit * Second and a tick at rate r is worth r.                 *)
(***************************************************************************)
EXTENDS Integers, Sequences

CONSTANTS
  Callers,          \* callers of withRetry
  Ceiling,          \* maxRequestsPerSecond
  Unit,             \* one request per second, MIN_RATE
  Second,           \* ticks of a second
  Early,            \* ticks by which a timer may fire too early
  Limits,           \* values of x-ratelimit-rps-limit
  RetryAfters,      \* values of Retry-After, in ticks
  DefaultCooldown,  \* DEFAULT_COOLDOWN_MS
  NoHeader,         \* a header the answer does not have
  Recovery,         \* RECOVERY_SUCCESSES
  MaxAttempts       \* maxAttempts

ASSUME RpcAssumption ==
  /\ Unit \in Nat \ {0} /\ Second \in Nat \ {0}
  /\ Ceiling \in Nat \ {0} /\ Early \in Nat
  /\ Limits \subseteq Nat /\ RetryAfters \subseteq Nat /\ DefaultCooldown \in Nat
  /\ NoHeader \notin Nat
  /\ Recovery \in Nat \ {0} /\ MaxAttempts \in Nat \ {0}

VARIABLES
  gate,         \* the variables of createRateGate
  currentRate,  \* the rate the controller believes in
  streak,       \* successStreak
  breaker,      \* the state of the circuit
  call,         \* each caller's request
  recent        \* history: the requests released in each tick of the second
                \* that ends now, recent[1] in the present one

vars == <<gate, currentRate, streak, breaker, call, recent>>

Larger(a, b)  == IF a >= b THEN a ELSE b
Smaller(a, b) == IF a <= b THEN a ELSE b
CeilDiv(a, b) == (a + b - 1) \div b

NoTimer     == -1
Token       == Unit * Second
Capacity(r) == Larger(Token, r * Second)

Gates == [rate : Nat \ {0}, tokens : Nat, age : 0..Second, pause : Nat,
          timer : Nat \cup {NoTimer}, queue : Seq(Callers)]

Pcs  == {"idle", "queued", "primary", "fallback", "sleeping"}
Call == [pc : Pcs, attempt : 0..MaxAttempts - 1]

-----------------------------------------------------------------------------
(* The gate.                                                               *)

\* One timer at a time: a timer that is set stays, whatever it was set for.
Schedule(g, ms) ==
  IF g.timer # NoTimer THEN g ELSE [g EXCEPT !.timer = Larger(ms, 1)]

\* Mutant: the bucket overflows.
RefillUncapped(g) == [g EXCEPT !.tokens = @ + g.age * g.rate, !.age = 0]

Refill(g) ==
  [g EXCEPT !.tokens = Smaller(Capacity(g.rate), @ + g.age * g.rate),
            !.age = 0]

\* Mutant: no timer for the requests that are left.
WaitingAsleep(g) == g

Waiting(g) ==
  IF g.queue = <<>> THEN g
  ELSE Schedule(g, CeilDiv(Token - g.tokens, g.rate))

\* The requests a bucket has tokens for leave the queue, first come first.
Drain(g) ==
  LET n == Smaller(g.tokens \div Token, Len(g.queue))
  IN  Waiting([g EXCEPT !.tokens = @ - n * Token,
                        !.queue = SubSeq(@, n + 1, Len(@))])

\* Mutant: a timer that fires in a cooldown is not set again.
PumpOnce(g) == IF g.pause > 0 THEN g ELSE Drain(Refill(g))

Pump(g) == IF g.pause > 0 THEN Schedule(g, g.pause) ELSE Drain(Refill(g))

\* Mutant: who finds the queue empty and a token left takes it at once.
AcquireAtOnce(g, c) ==
  IF g.queue = <<>> /\ Refill(g).tokens >= Token
  THEN [Refill(g) EXCEPT !.tokens = @ - Token]
  ELSE Pump([g EXCEPT !.queue = Append(@, c)])

Acquire(g, c) == Pump([g EXCEPT !.queue = Append(@, c)])

\* Mutant: a new rate starts with a full bucket.
SetRateFull(g, r) ==
  LET rate == Larger(Unit, r)
  IN  Pump([g EXCEPT !.rate = rate, !.age = 0, !.tokens = Capacity(rate)])

SetRate(g, r) ==
  LET rate == Larger(Unit, r)
  IN  Pump([g EXCEPT !.rate = rate, !.age = 0,
                     !.tokens = Smaller(@, Capacity(rate))])

PauseFor(g, ms) == Schedule([g EXCEPT !.pause = Larger(@, ms)], ms)

-----------------------------------------------------------------------------
(* The controller.                                                         *)

\* The rate after an answer with status 429.
RateAfter(limit) ==
  IF limit # NoHeader /\ limit > 0
  THEN Smaller(Ceiling, Larger(Unit, (limit * 9) \div 10))
  ELSE Larger(Unit, currentRate \div 2)

\* Mutant: the gate is not told.
SetToUntold(rate) == gate

SetTo(rate) == IF rate = currentRate THEN gate ELSE SetRate(gate, rate)

OnError(limit, after) ==
  LET cooldown == IF after = NoHeader THEN DefaultCooldown ELSE after
  IN  PauseFor(SetTo(RateAfter(limit)), cooldown)

Recovers == currentRate < Ceiling /\ streak + 1 >= Recovery
Raised   == Smaller(Ceiling, currentRate + Unit)

\* Mutant: only the gate is raised.
RateAfterSuccessKept == currentRate

RateAfterSuccess == IF Recovers THEN Raised ELSE currentRate

-----------------------------------------------------------------------------
Init ==
  /\ gate = [rate |-> Larger(Unit, Ceiling),
             tokens |-> Capacity(Larger(Unit, Ceiling)), age |-> 0,
             pause |-> 0, timer |-> NoTimer, queue |-> <<>>]
  /\ currentRate = Ceiling /\ streak = 0
  /\ breaker = "closed"
  /\ call = [c \in Callers |-> [pc |-> "idle", attempt |-> 0]]
  /\ recent = [i \in 1..Second |-> 0]

\* The requests that leave the queue when waiting becomes g.queue.
Released(waiting, g) == SubSeq(waiting, 1, Len(waiting) - Len(g.queue))

\* Where the i-th request released in one turn goes: an open circuit answers
\* from the fallback, a half open one lets one request through.
Fired(b, i) ==
  IF b = "closed" \/ (b = "halfOpen" /\ i = 1) THEN "primary" ELSE "fallback"

\* The gate becomes g and the requests it let go of are fired, all with the
\* state b the circuit has at the end of the turn.
Release(waiting, g, b, calls) ==
  LET out == Released(waiting, g)
      fire(c) == CHOOSE i \in 1..Len(out) : out[i] = c
  IN  /\ gate' = g
      /\ breaker' = IF b = "halfOpen" /\ out # <<>> THEN "probing" ELSE b
      /\ call' = [c \in Callers |->
                    IF \E i \in 1..Len(out) : out[i] = c
                    THEN [calls[c] EXCEPT !.pc = Fired(b, fire(c))]
                    ELSE calls[c]]
      /\ recent' = [recent EXCEPT ![1] = @ + Len(out)]

Queue(c, attempt) ==
  Release(Append(gate.queue, c), Acquire(gate, c), breaker,
          [call EXCEPT ![c] = [pc |-> "queued", attempt |-> attempt]])

\* withRetry makes its first attempt.
Request(c) ==
  /\ call[c].pc = "idle"
  /\ Queue(c, 0)
  /\ UNCHANGED <<currentRate, streak>>

\* The delay of withRetry is over, whatever its jitter made of it.
Retry(c) ==
  /\ call[c].pc = "sleeping"
  /\ Queue(c, call[c].attempt + 1)
  /\ UNCHANGED <<currentRate, streak>>

Idle(c)  == [call EXCEPT ![c] = [pc |-> "idle", attempt |-> 0]]
Fails(c) == [call EXCEPT ![c].pc = "fallback"]

\* A success at the primary closes a circuit that is being probed.
Closed(b) == IF b \in {"halfOpen", "probing"} THEN "closed" ELSE b

\* A failure opens it again, and may open a closed one.
Opens(b) == IF b = "closed" THEN {"closed", "open"} ELSE {"open"}

PrimarySucceeds(c) ==
  /\ call[c].pc = "primary"
  /\ streak' = IF currentRate >= Ceiling THEN streak
               ELSE IF Recovers THEN 0 ELSE streak + 1
  /\ currentRate' = RateAfterSuccess
  /\ Release(gate.queue, IF Recovers THEN SetRate(gate, Raised) ELSE gate,
             Closed(breaker), Idle(c))

\* The primary answers 429: the rate is changed, which pumps the queue, and
\* then the cooldown starts.
RateLimited(c) ==
  /\ call[c].pc = "primary"
  /\ streak' = 0
  /\ \E limit \in Limits \cup {NoHeader}, after \in RetryAfters \cup {NoHeader},
        b \in Opens(breaker) :
       /\ currentRate' = RateAfter(limit)
       /\ Release(gate.queue, OnError(limit, after), b, Fails(c))

\* Any other failure, or the breaker's timeout: the rate stays as it is.
PrimaryFails(c) ==
  /\ call[c].pc = "primary"
  /\ call' = Fails(c)
  /\ breaker' \in Opens(breaker)
  /\ UNCHANGED <<gate, currentRate, streak, recent>>

FallbackSucceeds(c) ==
  /\ call[c].pc = "fallback"
  /\ call' = Idle(c)
  /\ UNCHANGED <<gate, currentRate, streak, breaker, recent>>

\* The error reaches withRetry, which waits for another attempt or, when it
\* was the last or the error is not retryable, gives up.
FallbackFails(c) ==
  /\ call[c].pc = "fallback"
  /\ \/ /\ call[c].attempt < MaxAttempts - 1
        /\ call' = [call EXCEPT ![c].pc = "sleeping"]
     \/ call' = Idle(c)
  /\ UNCHANGED <<gate, currentRate, streak, breaker, recent>>

\* resetTimeout after the circuit opened, a request may probe the primary.
HalfOpens ==
  /\ breaker = "open" /\ breaker' = "halfOpen"
  /\ UNCHANGED <<gate, currentRate, streak, call, recent>>

TimerFires ==
  /\ gate.timer \in 0..Early
  /\ Release(gate.queue, Pump([gate EXCEPT !.timer = NoTimer]), breaker, call)
  /\ UNCHANGED <<currentRate, streak>>

\* A bucket is full after a second, at any rate.  A timer may be late.
Tick ==
  /\ gate' = [gate EXCEPT !.age = Smaller(Second, @ + 1),
                          !.pause = Larger(0, @ - 1),
                          !.timer = IF @ = NoTimer THEN @ ELSE Larger(0, @ - 1)]
  /\ recent' = [i \in 1..Second |-> IF i = 1 THEN 0 ELSE recent[i - 1]]
  /\ UNCHANGED <<currentRate, streak, breaker, call>>

Answer(c) ==
  \/ PrimarySucceeds(c) \/ RateLimited(c) \/ PrimaryFails(c)
  \/ FallbackSucceeds(c) \/ FallbackFails(c)

Next ==
  \/ \E c \in Callers : Request(c) \/ Retry(c) \/ Answer(c)
  \/ HalfOpens \/ TimerFires \/ Tick

Spec == Init /\ [][Next]_vars

\* Time passes and the event loop runs timers that are due.  A request in
\* flight is answered in the end, if only by the timeout of the breaker or of
\* fetch, and the delay of withRetry ends: for each caller the same as weak
\* fairness of Retry(c) \/ Answer(c), which is enabled in the other states.
Fairness ==
  /\ WF_vars(Tick) /\ WF_vars(TimerFires)
  /\ \A c \in Callers : []<>(call[c].pc \in {"idle", "queued"})

FairSpec == Spec /\ Fairness

-----------------------------------------------------------------------------
(* Properties.                                                             *)

\* The gate, the circuit and the calls are well formed; a bucket holds no
\* more than its capacity; who is queued is in the queue, once.
TypeOK ==
  /\ gate \in Gates /\ gate.tokens <= Capacity(gate.rate)
  /\ currentRate \in Nat \ {0} /\ streak \in 0..Recovery - 1
  /\ breaker \in {"closed", "open", "halfOpen", "probing"}
  /\ call \in [Callers -> Call]
  /\ recent \in [1..Second -> Nat]
  /\ \A c \in Callers : (call[c].pc = "queued")
                          <=> \E i \in 1..Len(gate.queue) : gate.queue[i] = c
  /\ \A i, j \in 1..Len(gate.queue) : gate.queue[i] = gate.queue[j] => i = j

\* No lost wake-up: while a request waits a timer is set, and, though a timer
\* is never set again for an earlier time, it is not later than the end of the
\* cooldown or, if that is sooner, one second.
WakesInTime ==
  gate.queue # <<>> =>
    gate.timer # NoTimer /\ gate.timer <= Larger(Second, gate.pause)

\* The gate and the controller, which keep the rate each for itself, agree on
\* it, and it stays between MIN_RATE and the ceiling (a ceiling below MIN_RATE
\* excepted).
RatesAgree ==
  /\ gate.rate = Larger(Unit, currentRate)
  /\ gate.rate <= Larger(Unit, Ceiling)

\* Whatever the order in which rate changes, cooldowns and timers come, the
\* requests released within one second are at most the burst of a full bucket
\* and what one second at the ceiling refills.
RateRespected ==
  LET sum[i \in 0..Second] == IF i = 0 THEN 0 ELSE recent[i] + sum[i - 1]
  IN  sum[Second] * Token
        <= Capacity(Larger(Unit, Ceiling)) + (Second - 1) * Larger(Unit, Ceiling)

\* A request that was let go of is on its way to one of the endpoints.
InFlight(k) == k.pc \in {"primary", "fallback"}

\* A cooldown that an answer asked for is never cut short, by a later answer
\* that asks for less, by a change of the rate or by an older timer: it only
\* passes with time.  Until it has, no request goes out, neither one that
\* waits nor a new one nor a retry that comes while tokens are left and the
\* queue is empty (acquire and pump of createRateGate).
CooldownHonoured ==
  [][/\ gate'.pause >= gate.pause - 1
     /\ gate.pause > 0 => \A c \in Callers :
          InFlight(call'[c]) => InFlight(call[c])]_vars

\* "The bucket auto-tunes on 429s: it honors `Retry-After`, drops to
\* `x-ratelimit-rps-limit` when the provider advertises one [...], otherwise
\* halves the rate" (maxRequestsPerSecond): an answer with status 429 never
\* raises the rate.
BacksOff ==
  [][(\E c \in Callers : RateLimited(c)) => currentRate' <= currentRate]_vars

\* Every request gets its answer, or withRetry's last error.
EveryRequestAnswered ==
  \A c \in Callers : call[c].pc # "idle" ~> call[c].pc = "idle"

\* The primary's answer to c, told by where the call goes.
Answered(c, to) == call[c].pc = "primary" /\ call'[c].pc = to

\* "It recovers back up toward this ceiling on sustained success": when from
\* some time on the primary answers again and again and fails no more, the
\* rate returns to the ceiling.
RateRecovers ==
  /\ []<><<\E c \in Callers : Answered(c, "idle")>>_vars
  /\ <>[][\A c \in Callers : ~Answered(c, "fallback")]_vars
  => <>[](currentRate >= Ceiling)
=============================================================================
