------------------------- MODULE RpcTransportProofs -------------------------
(***************************************************************************)
(* For every number of callers, every ceiling, every header, cooldown and  *)
(* lateness of timers: no wake-up of the gate is lost (WakesInTime), the   *)
(* gate and its controller agree on the rate (RatesAgree), cooldowns are   *)
(* honoured (CooldownHonoured), the requests released within a second are  *)
(* at most a full bucket and a second's refill (RateRespected), and the    *)
(* gate and the calls agree on who waits (TypeOK).                         *)
(*                                                                         *)
(* The gate is a record and its operations are functions on it, so most of *)
(* the work is lemmas about these.  The invariant, GateInv, adds to the    *)
(* properties what the operations need: the gate's shape, and that the     *)
(* timer is in time even while nobody waits.                               *)
(*                                                                         *)
(* For the rate the argument is one of accounts: a gate is worth its       *)
(* tokens and what a refill would add to them (Level).  No operation       *)
(* raises the level, each request that is released lowers it by a token,   *)
(* and a tick raises it by the rate at most.  So what was released in the  *)
(* last k ticks and the level together never exceed a full bucket and      *)
(* k - 1 ticks at the ceiling.                                             *)
(***************************************************************************)
EXTENDS RpcTransport, FoldLemmas

\* The shape of the gate, whose rate is never below MIN_RATE.
Sound(g) == g \in Gates /\ g.rate >= Unit

\* A timer that is set is in time.
Timely(g) == g.timer # NoTimer => g.timer <= Larger(Second, g.pause)

\* Whoever waits is woken.
Awake(g) == g.queue # <<>> => g.timer # NoTimer

Good(g) == Sound(g) /\ Timely(g) /\ Awake(g)

GateInv ==
  /\ Good(gate)
  /\ currentRate \in Nat \ {0} /\ currentRate <= Larger(Unit, Ceiling)
  /\ gate.rate = Larger(Unit, currentRate)

-----------------------------------------------------------------------------
(* Arithmetic.                                                             *)

LEMMA TokenType == Token \in Nat \ {0} /\ Token = Unit * Second
<1>1. Unit \in Nat \ {0} /\ Second \in Nat \ {0}
  BY RpcAssumption
<1>2. \A a, b \in Nat \ {0} : a * b \in Nat \ {0}
  BY SMT
<1> QED BY <1>1, <1>2 DEF Token

\* A quotient rounded up is bounded by what bounds the dividend.
LEMMA CeilDivBound ==
  ASSUME NEW a \in Nat, NEW b \in Nat \ {0}, NEW s \in Nat, a <= b * s
  PROVE  CeilDiv(a, b) \in Nat /\ CeilDiv(a, b) <= s
<1> DEFINE q == (a + b - 1) \div b
<1>1. q \in Nat /\ b * q <= a + b - 1
  BY SMT
<1>2. b * q < b * (s + 1)
  BY <1>1, SMT
<1>3. q < s + 1
  BY <1>1, <1>2, SMT
<1> QED BY <1>1, <1>3 DEF CeilDiv

\* Taking as many whole tokens as there are leaves less than one.
LEMMA WholeTokens ==
  ASSUME NEW t \in Nat, NEW k \in Nat \ {0}
  PROVE  /\ t \div k \in Nat /\ (t \div k) * k <= t
         /\ t - (t \div k) * k < k
BY SMT

\* Taking fewer leaves no debt.
LEMMA FewerTokens ==
  ASSUME NEW t \in Nat, NEW k \in Nat \ {0}, NEW n \in Nat, n <= t \div k
  PROVE  n * k \in Nat /\ n * k <= t
<1>1. t \div k \in Nat /\ (t \div k) * k <= t
  BY WholeTokens
<1>2. n * k <= (t \div k) * k /\ n * k \in Nat
  BY <1>1, SMT
<1> QED BY <1>1, <1>2, SMT

-----------------------------------------------------------------------------
(* The operations of the gate.                                             *)

\* A timer is set, and to what was asked for if none was before.
LEMMA ScheduleSets ==
  ASSUME NEW g, Sound(g), NEW ms \in Nat
  PROVE  /\ Sound(Schedule(g, ms))
         /\ Schedule(g, ms).timer # NoTimer
         /\ Schedule(g, ms).timer = (IF g.timer # NoTimer THEN g.timer
                                     ELSE Larger(ms, 1))
         /\ Schedule(g, ms).pause = g.pause
         /\ Schedule(g, ms).queue = g.queue
         /\ Schedule(g, ms).rate = g.rate
<1> USE DEF Sound, Gates
<1>1. CASE g.timer # NoTimer
  BY <1>1 DEF Schedule
<1>2. CASE g.timer = NoTimer
  <2>1. Larger(ms, 1) \in Nat /\ Larger(ms, 1) # NoTimer
    BY DEF Larger, NoTimer
  <2>2. Schedule(g, ms) = [g EXCEPT !.timer = Larger(ms, 1)]
    BY <1>2 DEF Schedule
  <2> QED BY <1>2, <2>1, <2>2
<1> QED BY <1>1, <1>2

\* A request scheduled in time makes the gate good.
LEMMA ScheduleInTime ==
  ASSUME NEW g, Sound(g), Timely(g), NEW ms \in Nat,
         Larger(ms, 1) <= Larger(Second, g.pause)
  PROVE  Good(Schedule(g, ms))
BY ScheduleSets DEF Good, Timely, Awake

\* Refilling changes the tokens and their age only.
LEMMA RefillKeeps ==
  ASSUME NEW g, Sound(g)
  PROVE  /\ Sound(Refill(g))
         /\ Refill(g).rate = g.rate /\ Refill(g).pause = g.pause
         /\ Refill(g).timer = g.timer /\ Refill(g).queue = g.queue
<1> DEFINE t == Smaller(Capacity(g.rate), g.tokens + g.age * g.rate)
<1>1. g.rate \in Nat \ {0} /\ g.tokens \in Nat /\ g.age \in Nat /\ Second \in Nat
  BY RpcAssumption DEF Sound, Gates
<1>2. g.age * g.rate \in Nat /\ g.rate * Second \in Nat
  BY <1>1, SMT
<1>3. t \in Nat
  BY <1>1, <1>2, TokenType DEF Smaller, Capacity, Larger
<1>4. Refill(g) = [g EXCEPT !.tokens = t, !.age = 0]
  BY DEF Refill
<1>5. 0 \in 0..Second
  BY RpcAssumption
<1> HIDE DEF t
<1> QED BY <1>3, <1>4, <1>5 DEF Sound, Gates

\* Draining leaves a timer for those it leaves, set for at most a second.
LEMMA DrainGood ==
  ASSUME NEW g, Sound(g), Timely(g)
  PROVE  Good(Drain(g)) /\ Drain(g).rate = g.rate
<1> DEFINE n == Smaller(g.tokens \div Token, Len(g.queue))
           h == [g EXCEPT !.tokens = @ - n * Token,
                          !.queue = SubSeq(@, n + 1, Len(@))]
<1>1. /\ g.tokens \in Nat /\ g.queue \in Seq(Callers) /\ Len(g.queue) \in Nat
      /\ g.rate \in Nat \ {0} /\ g.rate >= Unit
  BY DEF Sound, Gates
<1>2. n \in Nat /\ n <= g.tokens \div Token /\ n <= Len(g.queue)
  BY <1>1, TokenType, WholeTokens DEF Smaller
<1>3. n * Token \in Nat /\ n * Token <= g.tokens
  BY <1>1, <1>2, TokenType, FewerTokens
<1>4. SubSeq(g.queue, n + 1, Len(g.queue)) \in Seq(Callers)
  <2>1. \A i \in n + 1 .. Len(g.queue) : g.queue[i] \in Callers
    BY <1>1, <1>2
  <2> QED BY <1>1, <1>2, <2>1
<1>5. /\ Sound(h) /\ Timely(h) /\ h.rate = g.rate /\ h.pause = g.pause
      /\ h.tokens = g.tokens - n * Token
      /\ h.queue = SubSeq(g.queue, n + 1, Len(g.queue))
  <2>1. g.tokens - n * Token \in Nat
    BY <1>1, <1>3
  <2> HIDE DEF n
  <2> QED BY <1>4, <2>1 DEF Sound, Gates, Timely
<1>6. Drain(g) = Waiting(h)
  BY DEF Drain
<1>7. CASE h.queue = <<>>
  <2>1. Waiting(h) = h
    BY <1>7 DEF Waiting
  <2> HIDE DEF h
  <2> QED BY <1>5, <1>6, <1>7, <2>1 DEF Good, Awake
<1>8. CASE h.queue # <<>>
  <2> DEFINE ms == CeilDiv(Token - h.tokens, h.rate)
  <2>1. n < Len(g.queue)
    <3>1. SUFFICES ASSUME n = Len(g.queue) PROVE FALSE
      BY <1>1, <1>2
    <3>2. SubSeq(g.queue, n + 1, Len(g.queue)) = <<>>
      BY <1>1, <3>1
    <3> QED BY <1>5, <1>8, <3>2
  <2>2. n = g.tokens \div Token
    BY <1>1, <2>1, TokenType, WholeTokens DEF Smaller
  <2>3. g.tokens - n * Token < Token
    BY <1>1, <2>2, TokenType, WholeTokens
  <2>4. Token - h.tokens \in Nat /\ Token - h.tokens <= Token
    BY <1>1, <1>3, <1>5, <2>3, TokenType
  <2>5. Token <= h.rate * Second
    <3>1. \A a, b, c \in Nat : a >= b => a * c >= b * c
      BY SMT
    <3> QED BY <1>1, <1>5, <3>1, TokenType, RpcAssumption
  <2> HIDE DEF h, n
  <2>6. h.rate \in Nat \ {0} /\ Second \in Nat \ {0}
    BY <1>1, <1>5, RpcAssumption
  <2>7. Token - h.tokens <= h.rate * Second
    <3>1. h.rate * Second \in Nat
      BY <2>6, SMT
    <3> QED BY <2>4, <2>5, <3>1, TokenType
  <2>8. ms \in Nat /\ ms <= Second
    BY <2>4, <2>6, <2>7, CeilDivBound
  <2> HIDE DEF ms
  <2>9. Larger(ms, 1) <= Larger(Second, h.pause)
    BY <1>5, <2>6, <2>8 DEF Larger, Sound, Gates
  <2>10. Waiting(h) = Schedule(h, ms)
    BY <1>8 DEF Waiting, ms
  <2>11. Good(Schedule(h, ms))
    BY <1>5, <2>8, <2>9, ScheduleInTime
  <2>12. Schedule(h, ms).rate = h.rate
    BY <1>5, <2>8, ScheduleSets
  <2> QED BY <1>5, <1>6, <2>10, <2>11, <2>12
<1> QED BY <1>7, <1>8

\* Whatever the gate waits for, a pump leaves it good.
LEMMA PumpGood ==
  ASSUME NEW g, Sound(g), Timely(g)
  PROVE  Good(Pump(g)) /\ Pump(g).rate = g.rate
<1>1. CASE g.pause > 0
  <2>1. Pump(g) = Schedule(g, g.pause)
    BY <1>1 DEF Pump
  <2>2. g.pause \in Nat
    BY DEF Sound, Gates
  <2>3. Larger(g.pause, 1) <= Larger(Second, g.pause)
    BY <1>1, <2>2, RpcAssumption DEF Larger
  <2> QED BY <2>1, <2>2, <2>3, ScheduleInTime, ScheduleSets
<1>2. CASE ~(g.pause > 0)
  <2>1. Pump(g) = Drain(Refill(g))
    BY <1>2 DEF Pump
  <2>2. Sound(Refill(g)) /\ Timely(Refill(g)) /\ Refill(g).rate = g.rate
    BY RefillKeeps DEF Timely
  <2> QED BY <2>1, <2>2, DrainGood
<1> QED BY <1>1, <1>2

\* A caller that queues leaves the gate good.
LEMMA AcquireGood ==
  ASSUME NEW g, Good(g), NEW c \in Callers
  PROVE  Good(Acquire(g, c)) /\ Acquire(g, c).rate = g.rate
<1> DEFINE h == [g EXCEPT !.queue = Append(@, c)]
<1>1. Sound(h) /\ Timely(h) /\ h.rate = g.rate
  <2>1. Append(g.queue, c) \in Seq(Callers)
    BY DEF Good, Sound, Gates
  <2> QED BY <2>1 DEF Good, Sound, Gates, Timely
<1>2. Acquire(g, c) = Pump(h)
  BY DEF Acquire
<1> HIDE DEF h
<1> QED BY <1>1, <1>2, PumpGood

\* A change of the rate sets the rate asked for, or MIN_RATE.
LEMMA SetRateGood ==
  ASSUME NEW g, Good(g), NEW r \in Nat
  PROVE  Good(SetRate(g, r)) /\ SetRate(g, r).rate = Larger(Unit, r)
<1> DEFINE rate == Larger(Unit, r)
           t == Smaller(g.tokens, Capacity(rate))
           h == [g EXCEPT !.rate = rate, !.age = 0, !.tokens = t]
<1>1. rate \in Nat \ {0} /\ rate >= Unit
  BY RpcAssumption DEF Larger
<1>2. t \in Nat
  <2>1. rate * Second \in Nat
    BY <1>1, RpcAssumption, SMT
  <2>2. Capacity(rate) \in Nat
    BY <2>1, TokenType DEF Capacity, Larger
  <2> HIDE DEF rate
  <2> QED BY <2>2 DEF Smaller, Good, Sound, Gates
<1>3. 0 \in 0..Second
  BY RpcAssumption
<1>4. SetRate(g, r) = Pump(h)
  BY DEF SetRate
<1>5. Sound(h) /\ Timely(h) /\ h.rate = rate
  <2> HIDE DEF rate, t
  <2> QED BY <1>1, <1>2, <1>3 DEF Good, Sound, Gates, Timely
<1> HIDE DEF h
<1> QED BY <1>4, <1>5, PumpGood

\* A cooldown leaves the gate good.
LEMMA PauseForGood ==
  ASSUME NEW g, Good(g), NEW ms \in Nat
  PROVE  Good(PauseFor(g, ms)) /\ PauseFor(g, ms).rate = g.rate
<1> DEFINE p == Larger(g.pause, ms)
           h == [g EXCEPT !.pause = p]
<1>1. p \in Nat /\ p >= g.pause /\ p >= ms
  BY DEF Larger, Good, Sound, Gates
<1>2. Sound(h) /\ h.pause = p /\ h.rate = g.rate /\ h.timer = g.timer
  <2> HIDE DEF p
  <2> QED BY <1>1 DEF Good, Sound, Gates
<1>3. g.pause \in Nat /\ g.timer \in Int /\ Second \in Nat \ {0}
  BY RpcAssumption DEF Good, Sound, Gates, NoTimer
<1>4. Timely(h)
  <2> HIDE DEF p, h
  <2> QED BY <1>1, <1>2, <1>3 DEF Good, Timely, Larger
<1>5. Larger(ms, 1) <= Larger(Second, h.pause)
  <2> HIDE DEF p, h
  <2> QED BY <1>1, <1>2, <1>3 DEF Larger
<1>6. PauseFor(g, ms) = Schedule(h, ms)
  BY DEF PauseFor
<1> HIDE DEF h
<1> QED BY <1>2, <1>4, <1>5, <1>6, ScheduleInTime, ScheduleSets

\* A pump leaves the cooldown alone and, while it lasts, the queue.
LEMMA PumpPaused ==
  ASSUME NEW g, Sound(g)
  PROVE  /\ Pump(g).pause = g.pause
         /\ g.pause > 0 => Pump(g).queue = g.queue
<1>1. CASE g.pause > 0
  <2>1. Pump(g) = Schedule(g, g.pause) /\ g.pause \in Nat
    BY <1>1 DEF Pump, Sound, Gates
  <2> QED BY <2>1, ScheduleSets
<1>2. CASE ~(g.pause > 0)
  <2>1. Pump(g) = Drain(Refill(g))
    BY <1>2 DEF Pump
  <2>2. ASSUME NEW h, Sound(h) PROVE Drain(h).pause = h.pause
    <3> DEFINE n == Smaller(h.tokens \div Token, Len(h.queue))
               k == [h EXCEPT !.tokens = @ - n * Token,
                              !.queue = SubSeq(@, n + 1, Len(@))]
               ms == CeilDiv(Token - k.tokens, k.rate)
    <3>1. Drain(h) = Waiting(k) /\ (Waiting(k) = k \/ Waiting(k) = Schedule(k, ms))
      BY DEF Drain, Waiting
    <3>2. k.pause = h.pause /\ \A t : [k EXCEPT !.timer = t].pause = h.pause
      <4> HIDE DEF n
      <4> QED BY <2>2 DEF Sound, Gates
    <3>3. Schedule(k, ms).pause = h.pause
      <4> HIDE DEF k, ms
      <4> QED BY <3>2 DEF Schedule
    <3> QED BY <3>1, <3>2, <3>3
  <2> QED BY <1>2, <2>1, <2>2, RefillKeeps
<1> QED BY <1>1, <1>2

\* Neither does a change of the rate.
LEMMA SetRatePaused ==
  ASSUME NEW g, Good(g), NEW r \in Nat
  PROVE  /\ SetRate(g, r).pause = g.pause
         /\ g.pause > 0 => SetRate(g, r).queue = g.queue
<1> DEFINE rate == Larger(Unit, r)
           t == Smaller(g.tokens, Capacity(rate))
           h == [g EXCEPT !.rate = rate, !.age = 0, !.tokens = t]
<1>1. rate \in Nat \ {0} /\ rate >= Unit
  BY RpcAssumption DEF Larger
<1>2. t \in Nat
  <2>1. rate * Second \in Nat
    BY <1>1, RpcAssumption, SMT
  <2>2. Capacity(rate) \in Nat
    BY <2>1, TokenType DEF Capacity, Larger
  <2> HIDE DEF rate
  <2> QED BY <2>2 DEF Smaller, Good, Sound, Gates
<1>3. 0 \in 0..Second
  BY RpcAssumption
<1>4. SetRate(g, r) = Pump(h)
  BY DEF SetRate
<1>5. Sound(h) /\ h.pause = g.pause /\ h.queue = g.queue
  <2> HIDE DEF rate, t
  <2> QED BY <1>1, <1>2, <1>3 DEF Good, Sound, Gates
<1> HIDE DEF h
<1> QED BY <1>4, <1>5, PumpPaused

\* A caller that queues in a cooldown queues behind the others.
LEMMA AcquirePaused ==
  ASSUME NEW g, Good(g), NEW c \in Callers
  PROVE  /\ Acquire(g, c).pause = g.pause
         /\ g.pause > 0 => Acquire(g, c).queue = Append(g.queue, c)
<1> DEFINE h == [g EXCEPT !.queue = Append(@, c)]
<1>1. Sound(h) /\ h.pause = g.pause /\ h.queue = Append(g.queue, c)
  <2>1. Append(g.queue, c) \in Seq(Callers)
    BY DEF Good, Sound, Gates
  <2> QED BY <2>1 DEF Good, Sound, Gates
<1>2. Acquire(g, c) = Pump(h)
  BY DEF Acquire
<1> HIDE DEF h
<1> QED BY <1>1, <1>2, PumpPaused

\* A cooldown only adds to the one there is.
LEMMA PauseForPaused ==
  ASSUME NEW g, Good(g), NEW ms \in Nat
  PROVE  PauseFor(g, ms).pause >= g.pause /\ PauseFor(g, ms).queue = g.queue
<1> DEFINE p == Larger(g.pause, ms)
           h == [g EXCEPT !.pause = p]
<1>1. p \in Nat /\ p >= g.pause
  BY DEF Larger, Good, Sound, Gates
<1>2. Sound(h) /\ h.pause = p /\ h.queue = g.queue
  <2> HIDE DEF p
  <2> QED BY <1>1 DEF Good, Sound, Gates
<1>3. PauseFor(g, ms) = Schedule(h, ms)
  BY DEF PauseFor
<1> HIDE DEF h, p
<1> QED BY <1>1, <1>2, <1>3, ScheduleSets

\* When nobody leaves the queue, nobody is fired.
LEMMA NobodyFired ==
  ASSUME NEW w \in Seq(Callers), NEW g, g.queue = w, NEW b, NEW calls,
         Release(w, g, b, calls)
  PROVE  \A c \in Callers : call'[c] = calls[c]
<1> DEFINE out == Released(w, g)
<1>1. Len(out) = 0
  BY DEF Released
<1>2. call' = [c \in Callers |-> calls[c]]
  <2> DEFINE fire(c) == CHOOSE i \in 1..Len(out) : out[i] = c
  <2>1. call' = [c \in Callers |->
                   IF \E i \in 1..Len(out) : out[i] = c
                   THEN [calls[c] EXCEPT !.pc = Fired(b, fire(c))]
                   ELSE calls[c]]
    BY DEF Release
  <2>2. ~ \E i \in 1..Len(out) : TRUE
    BY <1>1
  <2> HIDE DEF fire, out
  <2> QED BY <2>1, <2>2
<1> QED BY <1>2

-----------------------------------------------------------------------------
(* The steps.                                                              *)

\* The rate an answer asks for is a rate, and no higher than the present one
\* or the ceiling.
LEMMA RateAfterBound ==
  ASSUME NEW limit \in Limits \cup {NoHeader},
         currentRate \in Nat \ {0}, currentRate <= Larger(Unit, Ceiling)
  PROVE  RateAfter(limit) \in Nat \ {0} /\ RateAfter(limit) <= Larger(Unit, Ceiling)
<1>1. Unit \in Nat \ {0} /\ Ceiling \in Nat \ {0} /\ Limits \subseteq Nat
  BY RpcAssumption
<1>2. CASE limit # NoHeader /\ limit > 0
  <2>1. limit \in Nat
    BY <1>1, <1>2
  <2>2. (limit * 9) \div 10 \in Int
    BY <2>1, SMT
  <2>3. RateAfter(limit) = Smaller(Ceiling, Larger(Unit, (limit * 9) \div 10))
    BY <1>2 DEF RateAfter
  <2> QED BY <1>1, <2>2, <2>3 DEF Smaller, Larger
<1>3. CASE ~(limit # NoHeader /\ limit > 0)
  <2>1. RateAfter(limit) = Larger(Unit, currentRate \div 2)
    BY <1>3 DEF RateAfter
  <2>2. currentRate \div 2 \in Nat /\ currentRate \div 2 <= currentRate
    BY SMT
  <2> QED BY <1>1, <2>1, <2>2 DEF Larger
<1> QED BY <1>2, <1>3

\* The controller tells the gate of every change.
LEMMA SetToGood ==
  ASSUME GateInv, NEW rate \in Nat \ {0}
  PROVE  Good(SetTo(rate)) /\ SetTo(rate).rate = Larger(Unit, rate)
<1>1. CASE rate = currentRate
  BY <1>1 DEF SetTo, GateInv
<1>2. CASE rate # currentRate
  BY <1>2, SetRateGood DEF SetTo, GateInv
<1> QED BY <1>1, <1>2

\* A cooldown is some number of ticks.
LEMMA OnErrorGood ==
  ASSUME GateInv, NEW limit \in Limits \cup {NoHeader},
         NEW after \in RetryAfters \cup {NoHeader}
  PROVE  /\ Good(OnError(limit, after))
         /\ OnError(limit, after).rate = Larger(Unit, RateAfter(limit))
<1> DEFINE ms == IF after = NoHeader THEN DefaultCooldown ELSE after
<1>1. ms \in Nat
  BY RpcAssumption
<1>2. RateAfter(limit) \in Nat \ {0}
  BY RateAfterBound DEF GateInv
<1>3. OnError(limit, after) = PauseFor(SetTo(RateAfter(limit)), ms)
  BY DEF OnError
<1> HIDE DEF ms
<1> QED BY <1>1, <1>2, <1>3, SetToGood, PauseForGood

\* The gate starts full, awake and at the ceiling.
LEMMA InitGateInv == Init => GateInv
<1> SUFFICES ASSUME Init PROVE GateInv
  OBVIOUS
<1> DEFINE r == Larger(Unit, Ceiling)
<1>1. Unit \in Nat \ {0} /\ Ceiling \in Nat \ {0} /\ Second \in Nat \ {0}
  BY RpcAssumption
<1>2. r \in Nat \ {0} /\ r >= Unit
  BY <1>1 DEF Larger
<1>3. Capacity(r) \in Nat
  <2>1. r * Second \in Nat
    BY <1>1, <1>2, SMT
  <2> HIDE DEF r
  <2> QED BY <2>1, TokenType DEF Capacity, Larger
<1>4. /\ gate = [rate |-> r, tokens |-> Capacity(r), age |-> 0, pause |-> 0,
                 timer |-> NoTimer, queue |-> <<>>]
      /\ currentRate = Ceiling
  BY DEF Init
<1> HIDE DEF r
<1>5. gate \in Gates
  BY <1>1, <1>2, <1>3, <1>4 DEF Gates, NoTimer
<1>6. currentRate <= Larger(Unit, Ceiling) /\ gate.rate = Larger(Unit, currentRate)
  BY <1>1, <1>4 DEF r, Larger
<1> QED BY <1>1, <1>2, <1>4, <1>5, <1>6 DEF GateInv, Good, Sound, Timely, Awake

\* Every step keeps the invariant.
LEMMA NextGateInv == GateInv /\ [Next]_vars => GateInv'
<1> SUFFICES ASSUME GateInv, [Next]_vars PROVE GateInv'
  OBVIOUS
<1>1. ASSUME NEW c \in Callers, Request(c) \/ Retry(c) PROVE GateInv'
  <2>1. gate' = Acquire(gate, c) /\ currentRate' = currentRate
    BY <1>1 DEF Request, Retry, Queue, Release
  <2>2. Good(Acquire(gate, c)) /\ Acquire(gate, c).rate = gate.rate
    BY AcquireGood DEF GateInv
  <2> QED BY <2>1, <2>2 DEF GateInv, Good, Sound, Timely, Awake
<1>2. ASSUME NEW c \in Callers, PrimarySucceeds(c) PROVE GateInv'
  <2>1. CASE Recovers
    <3>1. gate' = SetRate(gate, Raised) /\ currentRate' = Raised
      BY <1>2, <2>1 DEF PrimarySucceeds, Release, RateAfterSuccess
    <3>2. Raised \in Nat \ {0} /\ Raised <= Larger(Unit, Ceiling)
      BY RpcAssumption DEF Raised, Smaller, Larger, GateInv
    <3>3. Good(SetRate(gate, Raised))
          /\ SetRate(gate, Raised).rate = Larger(Unit, Raised)
      BY <3>2, SetRateGood DEF GateInv
    <3> QED BY <3>1, <3>2, <3>3 DEF GateInv, Good, Sound, Timely, Awake
  <2>2. CASE ~Recovers
    <3>1. gate' = gate /\ currentRate' = currentRate
      BY <1>2, <2>2 DEF PrimarySucceeds, Release, RateAfterSuccess
    <3> QED BY <3>1 DEF GateInv, Good, Sound, Timely, Awake
  <2> QED BY <2>1, <2>2
<1>3. ASSUME NEW c \in Callers, RateLimited(c) PROVE GateInv'
  <2>1. PICK limit \in Limits \cup {NoHeader}, after \in RetryAfters \cup {NoHeader} :
          gate' = OnError(limit, after) /\ currentRate' = RateAfter(limit)
    BY <1>3 DEF RateLimited, Release
  <2>2. RateAfter(limit) \in Nat \ {0} /\ RateAfter(limit) <= Larger(Unit, Ceiling)
    BY RateAfterBound DEF GateInv
  <2>3. Good(OnError(limit, after))
        /\ OnError(limit, after).rate = Larger(Unit, RateAfter(limit))
    BY OnErrorGood
  <2> QED BY <2>1, <2>2, <2>3 DEF GateInv, Good, Sound, Timely, Awake
<1>4. ASSUME TimerFires PROVE GateInv'
  <2> DEFINE h == [gate EXCEPT !.timer = NoTimer]
  <2>1. gate' = Pump(h) /\ currentRate' = currentRate
    BY <1>4 DEF TimerFires, Release
  <2>2. Sound(h) /\ Timely(h) /\ h.rate = gate.rate
    BY DEF GateInv, Good, Sound, Gates, Timely, NoTimer
  <2> HIDE DEF h
  <2>3. Good(Pump(h)) /\ Pump(h).rate = h.rate
    BY <2>2, PumpGood
  <2> QED BY <2>1, <2>2, <2>3 DEF GateInv, Good, Sound, Timely, Awake
<1>5. ASSUME Tick PROVE GateInv'
  <2> DEFINE a == Smaller(Second, gate.age + 1)
             p == Larger(0, gate.pause - 1)
             t == IF gate.timer = NoTimer THEN gate.timer
                  ELSE Larger(0, gate.timer - 1)
  <2>1. /\ gate \in Gates /\ gate.age \in 0..Second /\ gate.pause \in Nat
        /\ gate.timer \in Nat \cup {NoTimer} /\ Second \in Nat \ {0}
    BY RpcAssumption DEF GateInv, Good, Sound, Gates
  <2>2. a \in 0..Second /\ p \in Nat /\ t \in Nat \cup {NoTimer}
    BY <2>1 DEF Smaller, Larger, NoTimer
  <2>3. t # NoTimer => t <= Larger(Second, p)
    BY <2>1 DEF GateInv, Good, Timely, Larger, NoTimer
  <2>4. t = NoTimer <=> gate.timer = NoTimer
    BY <2>1 DEF Larger, NoTimer
  <2>5. /\ gate' = [gate EXCEPT !.age = a, !.pause = p, !.timer = t]
        /\ currentRate' = currentRate
    BY <1>5 DEF Tick
  <2> HIDE DEF a, p, t
  <2>6. /\ gate' \in Gates /\ gate'.rate = gate.rate /\ gate'.queue = gate.queue
        /\ gate'.pause = p /\ gate'.timer = t
    BY <2>1, <2>2, <2>5 DEF Gates
  <2> QED BY <2>3, <2>4, <2>5, <2>6 DEF GateInv, Good, Sound, Timely, Awake
<1>6. ASSUME UNCHANGED <<gate, currentRate>> PROVE GateInv'
  BY <1>6 DEF GateInv, Good, Sound, Timely, Awake
<1>7. ASSUME NEW c \in Callers,
             PrimaryFails(c) \/ FallbackSucceeds(c) \/ FallbackFails(c)
      PROVE  UNCHANGED <<gate, currentRate>>
  BY <1>7 DEF PrimaryFails, FallbackSucceeds, FallbackFails
<1>8. HalfOpens \/ UNCHANGED vars => UNCHANGED <<gate, currentRate>>
  BY DEF HalfOpens, vars
<1> QED
  BY <1>1, <1>2, <1>3, <1>4, <1>5, <1>6, <1>7, <1>8 DEF Next, Answer

\* The gate is sound, awake and in agreement with its controller at all times.
THEOREM GateInvariance == Spec => []GateInv
BY InitGateInv, NextGateInv, PTL DEF Spec

\* No wake-up is lost: while a request waits a timer is set, for no later than
\* the end of the cooldown or one second (createRateGate).
THEOREM NoLostWakeUp == Spec => []WakesInTime
<1>1. GateInv => WakesInTime
  BY DEF GateInv, Good, Awake, Timely, WakesInTime
<1> QED BY <1>1, GateInvariance, PTL

\* The gate's rate is the controller's, between MIN_RATE and the ceiling
\* (onError and onSuccess of createCircuitBreakerRpc).
THEOREM Agreement == Spec => []RatesAgree
<1>1. GateInv => RatesAgree
  <2> SUFFICES ASSUME GateInv PROVE RatesAgree
    OBVIOUS
  <2>1. Unit \in Nat \ {0} /\ Ceiling \in Nat \ {0}
    BY RpcAssumption
  <2> QED BY <2>1 DEF GateInv, RatesAgree, Larger
<1> QED BY <1>1, GateInvariance, PTL

-----------------------------------------------------------------------------
(* The cooldown.                                                           *)

\* One step of CooldownHonoured.
Honoured ==
  /\ gate'.pause >= gate.pause - 1
  /\ gate.pause > 0 => \A c \in Callers :
       InFlight(call'[c]) => InFlight(call[c])

\* What is needed of the calls: that they have a program counter.
CallInv == call \in [Callers -> [pc : Pcs, attempt : Nat]]

\* No call starts released.
LEMMA InitCallInv == Init => CallInv
BY DEF Init, CallInv, Pcs

\* Released calls go to one of the endpoints.
LEMMA ReleaseCalls ==
  ASSUME NEW w, NEW g, NEW b, NEW calls \in [Callers -> [pc : Pcs, attempt : Nat]],
         Release(w, g, b, calls)
  PROVE  CallInv'
<1> DEFINE out == Released(w, g)
           fire(c) == CHOOSE i \in 1..Len(out) : out[i] = c
<1>1. call' = [c \in Callers |->
                 IF \E i \in 1..Len(out) : out[i] = c
                 THEN [calls[c] EXCEPT !.pc = Fired(b, fire(c))]
                 ELSE calls[c]]
  BY DEF Release
<1>2. \A i : Fired(b, i) \in Pcs
  BY DEF Fired, Pcs
<1> HIDE DEF fire, out
<1> QED BY <1>1, <1>2 DEF CallInv

\* Every step leaves the calls well formed.
LEMMA NextCallInv == CallInv /\ [Next]_vars => CallInv'
<1> SUFFICES ASSUME CallInv, [Next]_vars PROVE CallInv'
  OBVIOUS
<1> DEFINE Calls == [Callers -> [pc : Pcs, attempt : Nat]]
<1>1. ASSUME NEW d \in Callers, NEW k \in Nat, Queue(d, k) PROVE CallInv'
  <2>1. [call EXCEPT ![d] = [pc |-> "queued", attempt |-> k]] \in Calls
    BY DEF CallInv, Pcs
  <2> QED BY <1>1, <2>1, ReleaseCalls DEF Queue
<1>2. ASSUME NEW d \in Callers PROVE Idle(d) \in Calls /\ Fails(d) \in Calls
  BY DEF CallInv, Pcs, Idle, Fails
<1>3. ASSUME NEW d \in Callers, Request(d) PROVE CallInv'
  BY <1>1, <1>3 DEF Request
<1>4. ASSUME NEW d \in Callers, Retry(d) PROVE CallInv'
  <2>1. call[d].attempt + 1 \in Nat
    BY DEF CallInv
  <2> QED BY <1>1, <1>4, <2>1 DEF Retry
<1>5. ASSUME NEW d \in Callers, PrimarySucceeds(d) PROVE CallInv'
  BY <1>2, <1>5, ReleaseCalls DEF PrimarySucceeds
<1>6. ASSUME NEW d \in Callers, RateLimited(d) PROVE CallInv'
  BY <1>2, <1>6, ReleaseCalls DEF RateLimited
<1>7. ASSUME NEW d \in Callers, PrimaryFails(d) \/ FallbackSucceeds(d) PROVE CallInv'
  BY <1>2, <1>7 DEF PrimaryFails, FallbackSucceeds, CallInv
<1>8. ASSUME NEW d \in Callers, FallbackFails(d) PROVE CallInv'
  <2>1. [call EXCEPT ![d].pc = "sleeping"] \in Calls
    BY DEF CallInv, Pcs
  <2> QED BY <1>2, <1>8, <2>1 DEF FallbackFails, CallInv
<1>9. TimerFires => CallInv'
  BY ReleaseCalls DEF TimerFires, CallInv
<1>10. HalfOpens \/ Tick \/ UNCHANGED vars => call' = call
  BY DEF HalfOpens, Tick, vars
<1> QED
  BY <1>3, <1>4, <1>5, <1>6, <1>7, <1>8, <1>9, <1>10 DEF Next, Answer, CallInv

\* Every step honours the cooldown.
LEMMA NextHonours == GateInv /\ CallInv /\ [Next]_vars => Honoured
<1> SUFFICES ASSUME GateInv, CallInv, [Next]_vars PROVE Honoured
  OBVIOUS
<1> USE DEF CallInv
<1>0. Good(gate) /\ gate.pause \in Nat /\ gate.queue \in Seq(Callers)
  BY DEF GateInv, Good, Sound, Gates
<1>a. ASSUME gate'.pause >= gate.pause,
             gate.pause > 0 => \A c \in Callers :
               InFlight(call'[c]) => InFlight(call[c])
      PROVE  Honoured
  <2>1. gate'.pause \in Int => Honoured
    BY <1>0, <1>a DEF Honoured
  <2>2. gate'.pause \in Int
    BY NextGateInv DEF GateInv, Good, Sound, Gates
  <2> QED BY <2>1, <2>2
<1>1. ASSUME NEW d \in Callers, NEW k, Queue(d, k),
             call[d].pc \in {"idle", "sleeping"}
      PROVE  Honoured
  <2> DEFINE calls == [call EXCEPT ![d] = [pc |-> "queued", attempt |-> k]]
             w == Append(gate.queue, d)
             g == Acquire(gate, d)
  <2>1. Release(w, g, breaker, calls) /\ gate' = g
    BY <1>1 DEF Queue, Release
  <2>2. gate'.pause >= gate.pause
    BY <1>0, <2>1, AcquirePaused
  <2>3. ASSUME gate.pause > 0, NEW c \in Callers, InFlight(call'[c])
        PROVE  InFlight(call[c])
    <3>1. w \in Seq(Callers) /\ g.queue = w
      BY <1>0, <2>3, AcquirePaused
    <3>2. call'[c] = calls[c]
      <4> HIDE DEF calls, w, g
      <4> QED BY <2>1, <3>1, NobodyFired
    <3> QED BY <1>1, <2>3, <3>2 DEF InFlight
  <2> QED BY <1>a, <2>2, <2>3
<1>2. ASSUME NEW d \in Callers, Request(d) \/ Retry(d) PROVE Honoured
  BY <1>1, <1>2 DEF Request, Retry
<1>3. ASSUME NEW g, NEW b, NEW calls, Release(gate.queue, g, b, calls),
             g.pause >= gate.pause, gate.pause > 0 => g.queue = gate.queue,
             \A c \in Callers : InFlight(calls[c]) => InFlight(call[c])
      PROVE  Honoured
  <2>1. gate' = g
    BY <1>3 DEF Release
  <2>2. ASSUME gate.pause > 0, NEW c \in Callers, InFlight(call'[c])
        PROVE  InFlight(call[c])
    <3>1. call'[c] = calls[c]
      BY <1>0, <1>3, <2>2, NobodyFired
    <3> QED BY <1>3, <2>2, <3>1
  <2> QED BY <1>a, <1>3, <2>1, <2>2
<1>4. ASSUME NEW d \in Callers, PrimarySucceeds(d) PROVE Honoured
  <2> DEFINE g == IF Recovers THEN SetRate(gate, Raised) ELSE gate
  <2>1. Release(gate.queue, g, Closed(breaker), Idle(d))
    BY <1>4 DEF PrimarySucceeds
  <2>2. Raised \in Nat
    BY RpcAssumption DEF Raised, Smaller, GateInv
  <2>3. g.pause >= gate.pause /\ (gate.pause > 0 => g.queue = gate.queue)
    BY <1>0, <2>2, SetRatePaused
  <2>4. \A c \in Callers : InFlight(Idle(d)[c]) => InFlight(call[c])
    BY <1>4 DEF PrimarySucceeds, Idle, InFlight
  <2> HIDE DEF g
  <2> QED BY <1>3, <2>1, <2>3, <2>4
<1>5. ASSUME NEW d \in Callers, RateLimited(d) PROVE Honoured
  <2>1. PICK limit \in Limits \cup {NoHeader}, after \in RetryAfters \cup {NoHeader},
             b \in Opens(breaker) :
          Release(gate.queue, OnError(limit, after), b, Fails(d))
    BY <1>5 DEF RateLimited
  <2> DEFINE g == SetTo(RateAfter(limit))
             ms == IF after = NoHeader THEN DefaultCooldown ELSE after
  <2>2. ms \in Nat /\ RateAfter(limit) \in Nat \ {0}
    BY RpcAssumption, RateAfterBound DEF GateInv
  <2>3. g.pause = gate.pause /\ (gate.pause > 0 => g.queue = gate.queue)
    BY <1>0, <2>2, SetRatePaused DEF SetTo
  <2>4. Good(g)
    BY <2>2, SetToGood
  <2>5. OnError(limit, after) = PauseFor(g, ms)
    BY DEF OnError
  <2>6. \A c \in Callers : InFlight(Fails(d)[c]) => InFlight(call[c])
    BY <1>5 DEF RateLimited, Fails, InFlight
  <2> HIDE DEF g, ms
  <2>7. PauseFor(g, ms).pause >= g.pause /\ PauseFor(g, ms).queue = g.queue
    BY <2>2, <2>4, PauseForPaused
  <2> QED BY <1>3, <2>1, <2>3, <2>5, <2>6, <2>7
<1>6. ASSUME TimerFires PROVE Honoured
  <2> DEFINE h == [gate EXCEPT !.timer = NoTimer]
  <2>1. Release(gate.queue, Pump(h), breaker, call)
    BY <1>6 DEF TimerFires
  <2>2. Sound(h) /\ h.pause = gate.pause /\ h.queue = gate.queue
    BY <1>0 DEF Good, Sound, Gates, NoTimer
  <2> HIDE DEF h
  <2>3. Pump(h).pause = h.pause /\ (h.pause > 0 => Pump(h).queue = h.queue)
    BY <2>2, PumpPaused
  <2> QED BY <1>0, <1>3, <2>1, <2>2, <2>3
<1>7. ASSUME Tick PROVE Honoured
  <2>1. gate'.pause = Larger(0, gate.pause - 1) /\ call' = call
    BY <1>0, <1>7 DEF Tick, Good, Sound, Gates
  <2> QED BY <1>0, <2>1 DEF Honoured, Larger
<1>8. ASSUME NEW d \in Callers,
             PrimaryFails(d) \/ FallbackSucceeds(d) \/ FallbackFails(d)
      PROVE  Honoured
  <2>1. gate' = gate
    BY <1>8 DEF PrimaryFails, FallbackSucceeds, FallbackFails
  <2>2. InFlight(call[d]) /\ \A c \in Callers \ {d} : call'[c] = call[c]
    BY <1>8 DEF PrimaryFails, FallbackSucceeds, FallbackFails, Fails, Idle, InFlight
  <2> QED BY <1>0, <1>a, <2>1, <2>2
<1>9. HalfOpens \/ UNCHANGED vars => gate' = gate /\ call' = call
  BY DEF HalfOpens, vars
<1> QED
  BY <1>0, <1>a, <1>2, <1>4, <1>5, <1>6, <1>7, <1>8, <1>9 DEF Next, Answer

\* A cooldown is never cut short and no request goes out while it lasts, old
\* or new, whichever of acquire, setRate, pauseFor and the timer runs (createRateGate).
THEOREM Cooldowns == Spec => CooldownHonoured
<1>1. GateInv /\ CallInv /\ [Next]_vars => [Honoured]_vars
  BY NextHonours
<1>2. Spec => []CallInv
  BY InitCallInv, NextCallInv, PTL DEF Spec
<1>3. Spec => [][Honoured]_vars
  BY <1>1, <1>2, GateInvariance, PTL DEF Spec
<1> QED BY <1>3 DEF CooldownHonoured, Honoured

-----------------------------------------------------------------------------
(* Arithmetic.                                                             *)

LEMMA SumTimes ==
  ASSUME NEW a \in Nat, NEW b \in Nat, NEW c \in Nat
  PROVE  (a + b) * c = a * c + b * c /\ a * c \in Nat
BY SMT

LEMMA TimesMonotone ==
  ASSUME NEW a \in Nat, NEW b \in Nat, NEW c \in Nat, a <= b
  PROVE  a * c <= b * c
BY SMT

LEMMA Further ==
  ASSUME NEW l \in Nat, NEW m \in Nat, NEW x \in 1..(l - m)
  PROVE  x + m \in 1..l
BY SMT

LEMMA CapacityType ==
  ASSUME NEW r \in Nat
  PROVE  Capacity(r) \in Nat /\ Token <= Capacity(r) /\ r * Second <= Capacity(r)
<1>1. r * Second \in Nat
  BY RpcAssumption, SMT
<1> QED BY <1>1, TokenType DEF Capacity, Larger

LEMMA CapacityMonotone ==
  ASSUME NEW r \in Nat, NEW s \in Nat, r <= s
  PROVE  Capacity(r) <= Capacity(s)
<1>1. r * Second \in Nat /\ s * Second \in Nat /\ r * Second <= s * Second
  BY RpcAssumption, TimesMonotone, SMT
<1> QED BY <1>1, TokenType DEF Capacity, Larger

-----------------------------------------------------------------------------
(* What a gate is worth.                                                   *)

\* The tokens there would be after a refill.
Level(g) == Smaller(Capacity(g.rate), g.tokens + g.age * g.rate)

\* A bucket that does not overflow.
Full(g) == g.tokens <= Capacity(g.rate)

\* The gate g, at which w waits, becomes h: the first n of w are released,
\* each for a token.
Lets(g, w, h, n) ==
  /\ n \in 0..Len(w) /\ h.queue = SubSeq(w, n + 1, Len(w))
  /\ Full(h) /\ Level(h) + n * Token <= Level(g)

LEMMA LevelType ==
  ASSUME NEW g, Sound(g)
  PROVE  /\ Level(g) \in Nat /\ Level(g) <= Capacity(g.rate)
         /\ g.age * g.rate \in Nat
         /\ Full(g) => g.tokens <= Level(g)
         /\ Full(g) /\ g.age = 0 => Level(g) = g.tokens
<1>1. g.rate \in Nat /\ g.tokens \in Nat /\ g.age \in Nat
  BY RpcAssumption DEF Sound, Gates
<1>2. g.age * g.rate \in Nat
  BY <1>1, SMT
<1>3. g.age = 0 => g.age * g.rate = 0
  BY <1>1, SMT
<1>4. Capacity(g.rate) \in Nat
  BY <1>1, CapacityType
<1> QED BY <1>1, <1>2, <1>3, <1>4 DEF Level, Full, Smaller

\* A gate that lets nobody go.
LEMMA LetsNobody ==
  ASSUME NEW g, Sound(g), NEW h, Full(h), Level(h) \in Nat, Level(h) <= Level(g),
         h.queue \in Seq(Callers)
  PROVE  Lets(g, h.queue, h, 0)
<1>1. SubSeq(h.queue, 1, Len(h.queue)) = h.queue
  OBVIOUS
<1>2. 0 * Token = 0
  BY TokenType, SMT
<1>3. Level(g) \in Nat
  BY LevelType
<1> QED BY <1>1, <1>2, <1>3 DEF Lets

\* A timer is worth nothing.
LEMMA ScheduleLevel ==
  ASSUME NEW g, Sound(g), NEW ms \in Nat
  PROVE  /\ Level(Schedule(g, ms)) = Level(g)
         /\ Full(Schedule(g, ms)) <=> Full(g)
<1>1. CASE g.timer # NoTimer
  BY <1>1 DEF Schedule
<1>2. CASE g.timer = NoTimer
  <2>1. Schedule(g, ms) = [g EXCEPT !.timer = Larger(ms, 1)]
    BY <1>2 DEF Schedule
  <2>2. /\ Schedule(g, ms).rate = g.rate /\ Schedule(g, ms).tokens = g.tokens
        /\ Schedule(g, ms).age = g.age
    BY <2>1 DEF Sound, Gates
  <2> QED BY <2>2 DEF Level, Full
<1> QED BY <1>1, <1>2

LEMMA RefillLevel ==
  ASSUME NEW g, Sound(g)
  PROVE  /\ Refill(g).tokens = Level(g) /\ Refill(g).age = 0
         /\ Full(Refill(g)) /\ Level(Refill(g)) = Level(g)
<1>1. Refill(g) = [g EXCEPT !.tokens = Level(g), !.age = 0]
  BY DEF Refill, Level
<1>2. /\ Refill(g).tokens = Level(g) /\ Refill(g).age = 0
      /\ Refill(g).rate = g.rate /\ Sound(Refill(g))
  BY <1>1, RefillKeeps DEF Sound, Gates
<1>3. Full(Refill(g))
  BY <1>2, LevelType DEF Full
<1> QED BY <1>2, <1>3, LevelType

\* The requests that leave a bucket take their tokens along.
LEMMA DrainLevel ==
  ASSUME NEW g, Sound(g), Full(g), g.age = 0
  PROVE  \E n \in Nat : Lets(g, g.queue, Drain(g), n)
<1> DEFINE n == Smaller(g.tokens \div Token, Len(g.queue))
           h == [g EXCEPT !.tokens = @ - n * Token,
                          !.queue = SubSeq(@, n + 1, Len(@))]
<1>1. /\ g.tokens \in Nat /\ g.queue \in Seq(Callers) /\ Len(g.queue) \in Nat
      /\ g.rate \in Nat \ {0}
  BY DEF Sound, Gates
<1>2. n \in Nat /\ n <= g.tokens \div Token /\ n <= Len(g.queue)
  BY <1>1, TokenType, WholeTokens DEF Smaller
<1>3. n * Token \in Nat /\ n * Token <= g.tokens
  BY <1>1, <1>2, TokenType, FewerTokens
<1>4. SubSeq(g.queue, n + 1, Len(g.queue)) \in Seq(Callers)
  <2>1. \A i \in n + 1 .. Len(g.queue) : g.queue[i] \in Callers
    BY <1>1, <1>2
  <2> QED BY <1>1, <1>2, <2>1
<1>5. /\ Sound(h) /\ h.rate = g.rate /\ h.age = 0
      /\ h.tokens = g.tokens - n * Token
      /\ h.queue = SubSeq(g.queue, n + 1, Len(g.queue))
  <2>1. g.tokens - n * Token \in Nat
    BY <1>1, <1>3
  <2> HIDE DEF n
  <2> QED BY <1>4, <2>1 DEF Sound, Gates
<1>6. Drain(g) = Waiting(h)
  BY DEF Drain
<1> HIDE DEF h, n
<1>7. Full(h) /\ Level(h) = g.tokens - n * Token
  <2>1. h.tokens <= g.tokens
    BY <1>1, <1>3, <1>5
  <2>2. Full(h)
    <3>1. Capacity(g.rate) \in Nat
      BY <1>1, CapacityType
    <3>2. h.tokens \in Nat /\ g.tokens <= Capacity(g.rate)
      BY <1>5 DEF Sound, Gates, Full
    <3>3. h.tokens <= Capacity(h.rate)
      BY <1>1, <1>5, <2>1, <3>1, <3>2
    <3> QED BY <3>3 DEF Full
  <2> QED BY <1>5, <2>2, LevelType
<1>8. /\ Level(Waiting(h)) = Level(h) /\ Full(Waiting(h))
      /\ Waiting(h).queue = h.queue
  <2>1. CASE h.queue = <<>>
    BY <1>7, <2>1 DEF Waiting
  <2>2. CASE h.queue # <<>>
    <3> DEFINE ms == CeilDiv(Token - h.tokens, h.rate)
    <3>1. Waiting(h) = Schedule(h, ms)
      BY <2>2 DEF Waiting
    <3>2. CASE h.timer # NoTimer
      BY <1>7, <3>1, <3>2 DEF Schedule
    <3>3. CASE h.timer = NoTimer
      <4> HIDE DEF ms
      <4>1. Waiting(h) = [h EXCEPT !.timer = Larger(ms, 1)]
        BY <3>1, <3>3 DEF Schedule
      <4>2. /\ Waiting(h).rate = h.rate /\ Waiting(h).tokens = h.tokens
            /\ Waiting(h).age = h.age /\ Waiting(h).queue = h.queue
        BY <1>5, <4>1 DEF Sound, Gates
      <4> QED BY <1>7, <4>2 DEF Level, Full
    <3> QED BY <3>2, <3>3
  <2> QED BY <2>1, <2>2
<1>9. Level(g) = g.tokens
  BY LevelType
<1>10. Lets(g, g.queue, Drain(g), n)
  BY <1>1, <1>2, <1>3, <1>5, <1>6, <1>7, <1>8, <1>9 DEF Lets
<1> QED BY <1>2, <1>10

LEMMA PumpLevel ==
  ASSUME NEW g, Sound(g), Full(g)
  PROVE  \E n \in Nat : Lets(g, g.queue, Pump(g), n)
<1>1. CASE g.pause > 0
  <2>1. Pump(g) = Schedule(g, g.pause) /\ g.pause \in Nat
    BY <1>1 DEF Pump, Sound, Gates
  <2>2. Pump(g).queue = g.queue /\ g.queue \in Seq(Callers)
    BY <2>1, ScheduleSets DEF Sound, Gates
  <2>3. Full(Pump(g)) /\ Level(Pump(g)) = Level(g) /\ Level(g) \in Nat
    BY <2>1, ScheduleLevel, LevelType
  <2> QED BY <2>2, <2>3, LetsNobody
<1>2. CASE ~(g.pause > 0)
  <2>1. Pump(g) = Drain(Refill(g))
    BY <1>2 DEF Pump
  <2>2. Sound(Refill(g)) /\ Refill(g).queue = g.queue
    BY RefillKeeps
  <2>3. PICK n \in Nat : Lets(Refill(g), g.queue, Drain(Refill(g)), n)
    BY <2>2, RefillLevel, DrainLevel
  <2> QED BY <2>1, <2>3, RefillLevel DEF Lets
<1> QED BY <1>1, <1>2

\* A caller that queues brings no token.
LEMMA AcquireLevel ==
  ASSUME NEW g, Good(g), Full(g), NEW c \in Callers
  PROVE  \E n \in Nat : Lets(g, Append(g.queue, c), Acquire(g, c), n)
<1> DEFINE h == [g EXCEPT !.queue = Append(@, c)]
<1>1. Append(g.queue, c) \in Seq(Callers)
  BY DEF Good, Sound, Gates
<1>2. /\ Sound(h) /\ h.queue = Append(g.queue, c) /\ h.rate = g.rate
      /\ h.tokens = g.tokens /\ h.age = g.age
  BY <1>1 DEF Good, Sound, Gates
<1>3. Acquire(g, c) = Pump(h)
  BY DEF Acquire
<1> HIDE DEF h
<1>4. Full(h) /\ Level(h) = Level(g)
  BY <1>2 DEF Full, Level
<1>5. PICK n \in Nat : Lets(h, h.queue, Pump(h), n)
  BY <1>2, <1>4, PumpLevel
<1> QED BY <1>2, <1>3, <1>4, <1>5 DEF Lets

\* A new rate starts with no more tokens than there were.
LEMMA SetRateLevel ==
  ASSUME NEW g, Good(g), Full(g), NEW r \in Nat
  PROVE  \E n \in Nat : Lets(g, g.queue, SetRate(g, r), n)
<1> DEFINE rate == Larger(Unit, r)
           t == Smaller(g.tokens, Capacity(rate))
           h == [g EXCEPT !.rate = rate, !.age = 0, !.tokens = t]
<1>1. rate \in Nat \ {0} /\ rate >= Unit /\ 0 \in 0..Second
  BY RpcAssumption DEF Larger
<1>2. t \in Nat /\ t <= g.tokens /\ t <= Capacity(rate)
  <2>1. rate \in Nat /\ g.tokens \in Nat
    BY <1>1 DEF Good, Sound, Gates
  <2>2. Capacity(rate) \in Nat
    BY <2>1, CapacityType
  <2> HIDE DEF rate
  <2> QED BY <2>1, <2>2 DEF Smaller
<1>3. SetRate(g, r) = Pump(h)
  BY DEF SetRate
<1>4. /\ Sound(h) /\ h.queue = g.queue /\ h.rate = rate /\ h.tokens = t
      /\ h.age = 0
  <2> HIDE DEF rate, t
  <2> QED BY <1>1, <1>2 DEF Good, Sound, Gates
<1> HIDE DEF h, rate, t
<1>5. Full(h) /\ Level(h) = t
  <2>1. Full(h)
    BY <1>2, <1>4 DEF Full
  <2> QED BY <1>4, <2>1, LevelType
<1>6. g.tokens <= Level(g) /\ Level(g) \in Nat /\ g.tokens \in Nat
  BY LevelType DEF Good, Sound, Gates
<1>7. PICK n \in Nat : Lets(h, h.queue, Pump(h), n)
  BY <1>4, <1>5, PumpLevel
<1>8. n * Token \in Nat /\ Level(Pump(h)) \in Nat
  <2>1. Sound(Pump(h))
    <3>1. Good(SetRate(g, r))
      BY SetRateGood
    <3> QED BY <1>3, <3>1 DEF Good
  <2>2. n * Token \in Nat
    BY TokenType, SMT
  <2> QED BY <2>1, <2>2, LevelType
<1> QED BY <1>2, <1>3, <1>4, <1>5, <1>6, <1>7, <1>8 DEF Lets

\* A cooldown changes nothing but the cooldown.
LEMMA PauseForLevel ==
  ASSUME NEW g, Good(g), NEW ms \in Nat
  PROVE  /\ Level(PauseFor(g, ms)) = Level(g)
         /\ Full(PauseFor(g, ms)) <=> Full(g)
         /\ PauseFor(g, ms).queue = g.queue
<1> DEFINE p == Larger(g.pause, ms)
           h == [g EXCEPT !.pause = p]
<1>1. p \in Nat
  BY DEF Larger, Good, Sound, Gates
<1>2. /\ Sound(h) /\ h.queue = g.queue /\ h.rate = g.rate /\ h.tokens = g.tokens
      /\ h.age = g.age
  BY <1>1 DEF Good, Sound, Gates
<1>3. PauseFor(g, ms) = Schedule(h, ms)
  BY DEF PauseFor
<1> HIDE DEF h
<1>4. Level(h) = Level(g) /\ (Full(h) <=> Full(g))
  BY <1>2 DEF Level, Full
<1> QED BY <1>2, <1>3, <1>4, ScheduleLevel, ScheduleSets

LEMMA SetToLevel ==
  ASSUME GateInv, Full(gate), NEW rate \in Nat \ {0}
  PROVE  \E n \in Nat : Lets(gate, gate.queue, SetTo(rate), n)
<1>1. CASE rate = currentRate
  <2>1. SetTo(rate) = gate
    BY <1>1 DEF SetTo
  <2>2. Sound(gate) /\ gate.queue \in Seq(Callers) /\ Level(gate) \in Nat
    BY LevelType DEF GateInv, Good, Sound, Gates
  <2> QED BY <2>1, <2>2, LetsNobody
<1>2. CASE rate # currentRate
  BY <1>2, SetRateLevel DEF SetTo, GateInv
<1> QED BY <1>1, <1>2

LEMMA OnErrorLevel ==
  ASSUME GateInv, Full(gate), NEW limit \in Limits \cup {NoHeader},
         NEW after \in RetryAfters \cup {NoHeader}
  PROVE  \E n \in Nat : Lets(gate, gate.queue, OnError(limit, after), n)
<1> DEFINE ms == IF after = NoHeader THEN DefaultCooldown ELSE after
<1>1. ms \in Nat
  BY RpcAssumption
<1>2. RateAfter(limit) \in Nat \ {0}
  BY RateAfterBound DEF GateInv
<1>3. PICK n \in Nat : Lets(gate, gate.queue, SetTo(RateAfter(limit)), n)
  BY <1>2, SetToLevel
<1>4. Good(SetTo(RateAfter(limit)))
  BY <1>2, SetToGood
<1>5. OnError(limit, after) = PauseFor(SetTo(RateAfter(limit)), ms)
  BY DEF OnError
<1> HIDE DEF ms
<1> QED BY <1>1, <1>3, <1>4, <1>5, PauseForLevel DEF Lets

-----------------------------------------------------------------------------
(* What was released.                                                      *)

\* The requests released in the last ticks, r[1] in the present one.
Spent(r) ==
  LET sum[i \in 0..Second] == IF i = 0 THEN 0 ELSE r[i] + sum[i - 1] IN sum

History == [1..Second -> Nat]

LEMMA SpentType ==
  ASSUME NEW r \in History
  PROVE  /\ Spent(r) \in [0..Second -> Nat] /\ Spent(r)[0] = 0
         /\ \A i \in 1..Second : Spent(r)[i] = r[i] + Spent(r)[i - 1]
<1> DEFINE G == [x \in Nat \X (1..Second) |-> r[x[2]] + x[1]]
           P(f) == f = [i \in 0..Second |-> IF i = 0 THEN 0 ELSE r[i] + f[i - 1]]
<1>1. Second \in Nat \ {0}
  BY RpcAssumption
<1>2. G \in [Nat \X (1..Second) -> Nat]
  BY DEF History
<1>3. PICK f \in [0..Second -> Nat] : RecursesTo(f, Second, 0, G)
  <2>1. 0 \in Nat /\ Second \in Nat
    BY <1>1
  <2> HIDE DEF G
  <2> QED BY <1>2, <2>1, RecursionExists
<1>4. \A i \in 0..Second : f[i] = IF i = 0 THEN 0 ELSE r[i] + f[i - 1]
  <2> SUFFICES ASSUME NEW i \in 0..Second, i # 0 PROVE f[i] = r[i] + f[i - 1]
    BY <1>3 DEF RecursesTo
  <2>1. i \in 1..Second /\ f[i - 1] \in Nat
    BY <1>1
  <2>2. f[i] = G[<<f[i - 1], i>>]
    BY <1>3 DEF RecursesTo
  <2> QED BY <2>1, <2>2
<1>5. P(f)
  BY <1>4
<1>6. Spent(r) = CHOOSE s : P(s)
  BY DEF Spent
<1>7. P(Spent(r))
  <2> HIDE DEF P
  <2> QED BY <1>5, <1>6
<1>8. \A i \in 0..Second : Spent(r)[i] = IF i = 0 THEN 0 ELSE r[i] + Spent(r)[i - 1]
  BY <1>7
<1>9. DOMAIN Spent(r) = 0..Second
  BY <1>7
<1> HIDE DEF G, P
<1>10. \A k \in 0..Second : Spent(r)[k] \in Nat
  <2> DEFINE S == {k \in 0..Second : Spent(r)[k] \in Nat}
  <2>1. 0 \in S
    BY <1>1, <1>8
  <2>2. ASSUME NEW k \in 0..(Second - 1), k \in S PROVE k + 1 \in S
    <3>1. k + 1 \in 1..Second /\ (k + 1) - 1 = k /\ k + 1 # 0
      BY <1>1
    <3>2. Spent(r)[k + 1] = r[k + 1] + Spent(r)[k]
      BY <1>8, <3>1
    <3> QED BY <2>2, <3>1, <3>2 DEF History
  <2>3. \A k \in 0..Second : k \in S
    <3> HIDE DEF S
    <3> QED BY <1>1, <2>1, <2>2, UpToByInduction
  <2> QED BY <2>3
<1>11. Spent(r) = [i \in 0..Second |-> Spent(r)[i]]
  BY <1>7 DEF P
<1>12. Spent(r) \in [0..Second -> Nat]
  BY <1>10, <1>11
<1>13. 0 \in 0..Second /\ \A i \in 1..Second : i \in 0..Second /\ i # 0
  BY <1>1
<1>14. Spent(r)[0] = 0
  BY <1>8, <1>13
<1>15. \A i \in 1..Second : Spent(r)[i] = r[i] + Spent(r)[i - 1]
  BY <1>8, <1>13
<1> QED BY <1>12, <1>14, <1>15

\* What is released now counts in every sum.
LEMMA SpentMore ==
  ASSUME NEW r \in History, NEW n \in Nat, NEW s, s = [r EXCEPT ![1] = @ + n]
  PROVE  s \in History /\ \A k \in 1..Second : Spent(s)[k] = Spent(r)[k] + n
<1>1. Second \in Nat \ {0}
  BY RpcAssumption
<1>2. /\ s \in History /\ s[1] = r[1] + n
      /\ \A i \in 2..Second : s[i] = r[i]
  BY <1>1 DEF History
<1> DEFINE S == {k \in 0..Second : k = 0 \/ Spent(s)[k] = Spent(r)[k] + n}
<1>3. ASSUME NEW k \in 0..(Second - 1), k \in S PROVE k + 1 \in S
  <2>1. k + 1 \in 1..Second /\ (k + 1) - 1 = k
    BY <1>1
  <2>2. /\ Spent(s)[k + 1] = s[k + 1] + Spent(s)[k]
        /\ Spent(r)[k + 1] = r[k + 1] + Spent(r)[k]
    BY <1>2, <2>1, SpentType
  <2>3. Spent(s)[k] \in Nat /\ Spent(r)[k] \in Nat /\ r[k + 1] \in Nat
    <3>1. Spent(s) \in [0..Second -> Nat] /\ Spent(r) \in [0..Second -> Nat]
      BY <1>2, SpentType
    <3>2. k \in 0..Second /\ r[k + 1] \in Nat
      BY <1>1, <2>1 DEF History
    <3> QED BY <3>1, <3>2
  <2>4. CASE k = 0
    BY <1>2, <2>1, <2>2, <2>3, <2>4, SpentType
  <2>5. CASE k # 0
    <3>1. k + 1 \in 2..Second /\ Spent(s)[k] = Spent(r)[k] + n
      BY <1>1, <1>3, <2>5
    <3> QED BY <1>2, <2>1, <2>2, <2>3, <3>1
  <2> QED BY <2>4, <2>5
<1>4. \A k \in 0..Second : k \in S
  <2>1. 0 \in S
    BY <1>1
  <2> HIDE DEF S
  <2> QED BY <1>1, <1>3, <2>1, UpToByInduction
<1>5. \A k \in 1..Second : k \in 0..Second /\ k # 0
  OBVIOUS
<1> QED BY <1>2, <1>4, <1>5

\* A tick later every sum is the one before it.
LEMMA SpentLater ==
  ASSUME NEW r \in History, NEW s,
         s = [i \in 1..Second |-> IF i = 1 THEN 0 ELSE r[i - 1]]
  PROVE  s \in History /\ \A k \in 1..Second : Spent(s)[k] = Spent(r)[k - 1]
<1>1. Second \in Nat \ {0}
  BY RpcAssumption
<1>2. /\ s \in History /\ s[1] = 0
      /\ \A i \in 2..Second : s[i] = r[i - 1]
  BY <1>1 DEF History
<1> DEFINE S == {k \in 0..Second : k = 0 \/ Spent(s)[k] = Spent(r)[k - 1]}
<1>3. ASSUME NEW k \in 0..(Second - 1), k \in S PROVE k + 1 \in S
  <2>1. k + 1 \in 1..Second /\ (k + 1) - 1 = k
    BY <1>1
  <2>2. Spent(s)[k + 1] = s[k + 1] + Spent(s)[k]
    <3>1. \A i \in 1..Second : Spent(s)[i] = s[i] + Spent(s)[i - 1]
      BY <1>2, SpentType
    <3> QED BY <2>1, <3>1
  <2>4. CASE k = 0
    BY <1>2, <2>1, <2>2, <2>4, SpentType
  <2>5. CASE k # 0
    <3>1. k + 1 \in 2..Second /\ k \in 1..Second /\ Spent(s)[k] = Spent(r)[k - 1]
      BY <1>1, <1>3, <2>5
    <3>2. Spent(r)[k] = r[k] + Spent(r)[k - 1]
      BY <3>1, SpentType
    <3> QED BY <1>2, <2>1, <2>2, <3>1, <3>2
  <2> QED BY <2>4, <2>5
<1>4. \A k \in 0..Second : k \in S
  <2>1. 0 \in S
    BY <1>1
  <2> HIDE DEF S
  <2> QED BY <1>1, <1>3, <2>1, UpToByInduction
<1>5. \A k \in 1..Second : k \in 0..Second /\ k # 0
  OBVIOUS
<1> QED BY <1>2, <1>4, <1>5

-----------------------------------------------------------------------------
(* Who waits.                                                              *)

\* The queue w holds exactly the calls that are queued, each once, and a call
\* that sleeps has an attempt left.
Waits(w, calls) == \A c \in Callers :
  (calls[c].pc = "queued") <=> \E i \in 1..Len(w) : w[i] = c
Apart(w) == \A i, j \in 1..Len(w) : w[i] = w[j] => i = j
Resting(calls) == \A c \in Callers :
  calls[c].pc = "sleeping" => calls[c].attempt < MaxAttempts - 1

Lined(w, calls) ==
  /\ w \in Seq(Callers) /\ calls \in [Callers -> Call]
  /\ Waits(w, calls) /\ Apart(w) /\ Resting(calls)

\* The calls in out go where to sends them.
Fires(calls, out, to, after) ==
  after = [c \in Callers |->
             IF \E i \in 1..Len(out) : out[i] = c
             THEN [calls[c] EXCEPT !.pc = to[c]] ELSE calls[c]]

\* The calls after one of them has moved.
LEMMA LinedMoves ==
  ASSUME NEW w, NEW calls, Lined(w, calls), NEW d \in Callers,
         calls[d].pc # "queued", NEW row \in Call, row.pc # "queued",
         row.pc = "sleeping" => row.attempt < MaxAttempts - 1,
         NEW after, after = [calls EXCEPT ![d] = row]
  PROVE  Lined(w, after)
<1>1. after \in [Callers -> Call]
  BY DEF Lined
<1>2. after[d] = row /\ \A c \in Callers \ {d} : after[c] = calls[c]
  BY DEF Lined
<1> QED BY <1>1, <1>2 DEF Lined, Waits, Resting

\* One that queues is the last of the queue.
LEMMA LinedJoins ==
  ASSUME NEW w, NEW calls, Lined(w, calls), NEW d \in Callers,
         calls[d].pc # "queued", NEW row \in Call, row.pc = "queued",
         NEW after, after = [calls EXCEPT ![d] = row]
  PROVE  Lined(Append(w, d), after)
<1>1. after \in [Callers -> Call]
  BY DEF Lined
<1>2. after[d] = row /\ \A c \in Callers \ {d} : after[c] = calls[c]
  BY DEF Lined
<1>3. /\ w \in Seq(Callers) /\ Len(w) \in Nat /\ Append(w, d) \in Seq(Callers)
      /\ Len(Append(w, d)) = Len(w) + 1
      /\ Append(w, d)[Len(w) + 1] = d
      /\ \A i \in 1..Len(w) : Append(w, d)[i] = w[i]
  BY DEF Lined
<1>4. \A i \in 1..Len(w) : w[i] # d
  BY DEF Lined, Waits
<1>5. Apart(Append(w, d))
  BY <1>3, <1>4 DEF Lined, Apart
<1>6. Waits(Append(w, d), after)
  <2> SUFFICES ASSUME NEW c \in Callers
               PROVE  (after[c].pc = "queued")
                        <=> \E i \in 1..Len(Append(w, d)) : Append(w, d)[i] = c
    BY DEF Waits
  <2>1. CASE c = d
    <3>1. Len(w) + 1 \in 1..Len(Append(w, d))
      BY <1>3
    <3> QED BY <1>2, <1>3, <2>1, <3>1
  <2>2. CASE c # d
    <3>1. (\E i \in 1..Len(Append(w, d)) : Append(w, d)[i] = c)
            <=> \E i \in 1..Len(w) : w[i] = c
      BY <1>3, <2>2
    <3> QED BY <1>2, <2>2, <3>1 DEF Lined, Waits
  <2> QED BY <2>1, <2>2
<1>7. Resting(after)
  BY <1>2 DEF Lined, Resting
<1> QED BY <1>1, <1>3, <1>5, <1>6, <1>7 DEF Lined

\* The first n leave and are fired, the others wait on.
LEMMA LinedLeaves ==
  ASSUME NEW w, NEW calls, Lined(w, calls), NEW n \in 0..Len(w),
         NEW out, out = SubSeq(w, 1, n), NEW q, q = SubSeq(w, n + 1, Len(w)),
         NEW to, \A c \in Callers : to[c] \in {"primary", "fallback"},
         NEW after, Fires(calls, out, to, after)
  PROVE  Lined(q, after)
<1>1. w \in Seq(Callers) /\ Len(w) \in Nat /\ n \in Nat /\ n <= Len(w)
  BY DEF Lined
<1>2. Len(out) = n /\ \A i \in 1..n : out[i] = w[i]
  BY <1>1
<1>3. Len(q) = Len(w) - n /\ \A i \in 1..Len(w) - n : q[i] = w[i + n]
  BY <1>1
<1>4. q \in Seq(Callers)
  <2>1. \A i \in n + 1 .. Len(w) : w[i] \in Callers
    BY <1>1
  <2> QED BY <1>1, <2>1
<1> DEFINE Leaves(c) == \E i \in 1..Len(out) : out[i] = c
<1>5. /\ \A c \in Callers :
           /\ Leaves(c) => after[c] = [calls[c] EXCEPT !.pc = to[c]]
           /\ ~Leaves(c) => after[c] = calls[c]
      /\ after = [c \in Callers |-> after[c]]
  BY DEF Fires
<1>6. ASSUME NEW c \in Callers
      PROVE  /\ Leaves(c) <=> \E i \in 1..n : w[i] = c
             /\ (\E i \in 1..Len(q) : q[i] = c) <=> \E i \in n + 1 .. Len(w) : w[i] = c
  <2>1. Leaves(c) <=> \E i \in 1..n : w[i] = c
    BY <1>2
  <2>2. ASSUME NEW i \in 1..Len(q), q[i] = c
        PROVE  \E j \in n + 1 .. Len(w) : w[j] = c
    <3>1. i + n \in n + 1 .. Len(w) /\ w[i + n] = c
      BY <1>1, <1>3, <2>2
    <3> QED BY <3>1
  <2>3. ASSUME NEW j \in n + 1 .. Len(w), w[j] = c
        PROVE  \E i \in 1..Len(q) : q[i] = c
    <3>1. j - n \in 1..Len(w) - n /\ (j - n) + n = j
      BY <1>1
    <3>2. q[j - n] = w[(j - n) + n]
      BY <1>3, <3>1
    <3>3. j - n \in 1..Len(q)
      BY <1>3, <3>1
    <3> QED BY <2>3, <3>1, <3>2, <3>3
  <2> QED BY <2>1, <2>2, <2>3
<1> HIDE DEF Leaves
<1>7. Apart(q)
  <2> SUFFICES ASSUME NEW i \in 1..Len(q), NEW j \in 1..Len(q), q[i] = q[j]
               PROVE  i = j
    BY DEF Apart
  <2>1. i + n \in 1..Len(w) /\ j + n \in 1..Len(w) /\ w[i + n] = w[j + n]
    <3>1. i \in 1..Len(w) - n /\ j \in 1..Len(w) - n
      BY <1>3
    <3>2. q[i] = w[i + n] /\ q[j] = w[j + n]
      BY <1>3, <3>1
    <3>3. i + n \in 1..Len(w) /\ j + n \in 1..Len(w)
      BY <1>1, <3>1, Further
    <3> QED BY <3>2, <3>3
  <2>2. i + n = j + n
    BY <2>1 DEF Lined, Apart
  <2> QED BY <1>1, <1>3, <2>2
<1>8. after \in [Callers -> Call]
  <2> SUFFICES ASSUME NEW c \in Callers PROVE after[c] \in Call
    BY <1>5
  <2>1. calls[c] \in Call /\ to[c] \in Pcs
    BY DEF Lined, Pcs
  <2>2. [calls[c] EXCEPT !.pc = to[c]] \in Call
    BY <2>1 DEF Call
  <2> QED BY <1>5, <2>1, <2>2
<1>9. \A c \in Callers : Leaves(c) => after[c].pc \in {"primary", "fallback"}
  <2> SUFFICES ASSUME NEW c \in Callers, Leaves(c)
               PROVE  after[c].pc \in {"primary", "fallback"}
    OBVIOUS
  <2>1. calls[c] \in Call
    BY DEF Lined
  <2>2. [calls[c] EXCEPT !.pc = to[c]].pc = to[c]
    BY <2>1 DEF Call
  <2> QED BY <1>5, <2>2
<1>10. Waits(q, after)
  <2> SUFFICES ASSUME NEW c \in Callers
               PROVE  (after[c].pc = "queued") <=> \E i \in 1..Len(q) : q[i] = c
    BY DEF Waits
  <2>1. (calls[c].pc = "queued") <=> \E i \in 1..Len(w) : w[i] = c
    BY DEF Lined, Waits
  <2>2. (\E i \in 1..Len(w) : w[i] = c)
          <=> (\E i \in 1..n : w[i] = c) \/ (\E i \in n + 1 .. Len(w) : w[i] = c)
    BY <1>1
  <2>3. CASE Leaves(c)
    <3>1. PICK i \in 1..n : w[i] = c
      BY <1>6, <2>3
    <3>2. ~ \E j \in n + 1 .. Len(w) : w[j] = c
      BY <1>1, <3>1 DEF Lined, Apart
    <3>3. after[c].pc # "queued"
      BY <1>9, <2>3
    <3> QED BY <1>6, <3>2, <3>3
  <2>4. CASE ~Leaves(c)
    BY <1>5, <1>6, <2>1, <2>2, <2>4
  <2> QED BY <2>3, <2>4
<1>11. Resting(after)
  <2> SUFFICES ASSUME NEW c \in Callers, after[c].pc = "sleeping"
               PROVE  after[c].attempt < MaxAttempts - 1
    BY DEF Resting
  <2>1. after[c] = calls[c]
    BY <1>5, <1>9
  <2> QED BY <2>1 DEF Lined, Resting
<1> QED BY <1>4, <1>7, <1>8, <1>10, <1>11 DEF Lined

-----------------------------------------------------------------------------
(* The steps.                                                              *)

Breakers == {"closed", "open", "halfOpen", "probing"}

\* What k ticks may release, with nothing left in the gate.
Budget(k) == Capacity(Larger(Unit, Ceiling)) + (k - 1) * Larger(Unit, Ceiling)

\* What was released in the last k ticks and what the gate is worth.
Within(r, level) == \A k \in 1..Second : Spent(r)[k] * Token + level <= Budget(k)

Kept(g, r) == Full(g) /\ r \in History /\ Within(r, Level(g))

TransportInv ==
  /\ GateInv
  /\ streak \in 0..Recovery - 1 /\ breaker \in Breakers
  /\ Lined(gate.queue, call) /\ Kept(gate, recent)

LEMMA BudgetType ==
  ASSUME NEW k \in Nat \ {0}
  PROVE  /\ Budget(k) \in Nat
         /\ Budget(k + 1) = Budget(k) + Larger(Unit, Ceiling)
         /\ Budget(1) = Capacity(Larger(Unit, Ceiling))
         /\ Capacity(Larger(Unit, Ceiling)) <= Budget(k)
<1> DEFINE r == Larger(Unit, Ceiling)
<1>1. r \in Nat
  BY RpcAssumption DEF Larger
<1>2. Capacity(r) \in Nat
  BY <1>1, CapacityType
<1>3. (k - 1) * r \in Nat /\ (k + 1 - 1) * r = (k - 1) * r + r /\ (1 - 1) * r = 0
  <2> HIDE DEF r
  <2>1. \A a \in Nat \ {0}, b \in Nat :
          (a - 1) * b \in Nat /\ (a + 1 - 1) * b = (a - 1) * b + b /\ (1 - 1) * b = 0
    BY SMT
  <2> QED BY <1>1, <2>1
<1> HIDE DEF r
<1> QED BY <1>1, <1>2, <1>3 DEF Budget, r

\* What leaves the gate and what it is worth afterwards stay in the budget.
LEMMA WithinReleased ==
  ASSUME NEW r \in History, NEW level \in Nat, Within(r, level), NEW n \in Nat,
         NEW after \in Nat, after + n * Token <= level,
         NEW s, s = [r EXCEPT ![1] = @ + n]
  PROVE  s \in History /\ Within(s, after)
<1>1. s \in History /\ \A k \in 1..Second : Spent(s)[k] = Spent(r)[k] + n
  BY SpentMore
<1>2. ASSUME NEW k \in 1..Second PROVE Spent(s)[k] * Token + after <= Budget(k)
  <2>1. k \in 0..Second /\ k \in Nat \ {0}
    BY RpcAssumption
  <2>2. Spent(r)[k] \in Nat /\ Budget(k) \in Nat /\ Token \in Nat
    BY <2>1, SpentType, BudgetType, TokenType
  <2>3. /\ Spent(s)[k] * Token = Spent(r)[k] * Token + n * Token
        /\ Spent(r)[k] * Token \in Nat /\ n * Token \in Nat
    <3>1. /\ (Spent(r)[k] + n) * Token = Spent(r)[k] * Token + n * Token
          /\ Spent(r)[k] * Token \in Nat
      BY <2>2, SumTimes
    <3>2. n * Token \in Nat
      BY <2>2, SumTimes
    <3> QED BY <1>1, <3>1, <3>2
  <2>4. Spent(r)[k] * Token + level <= Budget(k)
    BY DEF Within
  <2> QED BY <2>2, <2>3, <2>4
<1> QED BY <1>1, <1>2 DEF Within

\* The requests that leave are fired and paid for.
LEMMA ReleaseKeeps ==
  ASSUME Sound(gate), Kept(gate, recent), NEW w, NEW calls, Lined(w, calls),
         NEW g, Sound(g), NEW n \in Nat, Lets(gate, w, g, n),
         NEW b \in Breakers, Release(w, g, b, calls)
  PROVE  /\ breaker' \in Breakers /\ gate' = g
         /\ Lined(gate'.queue, call') /\ Kept(gate', recent')
<1> DEFINE out == Released(w, g)
           fire(c) == CHOOSE i \in 1..Len(out) : out[i] = c
           to == [c \in Callers |-> Fired(b, fire(c))]
<1>1. /\ gate' = g
      /\ breaker' = IF b = "halfOpen" /\ out # <<>> THEN "probing" ELSE b
      /\ recent' = [recent EXCEPT ![1] = @ + Len(out)]
      /\ call' = [c \in Callers |->
                    IF \E i \in 1..Len(out) : out[i] = c
                    THEN [calls[c] EXCEPT !.pc = Fired(b, fire(c))] ELSE calls[c]]
  BY DEF Release
<1>2. /\ w \in Seq(Callers) /\ n \in 0..Len(w) /\ Len(w) \in Nat
      /\ g.queue = SubSeq(w, n + 1, Len(w))
  BY DEF Lined, Lets
<1>3. out = SubSeq(w, 1, n) /\ Len(out) = n
  <2>1. Len(g.queue) = Len(w) - n
    BY <1>2
  <2>2. out = SubSeq(w, 1, Len(w) - (Len(w) - n))
    BY <2>1 DEF Released
  <2>3. Len(w) - (Len(w) - n) = n
    BY <1>2
  <2> HIDE DEF out
  <2> QED BY <1>2, <2>2, <2>3
<1>4. \A c \in Callers : to[c] \in {"primary", "fallback"}
  BY DEF Fired
<1>5. Fires(calls, out, to, call')
  BY <1>1 DEF Fires
<1> HIDE DEF to, fire, out
<1>6. Lined(g.queue, call')
  BY <1>2, <1>3, <1>4, <1>5, LinedLeaves
<1>7. Kept(g, recent')
  <2>1. /\ Level(gate) \in Nat /\ Level(g) \in Nat
        /\ Level(g) + n * Token <= Level(gate) /\ Full(g)
    BY LevelType DEF Lets
  <2>2. recent \in History /\ Within(recent, Level(gate))
    BY DEF Kept
  <2>3. recent' \in History /\ Within(recent', Level(g))
    BY <1>1, <1>3, <2>1, <2>2, WithinReleased
  <2> QED BY <2>1, <2>3 DEF Kept
<1>8. breaker' \in Breakers
  BY <1>1 DEF Breakers
<1> QED BY <1>1, <1>6, <1>7, <1>8

\* The gate starts full, and nothing was released.
LEMMA TransportInit == Init => TransportInv
<1> SUFFICES ASSUME Init PROVE TransportInv
  OBVIOUS
<1>1. GateInv
  BY InitGateInv
<1> DEFINE r == Larger(Unit, Ceiling)
<1>2. /\ gate.rate = r /\ gate.tokens = Capacity(r) /\ gate.age = 0
      /\ gate.queue = <<>>
  BY DEF Init
<1>3. streak \in 0..Recovery - 1 /\ breaker \in Breakers
  BY RpcAssumption DEF Init, Breakers
<1>4. Lined(gate.queue, call)
  <2>1. call = [c \in Callers |-> [pc |-> "idle", attempt |-> 0]]
    BY DEF Init
  <2>2. [pc |-> "idle", attempt |-> 0] \in Call
    BY RpcAssumption DEF Call, Pcs
  <2> QED BY <1>2, <2>1, <2>2 DEF Lined, Waits, Apart, Resting
<1>5. Kept(gate, recent)
  <2>1. Full(gate) /\ Level(gate) = Capacity(r) /\ Capacity(r) \in Nat
    <3>1. r \in Nat
      BY RpcAssumption DEF Larger
    <3>2. Capacity(r) \in Nat
      BY <3>1, CapacityType
    <3>3. Full(gate)
      BY <1>2, <3>2 DEF Full
    <3> QED BY <1>1, <1>2, <3>2, <3>3, LevelType DEF GateInv, Good
  <2>2. recent = [i \in 1..Second |-> 0] /\ recent \in History
    BY DEF Init, History
  <2>3. \A k \in 0..Second : Spent(recent)[k] = 0
    <3> DEFINE S == {k \in 0..Second : Spent(recent)[k] = 0}
    <3>1. Second \in Nat \ {0}
      BY RpcAssumption
    <3>2. 0 \in S
      BY <2>2, <3>1, SpentType
    <3>3. ASSUME NEW k \in 0..(Second - 1), k \in S PROVE k + 1 \in S
      <4>1. k + 1 \in 1..Second /\ (k + 1) - 1 = k
        BY <3>1
      <4>2. Spent(recent)[k + 1] = recent[k + 1] + Spent(recent)[k]
        BY <2>2, <4>1, SpentType
      <4> QED BY <2>2, <3>3, <4>1, <4>2
    <3>4. \A k \in 0..Second : k \in S
      <4> HIDE DEF S
      <4> QED BY <3>1, <3>2, <3>3, UpToByInduction
    <3> QED BY <3>4
  <2>4. ASSUME NEW k \in 1..Second
        PROVE  Spent(recent)[k] * Token + Level(gate) <= Budget(k)
    <3>1. k \in 0..Second /\ k \in Nat \ {0}
      BY RpcAssumption
    <3>2. 0 * Token = 0
      BY TokenType, SMT
    <3>3. Budget(k) \in Nat /\ Capacity(r) <= Budget(k)
      BY <3>1, BudgetType
    <3> HIDE DEF r
    <3> QED BY <2>1, <2>3, <3>1, <3>2, <3>3
  <2> QED BY <2>1, <2>2, <2>4 DEF Kept, Within
<1> QED BY <1>1, <1>3, <1>4, <1>5 DEF TransportInv

\* A tick: the oldest tick is forgotten, and the bucket is worth a tick more.
LEMMA TickKeeps ==
  ASSUME GateInv, Kept(gate, recent), Tick
  PROVE  Kept(gate', recent') /\ gate'.queue = gate.queue
<1> DEFINE r == Larger(Unit, Ceiling)
           a == Smaller(Second, gate.age + 1)
           p == Larger(0, gate.pause - 1)
           t == IF gate.timer = NoTimer THEN gate.timer
                ELSE Larger(0, gate.timer - 1)
<1>1. /\ gate \in Gates /\ gate.age \in 0..Second /\ gate.pause \in Nat
      /\ gate.timer \in Nat \cup {NoTimer} /\ Second \in Nat \ {0}
      /\ gate.tokens \in Nat /\ gate.rate \in Nat /\ gate.rate >= Unit
      /\ gate.age \in Nat
  BY RpcAssumption DEF GateInv, Good, Sound, Gates
<1>2. gate.rate <= r /\ r \in Nat
  BY RpcAssumption, <1>1 DEF GateInv, Larger
<1>3. a \in 0..Second /\ a \in Nat /\ a <= gate.age + 1 /\ p \in Nat
      /\ t \in Nat \cup {NoTimer}
  BY <1>1 DEF Smaller, Larger, NoTimer
<1>4. gate' = [gate EXCEPT !.age = a, !.pause = p, !.timer = t]
  BY DEF Tick
<1>5. recent' = [i \in 1..Second |-> IF i = 1 THEN 0 ELSE recent[i - 1]]
  BY DEF Tick
<1> HIDE DEF a, p, t, r
<1>6. /\ gate' \in Gates /\ gate'.age = a /\ gate'.rate = gate.rate
      /\ gate'.tokens = gate.tokens /\ gate'.queue = gate.queue
  BY <1>1, <1>3, <1>4 DEF Gates
<1>7. Capacity(gate.rate) \in Nat /\ Capacity(r) \in Nat
      /\ Capacity(gate.rate) <= Capacity(r)
  BY <1>1, <1>2, CapacityType, CapacityMonotone
<1>8. /\ Level(gate') \in Nat /\ Level(gate') <= Capacity(gate.rate)
      /\ Level(gate') <= Level(gate) + gate.rate /\ Level(gate) \in Nat
  <2>1. Sound(gate) /\ Sound(gate')
    BY <1>1, <1>6 DEF Sound
  <2>2. a * gate.rate <= gate.age * gate.rate + gate.rate
    <3>1. a * gate.rate <= (gate.age + 1) * gate.rate
      BY <1>1, <1>3, TimesMonotone
    <3>2. (gate.age + 1) * gate.rate = gate.age * gate.rate + 1 * gate.rate
      BY <1>1, SumTimes
    <3> QED BY <1>1, <3>1, <3>2
  <2>3. a * gate.rate \in Nat /\ gate.age * gate.rate \in Nat
    BY <1>1, <1>3, SumTimes
  <2>4. Level(gate') <= Level(gate) + gate.rate
    BY <1>1, <1>6, <1>7, <2>2, <2>3 DEF Level, Smaller
  <2> QED BY <1>6, <2>1, <2>4, LevelType
<1>9. /\ recent \in History /\ recent' \in History
      /\ \A k \in 1..Second : Spent(recent')[k] = Spent(recent)[k - 1]
  BY <1>5, SpentLater DEF Kept
<1>10. ASSUME NEW k \in 1..Second
       PROVE  Spent(recent')[k] * Token + Level(gate') <= Budget(k)
  <2>1. CASE k = 1
    <3>1. Spent(recent')[k] = 0 /\ 0 * Token = 0
      BY <1>9, <2>1, SpentType, TokenType
    <3>2. Budget(k) = Capacity(r)
      BY <2>1, BudgetType DEF r
    <3> QED BY <1>7, <1>8, <3>1, <3>2
  <2>2. CASE k # 1
    <3>1. k - 1 \in 1..Second /\ k - 1 \in Nat \ {0} /\ (k - 1) + 1 = k
          /\ k - 1 \in 0..Second
      BY <1>1, <2>2
    <3>2. Spent(recent)[k - 1] * Token + Level(gate) <= Budget(k - 1)
      BY <3>1 DEF Kept, Within
    <3>3. Budget(k) = Budget(k - 1) + r /\ Budget(k - 1) \in Nat
      <4>1. Budget((k - 1) + 1) = Budget(k - 1) + r /\ Budget(k - 1) \in Nat
        BY <3>1, BudgetType DEF r
      <4> QED BY <3>1, <4>1
    <3>4. Spent(recent)[k - 1] \in Nat
      BY <1>9, <3>1, SpentType
    <3>5. Spent(recent)[k - 1] * Token \in Nat
      BY <3>4, SumTimes, TokenType
    <3> QED BY <1>1, <1>2, <1>8, <1>9, <3>2, <3>3, <3>5
  <2> QED BY <2>1, <2>2
<1>11. Full(gate')
  BY <1>6 DEF Kept, Full
<1> QED BY <1>6, <1>9, <1>10, <1>11 DEF Kept, Within

\* What the steps that release requests leave, gate and streak apart.
Rest == breaker' \in Breakers /\ Lined(gate'.queue, call') /\ Kept(gate', recent')

\* A call that goes on without the gate.
LEMMA CallMoves ==
  ASSUME TransportInv, NEW d \in Callers, call[d].pc \in {"primary", "fallback"}
  PROVE  /\ Lined(gate.queue, Idle(d)) /\ Lined(gate.queue, Fails(d))
         /\ call[d].attempt < MaxAttempts - 1 =>
              Lined(gate.queue, [call EXCEPT ![d].pc = "sleeping"])
<1>1. /\ Lined(gate.queue, call) /\ call[d] \in Call /\ call[d].pc # "queued"
      /\ call \in [Callers -> Call]
  BY DEF TransportInv, Lined
<1>2. \A pc \in Pcs : /\ [call[d] EXCEPT !.pc = pc] \in Call
                      /\ [call[d] EXCEPT !.pc = pc].pc = pc
                      /\ [call[d] EXCEPT !.pc = pc].attempt = call[d].attempt
  BY <1>1 DEF Call
<1>3. Lined(gate.queue, Idle(d))
  <2> DEFINE row == [pc |-> "idle", attempt |-> 0]
  <2>1. row \in Call /\ row.pc # "queued" /\ row.pc # "sleeping"
    BY RpcAssumption DEF Call, Pcs
  <2>2. Idle(d) = [call EXCEPT ![d] = row]
    BY DEF Idle
  <2> HIDE DEF row
  <2> QED BY <1>1, <2>1, <2>2, LinedMoves
<1>4. Lined(gate.queue, Fails(d))
  <2> DEFINE row == [call[d] EXCEPT !.pc = "fallback"]
  <2>1. row \in Call /\ row.pc = "fallback"
    BY <1>2 DEF Pcs
  <2>2. Fails(d) = [call EXCEPT ![d] = row]
    BY DEF Fails
  <2> HIDE DEF row
  <2> QED BY <1>1, <2>1, <2>2, LinedMoves
<1>5. ASSUME call[d].attempt < MaxAttempts - 1
      PROVE  Lined(gate.queue, [call EXCEPT ![d].pc = "sleeping"])
  <2> DEFINE row == [call[d] EXCEPT !.pc = "sleeping"]
  <2>1. row \in Call /\ row.pc = "sleeping" /\ row.attempt = call[d].attempt
    BY <1>2 DEF Pcs
  <2>2. [call EXCEPT ![d].pc = "sleeping"] = [call EXCEPT ![d] = row]
    OBVIOUS
  <2> HIDE DEF row
  <2> QED BY <1>1, <1>5, <2>1, <2>2, LinedMoves
<1> QED BY <1>3, <1>4, <1>5

\* A caller that queues.
LEMMA QueueKeeps ==
  ASSUME TransportInv, NEW d \in Callers, call[d].pc \in {"idle", "sleeping"},
         NEW k \in 0..MaxAttempts - 1, Queue(d, k)
  PROVE  Rest
<1> DEFINE row == [pc |-> "queued", attempt |-> k]
           w == Append(gate.queue, d)
           g == Acquire(gate, d)
           calls == [call EXCEPT ![d] = row]
<1>1. row \in Call /\ row.pc = "queued"
  BY DEF Call, Pcs
<1>2. Lined(w, calls)
  <2> HIDE DEF row
  <2>1. Lined(gate.queue, call) /\ call[d].pc # "queued"
    BY DEF TransportInv
  <2> QED BY <1>1, <2>1, LinedJoins
<1>3. Good(gate) /\ Sound(gate) /\ Kept(gate, recent) /\ Full(gate)
  BY DEF TransportInv, GateInv, Good, Kept
<1>4. PICK n \in Nat : Lets(gate, w, g, n)
  BY <1>3, AcquireLevel
<1>5. Sound(g)
  BY <1>3, AcquireGood DEF Good
<1>6. Release(w, g, breaker, calls) /\ breaker \in Breakers
  BY DEF Queue, TransportInv
<1> HIDE DEF w, g, calls
<1> QED BY <1>2, <1>3, <1>4, <1>5, <1>6, ReleaseKeeps DEF Rest

\* An answer of the primary that changes the rate, or leaves it.
LEMMA SucceedsKeeps ==
  ASSUME TransportInv, NEW d \in Callers, PrimarySucceeds(d)
  PROVE  Rest /\ streak' \in 0..Recovery - 1
<1> DEFINE g == IF Recovers THEN SetRate(gate, Raised) ELSE gate
<1>1. Good(gate) /\ Sound(gate) /\ Kept(gate, recent) /\ Full(gate)
  BY DEF TransportInv, GateInv, Good, Kept
<1>2. Raised \in Nat
  BY RpcAssumption DEF Raised, Smaller, TransportInv, GateInv
<1>3. Sound(g)
  BY <1>1, <1>2, SetRateGood DEF Good
<1>4. PICK n \in Nat : Lets(gate, gate.queue, g, n)
  <2>1. CASE Recovers
    BY <1>1, <1>2, <2>1, SetRateLevel
  <2>2. CASE ~Recovers
    <3>1. gate.queue \in Seq(Callers) /\ Level(gate) \in Nat
      BY <1>1, LevelType DEF Sound, Gates
    <3> QED BY <1>1, <2>2, <3>1, LetsNobody
  <2> QED BY <2>1, <2>2
<1>5. Release(gate.queue, g, Closed(breaker), Idle(d))
  BY DEF PrimarySucceeds
<1>6. Closed(breaker) \in Breakers
  BY DEF TransportInv, Closed, Breakers
<1>7. Lined(gate.queue, Idle(d))
  BY CallMoves DEF PrimarySucceeds
<1>8. streak' \in 0..Recovery - 1
  BY RpcAssumption DEF PrimarySucceeds, Recovers, TransportInv, GateInv
<1> HIDE DEF g
<1> QED BY <1>1, <1>3, <1>4, <1>5, <1>6, <1>7, <1>8, ReleaseKeeps DEF Rest

LEMMA LimitedKeeps ==
  ASSUME TransportInv, NEW d \in Callers, RateLimited(d)
  PROVE  Rest /\ streak' \in 0..Recovery - 1
<1>1. Good(gate) /\ Sound(gate) /\ Kept(gate, recent) /\ Full(gate) /\ GateInv
  BY DEF TransportInv, GateInv, Good, Kept
<1>2. PICK limit \in Limits \cup {NoHeader}, after \in RetryAfters \cup {NoHeader},
           b \in Opens(breaker) :
        Release(gate.queue, OnError(limit, after), b, Fails(d))
  BY DEF RateLimited
<1>3. PICK n \in Nat : Lets(gate, gate.queue, OnError(limit, after), n)
  BY <1>1, OnErrorLevel
<1>4. Sound(OnError(limit, after))
  BY <1>1, OnErrorGood DEF Good
<1>5. b \in Breakers
  BY <1>2 DEF Opens, Breakers
<1>6. Lined(gate.queue, Fails(d))
  BY CallMoves DEF RateLimited
<1>7. streak' \in 0..Recovery - 1
  BY RpcAssumption DEF RateLimited
<1> QED BY <1>1, <1>2, <1>3, <1>4, <1>5, <1>6, <1>7, ReleaseKeeps DEF Rest

LEMMA TimerKeeps ==
  ASSUME TransportInv, TimerFires
  PROVE  Rest
<1> DEFINE h == [gate EXCEPT !.timer = NoTimer]
<1>1. Good(gate) /\ Sound(gate) /\ Kept(gate, recent) /\ Full(gate)
  BY DEF TransportInv, GateInv, Good, Kept
<1>2. /\ Sound(h) /\ Timely(h) /\ h.queue = gate.queue /\ h.rate = gate.rate
      /\ h.tokens = gate.tokens /\ h.age = gate.age
  BY <1>1 DEF Sound, Gates, Timely, NoTimer
<1>3. Release(gate.queue, Pump(h), breaker, call) /\ breaker \in Breakers
  BY DEF TimerFires, TransportInv
<1> HIDE DEF h
<1>4. Full(h) /\ Level(h) = Level(gate)
  BY <1>1, <1>2 DEF Full, Level
<1>5. PICK n \in Nat : Lets(h, h.queue, Pump(h), n)
  BY <1>2, <1>4, PumpLevel
<1>6. Lets(gate, gate.queue, Pump(h), n)
  BY <1>2, <1>4, <1>5 DEF Lets
<1>7. Sound(Pump(h))
  BY <1>2, PumpGood DEF Good
<1>8. Lined(gate.queue, call)
  BY DEF TransportInv
<1> QED BY <1>1, <1>3, <1>6, <1>7, <1>8, ReleaseKeeps DEF Rest

\* Every step keeps the invariant.
LEMMA TransportStep == TransportInv /\ [Next]_vars => TransportInv'
<1> SUFFICES ASSUME TransportInv, [Next]_vars PROVE TransportInv'
  OBVIOUS
<1>1. GateInv'
  BY NextGateInv DEF TransportInv
<1>2. ASSUME Rest, streak' \in 0..Recovery - 1 PROVE TransportInv'
  BY <1>1, <1>2 DEF TransportInv, Rest, Lined, Waits, Apart, Resting, Kept,
     Full, Within, Level
<1>3. streak \in 0..Recovery - 1 /\ breaker \in Breakers
      /\ Lined(gate.queue, call) /\ Kept(gate, recent) /\ GateInv
  BY DEF TransportInv
<1>4. ASSUME NEW d \in Callers, Request(d) PROVE TransportInv'
  <2>1. 0 \in 0..MaxAttempts - 1
    BY RpcAssumption
  <2>2. Rest /\ streak' = streak
    BY <1>4, <2>1, QueueKeeps DEF Request
  <2> QED BY <1>2, <1>3, <2>2
<1>5. ASSUME NEW d \in Callers, Retry(d) PROVE TransportInv'
  <2>1. call[d].attempt + 1 \in 0..MaxAttempts - 1
    <3>1. call[d].attempt \in 0..MaxAttempts - 1
      BY <1>3 DEF Lined, Call
    <3>2. call[d].attempt < MaxAttempts - 1
      BY <1>3, <1>5 DEF Lined, Resting, Retry
    <3> QED BY <3>1, <3>2, RpcAssumption
  <2>2. Rest /\ streak' = streak
    BY <1>5, <2>1, QueueKeeps DEF Retry
  <2> QED BY <1>2, <1>3, <2>2
<1>6. ASSUME NEW d \in Callers, PrimarySucceeds(d) \/ RateLimited(d)
      PROVE  TransportInv'
  BY <1>2, <1>6, SucceedsKeeps, LimitedKeeps
<1>7. ASSUME NEW d \in Callers,
             PrimaryFails(d) \/ FallbackSucceeds(d) \/ FallbackFails(d)
      PROVE  TransportInv'
  <2>1. call[d].pc \in {"primary", "fallback"}
    BY <1>7 DEF PrimaryFails, FallbackSucceeds, FallbackFails
  <2>2. gate' = gate /\ recent' = recent /\ streak' = streak
    BY <1>7 DEF PrimaryFails, FallbackSucceeds, FallbackFails
  <2>3. breaker' \in Breakers
    BY <1>3, <1>7 DEF PrimaryFails, FallbackSucceeds, FallbackFails, Opens, Breakers
  <2>4. \/ call' = Fails(d) \/ call' = Idle(d)
        \/ /\ call[d].attempt < MaxAttempts - 1
           /\ call' = [call EXCEPT ![d].pc = "sleeping"]
    BY <1>7 DEF PrimaryFails, FallbackSucceeds, FallbackFails
  <2>5. Lined(gate.queue, call')
    BY <2>1, <2>4, CallMoves
  <2>6. Rest
    BY <1>3, <2>2, <2>3, <2>5 DEF Rest
  <2> QED BY <1>2, <1>3, <2>2, <2>6
<1>8. ASSUME HalfOpens \/ UNCHANGED vars PROVE TransportInv'
  <2>1. /\ gate' = gate /\ recent' = recent /\ streak' = streak /\ call' = call
        /\ breaker' \in Breakers
    BY <1>3, <1>8 DEF HalfOpens, vars, Breakers
  <2>2. Rest
    BY <1>3, <2>1 DEF Rest
  <2> QED BY <1>2, <1>3, <2>1, <2>2
<1>9. ASSUME TimerFires PROVE TransportInv'
  BY <1>2, <1>3, <1>9, TimerKeeps DEF TimerFires
<1>10. ASSUME Tick PROVE TransportInv'
  <2>1. streak' = streak /\ breaker' = breaker /\ call' = call
    BY <1>10 DEF Tick
  <2>2. Rest
    BY <1>3, <1>10, <2>1, TickKeeps DEF Rest
  <2> QED BY <1>2, <1>3, <2>1, <2>2
<1> QED
  BY <1>4, <1>5, <1>6, <1>7, <1>8, <1>9, <1>10 DEF Next, Answer

\* The gate, the circuit, the calls and what was released fit together at all
\* times (createRateGate, createCircuitBreakerRpc, withRetry).
THEOREM TransportInvariance == Spec => []TransportInv
BY TransportInit, TransportStep, PTL DEF Spec

\* The requests released within one second are at most a full bucket and what
\* a second at the ceiling refills, in whatever order the rate changes, the
\* cooldowns and the timers of createRateGate come and however late they are.
THEOREM Rates == Spec => []RateRespected
<1>1. TransportInv => RateRespected
  <2> SUFFICES ASSUME TransportInv PROVE RateRespected
    OBVIOUS
  <2>1. Second \in 1..Second /\ Second \in 0..Second /\ Second \in Nat \ {0}
    BY RpcAssumption
  <2>2. Spent(recent)[Second] * Token + Level(gate) <= Budget(Second)
    BY <2>1 DEF TransportInv, Kept, Within
  <2>3. Level(gate) \in Nat /\ Budget(Second) \in Nat
    BY <2>1, LevelType, BudgetType DEF TransportInv, GateInv, Good
  <2>4. Spent(recent)[Second] * Token \in Nat
    <3>1. Spent(recent)[Second] \in Nat
      BY <2>1, SpentType DEF TransportInv, Kept
    <3> QED BY <3>1, SumTimes, TokenType
  <2>5. Spent(recent)[Second] * Token <= Budget(Second)
    BY <2>2, <2>3, <2>4
  <2> QED BY <2>5 DEF RateRespected, Spent, Budget
<1> QED BY <1>1, TransportInvariance, PTL

\* The queue of the gate and the calls agree on who waits, a bucket holds no
\* more than its capacity, and no call makes more attempts than it has
\* (createRateGate, withRetry).
THEOREM TypeCorrectness == Spec => []TypeOK
<1>1. TransportInv => TypeOK
  BY DEF TransportInv, GateInv, Good, Sound, Kept, Full, Lined, Waits, Apart,
     History, Breakers, TypeOK
<1> QED BY <1>1, TransportInvariance, PTL
=============================================================================
