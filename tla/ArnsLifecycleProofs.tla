------------------------ MODULE ArnsLifecycleProofs ------------------------
(***************************************************************************)
(* For every number of names, crankers, trades and failures: the accounts  *)
(* and calls stay well formed (TypeOK), and every name keeps to its        *)
(* lifecycle (ImplementsLifecycle): a lease is put up for auction late by  *)
(* no more than the clocks are behind and the calls are slow.              *)
(*                                                                         *)
(* The refinement rests on what a call knows of the names it is about to   *)
(* convert, though time passes and owners and other crankers act between   *)
(* its scan and its transactions: a lapsed lease can no longer be          *)
(* extended, and a lease that is bought meanwhile has not lapsed.          *)
(***************************************************************************)
EXTENDS ArnsLifecycle, FiniteSetTheorems, TLAPS

-----------------------------------------------------------------------------
(* Calls.                                                                  *)

LEMMA TxsPerScanType == TxsPerScan \in Nat \ {0}
BY ArnsAssumption DEF TxsPerScan

LEMMA NoCallType == NoCall \in Call /\ NoCall.pc = "idle"
BY ArnsAssumption DEF NoCall, Call, Pcs, Steps

\* What one step of a call does to the calls: it starts on the cranker's
\* clock, converts only what a scan at that time found, and always has a
\* transaction left for it.
CallStep(c) ==
  /\ call' \in [Crankers -> Call]
  /\ \A d \in Crankers \ {c} : call'[d] = call[d]
  /\ ~At(c, "idle")' =>
       \/ /\ ~At(c, "idle")
          /\ call'[c].now = call[c].now /\ call'[c].age = call[c].age
       \/ \E s \in Skews : call'[c].now = clock + s /\ call'[c].age = 0
  /\ At(c, "convert")' =>
       /\ call'[c].left > 0 /\ ~At(c, "idle") /\ call'[c].age = call[c].age
       /\ \/ At(c, "convert") /\ call'[c].due \subseteq call[c].due
          \/ call'[c].due = Lapsed(call[c].now)

LEMMA CallSet ==
  ASSUME TypeOK, NEW c \in Crankers, NEW x \in Call,
         call' = [call EXCEPT ![c] = x]
  PROVE  /\ call' \in [Crankers -> Call] /\ call'[c] = x
         /\ \A d \in Crankers \ {c} : call'[d] = call[d]
BY DEF TypeOK

LEMMA CallReturns ==
  ASSUME TypeOK, NEW c \in Crankers, Return(c)
  PROVE  CallStep(c)
BY CallSet, NoCallType DEF Return, CallStep, At

LEMMA CallGoes ==
  ASSUME TypeOK, NEW c \in Crankers, NEW l \in Pcs \ {"convert"}, Goto(c, l),
         ~At(c, "idle")
  PROVE  CallStep(c)
<1> DEFINE x == [call[c] EXCEPT !.pc = l]
<1>1. x \in Call /\ x.pc = l /\ x.now = call[c].now /\ x.age = call[c].age
  <2>1. call[c] \in Call
    BY DEF TypeOK
  <2> QED BY <2>1 DEF Call
<1>2. call' = [call EXCEPT ![c] = x]
  BY DEF Goto
<1> HIDE DEF x
<1> QED BY <1>1, <1>2, CallSet DEF CallStep, At

LEMMA CallBegins ==
  ASSUME TypeOK, NEW c \in Crankers, Begin(c)
  PROVE  CallStep(c)
<1>1. PICK s \in Skews :
        call' = [call EXCEPT ![c] = [NoCall EXCEPT !.pc = "toReturned",
                                                   !.now = clock + s]]
  BY DEF Begin
<1> DEFINE x == [NoCall EXCEPT !.pc = "toReturned", !.now = clock + s]
<1>2. clock + s \in Int
  BY ArnsAssumption DEF TypeOK
<1>3. x \in Call /\ x.pc = "toReturned" /\ x.now = clock + s /\ x.age = 0
  <2>1. "toReturned" \in Pcs /\ NoCall.age = 0
    BY DEF NoCall, Pcs, Steps
  <2> QED BY <1>2, <2>1, NoCallType DEF Call
<1> HIDE DEF x
<1> QED BY <1>1, <1>3, CallSet DEF CallStep, At, x

\* The three scans.
LEMMA CallScans ==
  ASSUME TypeOK, NEW c \in Crankers,
         ScanToReturned(c) \/ ScanReturned(c) \/ ScanExpired(c)
  PROVE  CallStep(c)
<1>1. ~At(c, "idle")
  BY DEF ScanToReturned, ScanReturned, ScanExpired, Scan, At
<1>2. call[c] \in Call
  BY DEF TypeOK
<1>3. CASE Return(c) \/ Goto(c, "returned") \/ Goto(c, "expired")
  BY <1>1, <1>3, CallReturns, CallGoes DEF Pcs, Steps
<1>4. CASE call' = [call EXCEPT ![c].pc = "convert",
                                ![c].due = Lapsed(call[c].now),
                                ![c].left = TxsPerScan]
  <2>1. PICK D \in SUBSET Names : D = Lapsed(call[c].now)
    BY DEF Lapsed
  <2>2. PICK k \in Nat \ {0} : k = TxsPerScan
    BY TxsPerScanType
  <2> DEFINE x == [call[c] EXCEPT !.pc = "convert", !.due = D, !.left = k]
  <2>3. /\ x \in Call /\ x.pc = "convert" /\ x.now = call[c].now
        /\ x.age = call[c].age /\ x.due = D /\ x.left > 0
    <3>1. "convert" \in Pcs /\ k \in Nat /\ k > 0
      BY DEF Pcs
    <3>2. x \in Call
      BY <1>2, <3>1 DEF Call
    <3>3. /\ x.pc = "convert" /\ x.now = call[c].now /\ x.age = call[c].age
          /\ x.due = D /\ x.left = k
      BY <1>2 DEF Call
    <3> QED BY <3>1, <3>2, <3>3
  <2>4. call' = [call EXCEPT ![c] = x]
    BY <1>4, <2>1, <2>2
  <2> HIDE DEF x
  <2> QED BY <1>1, <2>1, <2>3, <2>4, CallSet DEF CallStep, At
<1>5. CASE \E b \in SUBSET Names, l \in {"pruneReturned", "pruneExpired"} :
             call' = [call EXCEPT ![c].pc = l, ![c].due = b]
  <2>1. PICK b \in SUBSET Names, l \in {"pruneReturned", "pruneExpired"} :
          call' = [call EXCEPT ![c].pc = l, ![c].due = b]
    BY <1>5
  <2> DEFINE x == [call[c] EXCEPT !.pc = l, !.due = b]
  <2>2. x \in Call /\ x.pc = l /\ x.now = call[c].now /\ x.age = call[c].age
    BY <1>2 DEF Call, Pcs
  <2>3. call' = [call EXCEPT ![c] = x]
    BY <2>1
  <2> HIDE DEF x
  <2> QED BY <1>1, <2>2, <2>3, CallSet DEF CallStep, At
<1>6. CASE ScanToReturned(c)
  BY <1>3, <1>4, <1>6 DEF ScanToReturned, Scan
<1>7. CASE ScanReturned(c)
  BY <1>3, <1>5, <1>7 DEF ScanReturned, Scan, Batches, AuctionOver
<1>8. CASE ScanExpired(c)
  BY <1>3, <1>5, <1>8 DEF ScanExpired, Scan, Batches, WindowPassed
<1> QED BY <1>6, <1>7, <1>8

LEMMA CallLoops ==
  ASSUME TypeOK, NEW c \in Crankers, At(c, "convert"), NEW n \in call[c].due,
         Loop(c, call[c].due \ {n}, call[c].left - 1)
  PROVE  CallStep(c)
<1> DEFINE rest == call[c].due \ {n}
           left == call[c].left - 1
           x == [call[c] EXCEPT !.due = rest, !.left = left]
<1>1. CASE Return(c)
  BY <1>1, CallReturns
<1>2. CASE left # 0 /\ call' = [call EXCEPT ![c].due = rest, ![c].left = left]
  <2>1. call[c] \in Call /\ call[c].left > 0
    BY DEF TypeOK
  <2>2. left \in Nat /\ left > 0 /\ rest \in SUBSET Names
    BY <1>2, <2>1 DEF Call
  <2>3. /\ x \in Call /\ x.pc = "convert" /\ x.now = call[c].now
        /\ x.age = call[c].age /\ x.due = rest /\ x.left = left
    BY <2>1, <2>2 DEF Call, At
  <2>4. call' = [call EXCEPT ![c] = x]
    BY <1>2
  <2> HIDE DEF x
  <2> QED BY <2>2, <2>3, <2>4, CallSet DEF CallStep, At
<1> QED BY <1>1, <1>2 DEF Loop

-----------------------------------------------------------------------------
(* Names.                                                                  *)

\* What an abstract step may do to every name.
NameStep == \A n \in Names : Lifecycle!Move(name[n], name'[n])

\* A name changes, and the change is a move of its lifecycle.
LEMMA OneName ==
  ASSUME TypeOK, NEW n \in Names, NEW x \in Name,
         name' = [name EXCEPT ![n] = x], Lifecycle!Move(name[n], x)
  PROVE  name' \in [Names -> Name] /\ NameStep
<1>1. name' \in [Names -> Name]
  BY DEF TypeOK
<1>2. \A m \in Names : name'[m] = IF m = n THEN x ELSE name[m]
  BY DEF TypeOK
<1>3. \A m \in Names : Lifecycle!Move(name[m], name[m])
  BY DEF Lifecycle!Move
<1> QED BY <1>1, <1>2, <1>3 DEF NameStep

LEMMA SameNames ==
  ASSUME TypeOK, UNCHANGED name
  PROVE  name' \in [Names -> Name] /\ NameStep
BY DEF TypeOK, NameStep, Lifecycle!Move

\* Owners keep to the lifecycle.
LEMMA OwnersMove ==
  ASSUME TypeOK, NEW n \in Names, Buy(n) \/ ExtendLease(n) \/ ReleaseName(n)
  PROVE  name' \in [Names -> Name] /\ NameStep
<1>1. name[n] \in Name /\ clock \in Nat
  BY DEF TypeOK
<1>2. CASE Buy(n)
  <2>1. PICK x \in Owned : name' = [name EXCEPT ![n] = x]
    BY <1>2 DEF Buy, Trade
  <2>2. x \in Name /\ x.state \in {"lease", "permabuy"}
    BY <1>1, ArnsAssumption DEF Owned, Name
  <2>3. Lifecycle!Move(name[n], x)
    BY <1>2, <2>2 DEF Buy, Lifecycle!Move, Lifecycle!Trade
  <2> QED BY <2>1, <2>2, <2>3, OneName
<1>3. CASE ExtendLease(n)
  <2>1. PICK t \in Terms : name' = [name EXCEPT ![n] = [name[n] EXCEPT !.at = @ + t]]
    BY <1>3 DEF ExtendLease, Trade
  <2>2. PICK x : x = [name[n] EXCEPT !.at = @ + t]
    OBVIOUS
  <2>3. /\ x \in Name /\ x.state = name[n].state
        /\ name[n].at < x.at
    BY <1>1, <2>2, ArnsAssumption DEF Name
  <2>4. Lifecycle!Move(name[n], x)
    BY <1>3, <2>3 DEF ExtendLease, Lifecycle!Move, Lifecycle!Trade
  <2> QED BY <2>1, <2>2, <2>3, <2>4, OneName
<1>4. CASE ReleaseName(n)
  <2>1. name' = [name EXCEPT ![n] = [state |-> "auction", at |-> clock]]
    BY <1>4 DEF ReleaseName, Trade
  <2>2. [state |-> "auction", at |-> clock] \in Name
    BY <1>1 DEF Name
  <2>3. Lifecycle!Move(name[n], [state |-> "auction", at |-> clock])
    BY <1>4 DEF ReleaseName, Lifecycle!Move, Lifecycle!Trade
  <2> QED BY <2>1, <2>2, <2>3, OneName
<1> QED BY <1>2, <1>3, <1>4

\* A batch frees names whose window, or whose auction, is over.
LEMMA BatchMoves ==
  ASSUME TypeOK, NEW ok \in SUBSET (AuctionOver(clock) \cup WindowPassed(clock)),
         name' = [n \in Names |-> IF n \in ok THEN Free ELSE name[n]]
  PROVE  name' \in [Names -> Name] /\ NameStep
<1>1. Free \in Name /\ Free = Lifecycle!Free
  BY DEF Free, Name, Lifecycle!Free
<1>2. name' \in [Names -> Name]
  BY <1>1 DEF TypeOK
<1>3. ASSUME NEW n \in Names PROVE Lifecycle!Move(name[n], name'[n])
  <2>1. CASE n \in ok
    <3>1. Lifecycle!Expire(name[n], Free)
      BY <1>1, <2>1 DEF AuctionOver, WindowPassed, Lifecycle!Expire
    <3> QED BY <2>1, <3>1 DEF Lifecycle!Move
  <2>2. CASE n \notin ok
    BY <2>2 DEF Lifecycle!Move
  <2> QED BY <2>1, <2>2
<1> QED BY <1>2, <1>3 DEF NameStep

\* Only what has lapsed, and was within its window Late ago, is put up for
\* auction.
LEMMA AuctionMoves ==
  ASSUME TypeOK, NEW n \in Names, Convertible(n), ToAuction(n),
         n \notin WindowPassed(clock - Late)
  PROVE  name' \in [Names -> Name] /\ NameStep
<1> DEFINE x == [state |-> "auction", at |-> clock]
<1>1. x \in Name /\ name' = [name EXCEPT ![n] = x]
  BY DEF TypeOK, Name, ToAuction
<1>2. name[n] \in Name /\ clock \in Nat
  BY DEF TypeOK
<1>3. Lifecycle!Lapse(name[n], x)
  BY <1>2, ArnsAssumption
     DEF Convertible, WindowPassed, Lifecycle!Lapse, Late, Name
<1> QED BY <1>1, <1>3, OneName DEF Lifecycle!Move

-----------------------------------------------------------------------------
(* Type correctness.                                                       *)

LEMMA AuctionTyped ==
  ASSUME TypeOK, NEW n \in Names, ToAuction(n)
  PROVE  name' \in [Names -> Name]
BY DEF TypeOK, ToAuction, Name

\* What a step of a call leaves to be shown besides its effect on calls.
RestTyped ==
  /\ UNCHANGED <<clock, stuck, trades>> /\ name' \in [Names -> Name]
  /\ wait' \in [Crankers -> [Steps -> 0..ScanInterval]]
  /\ polls' \in [Crankers -> 0..Polls] /\ errors' \in 0..MaxErrors

LEMMA TypeFromCall ==
  ASSUME TypeOK, NEW c \in Crankers, CallStep(c), RestTyped
  PROVE  TypeOK'
<1>1. \A d \in Crankers : At(d, "convert")' => call'[d].left > 0
  <2> SUFFICES ASSUME NEW d \in Crankers, call'[d].pc = "convert"
               PROVE  call'[d].left > 0
    BY DEF At
  <2>1. CASE d = c
    BY <2>1 DEF CallStep, At
  <2>2. CASE d # c
    BY <2>2 DEF CallStep, TypeOK, At
  <2> QED BY <2>1, <2>2
<1> QED BY <1>1 DEF TypeOK, RestTyped, CallStep

LEMMA ThrottleTyped ==
  ASSUME TypeOK, NEW c \in Crankers, NEW s \in Steps, Throttle(c, s)
  PROVE  wait' \in [Crankers -> [Steps -> 0..ScanInterval]]
<1>1. wait[c] \in [Steps -> 0..ScanInterval] /\ ScanInterval \in 0..ScanInterval
  BY ArnsAssumption DEF TypeOK
<1>2. [wait[c] EXCEPT ![s] = ScanInterval] \in [Steps -> 0..ScanInterval]
  BY <1>1
<1>3. wait' = [wait EXCEPT ![c] = [wait[c] EXCEPT ![s] = ScanInterval]]
  BY DEF Throttle
<1> QED BY <1>2, <1>3 DEF TypeOK

\* Every step of a call keeps the types and does to the calls what CallStep
\* says.
LEMMA CrankStep ==
  ASSUME TypeOK, NEW c \in Crankers, ArnsLifecycleStep(c) \/ RpcError(c)
  PROVE  TypeOK' /\ CallStep(c) /\ UNCHANGED clock
<1> USE ArnsAssumption
<1>1. CASE Begin(c)
  <2>1. CallStep(c)
    BY <1>1, CallBegins
  <2>2. UNCHANGED <<clock, name, stuck, wait, trades, errors>>
    BY <1>1 DEF Begin
  <2>3. polls' \in [Crankers -> 0..Polls]
    BY <1>1 DEF Begin, TypeOK
  <2>4. RestTyped
    BY <2>2, <2>3 DEF RestTyped, TypeOK
  <2> QED BY <2>1, <2>2, <2>4, TypeFromCall
<1>2. CASE ScanToReturned(c) \/ ScanReturned(c) \/ ScanExpired(c)
  <2>1. CallStep(c)
    BY <1>2, CallScans
  <2>2. UNCHANGED <<clock, name, stuck, polls, trades, errors>>
    BY <1>2 DEF ScanToReturned, ScanReturned, ScanExpired, Scan
  <2>3. UNCHANGED wait \/ \E s \in Steps : Throttle(c, s)
    BY <1>2 DEF ScanToReturned, ScanReturned, ScanExpired, Scan, Steps
  <2>4. wait' \in [Crankers -> [Steps -> 0..ScanInterval]]
    BY <2>3, ThrottleTyped DEF TypeOK
  <2>5. RestTyped
    BY <2>2, <2>4 DEF RestTyped, TypeOK
  <2> QED BY <2>1, <2>2, <2>5, TypeFromCall
<1>3. CASE PruneNameToReturned(c)
  <2>1. UNCHANGED <<clock, stuck, wait, polls, trades>> /\ At(c, "convert")
    BY <1>3 DEF PruneNameToReturned
  <2>2. PICK n \in call[c].due :
          /\ Return(c) \/ Loop(c, call[c].due \ {n}, call[c].left - 1)
          /\ ToAuction(n) \/ UNCHANGED name
          /\ UNCHANGED errors \/ (errors < MaxErrors /\ errors' = errors + 1)
    BY <1>3 DEF PruneNameToReturned
  <2>3. CallStep(c)
    BY <2>1, <2>2, CallReturns, CallLoops
  <2>4. n \in Names
    BY DEF TypeOK, Call
  <2>5. name' \in [Names -> Name]
    BY <2>2, <2>4, AuctionTyped DEF TypeOK
  <2>6. errors' \in 0..MaxErrors
    BY <2>2 DEF TypeOK
  <2>7. RestTyped
    BY <2>1, <2>5, <2>6 DEF RestTyped, TypeOK
  <2> QED BY <2>1, <2>3, <2>7, TypeFromCall
<1>4. CASE PruneReturnedNames(c) \/ PruneExpiredNames(c)
  <2>1. /\ UNCHANGED <<clock, stuck, wait, polls, trades>> /\ Return(c)
        /\ UNCHANGED errors \/ (errors < MaxErrors /\ errors' = errors + 1)
    BY <1>4 DEF PruneReturnedNames, PruneExpiredNames, FreeBatch
  <2>2. UNCHANGED name
        \/ \E ok \in SUBSET (AuctionOver(clock) \cup WindowPassed(clock)) :
             name' = [n \in Names |-> IF n \in ok THEN Free ELSE name[n]]
    BY <1>4 DEF PruneReturnedNames, PruneExpiredNames, FreeBatch
  <2>3. name' \in [Names -> Name]
    BY <2>2, BatchMoves DEF TypeOK
  <2>4. errors' \in 0..MaxErrors
    BY <2>1 DEF TypeOK
  <2>5. RestTyped
    BY <2>1, <2>3, <2>4 DEF RestTyped, TypeOK
  <2> QED BY <2>1, <2>5, CallReturns, TypeFromCall
<1>5. CASE RpcError(c)
  <2>1. /\ UNCHANGED <<clock, name, stuck, polls, trades>> /\ Return(c)
        /\ errors < MaxErrors /\ errors' = errors + 1
    BY <1>5 DEF RpcError
  <2>2. UNCHANGED wait \/ \E s \in Steps : Throttle(c, s)
    BY <1>5 DEF RpcError
  <2>3. wait' \in [Crankers -> [Steps -> 0..ScanInterval]]
    BY <2>2, ThrottleTyped DEF TypeOK
  <2>4. errors' \in 0..MaxErrors
    BY <2>1 DEF TypeOK
  <2>5. RestTyped
    BY <2>1, <2>3, <2>4 DEF RestTyped, TypeOK
  <2> QED BY <2>1, <2>5, CallReturns, TypeFromCall
<1> QED BY <1>1, <1>2, <1>3, <1>4, <1>5 DEF ArnsLifecycleStep

LEMMA TypeInit == Init => TypeOK
<1> SUFFICES ASSUME Init PROVE TypeOK
  OBVIOUS
<1>1. Free \in Name
  BY DEF Free, Name
<1>2. 0 \in 0..ScanInterval /\ 0 \in 0..Polls /\ 0 \in 0..MaxTrades
      /\ 0 \in 0..MaxErrors
  BY ArnsAssumption
<1>3. \A c \in Crankers : call[c] = NoCall
  BY DEF Init
<1> QED BY <1>1, <1>2, <1>3, NoCallType DEF Init, TypeOK, At

LEMMA OwnersTyped ==
  ASSUME TypeOK, NEW n \in Names, Buy(n) \/ ExtendLease(n) \/ ReleaseName(n)
  PROVE  TypeOK' /\ UNCHANGED <<clock, call>>
<1>1. /\ trades < MaxTrades /\ trades' = trades + 1
      /\ UNCHANGED <<clock, stuck, call, wait, polls, errors>>
  BY DEF Buy, ExtendLease, ReleaseName, Trade
<1>2. trades' \in 0..MaxTrades
  BY <1>1, ArnsAssumption DEF TypeOK
<1>3. name' \in [Names -> Name]
  BY OwnersMove
<1> QED BY <1>1, <1>2, <1>3 DEF TypeOK, At

\* A tick ages the calls in progress, and counts as many faults.
LEMMA TickAges ==
  ASSUME TypeOK, Tick
  PROVE  /\ call' \in [Crankers -> Call]
         /\ \A c \in Crankers :
              /\ call'[c].pc = call[c].pc /\ call'[c].now = call[c].now
              /\ call'[c].due = call[c].due /\ call'[c].left = call[c].left
              /\ ~At(c, "idle") => call'[c].age = call[c].age + 1
<1>1. /\ \A c \in Crankers : At(c, "idle") \/ call[c].age < MaxLag
      /\ call' = [c \in Crankers |-> IF At(c, "idle") THEN call[c]
                                   ELSE [call[c] EXCEPT !.age = @ + 1]]
  BY DEF Tick
<1>2. ASSUME NEW c \in Crankers
      PROVE  /\ call'[c] \in Call
             /\ call'[c].pc = call[c].pc /\ call'[c].now = call[c].now
             /\ call'[c].due = call[c].due /\ call'[c].left = call[c].left
             /\ ~At(c, "idle") => call'[c].age = call[c].age + 1
  <2>1. call[c] \in Call
    BY DEF TypeOK
  <2>2. CASE At(c, "idle")
    BY <1>1, <2>1, <2>2
  <2>3. CASE ~At(c, "idle")
    <3>1. call[c].age + 1 \in 0..MaxLag
      BY <1>1, <2>1, <2>3, ArnsAssumption DEF Call
    <3>2. call'[c] = [call[c] EXCEPT !.age = @ + 1]
      BY <1>1, <2>3
    <3> QED BY <2>1, <3>1, <3>2 DEF Call
  <2> QED BY <2>2, <2>3
<1> QED BY <1>1, <1>2

LEMMA SlowCounted ==
  ASSUME TypeOK, Tick
  PROVE  errors' \in 0..MaxErrors
<1> DEFINE slow == {c \in Crankers : ~At(c, "idle")}
<1>1. errors' = errors + Cardinality(slow) /\ errors' <= MaxErrors
  BY DEF Tick
<1>2. Cardinality(slow) \in Nat
  <2>1. IsFiniteSet(slow)
    BY ArnsAssumption, FS_Subset
  <2> QED BY <2>1, FS_CardinalityType
<1> QED BY <1>1, <1>2 DEF TypeOK

LEMMA TickTyped ==
  ASSUME TypeOK, Tick
  PROVE  TypeOK'
<1>1. /\ clock' = clock + 1 /\ UNCHANGED <<name, stuck, trades>>
      /\ polls' = [c \in Crankers |-> 0]
      /\ wait' = [c \in Crankers |->
                   [s \in Steps |-> IF wait[c][s] > 0 THEN wait[c][s] - 1 ELSE 0]]
  BY DEF Tick
<1>2. \A c \in Crankers, s \in Steps :
        (IF wait[c][s] > 0 THEN wait[c][s] - 1 ELSE 0) \in 0..ScanInterval
  <2> SUFFICES ASSUME NEW c \in Crankers, NEW s \in Steps
               PROVE  (IF wait[c][s] > 0 THEN wait[c][s] - 1 ELSE 0)
                        \in 0..ScanInterval
    OBVIOUS
  <2>1. wait[c][s] \in 0..ScanInterval
    BY DEF TypeOK
  <2> QED BY <2>1, ArnsAssumption
<1>3. wait' \in [Crankers -> [Steps -> 0..ScanInterval]]
  BY <1>1, <1>2
<1>4. polls' \in [Crankers -> 0..Polls] /\ clock' \in Nat
  BY <1>1, ArnsAssumption DEF TypeOK
<1>5. errors' \in 0..MaxErrors
  BY SlowCounted
<1>6. /\ call' \in [Crankers -> Call]
      /\ \A c \in Crankers : At(c, "convert")' => call'[c].left > 0
  BY TickAges DEF TypeOK, At
<1> QED BY <1>1, <1>3, <1>4, <1>5, <1>6 DEF TypeOK

LEMMA TypeStep == TypeOK /\ [Next]_vars => TypeOK'
<1> SUFFICES ASSUME TypeOK, [Next]_vars PROVE TypeOK'
  OBVIOUS
<1>1. CASE UNCHANGED vars
  BY <1>1 DEF vars, TypeOK, At
<1>2. CASE Next
  BY <1>2, CrankStep, OwnersTyped, TickTyped DEF Next
<1> QED BY <1>1, <1>2

\* TypeOK: whatever the budget is set to, the loop of
\* maybePruneToReturnedStep never has fewer than one transaction left.
THEOREM TypeCorrectness == Spec => []TypeOK
BY TypeInit, TypeStep, PTL DEF Spec

-----------------------------------------------------------------------------
(* The lifecycle.                                                          *)

\* What the chain's clock showed when a call decided, or less.
Decided(c) == clock - MaxBehind - call[c].age

\* A call in progress is late by no more than its cranker's clock was behind
\* when it began and the time it has taken; and no name it is about to convert
\* had missed its auction by then.
Punctual ==
  \A c \in Crankers :
    /\ ~At(c, "idle") => Decided(c) <= call[c].now
    /\ At(c, "convert") =>
         \A n \in call[c].due : n \notin WindowPassed(Decided(c))

\* A lease does not come to be past its window without the passing of time:
\* owners extend it or take it for a term that starts now.
Steady == \A t \in Int : t <= clock =>
                           (WindowPassed(t))' \subseteq WindowPassed(t)

LEMMA OwnersSteady ==
  ASSUME TypeOK, NEW n \in Names, Buy(n) \/ ExtendLease(n) \/ ReleaseName(n)
  PROVE  Steady
<1>1. UNCHANGED clock /\ clock \in Nat /\ name[n] \in Name
  BY DEF Buy, ExtendLease, ReleaseName, Trade, TypeOK
<1>2. PICK x : /\ name' = [name EXCEPT ![n] = x]
               /\ \/ x.state = "lease" => x.at >= clock
                  \/ name[n].state = "lease" /\ x.at >= name[n].at
  <2>1. CASE Buy(n)
    <3>1. PICK x \in Owned : name' = [name EXCEPT ![n] = x]
      BY <2>1 DEF Buy, Trade
    <3>2. x.state = "lease" => x.at >= clock
      BY <1>1, <3>1, ArnsAssumption DEF Owned
    <3> QED BY <3>1, <3>2
  <2>2. CASE ExtendLease(n)
    <3>1. PICK t \in Terms : name' = [name EXCEPT ![n] = [name[n] EXCEPT !.at = @ + t]]
      BY <2>2 DEF ExtendLease, Trade
    <3>2. [name[n] EXCEPT !.at = @ + t].at >= name[n].at
      BY <1>1, <3>1, ArnsAssumption DEF Name
    <3>3. name[n].state = "lease"
      BY <2>2 DEF ExtendLease
    <3> QED BY <3>1, <3>2, <3>3
  <2>3. CASE ReleaseName(n)
    <3> DEFINE y == [state |-> "auction", at |-> clock]
    <3>1. name' = [name EXCEPT ![n] = y]
      BY <2>3 DEF ReleaseName, Trade
    <3>2. y.state # "lease"
      OBVIOUS
    <3> HIDE DEF y
    <3> QED BY <3>1, <3>2
  <2> QED BY <2>1, <2>2, <2>3
<1>3. /\ name'[n] = x /\ \A m \in Names \ {n} : name'[m] = name[m]
      /\ name' \in [Names -> Name]
  BY <1>2, OwnersMove DEF TypeOK
<1>4. x \in Name
  BY <1>3
<1> SUFFICES ASSUME NEW t \in Int, t <= clock, NEW m \in (WindowPassed(t))'
             PROVE  m \in WindowPassed(t)
  BY DEF Steady
<1>5. /\ m \in Names /\ name'[m].state = "lease"
      /\ name'[m].at + Grace + Auction <= t
  BY DEF WindowPassed
<1>6. CASE m = n
  BY <1>1, <1>2, <1>3, <1>4, <1>5, <1>6, ArnsAssumption DEF WindowPassed, Name
<1>7. CASE m # n
  BY <1>3, <1>5, <1>7 DEF WindowPassed
<1> QED BY <1>6, <1>7

\* Crankers only take leases away, and only as the lifecycle allows.
LEMMA CrankMoves ==
  ASSUME TypeOK, Punctual, NEW c \in Crankers, ArnsLifecycleStep(c) \/ RpcError(c)
  PROVE  NameStep /\ Steady
<1>1. UNCHANGED clock
  BY CrankStep
<1>2. CASE UNCHANGED name
  BY <1>1, <1>2, SameNames DEF Steady, WindowPassed
<1>3. CASE PruneNameToReturned(c)
  <2>1. PICK n \in call[c].due : UNCHANGED name \/ (Convertible(n) /\ ToAuction(n))
    BY <1>3 DEF PruneNameToReturned
  <2>2. n \in Names /\ n \notin WindowPassed(clock - Late)
    <3>1. /\ n \in Names /\ n \notin WindowPassed(Decided(c))
          /\ call[c].age \in 0..MaxLag
      BY <1>3 DEF PruneNameToReturned, Punctual, TypeOK, Call
    <3>2. name[n] \in Name /\ clock - Late <= Decided(c)
      BY <3>1, ArnsAssumption DEF TypeOK, Late, Decided
    <3> QED BY <3>1, <3>2, ArnsAssumption
            DEF WindowPassed, Late, Decided, Name, TypeOK
  <2>3. CASE Convertible(n) /\ ToAuction(n)
    <3>1. NameStep
      BY <2>2, <2>3, AuctionMoves
    <3>2. \A m \in Names : name'[m].state = "lease" => name'[m] = name[m]
      BY <2>2, <2>3 DEF ToAuction, TypeOK
    <3> QED BY <1>1, <3>1, <3>2 DEF Steady, WindowPassed
  <2> QED BY <1>2, <2>1, <2>3
<1>4. CASE \E ok \in SUBSET (AuctionOver(clock) \cup WindowPassed(clock)) :
             name' = [n \in Names |-> IF n \in ok THEN Free ELSE name[n]]
  <2>1. NameStep
    BY <1>4, BatchMoves
  <2>2. \A m \in Names : name'[m].state = "lease" => name'[m] = name[m]
    BY <1>4 DEF Free
  <2> QED BY <1>1, <2>1, <2>2 DEF Steady, WindowPassed
<1>5. CASE PruneReturnedNames(c) \/ PruneExpiredNames(c)
  BY <1>2, <1>4, <1>5 DEF PruneReturnedNames, PruneExpiredNames, FreeBatch
<1>6. CASE \/ Begin(c) \/ ScanToReturned(c) \/ ScanReturned(c) \/ ScanExpired(c)
           \/ RpcError(c)
  BY <1>2, <1>6
     DEF Begin, ScanToReturned, ScanReturned, ScanExpired, Scan, RpcError
<1> QED BY <1>3, <1>5, <1>6 DEF ArnsLifecycleStep

LEMMA PunctualInit == Init => Punctual
BY DEF Init, Punctual, At, NoCall

\* A step of a cranker: its own call goes on, or has just scanned.
LEMMA PunctualCrank ==
  ASSUME TypeOK, Punctual, NEW c \in Crankers, ArnsLifecycleStep(c) \/ RpcError(c)
  PROVE  Punctual'
<1>1. UNCHANGED clock /\ Steady /\ CallStep(c)
  BY CrankStep, CrankMoves
<1>2. clock \in Nat /\ \A d \in Crankers : call[d] \in Call
  BY DEF TypeOK
<1>3. \A d \in Crankers : Decided(d) \in Int /\ Decided(d) <= clock
  BY <1>2, ArnsAssumption DEF Decided, Call
<1> SUFFICES ASSUME NEW d \in Crankers
             PROVE  /\ ~At(d, "idle")' => Decided(d)' <= call'[d].now
                    /\ At(d, "convert")' =>
                         \A n \in call'[d].due :
                           n \notin (WindowPassed(Decided(d)))'
  BY DEF Punctual
<1>4. CASE d # c
  <2>1. call'[d] = call[d] /\ Decided(d)' = Decided(d)
    BY <1>1, <1>4 DEF CallStep, Decided
  <2>2. At(d, "convert")' =>
          \A n \in call'[d].due : n \notin WindowPassed(Decided(d))
    BY <2>1 DEF Punctual, At
  <2>3. (WindowPassed(Decided(d)))' \subseteq WindowPassed(Decided(d))
    BY <1>1, <1>3, <2>1 DEF Steady, WindowPassed
  <2> QED BY <2>1, <2>2, <2>3 DEF Punctual, At
<1>5. CASE d = c
  <2>1. ~At(c, "idle")' => Decided(c)' <= call'[c].now
    <3>1. CASE /\ ~At(c, "idle")
               /\ call'[c].now = call[c].now /\ call'[c].age = call[c].age
      BY <1>1, <3>1 DEF Punctual, Decided
    <3>2. ASSUME NEW s \in Skews, call'[c].now = clock + s, call'[c].age = 0
          PROVE  Decided(c)' <= call'[c].now
      BY <1>1, <1>2, <3>2, ArnsAssumption DEF Decided
    <3> QED BY <1>1, <3>1, <3>2 DEF CallStep
  <2>2. ASSUME At(c, "convert")', NEW n \in call'[c].due
        PROVE  n \notin (WindowPassed(Decided(c)))'
    <3>1. Decided(c)' = Decided(c)
      BY <1>1, <2>2 DEF CallStep, Decided
    <3>2. (WindowPassed(Decided(c)))' \subseteq WindowPassed(Decided(c))
      BY <1>1, <1>3, <3>1 DEF Steady, WindowPassed
    <3>3. n \notin WindowPassed(Decided(c))
      <4>1. CASE At(c, "convert") /\ call'[c].due \subseteq call[c].due
        BY <2>2, <4>1 DEF Punctual
      <4>2. CASE ~At(c, "idle") /\ n \in Lapsed(call[c].now)
        <5>1. /\ n \in Names /\ call[c].now < name[n].at + Grace + Auction
          BY <4>2 DEF Lapsed
        <5>2. name[n].at \in Nat /\ call[c].now \in Int
          BY <1>2, <5>1 DEF TypeOK, Name, Call
        <5>3. Decided(c) <= call[c].now
          BY <4>2 DEF Punctual
        <5> QED BY <1>3, <5>1, <5>2, <5>3, ArnsAssumption DEF WindowPassed
      <4> QED BY <1>1, <2>2, <4>1, <4>2 DEF CallStep
    <3> QED BY <3>2, <3>3
  <2> QED BY <1>5, <2>1, <2>2
<1> QED BY <1>4, <1>5

LEMMA PunctualOwners ==
  ASSUME TypeOK, Punctual, NEW n \in Names,
         Buy(n) \/ ExtendLease(n) \/ ReleaseName(n)
  PROVE  Punctual'
<1>1. Steady /\ UNCHANGED <<clock, call>>
  BY OwnersSteady, OwnersTyped
<1>2. \A d \in Crankers : Decided(d)' = Decided(d)
  BY <1>1 DEF Decided
<1>3. \A d \in Crankers : Decided(d) \in Int /\ Decided(d) <= clock
  BY ArnsAssumption DEF Decided, Call, TypeOK
<1>4. \A d \in Crankers :
        (WindowPassed(Decided(d)))' \subseteq WindowPassed(Decided(d))
  BY <1>1, <1>2, <1>3 DEF Steady, WindowPassed
<1> QED BY <1>1, <1>2, <1>4 DEF Punctual, At

\* Time passes for the chain and for the calls in progress alike.
LEMMA PunctualTick ==
  ASSUME TypeOK, Punctual, Tick
  PROVE  Punctual'
<1>1. clock' = clock + 1 /\ UNCHANGED name
  BY DEF Tick
<1>2. ASSUME NEW d \in Crankers, ~At(d, "idle")'
      PROVE  ~At(d, "idle") /\ Decided(d)' = Decided(d)
  <2>1. ~At(d, "idle") /\ call'[d].age = call[d].age + 1
    BY <1>2, TickAges DEF At
  <2>2. clock \in Nat /\ call[d].age \in Int
    BY ArnsAssumption DEF TypeOK, Call
  <2> QED BY <1>1, <2>1, <2>2, ArnsAssumption DEF Decided
<1>3. ASSUME NEW d \in Crankers, ~At(d, "idle")'
      PROVE  (WindowPassed(Decided(d)))' = WindowPassed(Decided(d))
  BY <1>1, <1>2, <1>3 DEF WindowPassed
<1>4. \A d \in Crankers : At(d, "convert")' => ~At(d, "idle")'
  BY DEF At
<1>5. ASSUME NEW d \in Crankers, ~At(d, "idle")'
      PROVE  Decided(d)' <= call'[d].now
  BY <1>2, <1>5, TickAges DEF Punctual
<1>6. ASSUME NEW d \in Crankers, At(d, "convert")', NEW n \in call'[d].due
      PROVE  n \notin (WindowPassed(Decided(d)))'
  BY <1>3, <1>4, <1>6, TickAges DEF Punctual, At
<1> QED BY <1>5, <1>6 DEF Punctual

LEMMA PunctualStep == TypeOK /\ Punctual /\ [Next]_vars => Punctual'
<1> SUFFICES ASSUME TypeOK, Punctual, [Next]_vars PROVE Punctual'
  OBVIOUS
<1>1. CASE UNCHANGED vars
  BY <1>1 DEF vars, Punctual, At, Decided, WindowPassed
<1>2. CASE Next
  BY <1>2, PunctualCrank, PunctualOwners, PunctualTick DEF Next
<1> QED BY <1>1, <1>2

LEMMA PunctualAlways == Spec => [](TypeOK /\ Punctual)
<1>1. Init => TypeOK /\ Punctual
  BY TypeInit, PunctualInit
<1>2. TypeOK /\ Punctual /\ [Next]_vars => TypeOK' /\ Punctual'
  BY TypeStep, PunctualStep
<1> QED BY <1>1, <1>2, PTL DEF Spec

LEMMA LifecycleInit == Init => Lifecycle!Init
BY DEF Init, Lifecycle!Init, Free, Lifecycle!Free

\* Every step is a move of some names, the passing of time, or a stutter.
LEMMA LifecycleStep ==
  TypeOK /\ Punctual /\ [Next]_vars => [Lifecycle!Next]_(Lifecycle!vars)
<1> SUFFICES ASSUME TypeOK, Punctual, [Next]_vars
             PROVE  [Lifecycle!Next]_(Lifecycle!vars)
  OBVIOUS
<1>1. CASE UNCHANGED vars
  BY <1>1 DEF vars, Lifecycle!vars
<1>2. CASE NameStep /\ UNCHANGED clock /\ name' \in [Names -> Name]
  BY <1>2 DEF NameStep, Lifecycle!Next
<1>3. ASSUME NEW c \in Crankers, ArnsLifecycleStep(c) \/ RpcError(c)
      PROVE  [Lifecycle!Next]_(Lifecycle!vars)
  BY <1>2, <1>3, CrankStep, CrankMoves DEF TypeOK
<1>4. ASSUME NEW n \in Names, Buy(n) \/ ExtendLease(n) \/ ReleaseName(n)
      PROVE  [Lifecycle!Next]_(Lifecycle!vars)
  BY <1>2, <1>4, OwnersMove, OwnersTyped
<1>5. CASE Tick
  BY <1>5 DEF Tick, Lifecycle!Next, Lifecycle!Tick
<1> QED BY <1>1, <1>3, <1>4, <1>5 DEF Next

\* ImplementsLifecycle: every name is auctioned only after its grace period,
\* late by no more than the clocks are behind and the calls slow, and freed only
\* after its window or its auction, whatever crankers and owners do, and however
\* much time passes, between a scan (getPruneableToReturnedRecords) and the
\* transactions that act on it.
THEOREM Implementation == Spec => ImplementsLifecycle
<1>1. Init => Lifecycle!Init
  BY LifecycleInit
<1>2. TypeOK /\ Punctual /\ [Next]_vars => [Lifecycle!Next]_(Lifecycle!vars)
  BY LifecycleStep
<1>3. Spec => [](TypeOK /\ Punctual)
  BY PunctualAlways
<1> QED BY <1>1, <1>2, <1>3, PTL DEF Spec, ImplementsLifecycle, Lifecycle!Spec

\* How far AuctionsEarned can be missed.  The program checks the grace period
\* only, and the upper end of the window is the client's, read on its own clock
\* when the call begins: a lease is put up for auction less than MaxBehind +
\* MaxLag after its window, so within it when clocks agree and calls are quick.
THEOREM Auctions ==
  Spec => [][\A n \in Names :
               name[n].state = "lease" /\ name'[n].state = "auction"
                 => clock < name[n].at + Grace + Auction + MaxBehind + MaxLag]_vars
<1>1. TypeOK /\ Punctual /\ [Next]_vars
        => [\A n \in Names :
              name[n].state = "lease" /\ name'[n].state = "auction"
                => clock < name[n].at + Grace + Auction + MaxBehind + MaxLag]_vars
  <2> SUFFICES ASSUME TypeOK, Punctual, [Next]_vars, NEW n \in Names,
                      name[n].state = "lease", name'[n].state = "auction"
               PROVE  clock < name[n].at + Grace + Auction + MaxBehind + MaxLag
    OBVIOUS
  <2>1. [Lifecycle!Next]_(Lifecycle!vars)
    BY LifecycleStep
  <2>2. name'[n] # name[n]
    OBVIOUS
  <2>3. Lifecycle!Move(name[n], name'[n])
    BY <2>1, <2>2 DEF Lifecycle!Next, Lifecycle!vars, Lifecycle!Tick
  <2>4. Lifecycle!Lapse(name[n], name'[n])
    BY <2>2, <2>3 DEF Lifecycle!Move, Lifecycle!Trade, Lifecycle!Expire,
       Lifecycle!Free
  <2>5. name[n].at \in Nat /\ clock \in Nat
    BY DEF TypeOK, Name
  <2> QED BY <2>4, <2>5, ArnsAssumption DEF Lifecycle!Lapse, Late
<1>2. Spec => [](TypeOK /\ Punctual)
  BY PunctualAlways
<1> QED BY <1>1, <1>2, PTL DEF Spec
=============================================================================
