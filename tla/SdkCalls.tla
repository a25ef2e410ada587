------------------------------ MODULE SdkCalls ------------------------------
(***************************************************************************)
(* The remaining calls of the SDK side by side: AntCalls, EscrowCalls,     *)
(* NameCalls, AntQueries, RegistryCalls, PoolCalls and Listings over the   *)
(* accounts of the programs.  Each call reads its accounts one by one, then builds a   *)
(* transaction from what it read, then sends it; other calls and the rest  *)
(* of the network move between any two of these steps.                     *)
(***************************************************************************)
EXTENDS Listings

CONSTANTS Calls,
          Scenes,        \* [w, g, asks, moves, drift, env]: accounts to start from,
                         \* the requests made, the moves of others in them and
                         \* how many of MaxEnv are behind
          MaxEnv         \* bound: moves of others and losses of the network

(* What is asked of the SDK.                                               *)
AntAsks ==
    [op : {"addController", "removeController", "transfer", "syncAcl", "spawn", "reconcile",
           "setMetadata", "upgrade"}, a : Ants, by : Users, u : Users]
RecordAsks ==
    [op : {"setRecord", "removeRecord", "transferRecord"}, a : Ants, by : Users, u : Users,
     un : Undernames, own : Users \union {Nobody}, describe : BOOLEAN]
EscrowAsk(ops, kinds) ==
    [op : ops, kind : kinds, box : Ants, by : Users, dep : Users, r : Recipients, u : Users,
     canonical : BOOLEAN, ahead : Nat, behind : Nat]
AntEscrowOps == AntClaims \union {"deposit", "updateRecipient", "cancel"}
EscrowAsks ==
    EscrowAsk(AntEscrowOps, {"ant"})
      \union EscrowAsk(EscrowOps \ AntEscrowOps, {"token", "vault"})
NameAsks ==
    [op : NameOps, n : Names, by : Users, a : Ants, to : Ants, u : Users, ahead : Nat,
     behind : Nat]
QueryAsks ==
    [op : QueryOps, a : Ants, as : Seq(Ants), n : Names, un : Undernames, describe : BOOLEAN]
RegistryAsks ==
    [op : RegistryOps, o : Operators, os : SUBSET Operators, epoch : Nat, ahead : Nat,
     fails : BOOLEAN]
PoolAsks ==
    [op : PoolOps, o : Operators, d : Operators, takes : {"same", "yes", "no"},
     key : Operators \union {NoOperator}, min : Nat]
WalkAsks ==
    [op : {"walk"}, list : Lists, limit : Nat \ {0}, desc : BOOLEAN,
     sort : {"none", "end", "name", "at", "weight", "balance"},
     tags : SUBSET (Ants \union Names \union Operators \union {"joined", "deficient"}),
     ants : SUBSET Ants, u : Users, o : Operators]
Asks == AntAsks \union RecordAsks \union EscrowAsks \union NameAsks \union QueryAsks
          \union RegistryAsks \union PoolAsks \union WalkAsks

(* A list has pages only under a head, and no page more than it can hold.  *)
Paged(acl) ==
    /\ \A i \in DOMAIN acl.pages :
         IsFiniteSet(acl.pages[i]) /\ Cardinality(acl.pages[i]) <= PageSize
    /\ acl.pages = <<>> \/ acl.exists

(* What the lists say of an ANT, and how its entries came to be, see       *)
(* Follow.  "exact": each user has the entries of the roles he has, once   *)
(* and no other.  "raw": so it was with the last owner the program knew,   *)
(* or he has none yet.  An ANT that is not made is in no list.             *)
CountIn(x, u, e) == Cardinality(Holding(x.acl[u], e))
Told(x, a, u, owns) ==
    /\ CountIn(x, u, Entry(a, "owner")) = IF owns THEN 1 ELSE 0
    /\ CountIn(x, u, Entry(a, "controller")) = IF u \in x.ctrl[a] THEN 1 ELSE 0
Untold(x, a, u) ==
    CountIn(x, u, Entry(a, "owner")) = 0 /\ CountIn(x, u, Entry(a, "controller")) = 0

Exact(x, a) == \A u \in Users : Told(x, a, u, x.owner[a] = u)
Stale(x, a) ==
    \A u \in Users : \/ Told(x, a, u, x.known[a] = u)
                     \/ x.known[a] = u /\ u \in x.ctrl[a] /\ Untold(x, a, u)
Blank(x, a) ==
    x.owner[a] = Nobody =>
      x.known[a] = Nobody /\ x.ctrl[a] = {} /\ \A u \in Users : Untold(x, a, u)

Drifts == [Ants -> {"exact", "raw", "lost"}]
Accords(x, a, d) ==
    /\ d = "exact" => x.known[a] = x.owner[a] /\ Exact(x, a)
    /\ d = "raw" => Stale(x, a)
    /\ Blank(x, a)

(* The program gives every deposit a nonce of its own.                     *)
Numbered(x) ==
    LET held == {b \in Boxes : x.box[b] # Nobody} IN
    /\ \A b \in held : x.box[b].nonce < x.nonce
    /\ \A a, b \in held : x.box[a].nonce = x.box[b].nonce => a = b

ASSUME ScenesAssumption ==
    /\ MaxEnv \in Nat
    /\ \A s \in Scenes :
         /\ s.w \in LedgerType /\ \A u \in Users : Paged(s.w.acl[u])
         /\ Numbered(s.w)
         /\ s.g \in RegistryType /\ IsInjective(s.g.slots)
         /\ s.asks \subseteq Asks /\ s.env \in 0..MaxEnv /\ s.drift \in Drifts
         /\ \A a \in Ants : Accords(s.w, a, s.drift[a])

VARIABLES call,          \* each call, see TypeOK
          env,           \* moves of others and losses so far
          scene,         \* the requests and moves of this behaviour
          sigs,          \* signatures made: by which key, over which message
          wishes,        \* and what was meant: which escrow, for whom
          drift          \* history: how each ANT's entries came to be, see Follow

vars == <<w, g, call, env, scene, sigs, wishes, drift>>

Idle == [pc |-> "idle", p |-> [op |-> "none"], seen |-> <<>>, tx |-> <<>>,
         disturbed |-> FALSE, moments |-> {}]

Init ==
    \E s \in Scenes :
      /\ w = s.w /\ g = s.g /\ drift = s.drift
      /\ scene = [asks |-> s.asks, moves |-> s.moves]
      /\ call = [c \in Calls |-> Idle]
      /\ env = s.env /\ sigs = {} /\ wishes = {}

----------------------------------------------------------------------------
(* One interface for all calls.                                            *)
ValueOf(x, y, key) ==
    IF key[1] \in {"box", "clock"} THEN EscrowValue(x, key)
    ELSE IF key[1] \in {"slots", "gateway", "nextId", "epoch", "settings", "observation",
                        "scan", "duration", "time", "status"}
    THEN RegistryValue(y, key)
    ELSE IF key[1] \in {"stakes", "outs", "cums", "observer", "allowed"} THEN PoolValue(y, key)
    ELSE IF key[1] \in {"batch", "metas", "allrecs", "allmetas"} THEN QueryValue(x, key)
    ELSE IF key[1] \in {"names", "holders", "requests", "namesAt", "gateways"}
    THEN PageValue(x, y, key)
    ELSE NameValue(x, key)

Value(key) == ValueOf(w, g, key)

Wanted(p, seen) ==
    IF p.op \in AntOps THEN AntReads(p, seen)
    ELSE IF p.op \in EscrowOps THEN EscrowReads(p, seen)
    ELSE IF p.op \in NameOps THEN NameReads(p, seen)
    ELSE IF p.op \in QueryOps THEN QueryReads(p, seen)
    ELSE IF p.op = "walk" THEN PageReads(p, seen)
    ELSE IF p.op \in PoolOps THEN InTurn(PoolReads(p, seen), seen)
    ELSE InTurn(RegistryReads(p, seen), seen)

Refuses(p, seen) ==
    IF p.op \in AntOps THEN AntRefuses(p, seen)
    ELSE IF p.op \in EscrowOps THEN EscrowRefuses(p, seen)
    ELSE IF p.op \in NameOps THEN NameRefuses(p, seen)
    ELSE IF p.op \in QueryOps THEN QueryRefuses(p, seen)
    ELSE IF p.op \in PoolOps THEN PoolRefuses(p, seen)
    ELSE RegistryRefuses(p, seen)

Tx(p, seen) ==
    IF p.op \in AntOps THEN AntTx(p, seen)
    ELSE IF p.op \in EscrowOps THEN EscrowTx(p, seen)
    ELSE IF p.op \in NameOps THEN NameTx(p, seen)
    ELSE IF p.op \in PoolOps THEN PoolTx(p, seen)
    ELSE RegistryTx(p, seen)

Due(p) ==
    IF p.op \in AntOps THEN AntDue(p, w)
    ELSE IF p.op \in EscrowOps THEN EscrowDue(p, w)
    ELSE IF p.op \in NameOps THEN NameDue(p, w)
    ELSE IF p.op \in PoolOps THEN PoolDue(p, g)
    ELSE RegistryDue(p, g)

IsRead(p) == p.op \in QueryOps \union {"walk"}

(* What the programs make of a transaction: all of it or nothing.          *)
After(s, ix) ==
    IF ix.op \in GarIxs THEN {[s EXCEPT !.g = y] : y \in OnGar(s.g, ix)}
                        ELSE {[s EXCEPT !.w = y] : y \in OnAsset(s.w, ix)}
Execute(tx) ==
    FoldLeft(LAMBDA ss, ix : UNION {After(s, ix) : s \in ss}, {[w |-> w, g |-> g]}, tx)

Moment(x) == [known |-> x.known, ctrl |-> x.ctrl, recs |-> x.recs, meta |-> x.meta]

(* A change of the accounts that a call under way did not make itself.     *)
Underway(k) ==
    k.pc = "flight" \/ (k.pc = "read" /\ (k.seen # <<>> \/ k.p.stage > 1))
Disturbed(k) ==
    IF (w' # w \/ g' # g) /\ Underway(k)
    THEN [k EXCEPT !.disturbed = TRUE,
                   !.moments = IF k.p.op \in QueryOps THEN @ \union {Moment(w')} ELSE @]
    ELSE k

----------------------------------------------------------------------------
(* A call begins; who claims an escrow has one of the signatures.          *)
Submit(c) ==
    /\ call[c].pc = "idle"
    /\ \E p \in scene.asks :
       \E s \in IF p.op \in Claims THEN sigs ELSE {Nobody} :
         call' = [call EXCEPT ![c] =
                    [@ EXCEPT !.pc = "read",
                              !.p = With(p, [stage |-> 1, sig |-> s, start |-> 0, got |-> <<>>])]]
    /\ UNCHANGED <<w, g, env, scene, sigs, wishes, drift>>

(* One account more is read.                                               *)
Looked(k, key) ==
    [k EXCEPT !.seen = With(@, Just(key, Value(key))),
              !.moments = IF k.p.op \in QueryOps /\ k.seen = <<>> THEN {Moment(w)} ELSE @]

Read(c) ==
    /\ call[c].pc = "read"
    /\ \E key \in Wanted(call[c].p, call[c].seen) :
         call' = [call EXCEPT ![c] = Looked(@, key)]
    /\ UNCHANGED <<w, g, env, scene, sigs, wishes, drift>>

(* After a stage: the follow-up stages of a purchase with a new ANT are    *)
(* run whatever became of the one before, the first must have succeeded.   *)
Ended(k, how) ==
    IF k.p.op = "spawnBuy" /\ k.p.stage < 3 /\ (how = "ok" \/ k.p.stage > 1)
    THEN [k EXCEPT !.pc = "read", !.p.stage = @ + 1, !.seen = <<>>, !.tx = <<>>]
    ELSE [k EXCEPT !.pc = IF k.p.stage > 1 THEN "ok" ELSE how, !.tx = <<>>,
                   !.seen = IF k.p.op \in QueryOps THEN @ ELSE <<>>]

(* A page of a walk is there; the next one is fetched anew.                *)
Turned(k) ==
    LET page == TurnPage(k.p, k.seen)
    IN  [k EXCEPT !.pc = IF page.hasMore THEN "read" ELSE "ok", !.seen = <<>>,
                  !.p.stage = @ + 1, !.p.start = page.next, !.p.got = @ \o page.items]

Build(c) ==
    LET k == call[c] IN
    /\ k.pc = "read" /\ Wanted(k.p, k.seen) = {}
    /\ call' = [call EXCEPT ![c] =
                  IF k.p.op = "walk" THEN Turned(k)
                  ELSE IF Refuses(k.p, k.seen) THEN Ended(k, "threw")
                  ELSE IF IsRead(k.p) \/ Tx(k.p, k.seen) = <<>> THEN Ended(k, "ok")
                  ELSE [k EXCEPT !.pc = "flight", !.tx = Tx(k.p, k.seen), !.seen = <<>>]]
    /\ UNCHANGED <<w, g, env, scene, sigs, wishes, drift>>

(* History of the entries about an ANT.  "exact": every change so far kept *)
(* its entries along.  "raw": it changed hands or was made without them.   *)
(* "lost": it was not put right, or what should have put it right crossed  *)
(* with another change.                                                    *)
Moves == AntClaims \union {"deposit", "cancel"}
AntOf(p) == IF p.op \in Moves THEN p.box ELSE p.a

Follow(k) ==
    LET a == AntOf(k.p)
        Restored == /\ ~k.disturbed
                    /\ \/ k.p.op = "spawn"
                       \/ /\ k.p.op = "spawnBuy" /\ drift[a] = "raw"
                          /\ w.known[a] = k.p.by
                       \/ /\ k.p.op = "syncAcl" /\ drift[a] = "raw"
                          /\ w.known[a] # w.owner[a]
        Kept == drift[a] = "exact" /\ (k.p.op = "reconcile" \/ ~k.disturbed)
    IN
    CASE \/ k.p.op \in Moves
         \/ (k.p.op = "spawnBuy" /\ k.p.stage = 1) ->
           [drift EXCEPT ![a] = IF @ = "lost" THEN "lost" ELSE "raw"]
      [] k.p.op \in {"spawn", "syncAcl"} \/ (k.p.op = "spawnBuy" /\ k.p.stage = 2) ->
           [drift EXCEPT ![a] = IF Restored THEN "exact" ELSE "lost"]
      [] k.p.op \in {"transfer", "reconcile"} ->
           [drift EXCEPT ![a] = IF Kept THEN "exact" ELSE "lost"]
      [] OTHER -> drift

(* The transaction lands.                                                  *)
Changed(c, k) ==
    call' = [d \in Calls |-> IF d = c THEN k ELSE Disturbed(call[d])]

Land(c) ==
    LET k == call[c] IN
    /\ k.pc = "flight"
    /\ \E s \in Execute(k.tx) : w' = s.w /\ g' = s.g
    /\ Changed(c, Ended(k, "ok"))
    /\ drift' = Follow(k)
    /\ UNCHANGED <<env, scene, sigs, wishes>>

Reject(c) ==
    /\ call[c].pc = "flight" /\ Execute(call[c].tx) = {}
    /\ call' = [call EXCEPT ![c] = Ended(@, "rejected")]
    /\ UNCHANGED <<w, g, env, scene, sigs, wishes, drift>>

(* The call is told of a failure: nothing landed, or it landed after all.  *)
Lose(c) ==
    /\ call[c].pc = "flight" /\ env < MaxEnv /\ "lose" \in scene.moves
    /\ env' = env + 1
    /\ LET k == [call[c] EXCEPT !.disturbed = TRUE] IN
       \/ /\ UNCHANGED <<w, g, drift>>
          /\ call' = [call EXCEPT ![c] = Ended(k, "failed")]
       \/ /\ \E s \in Execute(k.tx) : w' = s.w /\ g' = s.g
          /\ Changed(c, Ended(k, "failed"))
          /\ drift' = Follow(call[c])
    /\ UNCHANGED <<scene, sigs, wishes>>

----------------------------------------------------------------------------
(* The rest of the network: an ANT is moved or sold by its owner without   *)
(* this SDK, the clock advances, gateways come to leave or to be pruned.   *)
RawTransfer(a, u) ==
    /\ "raw" \in scene.moves
    /\ w.owner[a] \in Users \ {u}
    /\ w' = [w EXCEPT !.owner[a] = u]
    /\ drift' = [drift EXCEPT ![a] = IF @ = "lost" THEN "lost" ELSE "raw"]
    /\ UNCHANGED g

Tick ==
    /\ "tick" \in scene.moves /\ w.now < MaxNow
    /\ w' = [w EXCEPT !.now = @ + 1]
    /\ UNCHANGED <<g, drift>>

RegistryMove ==
    /\ \/ "registry" \in scene.moves /\ g' \in RegistryMoves(g) \union Elapse(g)
       \/ "pools" \in scene.moves /\ g' \in PoolMoves(g)
    /\ UNCHANGED <<w, drift>>

Others ==
    /\ env < MaxEnv
    /\ env' = env + 1
    /\ (\E a \in Ants, u \in Users : RawTransfer(a, u)) \/ Tick \/ RegistryMove
    /\ call' = [c \in Calls |-> Disturbed(call[c])]
    /\ UNCHANGED <<scene, sigs, wishes>>

(* The recipient of an escrow signs for the claimant of his choice.        *)
Sign(b, u) ==
    LET e == w.box[b] IN
    /\ "sign" \in scene.moves /\ env < MaxEnv
    /\ e # Nobody
    /\ env' = env + 1
    /\ sigs' = sigs \union
         {[key |-> e.recip,
           msg |-> CanonicalMessage(b, e.amt, e.recip, u, e.nonce)]}
    /\ wishes' = wishes \union {[box |-> b, deposit |-> e, to |-> u]}
    /\ UNCHANGED <<w, g, call, scene, drift>>

Next ==
    \/ Others
    \/ \E b \in DOMAIN w.box, u \in Users : Sign(b, u)
    \/ \E c \in Calls :
         Submit(c) \/ Read(c) \/ Build(c) \/ Land(c) \/ Reject(c) \/ Lose(c)

Spec == Init /\ [][Next]_vars

----------------------------------------------------------------------------
TypeOK ==
    /\ w \in LedgerType /\ \A u \in Users : Paged(w.acl[u])
    /\ g \in RegistryType
    /\ IsInjective(g.slots)
    /\ \A c \in Calls :
         /\ call[c].pc \in {"idle", "read", "flight", "ok", "threw", "rejected", "failed"}
         /\ call[c].disturbed \in BOOLEAN
    /\ env \in 0..MaxEnv
    /\ drift \in Drifts

(* A transaction built for accounts that nobody else changed since the     *)
(* call began to read them is accepted, when the programs owe its caller   *)
(* success: the pages it names have room or hold the entry, the swapped    *)
(* gateway is the last of the registry, the predicted observers are those  *)
(* the program draws, the vault is open.                                   *)
UnracedLands ==
    \A c \in Calls :
      LET k == call[c] IN
      k.pc = "flight" /\ ~k.disturbed /\ Due(k.p) => Execute(k.tx) # {}

(* The access control lists name the owner and the controllers of an ANT,  *)
(* each once and nobody else, as long as its changes went through the SDK  *)
(* and did not cross; and again once syncAcl found it moved and put it     *)
(* right (ant-writeable.ts:612).                                           *)
AclExact == \A a \in Ants : drift[a] = "exact" => Exact(w, a)

(* Whoever buys a name with a new ANT owns it and has both of its entries   *)
(* when the call returns, even if the sync of the traits failed             *)
(* (io-writeable.ts:1829), unless something else came between.              *)
AclKept ==
    [][\A c \in Calls :
         LET k == call'[c] IN
         /\ call[c].pc # "ok" /\ k.pc = "ok"
         /\ k.p.op = "spawnBuy" /\ ~k.disturbed
         => /\ w'.owner[k.p.a] = k.p.by
            /\ \A r \in {"owner", "controller"} :
                 CountIn(w', k.p.by, Entry(k.p.a, r)) = 1]_vars

(* An escrow is paid to a claimant only if its recipient signed for this   *)
(* deposit, as it stands now, and for this claimant.                       *)
ReleasedOnlyAsSigned ==
    [][\A b \in DOMAIN w.box, c \in Calls :
         /\ w.box[b] # Nobody /\ w'.box[b] = Nobody
         /\ call[c].pc = "flight" /\ call'[c].pc # "flight" /\ call[c].p.op \in Claims
         => [box |-> b, deposit |-> w.box[b], to |-> call[c].p.u] \in wishes]_vars

(* Setting a primary name is all or nothing: a setPrimaryName never takes  *)
(* the old one away without giving the new one (io-writeable.ts:2969).     *)
(* requestPrimaryName does, before any approval.                           *)
ChangeAtomic ==
    [][\A c \in Calls :
         /\ call[c].pc = "flight" /\ call'[c].pc # "flight"
         /\ call[c].p.op = "setPrimaryName" /\ w' # w
         => w'.prim[call[c].p.by] = call[c].p.n]_vars

(* A report that was not crossed by a change of the registry says of every *)
(* gateway, at the slot it has, whether it failed (io-writeable.ts:1479),  *)
(* and getObservations reads it so.                                        *)
BitsNameGateways ==
    [][\A c \in Calls :
         /\ call[c].pc = "flight" /\ call[c].p.op \in {"saveObservations", "submitReport"}
         /\ g' # g /\ call'[c].pc = "ok" /\ ~call[c].disturbed
         => /\ \A o \in ToSet(g'.slots) :
                 g'.report[call[c].p.o].bits[SlotOf(g', o)] = (o \notin call[c].p.os)
            /\ FailuresIn(g'.report[call[c].p.o], g'.slots)
                 = call[c].p.os \intersect ToSet(g'.slots)]_vars

(* What the reads of ANTs return was so while they ran, of the ANT it is   *)
(* returned for: getState and getStates never pair the owner from before a *)
(* transfer with the controllers from after it, nor getRecord and          *)
(* resolveArNSName a record from before a change with the description from *)
(* after it (ant-readable.ts:697, 407).  A summary may, and so may records *)
(* and descriptions of two scans: of these, each account was so by itself. *)
StatesOfOneMoment ==
    \A c \in Calls :
      LET k == call[c] IN
      k.pc = "ok" /\ k.p.op \in QueryOps =>
        \A said \in Answer(k.p, k.seen) : SaidWell(k.p.op, k.moments, said)

(* Who follows nextCursor to the end, while nothing changes, has seen every *)
(* item the filter lets through exactly once and in the order asked, and    *)
(* the names of an address are those of the ANTs it owns or controls, if    *)
(* the access control lists are exact (io-readable.ts:403, 1543).           *)
WalkComplete ==
    [][\A c \in Calls :
         /\ call[c].pc = "read" /\ call'[c].pc = "ok" /\ call[c].p.op = "walk"
         /\ ~call[c].disturbed /\ Settled(call[c].p)
         /\ call[c].p.list = "namesOf" => \A a \in Ants : drift[a] = "exact"
         => WalkedWell(call[c].p, call'[c].p.got)]_vars
=============================================================================
