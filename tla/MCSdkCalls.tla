----------------------------- MODULE MCSdkCalls -----------------------------
EXTENDS SdkCalls
CONSTANTS u1, u2, a1, a2, n1, n2, r1, r2, o1, o2, o3

CallSymmetry == Permutations(Calls)
ProtocolOf == [r \in {r1, r2} |-> IF r = r1 THEN "ethereum" ELSE "arweave"]
WeightOf == [o \in {o1, o2, o3} |-> IF o = o1 THEN 2 ELSE IF o = o2 THEN 1 ELSE 3]
DrawsOf == <<1, 0, 2>>
LeaseEndOf == [n \in {n1, n2} |-> IF n = n1 THEN 1 ELSE Forever]
RankOf == [n \in {n1, n2} |-> IF n = n1 THEN 1 ELSE 2]

NoReport == [o \in Operators |-> NoOperator]
Registry == [slots |-> <<o1, o2, o3>>, status |-> [o \in Operators |-> "joined"],
             outs |-> [o \in Operators |-> <<>>],
             stake |-> [k \in Operators \X Operators |-> NoOperator],
             cum |-> [o \in Operators |-> 0], takes |-> [o \in Operators |-> TRUE],
             gated |-> [o \in Operators |-> FALSE], allowed |-> [o \in Operators |-> {}],
             observer |-> [o \in Operators |-> o], live |-> 1, active |-> 3, tallied |-> 0,
             observers |-> {NoOperator}, duration |-> 1, time |-> 0,
             leave |-> [o \in Operators |-> [at |-> 0, snap |-> 0]], report |-> NoReport, closed |-> {}]

Pages(x, y) == [exists |-> TRUE, pages |-> IF y = {} THEN <<x>> ELSE <<x, y>>]
Own(a)  == Entry(a, "owner")
Con(a)  == Entry(a, "controller")
At1(x, y) == [u \in Users |-> IF u = u1 THEN x ELSE y]

(* u1 owns and controls a1; a2 is not made yet.                            *)
World == [owner |-> [a \in Ants |-> IF a = a1 THEN u1 ELSE Nobody],
          known |-> [a \in Ants |-> IF a = a1 THEN u1 ELSE Nobody],
          ctrl |-> [a \in Ants |-> IF a = a1 THEN {u1} ELSE {}],
          acl |-> At1(Pages({Own(a1), Con(a1)}, {}), NoAcl),
          recs |-> [a \in Ants |-> [un \in Undernames |-> Nobody]],
          meta |-> [a \in Ants |-> [un \in Undernames |-> Nobody]],
          box |-> [b \in Boxes |-> Nobody], nonce |-> 0, ata |-> {u1}, held |-> At1(1, 0),
          arns |-> [n \in Names |-> Nobody], synced |-> [a \in Ants |-> NoName],
          prim |-> [u \in Users |-> NoName], rev |-> [n \in Names |-> Nobody],
          req |-> [u \in Users |-> Nobody], old |-> {}, syncs |-> TRUE, now |-> 0]

Scene(x, y, asks, moves) ==
    [w |-> x, g |-> y, asks |-> asks, moves |-> moves, env |-> 0,
     drift |-> [a \in Ants |-> IF x.owner[a] = Escrow THEN "raw" ELSE "exact"]]

Ant(op, a, by, u) == [op |-> op, a |-> a, by |-> by, u |-> u]
Name(op, n, by, a) == [op |-> op, n |-> n, by |-> by, a |-> a, to |-> a2, u |-> u1,
                       ahead |-> 0, behind |-> 0]
Esc(op, kind, by) ==
    [op |-> op, box |-> a1, kind |-> kind, by |-> by, dep |-> u1, r |-> r1, u |-> u2,
     canonical |-> TRUE, ahead |-> 0, behind |-> 0]
Gar(op, o, os, epoch) ==
    [op |-> op, o |-> o, os |-> os, epoch |-> epoch, ahead |-> 0, fails |-> FALSE]
Query(op, as, describe) ==
    [op |-> op, a |-> as[1], as |-> as, n |-> n1, un |-> "@", describe |-> describe]
Record(op, by, un, own, describe) ==
    [op |-> op, a |-> a1, by |-> by, u |-> u2, un |-> un, own |-> own, describe |-> describe]
Walk(list, sort, desc, tags, ants) ==
    [op |-> "walk", list |-> list, sort |-> sort, desc |-> desc, tags |-> tags, ants |-> ants,
     u |-> u1, o |-> o1, limit |-> 1]

(* ANTs that change hands through the SDK.                                 *)
Sharing == {Ant("transfer", a1, u1, u2), Ant("addController", a1, u1, u2),
            Ant("removeController", a1, u1, u1), Ant("setMetadata", a1, u1, u1)}
Both == [World EXCEPT !.owner[a2] = u1, !.known[a2] = u1, !.ctrl[a2] = {u2},
                      !.acl = At1(Pages({Own(a1), Con(a1)}, {Own(a2)}), Pages({Con(a2)}, {}))]

(* ANTs that are read while they change.                                   *)
Recorded == [Both EXCEPT !.recs[a1] = [un \in Undernames |-> [by |-> u1, own |-> Nobody]],
                         !.meta[a1] = [@ EXCEPT !["@"] = u1], !.arns[n1] = a1]
Reading == {Ant("transfer", a1, u1, u2), Query("getOwner", <<a1>>, FALSE),
            Query("getState", <<a1>>, TRUE), Query("getStates", <<a2, a1>>, TRUE),
            Query("getSummaries", <<a2, a1>>, FALSE), Query("getRecord", <<a1>>, TRUE),
            Query("getRecords", <<a1>>, FALSE), Query("resolveArNSName", <<a1>>, TRUE)}
Writing == {Record("setRecord", u1, "@", Nobody, TRUE), Record("setRecord", u1, "sub", u2, FALSE),
            Record("removeRecord", u1, "@", Nobody, FALSE),
            [Record("transferRecord", u2, "sub", Nobody, FALSE) EXCEPT !.u = u1],
            Query("getRecord", <<a1>>, TRUE), Query("getState", <<a1>>, FALSE),
            Query("resolveArNSName", <<a1>>, TRUE)}

(* ANTs that change hands without it, and how they are put right.          *)
Repairs == {Ant("syncAcl", a1, u2, u2), Ant("transfer", a1, u2, u1),
            Ant("transfer", a1, u1, u2), Ant("addController", a1, u1, u2),
            Ant("reconcile", a1, u1, u1)}

Spawns == {Ant("spawn", a2, u2, u2), Ant("addController", a1, u1, u2),
           Ant("transfer", a1, u1, u2), Ant("upgrade", a1, u1, u1)}

(* Names.                                                                  *)
Named1 == [Both EXCEPT !.arns[n1] = a1, !.old = {n1, a1}]
Buying == {Name("spawnBuy", n1, u1, a2), Ant("syncAcl", a2, u1, u1),
           Name("buyRecord", n1, u1, a1), Name("syncAttributes", n1, u1, a1)}
Managing == {Name("manage", n1, u1, a1), Name("manage", n1, u2, a1),
             Name("extendLease", n1, u1, a1),
             Name("reassignName", n1, u1, a2), Name("releaseName", n1, u1, a1)}
Primaries ==
    {Name("setPrimaryName", n1, u1, a1), Name("setPrimaryName", n2, u1, a1),
     Name("requestPrimaryName", n1, u1, a1), Name("requestPrimaryName", n2, u2, a1),
     [Name("approvePrimaryName", n1, u1, a1) EXCEPT !.u = u1],
     [Name("approvePrimaryName", n2, u1, a1) EXCEPT !.u = u2],
     [Name("closeExpiredRequest", n2, u1, a1) EXCEPT !.u = u2],
     Name("sweepRequests", n2, u1, a1), [Name("sweepRequests", n2, u1, a1) EXCEPT !.ahead = 1]}
Primary1 == [Named1 EXCEPT !.arns[n2] = a1, !.prim[u1] = n2, !.rev[n2] = u1]
Legacy1  == [Primary1 EXCEPT !.rev[n2] = Nobody]
Asked    == [Primary1 EXCEPT !.prim[u1] = NoName, !.rev[n2] = Nobody,
                             !.req[u2] = [name |-> n2, at |-> 0]]

(* Escrows.                                                                *)
Deposited(b, r) ==
    [World EXCEPT !.owner[a1] = IF b = a1 THEN Escrow ELSE u1,
                  !.held[u1] = IF b = a1 THEN 1 ELSE 0, !.nonce = 1, !.ata = {u1, b},
                  !.box[b] = [dep |-> u1, recip |-> r, nonce |-> 0,
                              amt |-> IF b = a1 THEN 0 ELSE 1,
                              end |-> IF Kind(b) = "vault" THEN LockTime ELSE 0]]
(* Two depositors of one recipient, with an id in common.                  *)
Alike ==
    [Deposited(<<"token", u1>>, r1) EXCEPT
        !.nonce = 2,
        !.box[<<"token", u2>>] = [dep |-> u2, recip |-> r1, nonce |-> 1, amt |-> 1, end |-> 0]]
OfAlike == {[Esc("claimTokensEthereum", "token", u2) EXCEPT !.dep = d] : d \in {u1, u2}}
             \union {Esc("updateTokenRecipient", "token", u1)}
OfAnt == {Esc("deposit", "ant", u1), Esc("cancel", "ant", u1), Esc("updateRecipient", "ant", u1),
          [Esc("updateRecipient", "ant", u1) EXCEPT !.r = r2],
          Esc("claimEthereum", "ant", u2), Esc("claimArweave", "ant", u2)}
OfTokens == {Esc("depositTokens", "token", u1), Esc("cancelTokens", "token", u1),
             Esc("updateTokenRecipient", "token", u1), Esc("claimTokensEthereum", "token", u2),
             Esc("claimTokensArweave", "token", u2),
             [Esc("claimTokensEthereum", "token", u2) EXCEPT !.canonical = FALSE]}
OfVault == {Esc("depositVault", "vault", u1), Esc("cancelTokens", "vault", u1),
            Esc("claimVaultEthereum", "vault", u2), Esc("claimVaultArweave", "vault", u2),
            [Esc("attestedVaultClaim", "vault", u2) EXCEPT !.ahead = 1],
            [Esc("claimVaultEthereum", "vault", u2) EXCEPT !.ahead = 1],
            [Esc("claimVaultEthereum", "vault", u2) EXCEPT !.behind = 1]}

(* The registry.                                                           *)
Leaving == [Registry EXCEPT !.status = [@ EXCEPT ![o1] = "leaving", ![o3] = "leaving"],
                            !.observers = {o1, o2}, !.time = 1]
Leavers == {Gar("finalizeGone", o1, {}, 0), Gar("finalizeGone", o3, {}, 0),
            Gar("finalizeGone", o2, {}, 0),
            Gar("saveObservations", o2, {o1}, 1), Gar("saveObservations", o2, {o1, o3}, 0)}
Failing == [Registry EXCEPT !.status[o2] = "deficient", !.status[o3] = "leaving",
                            !.time = 1]
Waiting == [Registry EXCEPT !.status = [@ EXCEPT ![o1] = "leaving", ![o2] = "deficient"],
                            !.leave[o1] = [at |-> 0, snap |-> 0], !.stake[<<o1, o2>>] = [amt |-> 1, debt |-> 0],
                            !.observers = {o2, o3}]
Sweepers == {Gar("sweepGone", o1, {}, 0), Gar("sweepDeficient", o1, {}, 0),
             [Gar("sweepGone", o1, {}, 0) EXCEPT !.ahead = 1],
             [Gar("sweepGone", o1, {}, 0) EXCEPT !.fails = TRUE],
             Gar("submitReport", o2, {o1}, 1), Gar("submitReport", o1, {o1}, 1)}
Cranks  == {Gar("tallyWeights", o1, {}, 0), Gar("prescribeEpoch", o1, {}, 0),
            Gar("pruneGateway", o2, {}, 0), Gar("finalizeGone", o3, {}, 0)}
Reported == [Registry EXCEPT !.report[o1] = [bits |-> <<TRUE, TRUE, TRUE>>, count |-> 3],
                             !.observers = {o1, o2}]
Closers == {Gar("closeObservations", o1, {o1, o2}, 0), Gar("saveObservations", o2, {}, 1)}

(* Delegated stake.                                                        *)
St(amt, debt) == [amt |-> amt, debt |-> debt]
Withdrawal(amt, o, isDelegate) == [amt |-> amt, gw |-> o, isDelegate |-> isDelegate, open |-> TRUE]
Pool(op, o, d, takes, key) ==
    [op |-> op, o |-> o, d |-> d, takes |-> takes, key |-> key, min |-> 0]
Pooled == [Registry EXCEPT
    !.status[o2] = "leaving", !.takes[o1] = FALSE, !.cum = [@ EXCEPT ![o1] = 3, ![o3] = 1],
    !.stake = [@ EXCEPT ![<<o1, o2>>] = St(1, 0), ![<<o1, o3>>] = St(0, 1),
                        ![<<o3, o1>>] = St(2, 0), ![<<o2, o1>>] = St(1, 0)],
    !.outs = [@ EXCEPT ![o2] = <<Withdrawal(0, o1, TRUE)>>]]
Rewarding == {Pool("sweepRewards", o1, o1, "same", NoOperator),
              Pool("sweepEmpty", o1, o1, "same", NoOperator),
              Pool("compound", o3, o1, "same", NoOperator)}
Emptying == {Pool("sweepDisabled", o1, o1, "same", NoOperator),
             Pool("sweepDrained", o1, o1, "same", NoOperator)}
Setting == {Pool("updateGatewaySettings", o1, o1, "no", o3),
            Pool("updateGatewaySettings", o1, o1, "yes", NoOperator),
            Pool("updateGatewaySettings", o3, o3, "same", o2)}
Listing == {Pool("allowDelegate", o3, o2, "same", NoOperator),
            Pool("disallowDelegate", o3, o2, "same", NoOperator),
            Pool("setAllowlistEnabled", o3, o3, "yes", NoOperator)}
Settings == [Registry EXCEPT !.status[o2] = "gone", !.slots = <<o1, o3>>, !.time = 1,
                             !.stake[<<o3, o2>>] = St(0, 0)]
Staking == [Registry EXCEPT
    !.status[o2] = "gone", !.slots = <<o1, o3>>, !.cum[o1] = 3,
    !.stake = [@ EXCEPT ![<<o1, o2>>] = St(1, 0), ![<<o1, o3>>] = St(2, 1),
                        ![<<o3, o2>>] = St(5, 0), ![<<o2, o3>>] = St(0, 0)],
    !.outs = [@ EXCEPT ![o2] = <<Withdrawal(3, o1, TRUE), [Withdrawal(0, o1, TRUE) EXCEPT !.open = FALSE],
                                 Withdrawal(1, o2, FALSE)>>],
    !.allowed[o1] = {o2, o3}]

(* Listings.                                                               *)
Listed1 == [Primary1 EXCEPT !.arns[n2] = a2, !.owner[a2] = u2, !.known[a2] = u2,
                            !.ctrl[a2] = {u1}, !.old = {},
                            !.acl = At1(Pages({Own(a1), Con(a1)}, {Con(a2)}), Pages({Own(a2)}, {})),
                            !.prim[u2] = n1, !.rev[n1] = u2,
                            !.req = [u \in Users |-> [name |-> n1, at |-> IF u = u1 THEN 1 ELSE 0]]]
Walks == {Walk("names", s, d, {}, {}) : s \in {"end", "name"}, d \in BOOLEAN}
         \union {Walk("names", "name", FALSE, {}, {a1}), Walk("namesOf", "end", TRUE, {}, {}),
                 Walk("primaryNames", "name", FALSE, {}, {}), Walk("requests", "at", TRUE, {n1}, {}),
                 Name("releaseName", n1, u1, a1)}
GatewayWalks == {[Walk("gateways", "none", FALSE, {}, {}) EXCEPT !.limit = 2],
                 Walk("gateways", "weight", TRUE, {}, {}),
                 Walk("gateways", "weight", FALSE, {"joined", "deficient"}, {}),
                 Gar("finalizeGone", o3, {}, 0)}

StakeWalks == {Walk("delegatesOf", "balance", TRUE, {}, {}),
               Walk("allDelegates", "balance", FALSE, {}, {}),
               [Walk("delegations", "balance", TRUE, {}, {}) EXCEPT !.o = o2],
               Pool("compound", o1, o2, "same", NoOperator)}
OutWalks == {[Walk("withdrawals", "balance", FALSE, {}, {}) EXCEPT !.o = o2],
             [Walk("gatewayVaults", "balance", FALSE, {}, {}) EXCEPT !.o = o2],
             Walk("allowList", "weight", FALSE, {}, {}),
             Pool("disallowDelegate", o1, o3, "same", NoOperator)}

(* A scene in which others move only once.                                 *)
Once(s) == [s EXCEPT !.env = 1]

AllScenes ==
    {Scene(World, Registry, Sharing, {"lose"}), Scene(Both, Registry, Sharing, {"raw"}),
     Scene(World, Registry, Repairs, {"raw"}),
     Scene([World EXCEPT !.old = {a1}], Registry, Spawns, {"lose"}),
     Scene(World, Registry, Buying, {"raw", "lose"}),
     Scene([World EXCEPT !.syncs = FALSE], Registry, Buying, {"lose"}),
     Scene(Named1, Registry, Managing, {"raw"}),
     Scene(Primary1, Registry, Primaries, {"raw"}),
     Scene(Legacy1, Registry, Primaries, {}),
     Scene(Asked, Registry, Primaries, {"tick"}),
     Scene(World, Registry, OfAnt, {}),
     Scene(Deposited(a1, r1), Registry, OfAnt, {"sign"}),
     Scene(Deposited(a1, r2), Registry, OfAnt, {"sign"}),
     Scene(World, Registry, OfTokens, {}),
     Scene(Deposited(<<"token", u1>>, r1), Registry, OfTokens, {"sign"}),
     Scene(Alike, Registry, OfAlike, {"sign"}),
     Scene(World, Registry, OfVault, {"tick"}),
     Scene(Deposited(<<"vault", u1>>, r1), Registry, OfVault, {"sign", "tick"}),
     Scene(Deposited(<<"vault", u1>>, r2), Registry, OfVault, {"sign", "tick"}),
     Scene(Recorded, Registry, Reading, {"raw"}),
     Scene(Recorded, Registry, Writing, {}),
     Scene(Listed1, Registry, Walks, {"raw"}),
     Scene(World, Failing, GatewayWalks, {"registry"}),
     Scene(World, Waiting, Sweepers, {"registry"}),
     Scene(World, Leaving, Leavers, {"registry"}),
     Scene(World, Failing, Cranks, {"registry"}),
     Scene(World, Reported, Closers, {}),
     Once(Scene(World, Pooled, Rewarding, {"pools"})),
     Once(Scene(World, Pooled, Emptying, {"pools"})),
     Once(Scene(World, Settings, Setting, {"pools", "registry"})),
     Once(Scene(World, Settings, Listing, {"pools"})),
     Scene(World, Staking, StakeWalks, {}),
     Scene(World, Staking, OutWalks, {})}
=============================================================================
