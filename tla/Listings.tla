------------------------------ MODULE Listings ------------------------------
(***************************************************************************)
(* The listings of io-readable.ts and how a caller walks them page by page *)
(* with nextCursor: getGateways, getArNSRecords, getArNSRecordsForAddress, *)
(* getPrimaryNames, getPrimaryNameRequests, getGatewayDelegates,           *)
(* getAllDelegates, getDelegations, getWithdrawals, getGatewayVaults and   *)
(* getGatewayDelegateAllowList, all by way of paginate.                    *)
(* Every page fetches the whole list again; a cursor is an offset into it. *)
(*                                                                         *)
(* An item is [id, key, tag]: what it is about, what it is sorted by, and  *)
(* what the filter looks at.                                               *)
(***************************************************************************)
EXTENDS AntQueries, PoolCalls

CONSTANT Rank            \* [Names -> Nat], their alphabetical order

ASSUME RankAssumption ==
    Rank \in [Names -> Nat] /\ \A n, m \in Names : Rank[n] = Rank[m] => n = m

PoolLists == {"delegatesOf", "allDelegates", "delegations", "withdrawals",
              "gatewayVaults", "allowList"}
Lists == {"gateways", "names", "namesOf", "primaryNames", "requests"} \union PoolLists

GatewayItem(o, status) == [id |-> o, key |-> Weight[o], tag |-> status]
NameItem(n, a, by) ==
    [id |-> n, key |-> IF by = "end" THEN LeaseEnd[n] ELSE Rank[n], tag |-> a]
PrimaryItem(u, n, a) == [id |-> u, key |-> Rank[n], tag |-> a]
RequestItem(u, req) == [id |-> u, key |-> req.at, tag |-> req.name]

StakeItem(k, st, cum) == [id |-> <<"stake", k>>, key |-> Live(st, cum), tag |-> k[1]]
VaultItem(k, out) == [id |-> <<"vault", k>>, key |-> out.amt, tag |-> out.gw]

(* A scan returns its accounts in any order.                               *)
Orders(S) == {f \in [1..Cardinality(S) -> S] : IsInjective(f)}

----------------------------------------------------------------------------
(* The list a page is cut from: what is read for it, and what it is.       *)
ListedNames(x, p) ==
    {n \in Names : x.arns[n] # Nobody /\ (p.ants = {} \/ x.arns[n] \in p.ants)}
Holders(x)    == {u \in Users : x.prim[u] # NoName}
Requesters(x) == {u \in Users : x.req[u] # Nobody}

(* accessControlList: the ANTs a user owns or controls.                    *)
AccessControlList(acl) == {e.asset : e \in UNION Range(acl.pages)}

NamesAt(a) == <<"namesAt", a>>
PageScans(p) ==
    CASE p.list = "names"        -> {<<"names", f>> : f \in Orders(ListedNames(w, p))}
      [] p.list = "primaryNames" -> {<<"holders", f>> : f \in Orders(Holders(w))}
      [] p.list = "requests"     -> {<<"requests", f>> : f \in Orders(Requesters(w))}

GatewayBatches(slots) ==
    LET n == (Len(slots) + ChunkSize - 1) \div ChunkSize
    IN  [i \in 1..n |-> <<"gateways", SubSeq(slots, (i - 1) * ChunkSize + 1,
                                           Min({i * ChunkSize, Len(slots)}))>>]

(* What the first read has found; it was the scan, if there is one.        *)
Scanned(seen) == seen[CHOOSE k \in DOMAIN seen : k[1] \in {"names", "holders", "requests"}]
HasScan(seen) == \E k \in DOMAIN seen : k[1] \in {"names", "holders", "requests"}

(* The listings about stake.  Delegations and withdrawals of one owner are *)
(* scanned at the same time; the rewards of the gateways found come after, *)
(* of at most as many gateways as one request takes.                       *)
StakeScan(p) == CASE p.list = "delegatesOf"  -> StakesOf({p.o}, Operators)
                  [] p.list = "allDelegates" -> AllStakes
                  [] p.list = "delegations"  -> StakesOf(Operators, {p.o})
OutScan(p)   == IF p.list = "gatewayVaults" THEN OutsOf(Operators) ELSE OutsOf({p.o})
GatewaysIn(p, seen) == IF p.list = "delegatesOf" THEN {p.o}
                       ELSE {k[1] : k \in DOMAIN seen[StakeScan(p)]}
RewardReads(p, seen) ==
    LET os == GatewaysIn(p, seen)
    IN  IF os = {} THEN {} ELSE AtOnce({Accumulators(os)}, seen)

PoolPageReads(p, seen) ==
    CASE p.list \in {"delegatesOf", "allDelegates"} ->
           Then(InTurn(<<StakeScan(p)>>, seen), RewardReads(p, seen))
      [] p.list = "delegations" ->
           Then(AtOnce({StakeScan(p), OutScan(p)}, seen), RewardReads(p, seen))
      [] p.list = "allowList" -> InTurn(<<<<"allowed", p.o>>>>, seen)
      [] OTHER -> InTurn(<<OutScan(p)>>, seen)

StakeItems(p, seen) ==
    LET stakes == seen[StakeScan(p)]
        os     == GatewaysIn(p, seen)
        cums   == IF os = {} THEN <<>> ELSE seen[Accumulators(os)]
    IN  {StakeItem(k, stakes[k], CumIn(cums, k[1])) : k \in DOMAIN stakes}
(* getDelegations keeps what delegates take out, getGatewayVaults what the *)
(* operator takes out of his own gateway, getWithdrawals both.             *)
Shown(p, out) ==
    CASE p.list = "delegations"   -> out.isDelegate
      [] p.list = "withdrawals"   -> TRUE
      [] p.list = "gatewayVaults" -> out.gw = p.o /\ ~out.isDelegate
VaultItems(p, seen) ==
    LET outs == seen[OutScan(p)]
    IN  {VaultItem(k, outs[k]) : k \in {j \in DOMAIN outs : Shown(p, outs[j])}}

ListedStake(p, seen) ==
    CASE p.list \in {"delegatesOf", "allDelegates"} -> StakeItems(p, seen)
      [] p.list = "delegations" ->
           StakeItems(p, seen) \union VaultItems(p, seen)
      [] p.list \in {"withdrawals", "gatewayVaults"} -> VaultItems(p, seen)
      [] p.list = "allowList" ->
           {[id |-> d, key |-> Weight[d], tag |-> p.o] : d \in seen[<<"allowed", p.o>>]}

PageReads(p, seen) ==
    CASE p.list \in PoolLists -> PoolPageReads(p, seen)
      [] p.list = "gateways" ->
           Then(InTurn(<<Slots>>, seen), InTurn(GatewayBatches(seen[Slots]), seen))
      [] p.list = "namesOf" ->
           Then(InTurn(<<Acl(p.u, 1)>>, seen),
                AtOnce({NamesAt(a) : a \in AccessControlList(seen[Acl(p.u, 1)])}, seen))
      [] p.list = "primaryNames" ->
           IF ~HasScan(seen) THEN PageScans(p)
           ELSE InTurn([i \in DOMAIN Scanned(seen) |-> Arns(Scanned(seen)[i].name)], seen)
      [] OTHER -> IF HasScan(seen) THEN {} ELSE PageScans(p)

PageValue(x, y, key) ==
    CASE key[1] = "names"    -> [i \in DOMAIN key[2] |->
                                   [n |-> key[2][i], a |-> x.arns[key[2][i]]]]
      [] key[1] = "holders"  -> [i \in DOMAIN key[2] |->
                                   [u |-> key[2][i], name |-> x.prim[key[2][i]]]]
      [] key[1] = "requests" -> [i \in DOMAIN key[2] |->
                                   [u |-> key[2][i], req |-> x.req[key[2][i]]]]
      [] key[1] = "namesAt"  -> {n \in Names : x.arns[n] = key[2]}
      [] key[1] = "gateways" -> [o \in ToSet(key[2]) |-> y.status[o]]

ListedGateways(seen) ==
    LET batches == GatewayBatches(seen[Slots])
        Item(o) == GatewayItem(o, seen[batches[CHOOSE i \in DOMAIN batches :
                                                 o \in ToSet(batches[i][2])]][o])
        all == [i \in DOMAIN seen[Slots] |-> Item(seen[Slots][i])]
    IN  SelectSeq(all, LAMBDA it : it.tag # "gone")

ListedOf(p, seen) ==
    LET ants == AccessControlList(seen[Acl(p.u, 1)])
    IN  SetToSeq(UNION {{NameItem(n, a, p.sort) : n \in seen[NamesAt(a)]} : a \in ants})

(* A primary name whose ArNS record is gone is left out.                   *)
ListedPrimaryNames(seen) ==
    LET kept == SelectSeq(Scanned(seen), LAMBDA it : seen[Arns(it.name)] # Nobody)
    IN  [i \in DOMAIN kept |-> PrimaryItem(kept[i].u, kept[i].name, seen[Arns(kept[i].name)])]

Listed(p, seen) ==
    CASE p.list \in PoolLists   -> SetToSeq(ListedStake(p, seen))
      [] p.list = "gateways"     -> ListedGateways(seen)
      [] p.list = "namesOf"      -> ListedOf(p, seen)
      [] p.list = "primaryNames" -> ListedPrimaryNames(seen)
      [] p.list = "names" ->
           [i \in DOMAIN Scanned(seen) |->
              NameItem(Scanned(seen)[i].n, Scanned(seen)[i].a, p.sort)]
      [] p.list = "requests" ->
           [i \in DOMAIN Scanned(seen) |-> RequestItem(Scanned(seen)[i].u, Scanned(seen)[i].req)]

----------------------------------------------------------------------------
(* paginate: filter, sort if a key is given, cut.                          *)
MatchesFilters(it, p) == p.tags = {} \/ it.tag \in p.tags

(* compareValues, and the rule that what has no value comes last whichever *)
(* way the list is sorted.                                                 *)
Precedes(x, y, desc) ==
    \/ y.key = Forever /\ x.key # Forever
    \/ /\ Forever \notin {x.key, y.key}
       /\ IF desc THEN x.key > y.key ELSE x.key < y.key

StableSort(items, desc) ==
    LET Insert(sorted, it) ==
          LET before == SelectSeq(sorted, LAMBDA y : ~Precedes(it, y, desc))
          IN  before \o <<it>> \o SubSeq(sorted, Len(before) + 1, Len(sorted))
    IN  FoldLeft(Insert, <<>>, items)

(* Mutant: the next page begins one item after the end of this one.        *)
NextCursorSkipping(start, limit) == start + limit + 1

NextCursor(start, limit) == start + limit

Paginate(items, p, start) ==
    LET filtered == SelectSeq(items, LAMBDA it : MatchesFilters(it, p))
        ordered  == IF p.sort = "none" THEN filtered ELSE StableSort(filtered, p.desc)
    IN  [items |-> SubSeq(ordered, start + 1, Min({start + p.limit, Len(ordered)})),
         hasMore |-> start + p.limit < Len(ordered), next |-> NextCursor(start, p.limit)]

(* One more page of a walk: p.got is what it has, p.start its cursor.      *)
TurnPage(p, seen) == Paginate(Listed(p, seen), p, p.start)

----------------------------------------------------------------------------
(* What a walk is for: the items there are, each once, in the order asked. *)
Worth(k) == IF g.status[k[1]] = "gone" THEN StakeAt(g, k[1], k[2])
            ELSE Settled1(g.stake[k], g.cum[k[1]]).amt
ExistingStakes(os, ds) ==
    {[id |-> <<"stake", k>>, key |-> Worth(k), tag |-> k[1]] :
       k \in Delegations(g) \intersect (os \X ds)}
ExistingOuts(ds, kinds) ==
    {VaultItem(k, g.outs[k[1]][k[2]]) :
       k \in {j \in ds \X (1..Max({Len(g.outs[d]) : d \in ds})) :
                j[2] \in OpenOuts(g, j[1]) /\ g.outs[j[1]][j[2]].isDelegate \in kinds}}

ExistingPool(p) ==
    CASE p.list = "delegatesOf"  -> ExistingStakes({p.o}, Operators)
      [] p.list = "allDelegates" -> ExistingStakes(Operators, Operators)
      [] p.list = "delegations"  -> ExistingStakes(Operators, {p.o})
                                      \union ExistingOuts({p.o}, {TRUE})
      [] p.list = "withdrawals"  -> ExistingOuts({p.o}, BOOLEAN)
      [] p.list = "gatewayVaults" ->
           {it \in ExistingOuts(Operators, {FALSE}) : it.tag = p.o}
      [] p.list = "allowList" ->
           {[id |-> d, key |-> Weight[d], tag |-> p.o] : d \in g.allowed[p.o]}

Existing(p) ==
    CASE p.list \in PoolLists -> ExistingPool(p)
      [] p.list = "gateways" -> {GatewayItem(o, g.status[o]) : o \in ToSet(g.slots)}
      [] p.list = "names" -> {NameItem(n, w.arns[n], p.sort) : n \in ListedNames(w, p)}
      [] p.list = "namesOf" ->
           {NameItem(n, w.arns[n], p.sort) :
              n \in {m \in Names : w.arns[m] # Nobody /\ (w.owner[w.arns[m]] = p.u
                                                          \/ p.u \in w.ctrl[w.arns[m]])}}
      [] p.list = "primaryNames" ->
           {PrimaryItem(u, w.prim[u], w.arns[w.prim[u]]) :
              u \in {v \in Holders(w) : w.arns[w.prim[v]] # Nobody}}
      [] p.list = "requests" -> {RequestItem(u, w.req[u]) : u \in Requesters(w)}

(* The order is settled by the registry, or by keys that differ.           *)
Settled(p) ==
    \/ p.sort = "none" /\ p.list = "gateways"
    \/ p.sort # "none" /\ \A x, y \in Existing(p) : x.key = y.key => x = y

InOrder(p, got) ==
    \A i, j \in DOMAIN got : i < j =>
      IF p.sort # "none"
      THEN ~(got[i].key = Forever /\ got[j].key # Forever)
             /\ (Forever \notin {got[i].key, got[j].key} =>
                   IF p.desc THEN got[i].key >= got[j].key ELSE got[i].key <= got[j].key)
      ELSE p.list = "gateways" => SlotOf(g, got[i].id) < SlotOf(g, got[j].id)

WalkedWell(p, got) ==
    /\ ToSet(got) = {it \in Existing(p) : MatchesFilters(it, p)}
    /\ IsInjective(got)
    /\ InOrder(p, got)
=============================================================================
