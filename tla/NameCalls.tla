------------------------------ MODULE NameCalls -----------------------------
(***************************************************************************)
(* The calls on ArNS names that also touch the ANT behind the name, and    *)
(* those on primary names (io-writeable.ts).  Read as AntCalls; buying a   *)
(* name with a new ANT is three transactions in a row, the last two of     *)
(* which are best effort, and p.stage tells which one is being built.      *)
(* How a name is paid for is the business of PurchaseCalls.                *)
(***************************************************************************)
EXTENDS EscrowCalls

NameOps == {"spawnBuy", "buyRecord", "manage", "extendLease", "syncAttributes",
            "reassignName", "releaseName", "requestPrimaryName", "setPrimaryName", "approvePrimaryName",
            "closeExpiredRequest", "sweepRequests"}

Arns(n) == <<"arns", n>>
Prim(u) == <<"prim", u>>
Rev(n)  == <<"rev", n>>

NameValue(x, key) ==
    CASE key[1] = "arns" -> x.arns[key[2]]
      [] key[1] = "prim" -> x.prim[key[2]]
      [] key[1] = "rev"  -> x.rev[key[2]]
      [] key[1] = "allreq" -> x.req
      [] OTHER           -> AntValue(x, key)

NameIx(op, p) == [op |-> op, n |-> p.n, by |-> p.by]

----------------------------------------------------------------------------
(* _buildMigrateArnsRecordIxIfNeeded.                                      *)
Migrate(p, seen) == IF seen[Old(p.n)] THEN <<NameIx("migrate_record", p)>> ELSE <<>>

(* _buildSyncAttributesIxIfOwner: the traits are synced along only by who  *)
(* owns the ANT; for others the call goes without.                         *)
SyncIx(p, a) == With(NameIx("sync_attributes", p), [a |-> a])
SyncIfOwner(p, a, seen) == IF seen[Owner(a)] = p.by THEN <<SyncIx(p, a)>> ELSE <<>>

(* Which ANT a call syncs: a purchase and a reassignment name it, since    *)
(* the record on chain does not say so yet.                                *)
Synced(p, seen) == CASE p.op = "buyRecord"    -> p.a
                     [] p.op = "reassignName" -> p.to
                     [] OTHER                 -> seen[Arns(p.n)]

ManageReads(p, seen) ==
    Then(InTurn(<<Old(p.n), Arns(p.n)>>, seen),
         IF seen[Arns(p.n)] = Nobody \/ p.op \in {"releaseName", "syncAttributes"} THEN {}
         ELSE InTurn(<<Owner(Synced(p, seen))>>, seen))

----------------------------------------------------------------------------
(* buyRecord without an ANT.  _bootstrapSpawnedAntAcl records the owner    *)
(* first, and then syncs the traits, each in a transaction of its own.     *)
(* Mutant: the traits are synced in the transaction that records the owner. *)
SpawnBuyBundled(p, seen) ==
    CASE p.stage = 1 -> <<AntIx("create", p), With(NameIx("buy_name", p), [a |-> p.a])>>
      [] p.stage = 2 -> Append(BootstrapOwner(p.by, p.a, seen[Acl(p.by, 1)]), SyncIx(p, p.a))
      [] p.stage = 3 -> SyncIfOwner(p, p.a, seen)

SpawnBuyTx(p, seen) ==
    CASE p.stage = 1 -> <<AntIx("create", p), With(NameIx("buy_name", p), [a |-> p.a])>>
      [] p.stage = 2 -> BootstrapOwner(p.by, p.a, seen[Acl(p.by, 1)])
      [] p.stage = 3 -> SyncIfOwner(p, p.a, seen)

SpawnBuyReads(p, seen) ==
    CASE p.stage = 1 -> {}
      [] p.stage = 2 -> InTurn(<<Acl(p.by, 1)>>, seen)
      [] p.stage = 3 -> InTurn(<<Owner(p.a)>>, seen)

(* reassignName and releaseName name the ANT they found in the record.     *)
ReassignTx(p, seen) ==
    Migrate(p, seen)
    \o <<With(NameIx("reassign_name", p), [a |-> seen[Arns(p.n)], to |-> p.to])>>
    \o SyncIfOwner(p, p.to, seen)

ReleaseTx(p, seen) ==
    Append(Migrate(p, seen), With(NameIx("release_name", p), [a |-> seen[Arns(p.n)]]))

----------------------------------------------------------------------------
(* Primary names.  A signer who has one gives it up in the transaction     *)
(* that requests or sets the new one.                                      *)
PrimaryReads(p, seen) ==
    Then(InTurn(<<Prim(p.by)>>, seen),
    Then(IF seen[Prim(p.by)] = NoName THEN {} ELSE InTurn(<<Rev(seen[Prim(p.by)])>>, seen),
         InTurn(IF p.op = "setPrimaryName" THEN <<Old(p.n), Arns(p.n)>> ELSE <<Old(p.n)>>,
                seen)))

(* A forward name without its reverse account cannot be removed.           *)
LegacyPrimary(p, seen) ==
    LET n == seen[Prim(p.by)] IN n # NoName /\ seen[Rev(n)] = Nobody

(* _buildRemoveExistingPrimaryNameIxs.                                     *)
RemoveExisting(p, seen) ==
    IF seen[Prim(p.by)] = NoName THEN <<>>
    ELSE <<[op |-> "remove_primary", n |-> seen[Prim(p.by)], by |-> p.by]>>

(* Mutant: the old name is taken away before and apart from the set.       *)
SetPrimaryInTwo(p, seen) ==
    IF seen[Prim(p.by)] # NoName THEN RemoveExisting(p, seen)
    ELSE Migrate(p, seen) \o <<With(NameIx("set_primary", p), [a |-> seen[Arns(p.n)]])>>

SetPrimaryTx(p, seen) ==
    RemoveExisting(p, seen) \o Migrate(p, seen)
    \o <<With(NameIx("set_primary", p), [a |-> seen[Arns(p.n)]])>>

RequestPrimaryTx(p, seen) ==
    RemoveExisting(p, seen) \o Migrate(p, seen) \o <<NameIx("request_primary", p)>>

ApproveTx(p, seen) ==
    Append(Migrate(p, seen),
           With(NameIx("approve_primary", p), [u |-> p.u, a |-> seen[Arns(p.n)]]))

(* A cranker closes what getExpiredPrimaryNameRequests finds.              *)
AllRequests == <<"allreq">>
Expired(p, seen) ==
    {u \in Users : /\ seen[AllRequests][u] # Nobody
                   /\ seen[AllRequests][u].at + Expiry <= seen[Clock(p)]}

CloseTx(u, p) == <<With(NameIx("close_request", p), [u |-> u])>>

----------------------------------------------------------------------------
NameReads(p, seen) ==
    CASE p.op = "spawnBuy"  -> SpawnBuyReads(p, seen)
      [] p.op = "buyRecord" -> InTurn(<<Owner(p.a)>>, seen)
      [] p.op \in {"requestPrimaryName", "setPrimaryName"} -> PrimaryReads(p, seen)
      [] p.op = "approvePrimaryName"  -> InTurn(<<Old(p.n), Arns(p.n)>>, seen)
      [] p.op = "closeExpiredRequest" -> {}
      [] p.op = "sweepRequests"       -> InTurn(<<AllRequests, Clock(p)>>, seen)
      [] p.op = "extendLease"         -> InTurn(<<Old(p.n)>>, seen)
      [] OTHER -> ManageReads(p, seen)

(* getArNSRecord throws when there is no record; a request finds out from  *)
(* the program.  A sweep that finds nothing has nothing to do.             *)
NameRefuses(p, seen) ==
    \/ Arns(p.n) \in DOMAIN seen /\ seen[Arns(p.n)] = Nobody
    \/ p.op \in {"requestPrimaryName", "setPrimaryName"} /\ LegacyPrimary(p, seen)
    \/ p.op = "sweepRequests" /\ Expired(p, seen) = {}

NameTx(p, seen) ==
    CASE p.op = "spawnBuy" -> SpawnBuyTx(p, seen)
      [] p.op = "buyRecord" ->
           <<With(NameIx("buy_name", p), [a |-> p.a])>> \o SyncIfOwner(p, p.a, seen)
      [] p.op = "manage" ->
           Append(Migrate(p, seen), NameIx("manage_name", p))
           \o SyncIfOwner(p, seen[Arns(p.n)], seen)
      [] p.op = "extendLease" -> Append(Migrate(p, seen), NameIx("manage_name", p))
      [] p.op = "syncAttributes" ->
           Append(Migrate(p, seen), SyncIx(p, seen[Arns(p.n)]))
      [] p.op = "reassignName"        -> ReassignTx(p, seen)
      [] p.op = "releaseName"         -> ReleaseTx(p, seen)
      [] p.op = "requestPrimaryName"  -> RequestPrimaryTx(p, seen)
      [] p.op = "setPrimaryName"      -> SetPrimaryTx(p, seen)
      [] p.op = "approvePrimaryName"  -> ApproveTx(p, seen)
      [] p.op = "closeExpiredRequest" -> CloseTx(p.u, p)
      [] p.op = "sweepRequests"       -> CloseTx(CHOOSE u \in Expired(p, seen) : TRUE, p)

(* The program that is deployed may be one that takes no sync; only a call *)
(* that bundles the sync fails with it.                                    *)
SpawnBuyDue(p, x) ==
    CASE p.stage = 1 -> x.owner[p.a] = Nobody /\ x.arns[p.n] = Nobody
      [] p.stage = 2 -> x.owner[p.a] = p.by /\ p.by \in x.ctrl[p.a]
      [] p.stage = 3 -> x.syncs /\ x.arns[p.n] = p.a

Owns(p, a, x) == a # Nobody /\ x.owner[a] = p.by
Free(p, u, x) == x.rev[p.n] \in {Nobody, u}
NameDue(p, x) ==
    LET a == x.arns[p.n] IN
    CASE p.op = "spawnBuy" -> SpawnBuyDue(p, x)
      [] p.op = "buyRecord" ->
           a = Nobody /\ x.owner[p.a] # Nobody /\ (x.syncs \/ ~Owns(p, p.a, x))
      [] p.op = "manage" -> x.syncs \/ ~Owns(p, a, x)
      [] p.op = "extendLease" -> a # Nobody
      [] p.op = "syncAttributes" -> x.syncs /\ Owns(p, a, x)
      [] p.op = "reassignName" ->
           /\ Owns(p, a, x) /\ x.owner[p.to] # Nobody
           /\ x.syncs \/ ~Owns(p, p.to, x)
      [] p.op = "releaseName" -> Owns(p, a, x)
      [] p.op = "requestPrimaryName" -> a # Nobody /\ x.req[p.by] = Nobody
      [] p.op = "setPrimaryName" -> Approver(x, p.n) = p.by /\ Free(p, p.by, x)
      [] p.op = "approvePrimaryName" ->
           /\ Approver(x, p.n) = p.by /\ Free(p, Nobody, x) /\ x.prim[p.u] = NoName
           /\ x.req[p.u] # Nobody
           /\ x.req[p.u].name = p.n /\ x.now < x.req[p.u].at + Expiry
      [] p.op = "closeExpiredRequest" ->
           x.req[p.u] # Nobody /\ x.now >= x.req[p.u].at + Expiry
      [] p.op = "sweepRequests" -> p.ahead = 0
=============================================================================
