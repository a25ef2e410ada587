------------------------------ MODULE AntCalls ------------------------------
(***************************************************************************)
(* The calls on one ANT (ant-writeable.ts, spawn-ant.ts, ant-readable.ts): *)
(* what each reads before it sends, and the one transaction it sends.      *)
(*                                                                         *)
(* A call p by p.by is described by three operators: AntReads(p, seen),    *)
(* the accounts it can read next when `seen` holds what it has read (the   *)
(* empty set when it has read all); AntRefuses(p, seen), when it throws;   *)
(* and AntTx(p, seen), the instructions it sends.  AntDue says when the    *)
(* programs owe it success, if nothing changed since the first read.       *)
(***************************************************************************)
EXTENDS AssetLedger, TLC

(* One read after the other; or all at the same time, in any order.        *)
Unread(keys, seen) == {i \in DOMAIN keys : keys[i] \notin DOMAIN seen}
InTurn(keys, seen) ==
    LET rest == Unread(keys, seen) IN IF rest = {} THEN {} ELSE {keys[Min(rest)]}
AtOnce(keys, seen) == keys \ DOMAIN seen
Then(first, next) == IF first # {} THEN first ELSE next

(* Keys.  The list of a user may be read twice: i tells the reads apart.   *)
Acl(u, i) == <<"acl", u, i>>
Owner(a)  == <<"owner", a>>
Known(a)  == <<"known", a>>
Ctrl(a)   == <<"ctrl", a>>
Old(k)    == <<"old", k>>

(* loadAclState reads the head and then all pages at once; what one of the *)
(* two reads sees and the other does not is not told apart.                *)
AclOf(x, u) == IF u \in Users THEN x.acl[u] ELSE NoAcl
AntValue(x, key) ==
    CASE key[1] = "acl"   -> AclOf(x, key[2])
      [] key[1] = "owner" -> x.owner[key[2]]
      [] key[1] = "known" -> x.known[key[2]]
      [] key[1] = "ctrl"  -> x.ctrl[key[2]]
      [] key[1] = "old"   -> key[2] \in x.old
      [] key[1] = "rec"   -> x.recs[key[2]][key[3]]
      [] key[1] = "meta"  -> x.meta[key[2]][key[3]]
      [] key[1] = "recs"  -> x.recs[key[2]]

AntIx(op, p) == [op |-> op, a |-> p.a, by |-> p.by]

----------------------------------------------------------------------------
(* addController: room in the list of the new controller comes first.      *)
AddControllerTx(p, seen) ==
    LET dest == Destination(p.u, seen[Acl(p.u, 1)])
    IN  Append(dest.prep, With(AntIx("add_controller", p), [u |-> p.u, page |-> dest.page]))

(* removeController: a page that is not found is left to the program to    *)
(* refuse.                                                                 *)
RemoveControllerTx(p, seen) ==
    LET held == Holding(seen[Acl(p.u, 1)], Entry(p.a, "controller"))
    IN  <<With(AntIx("remove_controller", p),
              [u |-> p.u, page |-> IF held = {} THEN 1 ELSE Min(held)])>>

(* The lists of the controllers are loaded together.                       *)
ControllersAcls(p, seen, i) == AtOnce({Acl(u, i) : u \in seen[Ctrl(p.a)]}, seen)

(* Mutant: the entries of the former controllers are left behind. *)
NoCleanup(p, seen, i) == <<>>

Cleanup(p, seen, i) ==
    LET users == seen[Ctrl(p.a)]
    IN  RemoveControllers(p.a, SetToSeq(users), [u \in users |-> seen[Acl(u, i)]])

(* transfer: an owner without an entry gets one first, so that the program *)
(* finds something to take away.                                           *)
HasOwnerEntry(p, seen) == Holding(seen[Acl(p.by, 2)], Entry(p.a, "owner")) # {}

TransferReads(p, seen) ==
    Then(InTurn(<<Acl(p.u, 1), Acl(p.by, 2)>>, seen),
    Then(IF HasOwnerEntry(p, seen) THEN {} ELSE InTurn(<<Acl(p.by, 3)>>, seen),
    Then(InTurn(<<Ctrl(p.a)>>, seen),
         ControllersAcls(p, seen, 4))))

TransferTx(p, seen) ==
    LET dest == Destination(p.u, seen[Acl(p.u, 1)])
        owns == Entry(p.a, "owner")
        heal == Destination(p.by, seen[Acl(p.by, 3)])
        held == HasOwnerEntry(p, seen)
        from == IF held THEN Min(Holding(seen[Acl(p.by, 2)], owns)) ELSE heal.page
    IN  (IF held THEN <<>> ELSE Append(heal.prep, RecordIx(p.by, heal.page, owns)))
        \o dest.prep
        \o <<With(AntIx("transfer", p), [u |-> p.u, from |-> from, page |-> dest.page])>>
        \o Cleanup(p, seen, 4)

(* syncAcl: what transfer does for an ANT that moved without it.           *)
Former(p, seen) == seen[Known(p.a)]

SyncAclReads(p, seen) ==
    Then(InTurn(<<Owner(p.a)>>, seen),
    Then(IF seen[Owner(p.a)] # p.by THEN {}
         ELSE InTurn(<<Known(p.a), Ctrl(p.a), Acl(p.by, 1)>>, seen),
    Then(IF seen[Owner(p.a)] # p.by \/ Former(p, seen) = p.by THEN {}
         ELSE InTurn(<<Acl(Former(p, seen), 2)>>, seen),
         IF seen[Owner(p.a)] # p.by THEN {} ELSE ControllersAcls(p, seen, 3))))

SyncAclTx(p, seen) ==
    LET dest == Destination(p.by, seen[Acl(p.by, 1)])
        owns == Entry(p.a, "owner")
        stale == IF Former(p, seen) = p.by THEN {}
                 ELSE Holding(seen[Acl(Former(p, seen), 2)], owns)
    IN  <<AntIx("reconcile", p)>> \o dest.prep \o <<RecordIx(p.by, dest.page, owns)>>
        \o (IF stale = {} THEN <<>> ELSE <<RemoveIx(Former(p, seen), Min(stale), owns)>>)
        \o Cleanup(p, seen, 3)

(* spawn: mint, initialize and the entries of the owner, all or nothing.   *)
SpawnTx(p, seen) ==
    <<AntIx("create", p)>> \o BootstrapOwner(p.by, p.a, seen[Acl(p.by, 1)])

----------------------------------------------------------------------------
(* Records.  A description is only sent along when the caller gives one.   *)
RecordIxOf(op, p) == With(AntIx(op, p), [un |-> p.un])

SetRecordTx(p) ==
    <<With(RecordIxOf("set_record", p), [own |-> p.own])>>
    \o (IF p.describe THEN <<RecordIxOf("set_record_metadata", p)>> ELSE <<>>)

RemoveRecordTx(p)   == <<RecordIxOf("remove_record", p)>>
TransferRecordTx(p) == <<With(RecordIxOf("transfer_record", p), [u |-> p.u])>>

RecordDue(p, x) ==
    /\ MayWrite(x, p)
    /\ p.op = "setRecord" \/ x.recs[p.a][p.un] # Nobody

----------------------------------------------------------------------------
AntReads(p, seen) ==
    CASE p.op \in {"addController", "removeController"} -> InTurn(<<Acl(p.u, 1)>>, seen)
      [] p.op = "transfer"  -> TransferReads(p, seen)
      [] p.op = "syncAcl"   -> SyncAclReads(p, seen)
      [] p.op = "upgrade"   -> InTurn(<<Old(p.a)>>, seen)
      [] p.op = "spawn"     -> InTurn(<<Acl(p.by, 1)>>, seen)
      [] OTHER              -> {}

AntRefuses(p, seen) == p.op = "syncAcl" /\ seen[Owner(p.a)] # p.by

AntTx(p, seen) ==
    CASE p.op = "addController"    -> AddControllerTx(p, seen)
      [] p.op = "removeController" -> RemoveControllerTx(p, seen)
      [] p.op = "transfer"         -> TransferTx(p, seen)
      [] p.op = "syncAcl"          -> SyncAclTx(p, seen)
      [] p.op = "spawn"            -> SpawnTx(p, seen)
      [] p.op = "reconcile"        -> <<AntIx("reconcile", p)>>
      [] p.op = "setMetadata"      -> <<AntIx("manage", p)>>
      [] p.op = "upgrade"          -> IF seen[Old(p.a)] THEN <<AntIx("migrate_ant", p)>>
                                                        ELSE <<>>
      [] p.op = "setRecord"        -> SetRecordTx(p)
      [] p.op = "removeRecord"     -> RemoveRecordTx(p)
      [] p.op = "transferRecord"   -> TransferRecordTx(p)

AntOps == {"addController", "removeController", "transfer", "syncAcl", "spawn",
           "reconcile", "setMetadata", "upgrade", "setRecord", "removeRecord",
           "transferRecord"}

AntDue(p, x) ==
    CASE p.op \in {"reconcile", "upgrade"} -> TRUE
      [] p.op \in {"setRecord", "removeRecord", "transferRecord"} -> RecordDue(p, x)
      [] p.op = "spawn"         -> x.owner[p.a] = Nobody
      [] p.op = "addController" -> x.owner[p.a] = p.by /\ p.u \notin x.ctrl[p.a]
      [] p.op = "removeController" ->
           /\ x.owner[p.a] = p.by /\ p.u \in x.ctrl[p.a]
           /\ Holding(x.acl[p.u], Entry(p.a, "controller")) # {}
      [] p.op = "syncAcl"       -> x.known[p.a] # p.by
      [] OTHER                  -> x.owner[p.a] = p.by
=============================================================================
