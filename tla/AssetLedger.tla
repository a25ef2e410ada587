----------------------------- MODULE AssetLedger ----------------------------
(***************************************************************************)
(* The accounts of the programs that hold names and assets: MPL Core's     *)
(* owners, ario-ant's configs, controllers and access control lists,       *)
(* ario-ant-escrow's deposits, and the records and primary names of        *)
(* ario-arns and ario-core.                                                *)
(*                                                                         *)
(* The programs are not in the repository.  What an instruction requires   *)
(* and changes is taken from how src/src/solana calls it and from what its *)
(* comments say the handlers check; an instruction that fails makes its    *)
(* whole transaction change nothing.                                       *)
(***************************************************************************)
EXTENDS AclPages

CONSTANTS Users, Ants, Names,
          LeaseEnd,      \* [Names -> Nat \union {Forever}], the ends of the leases
          Forever,       \* a permabuy has none
          Recipients,    \* identities on other chains, who claim escrows
          Protocol,      \* [Recipients -> {"ethereum", "arweave"}]
          Nobody, NoName, Escrow,
          LockTime,      \* how long a vault escrow stays locked
          Expiry,        \* how long a primary name request can be approved
          MaxNow         \* bound: seconds of the cluster's clock

VARIABLE w               \* the accounts, see LedgerType

Undernames == {"@", "sub"}
AntRecords == [by : Users, own : Users \union {Nobody}]  \* who wrote it, its own owner

(* The escrow of an ANT is found by the ANT, one of tokens by the kind and *)
(* the depositor.                                                          *)
Boxes == Ants \union ({"token", "vault"} \X Users)
Kind(b) == IF b \in Ants THEN "ant" ELSE b[1]
Deposits == [dep : Users, recip : Recipients, nonce : Nat, amt : Nat, end : Nat]

ASSUME LedgerAssumption ==
    /\ Protocol \in [Recipients -> {"ethereum", "arweave"}]
    /\ IsFiniteSet(Users) /\ {Nobody, Escrow} \intersect Users = {} /\ Nobody # Escrow
    /\ NoName \notin Names /\ Nobody \notin Deposits \union Ants
    /\ Ants \intersect ({"token", "vault"} \X Users) = {}
    /\ LeaseEnd \in [Names -> Nat \union {Forever}] /\ Forever \notin Nat
    /\ LockTime \in Nat /\ Expiry \in Nat /\ MaxNow \in Nat

Acls == [exists : BOOLEAN, pages : Seq(SUBSET [asset : Ants, role : {"owner", "controller"}])]

LedgerType ==
    [owner : [Ants -> Users \union {Nobody, Escrow}],
     known : [Ants -> Users \union {Nobody, Escrow}],   \* last_known_owner
     ctrl : [Ants -> SUBSET Users], acl : [Users -> Acls],
     recs : [Ants -> [Undernames -> AntRecords \union {Nobody}]],
     meta : [Ants -> [Undernames -> Users \union {Nobody}]],  \* who described it
     box : [Boxes -> Deposits \union {Nobody}], nonce : Nat,
     ata : SUBSET (Users \union Boxes), held : [Users -> Nat],
     arns : [Names -> Ants \union {Nobody}], synced : [Ants -> Names \union {NoName}],
     prim : [Users -> Names \union {NoName}], rev : [Names -> Users \union {Nobody}],
     req : [Users -> {Nobody} \union [name : Names, at : Nat]],
     old : SUBSET (Ants \union Names),  \* accounts of an older schema
     syncs : BOOLEAN,                   \* does the program in place take our sync?
     now : 0..MaxNow]

When(accepted, outcome) == IF accepted THEN {outcome} ELSE {}

----------------------------------------------------------------------------
(* Access control lists.  Anyone may pay for a change, and the program     *)
(* checks that it is true: an entry is recorded for who has the role and   *)
(* removed from who has not.                                               *)
HasRole(x, u, e) == IF e.role = "owner" THEN x.owner[e.asset] = u
                                        ELSE u \in x.ctrl[e.asset]
PageOpen(x, u, i) == x.acl[u].exists /\ i \in DOMAIN x.acl[u].pages
Fits(x, u, i, e) == e \in x.acl[u].pages[i] \/ i \in WithRoom(x.acl[u])
In(x, u, i, e)  == [x EXCEPT !.acl[u].pages[i] = @ \union {e}]
Out(x, u, i, e) == [x EXCEPT !.acl[u].pages[i] = @ \ {e}]

OnAcl(x, ix) ==
    LET u == ix.user IN
    CASE ix.op = "register" ->
           When(~x.acl[u].exists, [x EXCEPT !.acl[u].exists = TRUE])
      [] ix.op = "add_page" ->
           When(x.acl[u].exists /\ ix.page = Len(x.acl[u].pages) + 1,
                [x EXCEPT !.acl[u].pages = Append(@, {})])
      [] ix.op = "record" ->
           IF ~PageOpen(x, u, ix.page) THEN {}
           ELSE When(HasRole(x, u, ix.entry) /\ Fits(x, u, ix.page, ix.entry),
                     In(x, u, ix.page, ix.entry))
      [] ix.op = "remove" ->
           IF ~PageOpen(x, u, ix.page) THEN {}
           ELSE When(~HasRole(x, u, ix.entry), Out(x, u, ix.page, ix.entry))

(* ANTs.  The controllers and the two owners' entries change in the pages  *)
(* the transaction names; a transfer or a reconcile forgets controllers.   *)
OnAnt(x, ix) ==
    LET a == ix.a
        owns == Entry(a, "owner")
        controls == Entry(a, "controller")
    IN
    CASE ix.op = "create" ->
           When(x.owner[a] = Nobody,
                [x EXCEPT !.owner[a] = ix.by, !.known[a] = ix.by, !.ctrl[a] = {ix.by}])
      [] ix.op = "manage" -> When(x.owner[a] = ix.by \/ ix.by \in x.ctrl[a], x)
      [] ix.op = "migrate_ant" -> When(a \in x.old, [x EXCEPT !.old = @ \ {a}])
      [] ix.op = "add_controller" ->
           IF ~PageOpen(x, ix.u, ix.page) THEN {}
           ELSE When(/\ x.owner[a] = ix.by /\ ix.u \notin x.ctrl[a]
                     /\ Fits(x, ix.u, ix.page, controls),
                     In([x EXCEPT !.ctrl[a] = @ \union {ix.u}], ix.u, ix.page, controls))
      [] ix.op = "remove_controller" ->
           IF ~PageOpen(x, ix.u, ix.page) THEN {}
           ELSE When(/\ x.owner[a] = ix.by /\ ix.u \in x.ctrl[a]
                     /\ controls \in x.acl[ix.u].pages[ix.page],
                     Out([x EXCEPT !.ctrl[a] = @ \ {ix.u}], ix.u, ix.page, controls))
      [] ix.op = "transfer" ->
           IF ~(PageOpen(x, ix.by, ix.from) /\ PageOpen(x, ix.u, ix.page)) THEN {}
           ELSE When(/\ x.owner[a] = ix.by /\ owns \in x.acl[ix.by].pages[ix.from]
                     /\ Fits(x, ix.u, ix.page, owns),
                     In(Out([x EXCEPT !.owner[a] = ix.u, !.known[a] = ix.u, !.ctrl[a] = {}],
                            ix.by, ix.from, owns),
                        ix.u, ix.page, owns))
      [] ix.op = "reconcile" ->
           {IF x.known[a] = x.owner[a] THEN x
            ELSE [x EXCEPT !.known[a] = x.owner[a], !.ctrl[a] = {}]}

----------------------------------------------------------------------------
(* Records of an ANT and what describes them, accounts of their own.       *)
MayWrite(x, ix) ==
    \/ x.owner[ix.a] = ix.by \/ ix.by \in x.ctrl[ix.a]
    \/ x.recs[ix.a][ix.un] # Nobody /\ x.recs[ix.a][ix.un].own = ix.by

OnRecords(x, ix) ==
    LET a == ix.a
        un == ix.un
        exists == x.recs[a][un] # Nobody
    IN
    CASE ix.op = "set_record" ->
           When(MayWrite(x, ix), [x EXCEPT !.recs[a][un] = [by |-> ix.by, own |-> ix.own]])
      [] ix.op = "set_record_metadata" ->
           When(exists /\ MayWrite(x, ix), [x EXCEPT !.meta[a][un] = ix.by])
      [] ix.op = "remove_record" ->
           When(exists /\ MayWrite(x, ix), [x EXCEPT !.recs[a][un] = Nobody])
      [] ix.op = "transfer_record" ->
           IF ~exists THEN {}
           ELSE When(MayWrite(x, ix), [x EXCEPT !.recs[a][un].own = ix.u])

----------------------------------------------------------------------------
(* Escrow.  A deposit is claimed with the signature of the recipient's key *)
(* over the canonical message, which the program builds itself; on Arweave *)
(* it wants an attestor's word for that signature instead, in front of the *)
(* claim.                                                                  *)
Moved(x, b, to) ==
    IF b \in Ants THEN [x EXCEPT !.owner[b] = to, !.box[b] = Nobody]
    ELSE [x EXCEPT !.held[to] = @ + x.box[b].amt, !.box[b] = Nobody]

(* The message names the ANT; of tokens and vaults it has the type and the *)
(* id, which every depositor here uses, and nothing of the depositor.      *)
AssetOf(b) == IF b \in Ants THEN b ELSE Kind(b)

(* Mutant: the message does not say which deposit it is for.               *)
CanonicalMessageNoNonce(b, amt, recip, claimant, nonce) ==
    [asset |-> AssetOf(b), amt |-> amt, recip |-> recip, claimant |-> claimant,
     nonce |-> 0]

CanonicalMessage(b, amt, recip, claimant, nonce) ==
    [asset |-> AssetOf(b), amt |-> amt, recip |-> recip, claimant |-> claimant,
     nonce |-> nonce]

OnEscrow(x, ix) ==
    LET b == ix.box
        old == x.box[b]
        mine == old # Nobody /\ old.dep = ix.by
    IN
    CASE ix.op = "deposit" ->
           When(/\ old = Nobody
                /\ IF b \in Ants THEN x.owner[b] = ix.by
                   ELSE x.held[ix.by] >= ix.amt /\ b \in x.ata,
                LET y == IF b \in Ants THEN [x EXCEPT !.owner[b] = Escrow]
                                       ELSE [x EXCEPT !.held[ix.by] = @ - ix.amt]
                IN  [y EXCEPT !.nonce = @ + 1,
                              !.box[b] = [dep |-> ix.by, recip |-> ix.r, nonce |-> x.nonce,
                                          amt |-> ix.amt,
                                          end |-> IF Kind(b) = "vault"
                                                  THEN x.now + LockTime ELSE 0]])
      [] ix.op = "update_recipient" ->
           IF ~mine THEN {}
           ELSE {[x EXCEPT !.box[b] = [old EXCEPT !.recip = ix.r, !.nonce = x.nonce],
                           !.nonce = @ + 1]}
      [] ix.op = "cancel" -> IF ~mine THEN {} ELSE {Moved(x, b, ix.by)}
      [] ix.op = "create_ata" -> {[x EXCEPT !.ata = @ \union {ix.u}]}
      [] ix.op = "claim" ->
           IF old = Nobody THEN {}
           ELSE When(/\ Protocol[old.recip] = ix.method
                     /\ ix.method = "ethereum" \/ ix.attested
                     /\ ix.sig.key = old.recip
                     /\ ix.sig.msg = CanonicalMessage(b, old.amt, old.recip, ix.u, old.nonce)
                     /\ ix.nonce = old.nonce /\ ix.dep = old.dep
                     /\ x.now >= old.end
                     /\ (b \in Ants \/ ~ix.canonical \/ ix.u \in x.ata),
                     Moved(x, b, ix.u))

----------------------------------------------------------------------------
(* Names and primary names.  The core program knows the owner of an ANT by *)
(* last_known_owner only.  A record of the older schema is not found by    *)
(* its seeds until it is migrated.                                         *)
Current(x, n) == x.arns[n] # Nobody /\ n \notin x.old
Approver(x, n) == IF x.arns[n] = Nobody THEN Nobody ELSE x.known[x.arns[n]]
Primary(x, u, n) == [x EXCEPT !.prim[u] = n, !.rev[n] = u]

OnNames(x, ix) ==
    LET n == ix.n IN
    CASE ix.op = "buy_name" ->
           When(x.arns[n] = Nobody /\ x.owner[ix.a] # Nobody,
                [x EXCEPT !.arns[n] = ix.a, !.old = @ \ {n}])
      [] ix.op = "migrate_record" -> When(n \in x.old, [x EXCEPT !.old = @ \ {n}])
      [] ix.op = "manage_name" -> When(Current(x, n), x)
      [] ix.op = "reassign_name" ->
           When(/\ Current(x, n) /\ x.arns[n] = ix.a /\ x.owner[ix.a] = ix.by /\ x.owner[ix.to] # Nobody,
                [x EXCEPT !.arns[n] = ix.to])
      [] ix.op = "release_name" ->
           When(Current(x, n) /\ x.arns[n] = ix.a /\ x.owner[ix.a] = ix.by,
                [x EXCEPT !.arns[n] = Nobody])
      [] ix.op = "sync_attributes" ->
           When(/\ x.syncs /\ Current(x, n)
                /\ x.arns[n] = ix.a /\ x.owner[ix.a] = ix.by,
                [x EXCEPT !.synced[ix.a] = n])
      [] ix.op = "remove_primary" ->
           When(x.prim[ix.by] = n /\ x.rev[n] = ix.by,
                [x EXCEPT !.prim[ix.by] = NoName, !.rev[n] = Nobody])
      [] ix.op = "request_primary" ->
           When(/\ x.prim[ix.by] = NoName /\ x.req[ix.by] = Nobody /\ Current(x, n),
                [x EXCEPT !.req[ix.by] = [name |-> n, at |-> x.now]])
      [] ix.op = "set_primary" ->
           When(/\ x.prim[ix.by] = NoName /\ x.rev[n] = Nobody
                /\ Current(x, n) /\ x.arns[n] = ix.a /\ Approver(x, n) = ix.by,
                Primary(x, ix.by, n))
      [] ix.op = "approve_primary" ->
           IF x.req[ix.u] = Nobody THEN {}
           ELSE When(/\ x.req[ix.u].name = n /\ x.now < x.req[ix.u].at + Expiry
                     /\ x.prim[ix.u] = NoName /\ x.rev[n] = Nobody
                     /\ Current(x, n) /\ x.arns[n] = ix.a /\ Approver(x, n) = ix.by,
                     Primary([x EXCEPT !.req[ix.u] = Nobody], ix.u, n))
      [] ix.op = "close_request" ->
           IF x.req[ix.u] = Nobody THEN {}
           ELSE When(x.now >= x.req[ix.u].at + Expiry, [x EXCEPT !.req[ix.u] = Nobody])

AclIxs    == {"register", "add_page", "record", "remove"}
AntIxs    == {"create", "manage", "migrate_ant", "add_controller", "remove_controller",
              "transfer", "reconcile"}
RecordIxs == {"set_record", "set_record_metadata", "remove_record", "transfer_record"}
EscrowIxs == {"deposit", "update_recipient", "cancel", "create_ata", "claim"}

OnAsset(x, ix) ==
    IF ix.op \in AclIxs THEN OnAcl(x, ix)
    ELSE IF ix.op \in AntIxs THEN OnAnt(x, ix)
    ELSE IF ix.op \in RecordIxs THEN OnRecords(x, ix)
    ELSE IF ix.op \in EscrowIxs THEN OnEscrow(x, ix)
    ELSE OnNames(x, ix)
=============================================================================
