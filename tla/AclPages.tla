------------------------------ MODULE AclPages ------------------------------
(***************************************************************************)
(* The access control list of a user, a head account and numbered pages of *)
(* (asset, role) entries, and how the SDK decides which instructions bring *)
(* an entry in or out of it (ant-registry-writeable.ts).  A list is what   *)
(* loadAclState returns; pages are numbered from 1 and hold sets, since    *)
(* where an entry stands in its page changes nothing.                      *)
(***************************************************************************)
EXTENDS Naturals, Sequences, FiniteSets, FiniteSetsExt, SequencesExt

CONSTANT PageSize        \* MAX_ACL_PAGE_ENTRIES

ASSUME PageSizeAssumption == PageSize \in Nat \ {0}

(* A map with one key; a record and what more adds to it.                  *)
Just(key, value) == [k \in {key} |-> value]
With(f, more) ==
    [k \in DOMAIN f \union DOMAIN more |-> IF k \in DOMAIN f THEN f[k] ELSE more[k]]

Entry(a, role) == [asset |-> a, role |-> role]
NoAcl == [exists |-> FALSE, pages |-> <<>>]

(* The instructions, one builder for each.                                 *)
RegisterIx(u)       == [op |-> "register", user |-> u]
AddPageIx(u, i)     == [op |-> "add_page", user |-> u, page |-> i]
RecordIx(u, i, e)   == [op |-> "record", user |-> u, page |-> i, entry |-> e]
RemoveIx(u, i, e)   == [op |-> "remove", user |-> u, page |-> i, entry |-> e]

WithRoom(acl)   == {i \in DOMAIN acl.pages : Cardinality(acl.pages[i]) < PageSize}
Holding(acl, e) == {i \in DOMAIN acl.pages : e \in acl.pages[i]}

(* Where a new entry of a user goes, and what has to come first.           *)
Destination(u, acl) ==
    LET room == WithRoom(acl)
        page == IF room = {} THEN Len(acl.pages) + 1 ELSE Min(room)
    IN  [page |-> page,
         prep |-> (IF acl.exists THEN <<>> ELSE <<RegisterIx(u)>>)
                  \o (IF room = {} THEN <<AddPageIx(u, page)>> ELSE <<>>)]

Op(action, role, u, a) == [action |-> action, user |-> u, entry |-> Entry(a, role)]

(* One operation of the second pass, on the lists as the instructions so   *)
(* far will leave them.                                                    *)
PlanRecord(st, op) ==
    LET acl  == st.acls[op.user]
        dest == Destination(op.user, acl)
        grown == IF dest.page > Len(acl.pages) THEN Append(acl.pages, {}) ELSE acl.pages
    IN  IF Holding(acl, op.entry) # {} THEN st
        ELSE [acls |-> [st.acls EXCEPT ![op.user].pages =
                          [grown EXCEPT ![dest.page] = @ \union {op.entry}]],
              ixs  |-> st.ixs \o dest.prep
                              \o <<RecordIx(op.user, dest.page, op.entry)>>]

PlanRemove(st, op) ==
    LET held == Holding(st.acls[op.user], op.entry)
    IN  IF held = {} THEN st
        ELSE [acls |-> [st.acls EXCEPT ![op.user].pages[Min(held)] = @ \ {op.entry}],
              ixs  |-> Append(st.ixs, RemoveIx(op.user, Min(held), op.entry))]

(* The first pass: a head for every user that is to get an entry.          *)
PlanHeads(ops, acls) ==
    LET New(st, op) ==
          IF op.action # "record" \/ st.acls[op.user].exists THEN st
          ELSE [acls |-> [st.acls EXCEPT ![op.user].exists = TRUE],
                ixs  |-> Append(st.ixs, RegisterIx(op.user))]
    IN  FoldLeft(New, [acls |-> acls, ixs |-> <<>>], ops)

PlanAclMaintenance(ops, acls) ==
    LET Plan(st, op) == IF op.action = "record" THEN PlanRecord(st, op)
                                                ELSE PlanRemove(st, op)
    IN  FoldLeft(Plan, PlanHeads(ops, acls), ops).ixs

BootstrapOwner(u, a, acl) ==
    PlanAclMaintenance(<<Op("record", "owner", u, a), Op("record", "controller", u, a)>>,
                       Just(u, acl))

RemoveControllers(a, users, acls) ==
    PlanAclMaintenance([i \in DOMAIN users |-> Op("remove", "controller", users[i], a)],
                       acls)
=============================================================================
