---------------------------- MODULE SdkCallsLemmas ----------------------------
(***************************************************************************)
(* Lemmas about SdkCalls: every instruction of the programs leads from     *)
(* well typed accounts to well typed accounts, every transaction a call    *)
(* builds is made of well formed instructions, and what a transaction does *)
(* is done instruction by instruction.                                     *)
(***************************************************************************)
EXTENDS SdkCalls, FoldLemmas

Ledgers    == {x \in LedgerType : \A u \in Users : Paged(x.acl[u])}
Registries == {y \in RegistryType : IsInjective(y.slots)}
Entries    == [asset : Ants, role : {"owner", "controller"}]
EntriesOf(ants) == {e \in Entries : e.asset \in ants}

-----------------------------------------------------------------------------
(* Lists.                                                                  *)

\* A list of a user may be replaced by one that keeps within its pages.
LEMMA AclReplaced ==
  ASSUME NEW x \in Ledgers, NEW u \in Users, NEW acl \in Acls, Paged(acl)
  PROVE  /\ [x EXCEPT !.acl[u] = acl] \in Ledgers
         /\ [x EXCEPT !.acl[u] = acl].acl = [x.acl EXCEPT ![u] = acl]
<1>1. x \in LedgerType /\ x.acl \in [Users -> Acls] /\ \A v \in Users : Paged(x.acl[v])
  BY DEF Ledgers, LedgerType
<1>2. [x.acl EXCEPT ![u] = acl] \in [Users -> Acls]
  BY <1>1
<1>3. [x EXCEPT !.acl[u] = acl].acl = [x.acl EXCEPT ![u] = acl]
  BY <1>1 DEF LedgerType
<1>4. [x EXCEPT !.acl[u] = acl] \in LedgerType
  BY <1>1, <1>2 DEF LedgerType
<1>5. \A v \in Users : Paged([x.acl EXCEPT ![u] = acl][v])
  BY <1>1
<1> QED BY <1>3, <1>4, <1>5 DEF Ledgers

\* An entry brought into a page with room, or held by the page, and one taken
\* out of a page.
Inside(acl, i, e)  == [acl EXCEPT !.pages[i] = @ \union {e}]
Outside(acl, i, e) == [acl EXCEPT !.pages[i] = @ \ {e}]

\* A list stays one when a page is replaced.
LEMMA PagesTyped ==
  ASSUME NEW acl \in Acls, NEW i \in DOMAIN acl.pages, NEW page \in SUBSET Entries
  PROVE  /\ [acl EXCEPT !.pages[i] = page] \in Acls
         /\ [acl EXCEPT !.pages[i] = page].exists = acl.exists
         /\ [acl EXCEPT !.pages[i] = page].pages = [acl.pages EXCEPT ![i] = page]
<1>1. acl.pages \in Seq(SUBSET Entries) /\ acl.exists \in BOOLEAN
  BY DEF Acls, Entries
<1>2. [acl.pages EXCEPT ![i] = page] \in Seq(SUBSET Entries)
  BY <1>1
<1>3. [acl EXCEPT !.pages[i] = page].pages = [acl.pages EXCEPT ![i] = page]
  BY DEF Acls
<1>4. [acl EXCEPT !.pages[i] = page].exists = acl.exists
  BY DEF Acls
<1>5. [acl EXCEPT !.pages[i] = page] \in Acls
  BY <1>1, <1>2 DEF Acls, Entries
<1> QED BY <1>3, <1>4, <1>5

\* An entry goes into a page that holds it or has room.
LEMMA InsideTyped ==
  ASSUME NEW acl \in Acls, Paged(acl), NEW i \in DOMAIN acl.pages, NEW e \in Entries,
         e \in acl.pages[i] \/ i \in WithRoom(acl)
  PROVE  Inside(acl, i, e) \in Acls /\ Paged(Inside(acl, i, e))
<1> DEFINE page == acl.pages[i] \union {e}
           new == Inside(acl, i, e)
<1>1. acl.pages \in Seq(SUBSET Entries)
  BY DEF Acls, Entries
<1>2. page \in SUBSET Entries
  BY <1>1
<1>3. /\ new \in Acls /\ new.exists = acl.exists
      /\ new.pages = [acl.pages EXCEPT ![i] = page]
  BY <1>2, PagesTyped DEF Inside
<1>4. IsFiniteSet(page) /\ Cardinality(page) <= PageSize
  <2>1. IsFiniteSet(acl.pages[i]) /\ Cardinality(acl.pages[i]) <= PageSize
    BY DEF Paged
  <2>2. CASE e \in acl.pages[i]
    <3>1. page = acl.pages[i]
      BY <2>2
    <3> QED BY <2>1, <3>1
  <2>3. CASE e \notin acl.pages[i]
    <3>1. Cardinality(acl.pages[i]) < PageSize
      BY <2>3 DEF WithRoom
    <3>2. IsFiniteSet(page) /\ Cardinality(page) = Cardinality(acl.pages[i]) + 1
      BY <2>1, <2>3, FS_AddElement
    <3>3. Cardinality(acl.pages[i]) \in Nat
      BY <2>1, FS_CardinalityType
    <3> QED BY <3>1, <3>2, <3>3, PageSizeAssumption
  <2> QED BY <2>2, <2>3
<1>5. \A j \in DOMAIN new.pages :
        IsFiniteSet(new.pages[j]) /\ Cardinality(new.pages[j]) <= PageSize
  BY <1>1, <1>3, <1>4 DEF Paged
<1>6. acl.exists
  BY <1>1 DEF Paged
<1> QED BY <1>3, <1>5, <1>6 DEF Paged

\* An entry taken out of a page leaves room.
LEMMA OutsideTyped ==
  ASSUME NEW acl \in Acls, Paged(acl), NEW i \in DOMAIN acl.pages, NEW e
  PROVE  Outside(acl, i, e) \in Acls /\ Paged(Outside(acl, i, e))
<1> DEFINE page == acl.pages[i] \ {e}
           new == Outside(acl, i, e)
<1>1. acl.pages \in Seq(SUBSET Entries)
  BY DEF Acls, Entries
<1>2. page \in SUBSET Entries
  BY <1>1
<1>3. /\ new \in Acls /\ new.exists = acl.exists
      /\ new.pages = [acl.pages EXCEPT ![i] = page]
  BY <1>2, PagesTyped DEF Outside
<1>4. IsFiniteSet(page) /\ Cardinality(page) <= PageSize
  <2>1. IsFiniteSet(acl.pages[i]) /\ Cardinality(acl.pages[i]) <= PageSize
    BY DEF Paged
  <2>2. page \subseteq acl.pages[i]
    OBVIOUS
  <2>3. IsFiniteSet(page) /\ Cardinality(page) <= Cardinality(acl.pages[i])
    BY <2>1, <2>2, FS_Subset
  <2>4. Cardinality(page) \in Nat /\ Cardinality(acl.pages[i]) \in Nat
    BY <2>1, <2>3, FS_CardinalityType
  <2> QED BY <2>1, <2>3, <2>4, PageSizeAssumption
<1>5. \A j \in DOMAIN new.pages :
        IsFiniteSet(new.pages[j]) /\ Cardinality(new.pages[j]) <= PageSize
  BY <1>1, <1>3, <1>4 DEF Paged
<1>6. acl.exists
  BY <1>1 DEF Paged
<1> QED BY <1>3, <1>5, <1>6 DEF Paged

\* What In and Out make of the accounts.
LEMMA InFacts ==
  ASSUME NEW x \in Ledgers, NEW u \in Users, NEW i, PageOpen(x, u, i),
         NEW e \in Entries, Fits(x, u, i, e)
  PROVE  /\ In(x, u, i, e) \in Ledgers
         /\ In(x, u, i, e) = [x EXCEPT !.acl[u] = Inside(x.acl[u], i, e)]
         /\ In(x, u, i, e).acl = [x.acl EXCEPT ![u] = Inside(x.acl[u], i, e)]
<1>1. x.acl \in [Users -> Acls] /\ Paged(x.acl[u])
  BY DEF Ledgers, LedgerType
<1>2. In(x, u, i, e) = [x EXCEPT !.acl[u] = Inside(x.acl[u], i, e)]
  BY <1>1 DEF In, Inside, Ledgers, LedgerType
<1>3. Inside(x.acl[u], i, e) \in Acls /\ Paged(Inside(x.acl[u], i, e))
  BY <1>1, InsideTyped DEF PageOpen, Fits
<1> QED BY <1>2, <1>3, AclReplaced

\* The list of a user after an entry was taken out of it.
LEMMA OutFacts ==
  ASSUME NEW x \in Ledgers, NEW u \in Users, NEW i, PageOpen(x, u, i), NEW e
  PROVE  /\ Out(x, u, i, e) \in Ledgers
         /\ Out(x, u, i, e) = [x EXCEPT !.acl[u] = Outside(x.acl[u], i, e)]
         /\ Out(x, u, i, e).acl = [x.acl EXCEPT ![u] = Outside(x.acl[u], i, e)]
<1>1. x.acl \in [Users -> Acls] /\ Paged(x.acl[u])
  BY DEF Ledgers, LedgerType
<1>2. Out(x, u, i, e) = [x EXCEPT !.acl[u] = Outside(x.acl[u], i, e)]
  BY <1>1 DEF Out, Outside, Ledgers, LedgerType
<1>3. Outside(x.acl[u], i, e) \in Acls /\ Paged(Outside(x.acl[u], i, e))
  BY <1>1, OutsideTyped DEF PageOpen
<1> QED BY <1>2, <1>3, AclReplaced

\* A head, and a page after the last.
LEMMA HeadFacts ==
  ASSUME NEW acl \in Acls, Paged(acl)
  PROVE  /\ [acl EXCEPT !.exists = TRUE] \in Acls /\ Paged([acl EXCEPT !.exists = TRUE])
         /\ [acl EXCEPT !.exists = TRUE].pages = acl.pages
  BY DEF Acls, Paged

\* The list of a user after a page was added to it.
LEMMA AddPageFacts ==
  ASSUME NEW acl \in Acls, Paged(acl), acl.exists
  PROVE  /\ [acl EXCEPT !.pages = Append(@, {})] \in Acls
         /\ Paged([acl EXCEPT !.pages = Append(@, {})])
         /\ [acl EXCEPT !.pages = Append(@, {})].pages = Append(acl.pages, {})
         /\ [acl EXCEPT !.pages = Append(@, {})].exists
<1> DEFINE new == [acl EXCEPT !.pages = Append(@, {})]
<1>1. acl.pages \in Seq(SUBSET Entries) /\ acl.exists \in BOOLEAN
  BY DEF Acls, Entries
<1>2. new.pages = Append(acl.pages, {}) /\ new.exists = acl.exists
  BY DEF Acls
<1>3. Append(acl.pages, {}) \in Seq(SUBSET Entries)
  BY <1>1
<1>4. new \in Acls
  BY <1>1, <1>3 DEF Acls, Entries
<1>5. IsFiniteSet({}) /\ Cardinality({}) <= PageSize
  BY FS_EmptySet, PageSizeAssumption
<1>6. \A j \in DOMAIN new.pages :
        IsFiniteSet(new.pages[j]) /\ Cardinality(new.pages[j]) <= PageSize
  BY <1>1, <1>2, <1>5 DEF Paged
<1> QED BY <1>2, <1>4, <1>6 DEF Paged

-----------------------------------------------------------------------------
(* What the instructions leave of the accounts' types.                     *)

\* What an instruction has to carry for the accounts to keep their types; an
\* account it names that does not exist stays as it is.  Who owns an ANT changes
\* only for one of `ants`, and so do the entries about it, but for what the
\* program does with a controller.
AssetOK(ix, ants) ==
    /\ ix.op = "record" => ix.entry \in EntriesOf(ants)
    /\ ix.op = "remove" => ix.entry.asset \in ants
    /\ ix.op \in {"create", "transfer", "reconcile"} => ix.a \in ants
    /\ ix.op \in {"deposit", "cancel", "claim"} /\ ix.box \in Ants => ix.box \in ants
    /\ ix.op \in {"create", "add_controller", "transfer", "deposit", "cancel", "set_record",
                  "set_record_metadata", "set_primary"} => ix.by \in Users
    /\ ix.op \in {"add_controller", "transfer", "transfer_record", "claim", "approve_primary"}
         => ix.u \in Users
    /\ ix.op \in {"add_controller", "transfer", "buy_name"} => ix.a \in Ants
    /\ ix.op = "set_record" => ix.own \in Users \union {Nobody}
    /\ ix.op = "deposit" => ix.amt \in Nat
    /\ ix.op \in {"deposit", "update_recipient"} => ix.r \in Recipients
    /\ ix.op \in {"cancel", "claim"} => ix.box \in Boxes
    /\ ix.op = "create_ata" => ix.u \in Users \union Boxes
    /\ ix.op = "reassign_name" => ix.to \in Ants
    /\ ix.op \in {"sync_attributes", "request_primary", "set_primary", "approve_primary"}
         => ix.n \in Names

\* The list of nobody is no list.
LEMMA NoList ==
  ASSUME NEW x \in LedgerType, NEW u, u \notin Users, NEW acl
  PROVE  [x EXCEPT !.acl[u] = acl] = x
<1>1. [x.acl EXCEPT ![u] = acl] = x.acl
  BY DEF LedgerType
<1>2. [x EXCEPT !.acl = x.acl] = x
  BY DEF LedgerType
<1> QED BY <1>1, <1>2

\* An instruction on the access control lists keeps their types.
LEMMA OnAclTyped ==
  ASSUME NEW ants, NEW x \in Ledgers, NEW ix, ix.op \in AclIxs, AssetOK(ix, ants),
         NEW y \in OnAcl(x, ix)
  PROVE  y \in Ledgers
<1> PICK u : u = ix.user
  OBVIOUS
<1>0. x \in LedgerType /\ x.acl \in [Users -> Acls] /\ \A v \in Users : Paged(x.acl[v])
  BY DEF Ledgers, LedgerType
<1>1. CASE ix.op = "register"
  <2>1. y = [x EXCEPT !.acl[u].exists = TRUE]
    BY <1>1 DEF OnAcl, When
  <2>2. y = [x EXCEPT !.acl[u] = [x.acl[u] EXCEPT !.exists = TRUE]]
    BY <2>1
  <2>3. CASE u \in Users
    BY <1>0, <2>2, <2>3, HeadFacts, AclReplaced
  <2>4. CASE u \notin Users
    BY <1>0, <2>2, <2>4, NoList
  <2> QED BY <2>3, <2>4
<1>2. CASE ix.op = "add_page"
  <2>1. y = [x EXCEPT !.acl[u].pages = Append(@, {})] /\ x.acl[u].exists
    BY <1>2 DEF OnAcl, When
  <2> PICK acl : acl = [x.acl[u] EXCEPT !.pages = Append(@, {})]
    OBVIOUS
  <2>2. y = [x EXCEPT !.acl[u] = acl]
    BY <2>1
  <2>3. CASE u \in Users
    <3>1. acl \in Acls /\ Paged(acl)
      BY <1>0, <2>1, <2>3, AddPageFacts
    <3> QED BY <2>2, <2>3, <3>1, AclReplaced
  <2>4. CASE u \notin Users
    BY <1>0, <2>2, <2>4, NoList
  <2> QED BY <2>3, <2>4
<1>3. CASE ix.op = "record"
  <2>1. /\ y = In(x, u, ix.page, ix.entry) /\ PageOpen(x, u, ix.page)
        /\ Fits(x, u, ix.page, ix.entry) /\ ix.entry \in Entries
    BY <1>3 DEF OnAcl, When, AssetOK, EntriesOf
  <2>2. CASE u \in Users
    BY <2>1, <2>2, InFacts
  <2>3. CASE u \notin Users
    BY <1>0, <2>1, <2>3, NoList DEF In
  <2> QED BY <2>2, <2>3
<1>4. CASE ix.op = "remove"
  <2>1. y = Out(x, u, ix.page, ix.entry) /\ PageOpen(x, u, ix.page)
    BY <1>4 DEF OnAcl, When
  <2>2. CASE u \in Users
    BY <2>1, <2>2, OutFacts
  <2>3. CASE u \notin Users
    BY <1>0, <2>1, <2>3, NoList DEF Out
  <2> QED BY <2>2, <2>3
<1> QED BY <1>1, <1>2, <1>3, <1>4 DEF AclIxs

\* An entry taken out of some page leaves a page with room, or one to which
\* the entry comes back.
LEMMA FitsStill ==
  ASSUME NEW x \in Ledgers, NEW v, NEW i, PageOpen(x, v, i), NEW e,
         NEW u \in Users, NEW j, PageOpen(x, u, j), Fits(x, u, j, e)
  PROVE  /\ Out(x, v, i, e) \in Ledgers /\ PageOpen(Out(x, v, i, e), u, j)
         /\ Fits(Out(x, v, i, e), u, j, e)
<1> PICK y : y = Out(x, v, i, e)
  OBVIOUS
<1>0. x \in LedgerType /\ x.acl \in [Users -> Acls] /\ \A q \in Users : Paged(x.acl[q])
  BY DEF Ledgers, LedgerType
<1>1. CASE v \notin Users
  BY <1>0, <1>1, NoList DEF Out
<1>2. CASE v \in Users
  <2> PICK acl : acl = Outside(x.acl[v], i, e)
    OBVIOUS
  <2>1. y \in Ledgers /\ y.acl = [x.acl EXCEPT ![v] = acl]
    BY <1>2, OutFacts
  <2>2. CASE u # v
    BY <1>0, <1>2, <2>1, <2>2 DEF PageOpen, Fits
  <2>3. CASE u = v
    <3>1. i \in DOMAIN x.acl[v].pages /\ x.acl[v] \in Acls
      BY <1>0, <1>2 DEF PageOpen
    <3>2. x.acl[v].pages[i] \ {e} \in SUBSET Entries
      BY <3>1 DEF Acls, Entries
    <3>3. /\ acl.exists = x.acl[v].exists
          /\ acl.pages = [x.acl[v].pages EXCEPT ![i] = x.acl[v].pages[i] \ {e}]
      BY <3>1, <3>2, PagesTyped DEF Outside
    <3>4. y.acl[u] = acl /\ PageOpen(y, u, j)
      BY <1>0, <1>2, <2>1, <2>3, <3>3 DEF PageOpen
    <3>5. e \in acl.pages[j] \/ j \in WithRoom(acl)
      <4>1. CASE j # i
        BY <2>3, <3>3, <4>1 DEF Fits, WithRoom, PageOpen
      <4>2. CASE j = i
        <5> PICK page : page = x.acl[v].pages[i]
          OBVIOUS
        <5>1. IsFiniteSet(page) /\ Cardinality(page) <= PageSize /\ Cardinality(page) \in Nat
          BY <1>0, <1>2, <3>1, FS_CardinalityType DEF Paged
        <5>2. Cardinality(page \ {e}) < PageSize
          <6>1. CASE e \in page
            <7>1. Cardinality(page \ {e}) = Cardinality(page) - 1
              BY <5>1, <6>1, FS_RemoveElement
            <7> QED BY <5>1, <7>1, PageSizeAssumption
          <6>2. CASE e \notin page
            <7>1. page \ {e} = page /\ Cardinality(page) < PageSize
              BY <2>3, <4>2, <6>2 DEF Fits, WithRoom
            <7> QED BY <7>1
          <6> QED BY <6>1, <6>2
        <5>3. j \in DOMAIN acl.pages /\ acl.pages[j] = page \ {e}
          BY <3>1, <3>3, <4>2
        <5> QED BY <5>2, <5>3 DEF WithRoom
      <4> QED BY <4>1, <4>2
    <3> QED BY <2>1, <3>4, <3>5 DEF Fits
  <2> QED BY <2>1, <2>2, <2>3
<1> QED BY <1>1, <1>2

\* What is not in the lists may change, as long as it keeps its type.
LEMMA Beside ==
  ASSUME NEW x \in Ledgers, NEW y \in LedgerType, y.acl = x.acl
  PROVE  y \in Ledgers
  BY DEF Ledgers

\* An instruction on an ANT keeps the types.
LEMMA OnAntTyped ==
  ASSUME NEW ants, NEW x \in Ledgers, NEW ix, ix.op \in AntIxs,
         AssetOK(ix, ants), NEW y \in OnAnt(x, ix)
  PROVE  y \in Ledgers
<1> PICK a : a = ix.a
  OBVIOUS
<1> PICK u : u = ix.u
  OBVIOUS
<1>0. x \in LedgerType
  BY DEF Ledgers
<1>1. CASE ix.op = "create"
  <2>1. y = [x EXCEPT !.owner[a] = ix.by, !.known[a] = ix.by, !.ctrl[a] = {ix.by}]
    BY <1>1 DEF OnAnt, When
  <2>2. ix.by \in Users
    BY <1>1 DEF AssetOK
  <2>3. y \in LedgerType /\ y.acl = x.acl
    BY <1>0, <2>1, <2>2 DEF LedgerType
  <2> QED BY <2>3, Beside
<1>2. CASE ix.op = "manage"
  BY <1>2 DEF OnAnt, When
<1>3. CASE ix.op = "migrate_ant"
  <2>1. y = [x EXCEPT !.old = @ \ {a}]
    BY <1>3 DEF OnAnt, When
  <2>2. y \in LedgerType /\ y.acl = x.acl
    BY <1>0, <2>1 DEF LedgerType
  <2> QED BY <2>2, Beside
<1>4. CASE ix.op = "add_controller"
  <2> PICK z : z = [x EXCEPT !.ctrl[a] = @ \union {u}]
    OBVIOUS
  <2> PICK e : e = Entry(a, "controller")
    OBVIOUS
  <2>1. y = In(z, u, ix.page, e) /\ PageOpen(x, u, ix.page) /\ Fits(x, u, ix.page, e)
    BY <1>4 DEF OnAnt, When
  <2>2. a \in Ants /\ u \in Users /\ e \in Entries
    BY <1>4 DEF AssetOK, Entry, Entries
  <2>3. z \in LedgerType /\ z.acl = x.acl
    BY <1>0, <2>2 DEF LedgerType
  <2>4. z \in Ledgers /\ PageOpen(z, u, ix.page) /\ Fits(z, u, ix.page, e)
    BY <2>1, <2>3, Beside DEF PageOpen, Fits
  <2> QED BY <2>1, <2>2, <2>4, InFacts
<1>5. CASE ix.op = "remove_controller"
  <2>x. PICK z : z = [x EXCEPT !.ctrl[a] = @ \ {u}]
    OBVIOUS
  <2>y. PICK e : e = Entry(a, "controller")
    OBVIOUS
  <2>1. y = Out(z, u, ix.page, e) /\ PageOpen(x, u, ix.page)
    BY <1>5, <2>x, <2>y DEF OnAnt, When
  <2>2. z \in LedgerType /\ z.acl = x.acl
    BY <1>0, <2>x DEF LedgerType
  <2>3. z \in Ledgers /\ PageOpen(z, u, ix.page)
    BY <2>1, <2>2, Beside DEF PageOpen
  <2>4. CASE u \in Users
    BY <2>1, <2>3, <2>4, OutFacts
  <2>5. CASE u \notin Users
    <3>1. PICK acl : y = [z EXCEPT !.acl[u] = acl]
      BY <2>1 DEF Out
    <3>2. y = z
      BY <2>2, <2>5, <3>1, NoList
    <3> QED BY <2>3, <3>2
  <2> QED BY <2>4, <2>5
<1>6. CASE ix.op = "transfer"
  <2>x. PICK z : z = [x EXCEPT !.owner[a] = u, !.known[a] = u, !.ctrl[a] = {}]
    OBVIOUS
  <2>y. PICK e : e = Entry(a, "owner")
    OBVIOUS
  <2>0. PICK v : v = Out(z, ix.by, ix.from, e)
    OBVIOUS
  <2>1. /\ y = In(v, u, ix.page, e) /\ PageOpen(x, ix.by, ix.from)
        /\ PageOpen(x, u, ix.page) /\ Fits(x, u, ix.page, e)
    BY <1>6, <2>x, <2>y, <2>0 DEF OnAnt, When
  <2>2. a \in Ants /\ u \in Users /\ e \in Entries
    BY <1>6, <2>y DEF AssetOK, Entry, Entries
  <2>3. z \in LedgerType /\ z.acl = x.acl
    BY <1>0, <2>2, <2>x DEF LedgerType
  <2>4. z \in Ledgers /\ PageOpen(z, ix.by, ix.from) /\ PageOpen(z, u, ix.page)
        /\ Fits(z, u, ix.page, e)
    BY <2>1, <2>3, Beside DEF PageOpen, Fits
  <2>5. v \in Ledgers /\ PageOpen(v, u, ix.page) /\ Fits(v, u, ix.page, e)
    BY <2>0, <2>2, <2>4, FitsStill
  <2> QED BY <2>1, <2>2, <2>5, InFacts
<1>7. CASE ix.op = "reconcile"
  <2>1. \/ y = x
        \/ y = [x EXCEPT !.known[a] = x.owner[a], !.ctrl[a] = {}]
    BY <1>7 DEF OnAnt
  <2>2. CASE y = [x EXCEPT !.known[a] = x.owner[a], !.ctrl[a] = {}]
    <3>1. [x.known EXCEPT ![a] = x.owner[a]] \in [Ants -> Users \union {Nobody, Escrow}]
      BY <1>0 DEF LedgerType
    <3>2. [x.ctrl EXCEPT ![a] = {}] \in [Ants -> SUBSET Users]
      BY <1>0 DEF LedgerType
    <3>3. y \in LedgerType /\ y.acl = x.acl
      BY <1>0, <2>2, <3>1, <3>2 DEF LedgerType
    <3> QED BY <3>3, Beside
  <2> QED BY <2>1, <2>2
<1> QED BY <1>1, <1>2, <1>3, <1>4, <1>5, <1>6, <1>7 DEF AntIxs

\* A function with one value replaced.
LEMMA Put ==
  ASSUME NEW S, NEW T, NEW f \in [S -> T], NEW k, NEW v, k \in S => v \in T
  PROVE  [f EXCEPT ![k] = v] \in [S -> T]
  OBVIOUS

\* An instruction on a record keeps the types.
LEMMA OnRecordsTyped ==
  ASSUME NEW ants, NEW x \in Ledgers, NEW ix, ix.op \in RecordIxs,
         AssetOK(ix, ants), NEW y \in OnRecords(x, ix)
  PROVE  y \in Ledgers
<1> PICK a : a = ix.a
  OBVIOUS
<1> PICK un : un = ix.un
  OBVIOUS
<1> DEFINE Rows == [Undernames -> AntRecords \union {Nobody}]
<1>0. x \in LedgerType /\ x.recs \in [Ants -> Rows]
  BY DEF Ledgers, LedgerType
<1>1. ASSUME NEW rec, rec \in AntRecords \union {Nobody} \/ a \notin Ants \/ un \notin Undernames,
             y = [x EXCEPT !.recs[a][un] = rec]
      PROVE  y \in Ledgers
  <2>1. [x.recs EXCEPT ![a][un] = rec] \in [Ants -> Rows]
    BY <1>0, <1>1
  <2>2. y \in LedgerType /\ y.acl = x.acl
    BY <1>0, <1>1, <2>1 DEF LedgerType
  <2> QED BY <2>2, Beside
<1>2. CASE ix.op = "set_record"
  <2>1. y = [x EXCEPT !.recs[a][un] = [by |-> ix.by, own |-> ix.own]]
    BY <1>2 DEF OnRecords, When
  <2>2. [by |-> ix.by, own |-> ix.own] \in AntRecords
    BY <1>2 DEF AssetOK, AntRecords
  <2> QED BY <1>1, <2>1, <2>2
<1>3. CASE ix.op = "set_record_metadata"
  <2>1. y = [x EXCEPT !.meta[a][un] = ix.by]
    BY <1>3 DEF OnRecords, When
  <2>2. ix.by \in Users
    BY <1>3 DEF AssetOK
  <2>3. y \in LedgerType /\ y.acl = x.acl
    BY <1>0, <2>1, <2>2 DEF LedgerType
  <2> QED BY <2>3, Beside
<1>4. CASE ix.op = "remove_record"
  <2>1. y = [x EXCEPT !.recs[a][un] = Nobody]
    BY <1>4 DEF OnRecords, When
  <2> QED BY <1>1, <2>1
<1>5. CASE ix.op = "transfer_record"
  <2>1. x.recs[a][un] # Nobody /\ ix.u \in Users
    BY <1>5 DEF OnRecords, AssetOK
  <2>2. y = [x EXCEPT !.recs[a][un].own = ix.u]
    BY <1>5 DEF OnRecords, When
  <2>3. PICK rec : rec = [x.recs[a][un] EXCEPT !.own = ix.u]
    OBVIOUS
  <2>4. y = [x EXCEPT !.recs[a][un] = rec]
    BY <2>2, <2>3
  <2>5. CASE a \in Ants /\ un \in Undernames
    <3>1. x.recs[a][un] \in AntRecords
      BY <1>0, <2>1, <2>5
    <3>2. rec \in AntRecords
      BY <2>1, <2>3, <3>1 DEF AntRecords
    <3> QED BY <1>1, <2>4, <3>2
  <2> QED BY <1>1, <2>4, <2>5
<1> QED BY <1>2, <1>3, <1>4, <1>5 DEF RecordIxs

\* An instruction on an escrow keeps the types.
LEMMA OnEscrowTyped ==
  ASSUME NEW ants, NEW x \in Ledgers, NEW ix, ix.op \in EscrowIxs,
         AssetOK(ix, ants), NEW y \in OnEscrow(x, ix)
  PROVE  y \in Ledgers
<1> PICK b : b = ix.box
  OBVIOUS
<1>0. /\ x \in LedgerType /\ x.box \in [Boxes -> Deposits \union {Nobody}] /\ x.nonce \in Nat
      /\ x.held \in [Users -> Nat] /\ x.now \in Nat
  BY DEF Ledgers, LedgerType
<1>1. ASSUME NEW to \in Users, b \in Boxes, x.box[b] # Nobody, y = Moved(x, b, to)
      PROVE  y \in Ledgers
  <2>1. x.box[b] \in Deposits /\ x.box[b].amt \in Nat
    BY <1>0, <1>1 DEF Deposits
  <2>2. CASE b \in Ants
    <3>1. y = [x EXCEPT !.owner[b] = to, !.box[b] = Nobody]
      BY <1>1, <2>2 DEF Moved
    <3>2. y \in LedgerType /\ y.acl = x.acl
      BY <1>0, <3>1 DEF LedgerType
    <3> QED BY <3>2, Beside
  <2>3. CASE b \notin Ants
    <3>1. y = [x EXCEPT !.held[to] = x.held[to] + x.box[b].amt, !.box[b] = Nobody]
      BY <1>1, <2>3 DEF Moved
    <3>2. x.held[to] + x.box[b].amt \in Nat
      BY <1>0, <2>1
    <3>3. y \in LedgerType /\ y.acl = x.acl
      BY <1>0, <3>1, <3>2 DEF LedgerType
    <3> QED BY <3>3, Beside
  <2> QED BY <2>2, <2>3
<1>2. CASE ix.op = "deposit"
  <2>0. ix.by \in Users /\ ix.r \in Recipients /\ ix.amt \in Nat
    BY <1>2 DEF AssetOK
  <2>e. PICK end : end = IF Kind(b) = "vault" THEN x.now + LockTime ELSE 0
    OBVIOUS
  <2>d. PICK d : d = [dep |-> ix.by, recip |-> ix.r, nonce |-> x.nonce, amt |-> ix.amt,
                      end |-> end]
    OBVIOUS
  <2>3. d \in Deposits
    BY <1>0, <2>0, <2>e, <2>d, LedgerAssumption DEF Deposits
  <2>4. \/ y = [x EXCEPT !.owner[b] = Escrow, !.nonce = x.nonce + 1, !.box[b] = d]
        \/ /\ x.held[ix.by] >= ix.amt
           /\ y = [x EXCEPT !.held[ix.by] = x.held[ix.by] - ix.amt, !.nonce = x.nonce + 1,
                            !.box[b] = d]
    <3>1. CASE b \in Ants
      <4>1. y = [[x EXCEPT !.owner[b] = Escrow] EXCEPT !.nonce = @ + 1, !.box[b] = d]
        BY <1>2, <2>e, <2>d, <3>1 DEF OnEscrow, When
      <4>2. y = [x EXCEPT !.owner[b] = Escrow, !.nonce = x.nonce + 1, !.box[b] = d]
        BY <1>0, <4>1 DEF LedgerType
      <4> QED BY <4>2
    <3>2. CASE b \notin Ants
      <4>1. /\ y = [[x EXCEPT !.held[ix.by] = @ - ix.amt] EXCEPT !.nonce = @ + 1, !.box[b] = d]
            /\ x.held[ix.by] >= ix.amt
        BY <1>2, <2>e, <2>d, <3>2 DEF OnEscrow, When
      <4>2. y = [x EXCEPT !.held[ix.by] = x.held[ix.by] - ix.amt, !.nonce = x.nonce + 1,
                          !.box[b] = d]
        BY <1>0, <4>1 DEF LedgerType
      <4> QED BY <4>1, <4>2
    <3> QED BY <3>1, <3>2
  <2>b. PICK boxes : boxes = [x.box EXCEPT ![b] = d]
    OBVIOUS
  <2>c. boxes \in [Boxes -> Deposits \union {Nobody}] /\ x.nonce + 1 \in Nat
    <3> DEFINE T == Deposits \union {Nobody}
    <3>1. x.box \in [Boxes -> T] /\ d \in T
      BY <1>0, <2>3
    <3>2. boxes \in [Boxes -> T]
      <4> HIDE DEF T
      <4> QED BY <2>b, <3>1, Put
    <3> QED BY <1>0, <3>2
  <2>5. CASE y = [x EXCEPT !.owner[b] = Escrow, !.nonce = x.nonce + 1, !.box[b] = d]
    <3> PICK owners : owners = [x.owner EXCEPT ![b] = Escrow]
      OBVIOUS
    <3>1. owners \in [Ants -> Users \union {Nobody, Escrow}]
      BY <1>0 DEF LedgerType
    <3>2. y = [x EXCEPT !.owner = owners, !.nonce = x.nonce + 1, !.box = boxes]
      BY <2>5, <2>b
    <3>3. y \in LedgerType /\ y.acl = x.acl
      BY <1>0, <2>c, <3>1, <3>2 DEF LedgerType
    <3> QED BY <3>3, Beside
  <2>6. CASE /\ x.held[ix.by] >= ix.amt
             /\ y = [x EXCEPT !.held[ix.by] = x.held[ix.by] - ix.amt, !.nonce = x.nonce + 1,
                              !.box[b] = d]
    <3>1. x.held[ix.by] - ix.amt \in Nat
      BY <1>0, <2>0, <2>6
    <3>2. PICK held : held = [x.held EXCEPT ![ix.by] = x.held[ix.by] - ix.amt]
      OBVIOUS
    <3>3. held \in [Users -> Nat]
      BY <1>0, <3>1, <3>2
    <3>4. y = [x EXCEPT !.held = held, !.nonce = x.nonce + 1, !.box = boxes]
      BY <2>6, <2>b, <3>2
    <3>5. y \in LedgerType /\ y.acl = x.acl
      BY <1>0, <2>c, <3>3, <3>4 DEF LedgerType
    <3> QED BY <3>5, Beside
  <2> QED BY <2>4, <2>5, <2>6
<1>3. CASE ix.op = "update_recipient"
  <2>1. x.box[b] # Nobody /\ ix.r \in Recipients
    BY <1>3 DEF OnEscrow, AssetOK
  <2>2. PICK d : d = [x.box[b] EXCEPT !.recip = ix.r, !.nonce = x.nonce]
    OBVIOUS
  <2>3. y = [x EXCEPT !.box[b] = d, !.nonce = x.nonce + 1]
    BY <1>0, <1>3, <2>2 DEF OnEscrow, LedgerType
  <2>4. ASSUME b \in Boxes PROVE d \in Deposits
    <3>1. x.box[b] \in Deposits
      BY <1>0, <2>1, <2>4
    <3> QED BY <1>0, <2>1, <2>2, <3>1 DEF Deposits
  <2>5. PICK boxes : boxes = [x.box EXCEPT ![b] = d]
    OBVIOUS
  <2>6. boxes \in [Boxes -> Deposits \union {Nobody}] /\ x.nonce + 1 \in Nat
    BY <1>0, <2>4, <2>5, Put
  <2>7. y = [x EXCEPT !.box = boxes, !.nonce = x.nonce + 1]
    BY <2>3, <2>5
  <2>8. y \in LedgerType /\ y.acl = x.acl
    BY <1>0, <2>6, <2>7 DEF LedgerType
  <2> QED BY <2>8, Beside
<1>4. CASE ix.op = "cancel"
  <2>1. x.box[b] # Nobody /\ y = Moved(x, b, ix.by) /\ ix.by \in Users /\ b \in Boxes
    BY <1>4 DEF OnEscrow, AssetOK
  <2> QED BY <1>1, <2>1
<1>5. CASE ix.op = "create_ata"
  <2>1. y = [x EXCEPT !.ata = @ \union {ix.u}] /\ ix.u \in Users \union Boxes
    BY <1>5 DEF OnEscrow, AssetOK
  <2>2. y \in LedgerType /\ y.acl = x.acl
    BY <1>0, <2>1 DEF LedgerType
  <2> QED BY <2>2, Beside
<1>6. CASE ix.op = "claim"
  <2>1. x.box[b] # Nobody /\ y = Moved(x, b, ix.u) /\ ix.u \in Users /\ b \in Boxes
    BY <1>6 DEF OnEscrow, AssetOK, When
  <2> QED BY <1>1, <2>1
<1> QED BY <1>2, <1>3, <1>4, <1>5, <1>6 DEF EscrowIxs

NameIxs == {"buy_name", "migrate_record", "manage_name", "reassign_name", "release_name",
            "sync_attributes", "remove_primary", "request_primary", "set_primary",
            "approve_primary", "close_request"}

\* What an instruction on names may change of the accounts.
LEMMA NamesTyped ==
  ASSUME NEW x \in Ledgers, NEW arns \in [Names -> Ants \union {Nobody}],
         NEW prim \in [Users -> Names \union {NoName}],
         NEW rev \in [Names -> Users \union {Nobody}],
         NEW req \in [Users -> {Nobody} \union [name : Names, at : Nat]],
         NEW old \in SUBSET (Ants \union Names), NEW y,
         \/ y = [x EXCEPT !.arns = arns, !.old = old]
         \/ y = [x EXCEPT !.arns = arns]
         \/ y = [x EXCEPT !.old = old]
         \/ y = [x EXCEPT !.prim = prim, !.rev = rev]
         \/ y = [x EXCEPT !.req = req]
         \/ y = [x EXCEPT !.req = req, !.prim = prim, !.rev = rev]
  PROVE  y \in Ledgers
<1>0. x \in LedgerType
  BY DEF Ledgers
<1>1. CASE y = [x EXCEPT !.arns = arns, !.old = old]
  <2>1. y \in LedgerType /\ y.acl = x.acl
    BY <1>0, <1>1 DEF LedgerType
  <2> QED BY <2>1, Beside
<1>2. CASE y = [x EXCEPT !.arns = arns]
  <2>1. y \in LedgerType /\ y.acl = x.acl
    BY <1>0, <1>2 DEF LedgerType
  <2> QED BY <2>1, Beside
<1>3. CASE y = [x EXCEPT !.old = old]
  <2>1. y \in LedgerType /\ y.acl = x.acl
    BY <1>0, <1>3 DEF LedgerType
  <2> QED BY <2>1, Beside
<1>4. CASE y = [x EXCEPT !.prim = prim, !.rev = rev]
  <2>1. y \in LedgerType /\ y.acl = x.acl
    BY <1>0, <1>4 DEF LedgerType
  <2> QED BY <2>1, Beside
<1>5. CASE y = [x EXCEPT !.req = req]
  <2>1. y \in LedgerType /\ y.acl = x.acl
    BY <1>0, <1>5 DEF LedgerType
  <2> QED BY <2>1, Beside
<1>6. CASE y = [x EXCEPT !.req = req, !.prim = prim, !.rev = rev]
  <2>1. y \in LedgerType /\ y.acl = x.acl
    BY <1>0, <1>6 DEF LedgerType
  <2> QED BY <2>1, Beside
<1> QED BY <1>1, <1>2, <1>3, <1>4, <1>5, <1>6

\* An instruction on names and primary names keeps the types.
LEMMA OnNamesTyped ==
  ASSUME NEW ants, NEW x \in Ledgers, NEW ix, ix.op \in NameIxs,
         AssetOK(ix, ants), NEW y \in OnNames(x, ix)
  PROVE  y \in Ledgers
<1>n. PICK n : n = ix.n
  OBVIOUS
<1>0. /\ x \in LedgerType /\ x.arns \in [Names -> Ants \union {Nobody}]
      /\ x.prim \in [Users -> Names \union {NoName}] /\ x.rev \in [Names -> Users \union {Nobody}]
      /\ x.req \in [Users -> {Nobody} \union [name : Names, at : Nat]]
      /\ x.old \in SUBSET (Ants \union Names) /\ x.now \in Nat
  BY DEF Ledgers, LedgerType
<1>1. \A a \in Ants \union {Nobody} :
        [x.arns EXCEPT ![n] = a] \in [Names -> Ants \union {Nobody}]
  BY <1>0
<1>2. \A u : (n \in Names \/ u \notin Users)
        => [x.prim EXCEPT ![u] = n] \in [Users -> Names \union {NoName}]
  BY <1>0
<1>3. \A u \in Users \union {Nobody} :
        [x.rev EXCEPT ![n] = u] \in [Names -> Users \union {Nobody}]
  BY <1>0
<1>4. \A u : [x.req EXCEPT ![u] = Nobody] \in [Users -> {Nobody} \union [name : Names, at : Nat]]
  BY <1>0
<1>5. x.old \ {n} \in SUBSET (Ants \union Names)
  BY <1>0
<1>6. CASE ix.op = "buy_name"
  <2>1. y = [x EXCEPT !.arns[n] = ix.a, !.old = @ \ {n}] /\ ix.a \in Ants
    BY <1>6, <1>n DEF OnNames, When, AssetOK
  <2>2. y = [x EXCEPT !.arns = [x.arns EXCEPT ![n] = ix.a], !.old = x.old \ {n}]
    BY <1>0, <2>1 DEF LedgerType
  <2> QED BY <1>0, <1>1, <1>5, <2>1, <2>2, NamesTyped
<1>7. CASE ix.op = "migrate_record"
  <2>1. y = [x EXCEPT !.old = x.old \ {n}]
    BY <1>7, <1>n DEF OnNames, When
  <2> QED BY <1>0, <1>5, <2>1, NamesTyped
<1>8. CASE ix.op = "manage_name"
  BY <1>8 DEF OnNames, When
<1>9. CASE ix.op \in {"reassign_name", "release_name"}
  <2>1. PICK a \in Ants \union {Nobody} : y = [x EXCEPT !.arns[n] = a]
    BY <1>9, <1>n DEF OnNames, When, AssetOK
  <2>2. y = [x EXCEPT !.arns = [x.arns EXCEPT ![n] = a]]
    BY <2>1
  <2> QED BY <1>0, <1>1, <2>2, NamesTyped
<1>10. CASE ix.op = "sync_attributes"
  <2>1. y = [x EXCEPT !.synced[ix.a] = n] /\ n \in Names
    BY <1>10, <1>n DEF OnNames, When, AssetOK
  <2>2. PICK synced : synced = [x.synced EXCEPT ![ix.a] = n]
    OBVIOUS
  <2>3. synced \in [Ants -> Names \union {NoName}]
    BY <1>0, <2>1, <2>2 DEF LedgerType
  <2>4. y = [x EXCEPT !.synced = synced]
    BY <2>1, <2>2
  <2>5. y \in LedgerType /\ y.acl = x.acl
    BY <1>0, <2>3, <2>4 DEF LedgerType
  <2> QED BY <2>5, Beside
<1>11. CASE ix.op = "remove_primary"
  <2>1. y = [x EXCEPT !.prim[ix.by] = NoName, !.rev[n] = Nobody]
    BY <1>11, <1>n DEF OnNames, When
  <2>2. PICK prim : prim = [x.prim EXCEPT ![ix.by] = NoName]
    OBVIOUS
  <2>3. prim \in [Users -> Names \union {NoName}]
    BY <1>0, <2>2
  <2>4. y = [x EXCEPT !.prim = prim, !.rev = [x.rev EXCEPT ![n] = Nobody]]
    BY <1>0, <2>1, <2>2 DEF LedgerType
  <2> QED BY <1>0, <1>3, <2>3, <2>4, NamesTyped
<1>12. CASE ix.op = "request_primary"
  <2>1. y = [x EXCEPT !.req[ix.by] = [name |-> n, at |-> x.now]] /\ n \in Names
    BY <1>12, <1>n DEF OnNames, When, AssetOK
  <2>2. PICK req : req = [x.req EXCEPT ![ix.by] = [name |-> n, at |-> x.now]]
    OBVIOUS
  <2>3. req \in [Users -> {Nobody} \union [name : Names, at : Nat]]
    BY <1>0, <2>1, <2>2
  <2>4. y = [x EXCEPT !.req = req]
    BY <2>1, <2>2
  <2> QED BY <1>0, <2>3, <2>4, NamesTyped
<1>13. CASE ix.op = "set_primary"
  <2>1. y = Primary(x, ix.by, n) /\ ix.by \in Users /\ n \in Names
    BY <1>13, <1>n DEF OnNames, When, AssetOK
  <2>2. PICK prim : prim = [x.prim EXCEPT ![ix.by] = n]
    OBVIOUS
  <2>3. PICK rev : rev = [x.rev EXCEPT ![n] = ix.by]
    OBVIOUS
  <2>4. y = [x EXCEPT !.prim = prim, !.rev = rev]
    BY <1>0, <2>1, <2>2, <2>3 DEF LedgerType, Primary
  <2>5. prim \in [Users -> Names \union {NoName}] /\ rev \in [Names -> Users \union {Nobody}]
    BY <1>2, <1>3, <2>1, <2>2, <2>3
  <2> QED BY <1>0, <2>4, <2>5, NamesTyped
<1>14. CASE ix.op = "approve_primary"
  <2>1. y = Primary([x EXCEPT !.req[ix.u] = Nobody], ix.u, n) /\ ix.u \in Users /\ n \in Names
    BY <1>14, <1>n DEF OnNames, When, AssetOK
  <2>2. PICK prim : prim = [x.prim EXCEPT ![ix.u] = n]
    OBVIOUS
  <2>3. PICK rev : rev = [x.rev EXCEPT ![n] = ix.u]
    OBVIOUS
  <2>4. PICK req : req = [x.req EXCEPT ![ix.u] = Nobody]
    OBVIOUS
  <2>5. y = [x EXCEPT !.req = req, !.prim = prim, !.rev = rev]
    BY <1>0, <2>1, <2>2, <2>3, <2>4 DEF LedgerType, Primary
  <2>6. prim \in [Users -> Names \union {NoName}] /\ rev \in [Names -> Users \union {Nobody}]
    BY <1>2, <1>3, <2>1, <2>2, <2>3
  <2>7. req \in [Users -> {Nobody} \union [name : Names, at : Nat]]
    BY <1>4, <2>4
  <2> QED BY <1>0, <2>5, <2>6, <2>7, NamesTyped
<1>15. CASE ix.op = "close_request"
  <2>1. y = [x EXCEPT !.req[ix.u] = Nobody]
    BY <1>15 DEF OnNames, When
  <2>2. y = [x EXCEPT !.req = [x.req EXCEPT ![ix.u] = Nobody]]
    BY <2>1
  <2> QED BY <1>0, <1>4, <2>2, NamesTyped
<1> QED BY <1>6, <1>7, <1>8, <1>9, <1>10, <1>11, <1>12, <1>13, <1>14, <1>15 DEF NameIxs

AssetIxs == AclIxs \union AntIxs \union RecordIxs \union EscrowIxs \union NameIxs

\* An instruction on the ledger keeps its types.
LEMMA OnAssetTyped ==
  ASSUME NEW ants, NEW x \in Ledgers, NEW ix, ix.op \in AssetIxs,
         AssetOK(ix, ants), NEW y \in OnAsset(x, ix)
  PROVE  y \in Ledgers
<1>1. CASE ix.op \in AclIxs
  BY <1>1, OnAclTyped DEF OnAsset
<1>2. CASE ix.op \in AntIxs
  <2>1. y \in OnAnt(x, ix)
    BY <1>2 DEF OnAsset, AclIxs, AntIxs
  <2> QED BY <1>2, <2>1, OnAntTyped
<1>3. CASE ix.op \in RecordIxs
  <2>1. y \in OnRecords(x, ix)
    BY <1>3 DEF OnAsset, AclIxs, AntIxs, RecordIxs
  <2> QED BY <1>3, <2>1, OnRecordsTyped
<1>4. CASE ix.op \in EscrowIxs
  <2>1. y \in OnEscrow(x, ix)
    BY <1>4 DEF OnAsset, AclIxs, AntIxs, RecordIxs, EscrowIxs
  <2> QED BY <1>4, <2>1, OnEscrowTyped
<1>5. CASE ix.op \in NameIxs
  <2>1. y \in OnNames(x, ix)
    BY <1>5 DEF OnAsset, AclIxs, AntIxs, RecordIxs, EscrowIxs, NameIxs
  <2> QED BY <1>5, <2>1, OnNamesTyped
<1> QED BY <1>1, <1>2, <1>3, <1>4, <1>5 DEF AssetIxs

-----------------------------------------------------------------------------
(* The registry.                                                           *)

\* The weights up to a slot are sums.
WeightRun(f, slots) ==
    /\ f \in [0..Len(slots) -> Nat] /\ f[0] = 0
    /\ \A k \in 1..Len(slots) : f[k] = f[k - 1] + Weight[slots[k]]

\* The weights of the gateways up to a slot, one after the other.
LEMMA WeightRuns ==
  ASSUME NEW slots \in Seq(Operators)
  PROVE  \E f : WeightRun(f, slots)
<1> DEFINE n == Len(slots)
           G == [p \in Nat \X (1..n) |-> p[1] + Weight[slots[p[2]]]]
<1>1. n \in Nat /\ \A k \in 1..n : Weight[slots[k]] \in Nat
  BY RegistryAssumption
<1>2. G \in [Nat \X (1..n) -> Nat]
  BY <1>1
<1>3. PICK f \in [0..n -> Nat] : RecursesTo(f, n, 0, G)
  <2> HIDE DEF G, n
  <2> QED BY <1>1, <1>2, RecursionExists
<1>4. \A k \in 1..n : f[k] = f[k - 1] + Weight[slots[k]]
  <2> SUFFICES ASSUME NEW k \in 1..n PROVE f[k] = f[k - 1] + Weight[slots[k]]
    OBVIOUS
  <2>1. k # 0 /\ k \in 0..n /\ k - 1 \in 0..n
    BY <1>1
  <2>2. f[k] = G[<<f[k - 1], k>>] /\ f[k - 1] \in Nat
    BY <1>3, <2>1 DEF RecursesTo
  <2> QED BY <2>2
<1>5. f[0] = 0
  <2>1. 0 \in 0..n
    BY <1>1
  <2> QED BY <1>3, <2>1 DEF RecursesTo
<1> HIDE DEF G
<1> QED BY <1>1, <1>3, <1>4, <1>5 DEF WeightRun

\* The fold that WeightBefore is adds them up.
LEMMA WeightsAdd ==
  ASSUME NEW slots \in Seq(Operators), NEW f, WeightRun(f, slots), NEW n \in 0..Len(slots)
  PROVE  WeightBefore(slots, n + 1) = f[n]
<1> DEFINE q == [j \in 1..((n + 1) - 1) |-> Weight[slots[j]]]
           G == [p \in Nat \X (1..n) |-> p[1] + q[p[2]]]
           base == 0
           it == CHOOSE tab : tab = [s \in SUBSET DOMAIN q |->
                   IF s = {} THEN base
                   ELSE LET x == Max(s) IN tab[s \ {x}] + q[x]]
<1>1. /\ n \in Nat /\ Len(slots) \in Nat /\ DOMAIN q = 1..n
      /\ \A j \in 1..n : q[j] = Weight[slots[j]] /\ q[j] \in Nat
  BY RegistryAssumption
<1>2. G \in [Nat \X (1..n) -> Nat] /\ base \in Nat
  <2> HIDE DEF it, q
  <2>1. \A p \in Nat \X (1..n) : p[1] + q[p[2]] \in Nat
    BY <1>1
  <2> QED BY <2>1
<1>3. PICK tab \in [SUBSET (1..n) -> Nat] : FoldsLeft(tab, n, base, G)
  <2> HIDE DEF G, base
  <2> QED BY <1>1, <1>2, FoldLeftExists
<1>4. tab = [s \in SUBSET DOMAIN q |->
             IF s = {} THEN base
             ELSE LET x == Max(s) IN tab[s \ {x}] + q[x]]
  <2>1. \A s \in SUBSET (1..n) : s # {} => Max(s) \in 1..n
    BY <1>1, MaxOfPositions
  <2>2. \A s \in SUBSET (1..n) :
          s # {} => G[<<tab[s \ {Max(s)}], Max(s)>>] = tab[s \ {Max(s)}] + q[Max(s)]
    BY <2>1
  <2> HIDE DEF G, base, q
  <2> QED BY <1>1, <1>3, <2>2 DEF FoldsLeft
<1>5. it = [s \in SUBSET DOMAIN q |->
              IF s = {} THEN base
              ELSE LET x == Max(s) IN it[s \ {x}] + q[x]]
  <2> HIDE DEF base, q
  <2> QED BY <1>4
<1>6. Unfolds(it, n, Nat, base, G)
  <2>1. \A s \in SUBSET (1..n) : s # {} => Max(s) \in 1..n
    BY <1>1, MaxOfPositions
  <2> HIDE DEF it, base, q
  <2> QED BY <1>1, <1>5, <2>1 DEF Unfolds
<1>7. Runs(it, n, Nat, base, G)
  <2> HIDE DEF it, G, base, q
  <2> QED BY <1>1, <1>2, <1>6, FoldRuns
<1>8. WeightBefore(slots, n + 1) = it[1..n]
  BY <1>1 DEF WeightBefore, FoldLeft, MapThenFoldSet
<1>9. \A k \in 0..n : it[1..k] = f[k]
  <2> DEFINE S == {k \in 0..n : it[1..k] = f[k]}
  <2>1. 0 \in S
    <3>1. it[1..0] = base
      <4> HIDE DEF it, G, base, q
      <4> QED BY <1>7 DEF Runs
    <3>2. f[0] = 0 /\ 0 \in 0..n
      BY <1>1 DEF WeightRun
    <3> HIDE DEF it, q
    <3> QED BY <3>1, <3>2
  <2>2. ASSUME NEW k \in 0..(n - 1), k \in S PROVE k + 1 \in S
    <3>1. k + 1 \in 1..n /\ (k + 1) - 1 = k /\ k \in 0..n /\ k + 1 \in 1..Len(slots)
          /\ k + 1 \in 0..n
      BY <1>1
    <3>2. it[1..(k + 1)] = G[<<it[1..k], k + 1>>] /\ it[1..k] \in Nat
      <4> HIDE DEF it, G, base, q
      <4> QED BY <1>7, <3>1 DEF Runs
    <3>3. it[1..(k + 1)] = f[k] + q[k + 1]
      <4> HIDE DEF it, base, q
      <4> QED BY <2>2, <3>1, <3>2
    <3>4. f[k + 1] = f[k] + Weight[slots[k + 1]]
      BY <3>1 DEF WeightRun
    <3> HIDE DEF it, q
    <3> QED BY <1>1, <3>1, <3>3, <3>4
  <2> HIDE DEF S
  <2>3. \A k \in 0..n : k \in S
    BY <1>1, <2>1, <2>2, UpToByInduction
  <2> QED BY <2>3 DEF S
<1> HIDE DEF it
<1> QED BY <1>1, <1>8, <1>9

\* A value below the total weight falls to one of the slots: the draw names
\* operators.
LEMMA HitFalls ==
  ASSUME NEW slots \in Seq(Operators), Total(slots) # 0, NEW value \in Nat
  PROVE  Hit(slots, value) \in Operators
<1> DEFINE n == Len(slots)
           v == value % Total(slots)
<1>1. PICK f : WeightRun(f, slots)
  BY WeightRuns
<1>2. n \in Nat /\ Total(slots) = f[n] /\ f[n] \in Nat /\ v \in Nat /\ v < f[n]
  BY <1>1, WeightsAdd DEF Total, WeightRun
<1>3. \E i \in 1..n : f[i - 1] <= v /\ v < f[i]
  <2> DEFINE S == {k \in 0..n : f[k] <= v}
  <2>1. SUFFICES ASSUME ~\E i \in 1..n : f[i - 1] <= v /\ v < f[i] PROVE FALSE
    OBVIOUS
  <2>2. 0 \in S
    BY <1>1, <1>2 DEF WeightRun
  <2>3. ASSUME NEW k \in 0..(n - 1), k \in S PROVE k + 1 \in S
    <3>1. k + 1 \in 1..n /\ (k + 1) - 1 = k /\ k + 1 \in 0..n
      BY <1>2
    <3>2. f[k] <= v /\ f[k + 1] \in Nat
      BY <1>1, <2>3, <3>1 DEF WeightRun
    <3>3. ~(v < f[k + 1])
      BY <2>1, <3>1, <3>2
    <3> QED BY <1>2, <3>1, <3>2, <3>3
  <2>4. \A k \in 0..n : k \in S
    <3> HIDE DEF S, v
    <3> QED BY <1>2, <2>2, <2>3, UpToByInduction
  <2>5. f[n] <= v
    BY <1>2, <2>4
  <2> QED BY <1>2, <2>5
<1>4. PICK i \in 1..n : f[i - 1] <= v /\ v < f[i]
  BY <1>3
<1>5. WeightBefore(slots, i) = f[i - 1] /\ WeightBefore(slots, i + 1) = f[i]
  <2>1. i - 1 \in 0..Len(slots) /\ (i - 1) + 1 = i /\ i \in 0..Len(slots)
    BY <1>2
  <2> QED BY <1>1, <2>1, WeightsAdd
<1>6. \E j \in DOMAIN slots : WeightBefore(slots, j) <= v /\ v < WeightBefore(slots, j + 1)
  BY <1>4, <1>5
<1>7. PICK j \in DOMAIN slots : Hit(slots, value) = slots[j]
  BY <1>6 DEF Hit
<1> QED BY <1>7

\* Those the draw names are operators.
LEMMA DrawnTyped ==
  ASSUME NEW slots \in Seq(Operators)
  PROVE  Drawn(slots) \in SUBSET Operators
<1> DEFINE cap == Min({MaxObservers, Len(slots)})
           enough == {k \in 0..Len(Draws) : Cardinality(Named(slots, k)) = cap}
           rounds == IF enough = {} THEN Len(Draws) ELSE Min(enough)
<1>1. CASE Total(slots) = 0
  BY <1>1 DEF Drawn
<1>2. CASE Total(slots) # 0
  <2>1. rounds \in 0..Len(Draws)
    <3>0. Len(Draws) \in Nat
      BY RegistryAssumption
    <3>1. enough \in SUBSET Nat /\ enough \subseteq 0..Len(Draws)
      BY <3>0
    <3>2. enough # {} => Min(enough) \in enough
      <4> HIDE DEF enough
      <4> QED BY <3>1, MinOfNats
    <3>3. CASE enough = {}
      BY <3>0, <3>3
    <3>4. CASE enough # {}
      <4>1. rounds = Min(enough)
        BY <3>4
      <4> HIDE DEF enough, rounds
      <4> QED BY <3>1, <3>2, <3>4, <4>1
    <3> QED BY <3>3, <3>4
  <2>2. Drawn(slots) = Named(slots, rounds)
    BY <1>2 DEF Drawn
  <2>3. \A k \in 1..rounds : Draws[k] \in Nat
    <3> HIDE DEF rounds
    <3> QED BY <2>1, RegistryAssumption
  <2> HIDE DEF rounds
  <2> QED BY <1>2, <2>2, <2>3, HitFalls DEF Named
<1> QED BY <1>1, <1>2

\* What an instruction on the registry has to carry for the types.
GarOK(ix) ==
    /\ ix.op = "save_observations" => ix.bits \in Seq(BOOLEAN) /\ ix.count \in Nat
    /\ ix.op \in {"close_observation", "claim_disabled"} => ix.o \in Operators
    /\ ix.op \in {"claim_disabled", "allow_delegate"} => ix.d \in Operators
    /\ ix.op = "update_settings" => ix.takes \in BOOLEAN
    /\ ix.op = "set_allowlist" => ix.on \in BOOLEAN
    /\ ix.op = "update_observer" => ix.new \in Operators

\* What does not touch the slots only has to keep the types.
LEMMA SameSlots ==
  ASSUME NEW x \in Registries, NEW y \in RegistryType, y.slots = x.slots
  PROVE  y \in Registries
  BY DEF Registries

\* A stake with its rewards is an amount of tokens.
LEMMA SettledTyped ==
  ASSUME NEW st \in Stakes, NEW cum \in Nat
  PROVE  Settled1(st, cum) \in Stakes
<1>1. st.amt \in 0..MaxAmount /\ st.debt \in Nat /\ MaxAmount \in Nat /\ Precision \in Nat \ {0}
  BY RegistryAssumption DEF Stakes
<1>2. CASE cum <= st.debt
  BY <1>2 DEF Settled1
<1>3. CASE ~(cum <= st.debt)
  <2>1. PICK due : due = (st.amt * (cum - st.debt)) \div Precision
    OBVIOUS
  <2>2. due \in Nat
    <3>1. cum - st.debt \in Nat /\ st.amt \in Nat
      BY <1>1, <1>3
    <3>2. st.amt * (cum - st.debt) \in Nat
      BY <3>1
    <3> QED BY <1>1, <2>1, <3>2
  <2>3. {MaxAmount, st.amt + due} \in SUBSET Nat
    BY <1>1, <2>2
  <2>4. Min({MaxAmount, st.amt + due}) \in 0..MaxAmount
    BY <1>1, <2>3, MinOfNats
  <2>5. Settled1(st, cum) = [amt |-> Min({MaxAmount, st.amt + due}), debt |-> cum]
    BY <1>3, <2>1 DEF Settled1
  <2> QED BY <2>4, <2>5 DEF Stakes
<1> QED BY <1>2, <1>3

\* A withdrawal begun.
LEMMA WithdrawTyped ==
  ASSUME NEW x \in Registries, NEW d, NEW o \in Operators, NEW amt \in 0..MaxAmount,
         NEW isDelegate \in BOOLEAN
  PROVE  Withdraw(x, d, o, amt, isDelegate) \in Registries
<1>0. x \in RegistryType /\ x.outs \in [Operators -> Seq(Withdrawals)]
  BY DEF Registries, RegistryType
<1>1. PICK out : out = [amt |-> amt, gw |-> o, isDelegate |-> isDelegate, open |-> TRUE]
  OBVIOUS
<1>2. out \in Withdrawals
  BY <1>1 DEF Withdrawals
<1>3. PICK outs : outs = [x.outs EXCEPT ![d] = Append(@, out)]
  OBVIOUS
<1>4. outs \in [Operators -> Seq(Withdrawals)]
  <2>1. d \in Operators => Append(x.outs[d], out) \in Seq(Withdrawals)
    BY <1>0, <1>2
  <2>2. outs = [x.outs EXCEPT ![d] = Append(x.outs[d], out)]
    BY <1>3
  <2> QED BY <1>0, <2>1, <2>2, Put
<1>5. Withdraw(x, d, o, amt, isDelegate) = [x EXCEPT !.outs = outs]
  BY <1>1, <1>3 DEF Withdraw
<1>6. [x EXCEPT !.outs = outs] \in RegistryType /\ [x EXCEPT !.outs = outs].slots = x.slots
  BY <1>0, <1>4 DEF RegistryType
<1> QED BY <1>5, <1>6, SameSlots

\* A stake replaced, where there is one.
LEMMA StakeTyped ==
  ASSUME NEW x \in Registries, NEW k, NEW st, k \in Operators \X Operators => st \in Stakes \union {NoOperator}
  PROVE  [x EXCEPT !.stake[k] = st] \in Registries
<1>0. x \in RegistryType /\ x.stake \in [Operators \X Operators -> Stakes \union {NoOperator}]
  BY DEF Registries, RegistryType
<1>1. PICK stake : stake = [x.stake EXCEPT ![k] = st]
  OBVIOUS
<1>2. stake \in [Operators \X Operators -> Stakes \union {NoOperator}]
  BY <1>0, <1>1, Put
<1>3. [x EXCEPT !.stake[k] = st] = [x EXCEPT !.stake = stake]
  BY <1>1
<1>4. [x EXCEPT !.stake = stake] \in RegistryType /\ [x EXCEPT !.stake = stake].slots = x.slots
  BY <1>0, <1>2 DEF RegistryType
<1> QED BY <1>3, <1>4, SameSlots

\* All of a stake taken out.
LEMMA TakeOutTyped ==
  ASSUME NEW x \in Registries, NEW o \in Operators, NEW d \in Operators,
         x.stake[<<o, d>>] # NoOperator
  PROVE  TakeOut(x, o, d) \in Registries
<1>0. /\ x.stake \in [Operators \X Operators -> Stakes \union {NoOperator}]
      /\ x.cum \in [Operators -> Nat]
  BY DEF Registries, RegistryType
<1>1. PICK all : all = Settled1(x.stake[<<o, d>>], x.cum[o])
  OBVIOUS
<1>2. all \in Stakes
  BY <1>0, <1>1, SettledTyped
<1>3. PICK none : none = [all EXCEPT !.amt = 0]
  OBVIOUS
<1>4. none \in Stakes /\ all.amt \in 0..MaxAmount
  BY <1>2, <1>3, RegistryAssumption DEF Stakes
<1>5. PICK y : y = [x EXCEPT !.stake[<<o, d>>] = none]
  OBVIOUS
<1>6. y \in Registries
  BY <1>4, <1>5, StakeTyped
<1>7. TakeOut(x, o, d) = Withdraw(y, d, o, all.amt, TRUE)
  BY <1>1, <1>3, <1>5 DEF TakeOut
<1> QED BY <1>4, <1>6, <1>7, WithdrawTyped

\* A gateway begins to leave.
LEMMA LeaveTyped ==
  ASSUME NEW x \in Registries, NEW o
  PROVE  Leave(x, o) \in Registries
<1>0. x \in RegistryType /\ x.time \in Nat /\ x.duration \in Nat
  BY DEF Registries, RegistryType
<1>1. PICK status : status = [x.status EXCEPT ![o] = "leaving"]
  OBVIOUS
<1>2. PICK leave : leave = [x.leave EXCEPT ![o] = [at |-> x.time, snap |-> x.duration]]
  OBVIOUS
<1>3. /\ status \in [Operators -> {"joined", "deficient", "leaving", "gone"}]
      /\ leave \in [Operators -> [at : Nat, snap : Nat]]
  BY <1>0, <1>1, <1>2 DEF RegistryType
<1>4. Leave(x, o) = [x EXCEPT !.status = status, !.leave = leave]
  BY <1>0, <1>1, <1>2 DEF Leave, RegistryType
<1>5. Leave(x, o) \in RegistryType /\ Leave(x, o).slots = x.slots
  BY <1>0, <1>3, <1>4 DEF RegistryType
<1> QED BY <1>5, SameSlots

\* A sequence with one entry replaced.
LEMMA PutSeq ==
  ASSUME NEW T, NEW q \in Seq(T), NEW i, NEW v, i \in 1..Len(q) => v \in T
  PROVE  /\ [q EXCEPT ![i] = v] \in Seq(T) /\ Len([q EXCEPT ![i] = v]) = Len(q)
         /\ \A j \in 1..Len(q) : [q EXCEPT ![i] = v][j] = IF j = i THEN v ELSE q[j]
<1> DEFINE n == Len(q)
           r == [q EXCEPT ![i] = v]
<1>1. n \in Nat /\ q \in [1..n -> T] /\ (i \in 1..n => v \in T)
  OBVIOUS
<1>2. r \in [1..n -> T]
  <2> HIDE DEF n
  <2> QED BY <1>1, Put
<1>3. \A j \in 1..n : r[j] = IF j = i THEN v ELSE q[j]
  <2> HIDE DEF n
  <2> QED BY <1>1
<1>4. r \in Seq(T) /\ Len(r) = n
  <2> HIDE DEF n, r
  <2> QED BY <1>1, <1>2
<1> QED BY <1>3, <1>4

\* A withdrawal changed in place.
LEMMA OutTyped ==
  ASSUME NEW x \in Registries, NEW d, NEW i,
         NEW y, y = [x EXCEPT !.outs[d][i].open = FALSE] \/ y = [x EXCEPT !.outs[d][i].amt = 0]
  PROVE  y \in Registries
<1>0. x \in RegistryType /\ x.outs \in [Operators -> Seq(Withdrawals)]
  BY DEF Registries, RegistryType
<1>1. \A out \in Withdrawals :
        [out EXCEPT !.open = FALSE] \in Withdrawals /\ [out EXCEPT !.amt = 0] \in Withdrawals
  <2> SUFFICES ASSUME NEW out \in Withdrawals
               PROVE  /\ [out EXCEPT !.open = FALSE] \in Withdrawals
                      /\ [out EXCEPT !.amt = 0] \in Withdrawals
    OBVIOUS
  <2>1. 0 \in 0..MaxAmount
    BY RegistryAssumption
  <2>2. [out EXCEPT !.open = FALSE] \in Withdrawals
    BY DEF Withdrawals
  <2>3. [out EXCEPT !.amt = 0] \in Withdrawals
    BY <2>1 DEF Withdrawals
  <2> QED BY <2>2, <2>3
<1>2. PICK out : /\ out \in {[x.outs[d][i] EXCEPT !.open = FALSE], [x.outs[d][i] EXCEPT !.amt = 0]}
                 /\ y = [x EXCEPT !.outs[d][i] = out]
  <2>1. CASE y = [x EXCEPT !.outs[d][i].open = FALSE]
    <3>1. y = [x EXCEPT !.outs[d][i] = [x.outs[d][i] EXCEPT !.open = FALSE]]
      BY <2>1
    <3> QED BY <3>1
  <2>2. CASE y = [x EXCEPT !.outs[d][i].amt = 0]
    <3>1. y = [x EXCEPT !.outs[d][i] = [x.outs[d][i] EXCEPT !.amt = 0]]
      BY <2>2
    <3> QED BY <3>1
  <2> QED BY <2>1, <2>2
<1>3. PICK row : row = [x.outs[d] EXCEPT ![i] = out]
  OBVIOUS
<1>4. d \in Operators => row \in Seq(Withdrawals)
  <2> SUFFICES ASSUME d \in Operators PROVE row \in Seq(Withdrawals)
    OBVIOUS
  <2>1. x.outs[d] \in Seq(Withdrawals)
    BY <1>0
  <2>2. i \in 1..Len(x.outs[d]) => out \in Withdrawals
    <3> SUFFICES ASSUME i \in 1..Len(x.outs[d]) PROVE out \in Withdrawals
      OBVIOUS
    <3>1. x.outs[d][i] \in Withdrawals
      BY <2>1
    <3> QED BY <1>1, <1>2, <3>1
  <2> QED BY <1>3, <2>1, <2>2, PutSeq
<1>5. PICK outs : outs = [x.outs EXCEPT ![d] = row]
  OBVIOUS
<1>6. outs \in [Operators -> Seq(Withdrawals)]
  BY <1>0, <1>4, <1>5, Put
<1>7. y = [x EXCEPT !.outs = outs]
  BY <1>2, <1>3, <1>5
<1>8. y \in RegistryType /\ y.slots = x.slots
  BY <1>0, <1>6, <1>7 DEF RegistryType
<1> QED BY <1>8, SameSlots

\* The last operator moves into a slot that is left: each is still in one slot.
LEMMA SwapRemoveTyped ==
  ASSUME NEW slots \in Seq(Operators), IsInjective(slots), NEW i
  PROVE  SwapRemove(slots, i) \in Seq(Operators) /\ IsInjective(SwapRemove(slots, i))
<1> DEFINE n == Len(slots)
           swapped == [slots EXCEPT ![i] = Last1(slots)]
           left == SwapRemove(slots, i)
<1>1. CASE slots = <<>>
  <2>1. swapped = <<>>
    BY <1>1
  <2>2. left = SubSeq(<<>>, 1, Len(<<>>) - 1)
    BY <1>1, <2>1 DEF SwapRemove
  <2>3. left = <<>>
    BY <2>2
  <2> QED BY <2>3 DEF IsInjective
<1>2. CASE slots # <<>>
  <2>1. n \in Nat \ {0} /\ slots[n] \in Operators /\ DOMAIN slots = 1..n
    BY <1>2
  <2>2. swapped \in Seq(Operators) /\ Len(swapped) = n
        /\ \A j \in 1..n : swapped[j] = IF j = i THEN slots[n] ELSE slots[j]
    BY <2>1, PutSeq DEF Last1
  <2>3. left = SubSeq(swapped, 1, n - 1)
    BY DEF SwapRemove
  <2> HIDE DEF swapped, left
  <2>4. /\ left \in Seq(Operators) /\ DOMAIN left = 1..(n - 1)
        /\ \A j \in 1..(n - 1) : left[j] = swapped[j]
    BY <2>1, <2>2, <2>3
  <2>5. ASSUME NEW j \in DOMAIN left, NEW k \in DOMAIN left, left[j] = left[k]
        PROVE  j = k
    <3>1. /\ j \in 1..n /\ k \in 1..n /\ n \in 1..n /\ j # n /\ k # n
          /\ left[j] = (IF j = i THEN slots[n] ELSE slots[j])
          /\ left[k] = (IF k = i THEN slots[n] ELSE slots[k])
      BY <2>1, <2>2, <2>4
    <3>2. \A a, b \in 1..n : slots[a] = slots[b] => a = b
      BY <2>1 DEF IsInjective
    <3> QED BY <2>5, <3>1, <3>2
  <2> QED BY <2>4, <2>5 DEF IsInjective, left
<1> QED BY <1>1, <1>2

\* The next position of the tally.
LEMMA TallyTyped ==
  ASSUME NEW a \in Nat, NEW b \in Nat, NEW c \in Nat
  PROVE  Min({a, b, c}) \in Nat
<1>1. {a, b, c} \in SUBSET Nat /\ {a, b, c} # {}
  OBVIOUS
<1>2. Min({a, b, c}) \in {a, b, c}
  BY <1>1, MinOfNats
<1> QED BY <1>2

\* An instruction on the registry keeps its types.
LEMMA OnRegistryTyped ==
  ASSUME NEW x \in Registries, NEW ix, ix.op \in RegistryIxs, GarOK(ix),
         NEW y \in OnRegistry(x, ix)
  PROVE  y \in Registries
<1>0. /\ x \in RegistryType /\ x.slots \in Seq(Operators) /\ IsInjective(x.slots)
      /\ x.tallied \in Nat /\ x.active \in Nat /\ Len(x.slots) \in Nat
      /\ x.status \in [Operators -> {"joined", "deficient", "leaving", "gone"}]
      /\ x.report \in [Operators -> Reports \union {NoOperator}]
  BY DEF Registries, RegistryType
<1>1. CASE ix.op = "finalize_gone"
  <2>1. PICK slots : slots = SwapRemove(x.slots, SlotOf(x, ix.o))
    OBVIOUS
  <2>2. PICK status : status = [x.status EXCEPT ![ix.o] = "gone"]
    OBVIOUS
  <2>3. y = [x EXCEPT !.slots = slots, !.status = status]
    <3>1. y = [x EXCEPT !.slots = SwapRemove(@, SlotOf(x, ix.o)), !.status[ix.o] = "gone"]
      BY <1>1 DEF OnRegistry, Accepts
    <3> QED BY <1>0, <2>1, <2>2, <3>1 DEF RegistryType
  <2>4. slots \in Seq(Operators) /\ IsInjective(slots)
    BY <1>0, <2>1, SwapRemoveTyped
  <2>5. status \in [Operators -> {"joined", "deficient", "leaving", "gone"}]
    BY <1>0, <2>2
  <2>6. y \in RegistryType /\ y.slots = slots
    BY <1>0, <2>3, <2>4, <2>5 DEF RegistryType
  <2> QED BY <2>4, <2>6 DEF Registries
<1>2. CASE ix.op = "prune_gateway"
  <2>1. y = Withdraw(Leave(x, ix.o), ix.o, ix.o, 1, FALSE)
    BY <1>2 DEF OnRegistry, Accepts
  <2>2. PICK z : z = Leave(x, ix.o) /\ z \in Registries
    BY LeaveTyped
  <2>3. CASE ix.o \in Operators
    <3>1. 1 \in 0..MaxAmount
      BY RegistryAssumption
    <3> QED BY <2>1, <2>2, <2>3, <3>1, WithdrawTyped
  <2>4. CASE ix.o \notin Operators
    <3>1. z \in RegistryType
      BY <2>2 DEF Registries
    <3>2. PICK out : y = [z EXCEPT !.outs[ix.o] = out]
      BY <2>1, <2>2 DEF Withdraw
    <3>3. [z.outs EXCEPT ![ix.o] = out] = z.outs
      BY <2>4, <3>1 DEF RegistryType
    <3>4. y = [z EXCEPT !.outs = z.outs]
      BY <3>2, <3>3
    <3>5. y \in RegistryType /\ y.slots = z.slots
      BY <3>1, <3>4 DEF RegistryType
    <3> QED BY <2>2, <3>5, SameSlots
  <2> QED BY <2>3, <2>4
<1>3. CASE ix.op = "tally_weights"
  <2>1. y = [x EXCEPT !.tallied = Min({x.tallied + BatchSize, x.active, Len(x.slots)})]
    BY <1>3 DEF OnRegistry, Accepts
  <2>2. PICK last \in Nat : y = [x EXCEPT !.tallied = last]
    <3>1. x.tallied + BatchSize \in Nat
      BY <1>0, RegistryAssumption
    <3>2. Min({x.tallied + BatchSize, x.active, Len(x.slots)}) \in Nat
      BY <1>0, <3>1, TallyTyped
    <3> QED BY <2>1, <3>2
  <2>3. y \in RegistryType /\ y.slots = x.slots
    BY <1>0, <2>2 DEF RegistryType
  <2> QED BY <2>3, SameSlots
<1>4. CASE ix.op = "prescribe_epoch"
  <2>1. PICK walked : walked = SubSeq(x.slots, 1, Min({x.active, Len(x.slots)}))
    OBVIOUS
  <2>2. walked \in Seq(Operators)
    <3>1. PICK m : m = Min({x.active, Len(x.slots)})
      OBVIOUS
    <3>2. {x.active, Len(x.slots)} \in SUBSET Nat /\ {x.active, Len(x.slots)} # {}
      BY <1>0
    <3>3. m \in {x.active, Len(x.slots)} /\ m <= Len(x.slots)
      BY <3>1, <3>2, MinOfNats
    <3>4. m \in 0..Len(x.slots) /\ walked = SubSeq(x.slots, 1, m)
      BY <1>0, <2>1, <3>1, <3>3
    <3> QED BY <1>0, <3>4
  <2>3. y = [x EXCEPT !.observers = Drawn(walked)]
    BY <1>4, <2>1 DEF OnRegistry, Accepts
  <2>4. Drawn(walked) \in SUBSET Operators
    BY <2>2, DrawnTyped
  <2>5. y \in RegistryType /\ y.slots = x.slots
    BY <1>0, <2>3, <2>4 DEF RegistryType
  <2> QED BY <2>5, SameSlots
<1>5. CASE ix.op = "save_observations"
  <2>1. y = [x EXCEPT !.report[ix.by] = [bits |-> ix.bits, count |-> ix.count]]
    BY <1>5 DEF OnRegistry, Accepts
  <2>2. PICK said : said = [bits |-> ix.bits, count |-> ix.count]
    OBVIOUS
  <2>3. said \in Reports
    BY <1>5, <2>2 DEF GarOK, Reports
  <2>4. PICK report : report = [x.report EXCEPT ![ix.by] = said]
    OBVIOUS
  <2>5. report \in [Operators -> Reports \union {NoOperator}]
    BY <1>0, <2>3, <2>4, Put
  <2>6. y = [x EXCEPT !.report = report]
    BY <2>1, <2>2, <2>4
  <2>7. y \in RegistryType /\ y.slots = x.slots
    BY <1>0, <2>5, <2>6 DEF RegistryType
  <2> QED BY <2>7, SameSlots
<1>6. CASE ix.op = "close_observation"
  <2>1. y = [x EXCEPT !.closed = @ \union {ix.o}] /\ ix.o \in Operators
    BY <1>6 DEF OnRegistry, Accepts, GarOK
  <2>2. y \in RegistryType /\ y.slots = x.slots
    BY <1>0, <2>1 DEF RegistryType
  <2> QED BY <2>2, SameSlots
<1> QED BY <1>1, <1>2, <1>3, <1>4, <1>5, <1>6 DEF RegistryIxs

\* An instruction on delegated stake keeps the types.
LEMMA OnDelegationTyped ==
  ASSUME NEW x \in Registries, NEW ix, ix.op \in DelegationIxs, GarOK(ix),
         NEW y \in OnDelegation(x, ix)
  PROVE  y \in Registries
<1> PICK k : k = <<ix.o, ix.d>>
  OBVIOUS
<1>0. /\ x \in RegistryType /\ x.cum \in [Operators -> Nat]
      /\ x.stake \in [Operators \X Operators -> Stakes \union {NoOperator}]
      /\ x.outs \in [Operators -> Seq(Withdrawals)]
  BY DEF Registries, RegistryType
<1>1. CASE ix.op = "compound"
  <2>1. /\ x.stake[k] # NoOperator
        /\ y = [x EXCEPT !.stake[k] = Settled1(@, x.cum[ix.o])]
    BY <1>1 DEF OnDelegation, Accepts
  <2>2. PICK st : st = Settled1(x.stake[k], x.cum[ix.o])
    OBVIOUS
  <2>3. k \in Operators \X Operators => st \in Stakes
    <3> SUFFICES ASSUME k \in Operators \X Operators PROVE st \in Stakes
      OBVIOUS
    <3>1. x.stake[k] \in Stakes /\ ix.o \in Operators
      BY <1>0, <2>1
    <3> QED BY <1>0, <2>2, <3>1, SettledTyped
  <2>4. y = [x EXCEPT !.stake[k] = st]
    BY <2>1, <2>2
  <2> QED BY <2>3, <2>4, StakeTyped
<1>2. CASE ix.op = "claim_disabled"
  <2>1. x.stake[<<ix.o, ix.d>>] # NoOperator /\ y = TakeOut(x, ix.o, ix.d)
    BY <1>2 DEF OnDelegation, Accepts
  <2>2. ix.o \in Operators /\ ix.d \in Operators
    BY <1>2 DEF GarOK
  <2> QED BY <2>1, <2>2, TakeOutTyped
<1>3. CASE ix.op = "close_delegation"
  <2>1. y = [x EXCEPT !.stake[k] = NoOperator]
    BY <1>3 DEF OnDelegation, Accepts
  <2> QED BY <2>1, StakeTyped
<1>4. CASE ix.op = "close_withdrawal"
  <2>1. y = [x EXCEPT !.outs[ix.d][ix.id].open = FALSE]
    BY <1>4 DEF OnDelegation, Accepts
  <2> QED BY <1>0, <2>1, OutTyped
<1> QED BY <1>1, <1>2, <1>3, <1>4 DEF DelegationIxs

\* An instruction on the settings of a gateway keeps the types.
LEMMA OnSettingsTyped ==
  ASSUME NEW x \in Registries, NEW ix, ix.op \in SettingsIxs, GarOK(ix),
         NEW y \in OnSettings(x, ix)
  PROVE  y \in Registries
<1> PICK o : o = ix.o
  OBVIOUS
<1>0. x \in RegistryType
  BY DEF Registries
<1>1. CASE ix.op = "update_settings"
  <2>1. y = [x EXCEPT !.takes[o] = ix.takes] /\ ix.takes \in BOOLEAN
    BY <1>1 DEF OnSettings, Accepts, GarOK
  <2>2. PICK takes : takes = [x.takes EXCEPT ![o] = ix.takes]
    OBVIOUS
  <2>3. takes \in [Operators -> BOOLEAN] /\ y = [x EXCEPT !.takes = takes]
    BY <1>0, <2>1, <2>2 DEF RegistryType
  <2>4. y \in RegistryType /\ y.slots = x.slots
    BY <1>0, <2>3 DEF RegistryType
  <2> QED BY <2>4, SameSlots
<1>2. CASE ix.op = "update_observer"
  <2>1. y = [x EXCEPT !.observer[o] = ix.new] /\ ix.new \in Operators
    BY <1>2 DEF OnSettings, Accepts, GarOK
  <2>2. PICK observer : observer = [x.observer EXCEPT ![o] = ix.new]
    OBVIOUS
  <2>3. observer \in [Operators -> Operators] /\ y = [x EXCEPT !.observer = observer]
    BY <1>0, <2>1, <2>2 DEF RegistryType
  <2>4. y \in RegistryType /\ y.slots = x.slots
    BY <1>0, <2>3 DEF RegistryType
  <2> QED BY <2>4, SameSlots
<1>3. CASE ix.op \in {"allow_delegate", "disallow_delegate"}
  <2>1. PICK ds : /\ ds \in {x.allowed[o] \union {ix.d}, x.allowed[o] \ {ix.d}}
                  /\ y = [x EXCEPT !.allowed[o] = ds]
                  /\ ds = x.allowed[o] \union {ix.d} => ix.d \in Operators
    <3>1. CASE ix.op = "allow_delegate"
      <4>1. y = [x EXCEPT !.allowed[o] = x.allowed[o] \union {ix.d}] /\ ix.d \in Operators
        BY <3>1 DEF OnSettings, Accepts, GarOK
      <4> QED BY <4>1
    <3>2. CASE ix.op = "disallow_delegate"
      <4>1. y = [x EXCEPT !.allowed[o] = x.allowed[o] \ {ix.d}] /\ ix.d \in x.allowed[o]
        BY <3>2 DEF OnSettings, Accepts
      <4> QED BY <4>1
    <3> QED BY <1>3, <3>1, <3>2
  <2>2. PICK allowed : allowed = [x.allowed EXCEPT ![o] = ds]
    OBVIOUS
  <2>3. x.allowed \in [Operators -> SUBSET Operators]
    BY <1>0 DEF RegistryType
  <2>4. o \in Operators => ds \in SUBSET Operators
    BY <2>1, <2>3
  <2>5. allowed \in [Operators -> SUBSET Operators]
    BY <2>2, <2>3, <2>4, Put
  <2>6. y = [x EXCEPT !.allowed = allowed]
    BY <2>1, <2>2
  <2>7. y \in RegistryType /\ y.slots = x.slots
    BY <1>0, <2>5, <2>6 DEF RegistryType
  <2> QED BY <2>7, SameSlots
<1>4. CASE ix.op = "set_allowlist"
  <2>1. y = [x EXCEPT !.gated[o] = ix.on] /\ ix.on \in BOOLEAN
    BY <1>4 DEF OnSettings, Accepts, GarOK
  <2>2. PICK gated : gated = [x.gated EXCEPT ![o] = ix.on]
    OBVIOUS
  <2>3. gated \in [Operators -> BOOLEAN] /\ y = [x EXCEPT !.gated = gated]
    BY <1>0, <2>1, <2>2 DEF RegistryType
  <2>4. y \in RegistryType /\ y.slots = x.slots
    BY <1>0, <2>3 DEF RegistryType
  <2> QED BY <2>4, SameSlots
<1> QED BY <1>1, <1>2, <1>3, <1>4 DEF SettingsIxs

\* An instruction on the registry, of any kind.
LEMMA OnGarTyped ==
  ASSUME NEW x \in Registries, NEW ix, ix.op \in GarIxs, GarOK(ix), NEW y \in OnGar(x, ix)
  PROVE  y \in Registries
<1>1. CASE ix.op \in DelegationIxs
  <2>1. y \in OnDelegation(x, ix)
    BY <1>1 DEF OnGar
  <2> QED BY <1>1, <2>1, OnDelegationTyped
<1>2. CASE ix.op \notin DelegationIxs /\ ix.op \in SettingsIxs
  <2>1. y \in OnSettings(x, ix)
    BY <1>2 DEF OnGar
  <2> QED BY <1>2, <2>1, OnSettingsTyped
<1>3. CASE ix.op \notin DelegationIxs /\ ix.op \notin SettingsIxs
  <2>1. y \in OnRegistry(x, ix) /\ ix.op \in RegistryIxs
    BY <1>3 DEF OnGar, GarIxs
  <2> QED BY <2>1, OnRegistryTyped
<1> QED BY <1>1, <1>2, <1>3

\* What operators, delegates, the administrator and the clock do.
LEMMA MovesTyped ==
  ASSUME NEW x \in Registries, NEW y \in RegistryMoves(x) \union Elapse(x) \union PoolMoves(x)
  PROVE  y \in Registries
<1>0. /\ x \in RegistryType /\ x.cum \in [Operators -> Nat] /\ x.time \in 0..MaxTime
      /\ x.stake \in [Operators \X Operators -> Stakes \union {NoOperator}]
  BY DEF Registries, RegistryType
<1>1. ASSUME NEW o, y = Leave(x, o) PROVE y \in Registries
  BY <1>1, LeaveTyped
<1>2. ASSUME NEW o \in Operators, y = Withdraw(x, o, o, 1, FALSE) PROVE y \in Registries
  <2>1. 1 \in 0..MaxAmount
    BY RegistryAssumption
  <2> QED BY <1>2, <2>1, WithdrawTyped
<1>3. ASSUME NEW k \in Operators \X Operators, StakeAt(x, k[1], k[2]) > 0,
             y = TakeOut(x, k[1], k[2])
      PROVE  y \in Registries
  <2>1. x.stake[<<k[1], k[2]>>] # NoOperator
    BY <1>3 DEF StakeAt
  <2> QED BY <1>3, <2>1, TakeOutTyped
<1>4. CASE y \in Elapse(x)
  <2>1. y = [x EXCEPT !.time = x.time + 1] /\ x.time + 1 \in 0..MaxTime
    BY <1>0, <1>4, RegistryAssumption DEF Elapse
  <2>2. y \in RegistryType /\ y.slots = x.slots
    BY <1>0, <2>1 DEF RegistryType
  <2> QED BY <2>2, SameSlots
<1>5. ASSUME NEW o \in Operators, y = [x EXCEPT !.cum[o] = @ + 1] PROVE y \in Registries
  <2>1. PICK cum : cum = [x.cum EXCEPT ![o] = x.cum[o] + 1]
    OBVIOUS
  <2>2. cum \in [Operators -> Nat] /\ y = [x EXCEPT !.cum = cum]
    BY <1>0, <1>5, <2>1
  <2>3. y \in RegistryType /\ y.slots = x.slots
    BY <1>0, <2>2 DEF RegistryType
  <2> QED BY <2>3, SameSlots
<1>6. ASSUME NEW k \in Delegations(x), Settled1(x.stake[k], x.cum[k[1]]).amt < MaxAmount,
             y = [x EXCEPT !.stake[k] = LET st == Settled1(@, x.cum[k[1]])
                                        IN  [st EXCEPT !.amt = @ + 1]]
      PROVE  y \in Registries
  <2>1. k \in Operators \X Operators /\ x.stake[k] \in Stakes /\ x.cum[k[1]] \in Nat
    BY <1>0 DEF Delegations
  <2>2. PICK st : st = Settled1(x.stake[k], x.cum[k[1]])
    OBVIOUS
  <2>3. st \in Stakes /\ st.amt < MaxAmount
    BY <1>6, <2>1, <2>2, SettledTyped
  <2>4. PICK more : more = [st EXCEPT !.amt = st.amt + 1]
    OBVIOUS
  <2>5. more \in Stakes
    <3>1. st.amt \in 0..MaxAmount /\ st.amt + 1 \in 0..MaxAmount
      BY <2>3, RegistryAssumption DEF Stakes
    <3> QED BY <2>3, <2>4, <3>1 DEF Stakes
  <2>6. y = [x EXCEPT !.stake[k] = more]
    BY <1>6, <2>2, <2>4
  <2> QED BY <2>5, <2>6, StakeTyped
<1>7. ASSUME NEW d, NEW i, y = [x EXCEPT !.outs[d][i].amt = 0] PROVE y \in Registries
  BY <1>7, OutTyped
<1>8. CASE y \in RegistryMoves(x)
  BY <1>1, <1>2, <1>3, <1>8 DEF RegistryMoves
<1>9. CASE y \in PoolMoves(x)
  <2>1. CASE y \in {[x EXCEPT !.cum[o] = @ + 1] : o \in {p \in Operators : Staked(x, p)}}
    BY <1>5, <2>1
  <2>2. CASE y \in {[x EXCEPT !.stake[k] = LET st == Settled1(@, x.cum[k[1]])
                                           IN  [st EXCEPT !.amt = @ + 1]] :
                      k \in {j \in Delegations(x) : Welcome(x, j[1], j[2])
                               /\ Settled1(x.stake[j], x.cum[j[1]]).amt < MaxAmount}}
    BY <1>6, <2>2
  <2>3. CASE y \in {TakeOut(x, k[1], k[2]) :
                      k \in {j \in Delegations(x) : StakeAt(x, j[1], j[2]) > 0}}
    BY <1>3, <2>3 DEF Delegations
  <2>4. CASE y \in UNION {{[x EXCEPT !.outs[d][i].amt = 0] : i \in OpenOuts(x, d)} :
                            d \in Operators}
    BY <1>7, <2>4
  <2> QED BY <1>9, <2>1, <2>2, <2>3, <2>4 DEF PoolMoves
<1> QED BY <1>4, <1>8, <1>9

-----------------------------------------------------------------------------
(* What the calls put into a transaction.                                  *)

IxOK(ix, ants) == \/ ix.op \in AssetIxs /\ AssetOK(ix, ants)
                  \/ ix.op \in GarIxs /\ GarOK(ix)
TxOK(tx, ants) == (\E S : tx \in Seq(S)) /\ \A i \in DOMAIN tx : IxOK(tx[i], ants)

\* Transactions are put together from parts.
LEMMA JoinOK ==
  ASSUME NEW ants, NEW s, TxOK(s, ants), NEW t, TxOK(t, ants)
  PROVE  TxOK(s \o t, ants)
<1>1. PICK S : s \in Seq(S)
  BY DEF TxOK
<1>2. PICK T : t \in Seq(T)
  BY DEF TxOK
<1>3. s \in Seq(S \union T) /\ t \in Seq(S \union T)
  BY <1>1, <1>2
<1>4. s \o t \in Seq(S \union T)
  BY <1>3
<1>5. ASSUME NEW i \in DOMAIN (s \o t) PROVE IxOK((s \o t)[i], ants)
  <2>1. CASE i <= Len(s)
    <3>1. (s \o t)[i] = s[i] /\ i \in DOMAIN s
      BY <1>3, <1>4, <2>1
    <3> QED BY <3>1 DEF TxOK
  <2>2. CASE ~(i <= Len(s))
    <3>1. (s \o t)[i] = t[i - Len(s)] /\ i - Len(s) \in DOMAIN t
      BY <1>3, <1>4, <2>2
    <3> QED BY <3>1 DEF TxOK
  <2> QED BY <2>1, <2>2
<1> QED BY <1>4, <1>5 DEF TxOK

\* One instruction that is well formed makes a transaction.
LEMMA OneOK ==
  ASSUME NEW ants, NEW ix, IxOK(ix, ants)
  PROVE  TxOK(<<ix>>, ants)
<1>1. <<ix>> \in Seq({ix}) /\ \A i \in DOMAIN <<ix>> : <<ix>>[i] = ix
  OBVIOUS
<1> QED BY <1>1 DEF TxOK

\* So does none.
LEMMA NoneOK ==
  ASSUME NEW ants
  PROVE  TxOK(<<>>, ants)
<1>1. <<>> \in Seq({}) /\ DOMAIN <<>> = {}
  OBVIOUS
<1> QED BY <1>1 DEF TxOK

\* An instruction may be added at the end.
LEMMA AppendOK ==
  ASSUME NEW ants, NEW s, TxOK(s, ants), NEW ix, IxOK(ix, ants)
  PROVE  TxOK(Append(s, ix), ants)
<1>1. PICK S : s \in Seq(S)
  BY DEF TxOK
<1>2. s \in Seq(S \union {ix}) /\ <<ix>> \in Seq(S \union {ix})
  BY <1>1
<1>3. Append(s, ix) = s \o <<ix>>
  BY <1>2
<1> QED BY <1>3, OneOK, JoinOK

\* Instructions of a set of well formed ones make a transaction.
LEMMA ManyOK ==
  ASSUME NEW ants, NEW S, NEW tx \in Seq(S), \A ix \in S : IxOK(ix, ants)
  PROVE  TxOK(tx, ants)
<1>1. \A i \in DOMAIN tx : tx[i] \in S
  OBVIOUS
<1> QED BY <1>1 DEF TxOK

-----------------------------------------------------------------------------
(* The maintenance of access control lists.                                *)

AclInstrs(us, ants) ==
    [op : {"register"}, user : us] \union [op : {"add_page"}, user : us, page : Nat]
      \union [op : {"record", "remove"}, user : us, page : Nat,
               entry : EntriesOf(ants)]

\* Those instructions are well formed.
LEMMA AclInstrsOK ==
  ASSUME NEW ants, NEW us, NEW ix \in AclInstrs(us, ants)
  PROVE  IxOK(ix, ants)
<1>1. ix.op \in AclIxs /\ (ix.op \in {"record", "remove"} => ix.entry \in EntriesOf(ants))
  BY DEF AclInstrs, AclIxs
<1>2. ix.op \in AssetIxs
  BY <1>1 DEF AssetIxs
<1>3. AssetOK(ix, ants)
  BY <1>1 DEF AclIxs, AssetOK, EntriesOf
<1> QED BY <1>2, <1>3 DEF IxOK

\* A destination is a page of the list, or a new one after the last.
LEMMA DestinationTyped ==
  ASSUME NEW ants, NEW us, NEW u \in us, NEW acl \in Acls
  PROVE  /\ Destination(u, acl).page \in 1..(Len(acl.pages) + 1)
         /\ Destination(u, acl).prep \in Seq(AclInstrs(us, ants))
<1> DEFINE room == WithRoom(acl)
           page == IF room = {} THEN Len(acl.pages) + 1 ELSE Min(room)
           first == IF acl.exists THEN <<>> ELSE <<RegisterIx(u)>>
           second == IF room = {} THEN <<AddPageIx(u, page)>> ELSE <<>>
<1>1. acl.pages \in Seq(SUBSET Entries) /\ Len(acl.pages) \in Nat
      /\ DOMAIN acl.pages = 1..Len(acl.pages)
  BY DEF Acls, Entries
<1>2. room \subseteq 1..Len(acl.pages)
  BY <1>1 DEF WithRoom
<1>3. page \in 1..(Len(acl.pages) + 1)
  <2>1. CASE room = {}
    BY <1>1, <2>1
  <2>2. CASE room # {}
    <3>1. room \in SUBSET Nat
      BY <1>2
    <3> HIDE DEF room
    <3>2. Min(room) \in room
      BY <2>2, <3>1, MinOfNats
    <3>3. page = Min(room)
      BY <2>2
    <3> HIDE DEF page
    <3>4. page \in room
      BY <3>2, <3>3
    <3>5. page \in 1..Len(acl.pages)
      BY <1>2, <3>4
    <3> QED BY <1>1, <3>5
  <2> QED BY <2>1, <2>2
<1>4. first \in Seq(AclInstrs(us, ants))
  <2>1. RegisterIx(u) \in AclInstrs(us, ants)
    BY DEF RegisterIx, AclInstrs
  <2> QED BY <2>1
<1>5. second \in Seq(AclInstrs(us, ants))
  <2>1. page \in Nat
    BY <1>1, <1>3
  <2> HIDE DEF page, room
  <2>2. AddPageIx(u, page) \in AclInstrs(us, ants)
    BY <2>1 DEF AddPageIx, AclInstrs
  <2> QED BY <2>2
<1>6. Destination(u, acl).page = page /\ Destination(u, acl).prep = first \o second
  BY DEF Destination
<1> HIDE DEF page, first, second
<1> QED BY <1>3, <1>4, <1>5, <1>6

\* The plans of one operation keep lists and instructions typed.
Plans(us, ants) == [acls : [us -> Acls], ixs : Seq(AclInstrs(us, ants))]
AclOps(us, ants) == [action : {"record", "remove"}, user : us, entry : EntriesOf(ants)]

\* An operation that records an entry keeps the plan a plan.
LEMMA PlanRecordTyped ==
  ASSUME NEW ants, NEW us, NEW st \in Plans(us, ants), NEW op \in AclOps(us, ants)
  PROVE  PlanRecord(st, op) \in Plans(us, ants)
<1>u. PICK u : u = op.user /\ u \in us
  BY DEF AclOps
<1>l. PICK acl : acl = st.acls[u] /\ acl \in Acls
  BY <1>u DEF Plans
<1>d. PICK dest : dest = Destination(u, acl)
  OBVIOUS
<1>1. dest.page \in 1..(Len(acl.pages) + 1) /\ dest.prep \in Seq(AclInstrs(us, ants))
  BY <1>u, <1>l, <1>d, DestinationTyped
<1>2. acl.pages \in Seq(SUBSET Entries) /\ Len(acl.pages) \in Nat
  BY <1>l DEF Acls, Entries
<1> DEFINE grown == IF dest.page > Len(acl.pages) THEN Append(acl.pages, {}) ELSE acl.pages
           pages == [grown EXCEPT ![dest.page] = @ \union {op.entry}]
           ixs == st.ixs \o dest.prep \o <<RecordIx(u, dest.page, op.entry)>>
<1>3. grown \in Seq(SUBSET Entries) /\ dest.page \in DOMAIN grown
  BY <1>1, <1>2
<1>4. op.entry \in EntriesOf(ants) /\ op.entry \in Entries
  BY DEF AclOps, EntriesOf
<1>5. pages \in Seq(SUBSET Entries)
  <2> HIDE DEF grown
  <2>1. grown[dest.page] \union {op.entry} \in SUBSET Entries
    BY <1>3, <1>4
  <2> QED BY <1>3, <2>1
<1> DEFINE acls == [st.acls EXCEPT ![u].pages = pages]
<1>6. acls \in [us -> Acls]
  <2> HIDE DEF pages
  <2>1. [acl EXCEPT !.pages = pages] \in Acls
    BY <1>l, <1>5 DEF Acls, Entries
  <2>2. acls = [st.acls EXCEPT ![u] = [acl EXCEPT !.pages = pages]]
    BY <1>l
  <2> QED BY <2>1, <2>2 DEF Plans
<1>7. ixs \in Seq(AclInstrs(us, ants))
  <2>1. dest.page \in Nat
    BY <1>1, <1>2
  <2>2. RecordIx(u, dest.page, op.entry) \in AclInstrs(us, ants)
    BY <1>u, <1>4, <2>1 DEF RecordIx, AclInstrs
  <2>3. st.ixs \in Seq(AclInstrs(us, ants))
    BY DEF Plans
  <2> QED BY <1>1, <2>2, <2>3
<1>8. PlanRecord(st, op) \in {st, [acls |-> acls, ixs |-> ixs]}
  BY <1>u, <1>l, <1>d DEF PlanRecord
<1> HIDE DEF acls, ixs
<1>9. [acls |-> acls, ixs |-> ixs] \in Plans(us, ants)
  BY <1>6, <1>7 DEF Plans
<1> QED BY <1>8, <1>9

\* So does one that removes an entry,
LEMMA PlanRemoveTyped ==
  ASSUME NEW ants, NEW us, NEW st \in Plans(us, ants), NEW op \in AclOps(us, ants)
  PROVE  PlanRemove(st, op) \in Plans(us, ants)
<1>u. PICK u : u = op.user /\ u \in us
  BY DEF AclOps
<1>l. PICK acl : acl = st.acls[u] /\ acl \in Acls
  BY <1>u DEF Plans
<1>h. PICK held : held = Holding(acl, op.entry)
  OBVIOUS
<1>1. CASE held = {}
  BY <1>u, <1>l, <1>h, <1>1 DEF PlanRemove
<1>2. CASE held # {}
  <2>1. acl.pages \in Seq(SUBSET Entries) /\ held \subseteq DOMAIN acl.pages
    BY <1>l, <1>h DEF Acls, Entries, Holding
  <2>2. held \in SUBSET Nat
    BY <2>1
  <2>3. PICK i : i = Min(held) /\ i \in DOMAIN acl.pages /\ i \in Nat
    BY <1>2, <2>1, <2>2, MinOfNats
  <2>4. acl.pages[i] \ {op.entry} \in SUBSET Entries
    BY <2>1, <2>3
  <2>5. [acl EXCEPT !.pages[i] = acl.pages[i] \ {op.entry}] \in Acls
    BY <1>l, <2>3, <2>4, PagesTyped
  <2>n. PICK new : new = [acl EXCEPT !.pages[i] = acl.pages[i] \ {op.entry}]
    OBVIOUS
  <2>6. [st.acls EXCEPT ![u] = new] \in [us -> Acls]
    BY <2>5, <2>n, <1>u DEF Plans
  <2>7. op.entry \in EntriesOf(ants) /\ st.ixs \in Seq(AclInstrs(us, ants))
    BY DEF AclOps, Plans
  <2>8. RemoveIx(u, i, op.entry) \in AclInstrs(us, ants)
    BY <1>u, <2>3, <2>7 DEF RemoveIx, AclInstrs
  <2>9. Append(st.ixs, RemoveIx(u, i, op.entry)) \in Seq(AclInstrs(us, ants))
    BY <2>7, <2>8
  <2>10. PlanRemove(st, op) = [acls |-> [st.acls EXCEPT ![u].pages[i] = @ \ {op.entry}],
                               ixs |-> Append(st.ixs, RemoveIx(u, i, op.entry))]
    BY <1>u, <1>l, <1>h, <1>2, <2>3 DEF PlanRemove
  <2>11. [st.acls EXCEPT ![u].pages[i] = @ \ {op.entry}] = [st.acls EXCEPT ![u] = new]
    BY <1>l, <2>n
  <2>12. PICK acls \in [us -> Acls] : acls = [st.acls EXCEPT ![u] = new]
    BY <2>6
  <2>13. PICK ixs \in Seq(AclInstrs(us, ants)) : ixs = Append(st.ixs, RemoveIx(u, i, op.entry))
    BY <2>9
  <2>14. PlanRemove(st, op) = [acls |-> acls, ixs |-> ixs]
    BY <2>10, <2>11, <2>12, <2>13
  <2> QED BY <2>14 DEF Plans
<1> QED BY <1>1, <1>2

\* and a head for a user that had none.
LEMMA PlanHeadTyped ==
  ASSUME NEW ants, NEW us, NEW st \in Plans(us, ants), NEW op \in AclOps(us, ants)
  PROVE  [acls |-> [st.acls EXCEPT ![op.user].exists = TRUE],
          ixs  |-> Append(st.ixs, RegisterIx(op.user))] \in Plans(us, ants)
<1>u. PICK u : u = op.user /\ u \in us
  BY DEF AclOps
<1>l. PICK acl : acl = st.acls[u] /\ acl \in Acls
  BY <1>u DEF Plans
<1>1. [acl EXCEPT !.exists = TRUE] \in Acls
  BY <1>l DEF Acls
<1>2. [st.acls EXCEPT ![u].exists = TRUE] = [st.acls EXCEPT ![u] = [acl EXCEPT !.exists = TRUE]]
  BY <1>l
<1>3. [st.acls EXCEPT ![u].exists = TRUE] \in [us -> Acls]
  BY <1>1, <1>2 DEF Plans
<1>4. Append(st.ixs, RegisterIx(u)) \in Seq(AclInstrs(us, ants))
  <2>1. RegisterIx(u) \in AclInstrs(us, ants) /\ st.ixs \in Seq(AclInstrs(us, ants))
    BY <1>u DEF RegisterIx, AclInstrs, Plans
  <2> QED BY <2>1
<1> QED BY <1>u, <1>3, <1>4 DEF Plans

\* The first pass makes a plan of heads.
LEMMA PlanHeadsTyped ==
  ASSUME NEW ants, NEW us, NEW ops \in Seq(AclOps(us, ants)), NEW acls \in [us -> Acls]
  PROVE  PlanHeads(ops, acls) \in Plans(us, ants)
<1> DEFINE V == Plans(us, ants)
           n == Len(ops)
           base == [acls |-> acls, ixs |-> <<>>]
           New(st, op) ==
             IF op.action # "record" \/ st.acls[op.user].exists THEN st
             ELSE [acls |-> [st.acls EXCEPT ![op.user].exists = TRUE],
                   ixs  |-> Append(st.ixs, RegisterIx(op.user))]
           G == [p \in V \X (1..n) |-> New(p[1], ops[p[2]])]
           it == CHOOSE tab : tab = [s \in SUBSET DOMAIN ops |->
                   IF s = {} THEN base
                   ELSE LET x == Max(s) IN New(tab[s \ {x}], ops[x])]
<1>1. n \in Nat /\ DOMAIN ops = 1..n /\ \A j \in 1..n : ops[j] \in AclOps(us, ants)
  OBVIOUS
<1>2. base \in V
  BY DEF Plans
<1>n. ASSUME NEW st \in V, NEW j \in 1..n PROVE New(st, ops[j]) \in V
  BY <1>1, PlanHeadTyped
<1>3. G \in [V \X (1..n) -> V]
  <2> HIDE DEF New, V, n
  <2> QED BY <1>n
<1>4. PICK tab \in [SUBSET (1..n) -> V] : FoldsLeft(tab, n, base, G)
  <2> HIDE DEF G, base, V
  <2> QED BY <1>1, <1>2, <1>3, FoldLeftExists
<1>5. tab = [s \in SUBSET DOMAIN ops |->
             IF s = {} THEN base
             ELSE LET x == Max(s) IN New(tab[s \ {x}], ops[x])]
  <2>1. \A s \in SUBSET (1..n) : s # {} => Max(s) \in 1..n
    BY <1>1, MaxOfPositions
  <2>2. \A s \in SUBSET (1..n) :
          s # {} => G[<<tab[s \ {Max(s)}], Max(s)>>] = New(tab[s \ {Max(s)}], ops[Max(s)])
    <3> HIDE DEF New, V, n
    <3> QED BY <2>1
  <2> HIDE DEF G, base, New, V
  <2> QED BY <1>1, <1>4, <2>2 DEF FoldsLeft
<1>6. it = [s \in SUBSET DOMAIN ops |->
              IF s = {} THEN base
              ELSE LET x == Max(s) IN New(it[s \ {x}], ops[x])]
  <2> HIDE DEF base, New
  <2> QED BY <1>5
<1>7. Unfolds(it, n, V, base, G)
  <2>1. \A s \in SUBSET (1..n) : s # {} => Max(s) \in 1..n
    BY <1>1, MaxOfPositions
  <2> HIDE DEF it, base, New, V
  <2> QED BY <1>1, <1>6, <2>1 DEF Unfolds
<1>8. Runs(it, n, V, base, G)
  <2> HIDE DEF it, G, base, V
  <2> QED BY <1>1, <1>2, <1>3, <1>7, FoldRuns
<1>9. PlanHeads(ops, acls) = it[1..n]
  BY <1>1 DEF PlanHeads, FoldLeft, MapThenFoldSet
<1>10. it[1..n] \in V
  <2>1. n \in 0..n
    BY <1>1
  <2> HIDE DEF it, G, base, V
  <2> QED BY <1>8, <2>1 DEF Runs
<1> QED BY <1>9, <1>10

\* The second pass adds the entries, or takes them away.
LEMMA PlanTyped ==
  ASSUME NEW ants, NEW us, NEW ops \in Seq(AclOps(us, ants)), NEW acls \in [us -> Acls]
  PROVE  PlanAclMaintenance(ops, acls) \in Seq(AclInstrs(us, ants))
<1> DEFINE V == Plans(us, ants)
           n == Len(ops)
           base == PlanHeads(ops, acls)
           Plan(st, op) == IF op.action = "record" THEN PlanRecord(st, op)
                                                   ELSE PlanRemove(st, op)
           G == [p \in V \X (1..n) |-> Plan(p[1], ops[p[2]])]
           it == CHOOSE tab : tab = [s \in SUBSET DOMAIN ops |->
                   IF s = {} THEN base
                   ELSE LET x == Max(s) IN Plan(tab[s \ {x}], ops[x])]
<1>1. n \in Nat /\ DOMAIN ops = 1..n /\ \A j \in 1..n : ops[j] \in AclOps(us, ants)
  OBVIOUS
<1>2. base \in V
  BY PlanHeadsTyped
<1>n. ASSUME NEW st \in V, NEW j \in 1..n PROVE Plan(st, ops[j]) \in V
  BY <1>1, PlanRecordTyped, PlanRemoveTyped
<1>3. G \in [V \X (1..n) -> V]
  <2> HIDE DEF Plan, V, n
  <2> QED BY <1>n
<1>4. PICK tab \in [SUBSET (1..n) -> V] : FoldsLeft(tab, n, base, G)
  <2> HIDE DEF G, base, V
  <2> QED BY <1>1, <1>2, <1>3, FoldLeftExists
<1>5. tab = [s \in SUBSET DOMAIN ops |->
             IF s = {} THEN base
             ELSE LET x == Max(s) IN Plan(tab[s \ {x}], ops[x])]
  <2>1. \A s \in SUBSET (1..n) : s # {} => Max(s) \in 1..n
    BY <1>1, MaxOfPositions
  <2>2. \A s \in SUBSET (1..n) :
          s # {} => G[<<tab[s \ {Max(s)}], Max(s)>>] = Plan(tab[s \ {Max(s)}], ops[Max(s)])
    <3> HIDE DEF Plan, V, n
    <3> QED BY <2>1
  <2> HIDE DEF G, base, Plan, V
  <2> QED BY <1>1, <1>4, <2>2 DEF FoldsLeft
<1>6. it = [s \in SUBSET DOMAIN ops |->
              IF s = {} THEN base
              ELSE LET x == Max(s) IN Plan(it[s \ {x}], ops[x])]
  <2> HIDE DEF base, Plan
  <2> QED BY <1>5
<1>7. Unfolds(it, n, V, base, G)
  <2>1. \A s \in SUBSET (1..n) : s # {} => Max(s) \in 1..n
    BY <1>1, MaxOfPositions
  <2> HIDE DEF it, base, Plan, V
  <2> QED BY <1>1, <1>6, <2>1 DEF Unfolds
<1>8. Runs(it, n, V, base, G)
  <2> HIDE DEF it, G, base, V
  <2> QED BY <1>1, <1>2, <1>3, <1>7, FoldRuns
<1>9. PlanAclMaintenance(ops, acls) = it[1..n].ixs
  BY <1>1 DEF PlanAclMaintenance, FoldLeft, MapThenFoldSet
<1>10. it[1..n] \in V
  <2>1. n \in 0..n
    BY <1>1
  <2> HIDE DEF it, G, base, V
  <2> QED BY <1>8, <2>1 DEF Runs
<1> HIDE DEF it
<1> QED BY <1>9, <1>10 DEF Plans

\* A finite set as a sequence.
LEMMA SeqOfSet ==
  ASSUME NEW S, IsFiniteSet(S)
  PROVE  SetToSeq(S) \in Seq(S)
<1> DEFINE n == Cardinality(S)
<1>1. n \in Nat /\ \E f \in [1..n -> S] : IsInjective(f)
  BY FS_CardinalityType DEF ExistsBijection, Bijection, Injection, IsInjective
<1>2. SetToSeq(S) \in [1..n -> S]
  BY <1>1 DEF SetToSeq
<1> QED BY <1>1, <1>2

\* What it comes to for the owner of a new ANT, and for former controllers.
LEMMA BootstrapOK ==
  ASSUME NEW ants, NEW u, NEW a \in Ants, a \in ants, NEW acl \in Acls
  PROVE  TxOK(BootstrapOwner(u, a, acl), ants)
<1> DEFINE ops == <<Op("record", "owner", u, a), Op("record", "controller", u, a)>>
<1>1. ops \in Seq(AclOps({u}, ants))
  BY DEF Op, Entry, AclOps, Entries, EntriesOf
<1>2. Just(u, acl) \in [{u} -> Acls]
  BY DEF Just
<1>3. PlanAclMaintenance(ops, Just(u, acl)) \in Seq(AclInstrs({u}, ants))
  <2> HIDE DEF ops
  <2> QED BY <1>1, <1>2, PlanTyped
<1> QED BY <1>3, AclInstrsOK, ManyOK DEF BootstrapOwner

\* What removes the entries of the former controllers is well formed.
LEMMA CleanupOK ==
  ASSUME NEW ants, NEW a \in Ants, a \in ants, NEW us, IsFiniteSet(us), NEW acls \in [us -> Acls]
  PROVE  TxOK(RemoveControllers(a, SetToSeq(us), acls), ants)
<1>u. PICK users : users = SetToSeq(us)
  OBVIOUS
<1>1. users \in Seq(us)
  BY <1>u, SeqOfSet
<1> DEFINE ops == [i \in DOMAIN users |-> Op("remove", "controller", users[i], a)]
<1>2. ops \in Seq(AclOps(us, ants))
  <2>1. \A i \in DOMAIN users : Op("remove", "controller", users[i], a) \in AclOps(us, ants)
    BY <1>1 DEF Op, Entry, AclOps, Entries, EntriesOf
  <2>2. DOMAIN users = 1..Len(users) /\ Len(users) \in Nat
    BY <1>1
  <2> QED BY <2>1, <2>2
<1>3. PlanAclMaintenance(ops, acls) \in Seq(AclInstrs(us, ants))
  <2> HIDE DEF ops
  <2> QED BY <1>2, PlanTyped
<1> QED BY <1>u, <1>3, AclInstrsOK, ManyOK DEF RemoveControllers

-----------------------------------------------------------------------------
(* What is asked, and what has been read.                                  *)

\* A call keeps what it was asked while it goes from stage to stage.
Asked(p) ==
    /\ "sig" \in DOMAIN p
    /\ \E q \in Asks : \A f \in DOMAIN q : f \in DOMAIN p /\ p[f] = q[f]

\* Requests say what to do, and nothing of how far a call has come.
LEMMA NoStage ==
  ASSUME NEW q \in Asks
  PROVE  /\ "op" \in DOMAIN q
         /\ {"stage", "sig", "start", "got"} \intersect DOMAIN q = {}
<1>1. CASE q \in AntAsks
  BY <1>1 DEF AntAsks
<1>2. CASE q \in RecordAsks
  BY <1>2 DEF RecordAsks
<1>3. CASE q \in EscrowAsks
  BY <1>3 DEF EscrowAsks, EscrowAsk
<1>4. CASE q \in NameAsks
  BY <1>4 DEF NameAsks
<1>5. CASE q \in QueryAsks
  BY <1>5 DEF QueryAsks
<1>6. CASE q \in RegistryAsks
  BY <1>6 DEF RegistryAsks
<1>7. CASE q \in PoolAsks
  BY <1>7 DEF PoolAsks
<1>8. CASE q \in WalkAsks
  BY <1>8 DEF WalkAsks
<1> QED BY <1>1, <1>2, <1>3, <1>4, <1>5, <1>6, <1>7, <1>8 DEF Asks

\* A call that begins is asked what the request says.
LEMMA AskedFirst ==
  ASSUME NEW q \in Asks, NEW s
  PROVE  LET p == With(q, [stage |-> 1, sig |-> s, start |-> 0, got |-> <<>>])
         IN  Asked(p) /\ p.op = q.op /\ p.sig = s /\ "stage" \in DOMAIN p /\ p.stage = 1
<1> DEFINE more == [stage |-> 1, sig |-> s, start |-> 0, got |-> <<>>]
           p == With(q, more)
<1>1. /\ "op" \in DOMAIN q /\ "sig" \notin DOMAIN q /\ "stage" \notin DOMAIN q
      /\ "sig" \in DOMAIN more /\ more["sig"] = s /\ "stage" \in DOMAIN more /\ more["stage"] = 1
  BY NoStage
<1> HIDE DEF more
<1>2. /\ DOMAIN p = DOMAIN q \union DOMAIN more
      /\ \A f \in DOMAIN q : p[f] = q[f]
      /\ \A f \in DOMAIN more : f \notin DOMAIN q => p[f] = more[f]
  BY DEF With
<1> HIDE DEF p
<1>3. Asked(p)
  BY <1>1, <1>2 DEF Asked
<1>4. p["op"] = q["op"] /\ p["sig"] = s /\ "stage" \in DOMAIN p /\ p["stage"] = 1
  BY <1>1, <1>2
<1> QED BY <1>3, <1>4 DEF p, more

\* It is still asked that in a later stage or on a later page.
LEMMA AskedStill ==
  ASSUME NEW p, Asked(p), NEW r, DOMAIN r = DOMAIN p,
         \A f \in DOMAIN p : f \notin {"stage", "start", "got"} => r[f] = p[f]
  PROVE  Asked(r) /\ r.op = p.op /\ r.sig = p.sig
<1>1. PICK q \in Asks : \A f \in DOMAIN q : f \in DOMAIN p /\ p[f] = q[f]
  BY DEF Asked
<1>2. "op" \in DOMAIN q /\ \A f \in DOMAIN q : f \notin {"stage", "start", "got"}
  BY NoStage
<1>3. \A f \in DOMAIN q : f \in DOMAIN r /\ r[f] = q[f]
  BY <1>1, <1>2
<1>4. "sig" \in DOMAIN p /\ r["sig"] = p["sig"] /\ r["op"] = p["op"]
  BY <1>1, <1>2 DEF Asked
<1> QED BY <1>3, <1>4 DEF Asked

\* What each kind of call is asked with.
LEMMA AntAsked ==
  ASSUME NEW p, Asked(p), p.op \in AntOps
  PROVE  /\ p.a \in Ants /\ p.by \in Users /\ p.u \in Users
         /\ p.op = "setRecord" => p.own \in Users \union {Nobody}
<1>1. PICK q \in Asks : \A f \in DOMAIN q : f \in DOMAIN p /\ p[f] = q[f]
  BY DEF Asked
<1>2. "op" \in DOMAIN q /\ q.op \in AntOps
  BY <1>1, NoStage
<1>3. q \in AntAsks \/ q \in RecordAsks
  BY <1>2 DEF Asks, AntOps, AntAsks, RecordAsks, EscrowAsks, EscrowAsk, EscrowOps, Claims,
              AntEscrowOps, AntClaims, TokenClaims, VaultClaims, NameAsks, NameOps, QueryAsks,
              QueryOps, RegistryAsks, RegistryOps, PoolAsks, PoolOps, WalkAsks
<1>4. CASE q \in AntAsks
  <2>1. {"op", "a", "by", "u"} \subseteq DOMAIN q /\ q.a \in Ants /\ q.by \in Users /\ q.u \in Users
        /\ q.op # "setRecord"
    BY <1>4 DEF AntAsks
  <2> QED BY <1>1, <2>1
<1>5. CASE q \in RecordAsks
  <2>1. {"op", "a", "by", "u", "own"} \subseteq DOMAIN q /\ q.a \in Ants /\ q.by \in Users
        /\ q.u \in Users /\ q.own \in Users \union {Nobody}
    BY <1>5 DEF RecordAsks
  <2> QED BY <1>1, <2>1
<1> QED BY <1>3, <1>4, <1>5

\* A call of the escrows names users, a recipient and an escrow.
LEMMA EscrowAsked ==
  ASSUME NEW p, Asked(p), p.op \in EscrowOps
  PROVE  /\ p.by \in Users /\ p.dep \in Users /\ p.r \in Recipients /\ p.u \in Users
         /\ p.canonical \in BOOLEAN
         /\ BoxOf(p) \in Boxes
         /\ p.op = "cancelTokens" => OwnBox(p) \in Boxes
         /\ p.op \notin AntEscrowOps => BoxOf(p) \notin Ants /\ OwnBox(p) \notin Ants
<1>1. PICK q \in Asks : \A f \in DOMAIN q : f \in DOMAIN p /\ p[f] = q[f]
  BY DEF Asked
<1>2. "op" \in DOMAIN q /\ q.op \in EscrowOps
  BY <1>1, NoStage
<1>3. q \in EscrowAsks
  BY <1>2 DEF Asks, AntOps, AntAsks, RecordAsks, EscrowAsks, EscrowAsk, EscrowOps, Claims,
              AntEscrowOps, AntClaims, TokenClaims, VaultClaims, NameAsks, NameOps, QueryAsks,
              QueryOps, RegistryAsks, RegistryOps, PoolAsks, PoolOps, WalkAsks
<1>4. /\ {"op", "by", "dep", "r", "u", "box", "kind", "canonical"} \subseteq DOMAIN q
      /\ q.by \in Users /\ q.dep \in Users /\ q.r \in Recipients /\ q.u \in Users
      /\ q.box \in Ants /\ q.canonical \in BOOLEAN
      /\ q.op \notin AntEscrowOps => q.kind \in {"token", "vault"}
  BY <1>3 DEF EscrowAsks, EscrowAsk
<1>5. /\ p.by \in Users /\ p.dep \in Users /\ p.r \in Recipients /\ p.u \in Users
      /\ p.box \in Ants /\ p.canonical \in BOOLEAN
      /\ p.op \notin AntEscrowOps => p.kind \in {"token", "vault"}
  BY <1>1, <1>4
<1>6. BoxOf(p) \in Boxes
  BY <1>5 DEF BoxOf, Boxes, TokenBox, VaultBox, OwnBox, AntEscrowOps
<1>7. p.op = "cancelTokens" => OwnBox(p) \in Boxes
  BY <1>5 DEF Boxes, OwnBox, AntEscrowOps, AntClaims
<1>8. p.op \notin AntEscrowOps => BoxOf(p) \notin Ants /\ OwnBox(p) \notin Ants
  BY <1>5, LedgerAssumption DEF BoxOf, TokenBox, VaultBox, OwnBox, AntEscrowOps
<1> QED BY <1>5, <1>6, <1>7, <1>8

\* A call about names names one, and users and ANTs.
LEMMA NameAsked ==
  ASSUME NEW p, Asked(p), p.op \in NameOps
  PROVE  /\ p.n \in Names /\ p.by \in Users /\ p.u \in Users /\ p.a \in Ants /\ p.to \in Ants
         /\ {"op", "n", "by", "a"} \subseteq DOMAIN p
<1>1. PICK q \in Asks : \A f \in DOMAIN q : f \in DOMAIN p /\ p[f] = q[f]
  BY DEF Asked
<1>2. "op" \in DOMAIN q /\ q.op \in NameOps
  BY <1>1, NoStage
<1>3. q \in NameAsks
  BY <1>2 DEF Asks, AntOps, AntAsks, RecordAsks, EscrowAsks, EscrowAsk, EscrowOps, Claims,
              AntEscrowOps, AntClaims, TokenClaims, VaultClaims, NameAsks, NameOps, QueryAsks,
              QueryOps, RegistryAsks, RegistryOps, PoolAsks, PoolOps, WalkAsks
<1>4. /\ {"n", "by", "u", "a", "to"} \subseteq DOMAIN q
      /\ q.n \in Names /\ q.by \in Users /\ q.u \in Users /\ q.a \in Ants /\ q.to \in Ants
  BY <1>3 DEF NameAsks
<1> QED BY <1>1, <1>2, <1>4

\* A call about the registry names operators.
LEMMA RegistryAsked ==
  ASSUME NEW p, Asked(p), p.op \in RegistryOps
  PROVE  p.o \in Operators /\ p.os \subseteq Operators
<1>1. PICK q \in Asks : \A f \in DOMAIN q : f \in DOMAIN p /\ p[f] = q[f]
  BY DEF Asked
<1>2. "op" \in DOMAIN q /\ q.op \in RegistryOps
  BY <1>1, NoStage
<1>3. q \in RegistryAsks
  BY <1>2 DEF Asks, AntOps, AntAsks, RecordAsks, EscrowAsks, EscrowAsk, EscrowOps, Claims,
              AntEscrowOps, AntClaims, TokenClaims, VaultClaims, NameAsks, NameOps, QueryAsks,
              QueryOps, RegistryAsks, RegistryOps, PoolAsks, PoolOps, WalkAsks
<1>4. {"o", "os"} \subseteq DOMAIN q /\ q.o \in Operators /\ q.os \subseteq Operators
  BY <1>3 DEF RegistryAsks
<1> QED BY <1>1, <1>4

\* So does one about the stakes.
LEMMA PoolAsked ==
  ASSUME NEW p, Asked(p), p.op \in PoolOps
  PROVE  p.o \in Operators /\ p.d \in Operators /\ p.key \in Operators \union {NoOperator}
<1>1. PICK q \in Asks : \A f \in DOMAIN q : f \in DOMAIN p /\ p[f] = q[f]
  BY DEF Asked
<1>2. "op" \in DOMAIN q /\ q.op \in PoolOps
  BY <1>1, NoStage
<1>3. q \in PoolAsks
  BY <1>2 DEF Asks, AntOps, AntAsks, RecordAsks, EscrowAsks, EscrowAsk, EscrowOps, Claims,
              AntEscrowOps, AntClaims, TokenClaims, VaultClaims, NameAsks, NameOps, QueryAsks,
              QueryOps, RegistryAsks, RegistryOps, PoolAsks, PoolOps, WalkAsks
<1>4. /\ {"o", "d", "key"} \subseteq DOMAIN q
      /\ q.o \in Operators /\ q.d \in Operators /\ q.key \in Operators \union {NoOperator}
  BY <1>3 DEF PoolAsks
<1> QED BY <1>1, <1>4

\* Every call is of one of the kinds.
LEMMA AskedKinds ==
  ASSUME NEW p, Asked(p)
  PROVE  p.op \in AntOps \union EscrowOps \union NameOps \union QueryOps \union RegistryOps
                    \union PoolOps \union {"walk"}
<1>1. PICK q \in Asks : \A f \in DOMAIN q : f \in DOMAIN p /\ p[f] = q[f]
  BY DEF Asked
<1>2. "op" \in DOMAIN q
  BY NoStage
<1>3. q.op \in AntOps \union EscrowOps \union NameOps \union QueryOps \union RegistryOps
                 \union PoolOps \union {"walk"}
  BY DEF Asks, AntOps, AntAsks, RecordAsks, EscrowAsks, EscrowAsk, EscrowOps, Claims,
              AntEscrowOps, AntClaims, TokenClaims, VaultClaims, NameAsks,
              QueryAsks, RegistryAsks, PoolAsks, WalkAsks
<1> QED BY <1>1, <1>2, <1>3

\* What a read returns, as far as instructions are made of it.
KeyOK(key, v) ==
    /\ key[1] = "acl" => v \in Acls
    /\ key[1] = "ctrl" /\ key[2] \in Ants => v \subseteq Users
    /\ key[1] = "slots" => v \in Seq(Operators)
    /\ key[1] = "observation" => v \subseteq key[2]
    /\ key[1] = "stakes" => DOMAIN v \subseteq Operators \X Operators
SeenOK(seen) == \A key \in DOMAIN seen : KeyOK(key, seen[key])

\* Whatever is read is of the kind that its key stands for.
LEMMA ValueOK ==
  ASSUME NEW x \in Ledgers, NEW y \in Registries, NEW key
  PROVE  KeyOK(key, ValueOf(x, y, key))
<1>0. x \in LedgerType /\ y \in RegistryType
  BY DEF Ledgers, Registries
<1>1. CASE key[1] = "acl"
  <2>1. ValueOf(x, y, key) = AclOf(x, key[2])
    BY <1>1 DEF ValueOf, NameValue, AntValue
  <2>2. NoAcl \in Acls
    BY DEF NoAcl, Acls
  <2>3. AclOf(x, key[2]) \in Acls
    BY <1>0, <2>2 DEF AclOf, LedgerType
  <2> QED BY <1>1, <2>1, <2>3 DEF KeyOK
<1>2. CASE key[1] = "ctrl"
  <2>1. ValueOf(x, y, key) = x.ctrl[key[2]]
    BY <1>2 DEF ValueOf, NameValue, AntValue
  <2>2. key[2] \in Ants => x.ctrl[key[2]] \subseteq Users
    BY <1>0 DEF LedgerType
  <2> QED BY <1>2, <2>1, <2>2 DEF KeyOK
<1>3. CASE key[1] = "slots"
  <2>1. ValueOf(x, y, key) = y.slots
    BY <1>3 DEF ValueOf, RegistryValue
  <2>2. y.slots \in Seq(Operators)
    BY <1>0 DEF RegistryType
  <2> QED BY <1>3, <2>1, <2>2 DEF KeyOK
<1>4. CASE key[1] = "observation"
  <2>1. ValueOf(x, y, key) = {o \in key[2] : y.report[o] # NoOperator /\ o \notin y.closed}
    BY <1>4 DEF ValueOf, RegistryValue
  <2> QED BY <1>4, <2>1 DEF KeyOK
<1>5. CASE key[1] = "stakes"
  <2>1. ValueOf(x, y, key) = [k \in Delegations(y) \intersect (key[2] \X key[3]) |-> y.stake[k]]
    BY <1>5 DEF ValueOf, PoolValue
  <2>2. Delegations(y) \subseteq Operators \X Operators
    BY DEF Delegations
  <2>3. DOMAIN ValueOf(x, y, key) = Delegations(y) \intersect (key[2] \X key[3])
    BY <2>1
  <2> QED BY <1>5, <2>2, <2>3 DEF KeyOK
<1> QED BY <1>1, <1>2, <1>3, <1>4, <1>5 DEF KeyOK

\* What has been read so far stays well formed when one value comes in.
LEMMA SeenMore ==
  ASSUME NEW seen, SeenOK(seen), NEW key, NEW v, KeyOK(key, v)
  PROVE  SeenOK(With(seen, Just(key, v)))
BY DEF SeenOK, With, Just

\* A call that has read nothing has read nothing ill formed.
LEMMA NothingSeen ==
  SeenOK(<<>>)
<1>1. DOMAIN <<>> = {}
  OBVIOUS
<1> QED BY <1>1 DEF SeenOK

\* What is left to read, and when it is nothing.
LEMMA AllInTurn ==
  ASSUME NEW keys, NEW seen, InTurn(keys, seen) = {}
  PROVE  \A i \in DOMAIN keys : keys[i] \in DOMAIN seen
BY DEF InTurn, Unread

\* Nothing is left of what is read at once when all of it was read.
LEMMA AllAtOnce ==
  ASSUME NEW keys, NEW seen, AtOnce(keys, seen) = {}
  PROVE  keys \subseteq DOMAIN seen
BY DEF AtOnce

\* Of two groups of reads, both are done when nothing is left.
LEMMA BothRead ==
  ASSUME NEW first, NEW next, Then(first, next) = {}
  PROVE  first = {} /\ next = {}
BY DEF Then

\* What With makes has the fields of both, the first first.
LEMMA WithFields ==
  ASSUME NEW f, NEW more
  PROVE  /\ DOMAIN With(f, more) = DOMAIN f \union DOMAIN more
         /\ \A k \in DOMAIN f : With(f, more)[k] = f[k]
         /\ \A k \in DOMAIN more : k \notin DOMAIN f => With(f, more)[k] = more[k]
BY DEF With

\* A list that was read is a list.
LEMMA AclSeen ==
  ASSUME NEW seen, SeenOK(seen), NEW u, NEW i, Acl(u, i) \in DOMAIN seen
  PROVE  seen[Acl(u, i)] \in Acls
BY DEF SeenOK, KeyOK, Acl

\* Controllers that were read are users, and finitely many.
LEMMA CtrlSeen ==
  ASSUME NEW seen, SeenOK(seen), NEW a \in Ants, Ctrl(a) \in DOMAIN seen
  PROVE  seen[Ctrl(a)] \subseteq Users /\ IsFiniteSet(seen[Ctrl(a)])
<1>1. seen[Ctrl(a)] \subseteq Users
  BY DEF SeenOK, KeyOK, Ctrl
<1> QED BY <1>1, LedgerAssumption, FS_Subset

-----------------------------------------------------------------------------
(* The transactions of ANTs.                                               *)

\* What comes before a new entry is well formed.
LEMMA PrepOK ==
  ASSUME NEW ants, NEW u, NEW acl \in Acls
  PROVE  TxOK(Destination(u, acl).prep, ants)
<1>1. Destination(u, acl).prep \in Seq(AclInstrs({u}, ants))
  BY DestinationTyped
<1> QED BY <1>1, AclInstrsOK, ManyOK

\* Recording and removing an entry are well formed.
LEMMA RecordsOK ==
  ASSUME NEW ants, NEW u, NEW i, NEW a \in Ants, a \in ants, NEW role \in {"owner", "controller"}
  PROVE  /\ TxOK(<<RecordIx(u, i, Entry(a, role))>>, ants)
         /\ IxOK(RecordIx(u, i, Entry(a, role)), ants)
         /\ TxOK(<<RemoveIx(u, i, Entry(a, role))>>, ants)
<1>1. IxOK(RecordIx(u, i, Entry(a, role)), ants)
  BY DEF RecordIx, Entry, Entries, EntriesOf, IxOK, AssetIxs, AclIxs, AssetOK
<1>2. IxOK(RemoveIx(u, i, Entry(a, role)), ants)
  BY DEF RemoveIx, Entry, Entries, IxOK, AssetIxs, AclIxs, AssetOK
<1> QED BY <1>1, <1>2, OneOK

\* So is the removal of the entries of all controllers that were read.
LEMMA ControllersOK ==
  ASSUME NEW ants, NEW p, p.a \in Ants, p.a \in ants, NEW seen, SeenOK(seen), NEW i,
         Ctrl(p.a) \in DOMAIN seen, ControllersAcls(p, seen, i) = {}
  PROVE  TxOK(Cleanup(p, seen, i), ants)
<1> PICK users : users = seen[Ctrl(p.a)]
  OBVIOUS
<1>1. users \subseteq Users /\ IsFiniteSet(users)
  BY CtrlSeen
<1>2. {Acl(u, i) : u \in users} \subseteq DOMAIN seen
  BY AllAtOnce DEF ControllersAcls
<1>3. [u \in users |-> seen[Acl(u, i)]] \in [users -> Acls]
  BY <1>2, AclSeen
<1>4. TxOK(RemoveControllers(p.a, SetToSeq(users), [u \in users |-> seen[Acl(u, i)]]), ants)
  BY <1>1, <1>3, CleanupOK
<1> QED BY <1>4 DEF Cleanup

\* The transactions of the calls about ANTs are well formed: addController,
LEMMA AddControllerOK ==
  ASSUME NEW ants, NEW p, Asked(p), p.op = "addController", NEW seen, SeenOK(seen),
         AntReads(p, seen) = {}
  PROVE  TxOK(AddControllerTx(p, seen), ants)
<1>1. p.a \in Ants /\ p.by \in Users /\ p.u \in Users
  BY AntAsked DEF AntOps
<1>2. Acl(p.u, 1) \in DOMAIN seen
  <2>1. InTurn(<<Acl(p.u, 1)>>, seen) = {}
    BY DEF AntReads
  <2> QED BY <2>1, AllInTurn
<1>3. seen[Acl(p.u, 1)] \in Acls
  BY <1>2, AclSeen
<1>d. PICK dest : dest = Destination(p.u, seen[Acl(p.u, 1)])
  OBVIOUS
<1> DEFINE ix == With(AntIx("add_controller", p), [u |-> p.u, page |-> dest.page])
<1>4. ix["op"] = "add_controller" /\ ix["a"] = p.a /\ ix["u"] = p.u /\ ix["by"] = p.by
  BY DEF AntIx, With
<1>5. IxOK(ix, ants)
  <2> HIDE DEF ix
  <2> QED BY <1>1, <1>4 DEF IxOK, AssetIxs, AntIxs, AssetOK
<1>6. TxOK(dest.prep, ants)
  BY <1>3, <1>d, PrepOK
<1> HIDE DEF ix
<1>7. TxOK(Append(dest.prep, ix), ants)
  BY <1>5, <1>6, AppendOK
<1> QED BY <1>d, <1>7 DEF AddControllerTx, ix

\* removeController,
LEMMA RemoveControllerOK ==
  ASSUME NEW ants, NEW p, NEW seen
  PROVE  TxOK(RemoveControllerTx(p, seen), ants)
<1>1. \A i : LET ix == With(AntIx("remove_controller", p), [u |-> p.u, page |-> i])
             IN  ix["op"] = "remove_controller"
  BY DEF AntIx, With
<1>2. \A i : IxOK(With(AntIx("remove_controller", p), [u |-> p.u, page |-> i]), ants)
  BY <1>1 DEF IxOK, AssetIxs, AntIxs, AssetOK
<1> QED BY <1>2, OneOK DEF RemoveControllerTx

\* transfer, with what it removes from the list of the former owner,
LEMMA TransferOK ==
  ASSUME NEW ants, NEW p, Asked(p), p.op = "transfer", p.a \in ants, NEW seen, SeenOK(seen),
         AntReads(p, seen) = {}
  PROVE  TxOK(TransferTx(p, seen), ants)
<1>1. p.a \in Ants /\ p.by \in Users /\ p.u \in Users
  BY AntAsked DEF AntOps
<1>2. TransferReads(p, seen) = {}
  BY DEF AntReads
<1> DEFINE last == ControllersAcls(p, seen, 4)
           third == Then(InTurn(<<Ctrl(p.a)>>, seen), last)
           second == Then(IF HasOwnerEntry(p, seen) THEN {} ELSE InTurn(<<Acl(p.by, 3)>>, seen),
                          third)
<1>3. InTurn(<<Acl(p.u, 1), Acl(p.by, 2)>>, seen) = {} /\ second = {}
  BY <1>2, BothRead DEF TransferReads
<1>4. (IF HasOwnerEntry(p, seen) THEN {} ELSE InTurn(<<Acl(p.by, 3)>>, seen)) = {} /\ third = {}
  BY <1>3, BothRead
<1>5. InTurn(<<Ctrl(p.a)>>, seen) = {} /\ last = {}
  BY <1>4, BothRead
<1>6. Acl(p.u, 1) \in DOMAIN seen /\ Ctrl(p.a) \in DOMAIN seen
      /\ (~HasOwnerEntry(p, seen) => Acl(p.by, 3) \in DOMAIN seen)
  <2>1. <<Acl(p.u, 1), Acl(p.by, 2)>>[1] = Acl(p.u, 1) /\ 1 \in DOMAIN <<Acl(p.u, 1), Acl(p.by, 2)>>
    OBVIOUS
  <2>2. <<Acl(p.by, 3)>>[1] = Acl(p.by, 3) /\ 1 \in DOMAIN <<Acl(p.by, 3)>>
    OBVIOUS
  <2>3. <<Ctrl(p.a)>>[1] = Ctrl(p.a) /\ 1 \in DOMAIN <<Ctrl(p.a)>>
    OBVIOUS
  <2>4. Acl(p.u, 1) \in DOMAIN seen
    BY <1>3, <2>1, AllInTurn
  <2>5. Ctrl(p.a) \in DOMAIN seen
    BY <1>5, <2>3, AllInTurn
  <2>6. ~HasOwnerEntry(p, seen) => Acl(p.by, 3) \in DOMAIN seen
    BY <1>4, <2>2, AllInTurn
  <2> QED BY <2>4, <2>5, <2>6
<1>d. PICK dest : dest = Destination(p.u, seen[Acl(p.u, 1)])
  OBVIOUS
<1>h. PICK heal : heal = Destination(p.by, seen[Acl(p.by, 3)])
  OBVIOUS
<1> DEFINE held == HasOwnerEntry(p, seen)
           owns == Entry(p.a, "owner")
           from == IF held THEN Min(Holding(seen[Acl(p.by, 2)], owns)) ELSE heal.page
           ix == With(AntIx("transfer", p), [u |-> p.u, from |-> from, page |-> dest.page])
           healing == IF held THEN <<>> ELSE Append(heal.prep, RecordIx(p.by, heal.page, owns))
<1>7. IxOK(ix, ants)
  <2>1. ix["op"] = "transfer" /\ ix["a"] = p.a /\ ix["u"] = p.u /\ ix["by"] = p.by
    BY DEF AntIx, With
  <2> HIDE DEF ix
  <2> QED BY <1>1, <2>1 DEF IxOK, AssetIxs, AntIxs, AssetOK
<1>8. TxOK(healing, ants)
  <2>1. CASE held
    BY <2>1, NoneOK
  <2>2. CASE ~held
    <3>1. TxOK(heal.prep, ants)
      BY <1>6, <1>h, <2>2, AclSeen, PrepOK
    <3>2. IxOK(RecordIx(p.by, heal.page, owns), ants)
      BY <1>1, RecordsOK
    <3> HIDE DEF owns
    <3> QED BY <2>2, <3>1, <3>2, AppendOK
  <2> QED BY <2>1, <2>2
<1>9. TxOK(dest.prep, ants)
  BY <1>6, <1>d, AclSeen, PrepOK
<1>10. TxOK(Cleanup(p, seen, 4), ants)
  BY <1>1, <1>5, <1>6, ControllersOK
<1>11. TransferTx(p, seen) = healing \o dest.prep \o <<ix>> \o Cleanup(p, seen, 4)
  BY <1>d, <1>h DEF TransferTx
<1> HIDE DEF ix, healing
<1> QED BY <1>7, <1>8, <1>9, <1>10, <1>11, OneOK, JoinOK

\* syncAcl, which puts the entries of a moved ANT right,
LEMMA SyncAclOK ==
  ASSUME NEW ants, NEW p, Asked(p), p.op = "syncAcl", p.a \in ants, NEW seen, SeenOK(seen),
         AntReads(p, seen) = {}, ~AntRefuses(p, seen)
  PROVE  TxOK(SyncAclTx(p, seen), ants)
<1>1. p.a \in Ants /\ p.by \in Users /\ p.u \in Users
  BY AntAsked DEF AntOps
<1>2. SyncAclReads(p, seen) = {} /\ seen[Owner(p.a)] = p.by
  BY DEF AntReads, AntRefuses
<1> DEFINE last == IF seen[Owner(p.a)] # p.by THEN {} ELSE ControllersAcls(p, seen, 3)
           keys == <<Known(p.a), Ctrl(p.a), Acl(p.by, 1)>>
           third == Then(IF seen[Owner(p.a)] # p.by \/ Former(p, seen) = p.by THEN {}
                         ELSE InTurn(<<Acl(Former(p, seen), 2)>>, seen), last)
           second == Then(IF seen[Owner(p.a)] # p.by THEN {} ELSE InTurn(keys, seen), third)
<1>3. second = {}
  BY <1>2, BothRead DEF SyncAclReads
<1>4. InTurn(keys, seen) = {} /\ third = {}
  BY <1>2, <1>3, BothRead
<1>5. ControllersAcls(p, seen, 3) = {}
  BY <1>2, <1>4, BothRead
<1>6. Ctrl(p.a) \in DOMAIN seen /\ Acl(p.by, 1) \in DOMAIN seen
  <2>1. keys[2] = Ctrl(p.a) /\ keys[3] = Acl(p.by, 1) /\ {2, 3} \subseteq DOMAIN keys
    OBVIOUS
  <2> HIDE DEF keys
  <2> QED BY <1>4, <2>1, AllInTurn
<1>d. PICK dest : dest = Destination(p.by, seen[Acl(p.by, 1)])
  OBVIOUS
<1> DEFINE owns == Entry(p.a, "owner")
           stale == IF Former(p, seen) = p.by THEN {}
                    ELSE Holding(seen[Acl(Former(p, seen), 2)], owns)
           gone == IF stale = {} THEN <<>> ELSE <<RemoveIx(Former(p, seen), Min(stale), owns)>>
<1>7. IxOK(AntIx("reconcile", p), ants)
  BY DEF AntIx, IxOK, AssetIxs, AntIxs, AssetOK
<1>8. TxOK(dest.prep, ants)
  BY <1>6, <1>d, AclSeen, PrepOK
<1>9. TxOK(<<RecordIx(p.by, dest.page, owns)>>, ants)
  BY <1>1, RecordsOK
<1>10. TxOK(gone, ants)
  BY <1>1, RecordsOK, NoneOK
<1>11. TxOK(Cleanup(p, seen, 3), ants)
  BY <1>1, <1>5, <1>6, ControllersOK
<1>12. SyncAclTx(p, seen) =
         <<AntIx("reconcile", p)>> \o dest.prep \o <<RecordIx(p.by, dest.page, owns)>>
           \o gone \o Cleanup(p, seen, 3)
  BY <1>d DEF SyncAclTx
<1> HIDE DEF gone, owns
<1> QED BY <1>7, <1>8, <1>9, <1>10, <1>11, <1>12, OneOK, JoinOK

\* spawn, with the entries of the new ANT,
LEMMA SpawnOK ==
  ASSUME NEW ants, NEW p, Asked(p), p.op = "spawn", p.a \in ants, NEW seen, SeenOK(seen),
         AntReads(p, seen) = {}
  PROVE  TxOK(SpawnTx(p, seen), ants)
<1>1. p.a \in Ants /\ p.by \in Users
  BY AntAsked DEF AntOps
<1>2. Acl(p.by, 1) \in DOMAIN seen
  <2>1. InTurn(<<Acl(p.by, 1)>>, seen) = {}
    BY DEF AntReads
  <2> QED BY <2>1, AllInTurn
<1>3. TxOK(BootstrapOwner(p.by, p.a, seen[Acl(p.by, 1)]), ants)
  BY <1>1, <1>2, AclSeen, BootstrapOK
<1>4. IxOK(AntIx("create", p), ants)
  BY <1>1 DEF AntIx, IxOK, AssetIxs, AntIxs, AssetOK
<1> QED BY <1>3, <1>4, OneOK, JoinOK DEF SpawnTx

\* and those about its records.
LEMMA RecordTxOK ==
  ASSUME NEW ants, NEW p, Asked(p), p.op \in {"setRecord", "removeRecord", "transferRecord"}
  PROVE  /\ p.op = "setRecord" => TxOK(SetRecordTx(p), ants)
         /\ TxOK(RemoveRecordTx(p), ants)
         /\ TxOK(TransferRecordTx(p), ants)
<1>1. /\ p.a \in Ants /\ p.by \in Users /\ p.u \in Users
      /\ p.op = "setRecord" => p.own \in Users \union {Nobody}
  BY AntAsked DEF AntOps
<1>2. \A op : LET ix == RecordIxOf(op, p)
              IN  DOMAIN ix = {"op", "a", "by", "un"} /\ ix["op"] = op /\ ix["by"] = p.by
  BY DEF RecordIxOf, AntIx, With
<1>3. p.op = "setRecord" => IxOK(With(RecordIxOf("set_record", p), [own |-> p.own]), ants)
  <2> DEFINE ix == With(RecordIxOf("set_record", p), [own |-> p.own])
  <2>1. ix["op"] = "set_record" /\ ix["by"] = p.by /\ ix["own"] = p.own
    BY <1>2 DEF With
  <2> HIDE DEF ix
  <2>2. p.op = "setRecord" => IxOK(ix, ants)
    BY <1>1, <2>1 DEF IxOK, AssetIxs, RecordIxs, AssetOK
  <2> QED BY <2>2 DEF ix
<1>4. IxOK(RecordIxOf("set_record_metadata", p), ants)
  BY <1>1, <1>2 DEF IxOK, AssetIxs, RecordIxs, AssetOK
<1>5. IxOK(RecordIxOf("remove_record", p), ants)
  BY <1>1, <1>2 DEF IxOK, AssetIxs, RecordIxs, AssetOK
<1>6. IxOK(With(RecordIxOf("transfer_record", p), [u |-> p.u]), ants)
  <2> DEFINE ix == With(RecordIxOf("transfer_record", p), [u |-> p.u])
  <2>1. ix["op"] = "transfer_record" /\ ix["u"] = p.u
    BY <1>2 DEF With
  <2> HIDE DEF ix
  <2>2. IxOK(ix, ants)
    BY <1>1, <2>1 DEF IxOK, AssetIxs, RecordIxs, AssetOK
  <2> QED BY <2>2 DEF ix
<1>7. TxOK(RemoveRecordTx(p), ants) /\ TxOK(TransferRecordTx(p), ants)
  BY <1>5, <1>6, OneOK DEF RemoveRecordTx, TransferRecordTx
<1>8. p.op = "setRecord" => TxOK(SetRecordTx(p), ants)
  BY <1>3, <1>4, OneOK, NoneOK, JoinOK DEF SetRecordTx
<1> QED BY <1>7, <1>8

(* The ANT whose owner and entries a call may change.                      *)
Touched(p) ==
    IF p.op \in Moves THEN {p.box}
    ELSE IF p.op \in {"transfer", "syncAcl", "spawn", "reconcile", "spawnBuy"} THEN {p.a} ELSE {}

\* Whatever a call about an ANT sends is well formed.
LEMMA AntTxOK ==
  ASSUME NEW ants, NEW p, Asked(p), p.op \in AntOps, Touched(p) \subseteq ants,
         NEW seen, SeenOK(seen), AntReads(p, seen) = {}, ~AntRefuses(p, seen)
  PROVE  TxOK(AntTx(p, seen), ants)
<1>0. p.op \in {"transfer", "syncAcl", "spawn", "reconcile"} => p.a \in ants
  BY DEF Touched, Moves, AntClaims
<1>1. CASE p.op = "addController"
  BY <1>1, AddControllerOK DEF AntTx
<1>2. CASE p.op = "removeController"
  BY <1>2, RemoveControllerOK DEF AntTx
<1>3. CASE p.op = "transfer"
  BY <1>0, <1>3, TransferOK DEF AntTx
<1>4. CASE p.op = "syncAcl"
  BY <1>0, <1>4, SyncAclOK DEF AntTx
<1>5. CASE p.op = "spawn"
  BY <1>0, <1>5, SpawnOK DEF AntTx
<1>6. CASE p.op \in {"reconcile", "setMetadata", "upgrade"}
  <2>1. \A op \in {"manage", "migrate_ant"} : IxOK(AntIx(op, p), ants)
    BY DEF AntIx, IxOK, AssetIxs, AntIxs, AssetOK
  <2>2. p.op = "reconcile" => IxOK(AntIx("reconcile", p), ants)
    BY <1>0 DEF AntIx, IxOK, AssetIxs, AntIxs, AssetOK
  <2>3. \A op \in {"manage", "migrate_ant"} : TxOK(<<AntIx(op, p)>>, ants)
    BY <2>1, OneOK
  <2>4. p.op = "reconcile" => TxOK(<<AntIx("reconcile", p)>>, ants)
    BY <2>2, OneOK
  <2> QED BY <1>6, <2>3, <2>4, NoneOK DEF AntTx
<1>7. CASE p.op \in {"setRecord", "removeRecord", "transferRecord"}
  BY <1>7, RecordTxOK DEF AntTx
<1> QED BY <1>1, <1>2, <1>3, <1>4, <1>5, <1>6, <1>7 DEF AntOps

-----------------------------------------------------------------------------
(* The transactions of escrows.                                            *)

\* A claim is for the escrow and the claimant it was asked for, with the
\* signature it was submitted with.
ClaimIn(tx, p) ==
    \A i \in DOMAIN tx :
      tx[i].op = "create_ata" \/ (/\ tx[i].op = "claim" /\ tx[i].box = BoxOf(p)
                                  /\ tx[i].u = p.u /\ tx[i].sig = p.sig)

\* What a call of the escrows sends is well formed, and a claim claims the
\* escrow it is about, for its claimant, with its signature.
LEMMA EscrowTxOK ==
  ASSUME NEW ants, NEW p, Asked(p), p.op \in EscrowOps, Touched(p) \subseteq ants, NEW seen
  PROVE  /\ TxOK(EscrowTx(p, seen), ants)
         /\ p.op \in Claims => ClaimIn(EscrowTx(p, seen), p)
<1>1. /\ p.by \in Users /\ p.dep \in Users /\ p.r \in Recipients /\ p.u \in Users
      /\ BoxOf(p) \in Boxes /\ (p.op = "cancelTokens" => OwnBox(p) \in Boxes)
      /\ p.op \notin AntEscrowOps => BoxOf(p) \notin Ants /\ OwnBox(p) \notin Ants
  BY EscrowAsked
<1>b. BoxOf(p) \in Ants /\ p.op # "updateRecipient" => p.op \in Moves /\ BoxOf(p) \in ants
  <2>1. BoxOf(p) \in Ants => p.op \in AntEscrowOps
    BY <1>1
  <2>2. p.op \in AntEscrowOps /\ p.op # "updateRecipient" => p.op \in Moves
    BY DEF AntEscrowOps, Moves
  <2>3. p.op \in Moves => BoxOf(p) = p.box
    BY DEF Moves, BoxOf, AntClaims, TokenClaims, VaultClaims
  <2>4. p.op \in Moves => p.box \in ants
    BY DEF Touched
  <2> QED BY <2>1, <2>2, <2>3, <2>4
<1>2. CASE p.op \in Claims
  <2>p. PICK ix : ix = ClaimIx(p, seen[Box(p)])
    OBVIOUS
  <2>a. PICK ata : ata = [op |-> "create_ata", u |-> p.u]
    OBVIOUS
  <2>1. ix.op = "claim" /\ ix.box = BoxOf(p) /\ ix.u = p.u /\ ix.sig = p.sig
    BY <2>p DEF ClaimIx
  <2>2. ata.op = "create_ata" /\ ata.u = p.u
    BY <2>a
  <2>3. IxOK(ix, ants)
    <3>1. p.op \in Claims \ AntClaims => p.op \notin Moves
      BY DEF Claims, AntClaims, TokenClaims, VaultClaims, Moves
    <3>2. p.op # "updateRecipient"
      BY <1>2 DEF Claims, AntClaims, TokenClaims, VaultClaims
    <3> QED BY <1>1, <1>b, <2>1, <3>2 DEF IxOK, AssetIxs, EscrowIxs, AssetOK
  <2>4. IxOK(ata, ants)
    BY <1>1, <2>2 DEF IxOK, AssetIxs, EscrowIxs, AssetOK
  <2>5. EscrowTx(p, seen) \in {<<ix>>, Append(<<ata>>, ix), Append(<<>>, ix)}
    BY <1>2, <2>p, <2>a
       DEF EscrowTx, Claims, AntClaims, TokenClaims, VaultClaims, ClaimAntTx, ClaimTokensTx,
           ClaimVaultTx, ClaimantAta, CreateAta
  <2>6. TxOK(EscrowTx(p, seen), ants)
    BY <2>3, <2>4, <2>5, OneOK, NoneOK, AppendOK
  <2>7. \A tx \in {<<ix>>, Append(<<ata>>, ix), Append(<<>>, ix)} :
          \A i \in DOMAIN tx : tx[i] \in {ix, ata}
    OBVIOUS
  <2>8. ClaimIn(EscrowTx(p, seen), p)
    BY <2>1, <2>2, <2>5, <2>7 DEF ClaimIn
  <2> QED BY <2>6, <2>8
<1>3. CASE p.op = "deposit"
  <2>1. IxOK([op |-> "deposit", box |-> BoxOf(p), by |-> p.by, r |-> p.r, amt |-> 0], ants)
    BY <1>1, <1>3, <1>b DEF IxOK, AssetIxs, EscrowIxs, AssetOK
  <2> QED BY <1>3, <2>1, OneOK
       DEF EscrowTx, DepositTx, Claims, AntClaims, TokenClaims, VaultClaims
<1>4. CASE p.op \in {"depositTokens", "depositVault"}
  <2>1. IxOK([op |-> "deposit", box |-> BoxOf(p), by |-> p.by, r |-> p.r, amt |-> 1], ants)
    BY <1>1, <1>4, <1>b DEF IxOK, AssetIxs, EscrowIxs, AssetOK
  <2>2. IxOK([op |-> "create_ata", u |-> BoxOf(p)], ants)
    BY <1>1 DEF IxOK, AssetIxs, EscrowIxs, AssetOK
  <2> QED BY <1>4, <2>1, <2>2, OneOK, JoinOK
       DEF EscrowTx, DepositTokensTx, CreateAta, Claims, AntClaims, TokenClaims, VaultClaims
<1>5. CASE p.op \in {"updateRecipient", "updateTokenRecipient"}
  <2>1. \A b : IxOK([op |-> "update_recipient", box |-> b, by |-> p.by, r |-> p.r], ants)
    BY <1>1 DEF IxOK, AssetIxs, EscrowIxs, AssetOK
  <2> QED BY <1>5, <2>1, OneOK
       DEF EscrowTx, UpdateRecipientTx, UpdateTokenRecipientTx, Claims, AntClaims, TokenClaims,
           VaultClaims
<1>6. CASE p.op \in {"cancel", "cancelTokens"}
  <2>1. \A b \in Boxes : (b \in Ants => b \in ants)
                         => IxOK([op |-> "cancel", box |-> b, by |-> p.by], ants)
    BY <1>1 DEF IxOK, AssetIxs, EscrowIxs, AssetOK
  <2>2. p.op \notin Claims
    BY <1>6 DEF Claims, AntClaims, TokenClaims, VaultClaims
  <2>3. EscrowTx(p, seen) = IF p.op = "cancel" THEN CancelTx(p) ELSE CancelTokensTx(p)
    BY <1>6 DEF EscrowTx, AntClaims, TokenClaims, VaultClaims
  <2>4. p.op = "cancel" => IxOK([op |-> "cancel", box |-> BoxOf(p), by |-> p.by], ants)
    BY <1>1, <1>b, <2>1
  <2>5. p.op = "cancelTokens" => IxOK([op |-> "cancel", box |-> OwnBox(p), by |-> p.by], ants)
    BY <1>1, <2>1 DEF AntEscrowOps, AntClaims
  <2> QED BY <1>6, <2>2, <2>3, <2>4, <2>5, OneOK DEF CancelTx, CancelTokensTx
<1> QED BY <1>2, <1>3, <1>4, <1>5, <1>6 DEF EscrowOps

-----------------------------------------------------------------------------
(* The transactions on names.                                              *)

\* The instructions about names are well formed.
LEMMA NameIxsOK ==
  ASSUME NEW ants, NEW p, p.n \in Names, p.by \in Users
  PROVE  /\ \A op \in {"migrate_record", "manage_name", "request_primary"} :
              IxOK(NameIx(op, p), ants)
         /\ \A a : IxOK(SyncIx(p, a), ants)
         /\ \A a : IxOK(With(NameIx("release_name", p), [a |-> a]), ants)
         /\ \A a : IxOK(With(NameIx("set_primary", p), [a |-> a]), ants)
         /\ \A a \in Ants : IxOK(With(NameIx("buy_name", p), [a |-> a]), ants)
         /\ \A a : \A to \in Ants :
              IxOK(With(NameIx("reassign_name", p), [a |-> a, to |-> to]), ants)
         /\ \A a : \A u \in Users :
              IxOK(With(NameIx("approve_primary", p), [u |-> u, a |-> a]), ants)
         /\ \A u : IxOK(With(NameIx("close_request", p), [u |-> u]), ants)
<1>0. \A op : DOMAIN NameIx(op, p) = {"op", "n", "by"} /\ NameIx(op, p)["op"] = op
              /\ NameIx(op, p)["n"] = p.n /\ NameIx(op, p)["by"] = p.by
  BY DEF NameIx
<1>w. ASSUME NEW op, NEW more
      PROVE  LET ix == With(NameIx(op, p), more) IN
             /\ ix["op"] = op /\ ix["n"] = p.n /\ ix["by"] = p.by
             /\ \A f \in DOMAIN more : f \notin {"op", "n", "by"} => ix[f] = more[f]
  <2>p. PICK ix : ix = With(NameIx(op, p), more)
    OBVIOUS
  <2>f. PICK f : f = NameIx(op, p)
    OBVIOUS
  <2>1. \A k \in {"op", "n", "by"} : k \in DOMAIN f
    BY <1>0, <2>f
  <2>2. \A k \in DOMAIN f : With(f, more)[k] = f[k]
    BY WithFields
  <2>3. \A k \in DOMAIN more : k \notin DOMAIN f => With(f, more)[k] = more[k]
    BY WithFields
  <2>4. f["op"] = op /\ f["n"] = p.n /\ f["by"] = p.by /\ DOMAIN f = {"op", "n", "by"}
    BY <1>0, <2>f
  <2>5. ix = With(f, more)
    BY <2>p, <2>f
  <2>6. ix["op"] = op /\ ix["n"] = p.n /\ ix["by"] = p.by
    BY <2>1, <2>2, <2>4, <2>5
  <2>7. \A k \in DOMAIN more : k \notin {"op", "n", "by"} => ix[k] = more[k]
    BY <2>3, <2>4, <2>5
  <2> QED BY <2>6, <2>7, <2>p
<1>1. \A op \in {"migrate_record", "manage_name", "request_primary"} : IxOK(NameIx(op, p), ants)
  BY <1>0 DEF IxOK, AssetIxs, NameIxs, AssetOK
<1>2. ASSUME NEW a PROVE IxOK(SyncIx(p, a), ants)
  <2>p. PICK ix : ix = With(NameIx("sync_attributes", p), [a |-> a])
    OBVIOUS
  <2>1. ix["op"] = "sync_attributes" /\ ix["n"] = p.n
    BY <1>w, <2>p
  <2>2. IxOK(ix, ants)
    BY <2>1 DEF IxOK, AssetIxs, NameIxs, AssetOK
  <2> QED BY <2>p, <2>2 DEF SyncIx
<1>3. ASSUME NEW a PROVE IxOK(With(NameIx("release_name", p), [a |-> a]), ants)
  <2>p. PICK ix : ix = With(NameIx("release_name", p), [a |-> a])
    OBVIOUS
  <2>1. ix["op"] = "release_name"
    BY <1>w, <2>p
  <2> QED BY <2>p, <2>1 DEF IxOK, AssetIxs, NameIxs, AssetOK
<1>4. ASSUME NEW a PROVE IxOK(With(NameIx("set_primary", p), [a |-> a]), ants)
  <2>p. PICK ix : ix = With(NameIx("set_primary", p), [a |-> a])
    OBVIOUS
  <2>1. ix["op"] = "set_primary" /\ ix["n"] = p.n /\ ix["by"] = p.by
    BY <1>w, <2>p
  <2> QED BY <2>p, <2>1 DEF IxOK, AssetIxs, NameIxs, AssetOK
<1>5. ASSUME NEW a \in Ants PROVE IxOK(With(NameIx("buy_name", p), [a |-> a]), ants)
  <2>p. PICK ix : ix = With(NameIx("buy_name", p), [a |-> a])
    OBVIOUS
  <2>1. ix["op"] = "buy_name" /\ ix["a"] = a
    BY <1>w, <2>p
  <2> QED BY <2>p, <2>1 DEF IxOK, AssetIxs, NameIxs, AssetOK
<1>6. ASSUME NEW a, NEW to \in Ants
      PROVE  IxOK(With(NameIx("reassign_name", p), [a |-> a, to |-> to]), ants)
  <2>p. PICK ix : ix = With(NameIx("reassign_name", p), [a |-> a, to |-> to])
    OBVIOUS
  <2>1. ix["op"] = "reassign_name" /\ ix["to"] = to
    BY <1>w, <2>p
  <2> QED BY <2>p, <2>1 DEF IxOK, AssetIxs, NameIxs, AssetOK
<1>7. ASSUME NEW a, NEW u \in Users
      PROVE  IxOK(With(NameIx("approve_primary", p), [u |-> u, a |-> a]), ants)
  <2>p. PICK ix : ix = With(NameIx("approve_primary", p), [u |-> u, a |-> a])
    OBVIOUS
  <2>1. ix["op"] = "approve_primary" /\ ix["u"] = u /\ ix["n"] = p.n
    BY <1>w, <2>p
  <2> QED BY <2>p, <2>1 DEF IxOK, AssetIxs, NameIxs, AssetOK
<1>8. ASSUME NEW u PROVE IxOK(With(NameIx("close_request", p), [u |-> u]), ants)
  <2>p. PICK ix : ix = With(NameIx("close_request", p), [u |-> u])
    OBVIOUS
  <2>1. ix["op"] = "close_request"
    BY <1>w, <2>p
  <2> QED BY <2>p, <2>1 DEF IxOK, AssetIxs, NameIxs, AssetOK
<1> QED BY <1>1, <1>2, <1>3, <1>4, <1>5, <1>6, <1>7, <1>8

\* The last instruction of a change of the primary name sets the new one.
SetsLast(tx, p) ==
    /\ Len(tx) \in Nat \ {0} /\ DOMAIN tx = 1..Len(tx)
    /\ tx[Len(tx)].op = "set_primary" /\ tx[Len(tx)].n = p.n /\ tx[Len(tx)].by = p.by

\* What a call about a name sends is well formed, and setPrimaryName sets the
\* name at the end of its transaction.
LEMMA NameTxOK ==
  ASSUME NEW ants, NEW p, Asked(p), p.op \in NameOps, p.op = "spawnBuy" => p.stage \in 1..3,
         Touched(p) \subseteq ants, NEW seen, SeenOK(seen), NameReads(p, seen) = {}
  PROVE  /\ TxOK(NameTx(p, seen), ants)
         /\ p.op = "setPrimaryName" => SetsLast(NameTx(p, seen), p)
<1>1. p.n \in Names /\ p.by \in Users /\ p.u \in Users /\ p.a \in Ants /\ p.to \in Ants
  BY NameAsked
<1>m. TxOK(Migrate(p, seen), ants)
  BY <1>1, NameIxsOK, NoneOK, OneOK DEF Migrate
<1>s. \A a : TxOK(SyncIfOwner(p, a, seen), ants) /\ TxOK(<<SyncIx(p, a)>>, ants)
  BY <1>1, NameIxsOK, NoneOK, OneOK DEF SyncIfOwner
<1>r. TxOK(RemoveExisting(p, seen), ants)
  <2>1. \A n : IxOK([op |-> "remove_primary", n |-> n, by |-> p.by], ants)
    BY DEF IxOK, AssetIxs, NameIxs, AssetOK
  <2> QED BY <2>1, NoneOK, OneOK DEF RemoveExisting
<1>2. CASE p.op = "spawnBuy"
  <2>1. NameTx(p, seen) = SpawnBuyTx(p, seen) /\ NameReads(p, seen) = SpawnBuyReads(p, seen)
    BY <1>2 DEF NameTx, NameReads
  <2>2. CASE p.stage = 1
    <3>1. IxOK(AntIx("create", p), ants)
      BY <1>1, <1>2 DEF AntIx, Touched, Moves, AntClaims, IxOK, AssetIxs, AntIxs, AssetOK
    <3>2. IxOK(With(NameIx("buy_name", p), [a |-> p.a]), ants)
      BY <1>1, NameIxsOK
    <3>c. PICK c : c = AntIx("create", p)
      OBVIOUS
    <3>b. PICK b : b = With(NameIx("buy_name", p), [a |-> p.a])
      OBVIOUS
    <3>3. TxOK(<<c, b>>, ants)
      <4>1. <<c, b>> \in Seq({c, b}) /\ IxOK(c, ants) /\ IxOK(b, ants)
        BY <3>1, <3>2, <3>c, <3>b
      <4> QED BY <4>1, ManyOK
    <3>4. SpawnBuyTx(p, seen) = <<c, b>>
      BY <2>2, <3>c, <3>b DEF SpawnBuyTx
    <3> QED BY <1>2, <2>1, <3>3, <3>4
  <2>3. CASE p.stage = 2
    <3>1. Acl(p.by, 1) \in DOMAIN seen
      <4>1. InTurn(<<Acl(p.by, 1)>>, seen) = {}
        BY <2>1, <2>3 DEF SpawnBuyReads
      <4> QED BY <4>1, AllInTurn
    <3>2. TxOK(BootstrapOwner(p.by, p.a, seen[Acl(p.by, 1)]), ants)
      BY <1>1, <1>2, <3>1, AclSeen, BootstrapOK DEF Touched, Moves, AntClaims
    <3>3. SpawnBuyTx(p, seen) = BootstrapOwner(p.by, p.a, seen[Acl(p.by, 1)])
      BY <2>3 DEF SpawnBuyTx
    <3> QED BY <1>2, <2>1, <3>2, <3>3
  <2>4. CASE p.stage = 3
    <3>1. SpawnBuyTx(p, seen) = SyncIfOwner(p, p.a, seen)
      BY <2>4 DEF SpawnBuyTx
    <3> QED BY <1>2, <1>s, <2>1, <3>1
  <2> QED BY <1>2, <2>2, <2>3, <2>4
<1>3. CASE p.op = "buyRecord"
  <2>1. TxOK(<<With(NameIx("buy_name", p), [a |-> p.a])>>, ants)
    BY <1>1, NameIxsOK, OneOK
  <2>2. NameTx(p, seen) = <<With(NameIx("buy_name", p), [a |-> p.a])>> \o SyncIfOwner(p, p.a, seen)
    BY <1>3 DEF NameTx
  <2> QED BY <1>3, <1>s, <2>1, <2>2, JoinOK
<1>4. CASE p.op = "manage"
  <2>1. TxOK(Append(Migrate(p, seen), NameIx("manage_name", p)), ants)
    BY <1>1, <1>m, NameIxsOK, AppendOK
  <2>2. NameTx(p, seen) = Append(Migrate(p, seen), NameIx("manage_name", p))
                            \o SyncIfOwner(p, seen[Arns(p.n)], seen)
    BY <1>4 DEF NameTx
  <2> QED BY <1>4, <1>s, <2>1, <2>2, JoinOK
<1>12. CASE p.op = "extendLease"
  <2>1. TxOK(Append(Migrate(p, seen), NameIx("manage_name", p)), ants)
    BY <1>1, <1>m, NameIxsOK, AppendOK
  <2>2. NameTx(p, seen) = Append(Migrate(p, seen), NameIx("manage_name", p))
    BY <1>12 DEF NameTx
  <2> QED BY <1>12, <2>1, <2>2
<1>5. CASE p.op = "syncAttributes"
  <2>1. TxOK(Append(Migrate(p, seen), SyncIx(p, seen[Arns(p.n)])), ants)
    BY <1>1, <1>m, NameIxsOK, AppendOK
  <2>2. NameTx(p, seen) = Append(Migrate(p, seen), SyncIx(p, seen[Arns(p.n)]))
    BY <1>5 DEF NameTx
  <2> QED BY <1>5, <2>1, <2>2
<1>6. CASE p.op = "reassignName"
  <2>1. TxOK(<<With(NameIx("reassign_name", p), [a |-> seen[Arns(p.n)], to |-> p.to])>>, ants)
    BY <1>1, NameIxsOK, OneOK
  <2>2. NameTx(p, seen) = ReassignTx(p, seen)
    BY <1>6 DEF NameTx
  <2>3. TxOK(ReassignTx(p, seen), ants)
    BY <1>m, <1>s, <2>1, JoinOK DEF ReassignTx
  <2> QED BY <1>6, <2>2, <2>3
<1>7. CASE p.op = "releaseName"
  <2>1. TxOK(ReleaseTx(p, seen), ants)
    BY <1>1, <1>m, NameIxsOK, AppendOK DEF ReleaseTx
  <2>2. NameTx(p, seen) = ReleaseTx(p, seen)
    BY <1>7 DEF NameTx
  <2> QED BY <1>7, <2>1, <2>2
<1>8. CASE p.op = "requestPrimaryName"
  <2>1. TxOK(<<NameIx("request_primary", p)>>, ants)
    BY <1>1, NameIxsOK, OneOK
  <2>2. TxOK(RequestPrimaryTx(p, seen), ants)
    BY <1>m, <1>r, <2>1, JoinOK DEF RequestPrimaryTx
  <2>3. NameTx(p, seen) = RequestPrimaryTx(p, seen)
    BY <1>8 DEF NameTx
  <2> QED BY <1>8, <2>2, <2>3
<1>9. CASE p.op = "setPrimaryName"
  <2>p. PICK ix : ix = With(NameIx("set_primary", p), [a |-> seen[Arns(p.n)]])
    OBVIOUS
  <2>1. TxOK(<<ix>>, ants)
    BY <1>1, <2>p, NameIxsOK, OneOK
  <2>2. TxOK(RemoveExisting(p, seen) \o Migrate(p, seen), ants)
    BY <1>m, <1>r, JoinOK
  <2>3. NameTx(p, seen) = (RemoveExisting(p, seen) \o Migrate(p, seen)) \o <<ix>>
    BY <1>9, <2>p DEF NameTx, SetPrimaryTx
  <2>4. TxOK(NameTx(p, seen), ants)
    BY <2>1, <2>2, <2>3, JoinOK
  <2>5. PICK S : RemoveExisting(p, seen) \o Migrate(p, seen) \in Seq(S)
    BY <2>2 DEF TxOK
  <2>6. ix["op"] = "set_primary" /\ ix["n"] = p.n /\ ix["by"] = p.by
    BY <2>p DEF With, NameIx
  <2>q. PICK q \in Seq(S) : q = RemoveExisting(p, seen) \o Migrate(p, seen)
    BY <2>5
  <2>7. /\ Len(q \o <<ix>>) \in Nat \ {0} /\ DOMAIN (q \o <<ix>>) = 1..Len(q \o <<ix>>)
        /\ (q \o <<ix>>)[Len(q \o <<ix>>)] = ix
    OBVIOUS
  <2>8. SetsLast(q \o <<ix>>, p)
    BY <2>6, <2>7 DEF SetsLast
  <2> QED BY <2>3, <2>4, <2>8, <2>q
<1>10. CASE p.op = "approvePrimaryName"
  <2>1. TxOK(ApproveTx(p, seen), ants)
    BY <1>1, <1>m, NameIxsOK, AppendOK DEF ApproveTx
  <2>2. NameTx(p, seen) = ApproveTx(p, seen)
    BY <1>10 DEF NameTx
  <2> QED BY <1>10, <2>1, <2>2
<1>11. CASE p.op \in {"closeExpiredRequest", "sweepRequests"}
  <2>1. \A u : TxOK(CloseTx(u, p), ants)
    BY <1>1, NameIxsOK, OneOK DEF CloseTx
  <2>2. NameTx(p, seen) \in {CloseTx(p.u, p), CloseTx(CHOOSE u \in Expired(p, seen) : TRUE, p)}
    BY <1>11 DEF NameTx
  <2> QED BY <1>11, <2>1, <2>2
<1> QED BY <1>2, <1>3, <1>4, <1>5, <1>6, <1>7, <1>8, <1>9, <1>10, <1>11, <1>12 DEF NameOps

-----------------------------------------------------------------------------
(* The transactions of the registry.                                       *)

\* A report of p over the slots of the registry.
ReportIn(tx, p, slots) ==
    \E e : tx = <<[op |-> "save_observations", by |-> p.o, epoch |-> e,
                   bits |-> Bitmap(slots, p.os), count |-> Len(slots)]>>

\* A sequence put behind one element moves by one position.
LEMMA Behind ==
  ASSUME NEW a, NEW T, NEW t \in Seq(T), NEW i \in DOMAIN t
  PROVE  i + 1 \in DOMAIN (<<a>> \o t) /\ (<<a>> \o t)[i + 1] = t[i]
<1>1. PICK s : s = <<a>> /\ Len(s) = 1 /\ s \in Seq({a} \union T)
  <2>1. <<a>> \in Seq({a}) /\ Len(<<a>>) = 1
    OBVIOUS
  <2>2. <<a>> \in Seq({a} \union T)
    OBVIOUS
  <2> QED BY <2>1, <2>2
<1>2. t \in Seq({a} \union T)
  OBVIOUS
<1>3. Len(s \o t) = 1 + Len(t) /\ i \in 1..Len(t) /\ s \o t \in Seq({a} \union T)
  BY <1>1, <1>2
<1>4. i + 1 \in DOMAIN (s \o t)
  BY <1>3
<1>5. (s \o t)[i + 1] = t[(i + 1) - 1]
  BY <1>1, <1>2, <1>3
<1> QED BY <1>1, <1>3, <1>4, <1>5

\* A report is made when the slots have been read.
LEMMA SlotsRead ==
  ASSUME NEW p, p.op \in {"saveObservations", "submitReport"}, NEW seen,
         InTurn(RegistryReads(p, seen), seen) = {}
  PROVE  Slots \in DOMAIN seen
<1>1. PICK keys : keys = RegistryReads(p, seen)
  OBVIOUS
<1>2. PICK save, T : save = SaveReads(p) /\ save \in Seq(T) /\ \E i \in DOMAIN save : save[i] = Slots
  <2>1. CASE p.epoch = 0
    <3>1. SaveReads(p) = <<<<"settings">>, Slots>>
      BY <2>1 DEF SaveReads
    <3>2. \A key : /\ <<key, Slots>> \in Seq({key, Slots})
                   /\ 2 \in DOMAIN <<key, Slots>> /\ <<key, Slots>>[2] = Slots
      OBVIOUS
    <3> QED BY <3>1, <3>2
  <2>2. CASE p.epoch # 0
    <3>1. SaveReads(p) = <<Slots>>
      BY <2>2 DEF SaveReads
    <3>2. <<Slots>> \in Seq({Slots}) /\ 1 \in DOMAIN <<Slots>> /\ <<Slots>>[1] = Slots
      OBVIOUS
    <3> QED BY <3>1, <3>2
  <2> QED BY <2>1, <2>2
<1>3. PICK i \in DOMAIN save : save[i] = Slots
  BY <1>2
<1>4. CASE p.op = "saveObservations"
  <2>1. keys = save
    BY <1>1, <1>2, <1>4 DEF RegistryReads
  <2> QED BY <1>1, <1>3, <2>1, AllInTurn
<1>5. CASE p.op = "submitReport"
  <2>k. PICK key : key = <<"status", p.o>>
    OBVIOUS
  <2>1. keys = <<key>> \o save
    BY <1>1, <1>2, <1>5, <2>k DEF RegistryReads
  <2>2. i + 1 \in DOMAIN keys /\ keys[i + 1] = Slots
    BY <1>2, <1>3, <2>1, Behind
  <2> QED BY <1>1, <2>2, AllInTurn
<1> QED BY <1>4, <1>5

\* What a call about the registry sends is well formed, and a report is made of
\* the slots as they were read.
LEMMA RegistryTxOK ==
  ASSUME NEW ants, NEW p, Asked(p), p.op \in RegistryOps, NEW seen, SeenOK(seen),
         InTurn(RegistryReads(p, seen), seen) = {}
  PROVE  /\ TxOK(RegistryTx(p, seen), ants)
         /\ p.op \in {"saveObservations", "submitReport"} =>
              Slots \in DOMAIN seen /\ ReportIn(RegistryTx(p, seen), p, seen[Slots])
<1>1. p.o \in Operators /\ p.os \subseteq Operators
  BY RegistryAsked
<1>2. CASE p.op \in {"finalizeGone", "sweepGone"}
  <2>1. \A o, s : IxOK([op |-> "finalize_gone", o |-> o, swapped |-> s], ants)
    BY DEF IxOK, GarIxs, RegistryIxs, GarOK
  <2>2. \A o : TxOK(FinalizeTx(o, seen), ants)
    BY <2>1, OneOK DEF FinalizeTx
  <2> QED BY <1>2, <2>2 DEF RegistryTx
<1>3. CASE p.op \in {"pruneGateway", "sweepDeficient"}
  <2>1. \A o, i : IxOK([op |-> "prune_gateway", o |-> o, id |-> i], ants)
    BY DEF IxOK, GarIxs, RegistryIxs, GarOK
  <2>2. \A o : TxOK(PruneTx(o, seen), ants)
    BY <2>1, OneOK DEF PruneTx
  <2> QED BY <1>3, <2>2 DEF RegistryTx
<1>4. CASE p.op = "tallyWeights"
  <2>1. \A s : IxOK([op |-> "tally_weights", slots |-> s], ants)
    BY DEF IxOK, GarIxs, RegistryIxs, GarOK
  <2> QED BY <1>4, <2>1, OneOK DEF RegistryTx
<1>5. CASE p.op = "prescribeEpoch"
  <2>1. \A s : IxOK([op |-> "prescribe_epoch", accounts |-> s], ants)
    BY DEF IxOK, GarIxs, RegistryIxs, GarOK
  <2>2. \A s : TxOK(<<[op |-> "prescribe_epoch", accounts |-> s]>>, ants)
    BY <2>1, OneOK
  <2> QED BY <1>5, <2>2 DEF RegistryTx
<1>6. CASE p.op \in {"saveObservations", "submitReport"}
  <2>1. Slots \in DOMAIN seen
    BY <1>6, SlotsRead
  <2>2. seen[Slots] \in Seq(Operators)
    BY <2>1 DEF SeenOK, KeyOK, Slots
  <2>3. Bitmap(seen[Slots], p.os) \in Seq(BOOLEAN) /\ Len(seen[Slots]) \in Nat
    <3>1. PICK slots \in Seq(Operators) : slots = seen[Slots]
      BY <2>2
    <3>2. DOMAIN slots = 1..Len(slots) /\ Len(slots) \in Nat
      OBVIOUS
    <3>3. Bitmap(slots, p.os) \in [DOMAIN slots -> BOOLEAN]
      BY Zenon DEF Bitmap
    <3>4. PICK bits : bits = Bitmap(slots, p.os)
      OBVIOUS
    <3>5. bits \in Seq(BOOLEAN)
      BY <3>2, <3>3, <3>4
    <3> QED BY <3>1, <3>2, <3>4, <3>5
  <2>4. PICK bits \in Seq(BOOLEAN) : bits = Bitmap(seen[Slots], p.os)
    BY <2>3
  <2>5. \A e : IxOK([op |-> "save_observations", by |-> p.o, epoch |-> e,
                     bits |-> bits, count |-> Len(seen[Slots])], ants)
    BY <2>3 DEF IxOK, GarIxs, RegistryIxs, GarOK
  <2>6. PICK e : e = IF p.epoch = 0 THEN seen[<<"settings">>] ELSE p.epoch
    OBVIOUS
  <2>7. RegistryTx(p, seen) = <<[op |-> "save_observations", by |-> p.o, epoch |-> e,
                                 bits |-> bits, count |-> Len(seen[Slots])]>>
    BY <1>6, <2>4, <2>6 DEF RegistryTx
  <2>8. TxOK(RegistryTx(p, seen), ants)
    BY <2>5, <2>7, OneOK
  <2>9. ReportIn(RegistryTx(p, seen), p, seen[Slots])
    BY <2>4, <2>7 DEF ReportIn
  <2> QED BY <2>1, <2>8, <2>9
<1>7. CASE p.op = "closeObservations"
  <2>k. PICK key : key = <<"observation", p.os>>
    OBVIOUS
  <2>1. key \in DOMAIN seen
    <3>1. RegistryReads(p, seen) = <<key>>
      BY <1>7, <2>k DEF RegistryReads
    <3> QED BY <3>1, AllInTurn
  <2>2. seen[key] \subseteq p.os
    BY <2>1, <2>k DEF SeenOK, KeyOK
  <2>3. PICK found : found = seen[key] /\ found \subseteq Operators /\ IsFiniteSet(found)
    BY <1>1, <2>2, RegistryAssumption, FS_Subset
  <2>4. PICK os : os = SetToSeq(found) /\ os \in Seq(found)
    BY <2>3, SeqOfSet
  <2>5. [i \in DOMAIN os |-> [op |-> "close_observation", o |-> os[i]]]
          \in Seq([op : {"close_observation"}, o : Operators])
    <3>1. DOMAIN os = 1..Len(os) /\ Len(os) \in Nat /\ \A i \in DOMAIN os : os[i] \in Operators
      BY <2>3, <2>4
    <3>2. \A i \in DOMAIN os : [op |-> "close_observation", o |-> os[i]]
                                 \in [op : {"close_observation"}, o : Operators]
      BY <3>1
    <3>3. PICK T : T = [op : {"close_observation"}, o : Operators]
      OBVIOUS
    <3>4. [i \in DOMAIN os |-> [op |-> "close_observation", o |-> os[i]]] \in Seq(T)
      BY <3>1, <3>2, <3>3
    <3> QED BY <3>3, <3>4
  <2>6. ASSUME NEW ix \in [op : {"close_observation"}, o : Operators]
        PROVE  IxOK(ix, ants)
    BY DEF IxOK, GarIxs, RegistryIxs, GarOK
  <2>7. RegistryTx(p, seen) = [i \in DOMAIN os |-> [op |-> "close_observation", o |-> os[i]]]
    BY <1>7, <2>k, <2>3, <2>4 DEF RegistryTx
  <2>8. TxOK([i \in DOMAIN os |-> [op |-> "close_observation", o |-> os[i]]], ants)
    BY <2>5, <2>6, ManyOK
  <2> QED BY <1>7, <2>7, <2>8
<1> QED BY <1>2, <1>3, <1>4, <1>5, <1>6, <1>7 DEF RegistryOps

-----------------------------------------------------------------------------
(* The transactions on delegated stake.                                    *)

\* Stakes that were read belong to operators.
LEMMA StakesSeen ==
  ASSUME NEW seen, SeenOK(seen), NEW os, NEW ds, StakesOf(os, ds) \in DOMAIN seen
  PROVE  DOMAIN seen[StakesOf(os, ds)] \subseteq Operators \X Operators
BY DEF SeenOK, KeyOK, StakesOf

\* Compounding the rewards of some stakes is well formed.
LEMMA CompoundOK ==
  ASSUME NEW ants, NEW S, NEW ks \in Seq(S)
  PROVE  TxOK(CompoundTx(ks), ants)
<1>1. \A o, d : IxOK(PoolIx("compound", o, d), ants)
  BY DEF PoolIx, IxOK, GarIxs, DelegationIxs, GarOK
<1>2. PICK T : T = {PoolIx("compound", k[1], k[2]) : k \in S}
  OBVIOUS
<1>3. CompoundTx(ks) \in Seq(T)
  BY <1>2 DEF CompoundTx
<1> QED BY <1>1, <1>2, <1>3, ManyOK

\* So is the sweep over the rewards,
LEMMA SweepRewardsOK ==
  ASSUME NEW ants, NEW p, p.op = "sweepRewards", NEW seen, SeenOK(seen),
         InTurn(PoolReads(p, seen), seen) = {}
  PROVE  TxOK(PoolTx(p, seen), ants)
<1>1. AllStakes \in DOMAIN seen
  <2>1. PoolReads(p, seen) = <<Scan, AllStakes>>
    BY DEF PoolReads
  <2>2. <<Scan, AllStakes>>[2] = AllStakes /\ 2 \in DOMAIN <<Scan, AllStakes>>
    OBVIOUS
  <2> QED BY <2>1, <2>2, AllInTurn
<1>2. PICK S : S = Compoundable(p, seen) /\ S \subseteq Operators \X Operators
  BY <1>1, StakesSeen DEF Compoundable, AllStakes
<1>3. IsFiniteSet(S)
  BY <1>2, RegistryAssumption, FS_Product, FS_Subset
<1>4. PICK all : all = SetToSeq(S) /\ all \in Seq(S)
  BY <1>3, SeqOfSet
<1>5. Min({BatchSize, Len(all)}) \in 0..Len(all)
  <2>1. {BatchSize, Len(all)} \in SUBSET Nat /\ Len(all) \in Nat
    BY <1>4, RegistryAssumption
  <2>2. PICK T \in SUBSET Nat : T = {BatchSize, Len(all)}
    BY <2>1
  <2>3. Min(T) \in T /\ \A j \in T : Min(T) <= j
    BY <2>2, MinOfNats
  <2> QED BY <2>1, <2>2, <2>3
<1>6. SubSeq(all, 1, Min({BatchSize, Len(all)})) \in Seq(S)
  <2>1. PICK m \in 0..Len(all) : m = Min({BatchSize, Len(all)})
    BY <1>5
  <2>2. SubSeq(all, 1, m) \in Seq(S)
    BY <1>4
  <2> QED BY <2>1, <2>2
<1>7. PoolTx(p, seen) = CompoundTx(SubSeq(all, 1, Min({BatchSize, Len(all)})))
  BY <1>2, <1>4 DEF PoolTx, CompoundBatch
<1> QED BY <1>6, <1>7, CompoundOK

\* and the sweep over the delegates of a gateway that left.
LEMMA SweepDisabledOK ==
  ASSUME NEW ants, NEW p, p.op = "sweepDisabled", NEW seen, SeenOK(seen),
         InTurn(PoolReads(p, seen), seen) = {}, ~PoolRefuses(p, seen)
  PROVE  TxOK(PoolTx(p, seen), ants)
<1>1. PICK o : o = AnyOf(Disabled(seen))
  OBVIOUS
<1>2. Disabled(seen) # {} /\ Stranded(o, seen) # {}
  BY <1>1 DEF PoolRefuses
<1>3. PICK keys : keys = SweepDisabledReads(seen)
  OBVIOUS
<1>4. \A i \in DOMAIN keys : keys[i] \in DOMAIN seen
  <2>1. InTurn(keys, seen) = {}
    BY <1>3 DEF PoolReads
  <2> QED BY <2>1, AllInTurn
<1> DEFINE rest == <<StakesOf({o}, Operators), Accumulators({o})>>
           more == <<Scan>> \o rest
<1>5. more[2] = StakesOf({o}, Operators) /\ 2 \in DOMAIN more
  <2>1. rest \in Seq({StakesOf({o}, Operators), Accumulators({o})}) /\ 1 \in DOMAIN rest
        /\ rest[1] = StakesOf({o}, Operators)
    OBVIOUS
  <2> HIDE DEF rest
  <2>2. 1 + 1 \in DOMAIN more /\ more[1 + 1] = rest[1]
    BY <2>1, Behind
  <2> QED BY <2>1, <2>2
<1> HIDE DEF rest
<1>6. Scan \in DOMAIN seen
  <2>1. CASE Scan \notin DOMAIN seen
    <3>1. keys = <<Scan>>
      BY <1>3, <2>1 DEF SweepDisabledReads
    <3> QED BY <1>4, <3>1
  <2> QED BY <2>1
<1>7. StakesOf({o}, Operators) \in DOMAIN seen
  <2>1. CASE ToSet(more) \subseteq DOMAIN seen
    BY <1>5, <2>1 DEF ToSet
  <2>2. CASE ~(ToSet(more) \subseteq DOMAIN seen)
    <3>1. keys = more
      <4>1. more = <<Scan>> \o DelegatesReads(o)
        BY DEF DelegatesReads, rest
      <4> HIDE DEF more
      <4> QED BY <1>1, <1>2, <1>3, <1>6, <2>2, <4>1 DEF SweepDisabledReads
    <3> QED BY <1>4, <1>5, <3>1
  <2> QED BY <2>1, <2>2
<1>8. PICK k : k = AnyOf(Stranded(o, seen))
  OBVIOUS
<1>9. k[1] \in Operators /\ k[2] \in Operators
  <2>1. k \in Stranded(o, seen)
    BY <1>2, <1>8 DEF AnyOf
  <2>2. Stranded(o, seen) \subseteq Operators \X Operators
    BY <1>7, StakesSeen DEF Stranded
  <2> QED BY <2>1, <2>2
<1>10. IxOK([op |-> "claim_disabled", o |-> k[1], d |-> k[2], id |-> seen[<<"nextId", k[2]>>]], ants)
  BY <1>9 DEF IxOK, GarIxs, DelegationIxs, GarOK
<1>11. PoolTx(p, seen) = ClaimDisabledTx(k, seen)
  BY <1>1, <1>8 DEF PoolTx
<1> QED BY <1>10, <1>11, OneOK DEF ClaimDisabledTx

\* Whatever a call about the stakes sends is well formed.
LEMMA PoolTxOK ==
  ASSUME NEW ants, NEW p, Asked(p), p.op \in PoolOps, NEW seen, SeenOK(seen),
         InTurn(PoolReads(p, seen), seen) = {}, ~PoolRefuses(p, seen)
  PROVE  TxOK(PoolTx(p, seen), ants)
<1>1. p.o \in Operators /\ p.d \in Operators /\ p.key \in Operators \union {NoOperator}
  BY PoolAsked
<1>2. CASE p.op = "compound"
  <2>1. <<<<p.o, p.d>>>> \in Seq({<<p.o, p.d>>})
    OBVIOUS
  <2> QED BY <1>2, <2>1, CompoundOK DEF PoolTx
<1>3. CASE p.op = "sweepRewards"
  BY <1>3, SweepRewardsOK
<1>4. CASE p.op = "sweepDisabled"
  BY <1>4, SweepDisabledOK
<1>5. CASE p.op = "sweepEmpty"
  <2>1. \A o, d : IxOK(PoolIx("close_delegation", o, d), ants)
    BY DEF PoolIx, IxOK, GarIxs, DelegationIxs, GarOK
  <2>2. \A o, d : TxOK(<<PoolIx("close_delegation", o, d)>>, ants)
    BY <2>1, OneOK
  <2> QED BY <1>5, <2>2 DEF PoolTx
<1>6. CASE p.op = "sweepDrained"
  <2>1. \A d, i : IxOK([op |-> "close_withdrawal", d |-> d, id |-> i], ants)
    BY DEF IxOK, GarIxs, DelegationIxs, GarOK
  <2>2. \A d, i : TxOK(<<[op |-> "close_withdrawal", d |-> d, id |-> i]>>, ants)
    BY <2>1, OneOK
  <2> QED BY <1>6, <2>2 DEF PoolTx
<1>7. CASE p.op = "updateGatewaySettings"
  <2>1. IxOK([op |-> "update_settings", o |-> p.o, takes |-> p.takes = "yes"], ants)
    BY DEF IxOK, GarIxs, SettingsIxs, GarOK
  <2>2. p.key # NoOperator =>
          \A old : IxOK([op |-> "update_observer", o |-> p.o, old |-> old, new |-> p.key], ants)
    BY <1>1 DEF IxOK, GarIxs, SettingsIxs, GarOK
  <2> DEFINE s == IF p.takes = "same" THEN <<>>
                  ELSE <<[op |-> "update_settings", o |-> p.o, takes |-> p.takes = "yes"]>>
             t == IF p.key = NoOperator THEN <<>>
                  ELSE <<[op |-> "update_observer", o |-> p.o, old |-> seen[ObserverOf(p.o)],
                          new |-> p.key]>>
  <2>3. TxOK(s, ants)
    BY <2>1, OneOK, NoneOK
  <2>4. TxOK(t, ants)
    BY <2>2, OneOK, NoneOK
  <2>5. PoolTx(p, seen) = s \o t
    BY <1>7 DEF PoolTx, UpdateSettingsTx
  <2> HIDE DEF s, t
  <2> QED BY <2>3, <2>4, <2>5, JoinOK
<1>8. CASE p.op = "allowDelegate"
  <2>1. IxOK(PoolIx("allow_delegate", p.o, p.d), ants)
    BY <1>1 DEF PoolIx, IxOK, GarIxs, SettingsIxs, GarOK
  <2> QED BY <1>8, <2>1, OneOK DEF PoolTx, AllowTx
<1>9. CASE p.op = "disallowDelegate"
  <2>1. IxOK(PoolIx("disallow_delegate", p.o, p.d), ants)
    BY <1>1 DEF PoolIx, IxOK, GarIxs, SettingsIxs, GarOK
  <2> QED BY <1>9, <2>1, OneOK DEF PoolTx, DisallowTx
<1>10. CASE p.op = "setAllowlistEnabled"
  <2>1. IxOK([op |-> "set_allowlist", o |-> p.o, on |-> p.takes = "yes"], ants)
    BY DEF IxOK, GarIxs, SettingsIxs, GarOK
  <2> QED BY <1>10, <2>1, OneOK DEF PoolTx, SetAllowlistTx
<1> QED BY <1>2, <1>3, <1>4, <1>5, <1>6, <1>7, <1>8, <1>9, <1>10 DEF PoolOps

-----------------------------------------------------------------------------
(* All transactions.                                                       *)

\* What is sent is well formed, whatever was read.
LEMMA SentOK ==
  ASSUME NEW ants, NEW p, Asked(p), p.op = "spawnBuy" => p.stage \in 1..3, ~IsRead(p),
         Touched(p) \subseteq ants, NEW seen, SeenOK(seen), Wanted(p, seen) = {}, ~Refuses(p, seen)
  PROVE  /\ TxOK(Tx(p, seen), ants)
         /\ p.op \in Claims => ClaimIn(Tx(p, seen), p)
         /\ p.op = "setPrimaryName" => SetsLast(Tx(p, seen), p)
         /\ p.op \in {"saveObservations", "submitReport"} =>
              Slots \in DOMAIN seen /\ ReportIn(Tx(p, seen), p, seen[Slots])
<1>1. p.op \in AntOps \union EscrowOps \union NameOps \union RegistryOps \union PoolOps
  BY AskedKinds DEF IsRead
<1>2. CASE p.op \in AntOps
  <2>1. /\ Tx(p, seen) = AntTx(p, seen) /\ AntReads(p, seen) = {} /\ ~AntRefuses(p, seen)
    BY <1>2 DEF Tx, Wanted, Refuses
  <2>2. p.op \notin Claims \union {"setPrimaryName", "saveObservations", "submitReport"}
    BY <1>2 DEF AntOps, Claims, AntClaims, TokenClaims, VaultClaims
  <2> QED BY <1>2, <2>1, <2>2, AntTxOK
<1>3. CASE p.op \in EscrowOps
  <2>1. p.op \notin AntOps
    BY <1>3 DEF AntOps, EscrowOps, Claims, AntClaims, TokenClaims, VaultClaims
  <2>2. Tx(p, seen) = EscrowTx(p, seen)
    BY <1>3, <2>1 DEF Tx
  <2>3. p.op \notin {"setPrimaryName", "saveObservations", "submitReport"}
    BY <1>3 DEF EscrowOps, Claims, AntClaims, TokenClaims, VaultClaims
  <2> QED BY <1>3, <2>2, <2>3, EscrowTxOK
<1>4. CASE p.op \in NameOps
  <2>1. p.op \notin AntOps \union EscrowOps \union {"saveObservations", "submitReport"}
    BY <1>4 DEF NameOps, AntOps, EscrowOps, Claims, AntClaims, TokenClaims, VaultClaims
  <2>2. Tx(p, seen) = NameTx(p, seen) /\ NameReads(p, seen) = {}
    BY <1>4, <2>1 DEF Tx, Wanted
  <2> QED BY <1>4, <2>1, <2>2, NameTxOK DEF EscrowOps
<1>5. CASE p.op \in PoolOps
  <2>1. p.op \notin AntOps \union EscrowOps \union NameOps \union QueryOps \union {"walk"}
    BY <1>5 DEF PoolOps, NameOps, AntOps, EscrowOps, Claims, AntClaims, TokenClaims, VaultClaims,
                QueryOps
  <2>2. Tx(p, seen) = PoolTx(p, seen) /\ InTurn(PoolReads(p, seen), seen) = {}
        /\ ~PoolRefuses(p, seen)
    BY <1>5, <2>1 DEF Tx, Wanted, Refuses
  <2>3. p.op \notin {"saveObservations", "submitReport"}
    BY <1>5 DEF PoolOps
  <2> QED BY <1>5, <2>1, <2>2, <2>3, PoolTxOK DEF EscrowOps, NameOps
<1>6. CASE p.op \in RegistryOps
  <2>1. p.op \notin AntOps \union EscrowOps \union NameOps \union QueryOps \union PoolOps
                      \union {"walk"}
    BY <1>6 DEF PoolOps, NameOps, AntOps, EscrowOps, Claims, AntClaims, TokenClaims, VaultClaims,
                QueryOps, RegistryOps
  <2>2. Tx(p, seen) = RegistryTx(p, seen) /\ InTurn(RegistryReads(p, seen), seen) = {}
    BY <1>6, <2>1 DEF Tx, Wanted
  <2> QED BY <1>6, <2>1, <2>2, RegistryTxOK DEF EscrowOps, NameOps
<1> QED BY <1>1, <1>2, <1>3, <1>4, <1>5, <1>6

-----------------------------------------------------------------------------
(* What a transaction comes to.                                            *)

Accounts == [w : Ledgers, g : Registries]

\* An instruction leads from accounts to accounts and changes the ledger that
\* it belongs to only.
LEMMA AfterTyped ==
  ASSUME NEW ants, NEW s \in Accounts, NEW ix, IxOK(ix, ants), NEW r \in After(s, ix)
  PROVE  /\ r \in Accounts
         /\ ix.op \in GarIxs => r.w = s.w /\ r.g \in OnGar(s.g, ix)
         /\ ix.op \notin GarIxs => r.g = s.g /\ r.w \in OnAsset(s.w, ix)
<1>0. s.w \in Ledgers /\ s.g \in Registries
  BY DEF Accounts
<1>1. CASE ix.op \in GarIxs
  <2>1. PICK y \in OnGar(s.g, ix) : r = [s EXCEPT !.g = y]
    BY <1>1 DEF After
  <2>2. GarOK(ix)
    BY <1>1 DEF IxOK, AssetIxs, AclIxs, AntIxs, RecordIxs, EscrowIxs, NameIxs, GarIxs,
                RegistryIxs, DelegationIxs, SettingsIxs
  <2>3. y \in Registries
    BY <1>0, <1>1, <2>2, OnGarTyped
  <2> QED BY <1>1, <2>1, <2>3 DEF Accounts
<1>2. CASE ix.op \notin GarIxs
  <2>1. PICK y \in OnAsset(s.w, ix) : r = [s EXCEPT !.w = y]
    BY <1>2 DEF After
  <2>2. ix.op \in AssetIxs /\ AssetOK(ix, ants)
    BY <1>2 DEF IxOK
  <2>3. y \in Ledgers
    BY <1>0, <2>2, OnAssetTyped
  <2> QED BY <1>2, <2>1, <2>3 DEF Accounts
<1> QED BY <1>1, <1>2

\* It is executed instruction by instruction.
Path(st, tx, from, to) ==
    /\ st \in [0..Len(tx) -> Accounts] /\ st[0] = from /\ st[Len(tx)] = to
    /\ \A i \in 1..Len(tx) : st[i] \in After(st[i - 1], tx[i])

\* The accounts that a transaction may lead to, instruction by instruction.
Reaching(run, tx) ==
    /\ run \in [0..Len(tx) -> SUBSET Accounts] /\ run[0] = {[w |-> w, g |-> g]}
    /\ \A k \in 1..Len(tx) : run[k] = UNION {After(r, tx[k]) : r \in run[k - 1]}
    /\ Execute(tx) = run[Len(tx)]

\* A transaction has its run of intermediate results.
LEMMA ExecuteRuns ==
  ASSUME NEW ants, w \in Ledgers, g \in Registries, NEW tx, TxOK(tx, ants)
  PROVE  \E run : Reaching(run, tx)
<1> DEFINE V == SUBSET Accounts
           n == Len(tx)
           base == {[w |-> w, g |-> g]}
           Then1(ss, ix) == UNION {After(r, ix) : r \in ss}
           G == [p \in V \X (1..n) |-> Then1(p[1], tx[p[2]])]
           it == CHOOSE f : f = [d \in SUBSET DOMAIN tx |->
                   IF d = {} THEN base
                   ELSE LET x == Max(d) IN Then1(f[d \ {x}], tx[x])]
<1>1. n \in Nat /\ DOMAIN tx = 1..n /\ \A j \in 1..n : IxOK(tx[j], ants)
  <2>1. PICK S : tx \in Seq(S)
    BY DEF TxOK
  <2>2. n \in Nat /\ DOMAIN tx = 1..n
    BY <2>1
  <2> QED BY <2>2 DEF TxOK
<1>2. base \in V
  BY DEF Accounts
<1>n. ASSUME NEW ss \in V, NEW j \in 1..n PROVE Then1(ss, tx[j]) \in V
  BY <1>1, AfterTyped
<1>3. G \in [V \X (1..n) -> V]
  <2> HIDE DEF Then1, V, n
  <2> QED BY <1>n
<1>4. PICK f \in [SUBSET (1..n) -> V] : FoldsLeft(f, n, base, G)
  <2> HIDE DEF G, base, V
  <2> QED BY <1>1, <1>2, <1>3, FoldLeftExists
<1>5. f = [d \in SUBSET DOMAIN tx |->
             IF d = {} THEN base
             ELSE LET x == Max(d) IN Then1(f[d \ {x}], tx[x])]
  <2>1. \A d \in SUBSET (1..n) : d # {} => Max(d) \in 1..n
    BY <1>1, MaxOfPositions
  <2>2. \A d \in SUBSET (1..n) :
          d # {} => G[<<f[d \ {Max(d)}], Max(d)>>] = Then1(f[d \ {Max(d)}], tx[Max(d)])
    <3> HIDE DEF Then1, V, n
    <3> QED BY <2>1
  <2> HIDE DEF G, base, Then1, V
  <2> QED BY <1>1, <1>4, <2>2 DEF FoldsLeft
<1>6. it = [d \in SUBSET DOMAIN tx |->
              IF d = {} THEN base
              ELSE LET x == Max(d) IN Then1(it[d \ {x}], tx[x])]
  <2> HIDE DEF base, Then1
  <2> QED BY <1>5
<1>7. Unfolds(it, n, V, base, G)
  <2>1. \A d \in SUBSET (1..n) : d # {} => Max(d) \in 1..n
    BY <1>1, MaxOfPositions
  <2> HIDE DEF it, base, Then1, V
  <2> QED BY <1>1, <1>6, <2>1 DEF Unfolds
<1>8. Runs(it, n, V, base, G)
  <2> HIDE DEF it, G, base, V
  <2> QED BY <1>1, <1>2, <1>3, <1>7, FoldRuns
<1>9. Execute(tx) = it[1..n]
  BY <1>1 DEF Execute, FoldLeft, MapThenFoldSet
<1>r. PICK run : run = [k \in 0..n |-> it[1..k]]
  OBVIOUS
<1>10. \A k \in 0..n : run[k] = it[1..k] /\ it[1..k] \in V
  <2> HIDE DEF it, G, base, V
  <2> QED BY <1>8, <1>r DEF Runs
<1>11. run \in [0..n -> V] /\ run[0] = base
  <2>1. 0 \in 0..n
    BY <1>1
  <2>2. it[1..0] = base
    <3> HIDE DEF it, G, base, V
    <3> QED BY <1>8 DEF Runs
  <2> HIDE DEF it, base, V, n
  <2> QED BY <1>r, <1>10, <2>1, <2>2
<1>12. ASSUME NEW k \in 1..n PROVE run[k] = Then1(run[k - 1], tx[k])
  <2>1. k \in 0..n /\ k - 1 \in 0..n
    BY <1>1
  <2>2. run[k] = G[<<run[k - 1], k>>] /\ run[k - 1] \in V
    <3> HIDE DEF it, G, base, V, n
    <3> QED BY <1>8, <1>10, <2>1 DEF Runs
  <2> HIDE DEF it, Then1, V, n
  <2> QED BY <2>2
<1>13. run[n] = Execute(tx)
  <2>1. n \in 0..n
    BY <1>1
  <2> HIDE DEF it, n
  <2> QED BY <1>9, <1>10, <2>1
<1>14. Reaching(run, tx)
  <2> HIDE DEF it
  <2> QED BY <1>11, <1>12, <1>13 DEF Reaching
<1> QED BY <1>14

\* What Execute finds is reached instruction by instruction, and the other
\* way round.
LEMMA ExecutePath ==
  ASSUME NEW ants, w \in Ledgers, g \in Registries, NEW tx, TxOK(tx, ants), NEW s \in Execute(tx)
  PROVE  \E st : Path(st, tx, [w |-> w, g |-> g], s)
<1>n. PICK n : n = Len(tx) /\ n \in Nat /\ \A j \in 1..n : IxOK(tx[j], ants)
  <2>1. PICK S : tx \in Seq(S)
    BY DEF TxOK
  <2> QED BY <2>1 DEF TxOK
<1>1. PICK run : Reaching(run, tx)
  BY ExecuteRuns
<1>2. /\ run \in [0..n -> SUBSET Accounts] /\ run[0] = {[w |-> w, g |-> g]} /\ s \in run[n]
      /\ \A k \in 1..n : run[k] = UNION {After(r, tx[k]) : r \in run[k - 1]}
  BY <1>n, <1>1 DEF Reaching
<1> DEFINE Reached(st, k, r) ==
             /\ st \in [0..k -> Accounts] /\ st[0] = [w |-> w, g |-> g] /\ st[k] = r
             /\ \A i \in 1..k : st[i] \in After(st[i - 1], tx[i])
           T == {k \in 0..n : \A r \in run[k] : \E st : Reached(st, k, r)}
<1>3. 0 \in T
  <2> SUFFICES ASSUME NEW r \in run[0] PROVE \E st : Reached(st, 0, r)
    BY <1>n
  <2>1. r = [w |-> w, g |-> g] /\ r \in Accounts
    BY <1>2 DEF Accounts
  <2>2. Reached([i \in 0..0 |-> r], 0, r)
    BY <2>1
  <2> QED BY <2>2
<1>4. ASSUME NEW k \in 0..(n - 1), k \in T PROVE k + 1 \in T
  <2>0. k \in 0..n /\ k + 1 \in 1..n /\ (k + 1) - 1 = k /\ k + 1 \in 0..n /\ k \in Nat
    BY <1>n
  <2> SUFFICES ASSUME NEW r \in run[k + 1] PROVE \E st : Reached(st, k + 1, r)
    BY <2>0
  <2>1. PICK q \in run[k] : r \in After(q, tx[k + 1])
    BY <1>2, <2>0
  <2>2. PICK st : Reached(st, k, q)
    <3> HIDE DEF Reached
    <3> QED BY <1>4, <2>1
  <2>3. r \in Accounts
    BY <1>2, <2>0
  <2>s. PICK new : new = [i \in 0..(k + 1) |-> IF i = k + 1 THEN r ELSE st[i]]
    OBVIOUS
  <2>4. new \in [0..(k + 1) -> Accounts] /\ new[0] = st[0] /\ new[k + 1] = r
        /\ \A i \in 0..k : new[i] = st[i]
    BY <2>0, <2>2, <2>3, <2>s
  <2>5. ASSUME NEW i \in 1..(k + 1) PROVE new[i] \in After(new[i - 1], tx[i])
    <3>1. CASE i = k + 1
      <4>1. new[i] = r /\ new[i - 1] = q
        BY <2>0, <2>2, <2>4, <3>1
      <4> QED BY <2>1, <3>1, <4>1
    <3>2. CASE i # k + 1
      <4>1. i \in 1..k /\ i - 1 \in 0..k /\ i \in 0..k
        BY <2>0, <3>2
      <4> QED BY <2>2, <2>4, <4>1
    <3> QED BY <3>1, <3>2
  <2>6. Reached(new, k + 1, r)
    BY <2>2, <2>4, <2>5
  <2> QED BY <2>6
<1>5. \A k \in 0..n : k \in T
  <2> HIDE DEF T
  <2> QED BY <1>n, <1>3, <1>4, UpToByInduction
<1>6. PICK st : Reached(st, n, s)
  <2>1. n \in 0..n
    BY <1>n
  <2>2. n \in T
    <3> HIDE DEF T
    <3> QED BY <1>5, <2>1
  <2> QED BY <1>2, <2>2
<1> QED BY <1>n, <1>6 DEF Path

\* And the other way round: where a path leads is among the results.
LEMMA PathExecute ==
  ASSUME NEW ants, w \in Ledgers, g \in Registries, NEW tx, TxOK(tx, ants),
         NEW s, NEW st, Path(st, tx, [w |-> w, g |-> g], s)
  PROVE  s \in Execute(tx)
<1>n. PICK n : n = Len(tx) /\ n \in Nat
  <2>1. PICK S : tx \in Seq(S)
    BY DEF TxOK
  <2> QED BY <2>1
<1>1. PICK run : Reaching(run, tx)
  BY ExecuteRuns
<1>2. /\ run[0] = {[w |-> w, g |-> g]} /\ Execute(tx) = run[n]
      /\ \A k \in 1..n : run[k] = UNION {After(r, tx[k]) : r \in run[k - 1]}
  BY <1>n, <1>1 DEF Reaching
<1>3. /\ st[0] = [w |-> w, g |-> g] /\ st[n] = s
      /\ \A k \in 1..n : st[k] \in After(st[k - 1], tx[k])
  BY <1>n DEF Path
<1> DEFINE T == {k \in 0..n : st[k] \in run[k]}
<1>4. 0 \in T
  BY <1>n, <1>2, <1>3
<1>5. ASSUME NEW k \in 0..(n - 1), k \in T PROVE k + 1 \in T
  <2>1. k + 1 \in 1..n /\ (k + 1) - 1 = k /\ k + 1 \in 0..n
    BY <1>n
  <2>2. st[k + 1] \in After(st[k], tx[k + 1]) /\ st[k] \in run[k]
    BY <1>3, <1>5, <2>1
  <2>3. run[k + 1] = UNION {After(r, tx[k + 1]) : r \in run[k]}
    BY <1>2, <2>1
  <2> QED BY <2>1, <2>2, <2>3
<1>6. \A k \in 0..n : k \in T
  <2> HIDE DEF T
  <2> QED BY <1>n, <1>4, <1>5, UpToByInduction
<1>7. n \in T
  BY <1>n, <1>6
<1> QED BY <1>2, <1>3, <1>7

(* Where the pages of a user have an entry.                                *)
Spots(x, u, e) == Holding(x.acl[u], e)
Roles == {"owner", "controller"}

\* An entry stands in a page more, or less, and every other one where it was.
Gains(x, y, u, e, i) ==
    \A v \in Users : \A f :
      Spots(y, v, f) = IF v = u /\ f = e THEN Spots(x, v, f) \union {i} ELSE Spots(x, v, f)
Loses(x, y, u, e, i) ==
    \A v \in Users : \A f :
      Spots(y, v, f) = IF v = u /\ f = e THEN Spots(x, v, f) \ {i} ELSE Spots(x, v, f)
Still(x, y) == \A v \in Users : \A f : Spots(y, v, f) = Spots(x, v, f)

\* What an instruction on a list leaves of where the entries are.
LEMMA InSpots ==
  ASSUME NEW x \in Ledgers, NEW u \in Users, NEW i, PageOpen(x, u, i),
         NEW e \in Entries, Fits(x, u, i, e),
         NEW y, y = In(x, u, i, e)
  PROVE  Gains(x, y, u, e, i)
<1> SUFFICES ASSUME NEW v \in Users, NEW f
             PROVE  Spots(y, v, f)
                      = IF v = u /\ f = e THEN Spots(x, v, f) \union {i} ELSE Spots(x, v, f)
  BY DEF Gains, Loses
<1> PICK acl, new : acl = x.acl[u] /\ new = Inside(x.acl[u], i, e)
  OBVIOUS
<1>1. x.acl \in [Users -> Acls] /\ acl \in Acls
  BY DEF Ledgers, LedgerType
<1>2. In(x, u, i, e).acl = [x.acl EXCEPT ![u] = new]
  BY InFacts
<1>3. i \in DOMAIN acl.pages /\ acl.pages[i] \union {e} \in SUBSET Entries
  BY <1>1 DEF PageOpen, Acls, Entries
<1>4. new.pages = [acl.pages EXCEPT ![i] = acl.pages[i] \union {e}]
  BY <1>1, <1>3, PagesTyped DEF Inside
<1>5. CASE v # u
  BY <1>1, <1>2, <1>5 DEF Spots
<1>6. CASE v = u
  <2>1. In(x, u, i, e).acl[v] = new /\ x.acl[v] = acl
    BY <1>1, <1>2, <1>6
  <2>2. DOMAIN new.pages = DOMAIN acl.pages
    BY <1>4
  <2>3. Holding(new, f) = IF f = e THEN Holding(acl, f) \union {i} ELSE Holding(acl, f)
    BY <1>3, <1>4, <2>2 DEF Holding
  <2> QED BY <1>6, <2>1, <2>3 DEF Spots
<1> QED BY <1>5, <1>6

\* An entry is taken out.
LEMMA OutSpots ==
  ASSUME NEW x \in Ledgers, NEW u \in Users, NEW i, PageOpen(x, u, i), NEW e,
         NEW y, y = Out(x, u, i, e)
  PROVE  Loses(x, y, u, e, i)
<1> SUFFICES ASSUME NEW v \in Users, NEW f
             PROVE  Spots(y, v, f)
                      = IF v = u /\ f = e THEN Spots(x, v, f) \ {i} ELSE Spots(x, v, f)
  BY DEF Gains, Loses
<1> PICK acl, new : acl = x.acl[u] /\ new = Outside(x.acl[u], i, e)
  OBVIOUS
<1>1. x.acl \in [Users -> Acls] /\ acl \in Acls
  BY DEF Ledgers, LedgerType
<1>2. Out(x, u, i, e).acl = [x.acl EXCEPT ![u] = new]
  BY OutFacts
<1>3. i \in DOMAIN acl.pages /\ acl.pages[i] \ {e} \in SUBSET Entries
  BY <1>1 DEF PageOpen, Acls, Entries
<1>4. new.pages = [acl.pages EXCEPT ![i] = acl.pages[i] \ {e}]
  BY <1>1, <1>3, PagesTyped DEF Outside
<1>5. CASE v # u
  BY <1>1, <1>2, <1>5 DEF Spots
<1>6. CASE v = u
  <2>1. Out(x, u, i, e).acl[v] = new /\ x.acl[v] = acl
    BY <1>1, <1>2, <1>6
  <2>2. DOMAIN new.pages = DOMAIN acl.pages
    BY <1>4
  <2>3. Holding(new, f) = IF f = e THEN Holding(acl, f) \ {i} ELSE Holding(acl, f)
    BY <1>3, <1>4, <2>2 DEF Holding
  <2> QED BY <1>6, <2>1, <2>3 DEF Spots
<1> QED BY <1>5, <1>6

\* A head and an empty page move no entry.
Headed(x, u) == [x EXCEPT !.acl[u].exists = TRUE]
Extended(x, u) == [x EXCEPT !.acl[u].pages = Append(@, {})]

\* A list that is created, or given a page more, moves no entry.
LEMMA HeadSpots ==
  ASSUME NEW x \in Ledgers, NEW u,
         NEW y, y = Headed(x, u)
  PROVE  Still(x, y)
<1> SUFFICES ASSUME NEW v \in Users, NEW f
             PROVE  Spots(y, v, f) = Spots(x, v, f)
  BY DEF Still
<1>1. x.acl \in [Users -> Acls]
  BY DEF Ledgers, LedgerType
<1>2. y.acl[v].pages = x.acl[v].pages
  BY <1>1 DEF Headed, Ledgers, LedgerType, Acls
<1> QED BY <1>2 DEF Spots, Holding

\* The same of the page.
LEMMA PageSpots ==
  ASSUME NEW x \in Ledgers, NEW u,
         NEW y, y = Extended(x, u)
  PROVE  Still(x, y)
<1> SUFFICES ASSUME NEW v \in Users, NEW f
             PROVE  Spots(y, v, f) = Spots(x, v, f)
  BY DEF Still
<1>1. x.acl \in [Users -> Acls]
  BY DEF Ledgers, LedgerType
<1>2. CASE v # u
  <2>1. y.acl[v] = x.acl[v]
    BY <1>1, <1>2 DEF Extended, Ledgers, LedgerType
  <2> QED BY <2>1 DEF Spots
<1>3. CASE v = u
  <2>1. y.acl[v].pages = Append(x.acl[v].pages, {})
    BY <1>1, <1>3 DEF Extended, Ledgers, LedgerType, Acls
  <2>2. x.acl[v].pages \in Seq(SUBSET Entries)
    BY <1>1 DEF Acls, Entries
  <2>3. \A i \in DOMAIN y.acl[v].pages : f \in y.acl[v].pages[i] <=>
            i \in DOMAIN x.acl[v].pages /\ f \in x.acl[v].pages[i]
    BY <2>1, <2>2
  <2>4. DOMAIN x.acl[v].pages \subseteq DOMAIN y.acl[v].pages
    BY <2>1, <2>2
  <2> QED BY <2>3, <2>4 DEF Spots, Holding
<1> QED BY <1>2, <1>3

(* An entry stands nowhere, or at one place.                               *)
None(x, u, e) == Spots(x, u, e) = {}
Once(x, u, e) == \E i : Spots(x, u, e) = {i}
Iff(x, u, e, role) == (role => Once(x, u, e)) /\ (~role => None(x, u, e))

\* Which is what counting its places says.
LEMMA SpotsCounted ==
  ASSUME NEW x \in Ledgers, NEW u \in Users, NEW e
  PROVE  /\ CountIn(x, u, e) = 0 <=> None(x, u, e)
         /\ CountIn(x, u, e) = 1 <=> Once(x, u, e)
<1>1. x.acl[u] \in Acls
  BY DEF Ledgers, LedgerType
<1>2. Spots(x, u, e) \subseteq 1..Len(x.acl[u].pages) /\ Len(x.acl[u].pages) \in Nat
  BY <1>1 DEF Spots, Holding, Acls
<1>3. IsFiniteSet(Spots(x, u, e))
  <2>1. IsFiniteSet(1..Len(x.acl[u].pages))
    BY <1>2, FS_Interval
  <2> QED BY <1>2, <2>1, FS_Subset
<1> QED BY <1>3, FS_EmptySet, FS_Singleton, FS_CardinalityType DEF CountIn, Spots, None, Once

\* What the lists say of a user.
Says(x, a, u, owns) ==
    /\ Iff(x, u, Entry(a, "owner"), owns)
    /\ Iff(x, u, Entry(a, "controller"), u \in x.ctrl[a])
Silent(x, a, u) == None(x, u, Entry(a, "owner")) /\ None(x, u, Entry(a, "controller"))

\* To count the positions of an entry is to say which they are.
LEMMA ToldSays ==
  ASSUME NEW x \in Ledgers, NEW a, NEW u \in Users, NEW owns \in BOOLEAN
  PROVE  /\ Told(x, a, u, owns) <=> Says(x, a, u, owns)
         /\ Untold(x, a, u) <=> Silent(x, a, u)
BY SpotsCounted DEF Told, Untold, Says, Silent, Iff

\* Who owns and controls an ANT, and where its entries are, is the same.
SameSpots(x, y, a) ==
    \A u \in Users, r \in Roles : Spots(y, u, Entry(a, r)) = Spots(x, u, Entry(a, r))
SameView(x, y, a) ==
    /\ y.owner[a] = x.owner[a] /\ y.known[a] = x.known[a] /\ y.ctrl[a] = x.ctrl[a]
    /\ SameSpots(x, y, a)

\* Where the positions are the same the counts are.
LEMMA SameCounts ==
  ASSUME NEW x, NEW y, NEW a, SameSpots(x, y, a), y.ctrl[a] = x.ctrl[a], NEW u \in Users
  PROVE  /\ \A owns : Told(y, a, u, owns) <=> Told(x, a, u, owns)
         /\ Untold(y, a, u) <=> Untold(x, a, u)
<1>1. \A r \in Roles : CountIn(y, u, Entry(a, r)) = CountIn(x, u, Entry(a, r))
  BY DEF SameSpots, CountIn, Spots
<1> QED BY <1>1 DEF Told, Untold, Roles

\* Where the view of an ANT is the same its history still describes it.
LEMMA SameLists ==
  ASSUME NEW x, NEW y, NEW a, SameView(x, y, a), NEW d, Accords(x, a, d)
  PROVE  Accords(y, a, d)
<1>1. \A u \in Users : /\ \A owns : Told(y, a, u, owns) <=> Told(x, a, u, owns)
                       /\ Untold(y, a, u) <=> Untold(x, a, u)
  BY SameCounts DEF SameView
<1>2. y.owner[a] = x.owner[a] /\ y.known[a] = x.known[a] /\ y.ctrl[a] = x.ctrl[a]
  BY DEF SameView
<1>3. Blank(y, a)
  BY <1>1, <1>2 DEF Accords, Blank
<1>4. d = "exact" => y.known[a] = y.owner[a] /\ Exact(y, a)
  BY <1>1, <1>2 DEF Accords, Exact
<1>5. d = "raw" => Stale(y, a)
  BY <1>1, <1>2 DEF Accords, Stale
<1> QED BY <1>3, <1>4, <1>5 DEF Accords

\* Lists that are exact are stale in nothing.
LEMMA ExactIsStale ==
  ASSUME NEW x, NEW a, x.known[a] = x.owner[a], Exact(x, a)
  PROVE  Stale(x, a)
BY DEF Exact, Stale

\* What an instruction on the lists does to them.
Recorded(ix, u, e) ==
    IF ix.op = "record" /\ ix.user = u /\ ix.entry = e THEN {ix.page} ELSE {}
Removed(ix, u, e) ==
    IF ix.op = "remove" /\ ix.user = u /\ ix.entry = e THEN {ix.page} ELSE {}

\* An instruction on the lists moves one entry, and records only a role that
\* is held.
LEMMA AclEffect ==
  ASSUME NEW ants, NEW x \in Ledgers, NEW ix, ix.op \in AclIxs, AssetOK(ix, ants),
         NEW y \in OnAcl(x, ix)
  PROVE  /\ y.owner = x.owner /\ y.known = x.known /\ y.ctrl = x.ctrl
         /\ \A u \in Users : \A e :
              Spots(y, u, e) = (Spots(x, u, e) \union Recorded(ix, u, e)) \ Removed(ix, u, e)
         /\ ix.op = "record" => HasRole(x, ix.user, ix.entry)
<1> PICK u : u = ix.user
  OBVIOUS
<1>0. x \in LedgerType
  BY DEF Ledgers
<1>1. CASE ix.op = "register"
  <2>1. y = Headed(x, u)
    BY <1>1 DEF OnAcl, When, Headed
  <2>2. \A v \in Users : \A e : Spots(y, v, e) = Spots(x, v, e)
    BY <2>1, HeadSpots DEF Still
  <2>3. y.owner = x.owner /\ y.known = x.known /\ y.ctrl = x.ctrl
    BY <1>0, <2>1 DEF LedgerType, Headed, Extended
  <2> QED BY <1>1, <2>2, <2>3 DEF Recorded, Removed
<1>2. CASE ix.op = "add_page"
  <2>1. y = Extended(x, u)
    BY <1>2 DEF OnAcl, When, Extended
  <2>2. \A v \in Users : \A e : Spots(y, v, e) = Spots(x, v, e)
    BY <2>1, PageSpots DEF Still
  <2>3. y.owner = x.owner /\ y.known = x.known /\ y.ctrl = x.ctrl
    BY <1>0, <2>1 DEF LedgerType, Headed, Extended
  <2> QED BY <1>2, <2>2, <2>3 DEF Recorded, Removed
<1>3. CASE ix.op = "record"
  <2> PICK i, e : i = ix.page /\ e = ix.entry
    OBVIOUS
  <2>1. /\ y = In(x, u, i, e) /\ PageOpen(x, u, i)
        /\ Fits(x, u, i, e) /\ e \in Entries
        /\ HasRole(x, u, e)
    BY <1>3 DEF OnAcl, When, AssetOK, EntriesOf
  <2>2. y.owner = x.owner /\ y.known = x.known /\ y.ctrl = x.ctrl
    BY <1>0, <2>1 DEF LedgerType, In
  <2>3. CASE u \in Users
    <3>1. \A v \in Users : \A f :
            Spots(y, v, f) = IF v = u /\ f = e THEN Spots(x, v, f) \union {i}
                             ELSE Spots(x, v, f)
      BY <2>1, <2>3, InSpots DEF Gains
    <3>2. ASSUME NEW v \in Users, NEW f
          PROVE  Spots(y, v, f) = (Spots(x, v, f) \union Recorded(ix, v, f)) \ Removed(ix, v, f)
      BY <1>3, <3>1 DEF Recorded, Removed
    <3> QED BY <1>3, <2>1, <2>2, <3>2
  <2>4. CASE u \notin Users
    <3>1. PICK acl : y = [x EXCEPT !.acl[u] = acl]
      BY <2>1 DEF In
    <3>2. y = x
      BY <1>0, <2>4, <3>1, NoList
    <3> QED BY <1>3, <2>1, <2>4, <3>2 DEF Recorded, Removed
  <2> QED BY <2>3, <2>4
<1>4. CASE ix.op = "remove"
  <2> PICK i, e : i = ix.page /\ e = ix.entry
    OBVIOUS
  <2>1. y = Out(x, u, i, e) /\ PageOpen(x, u, i)
    BY <1>4 DEF OnAcl, When
  <2>2. y.owner = x.owner /\ y.known = x.known /\ y.ctrl = x.ctrl
    BY <1>0, <2>1 DEF LedgerType, Out
  <2>3. CASE u \in Users
    <3>1. \A v \in Users : \A f :
            Spots(y, v, f) = IF v = u /\ f = e THEN Spots(x, v, f) \ {i}
                             ELSE Spots(x, v, f)
      BY <2>1, <2>3, OutSpots DEF Loses
    <3>2. ASSUME NEW v \in Users, NEW f
          PROVE  Spots(y, v, f) = (Spots(x, v, f) \union Recorded(ix, v, f)) \ Removed(ix, v, f)
      BY <1>4, <3>1 DEF Recorded, Removed
    <3> QED BY <1>4, <2>2, <3>2
  <2>4. CASE u \notin Users
    <3>1. PICK acl : y = [x EXCEPT !.acl[u] = acl]
      BY <2>1 DEF Out
    <3>2. y = x
      BY <1>0, <2>4, <3>1, NoList
    <3> QED BY <1>4, <2>4, <3>2 DEF Recorded, Removed
  <2> QED BY <2>3, <2>4
<1> QED BY <1>1, <1>2, <1>3, <1>4 DEF AclIxs

\* What is beside the lists moves no entry.
LEMMA BesideSpots ==
  ASSUME NEW x, NEW y, y.acl = x.acl
  PROVE  Still(x, y)
BY DEF Spots, Still

\* What is gained or lost after nothing moved is gained or lost overall.
LEMMA GainsStill ==
  ASSUME NEW x, NEW z, NEW y, Still(x, z), NEW u, NEW e, NEW i
  PROVE  /\ Gains(z, y, u, e, i) => Gains(x, y, u, e, i)
         /\ Loses(z, y, u, e, i) => Loses(x, y, u, e, i)
BY DEF Still, Gains, Loses

\* An entry is taken out of the list of somebody who may be no user.
LEMMA TakenSpots ==
  ASSUME NEW z \in Ledgers, NEW u, NEW i, PageOpen(z, u, i), NEW e, NEW y, y = Out(z, u, i, e)
  PROVE  Loses(z, y, u, e, i)
<1>1. CASE u \in Users
  BY <1>1, OutSpots
<1>2. CASE u \notin Users
  <2>1. PICK acl : y = [z EXCEPT !.acl[u] = acl]
    BY DEF Out
  <2>2. y = z
    BY <1>2, <2>1, NoList DEF Ledgers
  <2> QED BY <1>2, <2>2 DEF Loses
<1> QED BY <1>1, <1>2

\* addController and removeController, and where the program puts the entry.
LEMMA AddEffect ==
  ASSUME NEW ants, NEW x \in Ledgers, NEW ix, ix.op = "add_controller", AssetOK(ix, ants),
         NEW y \in OnAnt(x, ix)
  PROVE  /\ ix.a \in Ants /\ ix.u \in Users /\ ix.u \notin x.ctrl[ix.a] /\ x.owner[ix.a] \in Users
         /\ y.owner = x.owner /\ y.known = x.known
         /\ y.ctrl = [x.ctrl EXCEPT ![ix.a] = x.ctrl[ix.a] \union {ix.u}]
         /\ Gains(x, y, ix.u, Entry(ix.a, "controller"), ix.page)
<1>a. PICK a, u, i : a = ix.a /\ u = ix.u /\ i = ix.page
  OBVIOUS
<1>c. PICK con : con = x.ctrl[a] \union {u}
  OBVIOUS
<1>z. PICK z : z = [x EXCEPT !.ctrl[a] = con]
  OBVIOUS
<1>e. PICK e : e = Entry(a, "controller")
  OBVIOUS
<1>1. /\ y = In(z, u, i, e) /\ PageOpen(x, u, i) /\ Fits(x, u, i, e)
      /\ u \notin x.ctrl[a] /\ x.owner[a] = ix.by
  BY <1>a, <1>c, <1>z, <1>e DEF OnAnt, When
<1>2. a \in Ants /\ u \in Users /\ e \in Entries /\ x.owner[a] \in Users
  BY <1>1, <1>e, <1>a DEF AssetOK, Entry, Entries
<1>x. x \in LedgerType
  BY DEF Ledgers
<1>3. z \in LedgerType /\ z.acl = x.acl
  <2>1. con \in SUBSET Users
    BY <1>x, <1>2, <1>c DEF LedgerType
  <2> QED BY <1>x, <1>2, <1>z, <2>1 DEF LedgerType
<1>4. z \in Ledgers /\ PageOpen(z, u, i) /\ Fits(z, u, i, e)
  <2>1. z \in Ledgers
    BY <1>3, Beside
  <2> QED BY <1>1, <1>3, <2>1 DEF PageOpen, Fits
<1>5. Gains(z, y, u, e, i)
  BY <1>1, <1>2, <1>4, InSpots
<1>6. Gains(x, y, u, e, i)
  BY <1>3, <1>5, BesideSpots, GainsStill
<1>7. y.owner = z.owner /\ y.known = z.known /\ y.ctrl = z.ctrl
  BY <1>1, <1>3 DEF In, LedgerType
<1>8. z.owner = x.owner /\ z.known = x.known /\ z.ctrl = [x.ctrl EXCEPT ![a] = con]
  BY <1>x, <1>z DEF LedgerType
<1>9. y.owner = x.owner /\ y.known = x.known /\ y.ctrl = [x.ctrl EXCEPT ![a] = con]
  BY <1>7, <1>8
<1> QED BY <1>1, <1>2, <1>9, <1>c, <1>6, <1>a, <1>e

\* A removed controller takes his entry along.
LEMMA RemoveEffect ==
  ASSUME NEW x \in Ledgers, NEW ix, ix.op = "remove_controller", NEW y \in OnAnt(x, ix)
  PROVE  /\ ix.u \in x.ctrl[ix.a] /\ ix.page \in Spots(x, ix.u, Entry(ix.a, "controller"))
         /\ y.owner = x.owner /\ y.known = x.known
         /\ y.ctrl = [x.ctrl EXCEPT ![ix.a] = x.ctrl[ix.a] \ {ix.u}]
         /\ Loses(x, y, ix.u, Entry(ix.a, "controller"), ix.page)
<1>a. PICK a, u, i : a = ix.a /\ u = ix.u /\ i = ix.page
  OBVIOUS
<1>c. PICK con : con = x.ctrl[a] \ {u}
  OBVIOUS
<1>z. PICK z : z = [x EXCEPT !.ctrl[a] = con]
  OBVIOUS
<1>e. PICK e : e = Entry(a, "controller")
  OBVIOUS
<1>1. /\ y = Out(z, u, i, e) /\ PageOpen(x, u, i) /\ e \in x.acl[u].pages[i]
      /\ u \in x.ctrl[a]
  BY <1>a, <1>c, <1>z, <1>e DEF OnAnt, When
<1>2. i \in Spots(x, u, e)
  BY <1>1 DEF Spots, Holding, PageOpen
<1>x. x \in LedgerType
  BY DEF Ledgers
<1>k. x.ctrl \in [Ants -> SUBSET Users]
  BY <1>x DEF LedgerType
<1>3. z \in LedgerType /\ z.acl = x.acl
  <2>1. a \in Ants => con \in SUBSET Users
    BY <1>k, <1>c
  <2>2. [x.ctrl EXCEPT ![a] = con] \in [Ants -> SUBSET Users]
    BY <1>k, <2>1
  <2>3. z = [x EXCEPT !.ctrl = [x.ctrl EXCEPT ![a] = con]]
    BY <1>x, <1>z DEF LedgerType
  <2> QED BY <1>x, <2>2, <2>3 DEF LedgerType
<1>4. z \in Ledgers /\ PageOpen(z, u, i)
  <2>1. z \in Ledgers
    BY <1>3, Beside
  <2> QED BY <1>1, <1>3, <2>1 DEF PageOpen
<1>5. Loses(z, y, u, e, i)
  BY <1>1, <1>4, TakenSpots
<1>6. Loses(x, y, u, e, i)
  BY <1>3, <1>5, BesideSpots, GainsStill
<1>7. y.owner = z.owner /\ y.known = z.known /\ y.ctrl = z.ctrl
  BY <1>1, <1>3 DEF Out, LedgerType
<1>8. z.owner = x.owner /\ z.known = x.known /\ z.ctrl = [x.ctrl EXCEPT ![a] = con]
  BY <1>x, <1>z DEF LedgerType
<1>9. y.owner = x.owner /\ y.known = x.known /\ y.ctrl = [x.ctrl EXCEPT ![a] = con]
  BY <1>7, <1>8
<1> QED BY <1>1, <1>2, <1>9, <1>c, <1>6, <1>a, <1>e

\* A transfer takes the entry of the owner from one list to the other.
LEMMA TransferEffect ==
  ASSUME NEW ants, NEW x \in Ledgers, NEW ix, ix.op = "transfer", AssetOK(ix, ants),
         NEW y \in OnAnt(x, ix)
  PROVE  /\ ix.a \in Ants /\ ix.u \in Users /\ ix.by \in Users /\ x.owner[ix.a] = ix.by
         /\ y.owner = [x.owner EXCEPT ![ix.a] = ix.u] /\ y.known = [x.known EXCEPT ![ix.a] = ix.u]
         /\ y.ctrl = [x.ctrl EXCEPT ![ix.a] = {}]
         /\ \E m : /\ Loses(x, m, ix.by, Entry(ix.a, "owner"), ix.from)
                   /\ Gains(m, y, ix.u, Entry(ix.a, "owner"), ix.page)
<1>a. PICK a, u, i, j, by : a = ix.a /\ u = ix.u /\ i = ix.page /\ j = ix.from /\ by = ix.by
  OBVIOUS
<1>z. PICK z : z = [x EXCEPT !.owner[a] = u, !.known[a] = u, !.ctrl[a] = {}]
  OBVIOUS
<1>e. PICK e : e = Entry(a, "owner")
  OBVIOUS
<1>m. PICK m : m = Out(z, by, j, e)
  OBVIOUS
<1>1. /\ y = In(m, u, i, e) /\ PageOpen(x, by, j) /\ PageOpen(x, u, i) /\ Fits(x, u, i, e)
      /\ x.owner[a] = by
  BY <1>m, <1>z, <1>a, <1>e DEF OnAnt, When
<1>2. a \in Ants /\ u \in Users /\ by \in Users /\ e \in Entries
  BY <1>a, <1>e DEF AssetOK, Entry, Entries
<1>x. x \in LedgerType
  BY DEF Ledgers
<1>3. z \in LedgerType /\ z.acl = x.acl
  BY <1>x, <1>2, <1>z DEF LedgerType
<1>4. z \in Ledgers /\ PageOpen(z, by, j) /\ PageOpen(z, u, i) /\ Fits(z, u, i, e)
  <2>1. z \in Ledgers
    BY <1>3, Beside
  <2> QED BY <1>1, <1>3, <2>1 DEF PageOpen, Fits
<1>5. m \in Ledgers /\ PageOpen(m, u, i) /\ Fits(m, u, i, e)
  BY <1>m, <1>2, <1>4, FitsStill
<1>6. Loses(x, m, by, e, j)
  BY <1>m, <1>3, <1>4, TakenSpots, BesideSpots, GainsStill
<1>7. Gains(m, y, u, e, i)
  BY <1>1, <1>2, <1>5, InSpots
<1>9. y.owner = z.owner /\ y.known = z.known /\ y.ctrl = z.ctrl
  <2>1. m.owner = z.owner /\ m.known = z.known /\ m.ctrl = z.ctrl
    BY <1>m, <1>3 DEF Out, LedgerType
  <2>2. y.owner = m.owner /\ y.known = m.known /\ y.ctrl = m.ctrl
    BY <1>1, <1>5 DEF In, LedgerType, Ledgers
  <2> QED BY <2>1, <2>2
<1>10. /\ z.owner = [x.owner EXCEPT ![a] = u] /\ z.known = [x.known EXCEPT ![a] = u]
       /\ z.ctrl = [x.ctrl EXCEPT ![a] = {}]
  BY <1>x, <1>z DEF LedgerType
<1>12. /\ y.owner = [x.owner EXCEPT ![a] = u] /\ y.known = [x.known EXCEPT ![a] = u]
       /\ y.ctrl = [x.ctrl EXCEPT ![a] = {}]
  BY <1>9, <1>10
<1> QED BY <1>1, <1>2, <1>12, <1>6, <1>7, <1>a, <1>e

\* The other instructions on ANTs move no entry.
Created(x, y, a, by) ==
    /\ Still(x, y) /\ x.owner[a] = Nobody
    /\ y.owner = [x.owner EXCEPT ![a] = by] /\ y.known = [x.known EXCEPT ![a] = by]
    /\ y.ctrl = [x.ctrl EXCEPT ![a] = {by}]
Reconciled(x, y, a) ==
    /\ Still(x, y)
    /\ x.known[a] = x.owner[a] => y = x
    /\ x.known[a] # x.owner[a] =>
         /\ y.owner = x.owner /\ y.known = [x.known EXCEPT ![a] = x.owner[a]]
         /\ y.ctrl = [x.ctrl EXCEPT ![a] = {}]
Alike(x, y) == Still(x, y) /\ y.owner = x.owner /\ y.known = x.known /\ y.ctrl = x.ctrl

\* A new ANT belongs to who made it.
LEMMA CreateEffect ==
  ASSUME NEW x \in Ledgers, NEW ix, ix.op = "create", NEW y \in OnAnt(x, ix)
  PROVE  Created(x, y, ix.a, ix.by)
<1>a. PICK a, by : a = ix.a /\ by = ix.by
  OBVIOUS
<1>1. /\ y = [x EXCEPT !.owner[a] = by, !.known[a] = by, !.ctrl[a] = {by}]
      /\ x.owner[a] = Nobody
  BY <1>a DEF OnAnt, When
<1>2. y.acl = x.acl
  BY <1>1 DEF Ledgers, LedgerType
<1>3. /\ y.owner = [x.owner EXCEPT ![a] = by] /\ y.known = [x.known EXCEPT ![a] = by]
      /\ y.ctrl = [x.ctrl EXCEPT ![a] = {by}]
  BY <1>1 DEF Ledgers, LedgerType
<1> QED BY <1>a, <1>1, <1>2, <1>3, BesideSpots DEF Created

\* Reconciling tells the program who owns the ANT.
LEMMA ReconcileEffect ==
  ASSUME NEW x \in Ledgers, NEW ix, ix.op = "reconcile", NEW y \in OnAnt(x, ix)
  PROVE  Reconciled(x, y, ix.a)
<1>a. PICK a : a = ix.a
  OBVIOUS
<1>1. y = IF x.known[a] = x.owner[a] THEN x
          ELSE [x EXCEPT !.known[a] = x.owner[a], !.ctrl[a] = {}]
  BY <1>a DEF OnAnt
<1>2. CASE x.known[a] = x.owner[a]
  BY <1>1, <1>2, <1>a DEF Reconciled, Still
<1>3. CASE x.known[a] # x.owner[a]
  <2>1. /\ y.acl = x.acl
        /\ y.owner = x.owner /\ y.known = [x.known EXCEPT ![a] = x.owner[a]]
        /\ y.ctrl = [x.ctrl EXCEPT ![a] = {}]
    BY <1>1, <1>3 DEF Ledgers, LedgerType
  <2> QED BY <1>3, <1>a, <2>1, BesideSpots DEF Reconciled
<1> QED BY <1>2, <1>3

\* The instructions about records, names and traits leave owners and entries
\* alone.
LEMMA ManageEffect ==
  ASSUME NEW x \in Ledgers, NEW ix, ix.op \in {"manage", "migrate_ant"}, NEW y \in OnAnt(x, ix)
  PROVE  Alike(x, y)
<1>1. y = x \/ y = [x EXCEPT !.old = @ \ {ix.a}]
  BY DEF OnAnt, When
<1>2. y.acl = x.acl /\ y.owner = x.owner /\ y.known = x.known /\ y.ctrl = x.ctrl
  BY <1>1 DEF Ledgers, LedgerType
<1> QED BY <1>2, BesideSpots DEF Alike

\* Records and names are beside all this, escrows move owners only.
LEMMA RecordsEffect ==
  ASSUME NEW x \in Ledgers, NEW ix, ix.op \in RecordIxs, NEW y \in OnRecords(x, ix)
  PROVE  Alike(x, y)
<1>1. y.acl = x.acl /\ y.owner = x.owner /\ y.known = x.known /\ y.ctrl = x.ctrl
  BY DEF OnRecords, When, RecordIxs, Ledgers, LedgerType
<1> QED BY <1>1, BesideSpots DEF Alike

\* So do those of the names.
LEMMA NamesEffect ==
  ASSUME NEW x \in Ledgers, NEW ix, ix.op \in NameIxs, NEW y \in OnNames(x, ix)
  PROVE  Alike(x, y)
<1>1. y.acl = x.acl /\ y.owner = x.owner /\ y.known = x.known /\ y.ctrl = x.ctrl
  <2>0. x \in LedgerType
    BY DEF Ledgers
  <2>1. CASE ix.op \in {"buy_name", "migrate_record", "manage_name"}
    BY <2>0, <2>1 DEF OnNames, When, LedgerType
  <2>2. CASE ix.op \in {"reassign_name", "release_name", "sync_attributes"}
    BY <2>0, <2>2 DEF OnNames, When, LedgerType
  <2>3. CASE ix.op \in {"remove_primary", "request_primary", "set_primary"}
    BY <2>0, <2>3 DEF OnNames, When, Primary, LedgerType
  <2>4. CASE ix.op \in {"approve_primary", "close_request"}
    BY <2>0, <2>4 DEF OnNames, When, Primary, LedgerType
  <2> QED BY <2>1, <2>2, <2>3, <2>4 DEF NameIxs
<1> QED BY <1>1, BesideSpots DEF Alike

\* An ANT goes to the escrow, or to a user who gets it back from there.
Handed(x, y, b, to) == y.owner = [x.owner EXCEPT ![b] = to]

\* An escrow moves no entry; at most one ANT changes hands, and no program
\* hears of it.
LEMMA EscrowEffect ==
  ASSUME NEW ants, NEW x \in Ledgers, NEW ix, ix.op \in EscrowIxs, AssetOK(ix, ants),
         NEW y \in OnEscrow(x, ix)
  PROVE  /\ Still(x, y) /\ y.known = x.known /\ y.ctrl = x.ctrl
         /\ \/ y.owner = x.owner
            \/ \E b \in ants, to \in Users \union {Escrow} : Handed(x, y, b, to)
<1>x. x \in LedgerType
  BY DEF Ledgers
<1>m. ASSUME NEW b, NEW to
      PROVE  /\ Moved(x, b, to).acl = x.acl /\ Moved(x, b, to).known = x.known
             /\ Moved(x, b, to).ctrl = x.ctrl
             /\ b \notin Ants => Moved(x, b, to).owner = x.owner
             /\ b \in Ants => Handed(x, Moved(x, b, to), b, to)
  BY <1>x DEF Moved, LedgerType, Handed
<1>1. CASE ix.op = "deposit"
  <2>1. PICK z, d : /\ z = IF ix.box \in Ants THEN [x EXCEPT !.owner[ix.box] = Escrow]
                           ELSE [x EXCEPT !.held[ix.by] = @ - ix.amt]
                    /\ y = [z EXCEPT !.nonce = @ + 1, !.box[ix.box] = d]
    BY <1>1 DEF OnEscrow, When
  <2>2. /\ z.acl = x.acl /\ z.known = x.known /\ z.ctrl = x.ctrl
        /\ ix.box \notin Ants => z.owner = x.owner
        /\ ix.box \in Ants => Handed(x, z, ix.box, Escrow)
    BY <1>x, <2>1 DEF LedgerType, Handed
  <2>3. y.acl = z.acl /\ y.known = z.known /\ y.ctrl = z.ctrl /\ y.owner = z.owner
    BY <1>x, <2>1 DEF LedgerType
  <2>4. ix.box \in Ants => Handed(x, y, ix.box, Escrow) /\ ix.box \in ants
    BY <1>1, <2>2, <2>3 DEF Handed, AssetOK
  <2>5. Still(x, y)
    BY <2>2, <2>3, BesideSpots
  <2> QED BY <2>2, <2>3, <2>4, <2>5
<1>2. CASE ix.op \in {"update_recipient", "create_ata"}
  <2>1. y.acl = x.acl /\ y.owner = x.owner /\ y.known = x.known /\ y.ctrl = x.ctrl
    BY <1>x, <1>2 DEF OnEscrow, LedgerType
  <2> QED BY <2>1, BesideSpots
<1>3. CASE ix.op = "cancel"
  <2>1. y = Moved(x, ix.box, ix.by) /\ ix.by \in Users
    BY <1>3 DEF OnEscrow, AssetOK
  <2>2. /\ y.acl = x.acl /\ y.known = x.known /\ y.ctrl = x.ctrl
        /\ ix.box \notin Ants => y.owner = x.owner
        /\ ix.box \in Ants => Handed(x, y, ix.box, ix.by) /\ ix.box \in ants
    BY <1>3, <1>m, <2>1 DEF AssetOK
  <2>3. Still(x, y)
    BY <2>2, BesideSpots
  <2> QED BY <2>1, <2>2, <2>3
<1>4. CASE ix.op = "claim"
  <2>1. y = Moved(x, ix.box, ix.u) /\ ix.u \in Users
    BY <1>4 DEF OnEscrow, AssetOK, When
  <2>2. /\ y.acl = x.acl /\ y.known = x.known /\ y.ctrl = x.ctrl
        /\ ix.box \notin Ants => y.owner = x.owner
        /\ ix.box \in Ants => Handed(x, y, ix.box, ix.u) /\ ix.box \in ants
    BY <1>4, <1>m, <2>1 DEF AssetOK
  <2>3. Still(x, y)
    BY <2>2, BesideSpots
  <2> QED BY <2>1, <2>2, <2>3
<1> QED BY <1>1, <1>2, <1>3, <1>4 DEF EscrowIxs

\* Entries differ as soon as the ANT or the role does.
LEMMA EntriesApart ==
  ASSUME NEW a, NEW b, NEW r, NEW q
  PROVE  /\ Entry(a, r) = Entry(b, q) <=> a = b /\ r = q
         /\ Entry(a, r).asset = a /\ Entry(a, r).role = r
BY DEF Entry

\* Where no entry moved, none of this ANT did.
LEMMA StillSpots ==
  ASSUME NEW x, NEW y, Still(x, y), NEW a
  PROVE  SameSpots(x, y, a)
BY DEF Still, SameSpots

\* Accounts alike in owners and entries are alike in those of one ANT.
LEMMA AlikeView ==
  ASSUME NEW x, NEW y, Alike(x, y), NEW a
  PROVE  SameView(x, y, a)
BY StillSpots DEF Alike, SameView

\* An entry of one ANT gained or lost is none of another's.
LEMMA OneSpots ==
  ASSUME NEW x, NEW y, NEW b, NEW q, NEW u, NEW i, NEW a, a # b,
         Gains(x, y, u, Entry(b, q), i) \/ Loses(x, y, u, Entry(b, q), i)
  PROVE  SameSpots(x, y, a)
BY EntriesApart DEF Gains, Loses, SameSpots

\* Two steps that move no entry of an ANT move none together.
LEMMA SameSpotsTwice ==
  ASSUME NEW x, NEW y, NEW z, NEW a, SameSpots(x, y, a), SameSpots(y, z, a)
  PROVE  SameSpots(x, z, a)
BY DEF SameSpots

\* Who has a role keeps saying so in his list, who is added or removed says it.
TellsOn(x, y, a) ==
    /\ \A u \in Users, owns \in BOOLEAN : Told(x, a, u, owns) => Told(y, a, u, owns)
    /\ \A u \in Users : u \in x.ctrl[a] /\ Untold(x, a, u) => u \in y.ctrl[a] /\ Untold(y, a, u)

\* What keeps telling keeps the history true.
LEMMA ToldOn ==
  ASSUME NEW x, NEW y, NEW a, TellsOn(x, y, a), y.owner = x.owner, y.known = x.known,
         x.owner[a] # Nobody, NEW d, Accords(x, a, d)
  PROVE  Accords(y, a, d)
<1>1. Blank(y, a)
  BY DEF Blank
<1>2. d = "exact" => y.known[a] = y.owner[a] /\ Exact(y, a)
  <2>1. \A u \in Users : (x.owner[a] = u) \in BOOLEAN
    OBVIOUS
  <2> QED BY <2>1 DEF Accords, Exact, TellsOn
<1>3. d = "raw" => Stale(y, a)
  <2>1. \A u \in Users : (x.known[a] = u) \in BOOLEAN
    OBVIOUS
  <2> QED BY <2>1 DEF Accords, Stale, TellsOn
<1> QED BY <1>1, <1>2, <1>3 DEF Accords

\* A controller added with his entry is told of.
LEMMA AddTells ==
  ASSUME NEW x \in Ledgers, NEW y \in Ledgers, NEW a \in Ants, NEW u \in Users, u \notin x.ctrl[a],
         y.ctrl = [x.ctrl EXCEPT ![a] = x.ctrl[a] \union {u}],
         NEW i, Gains(x, y, u, Entry(a, "controller"), i)
  PROVE  TellsOn(x, y, a)
<1>1. y.ctrl[a] = x.ctrl[a] \union {u}
  BY DEF Ledgers, LedgerType
<1>2. /\ \A v \in Users : Spots(y, v, Entry(a, "owner")) = Spots(x, v, Entry(a, "owner"))
      /\ \A v \in Users : v # u =>
           Spots(y, v, Entry(a, "controller")) = Spots(x, v, Entry(a, "controller"))
      /\ Spots(y, u, Entry(a, "controller")) = Spots(x, u, Entry(a, "controller")) \union {i}
  BY EntriesApart DEF Gains
<1>3. ASSUME NEW v \in Users, NEW owns \in BOOLEAN, Says(x, a, v, owns)
      PROVE  Says(y, a, v, owns)
  <2>1. Iff(y, v, Entry(a, "owner"), owns)
    BY <1>2, <1>3 DEF Says, Iff, Once, None
  <2>2. CASE v # u
    BY <1>1, <1>2, <1>3, <2>1, <2>2 DEF Says, Iff, Once, None
  <2>3. CASE v = u
    <3>1. Spots(x, u, Entry(a, "controller")) = {}
      BY <1>3, <2>3 DEF Says, Iff, None
    <3>2. Spots(y, u, Entry(a, "controller")) = {i}
      BY <1>2, <3>1
    <3> QED BY <1>1, <2>1, <2>3, <3>2 DEF Says, Iff, Once
  <2> QED BY <2>2, <2>3
<1>4. ASSUME NEW v \in Users, v \in x.ctrl[a], Silent(x, a, v)
      PROVE  v \in y.ctrl[a] /\ Silent(y, a, v)
  BY <1>1, <1>2, <1>4 DEF Silent, None
<1>5. ASSUME NEW v \in Users, NEW owns \in BOOLEAN, Told(x, a, v, owns)
      PROVE  Told(y, a, v, owns)
  <2>1. Says(x, a, v, owns)
    BY <1>5, ToldSays
  <2>2. Says(y, a, v, owns)
    BY <1>3, <2>1
  <2> QED BY <2>2, ToldSays
<1>6. ASSUME NEW v \in Users, v \in x.ctrl[a], Untold(x, a, v)
      PROVE  v \in y.ctrl[a] /\ Untold(y, a, v)
  <2>1. Silent(x, a, v)
    BY <1>6, ToldSays
  <2>2. v \in y.ctrl[a] /\ Silent(y, a, v)
    BY <1>4, <1>6, <2>1
  <2> QED BY <2>2, ToldSays
<1> QED BY <1>5, <1>6 DEF TellsOn

\* A controller removed with his entry is told of no more.
LEMMA RemoveTells ==
  ASSUME NEW x \in Ledgers, NEW y \in Ledgers, NEW a \in Ants, NEW u, u \in x.ctrl[a],
         y.ctrl = [x.ctrl EXCEPT ![a] = x.ctrl[a] \ {u}],
         NEW i, i \in Spots(x, u, Entry(a, "controller")),
         Loses(x, y, u, Entry(a, "controller"), i)
  PROVE  TellsOn(x, y, a)
<1>1. y.ctrl[a] = x.ctrl[a] \ {u} /\ u \in Users
  BY DEF Ledgers, LedgerType
<1>2. /\ \A v \in Users : Spots(y, v, Entry(a, "owner")) = Spots(x, v, Entry(a, "owner"))
      /\ \A v \in Users : v # u =>
           Spots(y, v, Entry(a, "controller")) = Spots(x, v, Entry(a, "controller"))
      /\ Spots(y, u, Entry(a, "controller")) = Spots(x, u, Entry(a, "controller")) \ {i}
  BY <1>1, EntriesApart DEF Loses
<1>3. ASSUME NEW v \in Users, NEW owns \in BOOLEAN, Says(x, a, v, owns)
      PROVE  Says(y, a, v, owns)
  <2>1. Iff(y, v, Entry(a, "owner"), owns)
    BY <1>2, <1>3 DEF Says, Iff, Once, None
  <2>2. CASE v # u
    BY <1>1, <1>2, <1>3, <2>1, <2>2 DEF Says, Iff, Once, None
  <2>3. CASE v = u
    <3>1. Spots(x, u, Entry(a, "controller")) = {i}
      BY <1>3, <2>3 DEF Says, Iff, Once
    <3>2. Spots(y, u, Entry(a, "controller")) = {}
      BY <1>2, <3>1
    <3> QED BY <1>1, <2>1, <2>3, <3>2 DEF Says, Iff, None
  <2> QED BY <2>2, <2>3
<1>4. ASSUME NEW v \in Users, v \in x.ctrl[a], Silent(x, a, v)
      PROVE  v \in y.ctrl[a] /\ Silent(y, a, v)
  BY <1>1, <1>2, <1>4 DEF Silent, None
<1>5. ASSUME NEW v \in Users, NEW owns \in BOOLEAN, Told(x, a, v, owns)
      PROVE  Told(y, a, v, owns)
  <2>1. Says(x, a, v, owns)
    BY <1>5, ToldSays
  <2>2. Says(y, a, v, owns)
    BY <1>3, <2>1
  <2> QED BY <2>2, ToldSays
<1>6. ASSUME NEW v \in Users, v \in x.ctrl[a], Untold(x, a, v)
      PROVE  v \in y.ctrl[a] /\ Untold(y, a, v)
  <2>1. Silent(x, a, v)
    BY <1>6, ToldSays
  <2>2. v \in y.ctrl[a] /\ Silent(y, a, v)
    BY <1>4, <1>6, <2>1
  <2> QED BY <2>2, ToldSays
<1> QED BY <1>5, <1>6 DEF TellsOn

\* An instruction keeps the entries of an ANT along that changes hands in none of its kind.
LEMMA MildStep ==
  ASSUME NEW ants, NEW x \in Ledgers, NEW y \in Ledgers, NEW ix, ix.op \in AssetIxs,
         AssetOK(ix, ants), y \in OnAsset(x, ix), NEW a \in Ants, a \notin ants,
         NEW d, Accords(x, a, d)
  PROVE  Accords(y, a, d)
<1>0. SameView(x, y, a) => Accords(y, a, d)
  BY SameLists
<1>1. CASE ix.op \in AclIxs
  <2>1. y \in OnAcl(x, ix)
    BY <1>1 DEF OnAsset
  <2>2. /\ y.owner = x.owner /\ y.known = x.known /\ y.ctrl = x.ctrl
        /\ \A u \in Users : \A e :
             Spots(y, u, e) = (Spots(x, u, e) \union Recorded(ix, u, e)) \ Removed(ix, u, e)
    BY <1>1, <2>1, AclEffect
  <2>3. ASSUME NEW u, NEW r
        PROVE  Recorded(ix, u, Entry(a, r)) = {} /\ Removed(ix, u, Entry(a, r)) = {}
    BY EntriesApart DEF Recorded, Removed, AssetOK, EntriesOf
  <2>4. SameSpots(x, y, a)
    BY <2>2, <2>3 DEF SameSpots
  <2> QED BY <1>0, <2>2, <2>4 DEF SameView
<1>2. CASE ix.op \in AntIxs
  <2>1. y \in OnAnt(x, ix)
    BY <1>2 DEF OnAsset, AclIxs, AntIxs
  <2>2. CASE ix.op = "add_controller"
    <3>1. /\ ix.a \in Ants /\ ix.u \in Users /\ ix.u \notin x.ctrl[ix.a]
          /\ x.owner[ix.a] \in Users
          /\ y.owner = x.owner /\ y.known = x.known
          /\ y.ctrl = [x.ctrl EXCEPT ![ix.a] = x.ctrl[ix.a] \union {ix.u}]
          /\ Gains(x, y, ix.u, Entry(ix.a, "controller"), ix.page)
      BY <2>1, <2>2, AddEffect
    <3>2. CASE ix.a = a
      <4>1. TellsOn(x, y, a)
        BY <3>1, <3>2, AddTells
      <4>2. x.owner[a] # Nobody
        BY <3>1, <3>2, LedgerAssumption
      <4> QED BY <3>1, <4>1, <4>2, ToldOn
    <3>3. CASE ix.a # a
      <4>1. SameSpots(x, y, a)
        BY <3>1, <3>3, OneSpots
      <4>2. y.ctrl[a] = x.ctrl[a]
        BY <3>1, <3>3 DEF Ledgers, LedgerType
      <4> QED BY <1>0, <3>1, <4>1, <4>2 DEF SameView
    <3> QED BY <3>2, <3>3
  <2>3. CASE ix.op = "remove_controller"
    <3>1. /\ ix.u \in x.ctrl[ix.a] /\ ix.page \in Spots(x, ix.u, Entry(ix.a, "controller"))
          /\ y.owner = x.owner /\ y.known = x.known
          /\ y.ctrl = [x.ctrl EXCEPT ![ix.a] = x.ctrl[ix.a] \ {ix.u}]
          /\ Loses(x, y, ix.u, Entry(ix.a, "controller"), ix.page)
      BY <2>1, <2>3, RemoveEffect
    <3>2. CASE ix.a = a
      <4>1. TellsOn(x, y, a)
        BY <3>1, <3>2, RemoveTells
      <4>2. x.owner[a] # Nobody
        BY <3>1, <3>2 DEF Accords, Blank
      <4> QED BY <3>1, <4>1, <4>2, ToldOn
    <3>3. CASE ix.a # a
      <4>1. SameSpots(x, y, a)
        BY <3>1, <3>3, OneSpots
      <4>2. y.ctrl[a] = x.ctrl[a]
        BY <3>1, <3>3 DEF Ledgers, LedgerType
      <4> QED BY <1>0, <3>1, <4>1, <4>2 DEF SameView
    <3> QED BY <3>2, <3>3
  <2>4. CASE ix.op = "transfer"
    <3>1. PICK m : /\ y.owner = [x.owner EXCEPT ![ix.a] = ix.u]
                   /\ y.known = [x.known EXCEPT ![ix.a] = ix.u]
                   /\ y.ctrl = [x.ctrl EXCEPT ![ix.a] = {}]
                   /\ Loses(x, m, ix.by, Entry(ix.a, "owner"), ix.from)
                   /\ Gains(m, y, ix.u, Entry(ix.a, "owner"), ix.page)
      BY <2>1, <2>4, TransferEffect
    <3>2. ix.a # a
      BY <2>4 DEF AssetOK
    <3>3. SameSpots(x, m, a) /\ SameSpots(m, y, a)
      BY <3>1, <3>2, OneSpots
    <3>4. y.owner[a] = x.owner[a] /\ y.known[a] = x.known[a] /\ y.ctrl[a] = x.ctrl[a]
      BY <3>1, <3>2 DEF Ledgers, LedgerType
    <3> QED BY <1>0, <3>3, <3>4, SameSpotsTwice DEF SameView
  <2>5. CASE ix.op = "create"
    <3>1. Created(x, y, ix.a, ix.by) /\ ix.a # a
      BY <2>1, <2>5, CreateEffect DEF AssetOK
    <3>2. y.owner[a] = x.owner[a] /\ y.known[a] = x.known[a] /\ y.ctrl[a] = x.ctrl[a]
      BY <3>1 DEF Created, Ledgers, LedgerType
    <3> QED BY <1>0, <3>1, <3>2, StillSpots DEF SameView, Created
  <2>6. CASE ix.op = "reconcile"
    <3>1. Reconciled(x, y, ix.a) /\ ix.a # a
      BY <2>1, <2>6, ReconcileEffect DEF AssetOK
    <3>2. y.owner[a] = x.owner[a] /\ y.known[a] = x.known[a] /\ y.ctrl[a] = x.ctrl[a]
      BY <3>1 DEF Reconciled, Ledgers, LedgerType
    <3> QED BY <1>0, <3>1, <3>2, StillSpots DEF SameView, Reconciled
  <2>7. CASE ix.op \in {"manage", "migrate_ant"}
    BY <1>0, <2>1, <2>7, ManageEffect, AlikeView
  <2> QED BY <1>2, <2>2, <2>3, <2>4, <2>5, <2>6, <2>7 DEF AntIxs
<1>3. CASE ix.op \in RecordIxs
  <2>1. y \in OnRecords(x, ix)
    BY <1>3 DEF OnAsset, AclIxs, AntIxs, RecordIxs
  <2> QED BY <1>0, <1>3, <2>1, RecordsEffect, AlikeView
<1>4. CASE ix.op \in EscrowIxs
  <2>1. y \in OnEscrow(x, ix)
    BY <1>4 DEF OnAsset, AclIxs, AntIxs, RecordIxs, EscrowIxs
  <2>2. /\ Still(x, y) /\ y.known = x.known /\ y.ctrl = x.ctrl
        /\ \/ y.owner = x.owner
           \/ \E b \in ants, to \in Users \union {Escrow} : Handed(x, y, b, to)
    BY <1>4, <2>1, EscrowEffect
  <2>3. y.owner[a] = x.owner[a]
    BY <2>2 DEF Handed, Ledgers, LedgerType
  <2> QED BY <1>0, <2>2, <2>3, StillSpots DEF SameView
<1>5. CASE ix.op \in NameIxs
  <2>1. y \in OnNames(x, ix)
    BY <1>5 DEF OnAsset, AclIxs, AntIxs, RecordIxs, EscrowIxs, NameIxs
  <2> QED BY <1>0, <1>5, <2>1, NamesEffect, AlikeView
<1> QED BY <1>1, <1>2, <1>3, <1>4, <1>5 DEF AssetIxs

\* The types of what the lists are compared with.
LEMMA OwnersKnown ==
  ASSUME NEW x \in Ledgers
  PROVE  /\ x.owner \in [Ants -> Users \union {Nobody, Escrow}]
         /\ x.known \in [Ants -> Users \union {Nobody, Escrow}]
         /\ x.ctrl \in [Ants -> SUBSET Users]
         /\ Nobody \notin Users /\ Escrow \notin Users /\ Nobody # Escrow
BY LedgerAssumption DEF Ledgers, LedgerType

\* What nobody owns stays blank where its view is the same.
LEMMA BlankView ==
  ASSUME NEW x, NEW y, NEW a, SameView(x, y, a), Blank(x, a)
  PROVE  Blank(y, a)
<1>1. Accords(x, a, "lost")
  BY DEF Accords
<1> QED BY <1>1, SameLists DEF Accords

\* An ANT that is not made stays out of the lists until it is.
LEMMA BlankStep ==
  ASSUME NEW ants, NEW x \in Ledgers, NEW y \in Ledgers, NEW ix, ix.op \in AssetIxs,
         AssetOK(ix, ants), y \in OnAsset(x, ix), NEW a \in Ants, Blank(x, a)
  PROVE  Blank(y, a)
<1>o. /\ x.owner \in [Ants -> Users \union {Nobody, Escrow}]
      /\ x.ctrl \in [Ants -> SUBSET Users] /\ x.known \in [Ants -> Users \union {Nobody, Escrow}]
      /\ Nobody \notin Users /\ Nobody # Escrow
  BY OwnersKnown
<1>0. SameView(x, y, a) => Blank(y, a)
  BY BlankView
<1>n. x.owner[a] = Nobody => x.known[a] = Nobody /\ x.ctrl[a] = {}
  BY DEF Blank
<1>1. CASE ix.op \in AclIxs
  <2>1. y \in OnAcl(x, ix)
    BY <1>1 DEF OnAsset
  <2>2. /\ y.owner = x.owner /\ y.known = x.known /\ y.ctrl = x.ctrl
        /\ \A u \in Users : \A e :
             Spots(y, u, e) = (Spots(x, u, e) \union Recorded(ix, u, e)) \ Removed(ix, u, e)
        /\ ix.op = "record" => HasRole(x, ix.user, ix.entry)
    BY <1>1, <2>1, AclEffect
  <2>3. CASE x.owner[a] = Nobody
    <3>1. ASSUME NEW u \in Users, NEW r \in Roles
          PROVE  Recorded(ix, u, Entry(a, r)) = {}
      BY <1>o, <1>n, <2>2, <2>3, EntriesApart DEF Recorded, HasRole, Roles
    <3>2. \A u \in Users : Silent(x, a, u)
      BY <2>3, ToldSays DEF Blank
    <3>3. \A u \in Users : Silent(y, a, u)
      BY <2>2, <3>1, <3>2 DEF Silent, None, Roles
    <3>4. \A u \in Users : Untold(y, a, u)
      BY <3>3, ToldSays
    <3> QED BY <1>n, <2>2, <2>3, <3>4 DEF Blank
  <2>4. CASE x.owner[a] # Nobody
    BY <2>2, <2>4 DEF Blank
  <2> QED BY <2>3, <2>4
<1>2. CASE ix.op \in AntIxs
  <2>1. y \in OnAnt(x, ix)
    BY <1>2 DEF OnAsset, AclIxs, AntIxs
  <2>2. CASE ix.op = "add_controller"
    <3>1. /\ ix.a \in Ants /\ ix.u \in Users /\ x.owner[ix.a] \in Users
          /\ y.owner = x.owner /\ y.known = x.known
          /\ y.ctrl = [x.ctrl EXCEPT ![ix.a] = x.ctrl[ix.a] \union {ix.u}]
          /\ Gains(x, y, ix.u, Entry(ix.a, "controller"), ix.page)
      BY <2>1, <2>2, AddEffect
    <3>2. CASE ix.a = a
      BY <1>o, <3>1, <3>2 DEF Blank
    <3>3. CASE ix.a # a
      <4>1. SameSpots(x, y, a)
        BY <3>1, <3>3, OneSpots
      <4>2. y.ctrl[a] = x.ctrl[a]
        BY <1>o, <3>1, <3>3
      <4> QED BY <1>0, <3>1, <4>1, <4>2 DEF SameView
    <3> QED BY <3>2, <3>3
  <2>3. CASE ix.op = "remove_controller"
    <3>1. /\ ix.u \in x.ctrl[ix.a]
          /\ y.owner = x.owner /\ y.known = x.known
          /\ y.ctrl = [x.ctrl EXCEPT ![ix.a] = x.ctrl[ix.a] \ {ix.u}]
          /\ Loses(x, y, ix.u, Entry(ix.a, "controller"), ix.page)
      BY <2>1, <2>3, RemoveEffect
    <3>2. CASE ix.a = a
      BY <1>n, <3>1, <3>2 DEF Blank
    <3>3. CASE ix.a # a
      <4>1. SameSpots(x, y, a)
        BY <3>1, <3>3, OneSpots
      <4>2. y.ctrl[a] = x.ctrl[a]
        BY <1>o, <3>1, <3>3
      <4> QED BY <1>0, <3>1, <4>1, <4>2 DEF SameView
    <3> QED BY <3>2, <3>3
  <2>4. CASE ix.op = "transfer"
    <3>1. PICK m : /\ ix.u \in Users
                   /\ y.owner = [x.owner EXCEPT ![ix.a] = ix.u]
                   /\ y.known = [x.known EXCEPT ![ix.a] = ix.u]
                   /\ y.ctrl = [x.ctrl EXCEPT ![ix.a] = {}]
                   /\ Loses(x, m, ix.by, Entry(ix.a, "owner"), ix.from)
                   /\ Gains(m, y, ix.u, Entry(ix.a, "owner"), ix.page)
      BY <2>1, <2>4, TransferEffect
    <3>2. CASE ix.a = a
      BY <1>o, <3>1, <3>2 DEF Blank
    <3>3. CASE ix.a # a
      <4>1. SameSpots(x, m, a) /\ SameSpots(m, y, a)
        BY <3>1, <3>3, OneSpots
      <4>2. y.owner[a] = x.owner[a] /\ y.known[a] = x.known[a] /\ y.ctrl[a] = x.ctrl[a]
        BY <1>o, <3>1, <3>3
      <4> QED BY <1>0, <4>1, <4>2, SameSpotsTwice DEF SameView
    <3> QED BY <3>2, <3>3
  <2>5. CASE ix.op = "create"
    <3>1. Created(x, y, ix.a, ix.by) /\ ix.by \in Users
      BY <2>1, <2>5, CreateEffect DEF AssetOK
    <3>2. CASE ix.a = a
      BY <1>o, <3>1, <3>2 DEF Blank, Created
    <3>3. CASE ix.a # a
      <4>1. y.owner[a] = x.owner[a] /\ y.known[a] = x.known[a] /\ y.ctrl[a] = x.ctrl[a]
        BY <1>o, <3>1, <3>3 DEF Created
      <4> QED BY <1>0, <3>1, <4>1, StillSpots DEF SameView, Created
    <3> QED BY <3>2, <3>3
  <2>6. CASE ix.op = "reconcile"
    <3>1. Reconciled(x, y, ix.a)
      BY <2>1, <2>6, ReconcileEffect
    <3>2. CASE ix.a = a
      <4>1. CASE x.owner[a] = Nobody
        <5>1. y = x
          BY <1>n, <3>1, <3>2, <4>1 DEF Reconciled
        <5> QED BY <5>1
      <4>2. CASE x.owner[a] # Nobody
        BY <3>1, <3>2, <4>2 DEF Reconciled, Blank
      <4> QED BY <4>1, <4>2
    <3>3. CASE ix.a # a
      <4>1. y.owner[a] = x.owner[a] /\ y.known[a] = x.known[a] /\ y.ctrl[a] = x.ctrl[a]
        BY <1>o, <3>1, <3>3 DEF Reconciled
      <4> QED BY <1>0, <3>1, <4>1, StillSpots DEF SameView, Reconciled
    <3> QED BY <3>2, <3>3
  <2>7. CASE ix.op \in {"manage", "migrate_ant"}
    BY <1>0, <2>1, <2>7, ManageEffect, AlikeView
  <2> QED BY <1>2, <2>2, <2>3, <2>4, <2>5, <2>6, <2>7 DEF AntIxs
<1>3. CASE ix.op \in RecordIxs
  <2>1. y \in OnRecords(x, ix)
    BY <1>3 DEF OnAsset, AclIxs, AntIxs, RecordIxs
  <2> QED BY <1>0, <1>3, <2>1, RecordsEffect, AlikeView
<1>4. CASE ix.op \in EscrowIxs
  <2>1. y \in OnEscrow(x, ix)
    BY <1>4 DEF OnAsset, AclIxs, AntIxs, RecordIxs, EscrowIxs
  <2>2. /\ Still(x, y) /\ y.known = x.known /\ y.ctrl = x.ctrl
        /\ \/ y.owner = x.owner
           \/ \E b \in ants, to \in Users \union {Escrow} : Handed(x, y, b, to)
    BY <1>4, <2>1, EscrowEffect
  <2>3. y.owner[a] = x.owner[a] \/ y.owner[a] # Nobody
    BY <1>o, <2>2 DEF Handed
  <2> QED BY <1>0, <2>2, <2>3, StillSpots DEF SameView, Blank
<1>5. CASE ix.op \in NameIxs
  <2>1. y \in OnNames(x, ix)
    BY <1>5 DEF OnAsset, AclIxs, AntIxs, RecordIxs, EscrowIxs, NameIxs
  <2> QED BY <1>0, <1>5, <2>1, NamesEffect, AlikeView
<1> QED BY <1>1, <1>2, <1>3, <1>4, <1>5 DEF AssetIxs

\* The lists are stale in the same way while an escrow moves the ANT.
LEMMA StaleView ==
  ASSUME NEW x, NEW y, NEW a, y.known[a] = x.known[a], y.ctrl[a] = x.ctrl[a], SameSpots(x, y, a),
         Stale(x, a)
  PROVE  Stale(y, a)
<1>1. \A u \in Users : /\ \A owns : Told(y, a, u, owns) <=> Told(x, a, u, owns)
                       /\ Untold(y, a, u) <=> Untold(x, a, u)
  BY SameCounts
<1> QED BY <1>1 DEF Stale

\* An instruction of the escrows leaves stale entries as stale as they were.
LEMMA StaleStep ==
  ASSUME NEW ants, NEW x \in Ledgers, NEW ix, ix.op \in EscrowIxs, AssetOK(ix, ants),
         NEW y, y \in OnAsset(x, ix), NEW a \in Ants, Stale(x, a)
  PROVE  Stale(y, a)
<1>1. y \in OnEscrow(x, ix)
  BY DEF OnAsset, AclIxs, AntIxs, RecordIxs, EscrowIxs
<1>2. Still(x, y) /\ y.known = x.known /\ y.ctrl = x.ctrl
  BY <1>1, EscrowEffect
<1> QED BY <1>2, StillSpots, StaleView

----------------------------------------------------------------------------
\* What every instruction of a transaction keeps the transaction keeps.
KeptBy(S, ix) ==
    \A x \in S, y \in Ledgers : ix.op \in AssetIxs /\ y \in OnAsset(x, ix) => y \in S

\* What each instruction keeps the transaction keeps.
LEMMA PathKeeps ==
  ASSUME NEW ants, NEW tx, TxOK(tx, ants), NEW from, NEW to, NEW st, Path(st, tx, from, to),
         NEW S \in SUBSET Ledgers, from.w \in S, \A i \in DOMAIN tx : KeptBy(S, tx[i])
  PROVE  to.w \in S
<1> DEFINE n == Len(tx)
           T == {i \in 0..n : st[i].w \in S}
<1>1. n \in Nat /\ DOMAIN tx = 1..n /\ \A j \in 1..n : IxOK(tx[j], ants)
  <2>1. PICK U : tx \in Seq(U)
    BY DEF TxOK
  <2>2. n \in Nat /\ DOMAIN tx = 1..n
    BY <2>1
  <2> QED BY <2>2 DEF TxOK
<1>2. /\ st \in [0..n -> Accounts] /\ st[0] = from /\ st[n] = to
      /\ \A i \in 1..n : st[i] \in After(st[i - 1], tx[i])
  BY DEF Path
<1>3. \A i \in 0..n : st[i] \in Accounts /\ st[i].w \in Ledgers
  BY <1>2 DEF Accounts
<1>4. 0 \in T
  BY <1>1, <1>2
<1>5. ASSUME NEW k \in 0..(n - 1), k \in T PROVE k + 1 \in T
  <2>0. k \in 0..n /\ k + 1 \in 1..n /\ (k + 1) - 1 = k /\ k + 1 \in 0..n
    BY <1>1
  <2>1. st[k + 1] \in After(st[k], tx[k + 1]) /\ IxOK(tx[k + 1], ants)
    BY <1>1, <1>2, <2>0
  <2>2. CASE tx[k + 1].op \in GarIxs
    <3>1. st[k + 1].w = st[k].w
      BY <1>3, <2>0, <2>1, <2>2, AfterTyped
    <3> QED BY <1>5, <2>0, <3>1
  <2>3. CASE tx[k + 1].op \notin GarIxs
    <3>1. st[k + 1].w \in OnAsset(st[k].w, tx[k + 1])
      BY <1>3, <2>0, <2>1, <2>3, AfterTyped
    <3>2. tx[k + 1].op \in AssetIxs
      BY <2>1, <2>3 DEF IxOK
    <3>3. KeptBy(S, tx[k + 1]) /\ st[k].w \in S /\ st[k + 1].w \in Ledgers
      BY <1>1, <1>3, <1>5, <2>0
    <3>4. st[k + 1].w \in S
      BY <3>1, <3>2, <3>3 DEF KeptBy
    <3> QED BY <2>0, <3>4
  <2> QED BY <2>2, <2>3
<1>6. \A i \in 0..n : i \in T
  <2> HIDE DEF T, n
  <2> QED BY <1>1, <1>4, <1>5, UpToByInduction
<1>7. n \in T
  BY <1>1, <1>6
<1> QED BY <1>2, <1>7

\* The instructions of a well made transaction are well made.
LEMMA IxIsOK ==
  ASSUME NEW ants, NEW tx, TxOK(tx, ants), NEW i \in DOMAIN tx, tx[i].op \in AssetIxs
  PROVE  AssetOK(tx[i], ants)
BY DEF TxOK, IxOK, AssetIxs, AclIxs, AntIxs, RecordIxs, EscrowIxs, NameIxs, GarIxs,
       RegistryIxs, DelegationIxs, SettingsIxs

\* A transaction that touches other ANTs only keeps the history of this one
\* true.
LEMMA MildPath ==
  ASSUME NEW ants, NEW tx, TxOK(tx, ants), NEW from, NEW to, NEW st, Path(st, tx, from, to),
         from \in Accounts, NEW a \in Ants, a \notin ants, NEW d, Accords(from.w, a, d)
  PROVE  Accords(to.w, a, d)
<1> DEFINE S == {x \in Ledgers : Accords(x, a, d)}
<1>1. from.w \in S
  BY DEF Accounts
<1>2. ASSUME NEW i \in DOMAIN tx PROVE KeptBy(S, tx[i])
  BY IxIsOK, MildStep DEF KeptBy
<1>3. S \in SUBSET Ledgers
  OBVIOUS
<1>4. to.w \in S
  <2> HIDE DEF S
  <2> QED BY <1>1, <1>2, <1>3, PathKeeps
<1> QED BY <1>4

\* No transaction gives entries to an ANT nobody owns.
LEMMA BlankPath ==
  ASSUME NEW ants, NEW tx, TxOK(tx, ants), NEW from, NEW to, NEW st, Path(st, tx, from, to),
         from \in Accounts, NEW a \in Ants, Blank(from.w, a)
  PROVE  Blank(to.w, a)
<1> DEFINE S == {x \in Ledgers : Blank(x, a)}
<1>1. from.w \in S
  BY DEF Accounts
<1>2. ASSUME NEW i \in DOMAIN tx PROVE KeptBy(S, tx[i])
  BY IxIsOK, BlankStep DEF KeptBy
<1>3. S \in SUBSET Ledgers
  OBVIOUS
<1>4. to.w \in S
  <2> HIDE DEF S
  <2> QED BY <1>1, <1>2, <1>3, PathKeeps
<1> QED BY <1>4

\* A transaction of the escrows leaves stale entries as stale as they were.
LEMMA StalePath ==
  ASSUME NEW ants, NEW tx, TxOK(tx, ants), NEW from, NEW to, NEW st, Path(st, tx, from, to),
         \A i \in DOMAIN tx : tx[i].op \in EscrowIxs,
         from \in Accounts, NEW a \in Ants, Stale(from.w, a)
  PROVE  Stale(to.w, a)
<1> DEFINE S == {x \in Ledgers : Stale(x, a)}
<1>1. from.w \in S
  BY DEF Accounts
<1>2. ASSUME NEW i \in DOMAIN tx PROVE KeptBy(S, tx[i])
  BY IxIsOK, StaleStep DEF KeptBy
<1>3. S \in SUBSET Ledgers
  OBVIOUS
<1>4. to.w \in S
  <2> HIDE DEF S
  <2> QED BY <1>1, <1>2, <1>3, PathKeeps
<1> QED BY <1>4

(* What a plan consists of.                                                *)
LEMMA JoinedSet ==
  ASSUME NEW S, NEW s \in Seq(S), NEW T, NEW t \in Seq(T)
  PROVE  ToSet(s \o t) = ToSet(s) \union ToSet(t)
<1>1. /\ Len(s) \in Nat /\ DOMAIN s = 1..Len(s) /\ Len(t) \in Nat /\ DOMAIN t = 1..Len(t)
      /\ s \o t \in Seq(S \union T) /\ Len(s \o t) = Len(s) + Len(t)
      /\ DOMAIN (s \o t) = 1..(Len(s) + Len(t))
  OBVIOUS
<1>2. \A i \in 1..(Len(s) + Len(t)) :
        (s \o t)[i] = IF i <= Len(s) THEN s[i] ELSE t[i - Len(s)]
  OBVIOUS
<1>3. \A i \in 1..Len(s) : (s \o t)[i] = s[i] /\ i \in DOMAIN (s \o t)
  BY <1>1, <1>2
<1>4. \A i \in 1..Len(t) : /\ (s \o t)[Len(s) + i] = t[i]
                           /\ Len(s) + i \in DOMAIN (s \o t)
  BY <1>1, <1>2
<1>5. \A i \in DOMAIN (s \o t) : (s \o t)[i] \in ToSet(s) \union ToSet(t)
  <2> SUFFICES ASSUME NEW i \in DOMAIN (s \o t)
               PROVE  (s \o t)[i] \in ToSet(s) \union ToSet(t)
    OBVIOUS
  <2>1. CASE i <= Len(s)
    BY <1>1, <1>2, <2>1 DEF ToSet
  <2>2. CASE ~(i <= Len(s))
    <3>1. i - Len(s) \in 1..Len(t) /\ (s \o t)[i] = t[i - Len(s)]
      BY <1>1, <1>2, <2>2
    <3> QED BY <1>1, <3>1 DEF ToSet
  <2> QED BY <2>1, <2>2
<1>6. ToSet(s) \subseteq ToSet(s \o t)
  BY <1>1, <1>3 DEF ToSet
<1>7. ToSet(t) \subseteq ToSet(s \o t)
  <2> SUFFICES ASSUME NEW i \in 1..Len(t) PROVE t[i] \in ToSet(s \o t)
    BY <1>1 DEF ToSet
  <2>1. (s \o t)[Len(s) + i] = t[i] /\ Len(s) + i \in DOMAIN (s \o t)
    BY <1>4
  <2> QED BY <2>1 DEF ToSet
<1>8. ToSet(s \o t) \subseteq ToSet(s) \union ToSet(t)
  BY <1>5 DEF ToSet
<1> QED BY <1>1, <1>6, <1>7, <1>8

\* The instructions of short and of extended transactions.
LEMMA SingleSet ==
  ASSUME NEW ix
  PROVE  ToSet(<<ix>>) = {ix} /\ <<ix>> \in Seq({ix})
BY DEF ToSet

\* The same of the empty one.
LEMMA NoneSet ==
  ToSet(<<>>) = {}
BY DEF ToSet

\* The same of one extended by one more.
LEMMA AppendedSet ==
  ASSUME NEW S, NEW s \in Seq(S), NEW ix
  PROVE  ToSet(Append(s, ix)) = ToSet(s) \union {ix}
<1>1. PICK t : t = <<ix>>
  OBVIOUS
<1>2. ToSet(t) = {ix} /\ t \in Seq({ix})
  BY <1>1, SingleSet
<1>3. ToSet(s \o t) = ToSet(s) \union ToSet(t)
  BY <1>2, JoinedSet
<1>4. Append(s, ix) = s \o t
  BY <1>1
<1> QED BY <1>2, <1>3, <1>4

\* Heads and pages, that hold nothing yet.
IsPrep(ix) == ix.op \in {"register", "add_page"}

\* What prepares a place for an entry creates lists and pages only.
LEMMA PrepIs ==
  ASSUME NEW u, NEW acl
  PROVE  \A ix \in ToSet(Destination(u, acl).prep) : IsPrep(ix)
<1>d. PICK page, prep : Destination(u, acl) = [page |-> page, prep |-> prep]
  BY DEF Destination
<1>1. PICK h, p : /\ h = (IF acl.exists THEN <<>> ELSE <<RegisterIx(u)>>)
                  /\ p = (IF WithRoom(acl) = {} THEN <<AddPageIx(u, page)>> ELSE <<>>)
  OBVIOUS
<1>2. prep = h \o p
  BY <1>d, <1>1 DEF Destination
<1>3. h \in Seq({RegisterIx(u)}) /\ ToSet(h) \subseteq {RegisterIx(u)}
  <2>1. CASE acl.exists
    BY <1>1, <2>1, NoneSet
  <2>2. CASE ~acl.exists
    BY <1>1, <2>2, SingleSet
  <2> QED BY <2>1, <2>2
<1>4. p \in Seq({AddPageIx(u, page)}) /\ ToSet(p) \subseteq {AddPageIx(u, page)}
  <2>1. CASE WithRoom(acl) # {}
    BY <1>1, <2>1, NoneSet
  <2>2. CASE WithRoom(acl) = {}
    BY <1>1, <2>2, SingleSet
  <2> QED BY <2>1, <2>2
<1>5. ToSet(h \o p) = ToSet(h) \union ToSet(p)
  <2>1. PICK S, T : S = {RegisterIx(u)} /\ T = {AddPageIx(u, page)}
    OBVIOUS
  <2>2. h \in Seq(S) /\ p \in Seq(T)
    BY <1>3, <1>4, <2>1
  <2> QED BY <2>2, JoinedSet
<1> QED BY <1>d, <1>2, <1>3, <1>4, <1>5 DEF IsPrep, RegisterIx, AddPageIx

----------------------------------------------------------------------------
(* The passes of a plan, one operation after the other.                    *)
HeadOp(st, op) ==
    IF op.action # "record" \/ st.acls[op.user].exists THEN st
    ELSE [acls |-> [st.acls EXCEPT ![op.user].exists = TRUE],
          ixs  |-> Append(st.ixs, RegisterIx(op.user))]
PlanOp(st, op) == IF op.action = "record" THEN PlanRecord(st, op) ELSE PlanRemove(st, op)

HeadRun(run, ops, V, acls) ==
    /\ run \in [0..Len(ops) -> V] /\ run[0] = [acls |-> acls, ixs |-> <<>>]
    /\ \A k \in 1..Len(ops) : run[k] = HeadOp(run[k - 1], ops[k])
PlanRun(run, ops, V, base) ==
    /\ run \in [0..Len(ops) -> V] /\ run[0] = base
    /\ \A k \in 1..Len(ops) : run[k] = PlanOp(run[k - 1], ops[k])

\* The planner goes through the operations one by one: first for the heads of
\* lists.
LEMMA HeadRuns ==
  ASSUME NEW ants, NEW us, NEW ops \in Seq(AclOps(us, ants)), NEW acls \in [us -> Acls]
  PROVE  \E run : HeadRun(run, ops, Plans(us, ants), acls) /\ PlanHeads(ops, acls) = run[Len(ops)]
<1> DEFINE V == Plans(us, ants)
           n == Len(ops)
           base == [acls |-> acls, ixs |-> <<>>]
           G == [p \in V \X (1..n) |-> HeadOp(p[1], ops[p[2]])]
           it == CHOOSE tab : tab = [s \in SUBSET DOMAIN ops |->
                   IF s = {} THEN base
                   ELSE LET x == Max(s) IN HeadOp(tab[s \ {x}], ops[x])]
<1>1. n \in Nat /\ DOMAIN ops = 1..n /\ \A j \in 1..n : ops[j] \in AclOps(us, ants)
  OBVIOUS
<1>2. base \in V
  BY DEF Plans
<1>n. ASSUME NEW st \in V, NEW j \in 1..n PROVE HeadOp(st, ops[j]) \in V
  BY <1>1, PlanHeadTyped DEF HeadOp
<1>3. G \in [V \X (1..n) -> V]
  <2> HIDE DEF V, n
  <2> QED BY <1>n
<1>4. PICK tab \in [SUBSET (1..n) -> V] : FoldsLeft(tab, n, base, G)
  <2> HIDE DEF G, base, V
  <2> QED BY <1>1, <1>2, <1>3, FoldLeftExists
<1>5. tab = [s \in SUBSET DOMAIN ops |->
             IF s = {} THEN base
             ELSE LET x == Max(s) IN HeadOp(tab[s \ {x}], ops[x])]
  <2>1. \A s \in SUBSET (1..n) : s # {} => Max(s) \in 1..n
    BY <1>1, MaxOfPositions
  <2>2. \A s \in SUBSET (1..n) :
          s # {} => G[<<tab[s \ {Max(s)}], Max(s)>>] = HeadOp(tab[s \ {Max(s)}], ops[Max(s)])
    <3> HIDE DEF V, n
    <3> QED BY <2>1
  <2> HIDE DEF G, base, V
  <2> QED BY <1>1, <1>4, <2>2 DEF FoldsLeft
<1>6. it = [s \in SUBSET DOMAIN ops |->
              IF s = {} THEN base
              ELSE LET x == Max(s) IN HeadOp(it[s \ {x}], ops[x])]
  <2> HIDE DEF base
  <2> QED BY <1>5
<1>7. Unfolds(it, n, V, base, G)
  <2>1. \A s \in SUBSET (1..n) : s # {} => Max(s) \in 1..n
    BY <1>1, MaxOfPositions
  <2> HIDE DEF it, base, V
  <2> QED BY <1>1, <1>6, <2>1 DEF Unfolds
<1>8. Runs(it, n, V, base, G)
  <2> HIDE DEF it, G, base, V
  <2> QED BY <1>1, <1>2, <1>3, <1>7, FoldRuns
<1>9. PlanHeads(ops, acls) = it[1..n]
  BY <1>1 DEF PlanHeads, HeadOp, FoldLeft, MapThenFoldSet
<1> DEFINE run == [k \in 0..n |-> it[1..k]]
<1>10. run \in [0..n -> V] /\ run[0] = base
  <2> HIDE DEF it, G, base, V
  <2> QED BY <1>1, <1>8 DEF Runs
<1>11. ASSUME NEW k \in 1..n PROVE run[k] = HeadOp(run[k - 1], ops[k])
  <2>1. k \in 0..n /\ k - 1 \in 0..n
    BY <1>1
  <2>2. it[1..k] = G[<<it[1..(k - 1)], k>>] /\ it[1..(k - 1)] \in V
    <3> HIDE DEF it, G, base, V
    <3> QED BY <1>8, <2>1 DEF Runs
  <2> HIDE DEF it, base, V
  <2> QED BY <2>1, <2>2
<1>12. HeadRun(run, ops, V, acls)
  <2> HIDE DEF run, V
  <2> QED BY <1>10, <1>11 DEF HeadRun
<1>13. PlanHeads(ops, acls) = run[n]
  <2> HIDE DEF it
  <2> QED BY <1>1, <1>9
<1> HIDE DEF run, V
<1> QED BY <1>12, <1>13 DEF V

\* And then for the entries.
LEMMA PlanRuns ==
  ASSUME NEW ants, NEW us, NEW ops \in Seq(AclOps(us, ants)), NEW acls \in [us -> Acls]
  PROVE  \E run : /\ PlanRun(run, ops, Plans(us, ants), PlanHeads(ops, acls))
                  /\ PlanAclMaintenance(ops, acls) = run[Len(ops)].ixs
<1> DEFINE V == Plans(us, ants)
           n == Len(ops)
           base == PlanHeads(ops, acls)
           G == [p \in V \X (1..n) |-> PlanOp(p[1], ops[p[2]])]
           it == CHOOSE tab : tab = [s \in SUBSET DOMAIN ops |->
                   IF s = {} THEN base
                   ELSE LET x == Max(s) IN PlanOp(tab[s \ {x}], ops[x])]
<1>1. n \in Nat /\ DOMAIN ops = 1..n /\ \A j \in 1..n : ops[j] \in AclOps(us, ants)
  OBVIOUS
<1>2. base \in V
  BY PlanHeadsTyped
<1>n. ASSUME NEW st \in V, NEW j \in 1..n PROVE PlanOp(st, ops[j]) \in V
  BY <1>1, PlanRecordTyped, PlanRemoveTyped DEF PlanOp
<1>3. G \in [V \X (1..n) -> V]
  <2> HIDE DEF V, n
  <2> QED BY <1>n
<1>4. PICK tab \in [SUBSET (1..n) -> V] : FoldsLeft(tab, n, base, G)
  <2> HIDE DEF G, base, V
  <2> QED BY <1>1, <1>2, <1>3, FoldLeftExists
<1>5. tab = [s \in SUBSET DOMAIN ops |->
             IF s = {} THEN base
             ELSE LET x == Max(s) IN PlanOp(tab[s \ {x}], ops[x])]
  <2>1. \A s \in SUBSET (1..n) : s # {} => Max(s) \in 1..n
    BY <1>1, MaxOfPositions
  <2>2. \A s \in SUBSET (1..n) :
          s # {} => G[<<tab[s \ {Max(s)}], Max(s)>>] = PlanOp(tab[s \ {Max(s)}], ops[Max(s)])
    <3> HIDE DEF V, n
    <3> QED BY <2>1
  <2> HIDE DEF G, base, V
  <2> QED BY <1>1, <1>4, <2>2 DEF FoldsLeft
<1>6. it = [s \in SUBSET DOMAIN ops |->
              IF s = {} THEN base
              ELSE LET x == Max(s) IN PlanOp(it[s \ {x}], ops[x])]
  <2> HIDE DEF base
  <2> QED BY <1>5
<1>7. Unfolds(it, n, V, base, G)
  <2>1. \A s \in SUBSET (1..n) : s # {} => Max(s) \in 1..n
    BY <1>1, MaxOfPositions
  <2> HIDE DEF it, base, V
  <2> QED BY <1>1, <1>6, <2>1 DEF Unfolds
<1>8. Runs(it, n, V, base, G)
  <2> HIDE DEF it, G, base, V
  <2> QED BY <1>1, <1>2, <1>3, <1>7, FoldRuns
<1>9. PlanAclMaintenance(ops, acls) = it[1..n].ixs
  BY <1>1 DEF PlanAclMaintenance, PlanOp, FoldLeft, MapThenFoldSet
<1> DEFINE run == [k \in 0..n |-> it[1..k]]
<1>10. run \in [0..n -> V] /\ run[0] = base
  <2> HIDE DEF it, G, base, V
  <2> QED BY <1>1, <1>8 DEF Runs
<1>11. ASSUME NEW k \in 1..n PROVE run[k] = PlanOp(run[k - 1], ops[k])
  <2>1. k \in 0..n /\ k - 1 \in 0..n
    BY <1>1
  <2>2. it[1..k] = G[<<it[1..(k - 1)], k>>] /\ it[1..(k - 1)] \in V
    <3> HIDE DEF it, G, base, V
    <3> QED BY <1>8, <2>1 DEF Runs
  <2> HIDE DEF it, base, V
  <2> QED BY <2>1, <2>2
<1>12. PlanRun(run, ops, V, base)
  <2> HIDE DEF run, V, base
  <2> QED BY <1>10, <1>11 DEF PlanRun
<1>13. PlanAclMaintenance(ops, acls) = run[n].ixs
  <2> HIDE DEF it
  <2> QED BY <1>1, <1>9
<1> HIDE DEF run, V
<1> QED BY <1>12, <1>13 DEF V

\* A finite set as a sequence, each element once.
LEMMA SeqOfAll ==
  ASSUME NEW S, IsFiniteSet(S)
  PROVE  /\ SetToSeq(S) \in Seq(S) /\ ToSet(SetToSeq(S)) = S
         /\ \A i, j \in DOMAIN SetToSeq(S) : SetToSeq(S)[i] = SetToSeq(S)[j] => i = j
<1> DEFINE n == Cardinality(S)
           q == SetToSeq(S)
<1>1. n \in Nat /\ \E f \in [1..n -> S] : IsInjective(f)
  BY FS_CardinalityType DEF ExistsBijection, Bijection, Injection, IsInjective
<1>2. q \in [1..n -> S] /\ IsInjective(q)
  BY <1>1 DEF SetToSeq
<1>3. q \in Injection(1..n, S)
  <2> HIDE DEF q, n
  <2> QED BY <1>2 DEF Injection, IsInjective
<1>4. Cardinality(1..n) = n /\ IsFiniteSet(1..n)
  BY <1>1, FS_Interval
<1>5. q \in Surjection(1..n, S)
  <2> HIDE DEF q
  <2> QED BY <1>3, <1>4, FS_Injection
<1>6. q \in Seq(S)
  <2> HIDE DEF q
  <2> QED BY <1>1, <1>2
<1>7. \A v \in S : \E i \in 1..n : q[i] = v
  <2> HIDE DEF q, n
  <2> QED BY <1>5 DEF Surjection
<1>8. ToSet(q) = S
  <2> HIDE DEF q, n
  <2> QED BY <1>2, <1>7 DEF ToSet
<1>9. \A i, j \in DOMAIN q : q[i] = q[j] => i = j
  <2> HIDE DEF q, n
  <2> QED BY <1>2 DEF IsInjective
<1> QED BY <1>6, <1>8, <1>9

----------------------------------------------------------------------------
\* One record operation on an entry that no page holds.
Grows(st, r, u, e) ==
    \E i : /\ \A ix \in ToSet(r.ixs) : ix \in ToSet(st.ixs) \/ IsPrep(ix) \/ ix = RecordIx(u, i, e)
           /\ ToSet(st.ixs) \subseteq ToSet(r.ixs) /\ RecordIx(u, i, e) \in ToSet(r.ixs)
           /\ \A f : f # e /\ Holding(st.acls[u], f) = {} => Holding(r.acls[u], f) = {}

\* An entry that is not there yet is recorded once.
LEMMA PlanRecordGrows ==
  ASSUME NEW ants, NEW us, NEW st \in Plans(us, ants), NEW op \in AclOps(us, ants),
         Holding(st.acls[op.user], op.entry) = {}
  PROVE  Grows(st, PlanRecord(st, op), op.user, op.entry)
<1>u. PICK u, e : u = op.user /\ e = op.entry /\ u \in us
  BY DEF AclOps
<1>l. PICK acl : acl = st.acls[u] /\ acl \in Acls
  BY <1>u DEF Plans
<1>d. PICK dest : dest = Destination(u, acl)
  OBVIOUS
<1>t. PICK page, prep : page = dest.page /\ prep = dest.prep
  OBVIOUS
<1>1. page \in 1..(Len(acl.pages) + 1) /\ prep \in Seq(AclInstrs(us, ants))
  BY <1>u, <1>l, <1>d, <1>t, DestinationTyped
<1>2. /\ acl.pages \in Seq(SUBSET Entries) /\ Len(acl.pages) \in Nat
      /\ DOMAIN acl.pages = 1..Len(acl.pages)
  BY <1>l DEF Acls, Entries
<1>g. PICK grown : grown = IF page > Len(acl.pages) THEN Append(acl.pages, {}) ELSE acl.pages
  OBVIOUS
<1>3. PICK pages : pages = [grown EXCEPT ![page] = @ \union {e}]
  OBVIOUS
<1>p. PICK some, all : some = st.ixs \o prep /\ all = some \o <<RecordIx(u, page, e)>>
  OBVIOUS
<1>4. PlanRecord(st, op) = [acls |-> [st.acls EXCEPT ![u].pages = pages], ixs |-> all]
  <2>1. PlanRecord(st, op) =
          [acls |-> [st.acls EXCEPT ![u].pages =
                       [(IF dest.page > Len(acl.pages) THEN Append(acl.pages, {}) ELSE acl.pages)
                          EXCEPT ![dest.page] = @ \union {e}]],
           ixs  |-> st.ixs \o dest.prep \o <<RecordIx(u, dest.page, e)>>]
    BY <1>u, <1>l, <1>d DEF PlanRecord
  <2> QED BY <1>t, <1>g, <1>3, <1>p, <2>1
<1>5. ToSet(all) = ToSet(st.ixs) \union ToSet(prep) \union {RecordIx(u, page, e)}
  <2>1. st.ixs \in Seq(AclInstrs(us, ants))
    BY DEF Plans
  <2>2. some \in Seq(AclInstrs(us, ants))
    BY <1>1, <1>p, <2>1
  <2>3. ToSet(some) = ToSet(st.ixs) \union ToSet(prep)
    BY <1>1, <1>p, <2>1, JoinedSet
  <2>4. all = Append(some, RecordIx(u, page, e))
    BY <1>p, <2>2
  <2>5. ToSet(all) = ToSet(some) \union {RecordIx(u, page, e)}
    BY <2>2, <2>4, AppendedSet
  <2> QED BY <2>3, <2>5
<1>6. \A ix \in ToSet(prep) : IsPrep(ix)
  BY <1>d, <1>t, PrepIs
<1>7. PICK r : r = PlanRecord(st, op)
  OBVIOUS
<1>8. r.acls[u].pages = pages /\ r.ixs = all
  <2>1. st.acls \in [us -> Acls]
    BY DEF Plans
  <2> QED BY <1>u, <1>4, <1>7, <2>1 DEF Acls
<1>9. ASSUME NEW f, f # e, Holding(acl, f) = {} PROVE Holding(r.acls[u], f) = {}
  <2>1. \A i \in DOMAIN grown : f \notin grown[i]
    <3>1. \A i \in DOMAIN acl.pages : f \notin acl.pages[i]
      BY <1>9 DEF Holding
    <3>2. CASE page > Len(acl.pages)
      BY <1>2, <1>g, <3>1, <3>2
    <3>3. CASE ~(page > Len(acl.pages))
      BY <1>g, <3>1, <3>3
    <3> QED BY <3>2, <3>3
  <2>2. \A i \in DOMAIN pages : f \notin pages[i]
    BY <1>3, <1>9, <2>1
  <2> QED BY <1>8, <2>2 DEF Holding
<1>10. Grows(st, r, u, e)
  BY <1>l, <1>5, <1>6, <1>8, <1>9 DEF Grows
<1> QED BY <1>u, <1>7, <1>10

\* The entries of the owner of a new ANT.
Bootstraps(tx, u, a, i, j) ==
    /\ {RecordIx(u, i, Entry(a, "owner")), RecordIx(u, j, Entry(a, "controller"))} \subseteq ToSet(tx)
    /\ \A ix \in ToSet(tx) : \/ IsPrep(ix)
                             \/ ix = RecordIx(u, i, Entry(a, "owner"))
                             \/ ix = RecordIx(u, j, Entry(a, "controller"))

\* The entries of a new owner: both are recorded, each at one place.
LEMMA BootstrapIs ==
  ASSUME NEW u, NEW a \in Ants, NEW acl \in Acls,
         Holding(acl, Entry(a, "owner")) = {}, Holding(acl, Entry(a, "controller")) = {}
  PROVE  \E i, j : Bootstraps(BootstrapOwner(u, a, acl), u, a, i, j)
<1>e. PICK own, con : own = Entry(a, "owner") /\ con = Entry(a, "controller")
  OBVIOUS
<1>o. PICK o1, o2 : o1 = Op("record", "owner", u, a) /\ o2 = Op("record", "controller", u, a)
  OBVIOUS
<1>p. PICK ops, acls : ops = <<o1, o2>> /\ acls = Just(u, acl)
  OBVIOUS
<1>1. /\ o1.action = "record" /\ o1.user = u /\ o1.entry = own /\ own # con
      /\ o2.action = "record" /\ o2.user = u /\ o2.entry = con
      /\ o1 \in AclOps({u}, {a}) /\ o2 \in AclOps({u}, {a})
  BY <1>e, <1>o DEF Op, Entry, AclOps, Entries, EntriesOf
<1>2. ops \in Seq(AclOps({u}, {a})) /\ Len(ops) = 2 /\ ops[1] = o1 /\ ops[2] = o2
  BY <1>p, <1>1
<1>3. acls \in [{u} -> Acls] /\ acls[u] = acl
  BY <1>p DEF Just
<1>s. PICK us, ants : us = {u} /\ ants = {a}
  OBVIOUS
<1>V. PICK V : V = Plans(us, ants)
  OBVIOUS
<1>t. ops \in Seq(AclOps(us, ants)) /\ acls \in [us -> Acls]
  BY <1>2, <1>3, <1>s
<1>r. AclOps(us, ants) = AclOps({u}, {a}) /\ Len(ops) = 2
  BY <1>2, <1>s
<1>H. \A st \in V : st.acls \in [{u} -> Acls] /\ st.ixs \in Seq(AclInstrs(us, ants))
  BY <1>V, <1>s DEF Plans
<1>4. PICK run : HeadRun(run, ops, V, acls) /\ PlanHeads(ops, acls) = run[2]
  <2>1. \E run : HeadRun(run, ops, Plans(us, ants), acls) /\ PlanHeads(ops, acls) = run[Len(ops)]
    BY <1>t, HeadRuns
  <2> QED BY <1>V, <1>r, <2>1
<1>5. /\ run[0] \in V /\ run[1] \in V /\ run[2] \in V
      /\ run[0] = [acls |-> acls, ixs |-> <<>>]
      /\ run[1] = HeadOp(run[0], o1) /\ run[2] = HeadOp(run[1], o2)
  <2>1. 0 \in 0..2 /\ 1 \in 0..2 /\ 2 \in 0..2 /\ 1 \in 1..2 /\ 2 \in 1..2 /\ 1 - 1 = 0 /\ 2 - 1 = 1
    OBVIOUS
  <2>2. /\ run \in [0..2 -> V] /\ run[0] = [acls |-> acls, ixs |-> <<>>]
        /\ \A k \in 1..2 : run[k] = HeadOp(run[k - 1], ops[k])
    BY <1>2, <1>4 DEF HeadRun
  <2>3. run[1] = HeadOp(run[1 - 1], ops[1]) /\ run[2] = HeadOp(run[2 - 1], ops[2])
    BY <2>1, <2>2
  <2> QED BY <1>2, <2>1, <2>2, <2>3
<1>6. ASSUME NEW st \in V, NEW op, op.user = u, st.acls[u].pages = acl.pages,
             \A ix \in ToSet(st.ixs) : IsPrep(ix)
      PROVE  /\ HeadOp(st, op).acls[u].pages = acl.pages
             /\ \A ix \in ToSet(HeadOp(st, op).ixs) : IsPrep(ix)
  <2>1. CASE HeadOp(st, op) = st
    BY <1>6, <2>1
  <2>2. CASE HeadOp(st, op) # st
    <3>1. HeadOp(st, op) = [acls |-> [st.acls EXCEPT ![u].exists = TRUE],
                            ixs  |-> Append(st.ixs, RegisterIx(u))]
      BY <1>6, <2>2 DEF HeadOp
    <3>2. HeadOp(st, op).acls[u].pages = acl.pages
      BY <1>H, <1>6, <3>1 DEF Acls
    <3>3. ToSet(HeadOp(st, op).ixs) = ToSet(st.ixs) \union {RegisterIx(u)}
      BY <1>H, <3>1, AppendedSet
    <3> QED BY <1>6, <3>2, <3>3 DEF IsPrep, RegisterIx
  <2> QED BY <2>1, <2>2
<1>7. run[0].acls[u].pages = acl.pages /\ \A ix \in ToSet(run[0].ixs) : IsPrep(ix)
  BY <1>3, <1>5, NoneSet
<1>8. run[1].acls[u].pages = acl.pages /\ \A ix \in ToSet(run[1].ixs) : IsPrep(ix)
  BY <1>1, <1>5, <1>6, <1>7
<1>9. run[2].acls[u].pages = acl.pages /\ \A ix \in ToSet(run[2].ixs) : IsPrep(ix)
  BY <1>1, <1>5, <1>6, <1>8
<1>10. PICK go : PlanRun(go, ops, V, run[2]) /\ BootstrapOwner(u, a, acl) = go[2].ixs
  <2>1. PICK go : /\ PlanRun(go, ops, Plans(us, ants), PlanHeads(ops, acls))
                  /\ PlanAclMaintenance(ops, acls) = go[Len(ops)].ixs
    BY <1>t, PlanRuns
  <2>2. BootstrapOwner(u, a, acl) = PlanAclMaintenance(ops, acls)
    BY <1>o, <1>p DEF BootstrapOwner
  <2> QED BY <1>V, <1>r, <1>4, <2>1, <2>2
<1>11. /\ go[0] = run[2] /\ go[0] \in V /\ go[1] \in V
       /\ go[1] = PlanRecord(go[0], o1) /\ go[2] = PlanRecord(go[1], o2)
  <2>1. 0 \in 0..2 /\ 1 \in 0..2 /\ 2 \in 0..2 /\ 1 \in 1..2 /\ 2 \in 1..2 /\ 1 - 1 = 0 /\ 2 - 1 = 1
    OBVIOUS
  <2>2. /\ go \in [0..2 -> V] /\ go[0] = run[2]
        /\ \A k \in 1..2 : go[k] = PlanOp(go[k - 1], ops[k])
    BY <1>2, <1>10 DEF PlanRun
  <2>3. go[1] = PlanOp(go[1 - 1], ops[1]) /\ go[2] = PlanOp(go[2 - 1], ops[2])
    BY <2>1, <2>2
  <2>4. go[1] = PlanOp(go[0], o1) /\ go[2] = PlanOp(go[1], o2)
    BY <1>2, <2>1, <2>3
  <2> QED BY <1>1, <2>1, <2>2, <2>4 DEF PlanOp
<1>12. Holding(go[0].acls[u], own) = {} /\ Holding(go[0].acls[u], con) = {}
  BY <1>e, <1>9, <1>11 DEF Holding
<1>13. Grows(go[0], go[1], u, own)
  BY <1>V, <1>r, <1>1, <1>11, <1>12, PlanRecordGrows
<1>14. Holding(go[1].acls[u], con) = {}
  BY <1>1, <1>12, <1>13 DEF Grows
<1>15. Grows(go[1], go[2], u, con)
  BY <1>V, <1>r, <1>1, <1>11, <1>14, PlanRecordGrows
<1>16. PICK i : /\ \A ix \in ToSet(go[1].ixs) :
                     ix \in ToSet(go[0].ixs) \/ IsPrep(ix) \/ ix = RecordIx(u, i, own)
                /\ RecordIx(u, i, own) \in ToSet(go[1].ixs)
  BY <1>13 DEF Grows
<1>17. PICK j : /\ \A ix \in ToSet(go[2].ixs) :
                     ix \in ToSet(go[1].ixs) \/ IsPrep(ix) \/ ix = RecordIx(u, j, con)
                /\ ToSet(go[1].ixs) \subseteq ToSet(go[2].ixs)
                /\ RecordIx(u, j, con) \in ToSet(go[2].ixs)
  BY <1>15 DEF Grows
<1>18. \A ix \in ToSet(go[0].ixs) : IsPrep(ix)
  BY <1>9, <1>11
<1>19. Bootstraps(go[2].ixs, u, a, i, j)
  BY <1>e, <1>16, <1>17, <1>18 DEF Bootstraps
<1> QED BY <1>10, <1>19

\* The entries of the former controllers, wherever the lists have them.
Cleans(tx, a, us, acls) ==
    /\ \A ix \in ToSet(tx) : ix.op = "remove" /\ ix.entry = Entry(a, "controller")
    /\ \A u \in us : Holding(acls[u], Entry(a, "controller")) # {} =>
         RemoveIx(u, Min(Holding(acls[u], Entry(a, "controller"))), Entry(a, "controller"))
           \in ToSet(tx)

CleanedTo(st, k, users, acls, e) ==
    /\ \A ix \in ToSet(st.ixs) : ix.op = "remove" /\ ix.entry = e
    /\ \A j \in DOMAIN users : j > k => st.acls[users[j]] = acls[users[j]]
    /\ \A j \in DOMAIN users : j <= k /\ Holding(acls[users[j]], e) # {} =>
         RemoveIx(users[j], Min(Holding(acls[users[j]], e)), e) \in ToSet(st.ixs)

\* One controller more is taken off the lists, at the first place his entry
\* has.
LEMMA CleanedMore ==
  ASSUME NEW ants, NEW us, NEW users \in Seq(us),
         \A i, j \in DOMAIN users : users[i] = users[j] => i = j,
         NEW acls \in [us -> Acls], NEW e, NEW st \in Plans(us, ants),
         NEW k \in Nat, k + 1 \in DOMAIN users, CleanedTo(st, k, users, acls, e),
         NEW op, op.user = users[k + 1], op.entry = e
  PROVE  CleanedTo(PlanRemove(st, op), k + 1, users, acls, e)
<1>u. PICK u : u = users[k + 1]
  OBVIOUS
<1>d. DOMAIN users = 1..Len(users) /\ Len(users) \in Nat /\ u \in us
  BY <1>u
<1>t. st.acls \in [us -> Acls] /\ st.ixs \in Seq(AclInstrs(us, ants))
  BY DEF Plans
<1>1. st.acls[u] = acls[u]
  BY <1>u, <1>d DEF CleanedTo
<1>h. PICK held : held = Holding(acls[u], e)
  OBVIOUS
<1>2. CASE held = {}
  <2>1. PlanRemove(st, op) = st
    BY <1>u, <1>1, <1>h, <1>2 DEF PlanRemove
  <2>2. \A j \in DOMAIN users : j > k + 1 => st.acls[users[j]] = acls[users[j]]
    BY <1>d DEF CleanedTo
  <2>3. ASSUME NEW j \in DOMAIN users, j <= k + 1, Holding(acls[users[j]], e) # {}
        PROVE  RemoveIx(users[j], Min(Holding(acls[users[j]], e)), e) \in ToSet(st.ixs)
    <3>1. j # k + 1
      BY <1>u, <1>h, <1>2, <2>3
    <3>2. j <= k
      BY <1>d, <2>3, <3>1
    <3> QED BY <2>3, <3>2 DEF CleanedTo
  <2>4. \A ix \in ToSet(st.ixs) : ix.op = "remove" /\ ix.entry = e
    BY DEF CleanedTo
  <2> QED BY <2>1, <2>2, <2>3, <2>4 DEF CleanedTo
<1>3. CASE held # {}
  <2>x. PICK ix : ix = RemoveIx(u, Min(held), e)
    OBVIOUS
  <2>1. PlanRemove(st, op) = [acls |-> [st.acls EXCEPT ![u].pages[Min(held)] = @ \ {e}],
                              ixs  |-> Append(st.ixs, ix)]
    BY <1>u, <1>1, <1>h, <1>3, <2>x DEF PlanRemove
  <2>r. PICK r : r = PlanRemove(st, op)
    OBVIOUS
  <2>2. ToSet(r.ixs) = ToSet(st.ixs) \union {ix}
    BY <1>t, <2>1, <2>r, AppendedSet
  <2>3. \A v \in us : v # u => r.acls[v] = st.acls[v]
    BY <1>t, <2>1, <2>r
  <2>4. ASSUME NEW j \in DOMAIN users, j > k + 1 PROVE r.acls[users[j]] = acls[users[j]]
    <3>1. users[j] # u /\ users[j] \in us /\ j > k
      BY <1>u, <1>d, <2>4
    <3> QED BY <2>3, <2>4, <3>1 DEF CleanedTo
  <2>5. ASSUME NEW j \in DOMAIN users, j <= k + 1, Holding(acls[users[j]], e) # {}
        PROVE  RemoveIx(users[j], Min(Holding(acls[users[j]], e)), e) \in ToSet(r.ixs)
    <3>1. CASE j = k + 1
      BY <1>u, <1>h, <2>x, <2>2, <3>1
    <3>2. CASE j # k + 1
      <4>1. j <= k
        BY <1>d, <2>5, <3>2
      <4> QED BY <2>2, <2>5, <4>1 DEF CleanedTo
    <3> QED BY <3>1, <3>2
  <2>6. \A iy \in ToSet(r.ixs) : iy.op = "remove" /\ iy.entry = e
    BY <2>x, <2>2 DEF CleanedTo, RemoveIx
  <2> QED BY <2>r, <2>4, <2>5, <2>6 DEF CleanedTo
<1> QED BY <1>2, <1>3

\* The clean-up removes for each controller given one entry, and records
\* none.
LEMMA CleanupIs ==
  ASSUME NEW a \in Ants, NEW us, IsFiniteSet(us), NEW acls \in [us -> Acls]
  PROVE  Cleans(RemoveControllers(a, SetToSeq(us), acls), a, us, acls)
<1>u. PICK users : users = SetToSeq(us)
  OBVIOUS
<1>a. PICK ants : ants = {a}
  OBVIOUS
<1>e. PICK e : e = Entry(a, "controller")
  OBVIOUS
<1>1. /\ users \in Seq(us) /\ ToSet(users) = us
      /\ \A i, j \in DOMAIN users : users[i] = users[j] => i = j
  BY <1>u, SeqOfAll
<1>n. PICK n : n = Len(users) /\ n \in Nat /\ DOMAIN users = 1..n
  BY <1>1
<1>o. PICK ops : ops = [i \in DOMAIN users |-> Op("remove", "controller", users[i], a)]
  OBVIOUS
<1>2. /\ ops \in Seq(AclOps(us, ants)) /\ Len(ops) = n
      /\ \A k \in 1..n : ops[k].action = "remove" /\ ops[k].user = users[k] /\ ops[k].entry = e
  <2>1. \A i \in DOMAIN users : Op("remove", "controller", users[i], a) \in AclOps(us, ants)
    BY <1>1, <1>a DEF Op, Entry, AclOps, Entries, EntriesOf
  <2>2. ops \in [1..n -> AclOps(us, ants)]
    BY <1>n, <1>o, <2>1
  <2> QED BY <1>n, <1>o, <1>e, <2>2 DEF Op
<1>V. PICK V : V = Plans(us, ants)
  OBVIOUS
<1>b. PICK base : base = [acls |-> acls, ixs |-> <<>>]
  OBVIOUS
<1>3. PICK run : HeadRun(run, ops, V, acls) /\ PlanHeads(ops, acls) = run[n]
  <2>1. ops \in Seq(AclOps(us, ants)) /\ Len(ops) = n
    BY <1>2
  <2>2. \E run : HeadRun(run, ops, Plans(us, ants), acls) /\ PlanHeads(ops, acls) = run[Len(ops)]
    BY <2>1, HeadRuns
  <2> QED BY <1>V, <2>1, <2>2
<1>4. PlanHeads(ops, acls) = base
  <2> DEFINE T == {k \in 0..n : run[k] = base}
  <2>1. 0 \in T
    BY <1>n, <1>b, <1>3 DEF HeadRun
  <2>2. ASSUME NEW k \in 0..(n - 1), k \in T PROVE k + 1 \in T
    <3>1. k + 1 \in 1..n /\ (k + 1) - 1 = k
      BY <1>n
    <3>2. run[k + 1] = HeadOp(run[k], ops[k + 1])
      BY <1>2, <1>3, <3>1 DEF HeadRun
    <3>3. run[k + 1] = run[k]
      BY <1>2, <3>1, <3>2 DEF HeadOp
    <3> QED BY <1>n, <2>2, <3>1, <3>3
  <2>3. \A k \in 0..n : k \in T
    <3> HIDE DEF T
    <3> QED BY <1>n, <2>1, <2>2, UpToByInduction
  <2> QED BY <1>n, <1>3, <2>3
<1>5. PICK go : /\ PlanRun(go, ops, V, base)
                /\ RemoveControllers(a, users, acls) = go[n].ixs
  <2>1. ops \in Seq(AclOps(us, ants)) /\ Len(ops) = n
    BY <1>2
  <2>2. PICK go : /\ PlanRun(go, ops, Plans(us, ants), PlanHeads(ops, acls))
                  /\ PlanAclMaintenance(ops, acls) = go[Len(ops)].ixs
    BY <2>1, PlanRuns
  <2>3. RemoveControllers(a, users, acls) = PlanAclMaintenance(ops, acls)
    BY <1>o DEF RemoveControllers
  <2> QED BY <1>V, <1>4, <2>1, <2>2, <2>3
<1>6. /\ go \in [0..n -> V] /\ go[0] = base
      /\ \A k \in 1..n : go[k] = PlanOp(go[k - 1], ops[k])
  BY <1>2, <1>5 DEF PlanRun
<1> DEFINE T == {k \in 0..n : CleanedTo(go[k], k, users, acls, e)}
<1>7. 0 \in T
  <2>1. \A j \in DOMAIN users : ~(j <= 0)
    BY <1>n
  <2>2. go[0].ixs = <<>> /\ go[0].acls = acls
    BY <1>6, <1>b
  <2>3. CleanedTo(go[0], 0, users, acls, e)
    BY <2>1, <2>2, NoneSet DEF CleanedTo
  <2> QED BY <1>n, <2>3
<1>8. ASSUME NEW k \in 0..(n - 1), k \in T PROVE k + 1 \in T
  <2>1. k + 1 \in 1..n /\ (k + 1) - 1 = k /\ k \in Nat /\ k \in 0..n /\ k + 1 \in 0..n
    BY <1>n
  <2>2. go[k + 1] = PlanRemove(go[k], ops[k + 1])
    BY <1>2, <1>6, <2>1 DEF PlanOp
  <2>3. go[k] \in Plans(us, ants) /\ CleanedTo(go[k], k, users, acls, e)
    BY <1>V, <1>6, <1>8, <2>1
  <2>4. k + 1 \in DOMAIN users /\ ops[k + 1].user = users[k + 1] /\ ops[k + 1].entry = e
    BY <1>n, <1>2, <2>1
  <2>5. CleanedTo(PlanRemove(go[k], ops[k + 1]), k + 1, users, acls, e)
    BY <1>1, <2>1, <2>3, <2>4, CleanedMore
  <2> QED BY <2>1, <2>2, <2>5
<1>9. \A k \in 0..n : k \in T
  <2> HIDE DEF T
  <2> QED BY <1>n, <1>7, <1>8, UpToByInduction
<1>10. CleanedTo(go[n], n, users, acls, e)
  BY <1>n, <1>9
<1>11. \A u \in us : \E j \in DOMAIN users : users[j] = u /\ j <= n
  BY <1>1, <1>n DEF ToSet
<1> QED BY <1>u, <1>e, <1>5, <1>10, <1>11 DEF CleanedTo, Cleans
=============================================================================
