---------------------------- MODULE SdkCallsProofs ----------------------------
(***************************************************************************)
(* Proofs about SdkCalls, for all requests, scenes and moves of others:    *)
(* the accounts keep their types, no escrow is paid without a signature    *)
(* for the deposit it holds, a primary name changes at once, and a report  *)
(* that nobody crossed names the gateways it means.                        *)
(***************************************************************************)
EXTENDS SdkCallsLemmas

-----------------------------------------------------------------------------
(* Escrows: a deposit keeps its nonce for as long as it lies there, and no *)
(* nonce is given out twice.                                               *)

BoxStep(x, y) ==
    /\ x.nonce <= y.nonce
    /\ \A b \in Boxes :
         \/ y.box[b] = x.box[b]
         \/ y.box[b] = Nobody
         \/ /\ y.box[b] \in Deposits
            /\ x.nonce <= y.box[b].nonce /\ y.box[b].nonce < y.nonce
    /\ Numbered(x) => Numbered(y)

\* What leaves the escrows alone is such a step.
LEMMA SameBoxes ==
  ASSUME NEW x \in Ledgers, NEW y, y.box = x.box, y.nonce = x.nonce
  PROVE  BoxStep(x, y)
<1>1. x.nonce \in Nat
  BY DEF Ledgers, LedgerType
<1> QED BY <1>1 DEF BoxStep, Numbered

\* Two such steps make one.
LEMMA BoxSteps ==
  ASSUME NEW x \in Ledgers, NEW y \in Ledgers, NEW z \in Ledgers, BoxStep(x, y), BoxStep(y, z)
  PROVE  BoxStep(x, z)
<1>1. x.nonce \in Nat /\ y.nonce \in Nat /\ z.nonce \in Nat
  BY DEF Ledgers, LedgerType
<1>2. \A d \in Deposits : d.nonce \in Nat
  BY DEF Deposits
<1>3. x.nonce <= z.nonce
  BY <1>1 DEF BoxStep
<1>4. ASSUME NEW b \in Boxes
      PROVE  \/ z.box[b] = x.box[b]
             \/ z.box[b] = Nobody
             \/ /\ z.box[b] \in Deposits
                /\ x.nonce <= z.box[b].nonce /\ z.box[b].nonce < z.nonce
  <2>1. CASE z.box[b] = Nobody
    BY <2>1
  <2>2. CASE /\ z.box[b] \in Deposits
             /\ y.nonce <= z.box[b].nonce /\ z.box[b].nonce < z.nonce
    BY <1>1, <1>2, <2>2 DEF BoxStep
  <2>3. CASE z.box[b] = y.box[b]
    BY <1>1, <1>2, <2>3 DEF BoxStep
  <2> QED BY <2>1, <2>2, <2>3 DEF BoxStep
<1>5. Numbered(x) => Numbered(z)
  BY DEF BoxStep
<1> QED BY <1>3, <1>4, <1>5 DEF BoxStep

\* Access control lists have nothing to do with the escrows,
LEMMA OnAclBoxes ==
  ASSUME NEW x \in Ledgers, NEW ix, ix.op \in AclIxs, NEW y \in OnAcl(x, ix)
  PROVE  y.box = x.box /\ y.nonce = x.nonce
<1>0. x \in LedgerType
  BY DEF Ledgers
<1>1. \A u, v : /\ [x EXCEPT !.acl[u] = v].box = x.box
                /\ [x EXCEPT !.acl[u] = v].nonce = x.nonce
  BY <1>0 DEF LedgerType
<1>2. \E u, v : y = [x EXCEPT !.acl[u] = v]
  BY DEF OnAcl, AclIxs, When, In, Out
<1> QED BY <1>1, <1>2

\* nor have ANTs,
LEMMA OnAntBoxes ==
  ASSUME NEW x \in Ledgers, NEW ix, ix.op \in AntIxs, NEW y \in OnAnt(x, ix)
  PROVE  y.box = x.box /\ y.nonce = x.nonce
<1>0. x \in LedgerType
  BY DEF Ledgers
<1>i. ASSUME NEW z \in LedgerType, NEW u, NEW i, NEW e
      PROVE  /\ In(z, u, i, e).box = z.box /\ In(z, u, i, e).nonce = z.nonce
             /\ Out(z, u, i, e).box = z.box /\ Out(z, u, i, e).nonce = z.nonce
  BY DEF In, Out, LedgerType
<1>1. CASE ix.op = "create"
  BY <1>0, <1>1 DEF OnAnt, When, LedgerType
<1>2. CASE ix.op = "manage"
  BY <1>2 DEF OnAnt, When
<1>3. CASE ix.op = "migrate_ant"
  BY <1>0, <1>3 DEF OnAnt, When, LedgerType
<1>4. CASE ix.op = "add_controller"
  <2>1. y = In([x EXCEPT !.ctrl[ix.a] = @ \union {ix.u}], ix.u, ix.page, Entry(ix.a, "controller"))
    BY <1>4 DEF OnAnt, When
  <2> QED BY <1>0, <2>1 DEF In, LedgerType
<1>5. CASE ix.op = "remove_controller"
  <2>1. y = Out([x EXCEPT !.ctrl[ix.a] = @ \ {ix.u}], ix.u, ix.page, Entry(ix.a, "controller"))
    BY <1>5 DEF OnAnt, When
  <2> QED BY <1>0, <2>1 DEF Out, LedgerType
<1>6. CASE ix.op = "transfer"
  <2>1. y = In(Out([x EXCEPT !.owner[ix.a] = ix.u, !.known[ix.a] = ix.u, !.ctrl[ix.a] = {}],
                   ix.by, ix.from, Entry(ix.a, "owner")), ix.u, ix.page, Entry(ix.a, "owner"))
    BY <1>6 DEF OnAnt, When
  <2> QED BY <1>0, <2>1 DEF In, Out, LedgerType
<1>7. CASE ix.op = "reconcile"
  BY <1>0, <1>7 DEF OnAnt, LedgerType
<1> QED BY <1>1, <1>2, <1>3, <1>4, <1>5, <1>6, <1>7 DEF AntIxs

\* records
LEMMA OnRecordsBoxes ==
  ASSUME NEW x \in Ledgers, NEW ix, ix.op \in RecordIxs, NEW y \in OnRecords(x, ix)
  PROVE  y.box = x.box /\ y.nonce = x.nonce
<1>0. x \in LedgerType
  BY DEF Ledgers
<1>1. \A a, v : /\ [x EXCEPT !.recs[a] = v].box = x.box /\ [x EXCEPT !.recs[a] = v].nonce = x.nonce
                /\ [x EXCEPT !.meta[a] = v].box = x.box /\ [x EXCEPT !.meta[a] = v].nonce = x.nonce
  BY <1>0 DEF LedgerType
<1>2. \E a, v : y = [x EXCEPT !.recs[a] = v] \/ y = [x EXCEPT !.meta[a] = v]
  BY DEF OnRecords, RecordIxs, When
<1>3. PICK a, v : y = [x EXCEPT !.recs[a] = v] \/ y = [x EXCEPT !.meta[a] = v]
  BY <1>2
<1>4. CASE y = [x EXCEPT !.recs[a] = v]
  BY <1>1, <1>4
<1>5. CASE y = [x EXCEPT !.meta[a] = v]
  BY <1>1, <1>5
<1> QED BY <1>3, <1>4, <1>5

\* and names.
LEMMA OnNamesBoxes ==
  ASSUME NEW x \in Ledgers, NEW ix, ix.op \in NameIxs, NEW y \in OnNames(x, ix)
  PROVE  y.box = x.box /\ y.nonce = x.nonce
<1>0. x \in LedgerType
  BY DEF Ledgers
<1>1. CASE ix.op \in {"buy_name", "migrate_record", "manage_name"}
  BY <1>0, <1>1 DEF OnNames, When, LedgerType
<1>2. CASE ix.op \in {"reassign_name", "release_name", "sync_attributes"}
  BY <1>0, <1>2 DEF OnNames, When, LedgerType
<1>3. CASE ix.op \in {"remove_primary", "request_primary", "set_primary"}
  BY <1>0, <1>3 DEF OnNames, When, Primary, LedgerType
<1>4. CASE ix.op \in {"approve_primary", "close_request"}
  BY <1>0, <1>4 DEF OnNames, When, Primary, LedgerType
<1> QED BY <1>1, <1>2, <1>3, <1>4 DEF NameIxs

\* A deposit with the next nonce,
LEMMA BoxFilled ==
  ASSUME NEW x \in Ledgers, NEW y, NEW at, NEW d, d.nonce = x.nonce,
         y.nonce = x.nonce + 1, Numbered(x),
         \A b \in Boxes : y.box[b] = IF b = at THEN d ELSE x.box[b]
  PROVE  Numbered(y)
<1>1. x.nonce \in Nat /\ x.box \in [Boxes -> Deposits \union {Nobody}]
      /\ \A e \in Deposits : e.nonce \in Nat
  BY DEF Ledgers, LedgerType, Deposits
<1>2. \A b \in Boxes : b # at => y.box[b] = x.box[b]
  BY <1>1
<1>3. at \in Boxes => y.box[at].nonce = x.nonce
  BY <1>1
<1>4. \A b \in Boxes : x.box[b] # Nobody => x.box[b].nonce < x.nonce /\ x.box[b].nonce \in Nat
  BY <1>1 DEF Numbered
<1>5. \A a, b \in Boxes : x.box[a] # Nobody /\ x.box[b] # Nobody /\ x.box[a].nonce = x.box[b].nonce => a = b
  BY DEF Numbered
<1>6. ASSUME NEW b \in Boxes, y.box[b] # Nobody PROVE y.box[b].nonce < y.nonce
  <2>1. CASE b = at
    BY <1>1, <1>3, <2>1
  <2>2. CASE b # at
    <3>1. x.box[b] # Nobody /\ y.box[b] = x.box[b]
      BY <1>2, <1>6, <2>2
    <3> QED BY <1>1, <1>4, <3>1
  <2> QED BY <2>1, <2>2
<1>7. ASSUME NEW a \in Boxes, NEW b \in Boxes, y.box[a] # Nobody, y.box[b] # Nobody,
             y.box[a].nonce = y.box[b].nonce
      PROVE  a = b
  <2>1. \A e \in {a, b} : e # at => y.box[e].nonce < x.nonce
    BY <1>2, <1>4, <1>7
  <2>2. CASE a = at /\ b # at
    BY <1>1, <1>3, <1>7, <2>1, <2>2
  <2>3. CASE a # at /\ b = at
    BY <1>1, <1>3, <1>7, <2>1, <2>3
  <2>4. CASE a # at /\ b # at
    BY <1>2, <1>5, <1>7, <2>4
  <2> QED BY <2>2, <2>3, <2>4
<1> QED BY <1>6, <1>7 DEF Numbered

\* and one that is taken away.
LEMMA BoxEmptied ==
  ASSUME NEW x \in Ledgers, NEW y, NEW at,
         y.nonce = x.nonce, Numbered(x),
         \A b \in Boxes : y.box[b] = IF b = at THEN Nobody ELSE x.box[b]
  PROVE  Numbered(y)
<1>1. x.box \in [Boxes -> Deposits \union {Nobody}]
  BY DEF Ledgers, LedgerType
<1>2. \A b \in Boxes : y.box[b] # Nobody => y.box[b] = x.box[b] /\ x.box[b] # Nobody
  BY <1>1
<1> QED BY <1>2 DEF Numbered

\* An instruction on an escrow is such a step: the new deposit has the next
\* nonce, and so has one whose recipient was changed.
LEMMA OnEscrowBoxes ==
  ASSUME NEW x \in Ledgers, NEW ix, ix.op \in EscrowIxs, NEW y \in OnEscrow(x, ix), y \in Ledgers
  PROVE  BoxStep(x, y)
<1>0. x \in LedgerType /\ y \in LedgerType /\ x.nonce \in Nat
      /\ x.box \in [Boxes -> Deposits \union {Nobody}] /\ y.box \in [Boxes -> Deposits \union {Nobody}]
  BY DEF Ledgers, LedgerType
<1>1. CASE ix.op = "deposit"
  <2>d. PICK d : d = [dep |-> ix.by, recip |-> ix.r, nonce |-> x.nonce, amt |-> ix.amt,
                      end |-> IF Kind(ix.box) = "vault" THEN x.now + LockTime ELSE 0]
    OBVIOUS
  <2>1. PICK z : z = IF ix.box \in Ants THEN [x EXCEPT !.owner[ix.box] = Escrow]
                                         ELSE [x EXCEPT !.held[ix.by] = @ - ix.amt]
    OBVIOUS
  <2>2. y = [z EXCEPT !.nonce = @ + 1, !.box[ix.box] = d] /\ d.nonce = x.nonce
    BY <1>1, <2>d, <2>1 DEF OnEscrow, When
  <2>3. z.nonce = x.nonce /\ z.box = x.box /\ "nonce" \in DOMAIN z /\ "box" \in DOMAIN z
    BY <1>0, <2>1 DEF LedgerType
  <2>4. y.nonce = x.nonce + 1 /\ y.box = [x.box EXCEPT ![ix.box] = d]
    BY <2>2, <2>3
  <2>5. ASSUME NEW b \in Boxes
        PROVE  \/ y.box[b] = x.box[b]
               \/ y.box[b] = Nobody
               \/ /\ y.box[b] \in Deposits
                  /\ x.nonce <= y.box[b].nonce /\ y.box[b].nonce < y.nonce
    <3>1. CASE b = ix.box
      BY <1>0, <2>2, <2>4, <3>1
    <3>2. CASE b # ix.box
      BY <1>0, <2>4, <3>2
    <3> QED BY <3>1, <3>2
  <2>6. \A b \in Boxes : y.box[b] = IF b = ix.box THEN d ELSE x.box[b]
    BY <1>0, <2>4
  <2>7. ASSUME Numbered(x) PROVE Numbered(y)
    <3>1. y.nonce = x.nonce + 1 /\ d.nonce = x.nonce
      BY <2>2, <2>4
    <3>a. PICK at : at = ix.box
      OBVIOUS
    <3>2. \A b \in Boxes : y.box[b] = IF b = at THEN d ELSE x.box[b]
      BY <2>6, <3>a
    <3> QED BY <2>7, <3>1, <3>2, BoxFilled
  <2> QED BY <1>0, <2>4, <2>5, <2>7 DEF BoxStep
<1>2. CASE ix.op = "update_recipient"
  <2>1. PICK d : /\ y = [x EXCEPT !.box[ix.box] = d, !.nonce = @ + 1]
                 /\ d = [x.box[ix.box] EXCEPT !.recip = ix.r, !.nonce = x.nonce]
                 /\ x.box[ix.box] # Nobody
    BY <1>2 DEF OnEscrow
  <2>2. y.nonce = x.nonce + 1 /\ y.box = [x.box EXCEPT ![ix.box] = d]
    BY <1>0, <2>1 DEF LedgerType
  <2>3. ix.box \in Boxes => d.nonce = x.nonce
    BY <1>0, <2>1 DEF Deposits
  <2>4. ASSUME NEW b \in Boxes
        PROVE  \/ y.box[b] = x.box[b]
               \/ y.box[b] = Nobody
               \/ /\ y.box[b] \in Deposits
                  /\ x.nonce <= y.box[b].nonce /\ y.box[b].nonce < y.nonce
    BY <1>0, <2>2, <2>3
  <2>5. Numbered(x) => Numbered(y)
    <3>1. CASE ix.box \in Boxes
      <4>1. \A b \in Boxes : y.box[b] = IF b = ix.box THEN d ELSE x.box[b]
        BY <1>0, <2>2
      <4>a. PICK at : at = ix.box
        OBVIOUS
      <4>2. \A b \in Boxes : y.box[b] = IF b = at THEN d ELSE x.box[b]
        BY <4>1, <4>a
      <4>3. y.nonce = x.nonce + 1 /\ d.nonce = x.nonce
        BY <2>2, <2>3, <3>1
      <4> QED BY <4>2, <4>3, BoxFilled
    <3>2. CASE ix.box \notin Boxes
      <4>1. y.box = x.box
        BY <1>0, <2>2, <3>2
      <4> QED BY <1>0, <2>2, <4>1 DEF Numbered, Deposits
    <3> QED BY <3>1, <3>2
  <2> QED BY <1>0, <2>2, <2>4, <2>5 DEF BoxStep
<1>3. CASE ix.op \in {"cancel", "claim"}
  <2>1. \E u : y = Moved(x, ix.box, u)
    BY <1>3 DEF OnEscrow, When
  <2>2. y.nonce = x.nonce /\ y.box = [x.box EXCEPT ![ix.box] = Nobody]
    BY <1>0, <2>1 DEF Moved, LedgerType
  <2>3. \A b \in Boxes : y.box[b] = IF b = ix.box THEN Nobody ELSE x.box[b]
    BY <1>0, <2>2
  <2>4. Numbered(x) => Numbered(y)
    BY <2>2, <2>3, BoxEmptied
  <2> QED BY <1>0, <2>2, <2>4 DEF BoxStep
<1>4. CASE ix.op = "create_ata"
  <2>1. y.box = x.box /\ y.nonce = x.nonce
    BY <1>0, <1>4 DEF OnEscrow, LedgerType
  <2> QED BY <2>1, SameBoxes
<1> QED BY <1>1, <1>2, <1>3, <1>4 DEF EscrowIxs

\* Every instruction is such a step.
LEMMA OnAssetBoxes ==
  ASSUME NEW ants, NEW x \in Ledgers, NEW ix, ix.op \in AssetIxs,
         AssetOK(ix, ants), NEW y \in OnAsset(x, ix)
  PROVE  BoxStep(x, y)
<1>0. y \in Ledgers
  BY OnAssetTyped
<1>1. CASE ix.op \in AclIxs
  BY <1>1, OnAclBoxes, SameBoxes DEF OnAsset
<1>2. CASE ix.op \in AntIxs
  <2>1. ix.op \notin AclIxs
    BY <1>2 DEF AclIxs, AntIxs
  <2> QED BY <1>2, <2>1, OnAntBoxes, SameBoxes DEF OnAsset
<1>3. CASE ix.op \in RecordIxs
  <2>1. ix.op \notin AclIxs \union AntIxs
    BY <1>3 DEF AclIxs, AntIxs, RecordIxs
  <2> QED BY <1>3, <2>1, OnRecordsBoxes, SameBoxes DEF OnAsset
<1>4. CASE ix.op \in EscrowIxs
  <2>1. ix.op \notin AclIxs \union AntIxs \union RecordIxs
    BY <1>4 DEF AclIxs, AntIxs, RecordIxs, EscrowIxs
  <2> QED BY <1>0, <1>4, <2>1, OnEscrowBoxes DEF OnAsset
<1>5. CASE ix.op \in NameIxs
  <2>1. ix.op \notin AclIxs \union AntIxs \union RecordIxs \union EscrowIxs
    BY <1>5 DEF AclIxs, AntIxs, RecordIxs, EscrowIxs, NameIxs
  <2> QED BY <1>5, <2>1, OnNamesBoxes, SameBoxes DEF OnAsset
<1> QED BY <1>1, <1>2, <1>3, <1>4, <1>5 DEF AssetIxs

\* A transaction is such a step, too.
LEMMA BoxPath ==
  ASSUME NEW ants, NEW tx, TxOK(tx, ants), NEW from, NEW to, NEW st, Path(st, tx, from, to)
  PROVE  BoxStep(from.w, to.w) /\ from \in Accounts /\ to \in Accounts
<1> DEFINE n == Len(tx)
           T == {i \in 0..n : BoxStep(st[0].w, st[i].w)}
<1>1. n \in Nat /\ DOMAIN tx = 1..n /\ \A j \in 1..n : IxOK(tx[j], ants)
  <2>1. PICK S : tx \in Seq(S)
    BY DEF TxOK
  <2>2. n \in Nat /\ DOMAIN tx = 1..n
    BY <2>1
  <2> QED BY <2>2 DEF TxOK
<1>2. /\ st \in [0..n -> Accounts] /\ st[0] = from /\ st[n] = to
      /\ \A i \in 1..n : st[i] \in After(st[i - 1], tx[i])
  BY DEF Path
<1>3. \A i \in 0..n : st[i] \in Accounts /\ st[i].w \in Ledgers
  BY <1>2 DEF Accounts
<1>4. 0 \in T
  <2>1. 0 \in 0..n
    BY <1>1
  <2> QED BY <1>3, <2>1, SameBoxes
<1>5. ASSUME NEW k \in 0..(n - 1), k \in T PROVE k + 1 \in T
  <2>0. k \in 0..n /\ k + 1 \in 1..n /\ (k + 1) - 1 = k /\ k + 1 \in 0..n /\ 0 \in 0..n
    BY <1>1
  <2>1. st[k + 1] \in After(st[k], tx[k + 1]) /\ IxOK(tx[k + 1], ants)
    BY <1>1, <1>2, <2>0
  <2>2. BoxStep(st[k].w, st[k + 1].w)
    <3>1. CASE tx[k + 1].op \in GarIxs
      <4>1. st[k + 1].w = st[k].w
        BY <1>3, <2>0, <2>1, <3>1, AfterTyped
      <4> QED BY <1>3, <2>0, <4>1, SameBoxes
    <3>2. CASE tx[k + 1].op \notin GarIxs
      <4>1. st[k + 1].w \in OnAsset(st[k].w, tx[k + 1])
        BY <1>3, <2>0, <2>1, <3>2, AfterTyped
      <4>2. tx[k + 1].op \in AssetIxs /\ AssetOK(tx[k + 1], ants)
        BY <2>1, <3>2 DEF IxOK
      <4> QED BY <1>3, <2>0, <4>1, <4>2, OnAssetBoxes
    <3> QED BY <3>1, <3>2
  <2>3. BoxStep(st[0].w, st[k].w)
    BY <1>5
  <2>4. BoxStep(st[0].w, st[k + 1].w)
    BY <1>3, <2>0, <2>2, <2>3, BoxSteps
  <2> QED BY <2>0, <2>4
<1>6. \A i \in 0..n : i \in T
  <2> HIDE DEF T, n
  <2> QED BY <1>1, <1>4, <1>5, UpToByInduction
<1>7. n \in 0..n /\ 0 \in 0..n
  BY <1>1
<1> QED BY <1>2, <1>3, <1>6, <1>7

-----------------------------------------------------------------------------
(* What the three calls that the action properties are about leave.        *)

\* A signature that releases a deposit to a claimant.
Releases(sig, b, d, u) ==
    sig.key = d.recip /\ sig.msg = CanonicalMessage(b, d.amt, d.recip, u, d.nonce)

\* A claim pays the escrow it names, on a signature for it, or none.
LEMMA ClaimStep ==
  ASSUME NEW x \in Ledgers, NEW ix, ix.op = "claim", NEW y \in OnAsset(x, ix), NEW b \in Boxes
  PROVE  \/ y.box[b] = x.box[b]
         \/ b = ix.box /\ x.box[b] # Nobody /\ Releases(ix.sig, b, x.box[b], ix.u)
<1>0. x \in LedgerType /\ x.box \in [Boxes -> Deposits \union {Nobody}]
  BY DEF Ledgers, LedgerType
<1>1. y \in OnEscrow(x, ix)
  BY DEF OnAsset, AclIxs, AntIxs, RecordIxs, EscrowIxs
<1>2. /\ y = Moved(x, ix.box, ix.u) /\ x.box[ix.box] # Nobody
      /\ Releases(ix.sig, ix.box, x.box[ix.box], ix.u)
  BY <1>1 DEF OnEscrow, When, Releases
<1>3. y.box = [x.box EXCEPT ![ix.box] = Nobody]
  BY <1>0, <1>2 DEF Moved, LedgerType
<1> QED BY <1>0, <1>2, <1>3

\* A transaction that claims pays one escrow at most, the one its call is
\* about.  The signature is for the deposit that was there at the start: what
\* comes before the claim leaves the escrows alone.
LEMMA ClaimPath ==
  ASSUME NEW ants, NEW p, NEW tx, TxOK(tx, ants), ClaimIn(tx, p),
         NEW from, NEW to, NEW st, Path(st, tx, from, to), NEW b \in Boxes
  PROVE  \/ to.w.box[b] = from.w.box[b]
         \/ b = BoxOf(p) /\ Releases(p.sig, b, from.w.box[b], p.u)
<1> DEFINE n == Len(tx)
           T == {i \in 0..n : \/ st[i].w.box[b] = from.w.box[b]
                              \/ b = BoxOf(p) /\ Releases(p.sig, b, from.w.box[b], p.u)}
<1>1. n \in Nat /\ DOMAIN tx = 1..n /\ \A j \in 1..n : IxOK(tx[j], ants)
  <2>1. PICK S : tx \in Seq(S)
    BY DEF TxOK
  <2>2. n \in Nat /\ DOMAIN tx = 1..n
    BY <2>1
  <2> QED BY <2>2 DEF TxOK
<1>2. /\ st \in [0..n -> Accounts] /\ st[0] = from /\ st[n] = to
      /\ \A i \in 1..n : st[i] \in After(st[i - 1], tx[i])
  BY DEF Path
<1>3. \A i \in 0..n : st[i] \in Accounts /\ st[i].w \in Ledgers
  BY <1>2 DEF Accounts
<1>4. 0 \in T
  BY <1>1, <1>2
<1>5. ASSUME NEW k \in 0..(n - 1), k \in T PROVE k + 1 \in T
  <2>0. k \in 0..n /\ k + 1 \in 1..n /\ (k + 1) - 1 = k /\ k + 1 \in 0..n
    BY <1>1
  <2>1. st[k + 1] \in After(st[k], tx[k + 1]) /\ IxOK(tx[k + 1], ants)
    BY <1>1, <1>2, <2>0
  <2>x. PICK ix : ix = tx[k + 1]
    OBVIOUS
  <2>2. ix.op = "create_ata" \/ (/\ ix.op = "claim" /\ ix.box = BoxOf(p)
                                 /\ ix.u = p.u /\ ix.sig = p.sig)
    BY <1>1, <2>0, <2>x DEF ClaimIn
  <2>3. ix.op \notin GarIxs
    BY <2>2 DEF GarIxs, RegistryIxs, DelegationIxs, SettingsIxs
  <2>4. st[k + 1].w \in OnAsset(st[k].w, ix)
    BY <1>3, <2>0, <2>1, <2>3, <2>x, AfterTyped
  <2>5. \/ st[k + 1].w.box[b] = st[k].w.box[b]
        \/ b = BoxOf(p) /\ Releases(p.sig, b, st[k].w.box[b], p.u)
    <3>1. CASE ix.op = "claim"
      BY <1>3, <2>0, <2>2, <2>4, <3>1, ClaimStep
    <3>2. CASE ix.op = "create_ata"
      <4>1. st[k + 1].w \in OnEscrow(st[k].w, ix)
        BY <2>4, <3>2 DEF OnAsset, AclIxs, AntIxs, RecordIxs, EscrowIxs
      <4>2. st[k].w \in LedgerType
        BY <1>3, <2>0 DEF Ledgers
      <4>3. st[k + 1].w.box = st[k].w.box
        BY <3>2, <4>1, <4>2 DEF OnEscrow, LedgerType
      <4> QED BY <4>3
    <3> QED BY <2>2, <3>1, <3>2
  <2>6. \/ st[k + 1].w.box[b] = from.w.box[b]
        \/ b = BoxOf(p) /\ Releases(p.sig, b, from.w.box[b], p.u)
    BY <1>5, <2>5
  <2> QED BY <2>0, <2>6
<1>6. \A i \in 0..n : i \in T
  <2> HIDE DEF T, n
  <2> QED BY <1>1, <1>4, <1>5, UpToByInduction
<1>7. n \in 0..n
  BY <1>1
<1> QED BY <1>2, <1>6, <1>7

\* Who sets a primary name has it at the end.
LEMMA SetPath ==
  ASSUME NEW ants, NEW p, p.by \in Users, NEW tx, TxOK(tx, ants), SetsLast(tx, p),
         NEW from, NEW to, NEW st, Path(st, tx, from, to)
  PROVE  to.w.prim[p.by] = p.n
<1>1. /\ Len(tx) \in Nat \ {0} /\ DOMAIN tx = 1..Len(tx)
  BY DEF SetsLast
<1>x. PICK ix : ix = tx[Len(tx)]
  OBVIOUS
<1>2. ix.op = "set_primary" /\ ix.n = p.n /\ ix.by = p.by /\ IxOK(ix, ants)
  BY <1>1, <1>x DEF SetsLast, TxOK
<1>s. PICK s : s = st[Len(tx) - 1]
  OBVIOUS
<1>3. s \in Accounts /\ to \in After(s, ix)
  <2>1. Len(tx) \in 1..Len(tx) /\ Len(tx) - 1 \in 0..Len(tx)
    BY <1>1
  <2> QED BY <1>x, <1>s, <2>1 DEF Path
<1>4. to.w \in OnAsset(s.w, ix) /\ s.w \in LedgerType
  BY <1>2, <1>3, AfterTyped DEF GarIxs, RegistryIxs, DelegationIxs, SettingsIxs, Accounts, Ledgers
<1>5. to.w \in OnNames(s.w, ix)
  BY <1>2, <1>4 DEF OnAsset, AclIxs, AntIxs, RecordIxs, EscrowIxs
<1>6. to.w = Primary(s.w, p.by, p.n)
  BY <1>2, <1>5 DEF OnNames, When
<1> QED BY <1>4, <1>6 DEF Primary, LedgerType

\* A report lies where its observer is, the slots as they were.
LEMMA ReportPath ==
  ASSUME NEW ants, NEW p, p.o \in Operators, NEW slots \in Seq(Operators), NEW tx, TxOK(tx, ants),
         ReportIn(tx, p, slots), NEW from, NEW to, NEW st, Path(st, tx, from, to)
  PROVE  /\ to.g.slots = from.g.slots
         /\ to.g.report[p.o] = [bits |-> Bitmap(slots, p.os), count |-> Len(slots)]
<1>1. PICK ix : /\ tx = <<ix>> /\ ix.op = "save_observations" /\ ix.by = p.o
                /\ ix.bits = Bitmap(slots, p.os) /\ ix.count = Len(slots)
  BY DEF ReportIn
<1>2. Len(tx) = 1 /\ tx[1] = ix /\ 1 \in DOMAIN tx /\ 1 \in 1..1 /\ 0 \in 0..1
  BY <1>1
<1>3. IxOK(ix, ants)
  BY <1>2 DEF TxOK
<1>4. from \in Accounts /\ to \in After(from, ix)
  <2>1. st[1] \in After(st[1 - 1], tx[1]) /\ st[0] = from /\ st[1] = to /\ st \in [0..1 -> Accounts]
    BY <1>2 DEF Path
  <2> QED BY <1>2, <2>1
<1>5. to.g \in OnGar(from.g, ix) /\ from.g \in RegistryType
  BY <1>1, <1>3, <1>4, AfterTyped DEF GarIxs, RegistryIxs, Accounts, Registries
<1>6. to.g \in OnRegistry(from.g, ix)
  BY <1>1, <1>5 DEF OnGar, DelegationIxs, SettingsIxs
<1>7. to.g = [from.g EXCEPT !.report[p.o] = [bits |-> ix.bits, count |-> ix.count]]
  BY <1>1, <1>6 DEF OnRegistry, Accepts
<1>8. to.g.slots = from.g.slots
      /\ to.g.report = [from.g.report EXCEPT ![p.o] = [bits |-> ix.bits, count |-> ix.count]]
  BY <1>5, <1>7 DEF RegistryType
<1>9. from.g.report \in [Operators -> Reports \union {NoOperator}]
  BY <1>5 DEF RegistryType
<1> QED BY <1>1, <1>8, <1>9

-----------------------------------------------------------------------------
(* The invariant.  Escrows: every deposit has a nonce of its own, which was *)
(* given out; what a wish speaks of still lies there, or never will again; *)
(* every signature is that of a wish.                                      *)
Deposited(x, ws) ==
    /\ Numbered(x)
    /\ \A h \in ws :
         /\ h = [box |-> h.box, deposit |-> h.deposit, to |-> h.to]
         /\ h.box \in Boxes /\ h.deposit \in Deposits /\ h.deposit.nonce < x.nonce
         /\ \A b \in Boxes :
              x.box[b] # Nobody /\ x.box[b].nonce = h.deposit.nonce
                => b = h.box /\ x.box[b] = h.deposit

Signed(ss, ws) ==
    \A s \in ss : \E h \in ws : Releases(s, h.box, h.deposit, h.to)

(* A call: what it is asked, what it has read, what it sends.  A report    *)
(* that nobody crossed is about the slots as they are.                     *)
ReportOps == {"saveObservations", "submitReport"}

Shape(k) ==
    /\ DOMAIN k = {"pc", "p", "seen", "tx", "disturbed", "moments"}
    /\ k.pc \in {"idle", "read", "flight", "ok", "threw", "rejected", "failed"}
    /\ k.disturbed \in BOOLEAN
AsksWell(k, ss) ==
    k.pc # "idle" =>
      /\ Asked(k.p) /\ "stage" \in DOMAIN k.p
      /\ k.p.op = "spawnBuy" => k.p.stage \in 1..3
      /\ k.p.op \in Claims => k.p.sig \in ss
SendsWell(k) ==
    /\ k.pc = "idle" => k.seen = <<>>
    /\ k.pc = "read" => SeenOK(k.seen)
    /\ k.pc = "flight" =>
         /\ TxOK(k.tx, Touched(k.p))
         /\ k.p.op \in Claims => ClaimIn(k.tx, k.p)
         /\ k.p.op = "setPrimaryName" => SetsLast(k.tx, k.p)
ReportsWell(k, slots) ==
    k.p.op \in ReportOps /\ ~k.disturbed =>
      /\ k.pc = "read" /\ Slots \in DOMAIN k.seen => k.seen[Slots] = slots
      /\ k.pc = "flight" => ReportIn(k.tx, k.p, slots)
CallOK(k, slots, ss) ==
    Shape(k) /\ AsksWell(k, ss) /\ SendsWell(k) /\ ReportsWell(k, slots)

AccountsOK ==
    /\ w \in Ledgers /\ g \in Registries /\ env \in 0..MaxEnv /\ drift \in Drifts
    /\ scene.asks \subseteq Asks
EscrowsOK == Deposited(w, wishes) /\ Signed(sigs, wishes)
CallsOK == DOMAIN call = Calls /\ \A c \in Calls : CallOK(call[c], g.slots, sigs)

IInv == AccountsOK /\ EscrowsOK /\ CallsOK

\* What moves the deposits on keeps what is known of them.
LEMMA DepositsKept ==
  ASSUME NEW x \in Ledgers, NEW y \in Ledgers, BoxStep(x, y), NEW ws, Deposited(x, ws)
  PROVE  Deposited(y, ws)
<1>1. x.nonce \in Nat /\ y.nonce \in Nat
  BY DEF Ledgers, LedgerType
<1>2. \A d \in Deposits : d.nonce \in Nat
  BY DEF Deposits
<1>3. x.box \in [Boxes -> Deposits \union {Nobody}]
  BY DEF Ledgers, LedgerType
<1>4. Numbered(y)
  BY DEF BoxStep, Deposited
<1>5. ASSUME NEW h \in ws
      PROVE  /\ h = [box |-> h.box, deposit |-> h.deposit, to |-> h.to]
             /\ h.box \in Boxes /\ h.deposit \in Deposits /\ h.deposit.nonce < y.nonce
             /\ \A b \in Boxes :
                  y.box[b] # Nobody /\ y.box[b].nonce = h.deposit.nonce
                    => b = h.box /\ y.box[b] = h.deposit
  <2>1. /\ h = [box |-> h.box, deposit |-> h.deposit, to |-> h.to]
        /\ h.box \in Boxes /\ h.deposit \in Deposits /\ h.deposit.nonce < x.nonce
        /\ \A b \in Boxes :
             x.box[b] # Nobody /\ x.box[b].nonce = h.deposit.nonce
               => b = h.box /\ x.box[b] = h.deposit
    BY DEF Deposited
  <2>n. PICK m : m = h.deposit.nonce
    OBVIOUS
  <2>2. m < y.nonce /\ m \in Nat
    BY <1>1, <1>2, <2>1, <2>n DEF BoxStep
  <2>3. ASSUME NEW b \in Boxes, y.box[b] # Nobody, y.box[b].nonce = m
        PROVE  b = h.box /\ y.box[b] = h.deposit
    <3>1. y.box[b] = x.box[b] /\ x.box[b] # Nobody
      BY <1>1, <1>2, <2>1, <2>2, <2>3, <2>n DEF BoxStep
    <3> QED BY <2>1, <2>3, <2>n, <3>1
  <2> QED BY <2>1, <2>2, <2>3, <2>n
<1> QED BY <1>4, <1>5 DEF Deposited

\* A call whose stage has ended is as it should be, wherever it goes from there.
LEMMA EndedOK ==
  ASSUME NEW k, NEW slots, NEW ss, NEW more, CallOK(k, slots, ss), k.pc \in {"read", "flight"},
         NEW how \in {"ok", "threw", "rejected", "failed"}
  PROVE  /\ CallOK(Ended(k, how), more, ss)
         /\ Ended(k, how).p.op = k.p.op /\ Ended(k, how).pc # "flight"
<1>s. PICK s : s = k.p.stage
  OBVIOUS
<1>0. /\ Asked(k.p) /\ "stage" \in DOMAIN k.p /\ (k.p.op = "spawnBuy" => s \in 1..3)
      /\ k.p.op \in Claims => k.p.sig \in ss
  BY <1>s DEF CallOK, AsksWell
<1>1. CASE k.p.op = "spawnBuy" /\ s < 3 /\ (how = "ok" \/ s > 1)
  <2> DEFINE p == [k.p EXCEPT !.stage = s + 1]
             r == [k EXCEPT !.pc = "read", !.p = p, !.seen = <<>>, !.tx = <<>>]
  <2>1. Ended(k, how) = r
    BY <1>1, <1>s DEF Ended
  <2>2. DOMAIN p = DOMAIN k.p /\ p.stage = s + 1
        /\ \A f \in DOMAIN k.p : f \notin {"stage", "start", "got"} => p[f] = k.p[f]
    BY <1>0
  <2>3. Asked(p) /\ p.op = k.p.op /\ p.sig = k.p.sig
    <3> HIDE DEF p
    <3> QED BY <1>0, <2>2, AskedStill
  <2>4. DOMAIN r = {"pc", "p", "seen", "tx", "disturbed", "moments"} /\ r.pc = "read" /\ r.p = p
        /\ r.seen = <<>> /\ r.disturbed = k.disturbed
    BY DEF CallOK, Shape
  <2>5. k.disturbed \in BOOLEAN /\ s + 1 \in 1..3
    BY <1>0, <1>1 DEF CallOK, Shape
  <2> HIDE DEF r, p
  <2>6. Shape(r) /\ AsksWell(r, ss)
    BY <1>0, <1>1, <2>2, <2>3, <2>4, <2>5 DEF Shape, AsksWell
  <2>7. SendsWell(r)
    BY <2>4, NothingSeen DEF SendsWell
  <2>8. ReportsWell(r, more)
    BY <1>1, <2>3, <2>4 DEF ReportsWell, ReportOps
  <2> QED BY <2>1, <2>3, <2>4, <2>6, <2>7, <2>8 DEF CallOK
<1>2. CASE ~(k.p.op = "spawnBuy" /\ s < 3 /\ (how = "ok" \/ s > 1))
  <2> DEFINE r == [k EXCEPT !.pc = IF k.p.stage > 1 THEN "ok" ELSE how, !.tx = <<>>,
                            !.seen = IF k.p.op \in QueryOps THEN @ ELSE <<>>]
  <2>1. Ended(k, how) = r
    BY <1>2, <1>s DEF Ended
  <2>2. DOMAIN r = {"pc", "p", "seen", "tx", "disturbed", "moments"} /\ r.p = k.p
        /\ r.pc \in {"ok", "threw", "rejected", "failed"} /\ r.disturbed = k.disturbed
        /\ k.disturbed \in BOOLEAN
    BY DEF CallOK, Shape
  <2> HIDE DEF r
  <2>3. Shape(r) /\ AsksWell(r, ss)
    BY <1>0, <1>s, <2>2 DEF Shape, AsksWell
  <2>4. SendsWell(r) /\ ReportsWell(r, more)
    BY <2>2 DEF SendsWell, ReportsWell
  <2> QED BY <2>1, <2>2, <2>3, <2>4 DEF CallOK
<1> QED BY <1>1, <1>2

\* A call that another one's change crossed is as it should be, and still
\* where it was.
LEMMA DisturbedOK ==
  ASSUME NEW k, NEW ss, CallOK(k, g.slots, ss)
  PROVE  CallOK(Disturbed(k), g'.slots, ss) /\ Disturbed(k).pc = k.pc
<1>1. CASE (w' # w \/ g' # g) /\ Underway(k)
  <2> DEFINE r == [k EXCEPT !.disturbed = TRUE,
                   !.moments = IF k.p.op \in QueryOps THEN @ \union {Moment(w')} ELSE @]
  <2>1. Disturbed(k) = r
    BY <1>1 DEF Disturbed
  <2>2. DOMAIN r = {"pc", "p", "seen", "tx", "disturbed", "moments"} /\ r.p = k.p
        /\ r.pc = k.pc /\ r.disturbed = TRUE /\ r.seen = k.seen /\ r.tx = k.tx
    BY DEF CallOK, Shape
  <2> HIDE DEF r
  <2>3. Shape(r)
    BY <2>2 DEF CallOK, Shape
  <2>4. AsksWell(r, ss)
    BY <2>2 DEF CallOK, AsksWell
  <2>5. SendsWell(r)
    BY <2>2 DEF CallOK, SendsWell
  <2>6. ReportsWell(r, g'.slots)
    BY <2>2 DEF ReportsWell
  <2> QED BY <2>1, <2>2, <2>3, <2>4, <2>5, <2>6 DEF CallOK
<1>2. CASE ~((w' # w \/ g' # g) /\ Underway(k))
  <2>1. Disturbed(k) = k
    BY <1>2 DEF Disturbed
  <2>2. ReportsWell(k, g'.slots)
    <3>1. CASE g' = g
      BY <3>1 DEF CallOK
    <3>2. CASE g' # g
      <4>1. k.pc # "flight" /\ (k.pc = "read" => k.seen = <<>>)
        BY <1>2, <3>2 DEF Underway
      <4>2. DOMAIN <<>> = {}
        OBVIOUS
      <4> QED BY <4>1, <4>2 DEF ReportsWell
    <3> QED BY <3>1, <3>2
  <2> QED BY <2>1, <2>2 DEF CallOK
<1> QED BY <1>1, <1>2

\* One call takes a step, the accounts stay as they are.
LEMMA OneSteps ==
  ASSUME IInv, NEW c \in Calls, NEW k, CallOK(k, g.slots, sigs), call' = [call EXCEPT ![c] = k],
         UNCHANGED <<w, g, env, scene, sigs, wishes, drift>>
  PROVE  IInv'
<1>1. AccountsOK' /\ EscrowsOK'
  BY DEF IInv, AccountsOK, EscrowsOK, Ledgers, Registries, LedgerType, RegistryType
<1>2. CallsOK'
  BY DEF IInv, CallsOK
<1> QED BY <1>1, <1>2 DEF IInv

\* The invariant holds of every scene at its start.
LEMMA InvInit == Init => IInv
<1> SUFFICES ASSUME Init PROVE IInv
  OBVIOUS
<1>1. PICK s \in Scenes : /\ w = s.w /\ g = s.g /\ drift = s.drift
                          /\ scene = [asks |-> s.asks, moves |-> s.moves]
                          /\ call = [c \in Calls |-> Idle]
                          /\ env = s.env /\ sigs = {} /\ wishes = {}
  BY DEF Init
<1>2. AccountsOK
  BY <1>1, ScenesAssumption DEF AccountsOK, Ledgers, Registries
<1>3. EscrowsOK
  BY <1>1, ScenesAssumption DEF EscrowsOK, Deposited, Signed
<1>4. CallOK(Idle, g.slots, sigs)
  BY DEF CallOK, Shape, AsksWell, SendsWell, ReportsWell, ReportOps, Idle
<1>5. CallsOK
  <2> HIDE DEF Idle
  <2> QED BY <1>1, <1>4 DEF CallsOK
<1> QED BY <1>2, <1>3, <1>5 DEF IInv

\* A call begins.
LEMMA InvSubmit == ASSUME IInv, NEW c \in Calls, Submit(c) PROVE IInv'
<1>1. PICK q \in scene.asks :
      \E s \in IF q.op \in Claims THEN sigs ELSE {Nobody} :
         call' = [call EXCEPT ![c] =
                    [@ EXCEPT !.pc = "read",
                              !.p = With(q, [stage |-> 1, sig |-> s, start |-> 0, got |-> <<>>])]]
  BY DEF Submit
<1>2. PICK s \in IF q.op \in Claims THEN sigs ELSE {Nobody} :
         call' = [call EXCEPT ![c] =
                    [@ EXCEPT !.pc = "read",
                              !.p = With(q, [stage |-> 1, sig |-> s, start |-> 0, got |-> <<>>])]]
  BY <1>1
<1> DEFINE p == With(q, [stage |-> 1, sig |-> s, start |-> 0, got |-> <<>>])
           k == [call[c] EXCEPT !.pc = "read", !.p = p]
<1>3. Asked(p) /\ p.op = q.op /\ p.sig = s /\ "stage" \in DOMAIN p /\ p.stage = 1
  <2>1. q \in Asks
    BY DEF IInv, AccountsOK
  <2> QED BY <2>1, AskedFirst
<1>4. call[c].pc = "idle" /\ CallOK(call[c], g.slots, sigs) /\ DOMAIN call = Calls
  BY DEF IInv, CallsOK, Submit
<1> HIDE DEF p
<1>5. call' = [call EXCEPT ![c] = k]
  BY <1>2 DEF p
<1>t. k.seen = call[c].seen
  BY <1>4 DEF CallOK, Shape
<1>6. DOMAIN k = {"pc", "p", "seen", "tx", "disturbed", "moments"} /\ k.pc = "read" /\ k.p = p
      /\ k.disturbed = call[c].disturbed /\ k.seen = call[c].seen /\ k.disturbed \in BOOLEAN
  BY <1>4 DEF CallOK, Shape
<1> HIDE DEF k
<1>7. k.seen = <<>> /\ DOMAIN <<>> = {}
  BY <1>4, <1>6 DEF CallOK, SendsWell
<1>8. Shape(k)
  BY <1>6 DEF Shape
<1>9. AsksWell(k, sigs)
  BY <1>3, <1>6 DEF AsksWell
<1>10. SendsWell(k)
  BY <1>6, <1>7, NothingSeen DEF SendsWell
<1>11. ReportsWell(k, g.slots)
  BY <1>6, <1>7 DEF ReportsWell
<1>12. UNCHANGED <<w, g, env, scene, sigs, wishes, drift>>
  BY DEF Submit
<1> QED BY <1>5, <1>8, <1>9, <1>10, <1>11, <1>12, OneSteps DEF CallOK

\* A call reads an account: what it reads of the registry is what is there now.
LEMMA InvRead == ASSUME IInv, NEW c \in Calls, Read(c) PROVE IInv'
<1>k. PICK k : k = call[c]
  OBVIOUS
<1>1. PICK key : call' = [call EXCEPT ![c] = Looked(k, key)]
  BY <1>k DEF Read
<1>2. k.pc = "read" /\ CallOK(k, g.slots, sigs) /\ DOMAIN call = Calls
  BY <1>k DEF IInv, CallsOK, Read
<1> DEFINE r == Looked(k, key)
<1>3. call' = [call EXCEPT ![c] = r]
  BY <1>1
<1>v. PICK v : v = Value(key)
  OBVIOUS
<1>4. DOMAIN r = {"pc", "p", "seen", "tx", "disturbed", "moments"} /\ r.pc = "read" /\ r.p = k.p
      /\ r.disturbed = k.disturbed /\ r.seen = With(k.seen, Just(key, v))
      /\ k.disturbed \in BOOLEAN
  BY <1>2, <1>v DEF CallOK, Shape, Looked
<1> HIDE DEF r
<1>5. KeyOK(key, v) /\ (key = Slots => v = g.slots)
  <2>1. KeyOK(key, v)
    BY <1>v, ValueOK DEF IInv, AccountsOK, Value
  <2>2. key = Slots => v = g.slots
    BY <1>v DEF Slots, Value, ValueOf, RegistryValue
  <2> QED BY <2>1, <2>2
<1>6. Shape(r) /\ AsksWell(r, sigs)
  BY <1>2, <1>4 DEF CallOK, Shape, AsksWell
<1>7. SendsWell(r)
  BY <1>2, <1>4, <1>5, SeenMore DEF CallOK, SendsWell
<1>8. ReportsWell(r, g.slots)
  <2>1. Slots \in DOMAIN r.seen =>
          IF Slots \in DOMAIN k.seen THEN r.seen[Slots] = k.seen[Slots]
          ELSE key = Slots /\ r.seen[Slots] = v
    BY <1>4 DEF With, Just
  <2>2. k.p.op \in ReportOps /\ ~k.disturbed /\ Slots \in DOMAIN k.seen => k.seen[Slots] = g.slots
    BY <1>2 DEF CallOK, ReportsWell
  <2> QED BY <1>4, <1>5, <2>1, <2>2 DEF ReportsWell
<1>9. UNCHANGED <<w, g, env, scene, sigs, wishes, drift>>
  BY DEF Read
<1> QED BY <1>3, <1>6, <1>7, <1>8, <1>9, OneSteps DEF CallOK

\* A page more of a walk.
LEMMA TurnedOK ==
  ASSUME NEW k, NEW slots, NEW ss, CallOK(k, slots, ss), k.pc = "read", k.p.op = "walk"
  PROVE  CallOK(Turned(k), slots, ss) /\ Turned(k).p.op = "walk"
<1>s. PICK page : page = TurnPage(k.p, k.seen)
  OBVIOUS
<1> DEFINE p == [k.p EXCEPT !.stage = @ + 1, !.start = page.next, !.got = @ \o page.items]
           r == [k EXCEPT !.pc = IF page.hasMore THEN "read" ELSE "ok", !.seen = <<>>,
                          !.p.stage = @ + 1, !.p.start = page.next, !.p.got = @ \o page.items]
<1>1. Turned(k) = r
  BY <1>s DEF Turned
<1>2. Asked(k.p) /\ "stage" \in DOMAIN k.p /\ (k.p.op \in Claims => k.p.sig \in ss)
  BY DEF CallOK, AsksWell
<1>3. DOMAIN p = DOMAIN k.p
      /\ \A f \in DOMAIN k.p : f \notin {"stage", "start", "got"} => p[f] = k.p[f]
  OBVIOUS
<1>4. DOMAIN r = {"pc", "p", "seen", "tx", "disturbed", "moments"} /\ r.pc \in {"read", "ok"}
      /\ r.disturbed = k.disturbed /\ r.seen = <<>> /\ k.disturbed \in BOOLEAN
  BY DEF CallOK, Shape
<1>5. r.p = p
  BY DEF CallOK, Shape
<1> HIDE DEF r, p
<1>6. Asked(p) /\ p.op = k.p.op /\ p.sig = k.p.sig
  BY <1>2, <1>3, AskedStill
<1>7. Shape(r)
  BY <1>4 DEF Shape
<1>8. AsksWell(r, ss)
  BY <1>2, <1>3, <1>4, <1>5, <1>6 DEF AsksWell
<1>9. SendsWell(r)
  BY <1>4, NothingSeen DEF SendsWell
<1>10. ReportsWell(r, slots)
  BY <1>5, <1>6 DEF ReportsWell, ReportOps
<1> QED BY <1>1, <1>5, <1>6, <1>7, <1>8, <1>9, <1>10 DEF CallOK

\* A call goes from reading to sending, to its next page, or ends.
LEMMA InvBuild == ASSUME IInv, NEW c \in Calls, Build(c) PROVE IInv'
<1>k. PICK k : k = call[c]
  OBVIOUS
<1> DEFINE r == IF k.p.op = "walk" THEN Turned(k)
                ELSE IF Refuses(k.p, k.seen) THEN Ended(k, "threw")
                ELSE IF IsRead(k.p) \/ Tx(k.p, k.seen) = <<>> THEN Ended(k, "ok")
                ELSE [k EXCEPT !.pc = "flight", !.tx = Tx(k.p, k.seen), !.seen = <<>>]
<1>1. k.pc = "read" /\ Wanted(k.p, k.seen) = {} /\ call' = [call EXCEPT ![c] = r]
      /\ UNCHANGED <<w, g, env, scene, sigs, wishes, drift>>
  BY <1>k DEF Build
<1>2. CallOK(k, g.slots, sigs)
  BY <1>k DEF IInv, CallsOK
<1>3. CASE k.p.op = "walk"
  BY <1>1, <1>2, <1>3, TurnedOK, OneSteps
<1>4. CASE k.p.op # "walk" /\ Refuses(k.p, k.seen)
  BY <1>1, <1>2, <1>4, EndedOK, OneSteps
<1>5. CASE k.p.op # "walk" /\ ~Refuses(k.p, k.seen) /\ (IsRead(k.p) \/ Tx(k.p, k.seen) = <<>>)
  BY <1>1, <1>2, <1>5, EndedOK, OneSteps
<1>6. CASE k.p.op # "walk" /\ ~Refuses(k.p, k.seen) /\ ~IsRead(k.p) /\ Tx(k.p, k.seen) # <<>>
  <2>t. PICK tx : tx = Tx(k.p, k.seen)
    OBVIOUS
  <2> DEFINE s == [k EXCEPT !.pc = "flight", !.tx = tx, !.seen = <<>>]
  <2>1. r = s
    BY <1>6, <2>t
  <2>2. /\ Asked(k.p) /\ (k.p.op = "spawnBuy" => k.p.stage \in 1..3)
        /\ SeenOK(k.seen)
        /\ k.p.op \in ReportOps /\ ~k.disturbed /\ Slots \in DOMAIN k.seen => k.seen[Slots] = g.slots
    BY <1>1, <1>2 DEF CallOK, AsksWell, SendsWell, ReportsWell
  <2>3. /\ TxOK(tx, Touched(k.p))
        /\ k.p.op \in Claims => ClaimIn(tx, k.p)
        /\ k.p.op = "setPrimaryName" => SetsLast(tx, k.p)
        /\ k.p.op \in {"saveObservations", "submitReport"} =>
             Slots \in DOMAIN k.seen /\ ReportIn(tx, k.p, k.seen[Slots])
    BY <1>1, <1>6, <2>2, <2>t, SentOK
  <2>4. DOMAIN s = {"pc", "p", "seen", "tx", "disturbed", "moments"} /\ s.pc = "flight" /\ s.p = k.p
        /\ s.disturbed = k.disturbed /\ s.tx = tx /\ k.disturbed \in BOOLEAN
    BY <1>2 DEF CallOK, Shape
  <2> HIDE DEF s
  <2>5. Shape(s) /\ AsksWell(s, sigs)
    BY <1>1, <1>2, <2>4 DEF CallOK, Shape, AsksWell
  <2>6. SendsWell(s)
    BY <2>3, <2>4 DEF SendsWell
  <2>7. ReportsWell(s, g.slots)
    BY <2>2, <2>3, <2>4 DEF ReportsWell, ReportOps
  <2>8. CallOK(s, g.slots, sigs)
    BY <2>5, <2>6, <2>7 DEF CallOK
  <2> HIDE DEF r
  <2> QED BY <1>1, <2>1, <2>8, OneSteps
<1> QED BY <1>3, <1>4, <1>5, <1>6

\* The history stays one.
LEMMA FollowTyped ==
  ASSUME drift \in Drifts, NEW k
  PROVE  Follow(k) \in Drifts
<1> DEFINE T == {"exact", "raw", "lost"}
<1>1. drift \in [Ants -> T]
  BY DEF Drifts
<1>2. ASSUME NEW a, NEW v \in T PROVE [drift EXCEPT ![a] = v] \in Drifts
  <2>1. [drift EXCEPT ![a] = v] \in [Ants -> T]
    BY <1>1, Put
  <2> QED BY <2>1 DEF Drifts
<1>a. PICK a : a = AntOf(k.p)
  OBVIOUS
<1> DEFINE Restored == /\ ~k.disturbed
                       /\ \/ k.p.op = "spawn"
                          \/ /\ k.p.op = "spawnBuy" /\ drift[a] = "raw"
                             /\ w.known[a] = k.p.by
                          \/ /\ k.p.op = "syncAcl" /\ drift[a] = "raw"
                             /\ w.known[a] # w.owner[a]
           Kept == drift[a] = "exact" /\ (k.p.op = "reconcile" \/ ~k.disturbed)
           moved == [drift EXCEPT ![a] = IF @ = "lost" THEN "lost" ELSE "raw"]
           synced == [drift EXCEPT ![a] = IF Restored THEN "exact" ELSE "lost"]
           kept == [drift EXCEPT ![a] = IF Kept THEN "exact" ELSE "lost"]
<1>3. moved \in Drifts /\ synced \in Drifts /\ kept \in Drifts
  <2>1. (IF drift[a] = "lost" THEN "lost" ELSE "raw") \in T
    OBVIOUS
  <2>2. (IF Restored THEN "exact" ELSE "lost") \in T /\ (IF Kept THEN "exact" ELSE "lost") \in T
    OBVIOUS
  <2> HIDE DEF Restored, Kept, T
  <2> QED BY <1>2, <2>1, <2>2
<1>4. Follow(k) = CASE k.p.op \in Moves \/ (k.p.op = "spawnBuy" /\ k.p.stage = 1) -> moved
                    [] \/ k.p.op \in {"spawn", "syncAcl"}
                       \/ (k.p.op = "spawnBuy" /\ k.p.stage = 2) -> synced
                    [] k.p.op \in {"transfer", "reconcile"} -> kept
                    [] OTHER -> drift
  BY <1>a DEF Follow
<1> HIDE DEF moved, synced, kept
<1>5. Follow(k) \in {moved, synced, kept, drift}
  <2>1. k.p.op \in Moves => k.p.op \notin {"spawn", "syncAcl", "transfer", "reconcile", "spawnBuy"}
    BY DEF Moves, AntClaims
  <2> QED BY <1>4, <2>1
<1> QED BY <1>3, <1>5

\* What a transaction makes of the accounts.
LEMMA ExecutedOK ==
  ASSUME NEW ants, IInv, NEW tx, TxOK(tx, ants), NEW s \in Execute(tx), w' = s.w, g' = s.g,
         UNCHANGED <<scene, sigs, wishes>>, env' \in 0..MaxEnv, drift' \in Drifts
  PROVE  AccountsOK' /\ EscrowsOK'
<1>1. w \in Ledgers /\ g \in Registries /\ Deposited(w, wishes)
  BY DEF IInv, AccountsOK, EscrowsOK
<1>2. PICK st : Path(st, tx, [w |-> w, g |-> g], s)
  BY <1>1, ExecutePath
<1>f. PICK from : from = [w |-> w, g |-> g]
  OBVIOUS
<1>3. BoxStep(from.w, s.w) /\ s \in Accounts
  BY <1>2, <1>f, BoxPath
<1>4. s.w \in Ledgers /\ s.g \in Registries /\ BoxStep(w, s.w)
  BY <1>3, <1>f DEF Accounts
<1>5. Deposited(s.w, wishes)
  BY <1>1, <1>4, DepositsKept
<1>6. w' \in Ledgers /\ g' \in Registries
  BY <1>4
<1>7. scene'.asks \subseteq Asks
  BY DEF IInv, AccountsOK
<1>8. AccountsOK'
  BY <1>6, <1>7 DEF AccountsOK, Ledgers, Registries, LedgerType, RegistryType
<1>9. EscrowsOK'
  BY <1>5 DEF IInv, EscrowsOK, Deposited, Signed
<1> QED BY <1>8, <1>9

\* A transaction lands and its call ends, the others are crossed.
LEMMA InvLanded ==
  ASSUME IInv, NEW c \in Calls, NEW k, CallOK(k, g.slots, sigs), k.pc = "flight",
         NEW s \in Execute(k.tx), w' = s.w, g' = s.g,
         NEW how \in {"ok", "threw", "rejected", "failed"}, Changed(c, Ended(k, how)),
         UNCHANGED <<scene, sigs, wishes>>, env' \in 0..MaxEnv, drift' \in Drifts
  PROVE  IInv'
<1>1. AccountsOK' /\ EscrowsOK'
  <2>1. TxOK(k.tx, Touched(k.p))
    BY DEF CallOK, SendsWell
  <2> QED BY <2>1, ExecutedOK
<1>2. ASSUME NEW d \in Calls PROVE CallOK(call'[d], g'.slots, sigs')
  <2>1. sigs' = sigs
    OBVIOUS
  <2>2. CASE d = c
    <3>1. call'[d] = Ended(k, how)
      BY <2>2 DEF Changed
    <3>2. CallOK(Ended(k, how), g'.slots, sigs)
      BY EndedOK
    <3> QED BY <2>1, <3>1, <3>2
  <2>3. CASE d # c
    <3>1. call'[d] = Disturbed(call[d])
      BY <2>3 DEF Changed
    <3>d. PICK e : e = call[d]
      OBVIOUS
    <3>2. CallOK(Disturbed(e), g'.slots, sigs)
      BY <3>d, DisturbedOK DEF IInv, CallsOK
    <3> QED BY <2>1, <3>1, <3>2, <3>d
  <2> QED BY <2>2, <2>3
<1>3. CallsOK'
  BY <1>2 DEF CallsOK, Changed
<1> QED BY <1>1, <1>3 DEF IInv

\* A transaction lands.
LEMMA InvLand == ASSUME IInv, NEW c \in Calls, Land(c) PROVE IInv'
<1>k. PICK k : k = call[c]
  OBVIOUS
<1>1. k.pc = "flight" /\ CallOK(k, g.slots, sigs)
  BY <1>k DEF Land, IInv, CallsOK
<1>2. PICK s \in Execute(k.tx) : w' = s.w /\ g' = s.g
  BY <1>k DEF Land
<1>3. Changed(c, Ended(k, "ok")) /\ UNCHANGED <<env, scene, sigs, wishes>> /\ drift' = Follow(k)
  BY <1>k DEF Land
<1>4. env' \in 0..MaxEnv /\ drift' \in Drifts
  BY <1>3, FollowTyped DEF IInv, AccountsOK
<1> QED BY <1>1, <1>2, <1>3, <1>4, InvLanded

\* A transaction is rejected.
LEMMA InvReject == ASSUME IInv, NEW c \in Calls, Reject(c) PROVE IInv'
<1>k. PICK k : k = call[c]
  OBVIOUS
<1>1. k.pc = "flight" /\ CallOK(k, g.slots, sigs)
  BY <1>k DEF Reject, IInv, CallsOK
<1>2. call' = [call EXCEPT ![c] = Ended(k, "rejected")]
      /\ UNCHANGED <<w, g, env, scene, sigs, wishes, drift>>
  BY <1>k DEF Reject
<1>3. CallOK(Ended(k, "rejected"), g.slots, sigs)
  BY <1>1, EndedOK
<1> QED BY <1>2, <1>3, OneSteps

\* A call that is told of a failure counts as crossed.
LEMMA LostOK ==
  ASSUME NEW k, NEW slots, NEW ss, CallOK(k, slots, ss)
  PROVE  LET r == [k EXCEPT !.disturbed = TRUE]
         IN  CallOK(r, slots, ss) /\ r.pc = k.pc /\ r.tx = k.tx /\ r.p = k.p
<1> DEFINE r == [k EXCEPT !.disturbed = TRUE]
<1>1. DOMAIN r = {"pc", "p", "seen", "tx", "disturbed", "moments"} /\ r.p = k.p
      /\ r.pc = k.pc /\ r.disturbed = TRUE /\ r.seen = k.seen /\ r.tx = k.tx
  BY DEF CallOK, Shape
<1> HIDE DEF r
<1>2. Shape(r) /\ AsksWell(r, ss)
  BY <1>1 DEF CallOK, Shape, AsksWell
<1>3. SendsWell(r) /\ ReportsWell(r, slots)
  BY <1>1 DEF CallOK, SendsWell, ReportsWell
<1>4. CallOK(r, slots, ss) /\ r.pc = k.pc /\ r.tx = k.tx /\ r.p = k.p
  BY <1>1, <1>2, <1>3 DEF CallOK
<1> QED BY <1>4 DEF r

\* A call is told of a failure.
LEMMA InvLose == ASSUME IInv, NEW c \in Calls, Lose(c) PROVE IInv'
<1>k. PICK k : k = [call[c] EXCEPT !.disturbed = TRUE]
  OBVIOUS
<1>1. call[c].pc = "flight" /\ CallOK(call[c], g.slots, sigs)
  BY DEF Lose, IInv, CallsOK
<1>2. k.pc = "flight" /\ CallOK(k, g.slots, sigs)
  BY <1>1, <1>k, LostOK
<1>3. env' \in 0..MaxEnv /\ UNCHANGED <<scene, sigs, wishes>>
  BY ScenesAssumption DEF IInv, AccountsOK, Lose
<1>4. CallOK(Ended(k, "failed"), g.slots, sigs)
  BY <1>2, EndedOK
<1>5. CASE /\ UNCHANGED <<w, g, drift>>
           /\ call' = [call EXCEPT ![c] = Ended(k, "failed")]
  <2>1. AccountsOK' /\ EscrowsOK'
    BY <1>3, <1>5 DEF IInv, AccountsOK, EscrowsOK, Ledgers, Registries, LedgerType, RegistryType
  <2>2. CallsOK'
    BY <1>3, <1>4, <1>5 DEF IInv, CallsOK
  <2> QED BY <2>1, <2>2 DEF IInv
<1>6. CASE /\ \E s \in Execute(k.tx) : w' = s.w /\ g' = s.g
           /\ Changed(c, Ended(k, "failed"))
           /\ drift' = Follow(call[c])
  <2>1. drift' \in Drifts
    BY <1>6, FollowTyped DEF IInv, AccountsOK
  <2>2. PICK s \in Execute(k.tx) : w' = s.w /\ g' = s.g
    BY <1>6
  <2> QED BY <1>2, <1>3, <1>6, <2>1, <2>2, InvLanded
<1> QED BY <1>5, <1>6, <1>k DEF Lose

\* The rest of the network moves.
LEMMA InvOthers == ASSUME IInv, Others PROVE IInv'
<1>1. w \in Ledgers /\ g \in Registries /\ Deposited(w, wishes) /\ drift \in Drifts
      /\ w \in LedgerType
  BY DEF IInv, AccountsOK, EscrowsOK, Ledgers
<1>2. w' \in Ledgers /\ g' \in Registries /\ BoxStep(w, w') /\ drift' \in Drifts
  <2>1. ASSUME NEW a \in Ants, NEW u \in Users, RawTransfer(a, u)
        PROVE  w' \in Ledgers /\ g' \in Registries /\ BoxStep(w, w') /\ drift' \in Drifts
    <3>o. PICK owner : owner = [w.owner EXCEPT ![a] = u]
      OBVIOUS
    <3>1. owner \in [Ants -> Users \union {Nobody, Escrow}]
      BY <1>1, <3>o DEF LedgerType
    <3>2. w' = [w EXCEPT !.owner = owner]
      BY <2>1, <3>o DEF RawTransfer
    <3>3. w' \in LedgerType /\ w'.acl = w.acl /\ w'.box = w.box /\ w'.nonce = w.nonce
      BY <1>1, <3>1, <3>2 DEF LedgerType
    <3>4. w' \in Ledgers
      BY <1>1, <3>3, Beside
    <3>5. BoxStep(w, w')
      BY <1>1, <3>3, SameBoxes
    <3>6. g' \in Registries
      BY <1>1, <2>1 DEF RawTransfer
    <3>7. drift' \in Drifts
      BY <1>1, <2>1 DEF RawTransfer, Drifts
    <3> QED BY <3>4, <3>5, <3>6, <3>7
  <2>2. CASE Tick
    <3>1. w' = [w EXCEPT !.now = w.now + 1] /\ w.now < MaxNow
      BY <2>2 DEF Tick
    <3>2. w.now + 1 \in 0..MaxNow
      BY <1>1, <3>1, LedgerAssumption DEF LedgerType
    <3>3. w' \in LedgerType /\ w'.acl = w.acl /\ w'.box = w.box /\ w'.nonce = w.nonce
      BY <1>1, <3>1, <3>2 DEF LedgerType
    <3>4. w' \in Ledgers
      BY <1>1, <3>3, Beside
    <3>5. BoxStep(w, w')
      BY <1>1, <3>3, SameBoxes
    <3> QED BY <1>1, <2>2, <3>4, <3>5 DEF Tick
  <2>3. CASE RegistryMove
    <3>1. g' \in RegistryMoves(g) \union Elapse(g) \union PoolMoves(g)
      BY <2>3 DEF RegistryMove
    <3>2. g' \in Registries
      BY <1>1, <3>1, MovesTyped
    <3> QED BY <1>1, <2>3, <3>2, SameBoxes DEF RegistryMove
  <2> QED BY <2>1, <2>2, <2>3 DEF Others
<1>3. env' \in 0..MaxEnv /\ UNCHANGED <<scene, sigs, wishes>>
  BY ScenesAssumption DEF IInv, AccountsOK, Others
<1>4. AccountsOK'
  BY <1>2, <1>3 DEF IInv, AccountsOK, Ledgers, Registries, LedgerType, RegistryType
<1>5. EscrowsOK'
  <2>1. Deposited(w', wishes)
    BY <1>1, <1>2, DepositsKept
  <2> QED BY <1>3, <2>1 DEF IInv, EscrowsOK, Deposited, Signed
<1>6. ASSUME NEW d \in Calls PROVE CallOK(call'[d], g'.slots, sigs')
  <2>d. PICK e : e = call[d]
    OBVIOUS
  <2>1. CallOK(Disturbed(e), g'.slots, sigs)
    BY <2>d, DisturbedOK DEF IInv, CallsOK
  <2>2. call'[d] = Disturbed(e)
    BY <2>d DEF Others
  <2> QED BY <1>3, <2>1, <2>2
<1>7. CallsOK'
  BY <1>6 DEF CallsOK, Others
<1> QED BY <1>4, <1>5, <1>7 DEF IInv

\* The recipient of an escrow signs.
LEMMA InvSign == ASSUME IInv, NEW b \in DOMAIN w.box, NEW u \in Users, Sign(b, u) PROVE IInv'
<1>e. PICK e : e = w.box[b]
  OBVIOUS
<1>s. PICK s : s = [key |-> e.recip, msg |-> CanonicalMessage(b, e.amt, e.recip, u, e.nonce)]
  OBVIOUS
<1>h. PICK h : h = [box |-> b, deposit |-> e, to |-> u]
  OBVIOUS
<1>1. /\ sigs' = sigs \union {s} /\ wishes' = wishes \union {h} /\ e # Nobody
      /\ UNCHANGED <<w, g, call, scene, drift>> /\ env' = env + 1 /\ env < MaxEnv
  BY <1>e, <1>s, <1>h DEF Sign
<1>2. w.box \in [Boxes -> Deposits \union {Nobody}] /\ b \in Boxes /\ e \in Deposits
  BY <1>1, <1>e DEF IInv, AccountsOK, Ledgers, LedgerType
<1>3. Deposited(w, wishes \union {h})
  <2>1. Deposited(w, wishes)
    BY DEF IInv, EscrowsOK
  <2>2. /\ e.nonce < w.nonce
        /\ \A d \in Boxes : w.box[d] # Nobody /\ w.box[d].nonce = e.nonce => d = b
    BY <1>1, <1>2, <1>e, <2>1 DEF Deposited, Numbered
  <2>3. /\ h = [box |-> h.box, deposit |-> h.deposit, to |-> h.to]
        /\ h.box = b /\ h.deposit = e
    BY <1>h
  <2> QED BY <1>2, <1>e, <2>1, <2>2, <2>3 DEF Deposited
<1>4. Signed(sigs \union {s}, wishes \union {h})
  <2>1. Releases(s, h.box, h.deposit, h.to)
    BY <1>s, <1>h DEF Releases
  <2> QED BY <2>1 DEF IInv, EscrowsOK, Signed
<1>5. EscrowsOK'
  BY <1>1, <1>3, <1>4 DEF EscrowsOK, Deposited, Signed
<1>6. AccountsOK'
  BY <1>1, ScenesAssumption DEF IInv, AccountsOK, Ledgers, Registries, LedgerType, RegistryType
<1>7. CallsOK'
  <2>1. ASSUME NEW c \in Calls PROVE CallOK(call[c], g.slots, sigs \union {s})
    <3>k. PICK k : k = call[c]
      OBVIOUS
    <3>1. CallOK(k, g.slots, sigs)
      BY <3>k DEF IInv, CallsOK
    <3>2. AsksWell(k, sigs \union {s})
      BY <3>1 DEF CallOK, AsksWell
    <3>3. CallOK(k, g.slots, sigs \union {s})
      BY <3>1, <3>2 DEF CallOK
    <3> QED BY <3>k, <3>3
  <2> QED BY <1>1, <2>1 DEF IInv, CallsOK
<1> QED BY <1>5, <1>6, <1>7 DEF IInv

\* Every step keeps the invariant.
LEMMA InvNext == IInv /\ [Next]_vars => IInv'
<1> SUFFICES ASSUME IInv, [Next]_vars PROVE IInv'
  OBVIOUS
<1>1. CASE Others
  BY <1>1, InvOthers
<1>2. ASSUME NEW b \in DOMAIN w.box, NEW u \in Users, Sign(b, u) PROVE IInv'
  BY <1>2, InvSign
<1>3. ASSUME NEW c \in Calls, Submit(c) PROVE IInv'
  BY <1>3, InvSubmit
<1>4. ASSUME NEW c \in Calls, Read(c) PROVE IInv'
  BY <1>4, InvRead
<1>5. ASSUME NEW c \in Calls, Build(c) PROVE IInv'
  BY <1>5, InvBuild
<1>6. ASSUME NEW c \in Calls, Land(c) PROVE IInv'
  BY <1>6, InvLand
<1>7. ASSUME NEW c \in Calls, Reject(c) PROVE IInv'
  BY <1>7, InvReject
<1>8. ASSUME NEW c \in Calls, Lose(c) PROVE IInv'
  BY <1>8, InvLose
<1>9. CASE UNCHANGED vars
  <2>1. UNCHANGED <<w, g, env, scene, sigs, wishes, drift>> /\ call' = call
    BY <1>9 DEF vars
  <2>2. AccountsOK' /\ EscrowsOK'
    BY <2>1 DEF IInv, AccountsOK, EscrowsOK, Ledgers, Registries, LedgerType, RegistryType
  <2>3. CallsOK'
    BY <2>1 DEF IInv, CallsOK
  <2> QED BY <2>2, <2>3 DEF IInv
<1> QED BY <1>1, <1>2, <1>3, <1>4, <1>5, <1>6, <1>7, <1>8, <1>9 DEF Next

\* The accounts have their types, and the pages of a list never more entries
\* than they hold, whatever the calls and everybody else do.
THEOREM TypesKept == Spec => []TypeOK
<1>1. IInv => TypeOK
  BY DEF IInv, AccountsOK, CallsOK, CallOK, Shape, TypeOK, Ledgers, Registries
<1> QED BY <1>1, InvInit, InvNext, PTL DEF Spec

\* A transaction that is out of the air has changed nothing, or was executed.
LEMMA LeavesFlight ==
  ASSUME IInv, Next, NEW c \in Calls, call[c].pc = "flight", call'[c].pc # "flight"
  PROVE  \/ w' = w /\ g' = g
         \/ \E s \in Execute(call[c].tx) : w' = s.w /\ g' = s.g
<1>k. PICK k : k = call[c]
  OBVIOUS
<1>0. CallOK(k, g.slots, sigs) /\ DOMAIN call = Calls /\ k.pc = "flight"
  BY <1>k DEF IInv, CallsOK
<1>1. Disturbed(k).pc = "flight"
  BY <1>0, DisturbedOK
<1>2. ~Others
  BY <1>k, <1>1 DEF Others
<1>3. ASSUME NEW b \in DOMAIN w.box, NEW u \in Users, Sign(b, u) PROVE FALSE
  BY <1>3 DEF Sign
<1>4. ASSUME NEW d \in Calls, Submit(d) \/ Read(d) \/ Build(d) PROVE FALSE
  <2>1. call[d].pc \in {"idle", "read"}
    BY <1>4 DEF Submit, Read, Build
  <2>2. \E r : call' = [call EXCEPT ![d] = r]
    BY <1>4 DEF Submit, Read, Build
  <2> QED BY <2>1, <2>2
<1>5. ASSUME NEW d \in Calls, Land(d)
      PROVE  \E s \in Execute(call[c].tx) : w' = s.w /\ g' = s.g
  <2>1. d # c => call'[c] = Disturbed(call[c])
    BY <1>5 DEF Land, Changed
  <2>2. d = c
    BY <1>k, <1>1, <2>1
  <2> QED BY <1>5, <2>2 DEF Land
<1>6. ASSUME NEW d \in Calls, Reject(d) PROVE w' = w /\ g' = g
  BY <1>6 DEF Reject
<1>7. ASSUME NEW d \in Calls, Lose(d)
      PROVE  \/ w' = w /\ g' = g
             \/ \E s \in Execute(call[c].tx) : w' = s.w /\ g' = s.g
  <2>l. PICK l : l = [call[d] EXCEPT !.disturbed = TRUE]
    OBVIOUS
  <2>0. CallOK(call[d], g.slots, sigs)
    BY DEF IInv, CallsOK
  <2>1. l.tx = call[d].tx
    BY <2>l, <2>0, LostOK
  <2>2. CASE UNCHANGED <<w, g, drift>>
    BY <2>2
  <2>3. CASE /\ \E s \in Execute(l.tx) : w' = s.w /\ g' = s.g
             /\ Changed(d, Ended(l, "failed"))
    <3>1. d # c => call'[c] = Disturbed(call[c])
      BY <2>3 DEF Changed
    <3>2. d = c
      BY <1>k, <1>1, <3>1
    <3> QED BY <2>1, <2>3, <3>2
  <2> QED BY <1>7, <2>l, <2>2, <2>3 DEF Lose
<1> QED BY <1>2, <1>3, <1>4, <1>5, <1>6, <1>7 DEF Next

\* What a call sent, when it landed.
LEMMA Landed ==
  ASSUME IInv, NEW c \in Calls, call[c].pc = "flight",
         NEW s \in Execute(call[c].tx), w' = s.w, g' = s.g
  PROVE  /\ CallOK(call[c], g.slots, sigs) /\ TxOK(call[c].tx, Touched(call[c].p))
         /\ Asked(call[c].p)
         /\ \E st : Path(st, call[c].tx, [w |-> w, g |-> g], s)
<1>1. CallOK(call[c], g.slots, sigs)
  BY DEF IInv, CallsOK
<1>2. TxOK(call[c].tx, Touched(call[c].p)) /\ Asked(call[c].p)
  BY <1>1 DEF CallOK, SendsWell, AsksWell
<1>3. w \in Ledgers /\ g \in Registries
  BY DEF IInv, AccountsOK
<1> QED BY <1>1, <1>2, <1>3, ExecutePath

\* An escrow is paid to a claimant only if its recipient signed for this
\* deposit, as it stands, and for this claimant: no signature is good for a
\* later deposit in the same escrow, or after the recipient was changed
\* (escrow.ts, canonicalMessage and the claims).
THEOREM ClaimsAreSigned == Spec => ReleasedOnlyAsSigned
<1> DEFINE A == \A b \in DOMAIN w.box, c \in Calls :
         /\ w.box[b] # Nobody /\ w'.box[b] = Nobody
         /\ call[c].pc = "flight" /\ call'[c].pc # "flight" /\ call[c].p.op \in Claims
         => [box |-> b, deposit |-> w.box[b], to |-> call[c].p.u] \in wishes
<1>1. IInv /\ [Next]_vars => [A]_vars
  <2> SUFFICES ASSUME IInv, Next, NEW b \in DOMAIN w.box, NEW c \in Calls,
                      w.box[b] # Nobody, w'.box[b] = Nobody, call[c].pc = "flight",
                      call'[c].pc # "flight", call[c].p.op \in Claims
               PROVE  [box |-> b, deposit |-> w.box[b], to |-> call[c].p.u] \in wishes
    BY DEF vars
  <2>1. PICK s \in Execute(call[c].tx) : w' = s.w /\ g' = s.g
    BY LeavesFlight
  <2>2. /\ CallOK(call[c], g.slots, sigs) /\ TxOK(call[c].tx, Touched(call[c].p))
        /\ \E st : Path(st, call[c].tx, [w |-> w, g |-> g], s)
    BY <2>1, Landed
  <2>p. PICK p : p = call[c].p
    OBVIOUS
  <2>3. ClaimIn(call[c].tx, p) /\ p.sig \in sigs
    BY <2>2, <2>p DEF CallOK, SendsWell, AsksWell
  <2>4. b \in Boxes
    BY DEF IInv, AccountsOK, Ledgers, LedgerType
  <2>5. Releases(p.sig, b, w.box[b], p.u)
    <3>f. PICK from : from = [w |-> w, g |-> g]
      OBVIOUS
    <3>1. \/ s.w.box[b] = from.w.box[b]
          \/ b = BoxOf(p) /\ Releases(p.sig, b, from.w.box[b], p.u)
      BY <2>2, <2>3, <2>4, <3>f, ClaimPath
    <3> QED BY <2>1, <3>1, <3>f
  <2>6. PICK h \in wishes : Releases(p.sig, h.box, h.deposit, h.to)
    BY <2>3 DEF IInv, EscrowsOK, Signed
  <2>7. h.to = p.u /\ h.deposit.nonce = w.box[b].nonce
    BY <2>5, <2>6 DEF Releases, CanonicalMessage
  <2>8. /\ h = [box |-> h.box, deposit |-> h.deposit, to |-> h.to]
        /\ b = h.box /\ w.box[b] = h.deposit
    BY <2>4, <2>7 DEF IInv, EscrowsOK, Deposited
  <2> QED BY <2>7, <2>8, <2>p
<1> QED BY <1>1, InvInit, InvNext, PTL DEF Spec, ReleasedOnlyAsSigned

\* A transaction of setPrimaryName that changes anything gives its signer the
\* name asked for, whatever name it takes away (io-writeable.ts:2969).  Of
\* requestPrimaryName nothing of the kind is said: it takes the present name
\* away with the request.
THEOREM NamesChangeAtOnce == Spec => ChangeAtomic
<1> DEFINE A == \A c \in Calls :
         /\ call[c].pc = "flight" /\ call'[c].pc # "flight"
         /\ call[c].p.op = "setPrimaryName" /\ w' # w
         => w'.prim[call[c].p.by] = call[c].p.n
<1>1. IInv /\ [Next]_vars => [A]_vars
  <2> SUFFICES ASSUME IInv, Next, NEW c \in Calls, call[c].pc = "flight",
                      call'[c].pc # "flight", call[c].p.op = "setPrimaryName", w' # w
               PROVE  w'.prim[call[c].p.by] = call[c].p.n
    BY DEF vars
  <2>1. PICK s \in Execute(call[c].tx) : w' = s.w /\ g' = s.g
    BY LeavesFlight
  <2>2. /\ CallOK(call[c], g.slots, sigs) /\ TxOK(call[c].tx, Touched(call[c].p))
        /\ Asked(call[c].p)
        /\ \E st : Path(st, call[c].tx, [w |-> w, g |-> g], s)
    BY <2>1, Landed
  <2>p. PICK p : p = call[c].p
    OBVIOUS
  <2>3. SetsLast(call[c].tx, p)
    BY <2>2, <2>p DEF CallOK, SendsWell
  <2>4. p.by \in Users
    BY <2>2, <2>p, NameAsked DEF NameOps
  <2>5. s.w.prim[p.by] = p.n
    BY <2>2, <2>3, <2>4, SetPath
  <2> QED BY <2>1, <2>5, <2>p
<1> QED BY <1>1, InvInit, InvNext, PTL DEF Spec, ChangeAtomic

\* A report that nobody crossed says of every gateway, at the slot it has,
\* whether it failed, and getObservations reads it so (io-writeable.ts:1479).
THEOREM BitsAreNamed == Spec => BitsNameGateways
<1> DEFINE A == \A c \in Calls :
         /\ call[c].pc = "flight" /\ call[c].p.op \in {"saveObservations", "submitReport"}
         /\ g' # g /\ call'[c].pc = "ok" /\ ~call[c].disturbed
         => /\ \A o \in ToSet(g'.slots) :
                 g'.report[call[c].p.o].bits[SlotOf(g', o)] = (o \notin call[c].p.os)
            /\ FailuresIn(g'.report[call[c].p.o], g'.slots)
                 = call[c].p.os \intersect ToSet(g'.slots)
<1>1. IInv /\ [Next]_vars => [A]_vars
  <2> SUFFICES ASSUME IInv, Next, NEW c \in Calls, call[c].pc = "flight",
                      call[c].p.op \in {"saveObservations", "submitReport"},
                      g' # g, call'[c].pc = "ok", ~call[c].disturbed
               PROVE  /\ \A o \in ToSet(g'.slots) :
                           g'.report[call[c].p.o].bits[SlotOf(g', o)] = (o \notin call[c].p.os)
                      /\ FailuresIn(g'.report[call[c].p.o], g'.slots)
                           = call[c].p.os \intersect ToSet(g'.slots)
    BY DEF vars
  <2>1. PICK s \in Execute(call[c].tx) : w' = s.w /\ g' = s.g
    BY LeavesFlight
  <2>2. /\ CallOK(call[c], g.slots, sigs) /\ TxOK(call[c].tx, Touched(call[c].p))
        /\ Asked(call[c].p)
        /\ \E st : Path(st, call[c].tx, [w |-> w, g |-> g], s)
    BY <2>1, Landed
  <2>p. PICK p : p = call[c].p
    OBVIOUS
  <2>q. PICK slots : slots = g.slots
    OBVIOUS
  <2>3. ReportIn(call[c].tx, p, slots)
    BY <2>2, <2>p, <2>q DEF CallOK, ReportsWell, ReportOps
  <2>4. p.o \in Operators /\ slots \in Seq(Operators)
    <3>1. p.op \in RegistryOps
      BY <2>p DEF RegistryOps
    <3>2. p.o \in Operators
      BY <2>2, <2>p, <3>1, RegistryAsked
    <3> QED BY <2>q, <3>2 DEF IInv, AccountsOK, Registries, RegistryType
  <2>5. g'.slots = slots /\ g'.report[p.o] = [bits |-> Bitmap(slots, p.os), count |-> Len(slots)]
    <3>f. PICK from : from = [w |-> w, g |-> g]
      OBVIOUS
    <3>1. /\ s.g.slots = from.g.slots
          /\ s.g.report[p.o] = [bits |-> Bitmap(slots, p.os), count |-> Len(slots)]
      BY <2>2, <2>3, <2>4, <3>f, ReportPath
    <3> QED BY <2>1, <2>q, <3>1, <3>f
  <2>6. \A i \in DOMAIN slots : Bitmap(slots, p.os)[i] = (slots[i] \notin p.os)
    BY DEF Bitmap
  <2>7. ASSUME NEW o \in ToSet(g'.slots)
        PROVE  g'.report[call[c].p.o].bits[SlotOf(g', o)] = (o \notin call[c].p.os)
    <3>i. PICK i : i = SlotOf(g', o)
      OBVIOUS
    <3>1. i \in DOMAIN slots /\ slots[i] = o
      BY <2>5, <3>i DEF SlotOf, ToSet
    <3>2. Bitmap(slots, p.os)[i] = (o \notin p.os)
      BY <2>6, <3>1
    <3> QED BY <2>5, <2>p, <3>i, <3>2
  <2>8. FailuresIn(g'.report[p.o], g'.slots) = p.os \intersect ToSet(g'.slots)
    <3>n. PICK n : n = Len(slots)
      OBVIOUS
    <3>1. n \in Nat /\ DOMAIN slots = 1..n
      BY <2>4, <3>n
    <3>2. Min({n, n}) = n
      BY <3>1, MinOfNats
    <3>3. FailuresIn(g'.report[p.o], g'.slots)
            = {slots[i] : i \in {j \in 1..n : ~Bitmap(slots, p.os)[j]}}
      BY <2>5, <3>n, <3>2 DEF FailuresIn
    <3>4. {j \in 1..n : ~Bitmap(slots, p.os)[j]} = {j \in 1..n : slots[j] \in p.os}
      BY <2>6, <3>1
    <3>5. ToSet(slots) = {slots[i] : i \in 1..n}
      BY <3>1 DEF ToSet
    <3>6. FailuresIn(g'.report[p.o], g'.slots) = p.os \intersect ToSet(slots)
      BY <3>3, <3>4, <3>5
    <3> QED BY <2>5, <3>6
  <2> QED BY <2>7, <2>8, <2>p
<1> QED BY <1>1, InvInit, InvNext, PTL DEF Spec, BitsNameGateways

\* The chunks cover the list, one behind the other; all but the last are full.
ChunkedAs(all, n, part, C) ==
  /\ n \in Nat \ {0} /\ DOMAIN part = 1..n
  /\ \A i \in 1..n : /\ Len(part[i]) <= C /\ (i # n => Len(part[i]) = C)
                     /\ \A r \in 1..Len(part[i]) : part[i][r] = all[(i - 1) * C + r]
  /\ (n - 1) * C + Len(part[n]) = Len(all)

\* Chunks cuts a list so.
LEMMA ChunksFacts ==
  ASSUME NEW K, NEW all \in Seq(K), Len(all) # 0
  PROVE  \E n, part : /\ Chunks(all) = [i \in 1..n |-> BatchOf(part[i])]
                      /\ part \in [1..n -> Seq(K)] /\ ChunkedAs(all, n, part, ChunkSize)
<1>c. PICK C \in Nat \ {0} : C = ChunkSize
  BY ChunkAssumption
<1>l. PICK N \in Nat \ {0} : N = Len(all)
  OBVIOUS
<1>n. PICK n : n = (N + C - 1) \div C
  OBVIOUS
<1>1. n \in Nat /\ C * n <= N + C - 1 /\ N + C - 1 < C * n + C
  BY <1>n
<1>2. n # 0
  BY <1>1
<1> DEFINE part == [i \in 1..n |-> SubSeq(all, (i - 1) * C + 1, Min({i * C, N}))]
<1>t. PICK t : t = (n - 1) * C
  OBVIOUS
<1>3. t \in Nat /\ t < N /\ N <= t + C /\ n * C = t + C
  BY <1>1, <1>2, <1>t
<1>4. ASSUME NEW i \in 1..n
      PROVE  /\ part[i] \in Seq(K) /\ Len(part[i]) <= C
             /\ i # n => Len(part[i]) = C
             /\ i = n => t + Len(part[i]) = N
             /\ \A r \in 1..Len(part[i]) : part[i][r] = all[(i - 1) * C + r]
  <2>a. PICK a : a = (i - 1) * C
    OBVIOUS
  <2>1. a \in Nat /\ i * C = a + C /\ i * C \in Nat
    BY <1>1, <2>a
  <2>2. (i # n => a + C <= t) /\ (i = n => a = t)
    <3>1. CASE i = n
      BY <3>1, <2>a, <1>t
    <3>2. CASE i # n
      <4>1. i - 1 \in Nat /\ n - 1 \in Nat /\ i - 1 < n - 1
        BY <1>1, <3>2
      <4> QED BY <3>2, <4>1, RowsApart, <2>a, <1>t
    <3> QED BY <3>1, <3>2
  <2>b. PICK b : b = Min({i * C, N})
    OBVIOUS
  <2>3. b = (IF i = n THEN N ELSE a + C)
    <3>1. b \in {i * C, N} /\ b <= i * C /\ b <= N
      <4>1. {i * C, N} \in SUBSET Nat /\ {i * C, N} # {}
        BY <2>1
      <4> QED BY <2>b, <4>1, MinOfNats
    <3> QED BY <3>1, <2>1, <2>2, <1>3
  <2>4. part[i] = SubSeq(all, a + 1, b)
    BY <2>a, <2>b
  <2>5. a + 1 \in 1..N /\ b \in 1..N /\ a + 1 <= b /\ b - a <= C
    BY <2>1, <2>2, <2>3, <1>3
  <2>q. PICK q : q = SubSeq(all, a + 1, b)
    OBVIOUS
  <2>6. Len(q) = b - a /\ q \in Seq(K) /\ \A r \in 1..(b - a) : q[r] = all[a + r]
    <3>1. a <= b /\ b <= Len(all) /\ b \in Nat
      BY <1>l, <2>1, <2>5
    <3> QED BY <2>1, <2>q, <3>1, PartOf
  <2>7. part[i] = q
    BY <2>4, <2>q
  <2>8. Len(q) <= C /\ (i # n => Len(q) = C) /\ (i = n => t + Len(q) = N)
    BY <2>1, <2>2, <2>3, <2>5, <2>6
  <2> HIDE DEF part
  <2> QED BY <2>6, <2>7, <2>8, <2>a
<1>d. DOMAIN part = 1..n /\ part = [i \in 1..n |-> part[i]]
  OBVIOUS
<1>5. Chunks(all) = [i \in 1..n |-> BatchOf(part[i])]
  BY <1>c, <1>l, <1>n DEF Chunks
<1> HIDE DEF part
<1>6. (n - 1) * C + Len(part[n]) = N
  BY <1>1, <1>2, <1>4, <1>t
<1>7. part \in [1..n -> Seq(K)]
  BY <1>4, <1>d
<1>8. ChunkedAs(all, n, part, C)
  BY <1>1, <1>2, <1>4, <1>6, <1>d, <1>l DEF ChunkedAs
<1> QED BY <1>5, <1>7, <1>8, <1>c

\* What an account held, at moments of M.
ShownAt(M, keys, values) ==
  \E m \in M : values = [i \in DOMAIN keys |-> AntValue(m, keys[i])]

\* Accounts read in chunks: what is put together holds of every account what it
\* held at one of the moments, and of two that are a pair, at the same moment.
Joined(chunks, seen) == FlattenSeq([j \in DOMAIN chunks |-> seen[chunks[j]]])

JoinedAt(F, all, M) ==
  /\ Len(F) = Len(all) /\ \E V : F \in Seq(V)
  /\ \A q \in 1..Len(all) : \E m \in M :
       /\ F[q] = AntValue(m, all[q])
       /\ q % 2 = 1 /\ q + 1 <= Len(all) => F[q + 1] = AntValue(m, all[q + 1])

\* What the chunks of an even size bring is so: no pair is split.
LEMMA ChunksShown ==
  ASSUME NEW K, NEW all \in Seq(K), Len(all) # 0, NEW M, NEW seen,
         \A j \in DOMAIN Chunks(all) : ShownAt(M, Chunks(all)[j][2], seen[Chunks(all)[j]])
  PROVE  JoinedAt(Joined(Chunks(all), seen), all, M)
<1>c. PICK C \in Nat \ {0} : C = ChunkSize /\ C % 2 = 0
  BY ChunkAssumption
<1>1. PICK n, part : /\ Chunks(all) = [i \in 1..n |-> BatchOf(part[i])]
                     /\ part \in [1..n -> Seq(K)] /\ ChunkedAs(all, n, part, C)
  BY <1>c, ChunksFacts
<1>n. n \in Nat \ {0} /\ n \in 1..n
  BY <1>1 DEF ChunkedAs
<1> DEFINE V == {AntValue(m, k) : m \in M, k \in K}
           seqs == [j \in DOMAIN Chunks(all) |-> seen[Chunks(all)[j]]]
           F == FlattenSeq(seqs)
<1>2. DOMAIN Chunks(all) = 1..n /\ \A j \in 1..n : Chunks(all)[j][2] = part[j]
  BY <1>1 DEF BatchOf
<1>e. DOMAIN seqs = 1..n /\ seqs = [j \in DOMAIN seqs |-> seqs[j]]
  BY <1>2
<1>f. \A j \in 1..n : ShownAt(M, part[j], seqs[j])
  BY <1>2
<1> HIDE DEF seqs
<1>3. ASSUME NEW j \in 1..n
      PROVE  \E m \in M : /\ DOMAIN seqs[j] = 1..Len(part[j])
                          /\ seqs[j] = [i \in DOMAIN part[j] |-> AntValue(m, part[j][i])]
                          /\ \A i \in 1..Len(part[j]) : seqs[j][i] = AntValue(m, part[j][i])
  <2>1. part[j] \in Seq(K)
    BY <1>1
  <2>2. DOMAIN part[j] = 1..Len(part[j])
    BY <2>1
  <2>3. PICK m \in M : seqs[j] = [i \in DOMAIN part[j] |-> AntValue(m, part[j][i])]
    BY <1>f DEF ShownAt
  <2> QED BY <2>2, <2>3
<1>4. seqs \in [1..n -> Seq(V)] /\ \A j \in 1..n : Len(seqs[j]) = Len(part[j])
  <2>1. ASSUME NEW j \in 1..n PROVE seqs[j] \in Seq(V) /\ Len(seqs[j]) = Len(part[j])
    <3>1. part[j] \in Seq(K) /\ Len(part[j]) \in Nat
      BY <1>1
    <3>2. PICK m \in M : /\ DOMAIN seqs[j] = 1..Len(part[j])
                         /\ seqs[j] = [i \in DOMAIN part[j] |-> AntValue(m, part[j][i])]
                         /\ \A i \in 1..Len(part[j]) : seqs[j][i] = AntValue(m, part[j][i])
      BY <1>3
    <3>3. \A i \in 1..Len(part[j]) : AntValue(m, part[j][i]) \in V
      BY <3>1
    <3>4. seqs[j] \in [1..Len(part[j]) -> V]
      BY <3>2, <3>3
    <3> HIDE DEF V
    <3> QED BY <3>1, <3>4
  <2> HIDE DEF V
  <2> QED BY <1>e, <2>1
<1> HIDE DEF V
<1>5. F \in Seq(V) /\ Flattened(F, seqs, C, n)
  <2>1. \A j \in 1..(n - 1) : j \in 1..n /\ j # n
    BY <1>n
  <2>2. \A j \in 1..n : Len(seqs[j]) <= C /\ (j # n => Len(seqs[j]) = C)
    BY <1>1, <1>4 DEF ChunkedAs
  <2> QED BY <1>1, <1>4, <2>1, <2>2, FlattenSeqFacts DEF ChunkedAs
<1> HIDE DEF F
<1>6. n \in 1..n /\ Len(F) = Len(all)
  BY <1>1, <1>n, <1>4, <1>5 DEF Flattened, ChunkedAs
<1>7. ASSUME NEW q \in 1..Len(all)
      PROVE  \E m \in M :
               /\ F[q] = AntValue(m, all[q])
               /\ q % 2 = 1 /\ q + 1 <= Len(all) => F[q + 1] = AntValue(m, all[q + 1])
  <2>j. PICK j : j = (q - 1) \div C + 1
    OBVIOUS
  <2>a. PICK a : a = (j - 1) * C
    OBVIOUS
  <2>r. PICK r : r = q - a
    OBVIOUS
  <2>0. Len(all) \in Nat /\ q \in Nat /\ 1 <= q
    OBVIOUS
  <2>1. j \in Nat /\ 1 <= j /\ a \in Nat /\ a <= q - 1 /\ q - 1 < a + C
    <3>d. PICK d : d = (q - 1) \div C
      OBVIOUS
    <3>1. d \in Nat /\ d * C <= q - 1 /\ q - 1 < d * C + C
      BY <2>0, <3>d
    <3> QED BY <2>0, <2>j, <2>a, <3>1, <3>d
  <2>2. r \in 1..C /\ q = a + r
    BY <2>0, <2>1, <2>r
  <2>t. PICK t : t = (n - 1) * C
    OBVIOUS
  <2>3. Len(part[n]) <= C /\ Len(part[n]) \in Nat /\ t + Len(part[n]) = Len(all)
        /\ t \in Nat
    <3>1. part[n] \in Seq(K)
      BY <1>1, <1>6
    <3>2. n - 1 \in Nat /\ t \in Nat
      BY <1>1, <2>t DEF ChunkedAs
    <3> QED BY <1>1, <1>6, <2>t, <3>1, <3>2 DEF ChunkedAs
  <2>4. j \in 1..n
    <3>1. ~(n < j)
      <4> SUFFICES ASSUME n < j PROVE FALSE
        OBVIOUS
      <4>1. n - 1 \in Nat /\ j - 1 \in Nat /\ n - 1 < j - 1
        BY <1>n, <2>1
      <4>2. t + C <= a
        BY <4>1, RowsApart, <2>t, <2>a
      <4> QED BY <2>0, <2>1, <2>3, <4>2
    <3> QED BY <1>n, <2>1, <3>1
  <2>s. PICK s : s = part[j]
    OBVIOUS
  <2>u. PICK u : u = seqs[j]
    OBVIOUS
  <2>5. /\ s \in Seq(K) /\ Len(s) \in Nat /\ Len(u) = Len(s)
        /\ (j # n => Len(s) = C) /\ (j = n => a + Len(s) = Len(all)) /\ Len(s) <= C
        /\ \A i \in 1..Len(s) : s[i] = all[a + i]
    <3>1. s \in Seq(K) /\ Len(s) \in Nat
      BY <1>1, <2>4, <2>s
    <3>2. Len(u) = Len(s)
      BY <1>4, <2>4, <2>s, <2>u
    <3>3. (j # n => Len(s) = C) /\ Len(s) <= C /\ \A i \in 1..Len(s) : s[i] = all[a + i]
      BY <1>1, <2>4, <2>s, <2>a DEF ChunkedAs
    <3>4. j = n => a + Len(s) = Len(all)
      BY <1>1, <2>s, <2>a DEF ChunkedAs
    <3> QED BY <3>1, <3>2, <3>3, <3>4
  <2>6. r \in 1..Len(s)
    BY <2>0, <2>1, <2>2, <2>5
  <2>7. PICK m \in M : \A i \in 1..Len(s) : u[i] = AntValue(m, s[i])
    BY <1>3, <2>4, <2>s, <2>u
  <2>8. \A i \in 1..Len(s) : F[a + i] = AntValue(m, all[a + i])
    <3>1. \A i \in 1..Len(u) : F[a + i] = u[i]
      BY <1>5, <2>4, <2>a, <2>u DEF Flattened
    <3> QED BY <2>5, <2>7, <3>1
  <2>9. ASSUME q % 2 = 1, q + 1 <= Len(all) PROVE r + 1 \in 1..Len(s)
    <3>1. a % 2 = 0
      <4>h. PICK h \in Nat : C = 2 * h
        <5>1. C = 2 * (C \div 2) /\ C \div 2 \in Nat
          BY <1>c
        <5> QED BY <5>1
      <4>1. a = 2 * ((j - 1) * h) /\ (j - 1) * h \in Nat
        BY <2>1, <2>a, <4>h
      <4> QED BY <4>1
    <3>2. r # C
      BY <1>c, <2>1, <2>2, <2>9, <3>1
    <3>3. CASE j = n
      <4>1. a + (r + 1) <= a + Len(s)
        BY <2>0, <2>1, <2>2, <2>5, <2>9, <3>3
      <4> QED BY <2>1, <2>2, <2>5, <4>1
    <3>4. CASE j # n
      BY <2>2, <2>5, <3>2, <3>4
    <3> QED BY <3>3, <3>4
  <2>10. F[q] = AntValue(m, all[q])
    BY <2>2, <2>6, <2>8
  <2>11. q % 2 = 1 /\ q + 1 <= Len(all) => F[q + 1] = AntValue(m, all[q + 1])
    <3>1. q + 1 = a + (r + 1)
      BY <2>1, <2>2
    <3> QED BY <2>8, <2>9, <3>1
  <2> QED BY <2>10, <2>11
<1>8. F = Joined(Chunks(all), seen)
  BY DEF F, seqs, Joined
<1> QED BY <1>5, <1>6, <1>7, <1>8 DEF JoinedAt

\* The accounts of an ANT a batch reads.
AccountKinds == {"known", "ctrl", "rec", "meta"}

\* What a query has read was there, each account or batch at a moment of M.
Honest(seen, M) ==
  \A key \in DOMAIN seen :
    /\ key[1] \in {"known", "recs", "metas"} => \E m \in M : seen[key] = Held(m, key)
    /\ key[1] = "allrecs" => \E m \in M : seen[key] = m.recs
    /\ key[1] = "allmetas" => \E m \in M : seen[key] = m.meta
    /\ key[1] = "batch" /\ (\A i \in DOMAIN key[2] : key[2][i][1] \in AccountKinds)
         => ShownAt(M, key[2], seen[key])

\* What is read now is what the moment holds.
LEMMA ValueShown ==
  ASSUME NEW key
  PROVE  /\ key[1] \in {"known", "recs", "metas"} => ValueOf(w, g, key) = Held(Moment(w), key)
         /\ key[1] = "allrecs" => ValueOf(w, g, key) = Moment(w).recs
         /\ key[1] = "allmetas" => ValueOf(w, g, key) = Moment(w).meta
         /\ key[1] = "batch" /\ (\A i \in DOMAIN key[2] : key[2][i][1] \in AccountKinds)
              => ShownAt({Moment(w)}, key[2], ValueOf(w, g, key))
<1>m. PICK m : m = Moment(w)
  OBVIOUS
<1>1. m.known = w.known /\ m.ctrl = w.ctrl /\ m.recs = w.recs /\ m.meta = w.meta
  BY <1>m DEF Moment
<1>2. ASSUME NEW one, one[1] \in AccountKinds \union {"recs"}
      PROVE  AntValue(m, one) = AntValue(w, one)
  BY <1>1, <1>2 DEF AntValue, AccountKinds
<1>3. CASE key[1] \in {"known", "recs"}
  <2>1. ValueOf(w, g, key) = AntValue(w, key)
    BY <1>3 DEF ValueOf, NameValue
  <2>2. AntValue(m, key) = AntValue(w, key)
    BY <1>2, <1>3 DEF AccountKinds
  <2>3. Held(m, key) = AntValue(m, key)
    BY <1>3 DEF Held
  <2>4. ValueOf(w, g, key) = Held(Moment(w), key)
    BY <1>m, <2>1, <2>2, <2>3
  <2>5. key[1] # "allrecs" /\ key[1] # "allmetas" /\ key[1] # "batch"
    BY <1>3
  <2> QED BY <2>4, <2>5
<1>4. CASE key[1] \in {"metas", "allrecs", "allmetas"}
  BY <1>1, <1>4, <1>m DEF ValueOf, QueryValue, Held
<1>5. CASE key[1] = "batch" /\ (\A i \in DOMAIN key[2] : key[2][i][1] \in AccountKinds)
  <2>1. ValueOf(w, g, key) = [i \in DOMAIN key[2] |-> AntValue(w, key[2][i])]
    BY <1>5 DEF ValueOf, QueryValue
  <2>2. \A i \in DOMAIN key[2] : AntValue(w, key[2][i]) = AntValue(m, key[2][i])
    BY <1>2, <1>5
  <2>3. ValueOf(w, g, key) = [i \in DOMAIN key[2] |-> AntValue(m, key[2][i])]
    BY <2>1, <2>2
  <2> QED BY <1>5, <1>m, <2>3 DEF ShownAt
<1> QED BY <1>3, <1>4, <1>5

\* One read more, at a moment of M, and more moments.
LEMMA HonestMore ==
  ASSUME NEW seen, NEW M, Honest(seen, M), NEW key, NEW N, M \subseteq N, Moment(w) \in N
  PROVE  Honest(With(seen, Just(key, ValueOf(w, g, key))), N)
<1>v. PICK v : v = ValueOf(w, g, key)
  OBVIOUS
<1>n. PICK now : now = Moment(w)
  OBVIOUS
<1>1. /\ key[1] \in {"known", "recs", "metas"} => v = Held(now, key)
      /\ key[1] = "allrecs" => v = now.recs
      /\ key[1] = "allmetas" => v = now.meta
      /\ key[1] = "batch" /\ (\A i \in DOMAIN key[2] : key[2][i][1] \in AccountKinds)
           => ShownAt({now}, key[2], v)
  BY <1>v, <1>n, ValueShown
<1>2. DOMAIN Just(key, v) = {key} /\ Just(key, v)[key] = v
  BY DEF Just
<1>j. PICK j : j = Just(key, v)
  OBVIOUS
<1>3. /\ DOMAIN With(seen, j) = DOMAIN seen \union {key}
      /\ \A one \in DOMAIN seen : With(seen, j)[one] = seen[one]
      /\ key \notin DOMAIN seen => With(seen, j)[key] = v
  BY <1>2, <1>j DEF With
<1>s. PICK more : more = With(seen, j)
  OBVIOUS
<1>4. ASSUME NEW one \in DOMAIN more
      PROVE  /\ one[1] \in {"known", "recs", "metas"} => \E m \in N : more[one] = Held(m, one)
             /\ one[1] = "allrecs" => \E m \in N : more[one] = m.recs
             /\ one[1] = "allmetas" => \E m \in N : more[one] = m.meta
             /\ one[1] = "batch" /\ (\A i \in DOMAIN one[2] : one[2][i][1] \in AccountKinds)
                  => ShownAt(N, one[2], more[one])
  <2>1. CASE one \in DOMAIN seen
    <3>1. more[one] = seen[one]
      BY <1>3, <1>s, <2>1
    <3>2. /\ one[1] \in {"known", "recs", "metas"} => \E m \in M : more[one] = Held(m, one)
          /\ one[1] = "allrecs" => \E m \in M : more[one] = m.recs
          /\ one[1] = "allmetas" => \E m \in M : more[one] = m.meta
          /\ one[1] = "batch" /\ (\A i \in DOMAIN one[2] : one[2][i][1] \in AccountKinds)
               => ShownAt(M, one[2], more[one])
      BY <2>1, <3>1 DEF Honest
    <3> QED BY <3>2 DEF ShownAt
  <2>2. CASE one \notin DOMAIN seen
    <3>1. one = key /\ more[one] = v
      BY <1>3, <1>s, <2>2
    <3>2. now \in N
      BY <1>n
    <3> QED BY <1>1, <3>1, <3>2 DEF ShownAt
  <2> QED BY <2>1, <2>2
<1>5. Honest(more, N)
  BY <1>4 DEF Honest
<1> QED BY <1>5, <1>s, <1>j, <1>v

\* All of an object was so at one of the moments.
SaidAt(M, said) == SaidOf(M, said, DOMAIN said)

\* Then so was each part of it, and what is in a bond.
LEMMA SaidSo ==
  ASSUME NEW op, NEW M, NEW said, SaidAt(M, said)
  PROVE  SaidWell(op, M, said)
BY DEF SaidAt, SaidOf, SaidWell

\* What a scan says is in no bond.
LEMMA SaidWith ==
  ASSUME NEW op, NEW M, NEW part, SaidAt(M, part),
         NEW rest, \A key \in DOMAIN rest : SaidOf(M, rest, {key}) /\ key[1] \in {"recs", "metas"}
  PROVE  SaidWell(op, M, With(part, rest))
<1>1. PICK m \in M : \A key \in DOMAIN part : part[key] = Held(m, key)
  BY DEF SaidAt, SaidOf
<1>s. PICK said : said = With(part, rest)
  OBVIOUS
<1>2. /\ DOMAIN said = DOMAIN part \union DOMAIN rest
      /\ \A key \in DOMAIN said : said[key] = IF key \in DOMAIN part THEN part[key] ELSE rest[key]
  BY <1>s DEF With
<1>3. ASSUME NEW key \in DOMAIN said PROVE SaidOf(M, said, {key})
  <2>1. CASE key \in DOMAIN part
    BY <1>1, <1>2, <2>1 DEF SaidOf
  <2>2. CASE key \notin DOMAIN part
    <3>1. key \in DOMAIN rest /\ said[key] = rest[key]
      BY <1>2, <2>2
    <3>2. PICK n \in M : rest[key] = Held(n, key)
      BY <3>1 DEF SaidOf
    <3> QED BY <3>1, <3>2 DEF SaidOf
  <2> QED BY <2>1, <2>2
<1>4. ASSUME NEW kinds \in Bonds(op)
      PROVE  SaidOf(M, said, {key \in DOMAIN said : key[1] \in kinds})
  <2>1. "recs" \notin kinds /\ "metas" \notin kinds
    BY DEF Bonds
  <2>2. ASSUME NEW key \in DOMAIN said, key[1] \in kinds PROVE said[key] = Held(m, key)
    <3>1. key \notin DOMAIN rest
      BY <2>1, <2>2
    <3> QED BY <1>1, <1>2, <3>1
  <2> QED BY <2>2 DEF SaidOf
<1>5. SaidWell(op, M, said)
  BY <1>3, <1>4 DEF SaidWell
<1> QED BY <1>5, <1>s

\* What scans say, and of a summary, only each part.
LEMMA SaidApart ==
  ASSUME NEW op, NEW M, NEW m \in M,
         NEW said, \A key \in DOMAIN said : SaidOf(M, said, {key}),
         op = "getSummaries" \/ \A key \in DOMAIN said : key[1] \in {"recs", "metas"}
  PROVE  SaidWell(op, M, said)
<1>1. ASSUME NEW kinds \in Bonds(op)
      PROVE  SaidOf(M, said, {key \in DOMAIN said : key[1] \in kinds})
  <2>1. op # "getSummaries" /\ "recs" \notin kinds /\ "metas" \notin kinds
    BY DEF Bonds
  <2>2. {key \in DOMAIN said : key[1] \in kinds} = {}
    BY <2>1
  <2> QED BY <2>2 DEF SaidOf
<1> QED BY <1>1 DEF SaidWell

\* What the scans say of one ANT.
LEMMA RecordsSaid ==
  ASSUME NEW p, NEW a, NEW M, NEW records, NEW descriptions,
         \E m \in M : records = m.recs[a],
         p.describe => \E m \in M : descriptions = m.meta[a]
  PROVE  /\ Recs(a) \in DOMAIN RecordsOf(p, a, records, descriptions)
         /\ \A key \in DOMAIN RecordsOf(p, a, records, descriptions) :
              /\ SaidOf(M, RecordsOf(p, a, records, descriptions), {key})
              /\ key[1] \in {"recs", "metas"}
<1>1. Recs(a)[1] = "recs" /\ Metas(a)[1] = "metas" /\ Recs(a) # Metas(a)
  BY DEF Recs, Metas
<1>2. \A m : Held(m, Recs(a)) = m.recs[a] /\ Held(m, Metas(a)) = m.meta[a]
  BY DEF Held, AntValue, Recs, Metas
<1>o. PICK one : one = RecordsOf(p, a, records, descriptions)
  OBVIOUS
<1>3. CASE p.describe
  <2>1. one = With(Just(Recs(a), records), Just(Metas(a), descriptions))
    BY <1>3, <1>o DEF RecordsOf
  <2>2. /\ DOMAIN one = {Recs(a), Metas(a)}
        /\ one[Recs(a)] = records /\ one[Metas(a)] = descriptions
    BY <1>1, <2>1 DEF With, Just
  <2> QED BY <1>1, <1>2, <1>3, <1>o, <2>2 DEF SaidOf
<1>4. CASE ~p.describe
  <2>1. one = Just(Recs(a), records)
    BY <1>4, <1>o DEF RecordsOf
  <2>2. DOMAIN one = {Recs(a)} /\ one[Recs(a)] = records
    BY <2>1 DEF Just
  <2> QED BY <1>1, <1>2, <1>o, <2>2 DEF SaidOf
<1> QED BY <1>3, <1>4

\* Accounts of one request belong to one moment.
LEMMA PairingShown ==
  ASSUME NEW M, NEW K, \A k \in K : k[1] \in AccountKinds, NEW keys \in Seq(K),
         NEW values, ShownAt(M, keys, values)
  PROVE  SaidAt(M, Pairing(keys, values))
<1>1. PICK m \in M : values = [i \in DOMAIN keys |-> AntValue(m, keys[i])]
  BY DEF ShownAt
<1>2. ASSUME NEW key \in ToSet(keys)
      PROVE  values[CHOOSE i \in DOMAIN keys : keys[i] = key] = Held(m, key)
  <2>i. PICK i : i = CHOOSE j \in DOMAIN keys : keys[j] = key
    OBVIOUS
  <2>1. i \in DOMAIN keys /\ keys[i] = key
    BY <2>i DEF ToSet
  <2>2. values[i] = AntValue(m, keys[i])
    BY <1>1, <2>1
  <2>3. key[1] # "metas"
    BY <2>1 DEF AccountKinds
  <2>4. Held(m, key) = AntValue(m, key)
    BY <2>3 DEF Held
  <2> QED BY <2>1, <2>2, <2>4, <2>i
<1>3. DOMAIN Pairing(keys, values) = ToSet(keys)
  BY DEF Pairing
<1>4. \A key \in ToSet(keys) :
        Pairing(keys, values)[key] = values[CHOOSE i \in DOMAIN keys : keys[i] = key]
  BY DEF Pairing
<1>p. PICK one : one = Pairing(keys, values)
  OBVIOUS
<1>5. \A key \in DOMAIN one : one[key] = Held(m, key)
  BY <1>2, <1>3, <1>4, <1>p
<1> QED BY <1>5, <1>p DEF SaidAt, SaidOf

\* Accounts of rows of one width, read in chunks: each held what is said of it
\* at one of the moments, and a row of two at the same.
RowAt(s, row, width, M) ==
  /\ DOMAIN s = 1..width
  /\ \A r \in 1..width : \E m \in M : s[r] = AntValue(m, row[r])
  /\ width = 2 => ShownAt(M, row, s)

\* Rows of accounts cut into chunks are shown row by row.
LEMMA RowsShown ==
  ASSUME NEW K, \A k \in K : k[1] \in AccountKinds, NEW n \in Nat \ {0},
         NEW width \in Nat \ {0}, NEW rows \in [1..n -> Seq(K)],
         \A i \in 1..n : Len(rows[i]) = width,
         NEW seen, NEW M, Honest(seen, M),
         \A j \in DOMAIN Chunks(FlattenSeq(rows)) : Chunks(FlattenSeq(rows))[j] \in DOMAIN seen,
         NEW i \in 1..n
  PROVE  RowAt(Slice(Chunks(FlattenSeq(rows)), seen, width, i), rows[i], width, M)
<1>a. PICK all : all = FlattenSeq(rows)
  OBVIOUS
<1>1. all \in Seq(K) /\ Flattened(all, rows, width, n)
  <2>1. \A j \in 1..(n - 1) : Len(rows[j]) = width
    OBVIOUS
  <2>2. \A j \in 1..n : Len(rows[j]) <= width
    OBVIOUS
  <2> QED BY <1>a, <2>1, <2>2, FlattenSeqFacts
<1>t. PICK t : t = (n - 1) * width
  OBVIOUS
<1>2. t \in Nat /\ Len(all) = t + width /\ Len(all) # 0
  <2>1. n \in 1..n /\ n - 1 \in Nat
    OBVIOUS
  <2>2. Len(rows[n]) = width /\ t \in Nat
    BY <2>1, <1>t
  <2>3. Len(all) = t + width
    BY <1>1, <1>t, <2>2 DEF Flattened
  <2> QED BY <2>2, <2>3
<1>p. PICK a : a = (i - 1) * width
  OBVIOUS
<1>3. a \in Nat /\ a <= t /\ i * width = a + width
  <2>1. CASE i = n
    BY <1>2, <1>p, <1>t, <2>1
  <2>2. CASE i # n
    <3>1. i - 1 \in Nat /\ n - 1 \in Nat /\ i - 1 < n - 1
      BY <2>2
    <3>2. (i - 1) * width + width <= (n - 1) * width /\ (i - 1) * width \in Nat
      BY <3>1, RowsApart
    <3>3. a \in Nat /\ a <= t
      BY <1>2, <1>p, <1>t, <3>2
    <3> QED BY <1>p, <3>3
  <2> QED BY <2>1, <2>2
<1>4. \A r \in 1..width : all[a + r] = rows[i][r]
  BY <1>1, <1>p DEF Flattened
<1>5. \A j \in DOMAIN Chunks(all) : ShownAt(M, Chunks(all)[j][2], seen[Chunks(all)[j]])
  <2> SUFFICES ASSUME NEW j \in DOMAIN Chunks(all)
               PROVE  ShownAt(M, Chunks(all)[j][2], seen[Chunks(all)[j]])
    OBVIOUS
  <2>1. PICK m, part : /\ Chunks(all) = [h \in 1..m |-> BatchOf(part[h])]
                       /\ part \in [1..m -> Seq(K)]
    BY <1>1, <1>2, ChunksFacts
  <2>c. PICK key : key = Chunks(all)[j]
    OBVIOUS
  <2>2. key[1] = "batch" /\ key[2] \in Seq(K)
    BY <2>1, <2>c DEF BatchOf
  <2>3. \A h \in DOMAIN key[2] : key[2][h][1] \in AccountKinds
    BY <2>2
  <2>4. key \in DOMAIN seen
    BY <1>a, <2>c
  <2>5. ShownAt(M, key[2], seen[key])
    BY <2>2, <2>3, <2>4 DEF Honest
  <2> QED BY <2>5, <2>c
<1>f. PICK F : F = Joined(Chunks(all), seen)
  OBVIOUS
<1>6. JoinedAt(F, all, M)
  BY <1>1, <1>2, <1>5, <1>f, ChunksShown
<1>7. PICK V : F \in Seq(V)
  BY <1>6 DEF JoinedAt
<1>l. Len(F) = Len(all)
  BY <1>6 DEF JoinedAt
<1>s. PICK s : s = Slice(Chunks(all), seen, width, i)
  OBVIOUS
<1>8. s = SubSeq(F, a + 1, a + width)
  BY <1>s, <1>f, <1>p, <1>3 DEF Slice, Joined
<1>9. s \in Seq(V) /\ DOMAIN s = 1..width /\ \A r \in 1..width : s[r] = F[a + r]
  <2>1. a + width \in Nat /\ a <= a + width /\ a + width <= Len(F) /\ (a + width) - a = width
    BY <1>2, <1>3, <1>l
  <2>2. s \in Seq(V) /\ Len(s) = width /\ \A r \in 1..width : s[r] = F[a + r]
    <3>b. PICK b : b = a + width
      OBVIOUS
    <3>1. b \in Nat /\ a <= b /\ b <= Len(F) /\ b - a = width /\ s = SubSeq(F, a + 1, b)
      BY <1>8, <2>1, <3>b
    <3>2. /\ SubSeq(F, a + 1, b) \in Seq(V) /\ Len(SubSeq(F, a + 1, b)) = b - a
          /\ \A r \in 1..(b - a) : SubSeq(F, a + 1, b)[r] = F[a + r]
      BY <1>3, <1>7, <3>1, PartOf
    <3> QED BY <3>1, <3>2
  <2> QED BY <2>2
<1>10. ASSUME NEW r \in 1..width PROVE \E m \in M : s[r] = AntValue(m, rows[i][r])
  <2>1. a + r \in 1..Len(all)
    BY <1>2, <1>3
  <2>2. PICK m \in M : F[a + r] = AntValue(m, all[a + r])
    BY <1>6, <2>1 DEF JoinedAt
  <2> QED BY <1>4, <1>9, <2>2
<1>11. ASSUME width = 2 PROVE ShownAt(M, rows[i], s)
  <2>1. a + 1 \in 1..Len(all) /\ (a + 1) + 1 = a + 2 /\ a + 2 <= Len(all)
    BY <1>2, <1>3, <1>11
  <2>2. (a + 1) % 2 = 1
    <3>1. a = 2 * (i - 1) /\ i - 1 \in Nat
      BY <1>p, <1>11
    <3> QED BY <3>1
  <2>3. PICK m \in M : F[a + 1] = AntValue(m, all[a + 1]) /\ F[a + 2] = AntValue(m, all[a + 2])
    BY <1>6, <2>1, <2>2 DEF JoinedAt
  <2>4. s[1] = AntValue(m, rows[i][1]) /\ s[2] = AntValue(m, rows[i][2])
    BY <1>4, <1>9, <1>11, <2>3
  <2>k. PICK keys : keys = rows[i]
    OBVIOUS
  <2>5. DOMAIN keys = {1, 2} /\ DOMAIN s = {1, 2}
    <3>1. keys \in Seq(K) /\ Len(keys) = 2
      BY <1>11, <2>k
    <3> QED BY <1>9, <1>11, <3>1
  <2>6. s = [r \in DOMAIN keys |-> AntValue(m, keys[r])]
    <3>1. s = [r \in DOMAIN s |-> s[r]]
      BY <1>9
    <3> QED BY <2>4, <2>5, <2>k, <3>1
  <2> QED BY <2>6, <2>k DEF ShownAt
<1> QED BY <1>9, <1>10, <1>11, <1>a, <1>s DEF RowAt

\* Whom a query asks about.
LEMMA QueryAsked ==
  ASSUME NEW p, Asked(p), p.op \in QueryOps
  PROVE  p.as \in Seq(Ants)
<1>1. PICK q \in Asks : \A f \in DOMAIN q : f \in DOMAIN p /\ p[f] = q[f]
  BY DEF Asked
<1>2. "op" \in DOMAIN q
  BY NoStage
<1>3. q.op \in QueryOps
  BY <1>1, <1>2
<1>4. q \in QueryAsks
  BY <1>3 DEF Asks, AntOps, AntAsks, RecordAsks, EscrowAsks, EscrowAsk, EscrowOps, Claims,
              AntEscrowOps, AntClaims, TokenClaims, VaultClaims, NameAsks, NameOps, QueryAsks,
              QueryOps, RegistryAsks, RegistryOps, PoolAsks, PoolOps, WalkAsks
<1>5. "as" \in DOMAIN q /\ q.as \in Seq(Ants)
  BY <1>4 DEF QueryAsks
<1> QED BY <1>1, <1>5

\* A batch of accounts of ANTs.
LEMMA BatchSaid ==
  ASSUME NEW seen, NEW M, Honest(seen, M), NEW K, \A k \in K : k[1] \in AccountKinds,
         NEW keys \in Seq(K), BatchOf(keys) \in DOMAIN seen
  PROVE  SaidAt(M, Pairing(keys, seen[BatchOf(keys)]))
<1>b. PICK b : b = BatchOf(keys)
  OBVIOUS
<1>1. b[1] = "batch" /\ b[2] = keys
  BY <1>b DEF BatchOf
<1>2. \A i \in DOMAIN b[2] : b[2][i][1] \in AccountKinds
  BY <1>1
<1>3. ShownAt(M, keys, seen[b])
  BY <1>1, <1>2, <1>b DEF Honest
<1> QED BY <1>3, <1>b, PairingShown

\* What getANTStates says of the two accounts of each ANT.
LEMMA StatesSaid ==
  ASSUME NEW p, p.as \in Seq(Ants), NEW seen, NEW M, Honest(seen, M),
         InTurn(StateChunks(p), seen) = {}, NEW i \in DOMAIN p.as
  PROVE  SaidAt(M, StateOf(p, seen, i))
<1> DEFINE K == ({"known", "ctrl"} \X Ants)
           rows == [j \in DOMAIN p.as |-> AccountsOf(p.as[j])]
<1>n. PICK n : n = Len(p.as)
  OBVIOUS
<1>1. n \in Nat \ {0} /\ DOMAIN p.as = 1..n /\ i \in 1..n
  BY <1>n
<1>2. \A k \in K : k[1] \in AccountKinds
  BY DEF AccountKinds
<1>3. ASSUME NEW j \in 1..n PROVE rows[j] \in Seq(K) /\ Len(rows[j]) = 2
  <2>1. p.as[j] \in Ants
    BY <1>1, <1>n
  <2>2. Known(p.as[j]) \in K /\ Ctrl(p.as[j]) \in K
    BY <2>1 DEF Known, Ctrl
  <2>3. rows[j] = <<Known(p.as[j]), Ctrl(p.as[j])>>
    BY <1>1 DEF AccountsOf
  <2> HIDE DEF K, rows
  <2> QED BY <2>2, <2>3
<1>4. rows \in [1..n -> Seq(K)]
  BY <1>1, <1>3
<1>5. rows[i] = AccountsOf(p.as[i]) /\ StateChunks(p) = Chunks(FlattenSeq(rows))
  BY DEF StateChunks
<1> HIDE DEF K, rows
<1>6. \A j \in DOMAIN Chunks(FlattenSeq(rows)) : Chunks(FlattenSeq(rows))[j] \in DOMAIN seen
  BY <1>5, AllInTurn
<1>s. PICK s : s = Slice(StateChunks(p), seen, 2, i)
  OBVIOUS
<1>r. RowAt(Slice(Chunks(FlattenSeq(rows)), seen, 2, i), rows[i], 2, M)
  <2>1. 2 \in Nat \ {0} /\ \A j \in 1..n : Len(rows[j]) = 2
    BY <1>3
  <2> QED BY <1>1, <1>2, <1>4, <1>6, <2>1, RowsShown
<1>7. ShownAt(M, rows[i], s)
  BY <1>5, <1>r, <1>s DEF RowAt
<1>8. Len(AccountsOf(p.as[i])) = 2
  BY DEF AccountsOf
<1>9. StateOf(p, seen, i) = Pairing(rows[i], s)
  BY <1>5, <1>8, <1>s DEF StateOf
<1>10. rows[i] \in Seq(K)
  BY <1>1, <1>3
<1>k. PICK keys : keys = rows[i]
  OBVIOUS
<1>11. SaidAt(M, Pairing(keys, s))
  BY <1>2, <1>7, <1>10, <1>k, PairingShown
<1> QED BY <1>9, <1>11, <1>k

\* An item of a sequence.
LEMMA ItemOf ==
  ASSUME NEW S, NEW q \in Seq(S), NEW i \in 1..Len(q)
  PROVE  q[i] \in S
OBVIOUS

\* Each part of a summary was so at a moment of the query.
LEMMA SummariesSaid ==
  ASSUME NEW p, p.as \in Seq(Ants), NEW seen, NEW M, Honest(seen, M),
         InTurn(SummaryChunks(p), seen) = {}, NEW i \in DOMAIN p.as
  PROVE  SaidWell("getSummaries", M, SummaryOf(p, seen, i))
<1> DEFINE K == ({"known", "ctrl"} \X Ants) \union ({"rec"} \X Ants \X {"@"})
           rows == [j \in DOMAIN p.as |-> SummaryAccountsOf(p.as[j])]
<1>n. PICK n : n = Len(p.as)
  OBVIOUS
<1>1. n \in Nat \ {0} /\ DOMAIN p.as = 1..n /\ i \in 1..n
  BY <1>n
<1>2. \A k \in K : k[1] \in AccountKinds
  BY DEF AccountKinds
<1>3. ASSUME NEW j \in 1..n PROVE rows[j] \in Seq(K) /\ Len(rows[j]) = 3
  <2>1. p.as[j] \in Ants
    BY <1>1, <1>n
  <2>2. Known(p.as[j]) \in K /\ Ctrl(p.as[j]) \in K /\ Rec(p.as[j], "@") \in K
    BY <2>1 DEF Known, Ctrl, Rec
  <2>3. rows[j] = <<Known(p.as[j]), Ctrl(p.as[j]), Rec(p.as[j], "@")>>
    BY <1>1 DEF SummaryAccountsOf
  <2> HIDE DEF K, rows
  <2> QED BY <2>2, <2>3
<1>4. rows \in [1..n -> Seq(K)]
  BY <1>1, <1>3
<1>5. rows[i] = SummaryAccountsOf(p.as[i]) /\ SummaryChunks(p) = Chunks(FlattenSeq(rows))
  BY DEF SummaryChunks
<1> HIDE DEF K, rows
<1>6. \A j \in DOMAIN Chunks(FlattenSeq(rows)) : Chunks(FlattenSeq(rows))[j] \in DOMAIN seen
  BY <1>5, AllInTurn
<1>s. PICK s : s = Slice(SummaryChunks(p), seen, 3, i)
  OBVIOUS
<1>r. RowAt(Slice(Chunks(FlattenSeq(rows)), seen, 3, i), rows[i], 3, M)
  <2>1. 3 \in Nat \ {0} /\ \A j \in 1..n : Len(rows[j]) = 3
    BY <1>3
  <2> QED BY <1>1, <1>2, <1>4, <1>6, <2>1, RowsShown
<1>7. \A r \in 1..3 : \E m \in M : s[r] = AntValue(m, rows[i][r])
  BY <1>5, <1>r, <1>s DEF RowAt
<1>k. PICK keys : keys = rows[i]
  OBVIOUS
<1>8. keys \in Seq(K) /\ DOMAIN keys = 1..3
  BY <1>1, <1>3, <1>k
<1>9. SummaryOf(p, seen, i) = Pairing(keys, s)
  BY <1>5, <1>k, <1>s DEF SummaryOf
<1>o. PICK one : one = Pairing(keys, s)
  OBVIOUS
<1>10. ASSUME NEW key \in DOMAIN one PROVE \E m \in M : one[key] = Held(m, key)
  <2>r. PICK r : r = CHOOSE j \in DOMAIN keys : keys[j] = key
    OBVIOUS
  <2>1. key \in ToSet(keys) /\ one[key] = s[r]
    BY <1>o, <1>10, <2>r DEF Pairing
  <2>2. r \in 1..3 /\ keys[r] = key
    BY <1>8, <2>1, <2>r DEF ToSet
  <2>3. PICK m \in M : s[r] = AntValue(m, key)
    BY <1>7, <1>k, <2>2
  <2>k. Len(keys) = 3
    BY <1>1, <1>3, <1>k
  <2>m. keys[r] \in K
    BY <1>8, <2>2, <2>k, ItemOf
  <2>4. key[1] # "metas"
    BY <1>2, <2>m, <2>2 DEF AccountKinds
  <2>5. Held(m, key) = AntValue(m, key)
    BY <2>4 DEF Held
  <2>6. one[key] = Held(m, key)
    BY <2>1, <2>3, <2>5
  <2> QED BY <2>6
<1>11. PICK m \in M : s[1] = AntValue(m, rows[i][1])
  BY <1>7
<1>12. \A key \in DOMAIN one : SaidOf(M, one, {key})
  BY <1>10 DEF SaidOf
<1>13. SaidWell("getSummaries", M, one)
  BY <1>11, <1>12, SaidApart
<1> QED BY <1>9, <1>13, <1>o

\* What a query answers was so, each object as SaidWell has it.
LEMMA AnswerSaid ==
  ASSUME NEW p, Asked(p), p.op \in QueryOps, NEW seen, NEW M, Honest(seen, M),
         QueryReads(p, seen) = {}, ~QueryRefuses(p, seen), NEW said \in Answer(p, seen)
  PROVE  SaidWell(p.op, M, said)
<1> DEFINE K == ({"known", "ctrl"} \X {p.a}) \union
                {<<kind, a, p.un>> : kind \in {"rec", "meta"}, a \in {p.a, seen[Arns(p.n)]}}
<1>1. \A k \in K : k[1] \in AccountKinds
  BY DEF AccountKinds
<1>2. AccountsOf(p.a) \in Seq(K)
  <2>1. Known(p.a) \in K /\ Ctrl(p.a) \in K
    BY DEF Known, Ctrl
  <2> HIDE DEF K
  <2> QED BY <2>1 DEF AccountsOf
<1>3. \A a \in {p.a, seen[Arns(p.n)]} : <<Rec(a, p.un), Meta(a, p.un)>> \in Seq(K)
  <2> SUFFICES ASSUME NEW a \in {p.a, seen[Arns(p.n)]}
               PROVE  <<Rec(a, p.un), Meta(a, p.un)>> \in Seq(K)
    OBVIOUS
  <2>1. Rec(a, p.un) \in K /\ Meta(a, p.un) \in K
    BY DEF Rec, Meta
  <2> HIDE DEF K
  <2> QED BY <2>1
<1> HIDE DEF K
<1> DEFINE records == RecordsOf(p, p.a, seen[Recs(p.a)], seen[Metas(p.a)])
<1>r. ASSUME AtOnce(Described(p, Recs(p.a), Metas(p.a)), seen) = {}
      PROVE  /\ Recs(p.a) \in DOMAIN records
             /\ \A key \in DOMAIN records :
                  SaidOf(M, records, {key}) /\ key[1] \in {"recs", "metas"}
  <2>1. Recs(p.a) \in DOMAIN seen /\ (p.describe => Metas(p.a) \in DOMAIN seen)
    BY <1>r, AllAtOnce DEF Described
  <2>2. \E m \in M : seen[Recs(p.a)] = Held(m, Recs(p.a))
    BY <2>1 DEF Honest, Recs
  <2>3. p.describe => \E m \in M : seen[Metas(p.a)] = Held(m, Metas(p.a))
    BY <2>1 DEF Honest, Metas
  <2>4. \A m : Held(m, Recs(p.a)) = m.recs[p.a] /\ Held(m, Metas(p.a)) = m.meta[p.a]
    BY DEF Held, AntValue, Recs, Metas
  <2>5. /\ \E m \in M : seen[Recs(p.a)] = m.recs[p.a]
        /\ p.describe => \E m \in M : seen[Metas(p.a)] = m.meta[p.a]
    BY <2>2, <2>3, <2>4
  <2> QED BY <2>5, RecordsSaid
<1> HIDE DEF records
<1>4. CASE p.op = "getOwner"
  <2>1. Known(p.a) \in DOMAIN seen
    <3>1. InTurn(<<Known(p.a)>>, seen) = {}
      BY <1>4 DEF QueryReads
    <3> QED BY <3>1, AllInTurn
  <2>2. \E m \in M : seen[Known(p.a)] = Held(m, Known(p.a))
    BY <2>1 DEF Honest, Known
  <2>3. said = Just(Known(p.a), seen[Known(p.a)])
    BY <1>4 DEF Answer
  <2>4. SaidAt(M, said)
    BY <2>2, <2>3 DEF SaidAt, SaidOf, Just
  <2> QED BY <2>4, SaidSo
<1>5. CASE p.op = "getState"
  <2>p. PICK part : part = Pairing(AccountsOf(p.a), seen[BatchOf(AccountsOf(p.a))])
    OBVIOUS
  <2>0. /\ AtOnce({BatchOf(AccountsOf(p.a))} \union Described(p, Recs(p.a), Metas(p.a)), seen) = {}
        /\ said = With(part, records)
    BY <1>5, <2>p DEF QueryReads, Answer, records
  <2>1. BatchOf(AccountsOf(p.a)) \in DOMAIN seen
    BY <2>0, AllAtOnce
  <2>2. AtOnce(Described(p, Recs(p.a), Metas(p.a)), seen) = {}
    BY <2>0 DEF AtOnce
  <2>3. SaidAt(M, part)
    BY <1>1, <1>2, <2>1, <2>p, BatchSaid
  <2>4. \A key \in DOMAIN records :
          SaidOf(M, records, {key}) /\ key[1] \in {"recs", "metas"}
    BY <1>r, <2>2
  <2> QED BY <2>0, <2>3, <2>4, SaidWith
<1>6. CASE p.op = "getStates"
  <2>1. /\ InTurn(StateChunks(p), seen) = {} /\ AllRecs \in DOMAIN seen
        /\ p.describe => AllMetas \in DOMAIN seen
    <3>1. Then(InTurn(StateChunks(p), seen), AtOnce(Described(p, AllRecs, AllMetas), seen)) = {}
      BY <1>6 DEF QueryReads
    <3>2. /\ InTurn(StateChunks(p), seen) = {}
          /\ AtOnce(Described(p, AllRecs, AllMetas), seen) = {}
      BY <3>1, BothRead
    <3> QED BY <3>2, AllAtOnce DEF Described
  <2>2. said \in States(p, seen)
    BY <1>6 DEF Answer
  <2>3. PICK i \in DOMAIN p.as :
          said = With(StateOf(p, seen, i), RecordsOf(p, p.as[i], seen[AllRecs][p.as[i]],
                                                     seen[AllMetas][p.as[i]]))
    BY <2>2 DEF States
  <2>a. PICK a : a = p.as[i]
    OBVIOUS
  <2>o. PICK part, rest : /\ part = StateOf(p, seen, i)
                          /\ rest = RecordsOf(p, a, seen[AllRecs][a], seen[AllMetas][a])
    OBVIOUS
  <2>4. SaidAt(M, part)
    BY <2>1, <2>o, QueryAsked, StatesSaid
  <2>5. /\ \E m \in M : seen[AllRecs] = m.recs
        /\ p.describe => \E m \in M : seen[AllMetas] = m.meta
    BY <2>1 DEF Honest, AllRecs, AllMetas
  <2>6. /\ \E m \in M : seen[AllRecs][a] = m.recs[a]
        /\ p.describe => \E m \in M : seen[AllMetas][a] = m.meta[a]
    BY <2>5
  <2>r. PICK R, D : R = seen[AllRecs][a] /\ D = seen[AllMetas][a]
    OBVIOUS
  <2>c. rest = RecordsOf(p, a, R, D)
    BY <2>o, <2>r
  <2>d. (\E m \in M : R = m.recs[a]) /\ (p.describe => \E m \in M : D = m.meta[a])
    BY <2>6, <2>r
  <2>7. \A key \in DOMAIN rest : SaidOf(M, rest, {key}) /\ key[1] \in {"recs", "metas"}
    BY <2>c, <2>d, RecordsSaid
  <2>8. said = With(part, rest)
    BY <2>3, <2>a, <2>o
  <2> QED BY <2>4, <2>7, <2>8, SaidWith
<1>7. CASE p.op = "getSummaries"
  <2>1. InTurn(SummaryChunks(p), seen) = {}
    BY <1>7 DEF QueryReads
  <2>2. PICK i \in DOMAIN p.as : said = SummaryOf(p, seen, i)
    BY <1>7 DEF Answer, Summaries
  <2> QED BY <1>7, <2>1, <2>2, QueryAsked, SummariesSaid
<1>8. CASE p.op = "getRecord"
  <2>k. PICK keys : keys = <<Rec(p.a, p.un), Meta(p.a, p.un)>>
    OBVIOUS
  <2>1. BatchOf(keys) \in DOMAIN seen
    <3>1. InTurn(<<RecordBatch(p.a, p.un)>>, seen) = {}
      BY <1>8 DEF QueryReads
    <3>2. RecordBatch(p.a, p.un) \in DOMAIN seen
      BY <3>1, AllInTurn
    <3> QED BY <3>2, <2>k DEF RecordBatch
  <2>2. said = Pairing(keys, seen[BatchOf(keys)])
    BY <1>8, <2>k DEF Answer, RecordBatch
  <2>3. keys \in Seq(K)
    BY <1>3, <2>k
  <2> QED BY <1>1, <2>1, <2>2, <2>3, BatchSaid, SaidSo
<1>9. CASE p.op = "getRecords"
  <2>1. AtOnce(Described(p, Recs(p.a), Metas(p.a)), seen) = {} /\ said = records
    BY <1>9 DEF QueryReads, Answer, records
  <2>2. /\ Recs(p.a) \in DOMAIN said
        /\ \A key \in DOMAIN said : SaidOf(M, said, {key}) /\ key[1] \in {"recs", "metas"}
    BY <1>r, <2>1
  <2>3. PICK m \in M : said[Recs(p.a)] = Held(m, Recs(p.a))
    BY <2>2 DEF SaidOf
  <2> QED BY <2>2, <2>3, SaidApart
<1>10. CASE p.op = "resolveArNSName"
  <2>a. PICK a : a = seen[Arns(p.n)]
    OBVIOUS
  <2>k. PICK keys : keys = <<Rec(a, p.un), Meta(a, p.un)>>
    OBVIOUS
  <2>1. BatchOf(keys) \in DOMAIN seen
    <3>1. Then(InTurn(<<Arns(p.n)>>, seen),
               IF a = Nobody THEN {} ELSE InTurn(<<RecordBatch(a, p.un)>>, seen)) = {}
      BY <1>10, <2>a DEF QueryReads
    <3>2. a # Nobody
      BY <1>10, <2>a DEF QueryRefuses
    <3>3. InTurn(<<RecordBatch(a, p.un)>>, seen) = {}
      BY <3>1, <3>2, BothRead
    <3>4. RecordBatch(a, p.un) \in DOMAIN seen
      BY <3>3, AllInTurn
    <3> QED BY <3>4, <2>k DEF RecordBatch
  <2>2. said = Pairing(keys, seen[BatchOf(keys)])
    BY <1>10, <2>a, <2>k DEF Answer, RecordBatch
  <2>3. keys \in Seq(K)
    BY <1>3, <2>a, <2>k
  <2> QED BY <1>1, <2>1, <2>2, <2>3, BatchSaid, SaidSo
<1> QED BY <1>4, <1>5, <1>6, <1>7, <1>8, <1>9, <1>10 DEF QueryOps

\* A query under way has read what was there at its moments, the last of them
\* now; one that has ended answers what was so at one of them.
QueryOK(k, now) ==
    k.p.op \in QueryOps =>
      /\ k.pc # "flight" /\ (k.pc # "idle" => k.p.stage = 1)
      /\ k.pc = "read" => Honest(k.seen, k.moments) /\ (k.seen # <<>> => now \in k.moments)
      /\ k.pc = "ok" => \A said \in Answer(k.p, k.seen) : SaidWell(k.p.op, k.moments, said)
QueriesOK == \A c \in Calls : QueryOK(call[c], Moment(w))

\* A query that has read nothing.
LEMMA NothingHonest ==
  ASSUME NEW M
  PROVE  Honest(<<>>, M)
<1>1. DOMAIN <<>> = {}
  OBVIOUS
<1> QED BY <1>1 DEF Honest

\* A query is none of the other calls.
LEMMA QueryKinds ==
  ASSUME NEW op \in QueryOps
  PROVE  op \notin AntOps \union EscrowOps \union NameOps \union {"walk", "spawnBuy", "none"}
BY DEF QueryOps, AntOps, EscrowOps, NameOps, Claims, AntClaims, TokenClaims, VaultClaims

\* A change of the accounts adds a moment to the queries it crosses.
LEMMA QueryCrossed ==
  ASSUME NEW k, Shape(k), QueryOK(k, Moment(w))
  PROVE  QueryOK(Disturbed(k), Moment(w'))
<1>m. PICK now : now = Moment(w')
  OBVIOUS
<1>1. CASE (w' # w \/ g' # g) /\ Underway(k)
  <2> DEFINE more == IF k.p.op \in QueryOps THEN k.moments \union {now} ELSE k.moments
             r == [k EXCEPT !.disturbed = TRUE, !.moments = more]
  <2>1. Disturbed(k) = r
    BY <1>1, <1>m DEF Disturbed
  <2>2. r.pc = k.pc /\ r.p = k.p /\ r.seen = k.seen /\ r.moments = more
    BY DEF Shape
  <2>3. k.p.op \in QueryOps => now \in more /\ k.moments \subseteq more
    OBVIOUS
  <2> HIDE DEF r, more
  <2>4. CASE k.p.op \in QueryOps
    <3>1. k.pc = "read" => Honest(k.seen, more)
      <4> SUFFICES ASSUME k.pc = "read" PROVE Honest(k.seen, more)
        OBVIOUS
      <4>1. Honest(k.seen, k.moments)
        BY <2>4 DEF QueryOK
      <4> QED BY <2>3, <2>4, <4>1 DEF Honest, ShownAt
    <3>2. k.pc # "ok"
      BY <1>1 DEF Underway
    <3> QED BY <1>m, <2>1, <2>2, <2>3, <2>4, <3>1, <3>2 DEF QueryOK
  <2>5. CASE k.p.op \notin QueryOps
    BY <2>1, <2>2, <2>5 DEF QueryOK
  <2> QED BY <2>4, <2>5
<1>2. CASE ~((w' # w \/ g' # g) /\ Underway(k))
  <2>1. Disturbed(k) = k
    BY <1>2 DEF Disturbed
  <2>2. CASE w' = w /\ g' = g
    BY <2>1, <2>2
  <2>3. CASE ~Underway(k)
    <3>1. k.pc = "read" => k.seen = <<>>
      BY <2>3 DEF Underway
    <3> QED BY <2>1, <3>1 DEF QueryOK
  <2> QED BY <1>2, <2>2, <2>3
<1> QED BY <1>1, <1>2

\* One call takes a step.
LEMMA QuerySteps ==
  ASSUME IInv, QueriesOK, NEW c \in Calls, NEW k, QueryOK(k, Moment(w)),
         call' = [call EXCEPT ![c] = k], w' = w
  PROVE  QueriesOK'
BY DEF QueriesOK, IInv, CallsOK

\* A call is made.
LEMMA QueryBegins == ASSUME IInv, QueriesOK, NEW c \in Calls, Submit(c) PROVE QueriesOK'
<1>1. PICK q \in scene.asks : \E s :
         call' = [call EXCEPT ![c] =
                    [@ EXCEPT !.pc = "read",
                              !.p = With(q, [stage |-> 1, sig |-> s, start |-> 0, got |-> <<>>])]]
  BY DEF Submit
<1>s. PICK s :
         call' = [call EXCEPT ![c] =
                    [@ EXCEPT !.pc = "read",
                              !.p = With(q, [stage |-> 1, sig |-> s, start |-> 0, got |-> <<>>])]]
  BY <1>1
<1> DEFINE p == With(q, [stage |-> 1, sig |-> s, start |-> 0, got |-> <<>>])
           k == [call[c] EXCEPT !.pc = "read", !.p = p]
<1>2. p.stage = 1
  <2>1. q \in Asks
    BY DEF IInv, AccountsOK
  <2> QED BY <2>1, AskedFirst
<1> HIDE DEF p
<1>3. call' = [call EXCEPT ![c] = k]
  BY <1>s DEF p
<1>4. k.pc = "read" /\ k.p = p /\ k.seen = <<>>
  <2>1. call[c].pc = "idle" /\ CallOK(call[c], g.slots, sigs)
    BY DEF Submit, IInv, CallsOK
  <2> QED BY <2>1 DEF CallOK, Shape, SendsWell
<1> HIDE DEF k
<1>5. QueryOK(k, Moment(w))
  BY <1>2, <1>4, NothingHonest DEF QueryOK
<1>6. w' = w
  BY DEF Submit
<1> QED BY <1>3, <1>5, <1>6, QuerySteps

\* A call reads.
LEMMA QueryReadsMore == ASSUME IInv, QueriesOK, NEW c \in Calls, Read(c) PROVE QueriesOK'
<1>k. PICK k : k = call[c]
  OBVIOUS
<1>n. PICK now : now = Moment(w)
  OBVIOUS
<1>1. PICK key : call' = [call EXCEPT ![c] = Looked(k, key)]
  BY <1>k DEF Read
<1>2. k.pc = "read" /\ Shape(k) /\ QueryOK(k, now) /\ w' = w
  BY <1>k, <1>n DEF IInv, CallsOK, CallOK, Read, QueriesOK
<1> DEFINE more == IF k.p.op \in QueryOps /\ k.seen = <<>> THEN {now} ELSE k.moments
           seen == With(k.seen, Just(key, ValueOf(w, g, key)))
           r == [k EXCEPT !.seen = seen, !.moments = more]
<1>3. Looked(k, key) = r
  BY <1>n DEF Looked, Value
<1>4. r.pc = k.pc /\ r.p = k.p /\ r.seen = seen /\ r.moments = more
  BY <1>2 DEF Shape
<1>5. ASSUME k.p.op \in QueryOps PROVE Honest(seen, more) /\ now \in more
  <2>1. CASE k.seen = <<>>
    <3>1. Honest(k.seen, {}) /\ {} \subseteq more /\ now \in more
      BY <1>5, <2>1, NothingHonest
    <3> HIDE DEF more
    <3> QED BY <1>n, <3>1, HonestMore
  <2>2. CASE k.seen # <<>>
    <3>1. Honest(k.seen, k.moments) /\ more = k.moments /\ now \in more
      BY <1>2, <1>5, <2>2 DEF QueryOK
    <3> HIDE DEF more
    <3> QED BY <1>n, <3>1, HonestMore
  <2> QED BY <2>1, <2>2
<1> HIDE DEF r, more, seen
<1>6. QueryOK(r, now)
  BY <1>2, <1>4, <1>5 DEF QueryOK
<1> QED BY <1>1, <1>2, <1>3, <1>6, <1>n, QuerySteps

\* A call has read what it needs: a query answers.
LEMMA QueryEnds == ASSUME IInv, QueriesOK, NEW c \in Calls, Build(c) PROVE QueriesOK'
<1>k. PICK k : k = call[c]
  OBVIOUS
<1>n. PICK now : now = Moment(w)
  OBVIOUS
<1> DEFINE r == IF k.p.op = "walk" THEN Turned(k)
                ELSE IF Refuses(k.p, k.seen) THEN Ended(k, "threw")
                ELSE IF IsRead(k.p) \/ Tx(k.p, k.seen) = <<>> THEN Ended(k, "ok")
                ELSE [k EXCEPT !.pc = "flight", !.tx = Tx(k.p, k.seen), !.seen = <<>>]
<1>1. k.pc = "read" /\ Wanted(k.p, k.seen) = {} /\ call' = [call EXCEPT ![c] = r] /\ w' = w
  BY <1>k DEF Build
<1>2. CallOK(k, g.slots, sigs) /\ Shape(k) /\ Asked(k.p) /\ QueryOK(k, now)
  BY <1>1, <1>k, <1>n DEF IInv, CallsOK, CallOK, AsksWell, QueriesOK
<1>3. QueryOK(r, now)
  <2>1. CASE k.p.op \notin QueryOps
    <3>1. CASE k.p.op = "walk"
      <4>1. r = Turned(k) /\ Turned(k).p.op = "walk"
        BY <1>1, <1>2, <3>1, TurnedOK
      <4> QED BY <3>1, <2>1, <4>1 DEF QueryOK
    <3>2. CASE k.p.op # "walk"
      <4>e. \A how \in {"ok", "threw"} : Ended(k, how).p.op = k.p.op
        BY <1>1, <1>2, EndedOK
      <4>f. PICK s : s = [k EXCEPT !.pc = "flight", !.tx = Tx(k.p, k.seen), !.seen = <<>>]
        OBVIOUS
      <4>1. s.p = k.p
        BY <1>2, <4>f DEF Shape
      <4>2. r \in {Ended(k, "ok"), Ended(k, "threw"), s}
        BY <3>2, <4>f
      <4>3. r.p.op = k.p.op
        BY <4>e, <4>1, <4>2
      <4> QED BY <2>1, <4>3 DEF QueryOK
    <3> QED BY <3>1, <3>2
  <2>2. CASE k.p.op \in QueryOps
    <3>1. k.p.op \notin AntOps \union EscrowOps \union NameOps \union {"walk", "spawnBuy", "none"}
      BY <2>2, QueryKinds
    <3>2. QueryReads(k.p, k.seen) = {} /\ (Refuses(k.p, k.seen) = QueryRefuses(k.p, k.seen))
          /\ IsRead(k.p)
      BY <1>1, <2>2, <3>1 DEF Wanted, Refuses, IsRead
    <3>3. k.p.stage = 1 /\ Honest(k.seen, k.moments)
      BY <1>1, <1>2, <2>2 DEF QueryOK
    <3>4. ASSUME NEW how \in {"ok", "threw"}
          PROVE  /\ Ended(k, how).pc = how /\ Ended(k, how).p = k.p
                 /\ Ended(k, how).seen = k.seen /\ Ended(k, how).moments = k.moments
      <4>1. Ended(k, how) = [k EXCEPT !.pc = how, !.tx = <<>>, !.seen = k.seen]
        BY <2>2, <3>1, <3>3 DEF Ended
      <4> QED BY <1>2, <4>1 DEF Shape
    <3>5. CASE Refuses(k.p, k.seen)
      <4>1. r = Ended(k, "threw")
        BY <3>1, <3>5
      <4> HIDE DEF r
      <4> QED BY <3>3, <3>4, <4>1 DEF QueryOK
    <3>6. CASE ~Refuses(k.p, k.seen)
      <4>1. r = Ended(k, "ok")
        BY <3>1, <3>2, <3>6
      <4>2. \A said \in Answer(k.p, k.seen) : SaidWell(k.p.op, k.moments, said)
        BY <1>2, <2>2, <3>2, <3>3, <3>6, AnswerSaid
      <4> HIDE DEF r
      <4> QED BY <3>3, <3>4, <4>1, <4>2 DEF QueryOK
    <3> QED BY <3>5, <3>6
  <2> QED BY <2>1, <2>2
<1> HIDE DEF r
<1> QED BY <1>1, <1>3, <1>n, QuerySteps

\* A transaction that leaves the air is none of a query's, and crosses others.
LEMMA QueriesLanded ==
  ASSUME IInv, QueriesOK, NEW c \in Calls, call[c].pc = "flight",
         NEW k, CallOK(k, g.slots, sigs), k.pc = "flight", k.p = call[c].p,
         NEW how \in {"ok", "rejected", "failed"},
         \/ Changed(c, Ended(k, how))
         \/ call' = [call EXCEPT ![c] = Ended(k, how)] /\ w' = w
  PROVE  QueriesOK'
<1>r. PICK r : r = Ended(k, how)
  OBVIOUS
<1>1. r.p.op = k.p.op
  BY <1>r, EndedOK
<1>2. k.p.op \notin QueryOps
  BY DEF QueriesOK, QueryOK
<1>3. \A now : QueryOK(r, now)
  BY <1>1, <1>2 DEF QueryOK
<1>4. CASE call' = [call EXCEPT ![c] = r] /\ w' = w
  BY <1>3, <1>4, QuerySteps
<1>5. CASE Changed(c, r)
  <2> SUFFICES ASSUME NEW d \in Calls PROVE QueryOK(call'[d], Moment(w'))
    BY DEF QueriesOK
  <2>1. CASE d = c
    <3>1. call'[d] = r
      BY <1>5, <2>1 DEF Changed
    <3> QED BY <1>3, <3>1
  <2>2. CASE d # c
    <3>1. call'[d] = Disturbed(call[d])
      BY <1>5, <2>2 DEF Changed
    <3>e. PICK e : e = call[d]
      OBVIOUS
    <3>2. Shape(e) /\ QueryOK(e, Moment(w))
      BY <3>e DEF IInv, CallsOK, CallOK, QueriesOK
    <3>3. QueryOK(Disturbed(e), Moment(w'))
      BY <3>2, QueryCrossed
    <3> QED BY <3>1, <3>3, <3>e
  <2> QED BY <2>1, <2>2
<1> QED BY <1>4, <1>5, <1>r

\* Every step keeps what the queries have read honest.
LEMMA QueriesNext == IInv /\ QueriesOK /\ [Next]_vars => QueriesOK'
<1> SUFFICES ASSUME IInv, QueriesOK, [Next]_vars PROVE QueriesOK'
  OBVIOUS
<1>1. CASE Others
  <2> SUFFICES ASSUME NEW d \in Calls PROVE QueryOK(call'[d], Moment(w'))
    BY DEF QueriesOK
  <2>e. PICK e : e = call[d]
    OBVIOUS
  <2>1. call'[d] = Disturbed(e)
    BY <1>1, <2>e DEF Others
  <2>2. Shape(e) /\ QueryOK(e, Moment(w))
    BY <2>e DEF IInv, CallsOK, CallOK, QueriesOK
  <2>3. QueryOK(Disturbed(e), Moment(w'))
    BY <2>2, QueryCrossed
  <2> QED BY <2>1, <2>3
<1>2. ASSUME NEW b \in DOMAIN w.box, NEW u \in Users, Sign(b, u) PROVE QueriesOK'
  BY <1>2 DEF Sign, QueriesOK
<1>3. ASSUME NEW c \in Calls, Submit(c) PROVE QueriesOK'
  BY <1>3, QueryBegins
<1>4. ASSUME NEW c \in Calls, Read(c) PROVE QueriesOK'
  BY <1>4, QueryReadsMore
<1>5. ASSUME NEW c \in Calls, Build(c) PROVE QueriesOK'
  BY <1>5, QueryEnds
<1>6. ASSUME NEW c \in Calls, Land(c) \/ Reject(c) PROVE QueriesOK'
  <2>k. PICK k : k = call[c]
    OBVIOUS
  <2>1. k.pc = "flight" /\ CallOK(k, g.slots, sigs)
    BY <1>6, <2>k DEF Land, Reject, IInv, CallsOK
  <2>2. \E how \in {"ok", "rejected"} :
          \/ Changed(c, Ended(k, how))
          \/ call' = [call EXCEPT ![c] = Ended(k, how)] /\ w' = w
    BY <1>6, <2>k DEF Land, Reject
  <2> QED BY <2>1, <2>2, <2>k, QueriesLanded
<1>7. ASSUME NEW c \in Calls, Lose(c) PROVE QueriesOK'
  <2>k. PICK k : k = [call[c] EXCEPT !.disturbed = TRUE]
    OBVIOUS
  <2>1. call[c].pc = "flight" /\ CallOK(call[c], g.slots, sigs)
    BY <1>7 DEF Lose, IInv, CallsOK
  <2>2. k.pc = "flight" /\ CallOK(k, g.slots, sigs) /\ k.p = call[c].p
    BY <2>1, <2>k, LostOK
  <2>3. \/ Changed(c, Ended(k, "failed"))
        \/ call' = [call EXCEPT ![c] = Ended(k, "failed")] /\ w' = w
    BY <1>7, <2>k DEF Lose
  <2> QED BY <2>1, <2>2, <2>3, QueriesLanded
<1>8. CASE UNCHANGED vars
  BY <1>8 DEF vars, QueriesOK
<1> QED BY <1>1, <1>2, <1>3, <1>4, <1>5, <1>6, <1>7, <1>8 DEF Next

\* StatesOfOneMoment: whatever changed meanwhile, what the reads of ANTs return
\* was so while they ran, account by account; the owner and the controllers that
\* getState and getANTStates return were so at one moment, however many requests
\* it took, and so were the record and the description that getRecord and
\* resolveArNSName return (ant-readable.ts:697, 407).  Nothing more is said of
\* summaries, and of what scans return.
THEOREM AnswersAreOfOneMoment == Spec => []StatesOfOneMoment
<1>1. Init => QueriesOK
  <2> SUFFICES ASSUME Init, NEW c \in Calls PROVE QueryOK(call[c], Moment(w))
    BY DEF QueriesOK
  <2>1. call[c] = Idle
    BY DEF Init
  <2>2. Idle.p.op = "none" /\ "none" \notin QueryOps
    BY QueryKinds DEF Idle
  <2> QED BY <2>1, <2>2 DEF QueryOK
<1>2. QueriesOK => StatesOfOneMoment
  BY DEF QueriesOK, QueryOK, StatesOfOneMoment
<1> QED BY <1>1, <1>2, InvInit, InvNext, QueriesNext, PTL DEF Spec

----------------------------------------------------------------------------
(* A transaction is its parts, one after the other.                        *)
Leads(tx, from, to) == \E st : Path(st, tx, from, to)

\* A transaction of two parts leads over a state in between.
LEMMA LeadsSplit ==
  ASSUME NEW S, NEW s \in Seq(S), NEW T, NEW t \in Seq(T), NEW from, NEW to, Leads(s \o t, from, to)
  PROVE  \E mid : Leads(s, from, mid) /\ Leads(t, mid, to)
<1>1. PICK st : Path(st, s \o t, from, to)
  BY DEF Leads
<1>n. PICK m, n : m = Len(s) /\ n = Len(t) /\ m \in Nat /\ n \in Nat
  OBVIOUS
<1>2. /\ Len(s \o t) = m + n
      /\ \A i \in 1..m : (s \o t)[i] = s[i]
      /\ \A i \in 1..n : (s \o t)[m + i] = t[i]
  BY <1>n
<1>3. /\ st \in [0..(m + n) -> Accounts] /\ st[0] = from /\ st[m + n] = to
      /\ \A i \in 1..(m + n) : st[i] \in After(st[i - 1], (s \o t)[i])
  BY <1>1, <1>2 DEF Path
<1>a. PICK one : one = [i \in 0..m |-> st[i]]
  OBVIOUS
<1>b. PICK two : two = [i \in 0..n |-> st[m + i]]
  OBVIOUS
<1>4. Path(one, s, from, st[m])
  <2>1. one \in [0..m -> Accounts] /\ one[0] = from /\ one[m] = st[m]
    BY <1>n, <1>3, <1>a
  <2>2. ASSUME NEW i \in 1..m PROVE one[i] \in After(one[i - 1], s[i])
    <3>1. i \in 0..m /\ i - 1 \in 0..m /\ i \in 1..(m + n)
      BY <1>n
    <3> QED BY <1>2, <1>3, <1>a, <3>1
  <2> QED BY <1>n, <2>1, <2>2 DEF Path
<1>5. Path(two, t, st[m], to)
  <2>1. two \in [0..n -> Accounts] /\ two[0] = st[m] /\ two[n] = to
    BY <1>n, <1>3, <1>b
  <2>2. ASSUME NEW i \in 1..n PROVE two[i] \in After(two[i - 1], t[i])
    <3>1. i \in 0..n /\ i - 1 \in 0..n /\ m + i \in 1..(m + n) /\ (m + i) - 1 = m + (i - 1)
      BY <1>n
    <3>2. st[m + i] \in After(st[m + (i - 1)], t[i])
      BY <1>2, <1>3, <3>1
    <3>3. two[i] = st[m + i] /\ two[i - 1] = st[m + (i - 1)]
      BY <1>b, <3>1
    <3> QED BY <3>2, <3>3
  <2> QED BY <1>n, <2>1, <2>2 DEF Path
<1> QED BY <1>4, <1>5 DEF Leads

\* One instruction leads where it leads.
LEMMA LeadsOne ==
  ASSUME NEW ix, NEW from, NEW to, Leads(<<ix>>, from, to)
  PROVE  from \in Accounts /\ to \in Accounts /\ to \in After(from, ix)
<1>1. PICK st : Path(st, <<ix>>, from, to)
  BY DEF Leads
<1>2. Len(<<ix>>) = 1 /\ <<ix>>[1] = ix /\ 1 \in 1..1 /\ 1 - 1 = 0 /\ 0 \in 0..1 /\ 1 \in 0..1
  OBVIOUS
<1>3. /\ st \in [0..1 -> Accounts] /\ st[0] = from /\ st[1] = to
      /\ st[1] \in After(st[1 - 1], <<ix>>[1])
  BY <1>1, <1>2 DEF Path
<1> QED BY <1>2, <1>3

\* Both ends of a path are accounts.
LEMMA LeadsWithin ==
  ASSUME NEW tx, (\E S : tx \in Seq(S)), NEW from, NEW to, Leads(tx, from, to)
  PROVE  from \in Accounts /\ to \in Accounts
<1>1. PICK st : Path(st, tx, from, to)
  BY DEF Leads
<1>2. Len(tx) \in Nat /\ 0 \in 0..Len(tx) /\ Len(tx) \in 0..Len(tx)
  OBVIOUS
<1> QED BY <1>1, <1>2 DEF Path

----------------------------------------------------------------------------
(* A transaction of changes to the lists.                                  *)
Puts(tx, u, e)  == UNION {Recorded(ix, u, e) : ix \in ToSet(tx)}
Takes(tx, u, e) == UNION {Removed(ix, u, e) : ix \in ToSet(tx)}
PutsTo(tx, k, u, e)  == UNION {Recorded(tx[j], u, e) : j \in 1..k}
TakesTo(tx, k, u, e) == UNION {Removed(tx[j], u, e) : j \in 1..k}

Relisted(x, y, tx) ==
    /\ y.owner = x.owner /\ y.known = x.known /\ y.ctrl = x.ctrl
    /\ \A u \in Users : \A e :
         /\ Takes(tx, u, e) = {} => Spots(y, u, e) = Spots(x, u, e) \union Puts(tx, u, e)
         /\ Puts(tx, u, e) = {} => Spots(y, u, e) = Spots(x, u, e) \ Takes(tx, u, e)
    /\ \A ix \in ToSet(tx) : ix.op = "record" => HasRole(x, ix.user, ix.entry)

\* What a transaction puts and takes, instruction by instruction.
LEMMA PutsMore ==
  ASSUME NEW tx, NEW k \in Nat, NEW u, NEW e
  PROVE  /\ PutsTo(tx, k + 1, u, e) = PutsTo(tx, k, u, e) \union Recorded(tx[k + 1], u, e)
         /\ TakesTo(tx, k + 1, u, e) = TakesTo(tx, k, u, e) \union Removed(tx[k + 1], u, e)
         /\ PutsTo(tx, 0, u, e) = {} /\ TakesTo(tx, 0, u, e) = {}
<1>1. 1..(k + 1) = (1..k) \union {k + 1} /\ 1..0 = {}
  OBVIOUS
<1>2. PutsTo(tx, k + 1, u, e) = PutsTo(tx, k, u, e) \union Recorded(tx[k + 1], u, e)
  BY <1>1 DEF PutsTo
<1>3. TakesTo(tx, k + 1, u, e) = TakesTo(tx, k, u, e) \union Removed(tx[k + 1], u, e)
  BY <1>1 DEF TakesTo
<1>4. PutsTo(tx, 0, u, e) = {} /\ TakesTo(tx, 0, u, e) = {}
  BY <1>1 DEF PutsTo, TakesTo
<1> QED BY <1>2, <1>3, <1>4

RelistedTo(x, y, tx, k) ==
    /\ y.owner = x.owner /\ y.known = x.known /\ y.ctrl = x.ctrl
    /\ \A u \in Users : \A e :
         /\ Takes(tx, u, e) = {} => Spots(y, u, e) = Spots(x, u, e) \union PutsTo(tx, k, u, e)
         /\ Puts(tx, u, e) = {} => Spots(y, u, e) = Spots(x, u, e) \ TakesTo(tx, k, u, e)
    /\ \A j \in 1..k : tx[j].op = "record" => HasRole(x, tx[j].user, tx[j].entry)

\* A transaction on the lists adds to an entry's places what it puts there, or
\* takes what it takes, if it does only one of both.
LEMMA AclPath ==
  ASSUME NEW ants, NEW tx, TxOK(tx, ants), \A ix \in ToSet(tx) : ix.op \in AclIxs,
         NEW from, NEW to, Leads(tx, from, to)
  PROVE  Relisted(from.w, to.w, tx)
<1>p. PICK st : Path(st, tx, from, to)
  BY DEF Leads
<1>n. PICK n : n = Len(tx) /\ n \in Nat /\ DOMAIN tx = 1..n
  <2>1. PICK S : tx \in Seq(S)
    BY DEF TxOK
  <2> QED BY <2>1
<1>2. /\ st \in [0..n -> Accounts] /\ st[0] = from /\ st[n] = to
      /\ \A i \in 1..n : st[i] \in After(st[i - 1], tx[i])
  BY <1>p, <1>n DEF Path
<1>3. \A i \in 0..n : st[i] \in Accounts /\ st[i].w \in Ledgers
  BY <1>2 DEF Accounts
<1> DEFINE T == {k \in 0..n : RelistedTo(from.w, st[k].w, tx, k)}
<1>4. 0 \in T
  <2>0. 0 \in Nat /\ 1..0 = {}
    OBVIOUS
  <2>e. \A u, e : PutsTo(tx, 0, u, e) = {} /\ TakesTo(tx, 0, u, e) = {}
    BY <2>0, PutsMore
  <2>1. RelistedTo(from.w, from.w, tx, 0)
    BY <2>0, <2>e DEF RelistedTo
  <2> QED BY <1>n, <1>2, <2>1
<1>5. ASSUME NEW k \in 0..(n - 1), k \in T PROVE k + 1 \in T
  <2>0. k \in 0..n /\ k + 1 \in 1..n /\ (k + 1) - 1 = k /\ k + 1 \in 0..n /\ k \in Nat
    BY <1>n
  <2>i. PICK ix, x, y : ix = tx[k + 1] /\ x = st[k].w /\ y = st[k + 1].w
    OBVIOUS
  <2>1. st[k + 1] \in After(st[k], ix) /\ IxOK(ix, ants) /\ ix.op \in AclIxs /\ ix \in ToSet(tx)
    BY <1>n, <1>2, <2>0, <2>i DEF TxOK, ToSet
  <2>2. ix.op \notin GarIxs /\ ix.op \in AssetIxs
    BY <2>1 DEF AssetIxs, AclIxs, GarIxs, RegistryIxs, DelegationIxs, SettingsIxs
  <2>3. AssetOK(ix, ants)
    BY <2>1, <2>2 DEF IxOK
  <2>4. y \in OnAcl(x, ix)
    <3>1. y \in OnAsset(x, ix)
      BY <1>3, <2>0, <2>i, <2>1, <2>2, AfterTyped
    <3> QED BY <2>1, <3>1 DEF OnAsset
  <2>5. x \in Ledgers /\ RelistedTo(from.w, x, tx, k)
    BY <1>3, <1>5, <2>0, <2>i
  <2>6. /\ y.owner = x.owner /\ y.known = x.known /\ y.ctrl = x.ctrl
        /\ \A u \in Users : \A e :
             Spots(y, u, e) = (Spots(x, u, e) \union Recorded(ix, u, e)) \ Removed(ix, u, e)
        /\ ix.op = "record" => HasRole(x, ix.user, ix.entry)
    BY <2>1, <2>3, <2>4, <2>5, AclEffect
  <2>7. ASSUME NEW u \in Users, NEW e
        PROVE  /\ Takes(tx, u, e) = {} =>
                    Spots(y, u, e) = Spots(from.w, u, e) \union PutsTo(tx, k + 1, u, e)
               /\ Puts(tx, u, e) = {} =>
                    Spots(y, u, e) = Spots(from.w, u, e) \ TakesTo(tx, k + 1, u, e)
    <3>1. Recorded(ix, u, e) \subseteq Puts(tx, u, e) /\ Removed(ix, u, e) \subseteq Takes(tx, u, e)
      BY <2>1 DEF Puts, Takes
    <3>2. /\ PutsTo(tx, k + 1, u, e) = PutsTo(tx, k, u, e) \union Recorded(ix, u, e)
          /\ TakesTo(tx, k + 1, u, e) = TakesTo(tx, k, u, e) \union Removed(ix, u, e)
      BY <2>0, <2>i, PutsMore
    <3>3. /\ Takes(tx, u, e) = {} =>
                Spots(x, u, e) = Spots(from.w, u, e) \union PutsTo(tx, k, u, e)
          /\ Puts(tx, u, e) = {} =>
                Spots(x, u, e) = Spots(from.w, u, e) \ TakesTo(tx, k, u, e)
      BY <2>5 DEF RelistedTo
    <3>4. Spots(y, u, e) = (Spots(x, u, e) \union Recorded(ix, u, e)) \ Removed(ix, u, e)
      BY <2>6
    <3> QED BY <3>1, <3>2, <3>3, <3>4
  <2>8. x.owner = from.w.owner /\ x.known = from.w.known /\ x.ctrl = from.w.ctrl
    BY <2>5 DEF RelistedTo
  <2>9. ASSUME NEW j \in 1..(k + 1), tx[j].op = "record"
        PROVE  HasRole(from.w, tx[j].user, tx[j].entry)
    <3>1. CASE j = k + 1
      BY <2>i, <2>6, <2>8, <2>9, <3>1 DEF HasRole
    <3>2. CASE j # k + 1
      <4>1. j \in 1..k
        BY <2>0, <3>2
      <4> QED BY <2>5, <2>9, <4>1 DEF RelistedTo
    <3> QED BY <3>1, <3>2
  <2>10. RelistedTo(from.w, y, tx, k + 1)
    BY <2>6, <2>7, <2>8, <2>9 DEF RelistedTo
  <2> QED BY <2>0, <2>i, <2>10
<1>6. \A i \in 0..n : i \in T
  <2> HIDE DEF T
  <2> QED BY <1>n, <1>4, <1>5, UpToByInduction
<1>7. RelistedTo(from.w, to.w, tx, n)
  BY <1>n, <1>2, <1>6
<1>8. \A u, e : PutsTo(tx, n, u, e) = Puts(tx, u, e) /\ TakesTo(tx, n, u, e) = Takes(tx, u, e)
  BY <1>n DEF PutsTo, TakesTo, Puts, Takes, ToSet
<1>9. \A ix \in ToSet(tx) : \E j \in 1..n : ix = tx[j]
  BY <1>n DEF ToSet
<1> QED BY <1>7, <1>8, <1>9 DEF RelistedTo, Relisted

----------------------------------------------------------------------------
(* A new ANT: the owner gets his two entries, and his name stands in none  *)
(* of the pages before.                                                    *)
ExactNow(x, a, by) == x.owner[a] = by /\ x.known[a] = by /\ Exact(x, a)

\* The entries of a new owner, as a transaction.
LEMMA BootstrapPuts ==
  ASSUME NEW tx, NEW u, NEW a, NEW i, NEW j, Bootstraps(tx, u, a, i, j)
  PROVE  /\ \A v, e : Takes(tx, v, e) = {}
         /\ Puts(tx, u, Entry(a, "owner")) = {i} /\ Puts(tx, u, Entry(a, "controller")) = {j}
         /\ \A v, e : v # u => Puts(tx, v, e) = {}
         /\ \A ix \in ToSet(tx) : ix.op \in AclIxs
         /\ \E ix \in ToSet(tx) : ix.op = "record" /\ ix.user = u /\ ix.entry = Entry(a, "owner")
<1>e. PICK own, con : own = Entry(a, "owner") /\ con = Entry(a, "controller") /\ own # con
  BY EntriesApart
<1>r. PICK o, c : o = RecordIx(u, i, own) /\ c = RecordIx(u, j, con)
  OBVIOUS
<1>1. /\ o.op = "record" /\ o.user = u /\ o.entry = own /\ o.page = i
      /\ c.op = "record" /\ c.user = u /\ c.entry = con /\ c.page = j
  BY <1>r DEF RecordIx
<1>2. /\ o \in ToSet(tx) /\ c \in ToSet(tx)
      /\ \A ix \in ToSet(tx) : ix.op \in {"register", "add_page"} \/ ix = o \/ ix = c
  BY <1>e, <1>r DEF Bootstraps, IsPrep
<1>3. ASSUME NEW v, NEW e PROVE Takes(tx, v, e) = {}
  <2>1. \A ix \in ToSet(tx) : Removed(ix, v, e) = {}
    BY <1>1, <1>2 DEF Removed
  <2> QED BY <2>1 DEF Takes
<1>4. Puts(tx, u, own) = {i}
  <2>1. \A ix \in ToSet(tx) : Recorded(ix, u, own) = IF ix = o THEN {i} ELSE {}
    BY <1>e, <1>1, <1>2 DEF Recorded
  <2> QED BY <1>2, <2>1 DEF Puts
<1>5. Puts(tx, u, con) = {j}
  <2>1. \A ix \in ToSet(tx) : Recorded(ix, u, con) = IF ix = c THEN {j} ELSE {}
    BY <1>e, <1>1, <1>2 DEF Recorded
  <2> QED BY <1>2, <2>1 DEF Puts
<1>6. ASSUME NEW v, NEW e, v # u PROVE Puts(tx, v, e) = {}
  <2>1. \A ix \in ToSet(tx) : Recorded(ix, v, e) = {}
    BY <1>1, <1>2, <1>6 DEF Recorded
  <2> QED BY <2>1 DEF Puts
<1>7. \A ix \in ToSet(tx) : ix.op \in AclIxs
  BY <1>1, <1>2 DEF AclIxs
<1> QED BY <1>e, <1>1, <1>2, <1>3, <1>4, <1>5, <1>6, <1>7

\* Where the lists knew nothing of him, they are exact afterwards.
LEMMA BootstrapRights ==
  ASSUME NEW a \in Ants, NEW by \in Users, NEW acl \in Acls,
         Holding(acl, Entry(a, "owner")) = {}, Holding(acl, Entry(a, "controller")) = {},
         NEW from, NEW to, Leads(BootstrapOwner(by, a, acl), from, to),
         from.w.known[a] = by, by \in from.w.ctrl[a], Silent(from.w, a, by),
         \A u \in Users : u # by => Says(from.w, a, u, FALSE)
  PROVE  ExactNow(to.w, a, by)
<1>t. PICK tx : tx = BootstrapOwner(by, a, acl)
  OBVIOUS
<1>a. PICK ants : ants = {a} /\ a \in ants
  OBVIOUS
<1>1. PICK i, j : Bootstraps(tx, by, a, i, j)
  BY <1>t, BootstrapIs
<1>2. TxOK(tx, ants)
  BY <1>a, <1>t, BootstrapOK
<1>3. from \in Accounts /\ to \in Accounts
  BY <1>t, <1>2, LeadsWithin DEF TxOK
<1>4. Relisted(from.w, to.w, tx)
  BY <1>t, <1>1, <1>2, BootstrapPuts, AclPath
<1>x. PICK x, y : x = from.w /\ y = to.w
  OBVIOUS
<1>5. /\ y.owner = x.owner /\ y.known = x.known /\ y.ctrl = x.ctrl /\ y \in Ledgers
      /\ \A u \in Users : \A e : Spots(y, u, e) = Spots(x, u, e) \union Puts(tx, u, e)
      /\ HasRole(x, by, Entry(a, "owner"))
  <2>1. \A u, e : Takes(tx, u, e) = {}
    BY <1>1, BootstrapPuts
  <2>2. PICK ix \in ToSet(tx) : ix.op = "record" /\ ix.user = by /\ ix.entry = Entry(a, "owner")
    BY <1>1, BootstrapPuts
  <2> QED BY <1>3, <1>4, <1>x, <2>1, <2>2 DEF Relisted, Accounts
<1>6. x.owner[a] = by
  BY <1>5, EntriesApart DEF HasRole
<1>7. Says(y, a, by, TRUE)
  <2>1. Spots(y, by, Entry(a, "owner")) = {i} /\ Spots(y, by, Entry(a, "controller")) = {j}
    BY <1>x, <1>1, <1>5, BootstrapPuts DEF Silent, None
  <2> QED BY <1>x, <1>5, <2>1 DEF Says, Iff, Once
<1>8. ASSUME NEW u \in Users, u # by PROVE Says(y, a, u, FALSE)
  <2>0. \A e : Puts(tx, u, e) = {}
    BY <1>1, <1>8, BootstrapPuts
  <2>1. \A e : Spots(y, u, e) = Spots(x, u, e)
    BY <1>5, <2>0
  <2>2. Says(x, a, u, FALSE)
    BY <1>x, <1>8
  <2> QED BY <1>5, <2>1, <2>2 DEF Says, Iff, Once, None
<1>9. ASSUME NEW u \in Users PROVE Told(y, a, u, y.owner[a] = u)
  <2>1. CASE u = by
    BY <1>5, <1>6, <1>7, <2>1, ToldSays
  <2>2. CASE u # by
    <3>1. (y.owner[a] = u) = FALSE
      BY <1>5, <1>6, <2>2
    <3>2. Told(y, a, u, FALSE)
      BY <1>5, <1>8, <2>2, ToldSays
    <3> QED BY <3>1, <3>2
  <2> QED BY <2>1, <2>2
<1> QED BY <1>x, <1>5, <1>6, <1>9 DEF ExactNow, Exact

----------------------------------------------------------------------------
(* What a call read is what the accounts hold.                             *)
NowAt(x, y, seen) == \A key \in DOMAIN seen : seen[key] = ValueOf(x, y, key)

\* What was read is what is there, as long as nothing came between.
LEMMA ReadNow ==
  ASSUME NEW x, NEW y, NEW seen, NowAt(x, y, seen)
  PROVE  /\ \A u, i : Acl(u, i) \in DOMAIN seen => seen[Acl(u, i)] = AclOf(x, u)
         /\ \A a : Owner(a) \in DOMAIN seen => seen[Owner(a)] = x.owner[a]
         /\ \A a : Known(a) \in DOMAIN seen => seen[Known(a)] = x.known[a]
         /\ \A a : Ctrl(a) \in DOMAIN seen => seen[Ctrl(a)] = x.ctrl[a]
<1>1. ASSUME NEW u, NEW i PROVE ValueOf(x, y, Acl(u, i)) = AclOf(x, u)
  BY DEF ValueOf, NameValue, AntValue, Acl
<1>2. ASSUME NEW a PROVE ValueOf(x, y, Owner(a)) = x.owner[a]
  BY DEF ValueOf, NameValue, AntValue, Owner
<1>3. ASSUME NEW a PROVE ValueOf(x, y, Known(a)) = x.known[a]
  BY DEF ValueOf, NameValue, AntValue, Known
<1>4. ASSUME NEW a PROVE ValueOf(x, y, Ctrl(a)) = x.ctrl[a]
  BY DEF ValueOf, NameValue, AntValue, Ctrl
<1> QED BY <1>1, <1>2, <1>3, <1>4 DEF NowAt

\* The one account a call waits for has been read.
LEMMA OneRead ==
  ASSUME NEW key, NEW seen, InTurn(<<key>>, seen) = {}
  PROVE  key \in DOMAIN seen
<1>1. 1 \in DOMAIN <<key>> /\ <<key>>[1] = key
  OBVIOUS
<1> QED BY <1>1, AllInTurn

\* One instruction on the accounts of an asset, first in a transaction.
LEMMA FirstOn ==
  ASSUME NEW ants, NEW ix, IxOK(ix, ants), ix.op \in AssetIxs, ix.op \notin GarIxs,
         NEW from, NEW to, Leads(<<ix>>, from, to)
  PROVE  /\ from \in Accounts /\ to \in Accounts /\ from.w \in Ledgers /\ to.w \in Ledgers
         /\ to.w \in OnAsset(from.w, ix) /\ AssetOK(ix, ants)
<1>1. from \in Accounts /\ to \in Accounts /\ to \in After(from, ix)
  BY LeadsOne
<1>2. to.w \in OnAsset(from.w, ix)
  BY <1>1, AfterTyped
<1> QED BY <1>1, <1>2 DEF Accounts, IxOK

\* spawn leaves exact lists.
LEMMA SpawnRights ==
  ASSUME NEW p, Asked(p), p.op = "spawn", NEW seen, SeenOK(seen), AntReads(p, seen) = {},
         NEW from, NEW to, Leads(SpawnTx(p, seen), from, to), NowAt(from.w, from.g, seen),
         Blank(from.w, p.a)
  PROVE  ExactNow(to.w, p.a, p.by)
<1>p. PICK a, by, ants : a = p.a /\ by = p.by /\ ants = {a}
  OBVIOUS
<1>1. a \in Ants /\ by \in Users /\ a \in ants
  BY <1>p, AntAsked DEF AntOps
<1>2. Acl(by, 1) \in DOMAIN seen
  BY <1>p, OneRead DEF AntReads
<1>l. PICK acl : acl = seen[Acl(by, 1)] /\ acl \in Acls
  BY <1>2, AclSeen
<1>3. acl = from.w.acl[by]
  BY <1>1, <1>2, <1>l, ReadNow DEF AclOf
<1>c. PICK ix : ix = AntIx("create", p)
  OBVIOUS
<1>4. ix.op = "create" /\ ix.a = a /\ ix.by = by
  BY <1>c, <1>p DEF AntIx
<1>5. IxOK(ix, ants) /\ ix.op \in AssetIxs /\ ix.op \notin GarIxs /\ ix.op \in AntIxs
  <2>1. ix.op \in AntIxs /\ ix.op \in AssetIxs /\ ix.op \notin GarIxs
    BY <1>4 DEF AssetIxs, AntIxs, GarIxs, RegistryIxs, DelegationIxs, SettingsIxs
  <2>2. AssetOK(ix, ants)
    BY <1>1, <1>4 DEF AssetOK
  <2> QED BY <2>1, <2>2 DEF IxOK
<1>b. PICK rest : rest = BootstrapOwner(by, a, acl)
  OBVIOUS
<1>6. TxOK(rest, ants)
  BY <1>1, <1>l, <1>b, BootstrapOK
<1>7. PICK mid : Leads(<<ix>>, from, mid) /\ Leads(rest, mid, to)
  <2>1. SpawnTx(p, seen) = <<ix>> \o rest
    BY <1>p, <1>l, <1>c, <1>b DEF SpawnTx
  <2>2. PICK S : rest \in Seq(S)
    BY <1>6 DEF TxOK
  <2> QED BY <2>1, <2>2, SingleSet, LeadsSplit
<1>x. PICK x, m : x = from.w /\ m = mid.w
  OBVIOUS
<1>8. x \in Ledgers /\ m \in Ledgers /\ Created(x, m, a, by)
  <2>1. from.w \in Ledgers /\ mid.w \in Ledgers /\ mid.w \in OnAsset(from.w, ix)
    BY <1>5, <1>7, FirstOn
  <2>2. mid.w \in OnAnt(from.w, ix)
    BY <1>5, <1>4, <2>1 DEF OnAsset, AntIxs, AclIxs
  <2>3. Created(from.w, mid.w, ix.a, ix.by)
    BY <1>4, <2>1, <2>2, CreateEffect
  <2> QED BY <1>4, <1>x, <2>1, <2>3
<1>9. \A u \in Users : Silent(x, a, u)
  <2>1. x.owner[a] = Nobody
    BY <1>8 DEF Created
  <2>2. \A u \in Users : Untold(x, a, u)
    BY <1>p, <1>x, <2>1 DEF Blank
  <2> QED BY <1>8, <2>2, ToldSays
<1>10. /\ m.known[a] = by /\ m.owner[a] = by /\ m.ctrl[a] = {by}
       /\ \A u \in Users : Silent(m, a, u)
  <2>1. m.known[a] = by /\ m.owner[a] = by /\ m.ctrl[a] = {by}
    BY <1>1, <1>8, OwnersKnown DEF Created
  <2> QED BY <1>8, <1>9, <2>1 DEF Created, Still, Silent, None
<1>11. Holding(acl, Entry(a, "owner")) = {} /\ Holding(acl, Entry(a, "controller")) = {}
  BY <1>1, <1>3, <1>x, <1>9 DEF Silent, None, Spots
<1>12. \A u \in Users : u # by => Says(m, a, u, FALSE)
  BY <1>10 DEF Says, Iff, Silent
<1> QED BY <1>p, <1>1, <1>l, <1>b, <1>7, <1>x, <1>10, <1>11, <1>12, BootstrapRights

----------------------------------------------------------------------------
(* The entries of the former controllers are taken out, whoever has one.   *)
LEMMA CleanupTakes ==
  ASSUME NEW p, p.a \in Ants, NEW seen, SeenOK(seen), NEW i, Ctrl(p.a) \in DOMAIN seen,
         ControllersAcls(p, seen, i) = {}, NEW x \in Ledgers, NEW y, NowAt(x, y, seen),
         NEW tx, tx = Cleanup(p, seen, i)
  PROVE  /\ TxOK(tx, {p.a}) /\ \A ix \in ToSet(tx) : ix.op = "remove" /\ ix.op \in AclIxs
         /\ \A u, e : Puts(tx, u, e) = {}
         /\ \A u : Takes(tx, u, Entry(p.a, "owner")) = {}
         /\ \A u \in x.ctrl[p.a] :
              LET held == Spots(x, u, Entry(p.a, "controller"))
              IN  held # {} => Min(held) \in Takes(tx, u, Entry(p.a, "controller"))
<1>p. PICK a, con : a = p.a /\ con = Entry(a, "controller")
  OBVIOUS
<1>u. PICK us : us = seen[Ctrl(a)]
  OBVIOUS
<1>1. us \subseteq Users /\ IsFiniteSet(us) /\ us = x.ctrl[a]
  BY <1>p, <1>u, CtrlSeen, ReadNow
<1>c. PICK acls : acls = [u \in us |-> seen[Acl(u, i)]]
  OBVIOUS
<1>2. \A u \in us : Acl(u, i) \in DOMAIN seen
  <2>1. {Acl(u, i) : u \in us} \subseteq DOMAIN seen
    BY <1>p, <1>u, AllAtOnce DEF ControllersAcls
  <2> QED BY <2>1
<1>3. acls \in [us -> Acls]
  BY <1>c, <1>2, AclSeen
<1>4. \A u \in us : acls[u] = x.acl[u]
  BY <1>1, <1>2, <1>c, ReadNow DEF AclOf
<1>5. Cleans(tx, a, us, acls)
  <2>1. tx = RemoveControllers(a, SetToSeq(us), acls)
    BY <1>p, <1>u, <1>c DEF Cleanup
  <2> QED BY <1>p, <1>1, <1>3, <2>1, CleanupIs
<1>6. \A ix \in ToSet(tx) : ix.op = "remove" /\ ix.entry = con /\ ix.op \in AclIxs
  BY <1>p, <1>5 DEF Cleans, AclIxs
<1>7. TxOK(tx, {p.a})
  BY ControllersOK
<1>8. \A u, e : Puts(tx, u, e) = {}
  <2>1. \A ix \in ToSet(tx) : \A u, e : Recorded(ix, u, e) = {}
    BY <1>6 DEF Recorded
  <2> QED BY <2>1 DEF Puts
<1>9. \A u : Takes(tx, u, Entry(a, "owner")) = {}
  <2>1. \A ix \in ToSet(tx) : \A u : Removed(ix, u, Entry(a, "owner")) = {}
    BY <1>6, <1>p, EntriesApart DEF Removed
  <2> QED BY <2>1 DEF Takes
<1>10. ASSUME NEW u \in us, Spots(x, u, con) # {} PROVE Min(Spots(x, u, con)) \in Takes(tx, u, con)
  <2>r. PICK r : r = RemoveIx(u, Min(Spots(x, u, con)), con)
    OBVIOUS
  <2>1. Holding(acls[u], con) = Spots(x, u, con)
    BY <1>4 DEF Spots
  <2>2. r \in ToSet(tx)
    BY <1>5, <1>10, <1>p, <2>1, <2>r DEF Cleans
  <2>3. Removed(r, u, con) = {Min(Spots(x, u, con))}
    BY <2>r DEF Removed, RemoveIx
  <2> QED BY <2>2, <2>3 DEF Takes
<1> QED BY <1>p, <1>1, <1>6, <1>7, <1>8, <1>9, <1>10

\* The least of one.
LEMMA MinOfOne ==
  ASSUME NEW i \in Nat
  PROVE  Min({i}) = i
BY DEF Min

\* Pages are numbered.
LEMMA SpotsAreNats ==
  ASSUME NEW x \in Ledgers, NEW u \in Users, NEW e, NEW i \in Spots(x, u, e)
  PROVE  i \in Nat
<1>1. x.acl[u] \in Acls
  BY DEF Ledgers, LedgerType
<1>2. PICK n \in Nat : DOMAIN x.acl[u].pages = 1..n
  BY <1>1 DEF Acls
<1> QED BY <1>2 DEF Spots, Holding

\* An entry that is there once is at its first place.
LEMMA OnceMin ==
  ASSUME NEW x \in Ledgers, NEW u \in Users, NEW e, Once(x, u, e)
  PROVE  Spots(x, u, e) = {Min(Spots(x, u, e))}
<1>1. PICK i : Spots(x, u, e) = {i}
  BY DEF Once
<1>2. i \in Nat
  BY <1>1, SpotsAreNats
<1> QED BY <1>1, <1>2, MinOfOne

\* After a clean-up nobody is named as a controller any more.
LEMMA CleanupRights ==
  ASSUME NEW p, p.a \in Ants, NEW seen, SeenOK(seen), NEW i, Ctrl(p.a) \in DOMAIN seen,
         ControllersAcls(p, seen, i) = {}, NEW x \in Ledgers, NEW y, NowAt(x, y, seen),
         NEW from, NEW to, Leads(Cleanup(p, seen, i), from, to),
         \A u \in Users :
            Spots(from.w, u, Entry(p.a, "controller")) = Spots(x, u, Entry(p.a, "controller")),
         \A u \in Users : \/ None(x, u, Entry(p.a, "controller"))
                          \/ u \in x.ctrl[p.a] /\ Once(x, u, Entry(p.a, "controller"))
  PROVE  /\ to.w.owner = from.w.owner /\ to.w.known = from.w.known /\ to.w.ctrl = from.w.ctrl
         /\ from \in Accounts /\ to \in Accounts
         /\ \A u \in Users : /\ None(to.w, u, Entry(p.a, "controller"))
                             /\ Spots(to.w, u, Entry(p.a, "owner")) = Spots(from.w, u, Entry(p.a, "owner"))
<1>t. PICK tx : tx = Cleanup(p, seen, i)
  OBVIOUS
<1>p. PICK own, con : own = Entry(p.a, "owner") /\ con = Entry(p.a, "controller")
  OBVIOUS
<1>1. /\ TxOK(tx, {p.a}) /\ \A ix \in ToSet(tx) : ix.op \in AclIxs
      /\ \A u, e : Puts(tx, u, e) = {}
      /\ \A u : Takes(tx, u, own) = {}
      /\ \A u \in x.ctrl[p.a] : Spots(x, u, con) # {} => Min(Spots(x, u, con)) \in Takes(tx, u, con)
  BY <1>t, <1>p, CleanupTakes
<1>2. from \in Accounts /\ to \in Accounts
  BY <1>t, <1>1, LeadsWithin DEF TxOK
<1>3. Relisted(from.w, to.w, tx)
  BY <1>t, <1>1, AclPath
<1>4. \A u \in Users : Spots(from.w, u, con) = Spots(x, u, con)
  BY <1>p
<1>5. \A u \in Users : \A e : Spots(to.w, u, e) = Spots(from.w, u, e) \ Takes(tx, u, e)
  BY <1>1, <1>3 DEF Relisted
<1>6. ASSUME NEW u \in Users PROVE None(to.w, u, con)
  <2>1. CASE None(x, u, con)
    BY <1>4, <1>5, <2>1 DEF None
  <2>2. CASE u \in x.ctrl[p.a] /\ Once(x, u, con)
    <3>1. Spots(x, u, con) = {Min(Spots(x, u, con))}
      BY <2>2, OnceMin
    <3>2. Min(Spots(x, u, con)) \in Takes(tx, u, con)
      BY <1>1, <2>2 DEF Once
    <3> QED BY <1>4, <1>5, <3>1, <3>2 DEF None
  <2> QED BY <1>p, <2>1, <2>2
<1>7. \A u \in Users : Spots(to.w, u, own) = Spots(from.w, u, own)
  BY <1>1, <1>5
<1> QED BY <1>p, <1>2, <1>3, <1>6, <1>7 DEF Relisted

----------------------------------------------------------------------------
(* The parts of a transaction.                                             *)
LEMMA SplitOK ==
  ASSUME NEW ants, NEW s, TxOK(s, ants), NEW t, TxOK(t, ants),
         NEW from, NEW to, Leads(s \o t, from, to)
  PROVE  \E mid : Leads(s, from, mid) /\ Leads(t, mid, to)
<1>1. PICK S : s \in Seq(S)
  BY DEF TxOK
<1>2. PICK T : t \in Seq(T)
  BY DEF TxOK
<1> QED BY <1>1, <1>2, LeadsSplit

\* No instruction, no change.
LEMMA NothingMoves ==
  ASSUME NEW from, NEW to, Leads(<<>>, from, to)
  PROVE  from = to
<1>1. PICK st : Path(st, <<>>, from, to)
  BY DEF Leads
<1>2. Len(<<>>) = 0
  OBVIOUS
<1> QED BY <1>1, <1>2 DEF Path

\* Preparing a place moves no owner and no entry.
LEMMA PrepMoves ==
  ASSUME NEW u, NEW acl \in Acls, NEW from, NEW to, Leads(Destination(u, acl).prep, from, to)
  PROVE  /\ from \in Accounts /\ to \in Accounts /\ Alike(from.w, to.w)
<1>t. PICK tx : tx = Destination(u, acl).prep
  OBVIOUS
<1>1. TxOK(tx, {}) /\ \A ix \in ToSet(tx) : ix.op \in {"register", "add_page"} /\ ix.op \in AclIxs
  BY <1>t, PrepOK, PrepIs DEF IsPrep, AclIxs
<1>2. from \in Accounts /\ to \in Accounts
  BY <1>t, <1>1, LeadsWithin DEF TxOK
<1>3. \A v, e : Puts(tx, v, e) = {} /\ Takes(tx, v, e) = {}
  BY <1>1 DEF Puts, Takes, Recorded, Removed
<1>4. Relisted(from.w, to.w, tx)
  BY <1>t, <1>1, AclPath
<1>5. \A v \in Users : \A e : Spots(to.w, v, e) = Spots(from.w, v, e)
  BY <1>3, <1>4 DEF Relisted
<1> QED BY <1>2, <1>4, <1>5 DEF Relisted, Alike, Still

\* One entry in, or out.
LEMMA OneMoves ==
  ASSUME NEW ants, NEW ix, AssetOK(ix, ants), ix.op \in {"record", "remove"},
         NEW from, NEW to, Leads(<<ix>>, from, to)
  PROVE  /\ from \in Accounts /\ to \in Accounts
         /\ to.w.owner = from.w.owner /\ to.w.known = from.w.known /\ to.w.ctrl = from.w.ctrl
         /\ \A u \in Users : \A e :
              Spots(to.w, u, e) = (Spots(from.w, u, e) \union Recorded(ix, u, e)) \ Removed(ix, u, e)
         /\ ix.op = "record" => HasRole(from.w, ix.user, ix.entry)
<1>1. ix.op \in AclIxs /\ ix.op \in AssetIxs /\ ix.op \notin GarIxs
  BY DEF AclIxs, AssetIxs, GarIxs, RegistryIxs, DelegationIxs, SettingsIxs
<1>2. IxOK(ix, ants)
  BY <1>1 DEF IxOK
<1>3. /\ from \in Accounts /\ to \in Accounts /\ from.w \in Ledgers
      /\ to.w \in OnAsset(from.w, ix)
  BY <1>1, <1>2, FirstOn
<1>4. to.w \in OnAcl(from.w, ix)
  BY <1>1, <1>3 DEF OnAsset
<1>x. PICK x, y : x = from.w /\ y = to.w
  OBVIOUS
<1>5. /\ y.owner = x.owner /\ y.known = x.known /\ y.ctrl = x.ctrl
      /\ \A u \in Users : \A e :
           Spots(y, u, e) = (Spots(x, u, e) \union Recorded(ix, u, e)) \ Removed(ix, u, e)
      /\ ix.op = "record" => HasRole(x, ix.user, ix.entry)
  <2>1. x \in Ledgers /\ y \in OnAcl(x, ix) /\ ix.op \in AclIxs /\ AssetOK(ix, ants)
    BY <1>1, <1>3, <1>4, <1>x
  <2> QED BY <2>1, AclEffect
<1> QED BY <1>3, <1>5, <1>x

\* The form of the end: who owns has the one entry, and no one controls.
LEMMA OwnersOnly ==
  ASSUME NEW x \in Ledgers, NEW a \in Ants, NEW u \in Users, x.owner[a] = u, x.known[a] = u,
         x.ctrl[a] = {}, Once(x, u, Entry(a, "owner")),
         \A v \in Users : v # u => None(x, v, Entry(a, "owner")),
         \A v \in Users : None(x, v, Entry(a, "controller"))
  PROVE  ExactNow(x, a, u)
<1>1. ASSUME NEW v \in Users PROVE Told(x, a, v, x.owner[a] = v)
  <2>1. Says(x, a, v, x.owner[a] = v)
    BY DEF Says, Iff
  <2>2. (x.owner[a] = v) \in BOOLEAN
    OBVIOUS
  <2> QED BY <2>1, <2>2, ToldSays
<1> QED BY <1>1 DEF ExactNow, Exact

----------------------------------------------------------------------------
(* syncAcl.                                                                *)
LEMMA SyncRead ==
  ASSUME NEW p, Asked(p), p.op = "syncAcl", NEW seen, SeenOK(seen), AntReads(p, seen) = {},
         ~AntRefuses(p, seen)
  PROVE  /\ Owner(p.a) \in DOMAIN seen /\ seen[Owner(p.a)] = p.by
         /\ Known(p.a) \in DOMAIN seen /\ Ctrl(p.a) \in DOMAIN seen /\ Acl(p.by, 1) \in DOMAIN seen
         /\ Former(p, seen) # p.by => Acl(Former(p, seen), 2) \in DOMAIN seen
         /\ ControllersAcls(p, seen, 3) = {}
<1>1. SyncAclReads(p, seen) = {}
  BY DEF AntReads
<1>2. seen[Owner(p.a)] = p.by
  BY DEF AntRefuses
<1>3. InTurn(<<Owner(p.a)>>, seen) = {}
  BY <1>1, BothRead DEF SyncAclReads
<1>4. /\ InTurn(<<Known(p.a), Ctrl(p.a), Acl(p.by, 1)>>, seen) = {}
      /\ (Former(p, seen) = p.by \/ InTurn(<<Acl(Former(p, seen), 2)>>, seen) = {})
      /\ ControllersAcls(p, seen, 3) = {}
  BY <1>1, <1>2, BothRead DEF SyncAclReads
<1>5. Known(p.a) \in DOMAIN seen /\ Ctrl(p.a) \in DOMAIN seen /\ Acl(p.by, 1) \in DOMAIN seen
  <2>k. PICK keys : keys = <<Known(p.a), Ctrl(p.a), Acl(p.by, 1)>>
    OBVIOUS
  <2>1. \A i \in DOMAIN keys : keys[i] \in DOMAIN seen
    BY <1>4, <2>k, AllInTurn
  <2>2. /\ 1 \in DOMAIN keys /\ keys[1] = Known(p.a) /\ 2 \in DOMAIN keys /\ keys[2] = Ctrl(p.a)
        /\ 3 \in DOMAIN keys /\ keys[3] = Acl(p.by, 1)
    BY <2>k
  <2> QED BY <2>1, <2>2
<1> QED BY <1>2, <1>3, <1>4, <1>5, OneRead

\* What the instructions of syncAcl find: the last owner the program knew is
\* the only one with an owner's entry, if any.
LEMMA StaleEntries ==
  ASSUME NEW x \in Ledgers, NEW a \in Ants, Stale(x, a)
  PROVE  /\ \A u \in Users : \/ None(x, u, Entry(a, "controller"))
                             \/ u \in x.ctrl[a] /\ Once(x, u, Entry(a, "controller"))
         /\ \A u \in Users : \/ None(x, u, Entry(a, "owner"))
                             \/ u = x.known[a] /\ Once(x, u, Entry(a, "owner"))
<1>1. ASSUME NEW u \in Users
      PROVE  \/ Says(x, a, u, x.known[a] = u)
             \/ Silent(x, a, u)
  <2>1. (x.known[a] = u) \in BOOLEAN
    OBVIOUS
  <2> QED BY <2>1, ToldSays DEF Stale
<1> QED BY <1>1 DEF Says, Silent, Iff

\* syncAcl puts right what was stale, if it finds the ANT moved.
LEMMA SyncRights ==
  ASSUME NEW p, Asked(p), p.op = "syncAcl", NEW seen, SeenOK(seen), AntReads(p, seen) = {},
         ~AntRefuses(p, seen), NEW from, NEW to, Leads(SyncAclTx(p, seen), from, to),
         NowAt(from.w, from.g, seen), from \in Accounts,
         Stale(from.w, p.a), from.w.known[p.a] # from.w.owner[p.a]
  PROVE  ExactNow(to.w, p.a, p.by)
<1>p. PICK a, by, ants : a = p.a /\ by = p.by /\ ants = {a}
  OBVIOUS
<1>1. a \in Ants /\ by \in Users /\ a \in ants
  BY <1>p, AntAsked DEF AntOps
<1>e. PICK own, con : own = Entry(a, "owner") /\ con = Entry(a, "controller") /\ own # con
  BY EntriesApart
<1>x. PICK x : x = from.w /\ x \in Ledgers
  BY DEF Accounts
<1>l. PICK acl : acl = seen[Acl(by, 1)] /\ acl \in Acls
  BY <1>p, SyncRead, AclSeen
<1>f. PICK former : former = Former(p, seen)
  OBVIOUS
<1>2. x.owner[a] = by /\ former = x.known[a] /\ former # by
  BY <1>p, <1>x, <1>f, SyncRead, ReadNow DEF Former
<1>h. PICK stale : stale = Holding(seen[Acl(former, 2)], own)
  OBVIOUS
<1>3. former \in Users => stale = Spots(x, former, own)
  <2>1. Acl(former, 2) \in DOMAIN seen
    BY <1>p, <1>f, <1>2, SyncRead
  <2>2. NowAt(x, from.g, seen)
    BY <1>x
  <2>3. seen[Acl(former, 2)] = AclOf(x, former)
    BY <2>1, <2>2, ReadNow
  <2> QED BY <1>h, <2>3 DEF AclOf, Spots
<1>d. PICK prep, page : prep = Destination(by, acl).prep /\ page = Destination(by, acl).page
  OBVIOUS
<1>i. PICK ixR, ixC, ixM : /\ ixR = AntIx("reconcile", p) /\ ixC = RecordIx(by, page, own)
                           /\ ixM = RemoveIx(former, Min(stale), own)
  OBVIOUS
<1>4. /\ ixR.op = "reconcile" /\ ixR.a = a
      /\ ixC.op = "record" /\ ixC.user = by /\ ixC.page = page /\ ixC.entry = own
      /\ ixM.op = "remove" /\ ixM.user = former /\ ixM.page = Min(stale) /\ ixM.entry = own
  BY <1>i, <1>p DEF AntIx, RecordIx, RemoveIx
<1>o. PICK take, clean : /\ take = IF stale = {} THEN <<>> ELSE <<ixM>>
                         /\ clean = Cleanup(p, seen, 3)
  OBVIOUS
<1>5. SyncAclTx(p, seen) = (((<<ixR>> \o prep) \o <<ixC>>) \o take) \o clean
  BY <1>p, <1>e, <1>l, <1>f, <1>2, <1>h, <1>d, <1>i, <1>o DEF SyncAclTx
<1>6. IxOK(ixR, ants) /\ ixR.op \in AssetIxs /\ ixR.op \notin GarIxs /\ ixR.op \in AntIxs
  <2>1. ixR.op \in AntIxs /\ ixR.op \in AssetIxs /\ ixR.op \notin GarIxs
    BY <1>4 DEF AssetIxs, AntIxs, GarIxs, RegistryIxs, DelegationIxs, SettingsIxs
  <2>2. AssetOK(ixR, ants)
    BY <1>1, <1>4 DEF AssetOK
  <2> QED BY <2>1, <2>2 DEF IxOK
<1>7. /\ TxOK(<<ixR>>, ants) /\ TxOK(prep, ants) /\ TxOK(<<ixC>>, ants) /\ TxOK(<<ixM>>, ants)
      /\ TxOK(take, ants) /\ TxOK(clean, ants) /\ AssetOK(ixC, ants) /\ AssetOK(ixM, ants)
  <2>1. TxOK(<<ixR>>, ants) /\ TxOK(prep, ants)
    BY <1>6, <1>l, <1>d, OneOK, PrepOK
  <2>2. /\ TxOK(<<ixC>>, ants) /\ TxOK(<<ixM>>, ants)
    BY <1>1, <1>i, <1>e, RecordsOK
  <2>3. TxOK(take, ants)
    BY <1>o, <2>2, NoneOK
  <2>4. TxOK(clean, ants)
    BY <1>o, <1>p, <1>1, SyncRead, ControllersOK
  <2>5. AssetOK(ixC, ants) /\ AssetOK(ixM, ants)
    <3>1. own \in EntriesOf(ants) /\ own.asset \in ants
      BY <1>1, <1>e DEF Entry, Entries, EntriesOf
    <3> QED BY <1>4, <3>1 DEF AssetOK
  <2> QED BY <2>1, <2>2, <2>3, <2>4, <2>5
<1>8. PICK m4 : /\ Leads(((<<ixR>> \o prep) \o <<ixC>>) \o take, from, m4) /\ Leads(clean, m4, to)
  BY <1>5, <1>7, JoinOK, SplitOK
<1>9. PICK m3 : /\ Leads((<<ixR>> \o prep) \o <<ixC>>, from, m3) /\ Leads(take, m3, m4)
  BY <1>7, <1>8, JoinOK, SplitOK
<1>10. PICK m2 : /\ Leads(<<ixR>> \o prep, from, m2) /\ Leads(<<ixC>>, m2, m3)
  BY <1>7, <1>9, JoinOK, SplitOK
<1>11. PICK m1 : /\ Leads(<<ixR>>, from, m1) /\ Leads(prep, m1, m2)
  BY <1>7, <1>10, SplitOK
\* The reconcile.
<1>12. /\ Still(x, m1.w) /\ m1.w.owner = x.owner /\ m1.w.known[a] = by /\ m1.w.ctrl[a] = {}
  <2>1. m1.w \in OnAsset(from.w, ixR) /\ from.w \in Ledgers
    BY <1>6, <1>11, FirstOn
  <2>2. m1.w \in OnAnt(from.w, ixR)
    BY <1>6, <1>4, <2>1 DEF OnAsset, AclIxs
  <2>3. Reconciled(x, m1.w, a)
    BY <1>4, <1>x, <2>1, <2>2, ReconcileEffect
  <2>4. x.known \in [Ants -> Users \union {Nobody, Escrow}] /\ x.ctrl \in [Ants -> SUBSET Users]
    BY <1>x, OwnersKnown
  <2> QED BY <1>1, <1>2, <2>3, <2>4 DEF Reconciled
\* The page of the new owner, and his entry.
<1>13. Alike(m1.w, m2.w)
  BY <1>11, <1>d, <1>l, PrepMoves
<1>14. /\ m3.w.owner = m2.w.owner /\ m3.w.known = m2.w.known /\ m3.w.ctrl = m2.w.ctrl
       /\ \A u \in Users : \A e :
            Spots(m3.w, u, e) = Spots(m2.w, u, e) \union (IF u = by /\ e = own THEN {page} ELSE {})
  <2>1. /\ m3.w.owner = m2.w.owner /\ m3.w.known = m2.w.known /\ m3.w.ctrl = m2.w.ctrl
        /\ \A u \in Users : \A e :
             Spots(m3.w, u, e) = (Spots(m2.w, u, e) \union Recorded(ixC, u, e)) \ Removed(ixC, u, e)
    BY <1>4, <1>7, <1>10, OneMoves
  <2>2. \A u, e : /\ Removed(ixC, u, e) = {}
                  /\ Recorded(ixC, u, e) = IF u = by /\ e = own THEN {page} ELSE {}
    BY <1>4 DEF Removed, Recorded
  <2> QED BY <2>1, <2>2
\* The entry of the former owner.
<1>15. /\ m4.w.owner = m3.w.owner /\ m4.w.known = m3.w.known /\ m4.w.ctrl = m3.w.ctrl
       /\ \A u \in Users : \A e :
            Spots(m4.w, u, e) =
              Spots(m3.w, u, e) \ (IF stale # {} /\ u = former /\ e = own THEN {Min(stale)} ELSE {})
  <2>1. CASE stale = {}
    <3>1. m3 = m4
      BY <1>9, <1>o, <2>1, NothingMoves
    <3> QED BY <2>1, <3>1
  <2>2. CASE stale # {}
    <3>0. Leads(<<ixM>>, m3, m4)
      BY <1>9, <1>o, <2>2
    <3>1. /\ m4.w.owner = m3.w.owner /\ m4.w.known = m3.w.known /\ m4.w.ctrl = m3.w.ctrl
          /\ \A u \in Users : \A e :
               Spots(m4.w, u, e) = (Spots(m3.w, u, e) \union Recorded(ixM, u, e)) \ Removed(ixM, u, e)
      BY <1>4, <1>7, <3>0, OneMoves
    <3>2. \A u, e : /\ Recorded(ixM, u, e) = {}
                    /\ Removed(ixM, u, e) = IF u = former /\ e = own THEN {Min(stale)} ELSE {}
      BY <1>4 DEF Removed, Recorded
    <3> QED BY <2>2, <3>1, <3>2
  <2> QED BY <2>1, <2>2
<1>16. /\ m4.w.owner[a] = by /\ m4.w.known[a] = by /\ m4.w.ctrl[a] = {}
       /\ \A u \in Users : Spots(m4.w, u, con) = Spots(x, u, con)
  <2>1. m4.w.owner[a] = by /\ m4.w.known[a] = by /\ m4.w.ctrl[a] = {}
    BY <1>2, <1>12, <1>13, <1>14, <1>15 DEF Alike
  <2>2. ASSUME NEW u \in Users PROVE Spots(m4.w, u, con) = Spots(x, u, con)
    <3>1. Spots(m2.w, u, con) = Spots(x, u, con)
      BY <1>12, <1>13 DEF Alike, Still
    <3>2. Spots(m3.w, u, con) = Spots(m2.w, u, con)
      BY <1>14, <1>e
    <3>3. Spots(m4.w, u, con) = Spots(m3.w, u, con)
      BY <1>15, <1>e
    <3> QED BY <3>1, <3>2, <3>3
  <2> QED BY <2>1, <2>2
<1>17. ASSUME NEW u \in Users
       PROVE  /\ u = by => Spots(m4.w, u, own) = {page}
              /\ u # by => Spots(m4.w, u, own) = {}
  <2>1. Spots(m2.w, u, own) = Spots(x, u, own)
    BY <1>12, <1>13 DEF Alike, Still
  <2>2. None(x, u, own) \/ (u = former /\ Once(x, u, own))
    BY <1>p, <1>x, <1>e, <1>1, <1>2, StaleEntries
  <2>3. CASE u = by
    BY <1>2, <1>14, <1>15, <2>1, <2>2, <2>3 DEF None
  <2>4. CASE u # by /\ None(x, u, own)
    BY <1>14, <1>15, <2>1, <2>4 DEF None
  <2>5. CASE u # by /\ u = former /\ Once(x, u, own)
    <3>1. stale = Spots(x, u, own) /\ stale = {Min(stale)}
      BY <1>x, <1>3, <2>5, OnceMin
    <3> QED BY <1>14, <1>15, <2>1, <2>5, <3>1
  <2> QED BY <2>2, <2>3, <2>4, <2>5
\* The entries of the controllers.
<1>18. /\ to.w.owner = m4.w.owner /\ to.w.known = m4.w.known /\ to.w.ctrl = m4.w.ctrl
       /\ to \in Accounts
       /\ \A u \in Users : None(to.w, u, con) /\ Spots(to.w, u, own) = Spots(m4.w, u, own)
  <2>1. /\ Ctrl(p.a) \in DOMAIN seen /\ ControllersAcls(p, seen, 3) = {} /\ p.a \in Ants
        /\ NowAt(x, from.g, seen) /\ Leads(Cleanup(p, seen, 3), m4, to)
    BY <1>p, <1>x, <1>1, <1>o, <1>8, SyncRead
  <2>2. /\ \A u \in Users : Spots(m4.w, u, Entry(p.a, "controller")) = Spots(x, u, Entry(p.a, "controller"))
        /\ \A u \in Users : \/ None(x, u, Entry(p.a, "controller"))
                            \/ u \in x.ctrl[p.a] /\ Once(x, u, Entry(p.a, "controller"))
    BY <1>p, <1>e, <1>x, <1>1, <1>16, StaleEntries
  <2> QED BY <1>p, <1>e, <1>x, <2>1, <2>2, CleanupRights
<1>19. to.w \in Ledgers
  BY <1>18 DEF Accounts
<1>y. PICK y : y = to.w
  OBVIOUS
<1>20. /\ y \in Ledgers /\ y.owner[a] = by /\ y.known[a] = by /\ y.ctrl[a] = {}
       /\ \A u \in Users : None(y, u, con)
  BY <1>y, <1>16, <1>18, <1>19
<1>21. Once(y, by, own) /\ \A u \in Users : u # by => None(y, u, own)
  BY <1>y, <1>1, <1>17, <1>18 DEF Once, None
<1>22. ExactNow(y, a, by)
  BY <1>1, <1>e, <1>20, <1>21, OwnersOnly
<1> QED BY <1>p, <1>y, <1>22

----------------------------------------------------------------------------
(* transfer.                                                               *)
LEMMA TransferRead ==
  ASSUME NEW p, p.op = "transfer", NEW seen, AntReads(p, seen) = {}
  PROVE  /\ Acl(p.u, 1) \in DOMAIN seen /\ Acl(p.by, 2) \in DOMAIN seen
         /\ HasOwnerEntry(p, seen) \/ Acl(p.by, 3) \in DOMAIN seen
         /\ Ctrl(p.a) \in DOMAIN seen /\ ControllersAcls(p, seen, 4) = {}
<1>1. TransferReads(p, seen) = {}
  BY DEF AntReads
<1>2. /\ InTurn(<<Acl(p.u, 1), Acl(p.by, 2)>>, seen) = {}
      /\ (HasOwnerEntry(p, seen) \/ InTurn(<<Acl(p.by, 3)>>, seen) = {})
      /\ InTurn(<<Ctrl(p.a)>>, seen) = {} /\ ControllersAcls(p, seen, 4) = {}
  BY <1>1, BothRead DEF TransferReads
<1>3. Acl(p.u, 1) \in DOMAIN seen /\ Acl(p.by, 2) \in DOMAIN seen
  <2>k. PICK keys : keys = <<Acl(p.u, 1), Acl(p.by, 2)>>
    OBVIOUS
  <2>1. \A i \in DOMAIN keys : keys[i] \in DOMAIN seen
    BY <1>2, <2>k, AllInTurn
  <2>2. 1 \in DOMAIN keys /\ keys[1] = Acl(p.u, 1) /\ 2 \in DOMAIN keys /\ keys[2] = Acl(p.by, 2)
    BY <2>k
  <2> QED BY <2>1, <2>2
<1> QED BY <1>2, <1>3, OneRead

\* In exact lists the entries are those of the owner and the controllers.
LEMMA ExactEntries ==
  ASSUME NEW x \in Ledgers, NEW a \in Ants, Exact(x, a)
  PROVE  /\ \A u \in Users : \/ None(x, u, Entry(a, "controller"))
                             \/ u \in x.ctrl[a] /\ Once(x, u, Entry(a, "controller"))
         /\ \A u \in Users : /\ u = x.owner[a] => Once(x, u, Entry(a, "owner"))
                             /\ u # x.owner[a] => None(x, u, Entry(a, "owner"))
<1>1. ASSUME NEW u \in Users PROVE Says(x, a, u, x.owner[a] = u)
  <2>1. (x.owner[a] = u) \in BOOLEAN
    OBVIOUS
  <2> QED BY <2>1, ToldSays DEF Exact
<1> QED BY <1>1 DEF Says, Iff

\* A transfer through the SDK of an ANT whose lists are exact leaves them
\* exact.
LEMMA TransferRights ==
  ASSUME NEW p, Asked(p), p.op = "transfer", NEW seen, SeenOK(seen), AntReads(p, seen) = {},
         NEW from, NEW to, Leads(TransferTx(p, seen), from, to),
         NowAt(from.w, from.g, seen), from \in Accounts, Exact(from.w, p.a)
  PROVE  ExactNow(to.w, p.a, p.u)
<1>p. PICK a, by, u, ants : a = p.a /\ by = p.by /\ u = p.u /\ ants = {a}
  OBVIOUS
<1>1. a \in Ants /\ by \in Users /\ u \in Users /\ a \in ants
  BY <1>p, AntAsked DEF AntOps
<1>e. PICK own, con : own = Entry(a, "owner") /\ con = Entry(a, "controller") /\ own # con
  BY EntriesApart
<1>x. PICK x : x = from.w /\ x \in Ledgers
  BY DEF Accounts
<1>l. PICK acl, mine : /\ acl = seen[Acl(u, 1)] /\ acl \in Acls
                       /\ mine = seen[Acl(by, 2)] /\ mine = x.acl[by]
  <2>1. Acl(u, 1) \in DOMAIN seen /\ Acl(by, 2) \in DOMAIN seen
    BY <1>p, TransferRead
  <2>2. NowAt(x, from.g, seen)
    BY <1>x
  <2>3. seen[Acl(by, 2)] = x.acl[by]
    BY <1>1, <2>1, <2>2, ReadNow DEF AclOf
  <2> QED BY <2>1, <2>3, AclSeen
<1>h. PICK held : held = HasOwnerEntry(p, seen) /\ held = (Spots(x, by, own) # {})
  BY <1>p, <1>e, <1>l DEF HasOwnerEntry, Spots
<1>d. PICK prep, page : prep = Destination(u, acl).prep /\ page = Destination(u, acl).page
  OBVIOUS
<1>q. PICK heal : heal = Destination(by, seen[Acl(by, 3)])
  OBVIOUS
<1>o. PICK ixC : ixC = RecordIx(by, heal.page, own)
  OBVIOUS
<1>b. PICK pre : pre = IF held THEN <<>> ELSE Append(heal.prep, ixC)
  OBVIOUS
<1>f. PICK start : start = IF held THEN Min(Holding(mine, own)) ELSE heal.page
  OBVIOUS
<1>i. PICK ixT : ixT = With(AntIx("transfer", p), [u |-> p.u, from |-> start, page |-> page])
  OBVIOUS
<1>4. /\ ixT.op = "transfer" /\ ixT.a = a /\ ixT.by = by /\ ixT.u = u
      /\ ixT.from = start /\ ixT.page = page
  <2>b. PICK base, more : base = AntIx("transfer", p)
                          /\ more = [u |-> p.u, from |-> start, page |-> page]
    OBVIOUS
  <2>1. /\ DOMAIN base = {"op", "a", "by"} /\ base.op = "transfer" /\ base.a = a /\ base.by = by
        /\ DOMAIN more = {"u", "from", "page"}
        /\ more.u = u /\ more.from = start /\ more.page = page
    BY <1>p, <2>b DEF AntIx
  <2>2. ixT = With(base, more)
    BY <1>i, <2>b
  <2>3. /\ \A f \in DOMAIN base : ixT[f] = base[f]
        /\ \A f \in DOMAIN more : f \notin DOMAIN base => ixT[f] = more[f]
    <3>1. /\ \A f \in DOMAIN base : With(base, more)[f] = base[f]
          /\ \A f \in DOMAIN more : f \notin DOMAIN base => With(base, more)[f] = more[f]
      BY WithFields
    <3> QED BY <2>2, <3>1
  <2> QED BY <2>1, <2>3
<1>c. PICK clean : clean = Cleanup(p, seen, 4)
  OBVIOUS
<1>5. TransferTx(p, seen) = ((pre \o prep) \o <<ixT>>) \o clean
  BY <1>p, <1>e, <1>l, <1>h, <1>d, <1>q, <1>o, <1>b, <1>f, <1>i, <1>c DEF TransferTx
<1>6. IxOK(ixT, ants) /\ ixT.op \in AssetIxs /\ ixT.op \notin GarIxs /\ ixT.op \in AntIxs
  <2>1. ixT.op \in AntIxs /\ ixT.op \in AssetIxs /\ ixT.op \notin GarIxs
    BY <1>4 DEF AssetIxs, AntIxs, GarIxs, RegistryIxs, DelegationIxs, SettingsIxs
  <2>2. AssetOK(ixT, ants)
    BY <1>1, <1>4 DEF AssetOK
  <2> QED BY <2>1, <2>2 DEF IxOK
<1>z. ~held => seen[Acl(by, 3)] \in Acls
  BY <1>p, <1>h, TransferRead, AclSeen
<1>7. /\ TxOK(pre, ants) /\ TxOK(prep, ants) /\ TxOK(<<ixT>>, ants) /\ TxOK(clean, ants)
  <2>1. TxOK(prep, ants) /\ TxOK(<<ixT>>, ants)
    BY <1>6, <1>l, <1>d, OneOK, PrepOK
  <2>2. IxOK(ixC, ants)
    BY <1>1, <1>o, <1>e, RecordsOK
  <2>3. ~held => TxOK(heal.prep, ants)
    BY <1>z, <1>q, PrepOK
  <2>4. TxOK(pre, ants)
    BY <1>b, <2>2, <2>3, NoneOK, AppendOK
  <2>5. TxOK(clean, ants)
    BY <1>c, <1>p, <1>1, TransferRead, ControllersOK
  <2> QED BY <2>1, <2>4, <2>5
<1>8. PICK m3 : Leads((pre \o prep) \o <<ixT>>, from, m3) /\ Leads(clean, m3, to)
  BY <1>5, <1>7, JoinOK, SplitOK
<1>9. PICK m2 : Leads(pre \o prep, from, m2) /\ Leads(<<ixT>>, m2, m3)
  BY <1>7, <1>8, JoinOK, SplitOK
<1>10. PICK m1 : Leads(pre, from, m1) /\ Leads(prep, m1, m2)
  BY <1>7, <1>9, SplitOK
<1>11. m2.w \in Ledgers /\ m3.w \in Ledgers /\ m3.w \in OnAnt(m2.w, ixT) /\ AssetOK(ixT, ants)
  <2>1. m3.w \in OnAsset(m2.w, ixT) /\ m2.w \in Ledgers /\ m3.w \in Ledgers /\ AssetOK(ixT, ants)
    BY <1>6, <1>9, FirstOn
  <2>2. m3.w \in OnAnt(m2.w, ixT)
    BY <1>6, <1>4, <2>1 DEF OnAsset, AclIxs
  <2> QED BY <2>1, <2>2
<1>12. /\ m2.w.owner[a] = by
       /\ m3.w.owner = [m2.w.owner EXCEPT ![a] = u] /\ m3.w.known = [m2.w.known EXCEPT ![a] = u]
       /\ m3.w.ctrl = [m2.w.ctrl EXCEPT ![a] = {}]
       /\ \E z : Loses(m2.w, z, by, own, start) /\ Gains(z, m3.w, u, own, page)
  BY <1>4, <1>11, <1>e, TransferEffect
<1>13. Alike(m1.w, m2.w)
  BY <1>10, <1>d, <1>l, PrepMoves
\* The owner has his entry: nothing comes before the page of the next one.
<1>14. m1.w.owner = x.owner
  <2>1. CASE held
    <3>1. m1 = from
      BY <1>10, <1>b, <2>1, NothingMoves
    <3> QED BY <1>x, <3>1
  <2>2. CASE ~held
    <3>0. TxOK(heal.prep, ants) /\ TxOK(<<ixC>>, ants) /\ AssetOK(ixC, ants)
          /\ ixC.op \in {"record", "remove"}
      <4>1. TxOK(heal.prep, ants) /\ TxOK(<<ixC>>, ants)
        BY <1>1, <1>z, <1>q, <1>o, <1>e, <2>2, PrepOK, RecordsOK
      <4>2. own \in EntriesOf(ants)
        BY <1>1, <1>e DEF Entry, Entries, EntriesOf
      <4>3. ixC.op = "record" /\ ixC.entry = own
        BY <1>o DEF RecordIx
      <4> QED BY <4>1, <4>2, <4>3 DEF AssetOK
    <3>1. pre = heal.prep \o <<ixC>>
      <4>1. PICK S : heal.prep \in Seq(S)
        BY <3>0 DEF TxOK
      <4> QED BY <1>b, <2>2, <4>1
    <3>2. PICK m : Leads(heal.prep, from, m) /\ Leads(<<ixC>>, m, m1)
      BY <1>10, <3>0, <3>1, SplitOK
    <3>3. m.w.owner = from.w.owner
      <4>1. PICK list \in Acls : list = seen[Acl(by, 3)]
        BY <1>z, <2>2
      <4>2. Leads(Destination(by, list).prep, from, m)
        BY <1>q, <3>2, <4>1
      <4>3. Alike(from.w, m.w)
        BY <4>2, PrepMoves
      <4> QED BY <4>3 DEF Alike
    <3>4. m1.w.owner = m.w.owner
      BY <3>0, <3>2, OneMoves
    <3> QED BY <1>x, <3>3, <3>4
  <2> QED BY <2>1, <2>2
<1>15. x.owner[a] = by
  BY <1>12, <1>13, <1>14 DEF Alike
<1>16. /\ \A v \in Users : \/ None(x, v, con)
                           \/ v \in x.ctrl[a] /\ Once(x, v, con)
       /\ Once(x, by, own) /\ \A v \in Users : v # by => None(x, v, own)
  BY <1>p, <1>x, <1>e, <1>1, <1>15, ExactEntries
<1>17. held /\ m1 = from /\ Spots(x, by, own) = {start}
  <2>1. held
    BY <1>h, <1>16 DEF Once
  <2>2. m1 = from
    BY <1>10, <1>b, <2>1, NothingMoves
  <2>3. Spots(x, by, own) = {Min(Spots(x, by, own))}
    BY <1>x, <1>1, <1>16, OnceMin
  <2> QED BY <1>f, <1>l, <2>1, <2>2, <2>3 DEF Spots
\* The transfer.
<1>18. Still(x, m2.w) /\ m2.w.owner = x.owner /\ m2.w.known = x.known /\ m2.w.ctrl = x.ctrl
  BY <1>x, <1>13, <1>17 DEF Alike
<1>19. m3.w.owner[a] = u /\ m3.w.known[a] = u /\ m3.w.ctrl[a] = {}
  <2>1. /\ x.owner \in [Ants -> Users \union {Nobody, Escrow}]
        /\ x.known \in [Ants -> Users \union {Nobody, Escrow}] /\ x.ctrl \in [Ants -> SUBSET Users]
    BY <1>x, OwnersKnown
  <2> QED BY <1>1, <1>12, <1>18, <2>1
<1>20. PICK z : Loses(m2.w, z, by, own, start) /\ Gains(z, m3.w, u, own, page)
  BY <1>12
<1>21. ASSUME NEW v \in Users
       PROVE  /\ Spots(m3.w, v, con) = Spots(x, v, con)
              /\ v = u => Spots(m3.w, v, own) = {page}
              /\ v # u => Spots(m3.w, v, own) = {}
  <2>1. /\ Spots(z, v, con) = Spots(m2.w, v, con)
        /\ Spots(z, v, own) = IF v = by THEN Spots(m2.w, v, own) \ {start} ELSE Spots(m2.w, v, own)
    BY <1>20, <1>e DEF Loses
  <2>2. /\ Spots(m3.w, v, con) = Spots(z, v, con)
        /\ Spots(m3.w, v, own) = IF v = u THEN Spots(z, v, own) \union {page} ELSE Spots(z, v, own)
    BY <1>20, <1>e DEF Gains
  <2>3. Spots(m2.w, v, con) = Spots(x, v, con) /\ Spots(m2.w, v, own) = Spots(x, v, own)
    BY <1>18 DEF Still
  <2>4. Spots(z, v, own) = {}
    BY <1>16, <1>17, <2>1, <2>3 DEF None
  <2> QED BY <2>1, <2>2, <2>3, <2>4
\* The entries of the controllers.
<1>22. /\ to.w.owner = m3.w.owner /\ to.w.known = m3.w.known /\ to.w.ctrl = m3.w.ctrl
       /\ to \in Accounts
       /\ \A v \in Users : None(to.w, v, con) /\ Spots(to.w, v, own) = Spots(m3.w, v, own)
  <2>1. /\ Ctrl(p.a) \in DOMAIN seen /\ ControllersAcls(p, seen, 4) = {} /\ p.a \in Ants
        /\ NowAt(x, from.g, seen) /\ Leads(Cleanup(p, seen, 4), m3, to)
    BY <1>p, <1>x, <1>1, <1>c, <1>8, TransferRead
  <2>2. /\ \A v \in Users : Spots(m3.w, v, Entry(p.a, "controller")) = Spots(x, v, Entry(p.a, "controller"))
        /\ \A v \in Users : \/ None(x, v, Entry(p.a, "controller"))
                            \/ v \in x.ctrl[p.a] /\ Once(x, v, Entry(p.a, "controller"))
    BY <1>p, <1>e, <1>16, <1>21
  <2> QED BY <1>p, <1>e, <1>x, <2>1, <2>2, CleanupRights
<1>y. PICK y : y = to.w
  OBVIOUS
<1>23. /\ y \in Ledgers /\ y.owner[a] = u /\ y.known[a] = u /\ y.ctrl[a] = {}
       /\ \A v \in Users : None(y, v, con)
  BY <1>y, <1>19, <1>22 DEF Accounts
<1>24. Once(y, u, own) /\ \A v \in Users : v # u => None(y, v, own)
  BY <1>y, <1>1, <1>21, <1>22 DEF Once, None
<1>25. ExactNow(y, a, u)
  BY <1>1, <1>e, <1>23, <1>24, OwnersOnly
<1> QED BY <1>p, <1>y, <1>25

----------------------------------------------------------------------------
(* The sync after the purchase of a name with a new ANT.                   *)
LEMMA BootstrapHeld ==
  ASSUME NEW u, NEW a \in Ants, NEW acl \in Acls, acl.exists,
         Holding(acl, Entry(a, "owner")) # {}
  PROVE  /\ Holding(acl, Entry(a, "controller")) # {} => BootstrapOwner(u, a, acl) = <<>>
         /\ Holding(acl, Entry(a, "controller")) = {} =>
              \E j : RecordIx(u, j, Entry(a, "controller")) \in ToSet(BootstrapOwner(u, a, acl))
<1>e. PICK own, con : own = Entry(a, "owner") /\ con = Entry(a, "controller")
  OBVIOUS
<1>o. PICK o1, o2 : o1 = Op("record", "owner", u, a) /\ o2 = Op("record", "controller", u, a)
  OBVIOUS
<1>p. PICK ops, acls : ops = <<o1, o2>> /\ acls = Just(u, acl)
  OBVIOUS
<1>1. /\ o1.action = "record" /\ o1.user = u /\ o1.entry = own
      /\ o2.action = "record" /\ o2.user = u /\ o2.entry = con
      /\ o1 \in AclOps({u}, {a}) /\ o2 \in AclOps({u}, {a})
  BY <1>e, <1>o DEF Op, Entry, AclOps, Entries, EntriesOf
<1>s. PICK us, ants : us = {u} /\ ants = {a}
  OBVIOUS
<1>V. PICK V : V = Plans(us, ants)
  OBVIOUS
<1>2. ops \in Seq(AclOps({u}, {a})) /\ Len(ops) = 2 /\ ops[1] = o1 /\ ops[2] = o2
  BY <1>p, <1>1
<1>3. acls \in [{u} -> Acls] /\ acls[u] = acl
  BY <1>p DEF Just
<1>t. ops \in Seq(AclOps(us, ants)) /\ acls \in [us -> Acls]
  BY <1>2, <1>3, <1>s
<1>b. PICK base : base = [acls |-> acls, ixs |-> <<>>]
  OBVIOUS
<1>n. 0 \in 0..2 /\ 1 \in 0..2 /\ 2 \in 0..2 /\ 1 \in 1..2 /\ 2 \in 1..2 /\ 1 - 1 = 0 /\ 2 - 1 = 1
  OBVIOUS
<1>4. PlanHeads(ops, acls) = base
  <2>1. PICK run : HeadRun(run, ops, Plans(us, ants), acls) /\ PlanHeads(ops, acls) = run[Len(ops)]
    BY <1>t, HeadRuns
  <2>2. /\ run[0] = base
        /\ \A k \in 1..2 : run[k] = HeadOp(run[k - 1], ops[k])
    BY <1>2, <1>b, <2>1 DEF HeadRun
  <2>3. run[1] = HeadOp(run[1 - 1], ops[1]) /\ run[2] = HeadOp(run[2 - 1], ops[2])
    BY <1>n, <2>2
  <2>4. HeadOp(base, o1) = base /\ HeadOp(base, o2) = base
    BY <1>1, <1>3, <1>b DEF HeadOp
  <2> QED BY <1>2, <1>n, <2>1, <2>2, <2>3, <2>4
<1>5. PICK go : PlanRun(go, ops, V, base) /\ BootstrapOwner(u, a, acl) = go[2].ixs
  <2>1. PICK go : /\ PlanRun(go, ops, Plans(us, ants), PlanHeads(ops, acls))
                  /\ PlanAclMaintenance(ops, acls) = go[Len(ops)].ixs
    BY <1>t, PlanRuns
  <2>2. BootstrapOwner(u, a, acl) = PlanAclMaintenance(ops, acls)
    BY <1>o, <1>p DEF BootstrapOwner
  <2> QED BY <1>V, <1>2, <1>4, <2>1, <2>2
<1>6. base \in V /\ go[2] = PlanRecord(base, o2)
  <2>1. /\ go \in [0..2 -> V] /\ go[0] = base
        /\ \A k \in 1..2 : go[k] = PlanOp(go[k - 1], ops[k])
    BY <1>2, <1>5 DEF PlanRun
  <2>2. go[1] = PlanOp(go[1 - 1], ops[1]) /\ go[2] = PlanOp(go[2 - 1], ops[2])
    BY <1>n, <2>1
  <2>3. go[1] = PlanRecord(base, o1) /\ go[2] = PlanRecord(go[1], o2)
    BY <1>1, <1>2, <1>n, <2>1, <2>2 DEF PlanOp
  <2>4. PlanRecord(base, o1) = base
    <3>1. Holding(base.acls[o1.user], o1.entry) # {}
      BY <1>1, <1>3, <1>b, <1>e
    <3> QED BY <3>1 DEF PlanRecord
  <2> QED BY <1>n, <2>1, <2>3, <2>4
<1>7. CASE Holding(acl, con) # {}
  <2>1. Holding(base.acls[o2.user], o2.entry) # {}
    BY <1>1, <1>3, <1>b, <1>7
  <2>2. PlanRecord(base, o2) = base
    BY <2>1 DEF PlanRecord
  <2> QED BY <1>b, <1>e, <1>5, <1>6, <1>7, <2>2
<1>8. CASE Holding(acl, con) = {}
  <2>1. Holding(base.acls[o2.user], o2.entry) = {}
    BY <1>1, <1>3, <1>b, <1>8
  <2>2. base \in Plans(us, ants) /\ o2 \in AclOps(us, ants)
    BY <1>V, <1>s, <1>1, <1>6
  <2>3. Grows(base, PlanRecord(base, o2), o2.user, o2.entry)
    BY <2>1, <2>2, PlanRecordGrows
  <2>4. PICK j : RecordIx(u, j, con) \in ToSet(PlanRecord(base, o2).ixs)
    BY <1>1, <2>3 DEF Grows
  <2> QED BY <1>e, <1>5, <1>6, <1>8, <2>4
<1> QED BY <1>7, <1>8

\* Only instructions on the lists record the entries of a new owner.
LEMMA BootstrapIxs ==
  ASSUME NEW u, NEW a \in Ants, NEW acl \in Acls
  PROVE  \A ix \in ToSet(BootstrapOwner(u, a, acl)) : ix.op \in AclIxs
<1>s. PICK us, ants : us = {u} /\ ants = {a}
  OBVIOUS
<1>p. PICK ops, acls : /\ ops = <<Op("record", "owner", u, a), Op("record", "controller", u, a)>>
                       /\ acls = Just(u, acl)
  OBVIOUS
<1>1. ops \in Seq(AclOps(us, ants)) /\ acls \in [us -> Acls]
  <2>1. Op("record", "owner", u, a) \in AclOps(us, ants) /\ Op("record", "controller", u, a) \in AclOps(us, ants)
    BY <1>s DEF Op, Entry, AclOps, Entries, EntriesOf
  <2>2. acls \in [us -> Acls]
    BY <1>p, <1>s DEF Just
  <2> QED BY <1>p, <2>1, <2>2
<1>2. BootstrapOwner(u, a, acl) \in Seq(AclInstrs(us, ants))
  <2>1. PlanAclMaintenance(ops, acls) \in Seq(AclInstrs(us, ants))
    BY <1>1, PlanTyped
  <2> QED BY <1>p, <2>1 DEF BootstrapOwner
<1>3. \A ix \in AclInstrs(us, ants) : ix.op \in AclIxs
  BY DEF AclInstrs, AclIxs
<1> QED BY <1>2, <1>3 DEF ToSet

\* The second stage of a purchase with a new ANT leaves exact lists.
LEMMA BoughtRights ==
  ASSUME NEW p, Asked(p), p.op = "spawnBuy", p.stage = 2, NEW seen, SeenOK(seen),
         NameReads(p, seen) = {}, SpawnBuyTx(p, seen) # <<>>,
         NEW from, NEW to, Leads(SpawnBuyTx(p, seen), from, to), from \in Accounts,
         NowAt(from.w, from.g, seen), Stale(from.w, p.a), from.w.known[p.a] = p.by
  PROVE  ExactNow(to.w, p.a, p.by)
<1>p. PICK a, by, ants : a = p.a /\ by = p.by /\ ants = {a}
  OBVIOUS
<1>1. a \in Ants /\ by \in Users /\ a \in ants
  BY <1>p, NameAsked DEF NameOps
<1>e. PICK own, con : own = Entry(a, "owner") /\ con = Entry(a, "controller")
  OBVIOUS
<1>x. PICK x : x = from.w /\ x \in Ledgers
  BY DEF Accounts
<1>2. Acl(by, 1) \in DOMAIN seen
  BY <1>p, OneRead DEF NameReads, SpawnBuyReads
<1>l. PICK acl : acl = seen[Acl(by, 1)] /\ acl \in Acls
  BY <1>2, AclSeen
<1>3. acl = x.acl[by]
  <2>1. NowAt(x, from.g, seen)
    BY <1>x
  <2> QED BY <1>1, <1>2, <1>l, <2>1, ReadNow DEF AclOf
<1>t. PICK tx : tx = BootstrapOwner(by, a, acl)
  OBVIOUS
<1>4. SpawnBuyTx(p, seen) = tx
  BY <1>p, <1>l, <1>t DEF SpawnBuyTx
<1>5. \A u \in Users : \/ Says(x, a, u, by = u)
                       \/ by = u /\ u \in x.ctrl[a] /\ Silent(x, a, u)
  <2>1. \A u \in Users : (by = u) \in BOOLEAN
    OBVIOUS
  <2> QED BY <1>p, <1>x, <2>1, ToldSays DEF Stale
\* Who has the owner's entry lacks the other only if he does not control it.
<1>6. ASSUME Says(x, a, by, TRUE) PROVE FALSE
  <2>1. Once(x, by, own) /\ Iff(x, by, con, by \in x.ctrl[a])
    BY <1>6, <1>e DEF Says, Iff
  <2>2. Holding(acl, own) # {} /\ acl.exists
    <3>1. Holding(acl, own) # {}
      BY <1>3, <2>1 DEF Once, Spots
    <3>2. acl.pages # <<>>
      BY <3>1 DEF Holding
    <3>3. Paged(acl)
      BY <1>x, <1>1, <1>3 DEF Ledgers
    <3> QED BY <3>1, <3>2, <3>3 DEF Paged
  <2>3. tx # <<>>
    BY <1>4
  <2>5. Holding(acl, con) # {} => tx = <<>>
    BY <1>1, <1>e, <1>l, <1>t, <2>2, BootstrapHeld
  <2>4. PICK j : RecordIx(by, j, con) \in ToSet(tx)
    BY <1>1, <1>e, <1>l, <1>t, <2>2, <2>3, <2>5, BootstrapHeld
  <2>6. None(x, by, con)
    BY <1>3, <2>3, <2>5 DEF None, Spots
  <2>7. by \notin x.ctrl[a]
    BY <2>1, <2>6 DEF Iff, Once, None
  <2>8. TxOK(tx, ants) /\ \A ix \in ToSet(tx) : ix.op \in AclIxs
    BY <1>1, <1>l, <1>t, BootstrapOK, BootstrapIxs
  <2>9. Relisted(from.w, to.w, tx)
    BY <1>4, <2>8, AclPath
  <2>10. HasRole(x, by, con)
    BY <1>x, <2>4, <2>9 DEF Relisted, RecordIx
  <2> QED BY <1>e, <2>7, <2>10 DEF HasRole, Entry
<1>7. by \in x.ctrl[a] /\ Silent(x, a, by)
  BY <1>1, <1>5, <1>6
<1>8. ASSUME NEW u \in Users, u # by PROVE Says(x, a, u, FALSE)
  <2>1. (by = u) = FALSE
    BY <1>8
  <2> QED BY <1>5, <1>8, <2>1
<1>9. Holding(acl, own) = {} /\ Holding(acl, con) = {}
  BY <1>e, <1>3, <1>7 DEF Silent, None, Spots
<1>10. Leads(BootstrapOwner(by, a, acl), from, to)
  BY <1>4, <1>t
<1> QED BY <1>p, <1>x, <1>1, <1>e, <1>l, <1>7, <1>8, <1>9, <1>10, BootstrapRights

----------------------------------------------------------------------------
(* What the other calls on one ANT do to its lists.                        *)

\* An escrow takes an ANT, or gives it away, without a word to the lists.
LEMMA EscrowStales ==
  ASSUME NEW p, p.op \in Moves, NEW seen, NEW ants, TxOK(EscrowTx(p, seen), ants),
         NEW from, NEW to, Leads(EscrowTx(p, seen), from, to), from \in Accounts,
         NEW a \in Ants, Stale(from.w, a)
  PROVE  Stale(to.w, a)
<1>t. PICK tx : tx = EscrowTx(p, seen)
  OBVIOUS
<1>1. \E ix : tx = <<ix>> /\ ix.op \in EscrowIxs
  <2>1. CASE p.op = "deposit"
    BY <1>t, <2>1 DEF EscrowTx, DepositTx, EscrowIxs, Claims, AntClaims, TokenClaims, VaultClaims
  <2>2. CASE p.op = "cancel"
    BY <1>t, <2>2 DEF EscrowTx, CancelTx, EscrowIxs, Claims, AntClaims, TokenClaims, VaultClaims
  <2>3. CASE p.op \in AntClaims
    <3>1. ClaimIx(p, seen[Box(p)]).op = "claim"
      BY DEF ClaimIx
    <3>2. tx = <<ClaimIx(p, seen[Box(p)])>>
      BY <1>t, <2>3 DEF EscrowTx, ClaimAntTx, AntClaims, TokenClaims, VaultClaims
    <3> QED BY <3>1, <3>2 DEF EscrowIxs
  <2> QED BY <2>1, <2>2, <2>3 DEF Moves
<1>2. \A i \in DOMAIN tx : tx[i].op \in EscrowIxs
  BY <1>1
<1>3. PICK st : Path(st, tx, from, to)
  BY <1>t DEF Leads
<1> QED BY <1>t, <1>2, <1>3, StalePath

\* Reconciling an ANT the program knows the owner of changes nothing.
LEMMA ReconcileStays ==
  ASSUME NEW p, p.a \in Ants, NEW from, NEW to, Leads(<<AntIx("reconcile", p)>>, from, to),
         from.w.known[p.a] = from.w.owner[p.a]
  PROVE  to.w = from.w
<1>i. PICK ix, ants : ix = AntIx("reconcile", p) /\ ants = {p.a} /\ p.a \in ants
  OBVIOUS
<1>1. ix.op = "reconcile" /\ ix.a = p.a
  BY <1>i DEF AntIx
<1>2. IxOK(ix, ants) /\ ix.op \in AssetIxs /\ ix.op \notin GarIxs /\ ix.op \in AntIxs
  <2>1. ix.op \in AntIxs /\ ix.op \in AssetIxs /\ ix.op \notin GarIxs
    BY <1>1 DEF AssetIxs, AntIxs, GarIxs, RegistryIxs, DelegationIxs, SettingsIxs
  <2>2. AssetOK(ix, ants)
    BY <1>i, <1>1 DEF AssetOK
  <2> QED BY <2>1, <2>2 DEF IxOK
<1>3. to.w \in OnAsset(from.w, ix) /\ from.w \in Ledgers
  BY <1>i, <1>2, FirstOn
<1>4. to.w \in OnAnt(from.w, ix)
  BY <1>1, <1>2, <1>3 DEF OnAsset, AclIxs
<1>5. Reconciled(from.w, to.w, ix.a)
  BY <1>1, <1>3, <1>4, ReconcileEffect
<1> QED BY <1>1, <1>5 DEF Reconciled

\* A name bought with a new ANT: the lists have not heard of it.
Untouched(x, a, by) ==
    /\ x.owner[a] = by /\ x.known[a] = by /\ x.ctrl[a] = {by}
    /\ \A u \in Users : Untold(x, a, u)

\* The first stage makes the ANT the buyer's and records no entry.
LEMMA BoughtUntouched ==
  ASSUME NEW p, Asked(p), p.op = "spawnBuy", p.stage = 1, NEW seen,
         NEW from, NEW to, Leads(SpawnBuyTx(p, seen), from, to), Blank(from.w, p.a)
  PROVE  Untouched(to.w, p.a, p.by)
<1>p. PICK a, by, ants : a = p.a /\ by = p.by /\ ants = {a} /\ a \in ants
  OBVIOUS
<1>1. a \in Ants /\ by \in Users /\ p.n \in Names
  BY <1>p, NameAsked DEF NameOps
<1>i. PICK ix, buy : ix = AntIx("create", p) /\ buy = With(NameIx("buy_name", p), [a |-> p.a])
  OBVIOUS
<1>2. ix.op = "create" /\ ix.a = a /\ ix.by = by
  BY <1>p, <1>i DEF AntIx
<1>3. IxOK(ix, ants) /\ ix.op \in AssetIxs /\ ix.op \notin GarIxs /\ ix.op \in AntIxs
  <2>1. ix.op \in AntIxs /\ ix.op \in AssetIxs /\ ix.op \notin GarIxs
    BY <1>2 DEF AssetIxs, AntIxs, GarIxs, RegistryIxs, DelegationIxs, SettingsIxs
  <2>2. AssetOK(ix, ants)
    BY <1>1, <1>p, <1>2 DEF AssetOK
  <2> QED BY <2>1, <2>2 DEF IxOK
<1>4. IxOK(buy, ants)
  BY <1>p, <1>1, <1>i, NameIxsOK
<1>5. buy.op = "buy_name"
  <2>b. PICK base, more : base = NameIx("buy_name", p) /\ more = [a |-> p.a]
    OBVIOUS
  <2>1. "op" \in DOMAIN base /\ base.op = "buy_name"
    BY <2>b DEF NameIx
  <2>2. \A f \in DOMAIN base : With(base, more)[f] = base[f]
    BY WithFields
  <2> QED BY <1>i, <2>b, <2>1, <2>2
<1>6. buy.op \in NameIxs /\ buy.op \in AssetIxs /\ buy.op \notin GarIxs
  BY <1>5 DEF NameIxs, AssetIxs, GarIxs, RegistryIxs, DelegationIxs, SettingsIxs
<1>7. PICK mid : Leads(<<ix>>, from, mid) /\ Leads(<<buy>>, mid, to)
  <2>1. SpawnBuyTx(p, seen) = <<ix>> \o <<buy>>
    BY <1>i DEF SpawnBuyTx
  <2> QED BY <2>1, SingleSet, LeadsSplit
<1>x. PICK x, m, y : x = from.w /\ m = mid.w /\ y = to.w
  OBVIOUS
<1>8. x \in Ledgers /\ m \in Ledgers /\ Created(x, m, a, by)
  <2>1. x \in Ledgers /\ m \in Ledgers /\ m \in OnAsset(x, ix)
    BY <1>3, <1>7, <1>x, FirstOn
  <2>2. m \in OnAnt(x, ix)
    BY <1>2, <1>3, <2>1 DEF OnAsset, AclIxs
  <2>3. Created(x, m, ix.a, ix.by)
    BY <1>2, <2>1, <2>2, CreateEffect
  <2> QED BY <1>2, <2>1, <2>3
<1>9. Alike(m, y) /\ y \in Ledgers
  <2>1. y \in OnAsset(m, buy) /\ y \in Ledgers
    BY <1>4, <1>6, <1>7, <1>x, FirstOn
  <2>2. y \in OnNames(m, buy)
    BY <1>5, <2>1 DEF OnAsset, AclIxs, AntIxs, RecordIxs, EscrowIxs
  <2> QED BY <1>6, <1>8, <2>1, <2>2, NamesEffect
<1>10. \A u \in Users : Silent(x, a, u)
  <2>1. x.owner[a] = Nobody
    BY <1>8 DEF Created
  <2>2. \A u \in Users : Untold(x, a, u)
    BY <1>p, <1>x, <2>1 DEF Blank
  <2> QED BY <1>8, <2>2, ToldSays
<1>11. /\ y.owner[a] = by /\ y.known[a] = by /\ y.ctrl[a] = {by}
       /\ \A u \in Users : Silent(y, a, u)
  <2>1. m.owner[a] = by /\ m.known[a] = by /\ m.ctrl[a] = {by}
    BY <1>1, <1>8, OwnersKnown DEF Created
  <2>2. \A u \in Users : \A e : Spots(y, u, e) = Spots(x, u, e)
    BY <1>8, <1>9 DEF Created, Alike, Still
  <2> QED BY <1>9, <1>10, <2>1, <2>2 DEF Alike, Silent, None
<1>12. \A u \in Users : Untold(y, a, u)
  BY <1>9, <1>11, ToldSays
<1> QED BY <1>p, <1>x, <1>11, <1>12 DEF Untouched

\* So what it leaves is stale at most.
LEMMA BoughtStale ==
  ASSUME NEW p, Asked(p), p.op = "spawnBuy", p.stage = 1, NEW seen,
         NEW from, NEW to, Leads(SpawnBuyTx(p, seen), from, to), Blank(from.w, p.a)
  PROVE  Stale(to.w, p.a)
<1>p. PICK y, a, by : y = to.w /\ a = p.a /\ by = p.by
  OBVIOUS
<1>1. /\ y.known[a] = by /\ y.ctrl[a] = {by} /\ \A u \in Users : Untold(y, a, u)
  BY <1>p, BoughtUntouched DEF Untouched
<1>2. ASSUME NEW u \in Users
      PROVE  Told(y, a, u, y.known[a] = u) \/ (y.known[a] = u /\ u \in y.ctrl[a] /\ Untold(y, a, u))
  <2>1. CASE u = by
    BY <1>1, <2>1
  <2>2. CASE u # by
    <3>1. (y.known[a] = u) = FALSE /\ u \notin y.ctrl[a]
      BY <1>1, <2>2
    <3>2. Told(y, a, u, FALSE)
      BY <1>1, <3>1 DEF Told, Untold
    <3> QED BY <3>1, <3>2
  <2> QED BY <2>1, <2>2
<1> QED BY <1>p, <1>2 DEF Stale

\* The sync of the traits says nothing of the lists.
LEMMA TraitsMild ==
  ASSUME NEW p, Asked(p), p.op = "spawnBuy", p.stage = 3, NEW seen
  PROVE  TxOK(SpawnBuyTx(p, seen), {})
<1>1. p.n \in Names /\ p.by \in Users
  BY NameAsked DEF NameOps
<1>2. IxOK(SyncIx(p, p.a), {})
  BY <1>1, NameIxsOK
<1>3. SpawnBuyTx(p, seen) \in {<<>>, <<SyncIx(p, p.a)>>}
  BY DEF SpawnBuyTx, SyncIfOwner
<1> QED BY <1>2, <1>3, OneOK, NoneOK

----------------------------------------------------------------------------
(* The planner writes down what the programs will do.                      *)
LEMMA LeadsAppend ==
  ASSUME NEW S, NEW tx \in Seq(S), NEW ix, NEW from, NEW mid, Leads(tx, from, mid),
         NEW to \in Accounts, to \in After(mid, ix)
  PROVE  Leads(Append(tx, ix), from, to)
<1>1. PICK st : Path(st, tx, from, mid)
  BY DEF Leads
<1>n. PICK n : n = Len(tx) /\ n \in Nat
  OBVIOUS
<1>2. Len(Append(tx, ix)) = n + 1 /\ Append(tx, ix)[n + 1] = ix
      /\ \A i \in 1..n : Append(tx, ix)[i] = tx[i]
  BY <1>n
<1>3. /\ st \in [0..n -> Accounts] /\ st[0] = from /\ st[n] = mid
      /\ \A i \in 1..n : st[i] \in After(st[i - 1], tx[i])
  BY <1>1, <1>n DEF Path
<1>s. PICK new : new = [i \in 0..(n + 1) |-> IF i = n + 1 THEN to ELSE st[i]]
  OBVIOUS
<1>4. /\ new \in [0..(n + 1) -> Accounts] /\ new[0] = from /\ new[n + 1] = to
      /\ \A i \in 0..n : new[i] = st[i]
  BY <1>n, <1>3, <1>s
<1>5. ASSUME NEW i \in 1..(n + 1) PROVE new[i] \in After(new[i - 1], Append(tx, ix)[i])
  <2>1. CASE i = n + 1
    <3>1. new[i] = to /\ new[i - 1] = mid
      BY <1>n, <1>3, <1>4, <2>1
    <3> QED BY <1>2, <2>1, <3>1
  <2>2. CASE i # n + 1
    <3>1. i \in 1..n /\ i - 1 \in 0..n /\ i \in 0..n
      BY <1>n, <2>2
    <3> QED BY <1>2, <1>3, <1>4, <3>1
  <2> QED BY <2>1, <2>2
<1> QED BY <1>2, <1>4, <1>5 DEF Leads, Path

\* An instruction about a list that the program takes.
LeadsOn(tx, from, x) == \E to \in Accounts : Leads(tx, from, to) /\ to.w = x

\* A transaction goes on with an instruction on the lists that is accepted.
LEMMA AclTaken ==
  ASSUME NEW tx, (\E S : tx \in Seq(S)), NEW from, NEW x, LeadsOn(tx, from, x),
         NEW ants, NEW ix, ix.op \in AclIxs, AssetOK(ix, ants), NEW y \in OnAcl(x, ix)
  PROVE  LeadsOn(Append(tx, ix), from, y)
<1>m. PICK mid \in Accounts : Leads(tx, from, mid) /\ mid.w = x
  BY DEF LeadsOn
<1>1. ix.op \notin GarIxs
  BY DEF AclIxs, GarIxs, RegistryIxs, DelegationIxs, SettingsIxs
<1>t. PICK to : to = [mid EXCEPT !.w = y]
  OBVIOUS
<1>w. x \in Ledgers
  BY <1>m DEF Accounts
<1>2. y \in Ledgers
  BY <1>w, OnAclTyped
<1>3. to \in Accounts /\ to.w = y
  BY <1>t, <1>2 DEF Accounts
<1>4. y \in OnAsset(mid.w, ix)
  BY <1>m DEF OnAsset
<1>5. to \in After(mid, ix)
  BY <1>1, <1>4, <1>t DEF After
<1> QED BY <1>m, <1>3, <1>5, LeadsAppend DEF LeadsOn

\* The instructions of a plan so far lead to the lists it counts with.
Tracks(st, from, u) ==
    \E x : /\ LeadsOn(st.ixs, from, x) /\ x \in Ledgers /\ x.acl[u] = st.acls[u]
           /\ x.owner = from.w.owner /\ x.ctrl = from.w.ctrl

\* The planner's list gets a head where the program's does.
LEMMA HeadTracks ==
  ASSUME NEW us, NEW ants, NEW st \in Plans(us, ants), NEW op \in AclOps(us, ants), NEW from,
         op.action = "record", op.user \in Users, Tracks(st, from, op.user)
  PROVE  Tracks(HeadOp(st, op), from, op.user) /\ HeadOp(st, op).acls[op.user].exists
<1>u. PICK u : u = op.user /\ u \in us /\ u \in Users
  BY DEF AclOps
<1>p. st.acls \in [us -> Acls] /\ st.ixs \in Seq(AclInstrs(us, ants))
  BY DEF Plans
<1>1. CASE st.acls[u].exists
  BY <1>u, <1>1 DEF HeadOp
<1>2. CASE ~st.acls[u].exists
  <2>r. PICK r, ix : r = HeadOp(st, op) /\ ix = RegisterIx(u)
    OBVIOUS
  <2>1. /\ r.ixs = Append(st.ixs, ix) /\ r.acls[u] = [st.acls[u] EXCEPT !.exists = TRUE]
        /\ r.acls[u].exists
    BY <1>u, <1>p, <1>2, <2>r DEF HeadOp, Acls
  <2>2. ix.op = "register" /\ ix.user = u
    BY <2>r DEF RegisterIx
  <2>3. PICK x : /\ LeadsOn(st.ixs, from, x) /\ x \in Ledgers /\ x.acl[u] = st.acls[u]
                 /\ x.owner = from.w.owner /\ x.ctrl = from.w.ctrl
    BY <1>u DEF Tracks
  <2>x. PICK y : y = [x EXCEPT !.acl[u].exists = TRUE]
    OBVIOUS
  <2>4. x.acl \in [Users -> Acls] /\ x \in LedgerType
    BY <2>3 DEF Ledgers, LedgerType
  <2>5. y \in OnAcl(x, ix) /\ AssetOK(ix, ants) /\ ix.op \in AclIxs
    BY <1>2, <2>2, <2>3, <2>x DEF OnAcl, When, AssetOK, AclIxs
  <2>6. y.acl[u] = r.acls[u] /\ y.owner = x.owner /\ y.ctrl = x.ctrl /\ y \in Ledgers
    <3>1. y \in Ledgers
      BY <2>3, <2>5, OnAclTyped
    <3> QED BY <1>u, <2>1, <2>3, <2>4, <2>x, <3>1 DEF LedgerType
  <2>7. LeadsOn(r.ixs, from, y)
    BY <1>p, <2>1, <2>3, <2>5, AclTaken
  <2>8. Tracks(r, from, u)
    BY <2>3, <2>6, <2>7 DEF Tracks
  <2> QED BY <1>u, <2>r, <2>1, <2>8
<1> QED BY <1>1, <1>2

\* A page for a list that has none with room, and the entry in it.
LEMMA RecordTracks ==
  ASSUME NEW us, NEW ants, NEW st \in Plans(us, ants), NEW op \in AclOps(us, ants), NEW from,
         op.action = "record", op.user \in Users, Tracks(st, from, op.user),
         st.acls[op.user].exists, HasRole(from.w, op.user, op.entry)
  PROVE  Tracks(PlanRecord(st, op), from, op.user) /\ PlanRecord(st, op).acls[op.user].exists
<1>u. PICK u, e : u = op.user /\ e = op.entry /\ u \in us /\ u \in Users /\ e \in EntriesOf(ants)
  BY DEF AclOps
<1>p. st.acls \in [us -> Acls] /\ st.ixs \in Seq(AclInstrs(us, ants))
  BY DEF Plans
<1>l. PICK acl : acl = st.acls[u] /\ acl \in Acls /\ acl.exists
  BY <1>u, <1>p
<1>q. /\ acl.pages \in Seq(SUBSET Entries) /\ Len(acl.pages) \in Nat
      /\ DOMAIN acl.pages = 1..Len(acl.pages)
  BY <1>l DEF Acls, Entries
<1>1. CASE Holding(acl, e) # {}
  <2>1. PlanRecord(st, op) = st
    BY <1>u, <1>l, <1>1 DEF PlanRecord
  <2> QED BY <2>1
<1>2. CASE Holding(acl, e) = {}
  <2>r. PICK r, room, page : /\ r = PlanRecord(st, op) /\ room = WithRoom(acl)
                             /\ page = (IF room = {} THEN Len(acl.pages) + 1 ELSE Min(room))
    OBVIOUS
  <2>i. PICK rec, add : rec = RecordIx(u, page, e) /\ add = AddPageIx(u, page)
    OBVIOUS
  <2>j. /\ rec.op = "record" /\ rec.user = u /\ rec.page = page /\ rec.entry = e
        /\ add.op = "add_page" /\ add.user = u /\ add.page = page
    BY <2>i DEF RecordIx, AddPageIx
  <2>k. AssetOK(rec, ants) /\ AssetOK(add, ants) /\ rec.op \in AclIxs /\ add.op \in AclIxs
    BY <1>u, <2>j DEF AssetOK, AclIxs
  <2>g. PICK grown : grown = IF room = {} THEN Append(acl.pages, {}) ELSE acl.pages
    OBVIOUS
  <2>m. /\ room = {} => page = Len(acl.pages) + 1 /\ page > Len(acl.pages)
        /\ room # {} => page \in room /\ page \in DOMAIN acl.pages /\ ~(page > Len(acl.pages))
    <3>1. room \subseteq 1..Len(acl.pages)
      BY <1>q, <2>r DEF WithRoom
    <3>2. room # {} => Min(room) \in room
      BY <3>1, MinOfNats
    <3> QED BY <1>q, <2>r, <3>1, <3>2
  <2>1. /\ r.acls[u] = [acl EXCEPT !.pages = [grown EXCEPT ![page] = @ \union {e}]]
        /\ r.ixs = IF room = {} THEN Append(Append(st.ixs, add), rec) ELSE Append(st.ixs, rec)
    <3>d. PICK dest : dest = Destination(u, acl)
      OBVIOUS
    <3>1. dest.page = page /\ dest.prep = <<>> \o (IF room = {} THEN <<add>> ELSE <<>>)
      BY <1>l, <2>r, <2>i, <3>d DEF Destination
    <3>2. r = [acls |-> [st.acls EXCEPT ![u].pages = [grown EXCEPT ![page] = @ \union {e}]],
               ixs |-> st.ixs \o dest.prep \o <<rec>>]
      BY <1>u, <1>l, <1>2, <2>r, <2>i, <2>g, <2>m, <3>d, <3>1 DEF PlanRecord
    <3>3. r.acls[u] = [acl EXCEPT !.pages = [grown EXCEPT ![page] = @ \union {e}]]
      BY <1>u, <1>p, <1>l, <3>2
    <3>4. r.ixs = st.ixs \o dest.prep \o <<rec>>
      BY <3>2
    <3>5. CASE room = {}
      <4>1. dest.prep = <<add>>
        BY <3>1, <3>5
      <4> QED BY <1>p, <3>3, <3>4, <3>5, <4>1
    <3>6. CASE room # {}
      <4>1. dest.prep = <<>>
        BY <3>1, <3>6
      <4> QED BY <1>p, <3>3, <3>4, <3>6, <4>1
    <3> QED BY <3>5, <3>6
  <2>e. r.acls[u].exists
    BY <1>l, <2>1 DEF Acls
  <2>s. PICK before : before = IF room = {} THEN Append(st.ixs, add) ELSE st.ixs
    OBVIOUS
  <2>S. PICK T : before \in Seq(T) /\ r.ixs = Append(before, rec)
    <3>1. st.ixs \in Seq(AclInstrs(us, ants) \union {add})
      BY <1>p
    <3> QED BY <2>1, <2>s, <3>1
  <2>2. \E x : /\ LeadsOn(before, from, x) /\ x \in Ledgers
               /\ x.acl[u] = [acl EXCEPT !.pages = grown]
               /\ x.owner = from.w.owner /\ x.ctrl = from.w.ctrl
    <3>1. PICK x : /\ LeadsOn(st.ixs, from, x) /\ x \in Ledgers /\ x.acl[u] = acl
                   /\ x.owner = from.w.owner /\ x.ctrl = from.w.ctrl
      BY <1>u, <1>l DEF Tracks
    <3>2. CASE room # {}
      <4>1. [acl EXCEPT !.pages = grown] = acl
        BY <1>l, <2>g, <3>2 DEF Acls
      <4> QED BY <2>s, <3>1, <3>2, <4>1
    <3>3. CASE room = {}
      <4>x. PICK y : y = [x EXCEPT !.acl[u].pages = Append(@, {})]
        OBVIOUS
      <4>1. x.acl \in [Users -> Acls] /\ x \in LedgerType
        BY <3>1 DEF Ledgers, LedgerType
      <4>2. y \in OnAcl(x, add)
        BY <1>l, <2>j, <2>m, <3>1, <3>3, <4>x DEF OnAcl, When
      <4>3. y.acl[u] = [acl EXCEPT !.pages = grown] /\ y.owner = x.owner /\ y.ctrl = x.ctrl
        BY <1>u, <2>g, <3>1, <3>3, <4>1, <4>x DEF LedgerType
      <4>4. LeadsOn(Append(st.ixs, add), from, y)
        BY <1>p, <2>k, <3>1, <4>2, AclTaken
      <4>5. y \in Ledgers
        BY <2>k, <3>1, <4>2, OnAclTyped
      <4> QED BY <2>s, <3>1, <3>3, <4>3, <4>4, <4>5
    <3> QED BY <3>2, <3>3
  <2>3. PICK x : /\ LeadsOn(before, from, x) /\ x \in Ledgers
                 /\ x.acl[u] = [acl EXCEPT !.pages = grown]
                 /\ x.owner = from.w.owner /\ x.ctrl = from.w.ctrl
    BY <2>2
  <2>4. page \in DOMAIN grown /\ Cardinality(grown[page]) < PageSize
    <3>1. CASE room = {}
      <4>1. page \in DOMAIN grown /\ grown[page] = {}
        BY <1>q, <2>g, <2>m, <3>1
      <4>2. Cardinality({}) = 0
        BY FS_EmptySet
      <4> QED BY <4>1, <4>2, PageSizeAssumption
    <3>2. CASE room # {}
      BY <2>g, <2>m, <2>r, <3>2 DEF WithRoom
    <3> QED BY <3>1, <3>2
  <2>x. PICK y, new : y = In(x, u, page, e) /\ new = [grown EXCEPT ![page] = @ \union {e}]
    OBVIOUS
  <2>5. x.acl \in [Users -> Acls] /\ x \in LedgerType
    BY <2>3 DEF Ledgers, LedgerType
  <2>6. x.acl[u].exists /\ x.acl[u].pages = grown
    BY <1>l, <2>3 DEF Acls
  <2>7. PageOpen(x, u, page) /\ Fits(x, u, page, e) /\ HasRole(x, u, e)
    <3>1. PageOpen(x, u, page) /\ Fits(x, u, page, e)
      BY <2>4, <2>6 DEF PageOpen, Fits, WithRoom
    <3>2. HasRole(x, u, e)
      BY <1>u, <2>3 DEF HasRole
    <3> QED BY <3>1, <3>2
  <2>8. y \in OnAcl(x, rec)
    BY <2>j, <2>7, <2>x DEF OnAcl, When
  <2>9. y.acl[u] = r.acls[u] /\ y.owner = x.owner /\ y.ctrl = x.ctrl
    <3>1. y.acl[u] = [x.acl[u] EXCEPT !.pages = [x.acl[u].pages EXCEPT ![page] = @ \union {e}]]
      BY <1>u, <2>5, <2>x DEF In, LedgerType
    <3>2. y.owner = x.owner /\ y.ctrl = x.ctrl
      BY <2>5, <2>x DEF In, LedgerType
    <3>3. y.acl[u] = [x.acl[u] EXCEPT !.pages = new]
      BY <2>6, <2>x, <3>1
    <3>4. r.acls[u] = [acl EXCEPT !.pages = new]
      BY <2>1, <2>x
    <3>5. [[acl EXCEPT !.pages = grown] EXCEPT !.pages = new] = [acl EXCEPT !.pages = new]
      BY <1>l DEF Acls
    <3> QED BY <2>3, <3>2, <3>3, <3>4, <3>5
  <2>10. LeadsOn(r.ixs, from, y) /\ y \in Ledgers
    <3>1. y \in Ledgers
      BY <2>k, <2>3, <2>8, OnAclTyped
    <3> QED BY <2>S, <2>k, <2>3, <2>8, <3>1, AclTaken
  <2>11. Tracks(r, from, u)
    BY <2>3, <2>9, <2>10 DEF Tracks
  <2> QED BY <1>u, <2>r, <2>e, <2>11
<1> QED BY <1>1, <1>2

\* Who owns and controls an ANT can have both entries recorded, whatever room
\* his pages have.
LEMMA BootstrapTaken ==
  ASSUME NEW u \in Users, NEW a \in Ants, NEW from \in Accounts,
         HasRole(from.w, u, Entry(a, "owner")), HasRole(from.w, u, Entry(a, "controller"))
  PROVE  \E to : Leads(BootstrapOwner(u, a, from.w.acl[u]), from, to)
<1>l. PICK acl : acl = from.w.acl[u] /\ acl \in Acls
  BY DEF Accounts, Ledgers, LedgerType
<1>o. PICK o1, o2 : o1 = Op("record", "owner", u, a) /\ o2 = Op("record", "controller", u, a)
  OBVIOUS
<1>p. PICK ops, acls : ops = <<o1, o2>> /\ acls = Just(u, acl)
  OBVIOUS
<1>s. PICK us, ants : us = {u} /\ ants = {a}
  OBVIOUS
<1>1. /\ o1.action = "record" /\ o1.user = u /\ o1.entry = Entry(a, "owner")
      /\ o2.action = "record" /\ o2.user = u /\ o2.entry = Entry(a, "controller")
      /\ o1 \in AclOps(us, ants) /\ o2 \in AclOps(us, ants)
  BY <1>o, <1>s DEF Op, Entry, AclOps, Entries, EntriesOf
<1>2. ops \in Seq(AclOps(us, ants)) /\ Len(ops) = 2 /\ ops[1] = o1 /\ ops[2] = o2
  BY <1>p, <1>1
<1>3. acls \in [us -> Acls] /\ acls[u] = acl
  BY <1>l, <1>p, <1>s DEF Just
<1>V. PICK V : V = Plans(us, ants)
  OBVIOUS
<1>n. 0 \in 0..2 /\ 1 \in 0..2 /\ 2 \in 0..2 /\ 1 \in 1..2 /\ 2 \in 1..2 /\ 1 - 1 = 0 /\ 2 - 1 = 1
  OBVIOUS
<1>b. PICK base : base = [acls |-> acls, ixs |-> <<>>]
  OBVIOUS
<1>4. PICK run : /\ run \in [0..2 -> V] /\ run[0] = base /\ PlanHeads(ops, acls) = run[2]
                 /\ run[1] = HeadOp(run[0], o1) /\ run[2] = HeadOp(run[1], o2)
  <2>1. PICK run : HeadRun(run, ops, Plans(us, ants), acls) /\ PlanHeads(ops, acls) = run[Len(ops)]
    BY <1>2, <1>3, HeadRuns
  <2>2. /\ run \in [0..2 -> V] /\ run[0] = base
        /\ \A k \in 1..2 : run[k] = HeadOp(run[k - 1], ops[k])
    BY <1>2, <1>b, <1>V, <2>1 DEF HeadRun
  <2>3. run[1] = HeadOp(run[1 - 1], ops[1]) /\ run[2] = HeadOp(run[2 - 1], ops[2])
    BY <1>n, <2>2
  <2> QED BY <1>2, <1>n, <2>1, <2>2, <2>3
<1>5. PICK go : /\ go \in [0..2 -> V] /\ go[0] = run[2] /\ BootstrapOwner(u, a, acl) = go[2].ixs
                /\ go[1] = PlanRecord(go[0], o1) /\ go[2] = PlanRecord(go[1], o2)
  <2>1. PICK go : /\ PlanRun(go, ops, Plans(us, ants), PlanHeads(ops, acls))
                  /\ PlanAclMaintenance(ops, acls) = go[Len(ops)].ixs
    BY <1>2, <1>3, PlanRuns
  <2>2. BootstrapOwner(u, a, acl) = PlanAclMaintenance(ops, acls)
    BY <1>o, <1>p DEF BootstrapOwner
  <2>3. /\ go \in [0..2 -> V] /\ go[0] = run[2]
        /\ \A k \in 1..2 : go[k] = PlanOp(go[k - 1], ops[k])
    BY <1>2, <1>V, <1>4, <2>1 DEF PlanRun
  <2>4. go[1] = PlanOp(go[1 - 1], ops[1]) /\ go[2] = PlanOp(go[2 - 1], ops[2])
    BY <1>n, <2>3
  <2>5. go[1] = PlanRecord(go[0], o1) /\ go[2] = PlanRecord(go[1], o2)
    BY <1>1, <1>2, <1>n, <2>4 DEF PlanOp
  <2> QED BY <1>2, <2>1, <2>2, <2>3, <2>5
<1>6. Tracks(base, from, u)
  <2>1. PICK st : st = [i \in 0..0 |-> from]
    OBVIOUS
  <2>2. Len(<<>>) = 0 /\ 1..0 = {} /\ 0 \in 0..0
    OBVIOUS
  <2>3. Path(st, <<>>, from, from)
    BY <2>1, <2>2 DEF Path
  <2>4. LeadsOn(<<>>, from, from.w)
    BY <2>3 DEF LeadsOn, Leads
  <2>5. base.ixs = <<>> /\ base.acls[u] = from.w.acl[u] /\ from.w \in Ledgers
    BY <1>b, <1>3, <1>l DEF Accounts
  <2> QED BY <2>4, <2>5 DEF Tracks
<1>r. \A i \in 0..2 : run[i] \in Plans(us, ants) /\ go[i] \in Plans(us, ants)
  BY <1>V, <1>4, <1>5
<1>7. Tracks(run[1], from, u)
  <2>1. run[0] \in Plans(us, ants) /\ Tracks(run[0], from, o1.user)
    BY <1>n, <1>r, <1>1, <1>4, <1>6
  <2> QED BY <1>1, <1>4, <2>1, HeadTracks
<1>8. Tracks(run[2], from, u) /\ run[2].acls[u].exists
  <2>1. run[1] \in Plans(us, ants) /\ Tracks(run[1], from, o2.user)
    BY <1>n, <1>r, <1>1, <1>7
  <2> QED BY <1>1, <1>4, <2>1, HeadTracks
<1>9. Tracks(go[1], from, u) /\ go[1].acls[u].exists
  <2>1. /\ go[0] \in Plans(us, ants) /\ Tracks(go[0], from, o1.user)
        /\ go[0].acls[o1.user].exists /\ HasRole(from.w, o1.user, o1.entry)
    BY <1>n, <1>r, <1>1, <1>5, <1>8
  <2> QED BY <1>1, <1>5, <2>1, RecordTracks
<1>10. Tracks(go[2], from, u)
  <2>1. /\ go[1] \in Plans(us, ants) /\ Tracks(go[1], from, o2.user)
        /\ go[1].acls[o2.user].exists /\ HasRole(from.w, o2.user, o2.entry)
    BY <1>n, <1>r, <1>1, <1>9
  <2> QED BY <1>1, <1>5, <2>1, RecordTracks
<1> QED BY <1>l, <1>5, <1>10 DEF Tracks, LeadsOn

----------------------------------------------------------------------------
(* What the stages of a purchase with a new ANT leave behind.              *)
InLists(x, a, by) == ExactNow(x, a, by) /\ by \in x.ctrl[a]

\* The sync of the entries, built from the pages as they are, has a way.
LEMMA SyncTaken ==
  ASSUME NEW p, Asked(p), p.op = "spawnBuy", p.stage = 2, NEW seen,
         NameReads(p, seen) = {}, NEW from \in Accounts, NowAt(from.w, from.g, seen),
         Untouched(from.w, p.a, p.by)
  PROVE  \E to : Leads(SpawnBuyTx(p, seen), from, to)
<1>1. p.a \in Ants /\ p.by \in Users
  BY NameAsked DEF NameOps
<1>2. Acl(p.by, 1) \in DOMAIN seen
  BY OneRead DEF NameReads, SpawnBuyReads
<1>3. seen[Acl(p.by, 1)] = from.w.acl[p.by]
  <2>1. seen[Acl(p.by, 1)] = AclOf(from.w, p.by)
    BY <1>2, ReadNow
  <2> QED BY <1>1, <2>1 DEF AclOf
<1>4. SpawnBuyTx(p, seen) = BootstrapOwner(p.by, p.a, from.w.acl[p.by])
  BY <1>3 DEF SpawnBuyTx
<1>5. HasRole(from.w, p.by, Entry(p.a, "owner")) /\ HasRole(from.w, p.by, Entry(p.a, "controller"))
  BY EntriesApart DEF HasRole, Untouched
<1> QED BY <1>1, <1>4, <1>5, BootstrapTaken

\* And is never without an instruction; once it landed, both entries are there.
LEMMA SyncLists ==
  ASSUME NEW p, Asked(p), p.op = "spawnBuy", p.stage = 2, NEW seen, SeenOK(seen),
         NameReads(p, seen) = {}, NEW from \in Accounts, NowAt(from.w, from.g, seen),
         Untouched(from.w, p.a, p.by)
  PROVE  /\ SpawnBuyTx(p, seen) # <<>>
         /\ \A to : Leads(SpawnBuyTx(p, seen), from, to) => InLists(to.w, p.a, p.by)
<1>1. p.a \in Ants /\ p.by \in Users
  BY NameAsked DEF NameOps
<1>2. Acl(p.by, 1) \in DOMAIN seen
  BY OneRead DEF NameReads, SpawnBuyReads
<1>l. PICK acl : acl = seen[Acl(p.by, 1)] /\ acl \in Acls
  BY <1>2, AclSeen
<1>w. from.w \in Ledgers
  BY DEF Accounts
<1>3. acl = from.w.acl[p.by]
  <2>1. seen[Acl(p.by, 1)] = AclOf(from.w, p.by)
    BY <1>2, ReadNow
  <2> QED BY <1>1, <1>l, <2>1 DEF AclOf
<1>4. SpawnBuyTx(p, seen) = BootstrapOwner(p.by, p.a, acl)
  BY <1>l DEF SpawnBuyTx
<1>s. \A u \in Users : Silent(from.w, p.a, u)
  BY <1>w, ToldSays DEF Untouched
<1>5. Holding(acl, Entry(p.a, "owner")) = {} /\ Holding(acl, Entry(p.a, "controller")) = {}
  <2>1. Silent(from.w, p.a, p.by)
    BY <1>1, <1>s
  <2> QED BY <1>3, <2>1 DEF Silent, None, Spots
<1>6. PICK i, j : Bootstraps(BootstrapOwner(p.by, p.a, acl), p.by, p.a, i, j)
  BY <1>1, <1>l, <1>5, BootstrapIs
<1>7. SpawnBuyTx(p, seen) # <<>>
  <2>1. ToSet(<<>>) = {}
    BY DEF ToSet
  <2> QED BY <1>4, <1>6, <2>1 DEF Bootstraps
<1>8. ASSUME NEW to, Leads(SpawnBuyTx(p, seen), from, to) PROVE InLists(to.w, p.a, p.by)
  <2>1. \A u \in Users : u # p.by => Says(from.w, p.a, u, FALSE)
    <3>1. \A u \in Users : u # p.by => u \notin from.w.ctrl[p.a]
      BY DEF Untouched
    <3> QED BY <1>s, <3>1 DEF Says, Silent, Iff
  <2>2. Leads(BootstrapOwner(p.by, p.a, acl), from, to)
    BY <1>4, <1>8
  <2>3. ExactNow(to.w, p.a, p.by)
    BY <1>1, <1>l, <1>5, <1>s, <2>1, <2>2, BootstrapRights DEF Untouched
  <2>4. to.w.ctrl = from.w.ctrl
    <3>1. TxOK(BootstrapOwner(p.by, p.a, acl), {p.a})
      BY <1>1, <1>l, BootstrapOK
    <3>2. Relisted(from.w, to.w, BootstrapOwner(p.by, p.a, acl))
      BY <1>6, <2>2, <3>1, BootstrapPuts, AclPath
    <3> QED BY <3>2 DEF Relisted
  <2> QED BY <2>3, <2>4 DEF InLists, Untouched
<1> QED BY <1>7, <1>8

\* The sync of the traits changes nothing of that.
LEMMA TraitsKeep ==
  ASSUME NEW p, Asked(p), p.op = "spawnBuy", p.stage = 3, NEW seen, SpawnBuyTx(p, seen) # <<>>,
         NEW from, NEW to, Leads(SpawnBuyTx(p, seen), from, to), InLists(from.w, p.a, p.by)
  PROVE  InLists(to.w, p.a, p.by)
<1>1. p.n \in Names /\ p.by \in Users
  BY NameAsked DEF NameOps
<1>i. PICK ix : ix = SyncIx(p, p.a)
  OBVIOUS
<1>2. SpawnBuyTx(p, seen) = <<ix>>
  BY <1>i DEF SpawnBuyTx, SyncIfOwner
<1>3. IxOK(ix, {})
  BY <1>1, <1>i, NameIxsOK
<1>4. ix.op = "sync_attributes"
  <2>b. PICK base, more : base = NameIx("sync_attributes", p) /\ more = [a |-> p.a]
    OBVIOUS
  <2>1. "op" \in DOMAIN base /\ base.op = "sync_attributes"
    BY <2>b DEF NameIx
  <2>2. With(base, more)["op"] = base["op"]
    BY <2>1 DEF With
  <2> QED BY <1>i, <2>b, <2>1, <2>2 DEF SyncIx
<1>5. ix.op \in NameIxs /\ ix.op \in AssetIxs /\ ix.op \notin GarIxs
  BY <1>4 DEF NameIxs, AssetIxs, GarIxs, RegistryIxs, DelegationIxs, SettingsIxs
<1>x. PICK x, y : x = from.w /\ y = to.w
  OBVIOUS
<1>6. Alike(x, y)
  <2>1. y \in OnAsset(x, ix) /\ x \in Ledgers /\ y \in Ledgers
    BY <1>2, <1>3, <1>5, <1>x, FirstOn
  <2>2. y \in OnNames(x, ix)
    BY <1>4, <2>1 DEF OnAsset, AclIxs, AntIxs, RecordIxs, EscrowIxs
  <2> QED BY <1>5, <2>1, <2>2, NamesEffect
<1>7. SameSpots(x, y, p.a) /\ y.owner = x.owner /\ y.known = x.known /\ y.ctrl = x.ctrl
  BY <1>6, StillSpots DEF Alike
<1>8. Exact(y, p.a)
  <2>1. \A u \in Users : \A owns : Told(y, p.a, u, owns) <=> Told(x, p.a, u, owns)
    BY <1>7, SameCounts
  <2>2. Exact(x, p.a)
    BY <1>x DEF InLists, ExactNow
  <2> QED BY <1>7, <2>1, <2>2 DEF Exact
<1> QED BY <1>x, <1>7, <1>8 DEF InLists, ExactNow

----------------------------------------------------------------------------
(* What a call that nobody crossed read is what the accounts hold.         *)

\* A transaction was built from something read, and from what the accounts
\* hold if nothing crossed the call.
ReadAll(p, seen) ==
    /\ p.op \in AntOps => AntReads(p, seen) = {} /\ ~AntRefuses(p, seen)
    /\ p.op = "spawnBuy" => NameReads(p, seen) = {}
Built(k, seen) == SeenOK(seen) /\ ReadAll(k.p, seen) /\ k.tx = Tx(k.p, seen) /\ k.tx # <<>>

Saw(k, x, y) ==
    /\ k.pc = "read" /\ ~k.disturbed => NowAt(x, y, k.seen)
    /\ k.pc = "flight" => \E seen : Built(k, seen) /\ (~k.disturbed => NowAt(x, y, seen))
CallsSaw == \A c \in Calls : Saw(call[c], w, g)

\* A call that has read nothing has read nothing old.
LEMMA NothingNow ==
  ASSUME NEW x, NEW y
  PROVE  NowAt(x, y, <<>>)
BY DEF NowAt

\* What is read next is how it is.
LEMMA NowMore ==
  ASSUME NEW x, NEW y, NEW seen, NowAt(x, y, seen), NEW key, NEW v, v = ValueOf(x, y, key)
  PROVE  NowAt(x, y, With(seen, Just(key, v)))
BY DEF NowAt, With, Just

\* A call whose stage ended has read nothing.
LEMMA EndedSaw ==
  ASSUME NEW k, Shape(k), NEW how \in {"ok", "threw", "rejected", "failed"}, NEW x, NEW y
  PROVE  Saw(Ended(k, how), x, y)
<1>e. PICK e : e = Ended(k, how)
  OBVIOUS
<1>1. e.pc # "flight" /\ (e.pc = "read" => e.seen = <<>>)
  <2>1. CASE k.p.op = "spawnBuy" /\ k.p.stage < 3 /\ (how = "ok" \/ k.p.stage > 1)
    BY <1>e, <2>1 DEF Ended, Shape
  <2>2. CASE ~(k.p.op = "spawnBuy" /\ k.p.stage < 3 /\ (how = "ok" \/ k.p.stage > 1))
    BY <1>e, <2>2 DEF Ended, Shape
  <2> QED BY <2>1, <2>2
<1> QED BY <1>e, <1>1, NothingNow DEF Saw

\* A call that was crossed is said nothing of, the others saw no change.
LEMMA DisturbedSaw ==
  ASSUME NEW k, Shape(k), Saw(k, w, g)
  PROVE  Saw(Disturbed(k), w', g')
<1>d. PICK d : d = Disturbed(k)
  OBVIOUS
<1>1. CASE w' = w /\ g' = g
  BY <1>1 DEF Disturbed
<1>2. CASE (w' # w \/ g' # g) /\ Underway(k)
  <2>1. d.disturbed /\ d.pc = k.pc /\ d.p = k.p /\ d.tx = k.tx
    BY <1>d, <1>2 DEF Disturbed, Shape
  <2> QED BY <1>d, <2>1 DEF Saw, Built
<1>3. CASE (w' # w \/ g' # g) /\ ~Underway(k)
  <2>1. d = k /\ k.pc # "flight" /\ (k.pc = "read" => k.seen = <<>>)
    BY <1>d, <1>3 DEF Disturbed, Underway
  <2> QED BY <1>d, <2>1, NothingNow DEF Saw
<1> QED BY <1>1, <1>2, <1>3

\* A step of one call alone.
LEMMA SawSteps ==
  ASSUME IInv, CallsSaw, NEW c \in Calls, NEW k, Saw(k, w, g),
         call' = [call EXCEPT ![c] = k], w' = w, g' = g
  PROVE  CallsSaw'
BY DEF CallsSaw, IInv, CallsOK

\* CallsSaw holds on, action by action: a call begins.
LEMMA SawBegins == ASSUME IInv, CallsSaw, NEW c \in Calls, Submit(c) PROVE CallsSaw'
<1>1. call[c].pc = "idle" /\ w' = w /\ g' = g /\ Shape(call[c]) /\ call[c].seen = <<>>
  BY DEF Submit, IInv, CallsOK, CallOK, SendsWell
<1>2. PICK q : call' = [call EXCEPT ![c] = [@ EXCEPT !.pc = "read", !.p = q]]
  BY DEF Submit
<1>k. PICK k : k = [call[c] EXCEPT !.pc = "read", !.p = q]
  OBVIOUS
<1>3. k.pc = "read" /\ k.seen = <<>>
  BY <1>1, <1>k DEF Shape
<1>4. Saw(k, w, g)
  BY <1>3, NothingNow DEF Saw
<1>5. call' = [call EXCEPT ![c] = k]
  BY <1>2, <1>k DEF IInv, CallsOK
<1> QED BY <1>1, <1>4, <1>5, SawSteps

\* It reads one account more.
LEMMA SawMore == ASSUME IInv, CallsSaw, NEW c \in Calls, Read(c) PROVE CallsSaw'
<1>1. call[c].pc = "read" /\ w' = w /\ g' = g /\ Shape(call[c]) /\ Saw(call[c], w, g)
  BY DEF Read, IInv, CallsOK, CallOK, CallsSaw
<1>2. PICK key : call' = [call EXCEPT ![c] = Looked(@, key)]
  BY DEF Read
<1>k. PICK k : k = Looked(call[c], key)
  OBVIOUS
<1>3. k.pc = "read" /\ k.disturbed = call[c].disturbed /\ k.seen = With(call[c].seen, Just(key, Value(key)))
  BY <1>1, <1>k DEF Looked, Shape
<1>4. Saw(k, w, g)
  <2>1. Value(key) = ValueOf(w, g, key)
    BY DEF Value
  <2>2. ~k.disturbed => NowAt(w, g, call[c].seen)
    BY <1>1, <1>3 DEF Saw
  <2>3. ~k.disturbed => NowAt(w, g, k.seen)
    BY <1>3, <2>1, <2>2, NowMore
  <2> QED BY <1>3, <2>3 DEF Saw
<1>5. call' = [call EXCEPT ![c] = k]
  BY <1>2, <1>k DEF IInv, CallsOK
<1> QED BY <1>1, <1>4, <1>5, SawSteps

\* It builds its transaction.
LEMMA SawBuilt == ASSUME IInv, CallsSaw, NEW c \in Calls, Build(c) PROVE CallsSaw'
<1>k. PICK k : k = call[c]
  OBVIOUS
<1>1. /\ k.pc = "read" /\ w' = w /\ g' = g /\ Shape(k) /\ Saw(k, w, g) /\ SeenOK(k.seen)
      /\ Wanted(k.p, k.seen) = {}
  BY <1>k DEF Build, IInv, CallsOK, CallOK, CallsSaw, SendsWell
<1>f. PICK f : f = [k EXCEPT !.pc = "flight", !.tx = Tx(k.p, k.seen), !.seen = <<>>]
  OBVIOUS
<1>2. PICK r : call' = [call EXCEPT ![c] = r]
               /\ r = IF k.p.op = "walk" THEN Turned(k)
                      ELSE IF Refuses(k.p, k.seen) THEN Ended(k, "threw")
                      ELSE IF IsRead(k.p) \/ Tx(k.p, k.seen) = <<>> THEN Ended(k, "ok") ELSE f
  BY <1>k, <1>f DEF Build
<1>3. CASE k.p.op = "walk"
  <2>1. r = Turned(k)
    BY <1>2, <1>3
  <2>2. r.seen = <<>> /\ r.pc \in {"read", "ok"}
    BY <1>1, <2>1 DEF Turned, Shape
  <2>3. Saw(r, w, g)
    BY <2>2, NothingNow DEF Saw
  <2> QED BY <1>1, <1>2, <2>3, SawSteps
<1>4. CASE r \in {Ended(k, "threw"), Ended(k, "ok")}
  <2>1. Saw(r, w, g)
    BY <1>1, <1>4, EndedSaw
  <2> QED BY <1>1, <1>2, <2>1, SawSteps
<1>5. CASE r = f /\ ~Refuses(k.p, k.seen) /\ Tx(k.p, k.seen) # <<>>
  <2>1. f.pc = "flight" /\ f.p = k.p /\ f.tx = Tx(k.p, k.seen) /\ f.disturbed = k.disturbed
    BY <1>1, <1>f DEF Shape
  <2>0. ReadAll(k.p, k.seen)
    <3>1. k.p.op = "spawnBuy" => Wanted(k.p, k.seen) = NameReads(k.p, k.seen)
      BY DEF Wanted, AntOps, EscrowOps, NameOps, Claims, AntClaims, TokenClaims, VaultClaims
    <3>2. k.p.op \in AntOps => /\ Wanted(k.p, k.seen) = AntReads(k.p, k.seen)
                               /\ Refuses(k.p, k.seen) = AntRefuses(k.p, k.seen)
      BY DEF Wanted, Refuses
    <3> QED BY <1>1, <1>5, <3>1, <3>2 DEF ReadAll
  <2>2. Built(f, k.seen)
    BY <1>1, <1>5, <2>0, <2>1 DEF Built
  <2>3. ~f.disturbed => NowAt(w, g, k.seen)
    BY <1>1, <2>1 DEF Saw
  <2>4. Saw(r, w, g)
    BY <1>5, <2>1, <2>2, <2>3 DEF Saw
  <2> QED BY <1>1, <1>2, <2>4, SawSteps
<1> QED BY <1>2, <1>3, <1>4, <1>5

\* A transaction lands and crosses the other calls.
LEMMA SawLanded ==
  ASSUME IInv, CallsSaw, NEW c \in Calls, NEW k, Shape(k),
         NEW how \in {"ok", "threw", "rejected", "failed"}, Changed(c, Ended(k, how))
  PROVE  CallsSaw'
<1>1. ASSUME NEW d \in Calls PROVE Saw(call'[d], w', g')
  <2>1. CASE d = c
    BY <2>1, EndedSaw DEF Changed
  <2>2. CASE d # c
    <3>1. call'[d] = Disturbed(call[d])
      BY <2>2 DEF Changed
    <3>2. Shape(call[d]) /\ Saw(call[d], w, g)
      BY DEF IInv, CallsOK, CallOK, CallsSaw
    <3> QED BY <3>1, <3>2, DisturbedSaw
  <2> QED BY <2>1, <2>2
<1> QED BY <1>1 DEF CallsSaw

\* Every step.
LEMMA SawNext == IInv /\ CallsSaw /\ [Next]_vars => CallsSaw'
<1> SUFFICES ASSUME IInv, CallsSaw, [Next]_vars PROVE CallsSaw'
  OBVIOUS
<1>s. \A c \in Calls : Shape(call[c])
  BY DEF IInv, CallsOK, CallOK
<1>1. CASE UNCHANGED vars
  BY <1>1 DEF vars, CallsSaw
<1>2. ASSUME NEW c \in Calls, Submit(c) PROVE CallsSaw'
  BY <1>2, SawBegins
<1>3. ASSUME NEW c \in Calls, Read(c) PROVE CallsSaw'
  BY <1>3, SawMore
<1>4. ASSUME NEW c \in Calls, Build(c) PROVE CallsSaw'
  BY <1>4, SawBuilt
<1>5. ASSUME NEW c \in Calls, Land(c) PROVE CallsSaw'
  BY <1>5, <1>s, SawLanded DEF Land
<1>6. ASSUME NEW c \in Calls, Reject(c) PROVE CallsSaw'
  <2>1. Saw(Ended(call[c], "rejected"), w, g)
    BY <1>s, EndedSaw
  <2>2. call' = [call EXCEPT ![c] = Ended(call[c], "rejected")] /\ w' = w /\ g' = g
    BY <1>6 DEF Reject, IInv, CallsOK
  <2> QED BY <2>1, <2>2, SawSteps
<1>7. ASSUME NEW c \in Calls, Lose(c) PROVE CallsSaw'
  <2>k. PICK k : k = [call[c] EXCEPT !.disturbed = TRUE]
    OBVIOUS
  <2>1. Shape(k)
    BY <1>s, <2>k DEF Shape
  <2>2. CASE UNCHANGED <<w, g, drift>> /\ call' = [call EXCEPT ![c] = Ended(k, "failed")]
    <3>1. Saw(Ended(k, "failed"), w, g)
      BY <2>1, EndedSaw
    <3> QED BY <2>2, <3>1, SawSteps
  <2>3. CASE Changed(c, Ended(k, "failed"))
    BY <2>1, <2>3, SawLanded
  <2> QED BY <1>7, <2>k, <2>2, <2>3 DEF Lose
<1>8. CASE Others
  <2>1. call' = [c \in Calls |-> Disturbed(call[c])]
    BY <1>8 DEF Others
  <2> QED BY <1>s, <2>1, DisturbedSaw DEF CallsSaw
<1>9. ASSUME NEW b \in DOMAIN w.box, NEW u \in Users, Sign(b, u) PROVE CallsSaw'
  BY <1>9 DEF Sign, CallsSaw
<1> QED BY <1>1, <1>2, <1>3, <1>4, <1>5, <1>6, <1>7, <1>8, <1>9 DEF Next

----------------------------------------------------------------------------
(* The lists of an ANT as its history has them.                            *)
ListsOK == \A a \in Ants : Accords(w, a, drift[a])

Stages(p, i) == p.op = "spawnBuy" /\ p.stage = i

\* The history of an ANT changes only with a call on it.
LEMMA FollowElse ==
  ASSUME drift \in Drifts, NEW k, NEW b \in Ants, b \notin Touched(k.p)
  PROVE  Follow(k)[b] = drift[b]
<1>1. CASE k.p.op \in Moves
  BY <1>1 DEF Follow, AntOf, Touched, Drifts
<1>2. CASE k.p.op \notin Moves /\ k.p.op \in {"transfer", "syncAcl", "spawn", "reconcile", "spawnBuy"}
  <2>1. b # AntOf(k.p)
    BY <1>2 DEF AntOf, Touched
  <2>m. k.p.op \notin Moves
    BY <1>2
  <2>a. PICK a : a = AntOf(k.p)
    OBVIOUS
  <2>3. CASE Stages(k.p, 1)
    <3>1. Follow(k) = [drift EXCEPT ![a] = IF drift[a] = "lost" THEN "lost" ELSE "raw"]
      BY <2>a, <2>3 DEF Follow, Stages, Drifts
    <3> QED BY <2>1, <2>a, <3>1 DEF Drifts
  <2>4. CASE k.p.op \in {"spawn", "syncAcl"} \/ Stages(k.p, 2)
    <3>r. PICK good : good = (/\ ~k.disturbed
                              /\ \/ k.p.op = "spawn"
                                 \/ /\ k.p.op = "spawnBuy" /\ drift[a] = "raw"
                                    /\ w.known[a] = k.p.by
                                 \/ /\ k.p.op = "syncAcl" /\ drift[a] = "raw"
                                    /\ w.known[a] # w.owner[a])
      OBVIOUS
    <3>1. Follow(k) = [drift EXCEPT ![a] = IF good THEN "exact" ELSE "lost"]
      BY <2>m, <2>a, <2>4, <3>r DEF Follow, Stages
    <3> QED BY <2>1, <2>a, <3>1 DEF Drifts
  <2>5. CASE k.p.op \in {"transfer", "reconcile"}
    <3>r. PICK good : good = (drift[a] = "exact" /\ (k.p.op = "reconcile" \/ ~k.disturbed))
      OBVIOUS
    <3>1. Follow(k) = [drift EXCEPT ![a] = IF good THEN "exact" ELSE "lost"]
      BY <2>m, <2>a, <2>5, <3>r DEF Follow
    <3> QED BY <2>1, <2>a, <3>1 DEF Drifts
  <2>6. CASE k.p.op = "spawnBuy" /\ ~Stages(k.p, 1) /\ ~Stages(k.p, 2)
    <3>1. Follow(k) = drift
      BY <2>m, <2>6 DEF Follow, Stages
    <3> QED BY <3>1
  <2> QED BY <1>2, <2>3, <2>4, <2>5, <2>6
<1>3. CASE k.p.op \notin Moves \union {"transfer", "syncAcl", "spawn", "reconcile", "spawnBuy"}
  BY <1>3 DEF Follow
<1> QED BY <1>1, <1>2, <1>3

\* What the history of an ANT becomes with a call on it, by the kind of call.
LEMMA FollowHere ==
  ASSUME drift \in Drifts, NEW k, NEW a \in Ants, a = AntOf(k.p), NEW d, d = Follow(k)[a]
  PROVE  /\ d \in {"exact", "raw", "lost"}
         /\ k.p.op \in Moves \/ Stages(k.p, 1) =>
              d # "exact" /\ (d = "raw" => drift[a] # "lost")
         /\ k.p.op \in {"spawn", "syncAcl", "transfer", "reconcile"} \/ Stages(k.p, 2) => d # "raw"
         /\ k.p.op = "spawn" => (d = "exact" => ~k.disturbed)
         /\ Stages(k.p, 2) =>
              (d = "exact" => ~k.disturbed /\ drift[a] = "raw" /\ w.known[a] = k.p.by)
         /\ k.p.op = "syncAcl" =>
              (d = "exact" => ~k.disturbed /\ drift[a] = "raw" /\ w.known[a] # w.owner[a])
         /\ k.p.op = "transfer" => (d = "exact" => ~k.disturbed /\ drift[a] = "exact")
         /\ k.p.op = "reconcile" => (d = "exact" => drift[a] = "exact")
         /\ Stages(k.p, 3) => d = drift[a]
<1>m. k.p.op \in Moves =>
        k.p.op \notin {"transfer", "syncAcl", "spawn", "reconcile", "spawnBuy"}
  BY DEF Moves, AntClaims
<1>0. d \in {"exact", "raw", "lost"}
  BY FollowTyped DEF Drifts
<1>1. CASE k.p.op \in Moves \/ Stages(k.p, 1)
  <2>1. Follow(k) = [drift EXCEPT ![a] = IF drift[a] = "lost" THEN "lost" ELSE "raw"]
    BY <1>m, <1>1 DEF Follow, Stages, Drifts
  <2>2. d = IF drift[a] = "lost" THEN "lost" ELSE "raw"
    BY <2>1 DEF Drifts
  <2> QED BY <1>m, <1>0, <1>1, <2>2 DEF Stages
<1>2. CASE k.p.op \in {"spawn", "syncAcl"} \/ Stages(k.p, 2)
  <2>r. PICK good : good = (/\ ~k.disturbed
                            /\ \/ k.p.op = "spawn"
                               \/ /\ k.p.op = "spawnBuy" /\ drift[a] = "raw"
                                  /\ w.known[a] = k.p.by
                               \/ /\ k.p.op = "syncAcl" /\ drift[a] = "raw"
                                  /\ w.known[a] # w.owner[a])
    OBVIOUS
  <2>1. Follow(k) = [drift EXCEPT ![a] = IF good THEN "exact" ELSE "lost"]
    BY <1>m, <1>2, <2>r DEF Follow, Stages
  <2>2. d = IF good THEN "exact" ELSE "lost"
    BY <2>1 DEF Drifts
  <2> QED BY <1>m, <1>2, <2>2, <2>r DEF Stages
<1>3. CASE k.p.op \in {"transfer", "reconcile"}
  <2>r. PICK good : good = (drift[a] = "exact" /\ (k.p.op = "reconcile" \/ ~k.disturbed))
    OBVIOUS
  <2>1. Follow(k) = [drift EXCEPT ![a] = IF good THEN "exact" ELSE "lost"]
    BY <1>m, <1>3, <2>r DEF Follow
  <2>2. d = IF good THEN "exact" ELSE "lost"
    BY <2>1 DEF Drifts
  <2> QED BY <1>m, <1>3, <2>2, <2>r DEF Stages
<1>4. CASE Stages(k.p, 3)
  <2>1. Follow(k) = drift
    BY <1>m, <1>4 DEF Follow, Stages
  <2> QED BY <1>m, <1>0, <1>4, <2>1 DEF Stages
<1> QED BY <1>0, <1>1, <1>2, <1>3, <1>4

\* What a call on one ANT leaves of its lists.
LEMMA LandedHere ==
  ASSUME drift \in Drifts, NEW k, Asked(k.p), TxOK(k.tx, Touched(k.p)),
         NEW seen, Built(k, seen), ~k.disturbed => NowAt(w, g, seen),
         k.p.op = "spawnBuy" => k.p.stage \in 1..3,
         NEW from, from = [w |-> w, g |-> g], from \in Accounts, NEW to, Leads(k.tx, from, to),
         NEW a \in Touched(k.p), a \in Ants, Accords(w, a, drift[a])
  PROVE  Accords(to.w, a, Follow(k)[a])
<1>p. PICK p, tx, d : p = k.p /\ tx = k.tx /\ d = Follow(k)[a]
  OBVIOUS
<1>0. /\ SeenOK(seen) /\ ReadAll(p, seen) /\ tx = Tx(p, seen) /\ tx # <<>>
      /\ TxOK(tx, Touched(p)) /\ Leads(tx, from, to) /\ Asked(p)
  BY <1>p DEF Built
<1>1. a = AntOf(p) /\ (p.op \notin Moves => a = p.a)
  BY <1>p DEF AntOf, Touched
<1>f. from.w = w /\ from.g = g
  OBVIOUS
<1>b. Blank(to.w, a)
  <2>1. Blank(from.w, a)
    BY <1>f DEF Accords
  <2> QED BY <1>0, <2>1, BlankPath DEF Leads
<1>d. /\ d \in {"exact", "raw", "lost"}
      /\ p.op \in Moves \/ Stages(p, 1) => d # "exact" /\ (d = "raw" => drift[a] # "lost")
      /\ p.op \in {"spawn", "syncAcl", "transfer", "reconcile"} \/ Stages(p, 2) => d # "raw"
      /\ p.op = "spawn" => (d = "exact" => ~k.disturbed)
      /\ Stages(p, 2) =>
           (d = "exact" => ~k.disturbed /\ drift[a] = "raw" /\ w.known[a] = p.by)
      /\ p.op = "syncAcl" =>
           (d = "exact" => ~k.disturbed /\ drift[a] = "raw" /\ w.known[a] # w.owner[a])
      /\ p.op = "transfer" => (d = "exact" => ~k.disturbed /\ drift[a] = "exact")
      /\ p.op = "reconcile" => (d = "exact" => drift[a] = "exact")
      /\ Stages(p, 3) => d = drift[a]
  BY <1>p, <1>1, FollowHere
<1>n. ~k.disturbed => NowAt(from.w, from.g, seen)
  BY <1>f
<1>e. (\E u : ExactNow(to.w, a, u)) => to.w.known[a] = to.w.owner[a] /\ Exact(to.w, a)
  BY DEF ExactNow
<1>s. drift[a] # "lost" => Stale(from.w, a)
  <2>1. drift[a] \in {"exact", "raw", "lost"}
    BY DEF Drifts
  <2> QED BY <1>f, <2>1, ExactIsStale DEF Accords
<1>m. p.op \in Moves => p.op \in EscrowOps /\ p.op \notin AntOps
  BY DEF Moves, EscrowOps, Claims, AntClaims, TokenClaims, VaultClaims, AntOps
<1>2. CASE p.op \in Moves
  <2>1. tx = EscrowTx(p, seen)
    BY <1>0, <1>m, <1>2 DEF Tx
  <2>2. drift[a] # "lost" => Stale(to.w, a)
    BY <1>0, <1>2, <1>s, <2>1, EscrowStales
  <2> QED BY <1>p, <1>b, <1>d, <1>2, <2>2 DEF Accords
<1>3. CASE p.op = "spawn"
  <2>1. tx = SpawnTx(p, seen) /\ AntReads(p, seen) = {}
    BY <1>0, <1>3 DEF Tx, AntOps, AntTx, ReadAll
  <2>2. Blank(from.w, p.a)
    BY <1>f, <1>1, <1>3 DEF Accords, Moves, AntClaims
  <2>3. ~k.disturbed => ExactNow(to.w, p.a, p.by)
    BY <1>0, <1>3, <1>n, <2>1, <2>2, SpawnRights
  <2>4. p.a = a
    BY <1>1, <1>3 DEF Moves, AntClaims
  <2> QED BY <1>p, <1>b, <1>d, <1>e, <1>3, <2>3, <2>4 DEF Accords
<1>4. CASE p.op = "syncAcl"
  <2>1. tx = SyncAclTx(p, seen) /\ AntReads(p, seen) = {} /\ ~AntRefuses(p, seen)
    BY <1>0, <1>4 DEF Tx, AntOps, AntTx, ReadAll
  <2>2. p.a = a
    BY <1>1, <1>4 DEF Moves, AntClaims
  <2>3. d = "exact" => Stale(from.w, p.a) /\ from.w.known[p.a] # from.w.owner[p.a] /\ ~k.disturbed
    BY <1>f, <1>d, <1>s, <1>4, <2>2
  <2>4. d = "exact" => ExactNow(to.w, p.a, p.by)
    BY <1>0, <1>4, <1>n, <2>1, <2>3, SyncRights
  <2> QED BY <1>p, <1>b, <1>d, <1>e, <1>4, <2>2, <2>4 DEF Accords
<1>5. CASE p.op = "transfer"
  <2>1. tx = TransferTx(p, seen) /\ AntReads(p, seen) = {}
    BY <1>0, <1>5 DEF Tx, AntOps, AntTx, ReadAll
  <2>2. p.a = a
    BY <1>1, <1>5 DEF Moves, AntClaims
  <2>3. d = "exact" => Exact(from.w, p.a) /\ ~k.disturbed
    BY <1>f, <1>d, <1>5, <2>2 DEF Accords
  <2>4. d = "exact" => ExactNow(to.w, p.a, p.u)
    BY <1>0, <1>5, <1>n, <2>1, <2>3, TransferRights
  <2> QED BY <1>p, <1>b, <1>d, <1>e, <1>5, <2>2, <2>4 DEF Accords
<1>6. CASE p.op = "reconcile"
  <2>1. tx = <<AntIx("reconcile", p)>>
    BY <1>0, <1>6 DEF Tx, AntOps, AntTx
  <2>2. p.a = a
    BY <1>1, <1>6 DEF Moves, AntClaims
  <2>3. d = "exact" => from.w.known[p.a] = from.w.owner[p.a] /\ Exact(from.w, p.a)
    BY <1>f, <1>d, <1>6, <2>2 DEF Accords
  <2>4. d = "exact" => to.w = from.w
    BY <1>0, <2>1, <2>2, <2>3, ReconcileStays
  <2> QED BY <1>p, <1>b, <1>d, <1>6, <2>2, <2>3, <2>4 DEF Accords
<1>7. CASE p.op = "spawnBuy"
  <2>1. tx = SpawnBuyTx(p, seen) /\ NameReads(p, seen) = {}
    BY <1>0, <1>7
       DEF Tx, NameTx, AntOps, EscrowOps, NameOps, Claims, AntClaims, TokenClaims, VaultClaims,
           ReadAll
  <2>2. p.a = a
    BY <1>1, <1>7 DEF Moves, AntClaims
  <2>3. CASE Stages(p, 1)
    <3>1. Blank(from.w, p.a)
      BY <1>f, <2>2 DEF Accords
    <3>2. Stale(to.w, p.a)
      BY <1>0, <2>1, <2>3, <3>1, BoughtStale DEF Stages
    <3> QED BY <1>p, <1>b, <1>d, <2>2, <2>3, <3>2 DEF Accords
  <2>4. CASE Stages(p, 2)
    <3>1. d = "exact" => Stale(from.w, p.a) /\ from.w.known[p.a] = p.by /\ ~k.disturbed
      BY <1>f, <1>d, <1>s, <2>2, <2>4
    <3>2. d = "exact" => ExactNow(to.w, p.a, p.by)
      BY <1>0, <1>n, <2>1, <2>4, <3>1, BoughtRights DEF Stages
    <3> QED BY <1>p, <1>b, <1>d, <1>e, <2>2, <2>4, <3>2 DEF Accords
  <2>5. CASE Stages(p, 3)
    <3>1. TxOK(tx, {})
      BY <1>0, <2>1, <2>5, TraitsMild DEF Stages
    <3>2. Accords(from.w, a, drift[a])
      BY <1>f
    <3>3. Accords(to.w, a, drift[a])
      BY <1>0, <3>1, <3>2, MildPath DEF Leads
    <3> QED BY <1>p, <1>d, <2>5, <3>3
  <2>6. p.stage \in {1, 2, 3}
    BY <1>p, <1>7
  <2> QED BY <1>7, <2>3, <2>4, <2>5, <2>6 DEF Stages
<1> QED BY <1>p, <1>2, <1>3, <1>4, <1>5, <1>6, <1>7 DEF Touched

\* Whatever lands keeps the histories true.
LEMMA LandedLists ==
  ASSUME IInv, CallsSaw, ListsOK, NEW c \in Calls, call[c].pc = "flight",
         NEW s \in Execute(call[c].tx), w' = s.w, g' = s.g, drift' = Follow(call[c])
  PROVE  ListsOK'
<1>k. PICK k, from : k = call[c] /\ from = [w |-> w, g |-> g]
  OBVIOUS
<1>1. /\ CallOK(k, g.slots, sigs) /\ TxOK(k.tx, Touched(k.p)) /\ Asked(k.p)
      /\ Leads(k.tx, from, s)
  BY <1>k, Landed DEF Leads
<1>2. from \in Accounts /\ from.w = w /\ drift \in Drifts
  BY <1>k DEF IInv, AccountsOK, Accounts
<1>3. PICK seen : Built(k, seen) /\ (~k.disturbed => NowAt(w, g, seen))
  BY <1>k DEF CallsSaw, Saw
<1>4. k.p.op = "spawnBuy" => k.p.stage \in 1..3
  BY <1>1, <1>k DEF CallOK, AsksWell
<1>5. ASSUME NEW a \in Ants PROVE Accords(w', a, drift'[a])
  <2>1. Accords(w, a, drift[a])
    BY DEF ListsOK
  <2>2. CASE a \in Touched(k.p)
    <3>1. Accords(s.w, a, Follow(k)[a])
      BY <1>k, <1>1, <1>2, <1>3, <1>4, <2>1, <2>2, LandedHere
    <3> QED BY <1>k, <3>1
  <2>3. CASE a \notin Touched(k.p)
    <3>1. Accords(s.w, a, drift[a])
      BY <1>1, <1>2, <2>1, <2>3, MildPath DEF Leads
    <3>2. Follow(k)[a] = drift[a]
      BY <1>2, <2>3, FollowElse
    <3> QED BY <1>k, <3>1, <3>2
  <2> QED BY <2>2, <2>3
<1> QED BY <1>5 DEF ListsOK

\* Of what others do only a transfer changes what the lists should say.
LEMMA OthersLists == ASSUME IInv, ListsOK, Others PROVE ListsOK'
<1>1. w \in Ledgers /\ drift \in Drifts
  BY DEF IInv, AccountsOK
<1>2. ASSUME NEW b \in Ants, NEW u \in Users, RawTransfer(b, u) PROVE ListsOK'
  <2>1. /\ w' = [w EXCEPT !.owner[b] = u]
        /\ drift' = [drift EXCEPT ![b] = IF drift[b] = "lost" THEN "lost" ELSE "raw"]
    BY <1>2 DEF RawTransfer
  <2>2. /\ w'.known = w.known /\ w'.ctrl = w.ctrl /\ w'.acl = w.acl
        /\ w'.owner = [w.owner EXCEPT ![b] = u]
    BY <1>1, <2>1 DEF Ledgers, LedgerType
  <2>3. \A a \in Ants : SameSpots(w, w', a)
    BY <2>2 DEF SameSpots, Spots
  <2>4. w.owner \in [Ants -> Users \union {Nobody, Escrow}]
    BY <1>1 DEF Ledgers, LedgerType
  <2>5. ASSUME NEW a \in Ants PROVE Accords(w', a, drift'[a])
    <3>1. Accords(w, a, drift[a])
      BY DEF ListsOK
    <3>2. CASE a # b
      <4>1. SameView(w, w', a) /\ drift'[a] = drift[a]
        BY <1>1, <2>1, <2>2, <2>3, <2>4, <3>2 DEF SameView, Drifts
      <4>2. Accords(w', a, drift[a])
        BY <3>1, <4>1, SameLists
      <4> QED BY <4>1, <4>2
    <3>3. CASE a = b
      <4>1. w'.owner[a] = u /\ u # Nobody
        BY <2>2, <2>4, <3>3, LedgerAssumption
      <4>2. drift'[a] = (IF drift[a] = "lost" THEN "lost" ELSE "raw") /\ drift[a] \in {"exact", "raw", "lost"}
        BY <1>1, <2>1, <3>3 DEF Drifts
      <4>3. drift[a] # "lost" => Stale(w, a)
        BY <3>1, <4>2, ExactIsStale DEF Accords
      <4>4. drift[a] # "lost" => Stale(w', a)
        BY <2>2, <2>3, <4>3, StaleView
      <4>5. Blank(w', a)
        BY <4>1 DEF Blank
      <4> QED BY <4>2, <4>4, <4>5 DEF Accords
    <3> QED BY <3>2, <3>3
  <2> QED BY <2>5 DEF ListsOK
<1>3. CASE Tick
  <2>1. drift' = drift /\ w' = [w EXCEPT !.now = w.now + 1]
    BY <1>3 DEF Tick
  <2>2. \A a \in Ants : SameView(w, w', a)
    BY <1>1, <2>1 DEF SameView, SameSpots, Spots, Ledgers, LedgerType
  <2>3. \A a \in Ants : Accords(w', a, drift[a])
    BY <2>2, SameLists DEF ListsOK
  <2> QED BY <2>1, <2>3 DEF ListsOK
<1>4. CASE RegistryMove
  BY <1>4 DEF RegistryMove, ListsOK
<1> QED BY <1>2, <1>3, <1>4 DEF Others

\* And so does every step.
LEMMA ListsNext == IInv /\ CallsSaw /\ ListsOK /\ [Next]_vars => ListsOK'
<1> SUFFICES ASSUME IInv, CallsSaw, ListsOK, [Next]_vars PROVE ListsOK'
  OBVIOUS
<1>0. ASSUME w' = w, drift' = drift PROVE ListsOK'
  BY <1>0 DEF ListsOK
<1>1. CASE UNCHANGED vars
  BY <1>0, <1>1 DEF vars
<1>2. CASE Others
  BY <1>2, OthersLists
<1>3. ASSUME NEW b \in DOMAIN w.box, NEW u \in Users, Sign(b, u) PROVE ListsOK'
  BY <1>0, <1>3 DEF Sign
<1>4. ASSUME NEW c \in Calls, Submit(c) \/ Read(c) \/ Build(c) \/ Reject(c) PROVE ListsOK'
  BY <1>0, <1>4 DEF Submit, Read, Build, Reject
<1>5. ASSUME NEW c \in Calls, Land(c) PROVE ListsOK'
  <2>1. PICK s \in Execute(call[c].tx) : w' = s.w /\ g' = s.g
    BY <1>5 DEF Land
  <2>2. call[c].pc = "flight" /\ drift' = Follow(call[c])
    BY <1>5 DEF Land
  <2> QED BY <2>1, <2>2, LandedLists
<1>6. ASSUME NEW c \in Calls, Lose(c) PROVE ListsOK'
  <2>k. PICK k : k = [call[c] EXCEPT !.disturbed = TRUE]
    OBVIOUS
  <2>1. call[c].pc = "flight"
        /\ \/ w' = w /\ drift' = drift
           \/ (\E s \in Execute(k.tx) : w' = s.w /\ g' = s.g) /\ drift' = Follow(call[c])
    BY <1>6, <2>k DEF Lose
  <2>2. k.tx = call[c].tx
    BY <2>k DEF IInv, CallsOK, CallOK, Shape
  <2> QED BY <1>0, <2>1, <2>2, LandedLists
<1> QED BY <1>1, <1>2, <1>3, <1>4, <1>5, <1>6 DEF Next

\* At first no call has read anything, and the scenes accord.
LEMMA ListsInit == Init => CallsSaw /\ ListsOK
<1> SUFFICES ASSUME Init PROVE CallsSaw /\ ListsOK
  OBVIOUS
<1>1. PICK s \in Scenes : w = s.w /\ drift = s.drift
  BY DEF Init
<1>2. ListsOK
  BY <1>1, ScenesAssumption DEF ListsOK
<1>3. \A c \in Calls : call[c].pc = "idle"
  BY DEF Init, Idle
<1> QED BY <1>2, <1>3 DEF CallsSaw, Saw

\* As long as the changes of an ANT went through the SDK and did not cross,
\* the access control lists name its owner and its controllers, each once and
\* nobody else, for every number of users, pages and calls; and again once
\* syncAcl found it moved and put it right (ant-writeable.ts:612).
THEOREM ListsStayExact == Spec => []AclExact
<1>1. ListsOK => AclExact
  BY DEF ListsOK, Accords, AclExact
<1> QED BY <1>1, InvInit, InvNext, ListsInit, SawNext, ListsNext, PTL DEF Spec

----------------------------------------------------------------------------
(* A purchase with a new ANT, as long as nothing else came between.        *)
Bought(k, x) ==
    k.p.op = "spawnBuy" /\ ~k.disturbed =>
      /\ k.pc = "read" => Arns(k.p.n) \notin DOMAIN k.seen
      /\ k.pc \in {"read", "flight"} /\ k.p.stage = 2 => Untouched(x, k.p.a, k.p.by)
      /\ k.pc \in {"read", "flight"} /\ k.p.stage = 3 => InLists(x, k.p.a, k.p.by)
HasBoth(k, x) == k.p.op = "spawnBuy" /\ ~k.disturbed => InLists(x, k.p.a, k.p.by)
BuysOK == \A c \in Calls : Bought(call[c], w)

\* A step of a call from one form to another.
Went(e, k, x) == Bought(k, x) /\ (e.pc # "ok" /\ k.pc = "ok" => HasBoth(k, x))
AllWent == \A c \in Calls : Went(call[c], call'[c], w')

\* Nothing else moved: only this call has to be looked at.
LEMMA WentAlone ==
  ASSUME IInv, BuysOK, NEW c \in Calls, NEW k, Went(call[c], k, w),
         call' = [call EXCEPT ![c] = k], w' = w
  PROVE  AllWent
BY DEF AllWent, BuysOK, IInv, CallsOK, Went

\* A purchase that was crossed is said nothing of, the others saw no change.
LEMMA WentDisturbed ==
  ASSUME NEW k, CallOK(k, g.slots, sigs), Bought(k, w)
  PROVE  Went(k, Disturbed(k), w')
<1>s. Shape(k) /\ AsksWell(k, sigs)
  BY DEF CallOK
<1>d. PICK d : d = Disturbed(k)
  OBVIOUS
<1>1. CASE w' = w /\ g' = g
  BY <1>1 DEF Disturbed, Went
<1>2. CASE (w' # w \/ g' # g) /\ Underway(k)
  <2>1. d.disturbed /\ d.pc = k.pc
    BY <1>d, <1>s, <1>2 DEF Disturbed, Shape
  <2> QED BY <1>d, <2>1 DEF Went, Bought
<1>3. CASE (w' # w \/ g' # g) /\ ~Underway(k)
  <2>1. d = k /\ k.pc # "flight" /\ (k.pc = "read" => k.seen = <<>> /\ ~(k.p.stage > 1))
    BY <1>d, <1>3 DEF Disturbed, Underway
  <2>2. DOMAIN <<>> = {}
    OBVIOUS
  <2>3. Bought(d, w')
    BY <1>s, <2>1, <2>2 DEF Bought, AsksWell
  <2> QED BY <1>d, <2>1, <2>3 DEF Went
<1> QED BY <1>1, <1>2, <1>3

\* What a stage must have left behind for the next one.
Leaves(k, how, x) ==
    k.p.op = "spawnBuy" /\ ~k.disturbed =>
      /\ k.p.stage = 1 /\ how = "ok" => Untouched(x, k.p.a, k.p.by)
      /\ k.p.stage \in {2, 3} => InLists(x, k.p.a, k.p.by)

\* A stage that left what it should lets the next one begin, or the call
\* return.
LEMMA WentEnded ==
  ASSUME NEW k, CallOK(k, g.slots, sigs), k.pc \in {"read", "flight"}, NEW e, NEW x,
         NEW how \in {"ok", "threw", "rejected", "failed"}, Leaves(k, how, x)
  PROVE  Went(e, Ended(k, how), x)
<1>s. Shape(k) /\ AsksWell(k, sigs)
  BY DEF CallOK
<1>p. PICK p : p = k.p
  OBVIOUS
<1>a. Asked(p) /\ "stage" \in DOMAIN p /\ (p.op = "spawnBuy" => p.stage \in 1..3)
  BY <1>s, <1>p DEF AsksWell
<1>r. PICK r : r = Ended(k, how)
  OBVIOUS
<1>1. CASE p.op # "spawnBuy"
  <2>1. r.p = k.p
    BY <1>p, <1>r, <1>s, <1>1 DEF Ended, Shape
  <2> QED BY <1>p, <1>r, <1>1, <2>1 DEF Went, Bought, HasBoth
<1>2. CASE p.op = "spawnBuy" /\ p.stage < 3 /\ (how = "ok" \/ p.stage > 1)
  <2>f. {"op", "n", "by", "a"} \subseteq DOMAIN p
    BY <1>a, <1>2, NameAsked DEF NameOps
  <2>q. PICK q : q = [p EXCEPT !.stage = p.stage + 1]
    OBVIOUS
  <2>1. r = [k EXCEPT !.pc = "read", !.p = q, !.seen = <<>>, !.tx = <<>>]
    BY <1>p, <1>r, <1>2, <2>q DEF Ended
  <2>2. r.pc = "read" /\ r.p = q /\ r.seen = <<>> /\ r.disturbed = k.disturbed
    BY <1>s, <2>1 DEF Shape
  <2>3. /\ q.op = p.op /\ q.n = p.n /\ q.by = p.by /\ q.a = p.a
        /\ q.stage = p.stage + 1
    BY <1>a, <2>f, <2>q
  <2>4. DOMAIN <<>> = {}
    OBVIOUS
  <2>5. Bought(r, x)
    BY <1>a, <1>p, <1>2, <2>2, <2>3, <2>4 DEF Bought, Leaves
  <2> QED BY <1>r, <2>2, <2>5 DEF Went
<1>3. CASE p.op = "spawnBuy" /\ ~(p.stage < 3 /\ (how = "ok" \/ p.stage > 1))
  <2>1. r = [k EXCEPT !.pc = IF p.stage > 1 THEN "ok" ELSE how, !.tx = <<>>,
                      !.seen = IF p.op \in QueryOps THEN k.seen ELSE <<>>]
    BY <1>p, <1>r, <1>3 DEF Ended
  <2>2. r.pc = (IF p.stage > 1 THEN "ok" ELSE how) /\ r.p = p /\ r.disturbed = k.disturbed
    BY <1>p, <1>s, <2>1 DEF Shape
  <2>3. r.pc = "ok" => p.stage = 3
    BY <1>a, <1>3, <2>2
  <2>4. HasBoth(r, x) \/ r.pc # "ok"
    BY <1>p, <1>3, <2>2, <2>3 DEF HasBoth, Leaves
  <2>5. r.pc \notin {"read", "flight"}
    BY <2>2
  <2> QED BY <1>r, <2>4, <2>5 DEF Went, Bought
<1> QED BY <1>1, <1>2, <1>3

\* BuysOK holds on, action by action: a call begins.
LEMMA BuyBegins == ASSUME IInv, BuysOK, NEW c \in Calls, Submit(c) PROVE AllWent
<1>1. call[c].pc = "idle" /\ w' = w /\ Shape(call[c]) /\ call[c].seen = <<>>
  BY DEF Submit, IInv, CallsOK, CallOK, SendsWell
<1>2. PICK q \in scene.asks :
      \E s \in IF q.op \in Claims THEN sigs ELSE {Nobody} :
         call' = [call EXCEPT ![c] =
                    [@ EXCEPT !.pc = "read",
                              !.p = With(q, [stage |-> 1, sig |-> s, start |-> 0, got |-> <<>>])]]
  BY DEF Submit
<1>3. PICK s : call' = [call EXCEPT ![c] =
                    [@ EXCEPT !.pc = "read",
                              !.p = With(q, [stage |-> 1, sig |-> s, start |-> 0, got |-> <<>>])]]
  BY <1>2
<1>p. PICK p : p = With(q, [stage |-> 1, sig |-> s, start |-> 0, got |-> <<>>])
  OBVIOUS
<1>4. p.stage = 1
  <2>1. q \in Asks
    BY DEF IInv, AccountsOK
  <2> QED BY <1>p, <2>1, AskedFirst
<1>k. PICK k : k = [call[c] EXCEPT !.pc = "read", !.p = p]
  OBVIOUS
<1>5. k.pc = "read" /\ k.p = p /\ k.seen = <<>> /\ DOMAIN <<>> = {}
  BY <1>1, <1>k DEF Shape
<1>6. Went(call[c], k, w)
  BY <1>4, <1>5 DEF Went, Bought
<1>7. call' = [call EXCEPT ![c] = k]
  BY <1>3, <1>p, <1>k DEF IInv, CallsOK
<1> QED BY <1>1, <1>6, <1>7, WentAlone

\* It reads one account more.
LEMMA BuyReads == ASSUME IInv, BuysOK, NEW c \in Calls, Read(c) PROVE AllWent
<1>e. PICK e : e = call[c]
  OBVIOUS
<1>1. e.pc = "read" /\ w' = w /\ Shape(e) /\ Bought(e, w) /\ AsksWell(e, sigs)
  BY <1>e DEF Read, IInv, CallsOK, CallOK, BuysOK
<1>2. PICK key \in Wanted(e.p, e.seen) : call' = [call EXCEPT ![c] = Looked(@, key)]
  BY <1>e DEF Read
<1>k. PICK k : k = Looked(e, key)
  OBVIOUS
<1>3. /\ k.pc = "read" /\ k.disturbed = e.disturbed /\ k.p = e.p
      /\ k.seen = With(e.seen, Just(key, Value(key)))
  BY <1>1, <1>k DEF Looked, Shape
<1>4. DOMAIN k.seen = DOMAIN e.seen \union {key}
  BY <1>3 DEF With, Just
<1>5. e.p.op = "spawnBuy" => key # Arns(e.p.n)
  <2> SUFFICES ASSUME e.p.op = "spawnBuy" PROVE key # Arns(e.p.n)
    OBVIOUS
  <2>1. key \in SpawnBuyReads(e.p, e.seen)
    BY <1>2 DEF Wanted, NameReads, AntOps, EscrowOps, NameOps, Claims, AntClaims, TokenClaims,
                VaultClaims
  <2>2. e.p.stage \in 1..3
    BY <1>1 DEF AsksWell
  <2>3. key \in {Acl(e.p.by, 1), Owner(e.p.a)}
    <3>1. ASSUME NEW one PROVE InTurn(<<one>>, e.seen) \subseteq {one}
      <4>1. DOMAIN <<one>> = {1} /\ <<one>>[1] = one
        OBVIOUS
      <4>2. Unread(<<one>>, e.seen) \in {{}, {1}}
        BY <4>1 DEF Unread
      <4>3. Min({1}) = 1
        <5>1. {1} \subseteq Nat /\ {1} # {}
          OBVIOUS
        <5> QED BY <5>1, MinOfNats
      <4> QED BY <4>1, <4>2, <4>3 DEF InTurn
    <3>2. e.p.stage \in {1, 2, 3}
      BY <2>2
    <3>3. InTurn(<<Acl(e.p.by, 1)>>, e.seen) \subseteq {Acl(e.p.by, 1)}
      BY <3>1
    <3>4. InTurn(<<Owner(e.p.a)>>, e.seen) \subseteq {Owner(e.p.a)}
      BY <3>1
    <3> QED BY <2>1, <3>2, <3>3, <3>4 DEF SpawnBuyReads
  <2>4. key[1] \in {"acl", "owner"} /\ Arns(e.p.n)[1] = "arns"
    BY <2>3 DEF Acl, Owner, Arns
  <2> QED BY <2>4
<1>6. Went(e, k, w)
  BY <1>1, <1>3, <1>4, <1>5 DEF Went, Bought
<1>7. call' = [call EXCEPT ![c] = k]
  BY <1>2, <1>e, <1>k DEF IInv, CallsOK
<1> QED BY <1>1, <1>e, <1>6, <1>7, WentAlone

\* An undisturbed purchase refuses no stage, and none is empty before the last.
LEMMA BuyBuilds == ASSUME IInv, CallsSaw, BuysOK, NEW c \in Calls, Build(c) PROVE AllWent
<1>k. PICK k : k = call[c]
  OBVIOUS
<1>1. /\ k.pc = "read" /\ w' = w /\ CallOK(k, g.slots, sigs) /\ Saw(k, w, g) /\ Bought(k, w)
      /\ Shape(k) /\ AsksWell(k, sigs) /\ SeenOK(k.seen) /\ Wanted(k.p, k.seen) = {}
  BY <1>k DEF Build, IInv, CallsOK, CallOK, CallsSaw, SendsWell, BuysOK
<1>f. PICK f : f = [k EXCEPT !.pc = "flight", !.tx = Tx(k.p, k.seen), !.seen = <<>>]
  OBVIOUS
<1>2. PICK r : call' = [call EXCEPT ![c] = r]
               /\ r = IF k.p.op = "walk" THEN Turned(k)
                      ELSE IF Refuses(k.p, k.seen) THEN Ended(k, "threw")
                      ELSE IF IsRead(k.p) \/ Tx(k.p, k.seen) = <<>> THEN Ended(k, "ok") ELSE f
  BY <1>k, <1>f DEF Build
<1>w. ASSUME Went(k, r, w) PROVE AllWent
  BY <1>1, <1>2, <1>k, <1>w, WentAlone
<1>3. CASE k.p.op = "walk"
  <2>1. r.p.op = "walk"
    <3>1. r = Turned(k)
      BY <1>2, <1>3
    <3>2. r.p.op = k.p.op
      <4>p. PICK page : page = TurnPage(k.p, k.seen)
        OBVIOUS
      <4>q. PICK q : q = [k.p EXCEPT !.stage = @ + 1, !.start = page.next, !.got = @ \o page.items]
        OBVIOUS
      <4>1. "op" \in DOMAIN k.p
        <5>1. PICK a \in Asks : \A n \in DOMAIN a : n \in DOMAIN k.p /\ k.p[n] = a[n]
          BY <1>1 DEF AsksWell, Asked
        <5> QED BY <5>1, NoStage
      <4>2. r.p = q
        BY <1>1, <3>1, <4>p, <4>q DEF Turned, Shape
      <4> QED BY <4>1, <4>2, <4>q
    <3> QED BY <1>3, <3>2
  <2>2. Went(k, r, w)
    BY <2>1 DEF Went, Bought, HasBoth
  <2> QED BY <1>w, <2>2
<1>4. CASE k.p.op \notin {"walk", "spawnBuy"}
  <2>1. r.p = k.p
    <3>1. Ended(k, "threw").p = k.p /\ Ended(k, "ok").p = k.p
      BY <1>1, <1>4 DEF Ended, Shape
    <3>2. f.p = k.p
      BY <1>1, <1>f DEF Shape
    <3> QED BY <1>2, <1>4, <3>1, <3>2
  <2>2. Went(k, r, w)
    BY <1>4, <2>1 DEF Went, Bought, HasBoth
  <2> QED BY <1>w, <2>2
<1>5. CASE k.p.op = "spawnBuy"
  <2>a. PICK p, seen : p = k.p /\ seen = k.seen
    OBVIOUS
  <2>1. /\ Refuses(p, seen) = NameRefuses(p, seen) /\ Tx(p, seen) = SpawnBuyTx(p, seen)
        /\ Wanted(p, seen) = NameReads(p, seen)
    BY <1>5, <2>a
       DEF Refuses, Tx, NameTx, Wanted, AntOps, EscrowOps, NameOps, Claims, AntClaims, TokenClaims,
           VaultClaims
  <2>2. p.stage \in 1..3 /\ Asked(p)
    BY <1>1, <1>5, <2>a DEF AsksWell
  <2>h. [w |-> w, g |-> g] \in Accounts
    BY DEF IInv, AccountsOK, Accounts
  <2>x. PICK from : from = [w |-> w, g |-> g]
    OBVIOUS
  <2>i. from \in Accounts /\ from.w = w /\ from.g = g
    BY <2>h, <2>x
  <2>3. ~k.disturbed => ~Refuses(p, seen)
    BY <1>1, <1>5, <2>a, <2>1 DEF Bought, NameRefuses
  <2>4. ~k.disturbed /\ p.stage = 2 => Tx(p, seen) # <<>>
    <3> SUFFICES ASSUME ~k.disturbed, p.stage = 2 PROVE SpawnBuyTx(p, seen) # <<>>
      BY <2>1
    <3>1. NowAt(from.w, from.g, seen) /\ Untouched(from.w, p.a, p.by) /\ NameReads(p, seen) = {}
      BY <1>1, <1>5, <2>a, <2>i, <2>1 DEF Saw, Bought
    <3> QED BY <1>1, <1>5, <2>a, <2>i, <2>2, <3>1, SyncLists
  <2>5. p.stage = 1 => Tx(p, seen) # <<>>
    BY <2>1 DEF SpawnBuyTx
  <2>6. ~IsRead(p)
    BY <1>5, <2>a, QueryKinds DEF IsRead, QueryOps
  <2>8. CASE r = Ended(k, "threw") /\ Refuses(p, seen)
    <3>1. Leaves(k, "threw", w)
      BY <2>3, <2>8 DEF Leaves
    <3> QED BY <1>1, <1>w, <2>8, <3>1, WentEnded
  <2>9. CASE r = Ended(k, "ok") /\ Tx(p, seen) = <<>>
    <3>1. Leaves(k, "ok", w)
      BY <1>1, <1>5, <2>a, <2>4, <2>5, <2>9 DEF Leaves, Bought
    <3> QED BY <1>1, <1>w, <2>9, <3>1, WentEnded
  <2>10. CASE r = f
    <3>1. f.pc = "flight" /\ f.p = k.p /\ f.disturbed = k.disturbed
      BY <1>1, <1>f DEF Shape
    <3> QED BY <1>1, <1>w, <2>10, <3>1 DEF Went, Bought
  <2> QED BY <1>2, <1>5, <2>a, <2>6, <2>8, <2>9, <2>10
<1> QED BY <1>3, <1>4, <1>5

\* What a purchase under way was built from.
LEMMA BuyFrom ==
  ASSUME IInv, CallsSaw, BuysOK, NEW c \in Calls, call[c].pc = "flight",
         call[c].p.op = "spawnBuy", ~call[c].disturbed
  PROVE  LET k == call[c]
             from == [w |-> w, g |-> g]
         IN  /\ from \in Accounts /\ Asked(k.p) /\ k.p.stage \in 1..3 /\ Bought(k, w)
             /\ \E seen : /\ SeenOK(seen) /\ NameReads(k.p, seen) = {} /\ NowAt(w, g, seen)
                          /\ k.tx = SpawnBuyTx(k.p, seen) /\ k.tx # <<>>
<1>k. PICK k, p : k = call[c] /\ p = k.p
  OBVIOUS
<1>1. [w |-> w, g |-> g] \in Accounts
  BY DEF IInv, AccountsOK, Accounts
<1>2. Asked(p) /\ p.stage \in 1..3 /\ Bought(k, w)
  BY <1>k DEF IInv, CallsOK, CallOK, AsksWell, BuysOK
<1>3. PICK seen : Built(k, seen) /\ NowAt(w, g, seen)
  BY <1>k DEF CallsSaw, Saw
<1>4. SeenOK(seen) /\ ReadAll(p, seen) /\ k.tx = Tx(p, seen) /\ k.tx # <<>>
  BY <1>k, <1>3 DEF Built
<1>5. NameReads(p, seen) = {} /\ Tx(p, seen) = SpawnBuyTx(p, seen)
  BY <1>k, <1>4
     DEF Tx, NameTx, AntOps, EscrowOps, NameOps, Claims, AntClaims, TokenClaims, VaultClaims,
         ReadAll
<1> QED BY <1>k, <1>1, <1>2, <1>3, <1>4, <1>5

\* A stage that landed leaves what the next one needs.
LEMMA LandedLeaves ==
  ASSUME IInv, CallsSaw, ListsOK, BuysOK, NEW c \in Calls, call[c].pc = "flight",
         NEW s \in Execute(call[c].tx), w' = s.w, g' = s.g
  PROVE  Leaves(call[c], "ok", w')
<1>k. PICK k, p : k = call[c] /\ p = k.p
  OBVIOUS
<1> SUFFICES ASSUME p.op = "spawnBuy", ~k.disturbed
             PROVE  /\ p.stage = 1 => Untouched(w', p.a, p.by)
                    /\ p.stage \in {2, 3} => InLists(w', p.a, p.by)
  BY <1>k DEF Leaves
<1>x. PICK from : from = [w |-> w, g |-> g]
  OBVIOUS
<1>f. from.w = w /\ from.g = g
  BY <1>x
<1>1. from \in Accounts /\ Asked(p) /\ p.stage \in 1..3 /\ Bought(k, w)
  BY <1>k, <1>x, BuyFrom
<1>2. PICK seen : /\ SeenOK(seen) /\ NameReads(p, seen) = {} /\ NowAt(w, g, seen)
                  /\ k.tx = SpawnBuyTx(p, seen) /\ k.tx # <<>>
  BY <1>k, BuyFrom
<1>3. Leads(SpawnBuyTx(p, seen), from, s)
  BY <1>k, <1>x, <1>2, Landed DEF Leads
<1>4. NowAt(from.w, from.g, seen)
  BY <1>f, <1>2
<1>5. CASE p.stage = 1
  <2>1. p.a \in Ants
    BY <1>1, NameAsked DEF NameOps
  <2>2. Blank(from.w, p.a)
    BY <1>f, <2>1 DEF ListsOK, Accords
  <2>3. Untouched(s.w, p.a, p.by)
    BY <1>1, <1>3, <1>5, <2>2, BoughtUntouched
  <2> QED BY <1>5, <2>3
<1>6. CASE p.stage = 2
  <2>1. Untouched(from.w, p.a, p.by)
    BY <1>k, <1>f, <1>1, <1>6 DEF Bought
  <2>2. InLists(s.w, p.a, p.by)
    BY <1>1, <1>2, <1>3, <1>4, <1>6, <2>1, SyncLists
  <2> QED BY <1>6, <2>2
<1>7. CASE p.stage = 3
  <2>1. InLists(from.w, p.a, p.by)
    BY <1>k, <1>f, <1>1, <1>7 DEF Bought
  <2>2. SpawnBuyTx(p, seen) # <<>>
    BY <1>2
  <2>3. InLists(s.w, p.a, p.by)
    BY <1>1, <1>3, <1>7, <2>1, <2>2, TraitsKeep
  <2> QED BY <1>7, <2>3
<1>8. p.stage \in {1, 2, 3}
  BY <1>1
<1> QED BY <1>5, <1>6, <1>7, <1>8

\* The stage that syncs the entries is never rejected while undisturbed.
LEMMA RejectedLeaves ==
  ASSUME IInv, CallsSaw, BuysOK, NEW c \in Calls, Reject(c)
  PROVE  Leaves(call[c], "rejected", w)
<1>k. PICK k, p : k = call[c] /\ p = k.p
  OBVIOUS
<1> SUFFICES ASSUME p.op = "spawnBuy", ~k.disturbed, p.stage \in {2, 3}
             PROVE  InLists(w, p.a, p.by)
  BY <1>k DEF Leaves
<1>0. k.pc = "flight" /\ Execute(k.tx) = {}
  BY <1>k DEF Reject
<1>x. PICK from : from = [w |-> w, g |-> g]
  OBVIOUS
<1>f. from.w = w /\ from.g = g
  BY <1>x
<1>1. from \in Accounts /\ Asked(p) /\ Bought(k, w)
  BY <1>k, <1>0, <1>x, BuyFrom
<1>2. PICK seen : /\ NameReads(p, seen) = {} /\ NowAt(w, g, seen)
                  /\ k.tx = SpawnBuyTx(p, seen)
  BY <1>k, <1>0, BuyFrom
<1>3. CASE p.stage = 2
  <2>1. Untouched(from.w, p.a, p.by) /\ NowAt(from.w, from.g, seen)
    BY <1>k, <1>0, <1>f, <1>1, <1>2, <1>3 DEF Bought
  <2>2. PICK to : Leads(SpawnBuyTx(p, seen), from, to)
    BY <1>1, <1>2, <1>3, <2>1, SyncTaken
  <2>3. PICK st : Path(st, k.tx, [w |-> w, g |-> g], to)
    BY <1>x, <1>2, <2>2 DEF Leads
  <2>4. TxOK(k.tx, Touched(p)) /\ w \in Ledgers /\ g \in Registries
    BY <1>k, <1>0 DEF IInv, AccountsOK, CallsOK, CallOK, SendsWell
  <2>5. to \in Execute(k.tx)
    BY <2>3, <2>4, PathExecute
  <2> QED BY <1>0, <2>5
<1>4. CASE p.stage = 3
  BY <1>k, <1>0, <1>1, <1>4 DEF Bought
<1> QED BY <1>3, <1>4

\* The calls whose turn it is not.
LEMMA BuysOthers ==
  ASSUME IInv, BuysOK, NEW d \in Calls, call'[d] = Disturbed(call[d])
  PROVE  Went(call[d], call'[d], w')
BY WentDisturbed DEF IInv, CallsOK, BuysOK

\* A transaction lands.
LEMMA BuyLands ==
  ASSUME IInv, CallsSaw, ListsOK, BuysOK, NEW c \in Calls, Land(c)
  PROVE  AllWent
<1>k. PICK k : k = call[c]
  OBVIOUS
<1>1. PICK s \in Execute(k.tx) : w' = s.w /\ g' = s.g
  BY <1>k DEF Land
<1>2. k.pc = "flight" /\ Changed(c, Ended(k, "ok")) /\ CallOK(k, g.slots, sigs)
  BY <1>k DEF Land, IInv, CallsOK
<1>3. Leaves(k, "ok", w')
  BY <1>k, <1>1, <1>2, LandedLeaves
<1>4. Went(k, Ended(k, "ok"), w')
  BY <1>2, <1>3, WentEnded
<1>5. ASSUME NEW d \in Calls, d # c PROVE Went(call[d], call'[d], w')
  <2>1. call'[d] = Disturbed(call[d])
    BY <1>2, <1>5 DEF Changed
  <2> QED BY <2>1, BuysOthers
<1>6. call'[c] = Ended(k, "ok")
  BY <1>2 DEF Changed
<1> QED BY <1>k, <1>4, <1>5, <1>6 DEF AllWent

\* A transaction is rejected.
LEMMA BuyRejected ==
  ASSUME IInv, CallsSaw, BuysOK, NEW c \in Calls, Reject(c)
  PROVE  AllWent
<1>k. PICK k, r : k = call[c] /\ r = Ended(k, "rejected")
  OBVIOUS
<1>1. k.pc = "flight" /\ CallOK(k, g.slots, sigs) /\ w' = w
  BY <1>k DEF Reject, IInv, CallsOK
<1>2. call' = [call EXCEPT ![c] = r]
  BY <1>k DEF Reject, IInv, CallsOK
<1>3. Leaves(k, "rejected", w)
  BY <1>k, RejectedLeaves
<1>4. Went(call[c], r, w)
  BY <1>k, <1>1, <1>3, WentEnded
<1> QED BY <1>1, <1>2, <1>4, WentAlone

\* A call that was told of a failure does not know what it leaves.
LEMMA BuyLost ==
  ASSUME IInv, BuysOK, NEW c \in Calls, Lose(c)
  PROVE  AllWent
<1>k. PICK k : k = [call[c] EXCEPT !.disturbed = TRUE]
  OBVIOUS
<1>r. PICK r : r = Ended(k, "failed")
  OBVIOUS
<1>1. call[c].pc = "flight" /\ CallOK(call[c], g.slots, sigs) /\ Shape(call[c])
  BY DEF Lose, IInv, CallsOK, CallOK
<1>2. CallOK(k, g.slots, sigs) /\ k.pc = "flight" /\ k.disturbed
  <2>1. k.disturbed
    BY <1>k, <1>1 DEF Shape
  <2> QED BY <1>k, <1>1, <2>1, LostOK
<1>3. \A x : Leaves(k, "failed", x)
  BY <1>2 DEF Leaves
<1>4. \A x : Went(call[c], r, x)
  BY <1>r, <1>2, <1>3, WentEnded
<1>5. CASE w' = w /\ call' = [call EXCEPT ![c] = r]
  BY <1>4, <1>5, WentAlone
<1>6. CASE Changed(c, r)
  <2>1. ASSUME NEW d \in Calls, d # c PROVE Went(call[d], call'[d], w')
    <3>1. call'[d] = Disturbed(call[d])
      BY <1>6, <2>1 DEF Changed
    <3> QED BY <3>1, BuysOthers
  <2>2. call'[c] = r
    BY <1>6 DEF Changed
  <2> QED BY <1>4, <2>1, <2>2 DEF AllWent
<1> QED BY <1>k, <1>r, <1>5, <1>6 DEF Lose

\* Every step.
LEMMA BuysNext == IInv /\ CallsSaw /\ ListsOK /\ BuysOK /\ [Next]_vars => AllWent
<1> SUFFICES ASSUME IInv, CallsSaw, ListsOK, BuysOK, [Next]_vars PROVE AllWent
  OBVIOUS
<1>0. ASSUME w' = w, call' = call PROVE AllWent
  BY <1>0 DEF AllWent, Went, BuysOK
<1>1. CASE UNCHANGED vars
  BY <1>0, <1>1 DEF vars
<1>2. CASE Others
  <2>1. call' = [d \in Calls |-> Disturbed(call[d])]
    BY <1>2 DEF Others
  <2>2. ASSUME NEW d \in Calls PROVE Went(call[d], call'[d], w')
    BY <2>1, BuysOthers
  <2> QED BY <2>2 DEF AllWent
<1>3. ASSUME NEW b \in DOMAIN w.box, NEW u \in Users, Sign(b, u) PROVE AllWent
  BY <1>0, <1>3 DEF Sign
<1>4. ASSUME NEW c \in Calls, Submit(c) PROVE AllWent
  BY <1>4, BuyBegins
<1>5. ASSUME NEW c \in Calls, Read(c) PROVE AllWent
  BY <1>5, BuyReads
<1>6. ASSUME NEW c \in Calls, Build(c) PROVE AllWent
  BY <1>6, BuyBuilds
<1>7. ASSUME NEW c \in Calls, Land(c) PROVE AllWent
  BY <1>7, BuyLands
<1>8. ASSUME NEW c \in Calls, Reject(c) PROVE AllWent
  BY <1>8, BuyRejected
<1>9. ASSUME NEW c \in Calls, Lose(c) PROVE AllWent
  BY <1>9, BuyLost
<1> QED BY <1>1, <1>2, <1>3, <1>4, <1>5, <1>6, <1>7, <1>8, <1>9 DEF Next

\* At first there is no purchase.
LEMMA BuysInit == Init => BuysOK
<1> SUFFICES ASSUME Init, NEW c \in Calls PROVE Bought(call[c], w)
  BY DEF BuysOK
<1>1. call[c].pc = "idle"
  BY DEF Init, Idle
<1> QED BY <1>1 DEF Bought

\* Whoever bought a name with a new ANT owns it and has both of its entries
\* in his lists when the call returns, once each, even if the sync of the
\* traits failed (io-writeable.ts:1829), unless something else came between.
THEOREM BuyersAreListed == Spec => AclKept
<1> DEFINE A == \A c \in Calls :
         LET k == call'[c] IN
         /\ call[c].pc # "ok" /\ k.pc = "ok"
         /\ k.p.op = "spawnBuy" /\ ~k.disturbed
         => /\ w'.owner[k.p.a] = k.p.by
            /\ \A r \in {"owner", "controller"} :
                 CountIn(w', k.p.by, Entry(k.p.a, r)) = 1
<1>1. IInv /\ CallsSaw /\ ListsOK /\ BuysOK /\ [Next]_vars => BuysOK'
  BY BuysNext DEF AllWent, Went, BuysOK
<1>2. IInv /\ IInv' /\ CallsSaw /\ ListsOK /\ BuysOK /\ [Next]_vars => [A]_vars
  <2> SUFFICES ASSUME IInv, IInv', CallsSaw, ListsOK, BuysOK, Next,
                      NEW c \in Calls, NEW k, k = call'[c],
                      call[c].pc # "ok", k.pc = "ok", k.p.op = "spawnBuy", ~k.disturbed
               PROVE  /\ w'.owner[k.p.a] = k.p.by
                      /\ \A r \in {"owner", "controller"} :
                           CountIn(w', k.p.by, Entry(k.p.a, r)) = 1
    BY DEF vars
  <2>1. InLists(w', k.p.a, k.p.by)
    BY BuysNext DEF AllWent, Went, HasBoth
  <2>2. k.p.by \in Users
    <3>1. Asked(k.p)
      BY DEF IInv, CallsOK, CallOK, AsksWell
    <3> QED BY <3>1, NameAsked DEF NameOps
  <2>p. PICK a, by : a = k.p.a /\ by = k.p.by
    OBVIOUS
  <2>3. w'.owner[a] = by /\ by \in w'.ctrl[a] /\ Told(w', a, by, TRUE)
    BY <2>1, <2>2, <2>p DEF InLists, ExactNow, Exact
  <2> QED BY <2>p, <2>3 DEF Told
<1>3. Spec => [][A]_vars
  <2> HIDE DEF A
  <2> QED BY <1>1, <1>2, InvInit, InvNext, ListsInit, BuysInit, SawNext, ListsNext, PTL DEF Spec
<1> QED BY <1>3 DEF AclKept
=============================================================================
