----------------------------- MODULE EscrowCalls ----------------------------
(***************************************************************************)
(* The calls of ANTEscrow and TokenEscrow (escrow.ts): deposits of ANTs,   *)
(* tokens and locked tokens for a recipient known by a key of another      *)
(* chain, and the claims that this key signs.  "attestedVaultClaim" is     *)
(* what a caller does with claimVaultArweaveIx as its comment says: look   *)
(* whether the vault is open, get the attestor's word, send both.  Read as *)
(* AntCalls.                                                               *)
(***************************************************************************)
EXTENDS AntCalls

CONSTANT Tolerance       \* CLOCK_SKEW_TOLERANCE_SECONDS

ASSUME ToleranceAssumption == Tolerance \in Nat

AntClaims   == {"claimArweave", "claimEthereum"}
TokenClaims == {"claimTokensArweave", "claimTokensEthereum"}
VaultClaims == {"claimVaultArweave", "claimVaultEthereum", "attestedVaultClaim"}
Claims      == AntClaims \union TokenClaims \union VaultClaims
EscrowOps   == Claims \union
    {"deposit", "updateRecipient", "cancel", "depositTokens", "depositVault",
     "updateTokenRecipient", "cancelTokens"}

MethodOf(p) == IF p.op \in {"claimEthereum", "claimTokensEthereum", "claimVaultEthereum"}
               THEN "ethereum" ELSE "arweave"

(* Which escrow a call is about.  A depositor's calls find the escrows of  *)
(* who signs.                                                              *)
TokenBox(p) == <<"token", p.dep>>
VaultBox(p) == <<"vault", p.dep>>
OwnBox(p)   == <<p.kind, p.by>>
BoxOf(p) ==
    CASE p.op \in AntClaims \union {"deposit", "updateRecipient", "cancel"} -> p.box
      [] p.op \in TokenClaims   -> TokenBox(p)
      [] p.op \in VaultClaims   -> VaultBox(p)
      [] p.op = "depositTokens" -> <<"token", p.by>>
      [] p.op = "depositVault"  -> <<"vault", p.by>>
      [] OTHER                  -> OwnBox(p)

(* The client's clock is p.ahead - p.behind off the cluster's.             *)
Box(p)   == <<"box", BoxOf(p)>>
Clock(p) == <<"clock", p.ahead, p.behind>>
EscrowValue(x, key) ==
    IF key[1] = "box" THEN x.box[key[2]]
    ELSE IF key[3] > x.now + key[2] THEN 0 ELSE x.now + key[2] - key[3]

----------------------------------------------------------------------------
IsVaultClaimable(escrow, clock) == clock >= escrow.end + Tolerance

EscrowReads(p, seen) ==
    IF p.op \notin Claims \/ p.op = "claimVaultArweave" THEN {}
    ELSE InTurn(IF p.op \in VaultClaims THEN <<Box(p), Clock(p)>> ELSE <<Box(p)>>, seen)

(* claimVaultArweave always throws: it cannot get an attestation.          *)
EscrowRefuses(p, seen) ==
    \/ p.op = "claimVaultArweave"
    \/ /\ p.op \in Claims
       /\ \/ seen[Box(p)] = Nobody
          \/ Protocol[seen[Box(p)].recip] # MethodOf(p)
          \/ p.op \in VaultClaims /\ ~IsVaultClaimable(seen[Box(p)], seen[Clock(p)])

----------------------------------------------------------------------------
(* The depositor.                                                          *)
DepositTx(p) ==
    <<[op |-> "deposit", box |-> BoxOf(p), by |-> p.by, r |-> p.r, amt |-> 0]>>

CreateAta(u) == <<[op |-> "create_ata", u |-> u]>>

DepositTokensTx(p) ==
    CreateAta(BoxOf(p))
    \o <<[op |-> "deposit", box |-> BoxOf(p), by |-> p.by, r |-> p.r, amt |-> 1]>>

(* Mutant: the depositor is passed for the new recipient.                  *)
UpdateRecipientToSelf(p) ==
    <<[op |-> "update_recipient", box |-> BoxOf(p), by |-> p.by, r |-> p.by]>>

UpdateRecipientTx(p) ==
    <<[op |-> "update_recipient", box |-> BoxOf(p), by |-> p.by, r |-> p.r]>>

UpdateTokenRecipientTx(p) ==
    <<[op |-> "update_recipient", box |-> OwnBox(p), by |-> p.by, r |-> p.r]>>

CancelTx(p) == <<[op |-> "cancel", box |-> BoxOf(p), by |-> p.by]>>
CancelTokensTx(p) == <<[op |-> "cancel", box |-> OwnBox(p), by |-> p.by]>>

----------------------------------------------------------------------------
(* The claims.  The nonce and the depositor are those of the escrow that   *)
(* was read; only the attested claim carries an attestation.               *)
ClaimIx(p, escrow) ==
    [op |-> "claim", box |-> BoxOf(p), u |-> p.u, sig |-> p.sig, method |-> MethodOf(p),
     attested |-> p.op = "attestedVaultClaim", canonical |-> p.canonical,
     dep |-> escrow.dep, nonce |-> escrow.nonce]

(* _createClaimantAtaIfCanonical.                                          *)
ClaimantAta(p) == IF p.canonical THEN CreateAta(p.u) ELSE <<>>

ClaimAntTx(p, seen)    == <<ClaimIx(p, seen[Box(p)])>>
ClaimTokensTx(p, seen) == Append(ClaimantAta(p), ClaimIx(p, seen[Box(p)]))
ClaimVaultTx(p, seen)  == Append(ClaimantAta(p), ClaimIx(p, seen[Box(p)]))

EscrowTx(p, seen) ==
    CASE p.op = "deposit" -> DepositTx(p)
      [] p.op \in {"depositTokens", "depositVault"} -> DepositTokensTx(p)
      [] p.op = "updateRecipient"      -> UpdateRecipientTx(p)
      [] p.op = "updateTokenRecipient" -> UpdateTokenRecipientTx(p)
      [] p.op = "cancel"               -> CancelTx(p)
      [] p.op = "cancelTokens"         -> CancelTokensTx(p)
      [] p.op \in AntClaims            -> ClaimAntTx(p, seen)
      [] p.op \in TokenClaims          -> ClaimTokensTx(p, seen)
      [] p.op \in VaultClaims          -> ClaimVaultTx(p, seen)

(* A claim is owed success when the key the escrow is for has signed for   *)
(* this claimant, the client has let it through, and it carries what the   *)
(* protocol of the recipient wants.                                        *)
EscrowDue(p, x) ==
    LET b == x.box[BoxOf(p)] IN
    CASE p.op = "deposit" -> b = Nobody /\ x.owner[p.box] = p.by
      [] p.op \in {"depositTokens", "depositVault"} -> b = Nobody /\ x.held[p.by] >= 1
      [] p.op \in Claims ->
           /\ b # Nobody /\ p.sig # Nobody /\ p.sig.key = b.recip
           /\ p.sig.msg = CanonicalMessage(BoxOf(p), b.amt, b.recip, p.u, b.nonce)
           /\ MethodOf(p) = "ethereum" \/ p.op = "attestedVaultClaim"
           /\ p.op \in AntClaims \/ p.canonical \/ p.u \in x.ata
      [] OTHER -> b # Nobody /\ b.dep = p.by
=============================================================================
