------------------------------ MODULE PoolCalls ------------------------------
(***************************************************************************)
(* The calls about the stake delegated to gateways that an operator or a   *)
(* cranker makes (io-writeable.ts), with the discovery reads of            *)
(* io-readable.ts they start from: sweepRewards compounds a batch of what  *)
(* getDelegationsToCompound found, sweepDisabled claims a delegate of a    *)
(* gateway that getDisabledGatewaysWithDelegatedStake found and            *)
(* getGatewayDelegates lists, sweepEmpty and sweepDrained close what       *)
(* getEmptyDelegations and getDrainedWithdrawals found.  Read as           *)
(* RegistryCalls.                                                          *)
(***************************************************************************)
EXTENDS RegistryCalls, PoolLedger

PoolOps == {"compound", "sweepRewards", "sweepDisabled", "sweepEmpty", "sweepDrained",
            "updateGatewaySettings", "allowDelegate", "disallowDelegate",
            "setAllowlistEnabled"}

(* Scans for the delegations at and of somebody, and for withdrawals by    *)
(* owner; the rewards of gateways; the observer of a gateway.              *)
StakesOf(os, ds) == <<"stakes", os, ds>>
OutsOf(ds)       == <<"outs", ds>>
Accumulators(os) == <<"cums", os>>
ObserverOf(o)    == <<"observer", o>>
AllStakes        == StakesOf(Operators, Operators)

PoolValue(x, key) ==
    CASE key[1] = "stakes" ->
           [k \in Delegations(x) \intersect (key[2] \X key[3]) |-> x.stake[k]]
      [] key[1] = "outs" ->
           [k \in UNION {{d} \X OpenOuts(x, d) : d \in key[2]} |-> x.outs[k[1]][k[2]]]
      [] key[1] = "cums" ->
           [o \in {p \in key[2] : x.status[p] # "gone"} |-> x.cum[o]]
      [] key[1] = "observer" ->
           IF x.status[key[2]] = "gone" THEN NoOperator ELSE x.observer[key[2]]
      [] key[1] = "allowed" -> x.allowed[key[2]]

----------------------------------------------------------------------------
(* computeLiveDelegationBalance: the stake with its rewards, computed from *)
(* the quotient and the remainder as the program does on overflow.  A      *)
(* gateway that is gone has no rewards to add.                             *)
Live(st, cum) ==
    LET delta == cum - st.debt
        pending == st.amt * (delta \div Precision)
                     + (st.amt * (delta % Precision)) \div Precision
    IN  IF st.amt = 0 \/ cum <= st.debt THEN st.amt
        ELSE Min({st.amt + pending, MaxAmount})
CumIn(cums, o) == IF o \in DOMAIN cums THEN cums[o] ELSE 0

(* selectCompoundableDelegations. *)
Compoundable(p, seen) ==
    LET gateways == seen[Scan]
        stakes   == seen[AllStakes]
    IN  {k \in DOMAIN stakes :
           /\ k[1] \in DOMAIN gateways /\ gateways[k[1]].status # "leaving"
           /\ Live(stakes[k], gateways[k[1]].cum) - stakes[k].amt > p.min}

Disabled(seen) ==
    {o \in DOMAIN seen[Scan] : LET gw == seen[Scan][o] IN
       gw.status = "joined" /\ ~gw.takes /\ gw.staked}

Empty(seen)   == {k \in DOMAIN seen[AllStakes] : seen[AllStakes][k].amt = 0}
Drained(seen) == {k \in DOMAIN seen[OutsOf(Operators)] : seen[OutsOf(Operators)][k].amt = 0}

(* getGatewayDelegates of the gateway found: those with a balance are      *)
(* swept.                                                                  *)
DelegatesReads(o) == <<StakesOf({o}, Operators), Accumulators({o})>>
Stranded(o, seen) ==
    {k \in DOMAIN seen[StakesOf({o}, Operators)] :
       Live(seen[StakesOf({o}, Operators)][k],
            CumIn(seen[Accumulators({o})], o)) > 0}
AnyOf(S) == CHOOSE e \in S : TRUE

SweepDisabledReads(seen) ==
    IF Scan \notin DOMAIN seen \/ Disabled(seen) = {} THEN <<Scan>>
    ELSE LET o    == AnyOf(Disabled(seen))
             more == <<Scan>> \o DelegatesReads(o)
         IN  IF ~(ToSet(more) \subseteq DOMAIN seen) \/ Stranded(o, seen) = {} THEN more
             ELSE Append(more, <<"nextId", AnyOf(Stranded(o, seen))[2]>>)

PoolReads(p, seen) ==
    CASE p.op = "sweepRewards"  -> <<Scan, AllStakes>>
      [] p.op = "sweepDisabled" -> SweepDisabledReads(seen)
      [] p.op = "sweepEmpty"    -> <<AllStakes>>
      [] p.op = "sweepDrained"  -> <<OutsOf(Operators)>>
      [] p.op = "updateGatewaySettings" ->
           IF p.key = NoOperator THEN <<>> ELSE <<ObserverOf(p.o)>>
      [] OTHER -> <<>>

(* getGateway throws without a gateway; a sweep may find nothing to do.    *)
PoolRefuses(p, seen) ==
    CASE p.op = "sweepRewards"  -> Compoundable(p, seen) = {}
      [] p.op = "sweepDisabled" ->
           \/ Disabled(seen) = {}
           \/ Stranded(AnyOf(Disabled(seen)), seen) = {}
      [] p.op = "sweepEmpty"    -> Empty(seen) = {}
      [] p.op = "sweepDrained"  -> Drained(seen) = {}
      [] p.op = "updateGatewaySettings" ->
           p.key # NoOperator /\ seen[ObserverOf(p.o)] = NoOperator
      [] OTHER -> FALSE

----------------------------------------------------------------------------
PoolIx(op, o, d) == [op |-> op, o |-> o, d |-> d]

(* compoundDelegationRewards, and its batch.                               *)
CompoundTx(ks) == [i \in DOMAIN ks |-> PoolIx("compound", ks[i][1], ks[i][2])]
CompoundBatch(all) == CompoundTx(SubSeq(all, 1, Min({BatchSize, Len(all)})))

ClaimDisabledTx(k, seen) ==
    <<[op |-> "claim_disabled", o |-> k[1], d |-> k[2], id |-> seen[<<"nextId", k[2]>>]]>>

(* updateGatewaySettings: a change of the settings, of the observer, or of *)
(* both at once.  The observer's lookup account moves from the key that    *)
(* was read.                                                               *)
UpdateSettingsTx(p, seen) ==
    (IF p.takes = "same" THEN <<>>
     ELSE <<[op |-> "update_settings", o |-> p.o, takes |-> p.takes = "yes"]>>)
    \o (IF p.key = NoOperator THEN <<>>
        ELSE <<[op |-> "update_observer", o |-> p.o, old |-> seen[ObserverOf(p.o)],
                new |-> p.key]>>)

AllowTx(p)        == <<PoolIx("allow_delegate", p.o, p.d)>>
DisallowTx(p)     == <<PoolIx("disallow_delegate", p.o, p.d)>>
SetAllowlistTx(p) == <<[op |-> "set_allowlist", o |-> p.o, on |-> p.takes = "yes"]>>

PoolTx(p, seen) ==
    CASE p.op = "compound"      -> CompoundTx(<<<<p.o, p.d>>>>)
      [] p.op = "sweepRewards"  -> CompoundBatch(SetToSeq(Compoundable(p, seen)))
      [] p.op = "sweepDisabled" ->
           ClaimDisabledTx(AnyOf(Stranded(AnyOf(Disabled(seen)), seen)), seen)
      [] p.op = "sweepEmpty"    -> LET k == AnyOf(Empty(seen)) IN
                                   <<PoolIx("close_delegation", k[1], k[2])>>
      [] p.op = "sweepDrained"  -> LET k == AnyOf(Drained(seen)) IN
                                   <<[op |-> "close_withdrawal", d |-> k[1], id |-> k[2]]>>
      [] p.op = "updateGatewaySettings" -> UpdateSettingsTx(p, seen)
      [] p.op = "allowDelegate"         -> AllowTx(p)
      [] p.op = "disallowDelegate"      -> DisallowTx(p)
      [] p.op = "setAllowlistEnabled"   -> SetAllowlistTx(p)

(* A sweep is owed that whatever it found.                                 *)
PoolDue(p, x) ==
    CASE p.op = "compound" ->
           /\ x.stake[<<p.o, p.d>>] # NoOperator
           /\ x.status[p.o] \in {"joined", "deficient"}
      [] p.op = "updateGatewaySettings" ->
           /\ x.status[p.o] = "joined"
           /\ p.takes = "yes" => x.takes[p.o]
           /\ p.key = NoOperator \/ KeyFree(x, p.key)
      [] p.op = "allowDelegate"       -> p.d \notin x.allowed[p.o]
      [] p.op = "disallowDelegate"    -> p.d \in x.allowed[p.o]
      [] p.op = "setAllowlistEnabled" -> x.status[p.o] # "gone"
      [] OTHER -> TRUE
=============================================================================
