----------------------------- MODULE PoolLedger -----------------------------
(***************************************************************************)
(* What ario-gar does with the stake delegated to gateways, its rewards,   *)
(* the settings of a gateway and its list of allowed delegates, over the   *)
(* accounts of RegistryLedger.  External, as that module.                  *)
(***************************************************************************)
EXTENDS RegistryLedger

Delegations(x) == {k \in Operators \X Operators : x.stake[k] # NoOperator}
OpenOuts(x, d) == {i \in DOMAIN x.outs[d] : x.outs[d][i].open}

(* Who delegates to whom: where it is taken, by those on the list if there *)
(* is one.                                                                 *)
Welcome(x, o, d) ==
    /\ x.status[o] = "joined" /\ x.takes[o]
    /\ x.gated[o] => d \in x.allowed[o]

(* One gateway per key: a lookup account is created under it.              *)
KeyFree(x, key) ==
    \A o \in Operators : x.status[o] # "gone" => x.observer[o] # key

OnDelegation(x, ix) ==
    LET k == <<ix.o, ix.d>>
        exists == x.stake[k] # NoOperator
    IN
    CASE ix.op = "compound" ->
           IF ~exists THEN {}
           ELSE Accepts(x.status[ix.o] \in {"joined", "deficient"},
                        [x EXCEPT !.stake[k] = Settled1(@, x.cum[ix.o])])
      [] ix.op = "claim_disabled" ->
           IF ~exists THEN {}
           ELSE Accepts(/\ x.status[ix.o] = "joined" /\ ~x.takes[ix.o]
                        /\ x.stake[k].amt > 0 /\ ix.id = NextOut(x, ix.d),
                        TakeOut(x, ix.o, ix.d))
      [] ix.op = "close_delegation" ->
           Accepts(exists /\ StakeAt(x, ix.o, ix.d) = 0,
                   [x EXCEPT !.stake[k] = NoOperator])
      [] ix.op = "close_withdrawal" ->
           IF ix.id \notin OpenOuts(x, ix.d) THEN {}
           ELSE Accepts(x.outs[ix.d][ix.id].amt = 0,
                        [x EXCEPT !.outs[ix.d][ix.id].open = FALSE])

(* Delegation is enabled again only when nobody's stake is left; the time  *)
(* that has to pass before is taken to have passed.                        *)
OnSettings(x, ix) ==
    CASE ix.op = "update_settings" ->
           Accepts(/\ x.status[ix.o] = "joined"
                   /\ ix.takes => x.takes[ix.o] \/ ~Staked(x, ix.o),
                   [x EXCEPT !.takes[ix.o] = ix.takes])
      [] ix.op = "update_observer" ->
           Accepts(/\ x.status[ix.o] = "joined" /\ x.observer[ix.o] = ix.old
                   /\ KeyFree(x, ix.new),
                   [x EXCEPT !.observer[ix.o] = ix.new])
      [] ix.op = "allow_delegate" ->
           Accepts(ix.d \notin x.allowed[ix.o],
                   [x EXCEPT !.allowed[ix.o] = @ \union {ix.d}])
      [] ix.op = "disallow_delegate" ->
           Accepts(ix.d \in x.allowed[ix.o], [x EXCEPT !.allowed[ix.o] = @ \ {ix.d}])
      [] ix.op = "set_allowlist" ->
           Accepts(x.status[ix.o] # "gone", [x EXCEPT !.gated[ix.o] = ix.on])

DelegationIxs == {"compound", "claim_disabled", "close_delegation", "close_withdrawal"}
SettingsIxs == {"update_settings", "update_observer", "allow_delegate",
                "disallow_delegate", "set_allowlist"}
GarIxs == RegistryIxs \union DelegationIxs \union SettingsIxs

OnGar(x, ix) ==
    IF ix.op \in DelegationIxs THEN OnDelegation(x, ix)
    ELSE IF ix.op \in SettingsIxs THEN OnSettings(x, ix)
    ELSE OnRegistry(x, ix)

(* What delegates do meanwhile, and the rewards of an epoch.               *)
PoolMoves(x) ==
    {[x EXCEPT !.cum[o] = @ + 1] : o \in {p \in Operators : Staked(x, p)}}
      \union
    {[x EXCEPT !.stake[k] = LET st == Settled1(@, x.cum[k[1]])
                            IN  [st EXCEPT !.amt = @ + 1]] :
       k \in {j \in Delegations(x) : Welcome(x, j[1], j[2])
                 /\ Settled1(x.stake[j], x.cum[j[1]]).amt < MaxAmount}}
      \union
    {TakeOut(x, k[1], k[2]) :
       k \in {j \in Delegations(x) : StakeAt(x, j[1], j[2]) > 0}}
      \union
    UNION {{[x EXCEPT !.outs[d][i].amt = 0] : i \in OpenOuts(x, d)} : d \in Operators}
=============================================================================
