---------------------------- MODULE NameLifecycle ----------------------------
(***************************************************************************)
(* What the ArNS lifecycle promises of a name, without crankers: a lease   *)
(* that is not extended goes through its grace period, is put up for       *)
(* auction in the auction window that follows, or shortly after it by a    *)
(* decision taken in it, and the name is free again when the window or the *)
(* auction is over.                                                        *)
(***************************************************************************)
EXTENDS Integers

CONSTANTS
  Names, Grace, Auction,
  Late      \* how long after its decision an auction may start

VARIABLES clock, name

vars == <<clock, name>>

\* at is the end of a lease, the start of an auction, 0 otherwise.
Free == [state |-> "free", at |-> 0]

Init ==
  /\ clock = 0
  /\ name = [n \in Names |-> Free]

\* An owner acts: a name is bought, extended or released.
Trade(x, y) ==
  \/ /\ x.state = "free" \/ (x.state = "auction" /\ clock < x.at + Auction)
     /\ y.state \in {"lease", "permabuy"}
  \/ /\ x.state = "lease" /\ clock < x.at + Grace
     /\ y.state = "lease" /\ x.at < y.at
  \/ /\ x.state = "permabuy"
     /\ y = [state |-> "auction", at |-> clock]

\* The lease has lapsed, and its auction window was open Late ago.
Lapse(x, y) ==
  /\ x.state = "lease"
  /\ x.at + Grace <= clock /\ clock < x.at + Grace + Auction + Late
  /\ y = [state |-> "auction", at |-> clock]

\* The auction window has passed, or the auction is over.
Expire(x, y) ==
  /\ \/ x.state = "lease" /\ x.at + Grace + Auction <= clock
     \/ x.state = "auction" /\ x.at + Auction <= clock
  /\ y = Free

Move(x, y) == x = y \/ Trade(x, y) \/ Lapse(x, y) \/ Expire(x, y)

Tick == clock' = clock + 1 /\ UNCHANGED name

Next ==
  \/ Tick
  \/ /\ UNCHANGED clock
     /\ DOMAIN name' = Names
     /\ \A n \in Names : Move(name[n], name'[n])

Spec == Init /\ [][Next]_vars
=============================================================================
