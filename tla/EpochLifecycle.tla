--------------------------- MODULE EpochLifecycle ---------------------------
(***************************************************************************)
(* What the epoch crank promises, without crankers: epochs are created one *)
(* after the other, each goes through tally, prescription, observation and *)
(* distribution, the next is created only when the live one is done, and a *)
(* done epoch goes away once it is old enough.                             *)
(***************************************************************************)
EXTENDS Integers

CONSTANTS FirstEpoch, LastEpoch, Retention

VARIABLES next,  \* index of the epoch to create next
          phase  \* phase of each epoch

vars == <<next, phase>>

EpochIds == 0..LastEpoch

Phases == {"absent", "tally", "prescribe", "observe", "done"}

\* The phase a live epoch enters after phase p.
Successor == [tally |-> "prescribe", prescribe |-> "observe",
              observe |-> "done"]

Init ==
  /\ next = FirstEpoch
  /\ phase = [k \in EpochIds |-> "absent"]

\* The live epoch is done, or there is none: none was ever created, or the
\* index was set by the administrator.
LiveIsSettled ==
  next > 0 => phase[next - 1] \in {"absent", "done"}

Create ==
  /\ next \in EpochIds
  /\ LiveIsSettled
  /\ phase' = [phase EXCEPT ![next] = "tally"]
  /\ next' = next + 1

Advance(k) ==
  /\ k + 1 = next
  /\ phase[k] \in DOMAIN Successor
  /\ phase' = [phase EXCEPT ![k] = Successor[@]]
  /\ UNCHANGED next

Close(k) ==
  /\ phase[k] = "done"
  /\ k + Retention < next
  /\ phase' = [phase EXCEPT ![k] = "absent"]
  /\ UNCHANGED next

Next == Create \/ \E k \in EpochIds : Advance(k) \/ Close(k)

Spec == Init /\ [][Next]_vars

TypeOK ==
  /\ next \in Nat
  /\ phase \in [EpochIds -> Phases]

=============================================================================
