---------------------------- MODULE LookupTables ----------------------------
(***************************************************************************)
(* Ephemeral Address Lookup Tables (src/src/solana/send.ts): a send too    *)
(* large for one transaction creates a table, fills it, waits until it is  *)
(* final and consumes it (sendWithEphemeralLookupTable); a cleanup pass    *)
(* finds consumed tables in the signer's transaction history, deactivates  *)
(* them and, after a cooldown, closes them (reclaimLookupTablesForSigner). *)
(*                                                                         *)
(* Several processes may send and clean up with one signer.  Any step of a *)
(* send can fail, with or without effect, and leaves its table behind.     *)
(***************************************************************************)
EXTENDS Integers, SequencesExt

CONSTANTS
  Senders,     \* processes that send with a table
  Reclaimers,  \* processes that run the cleanup pass
  Extends,     \* extend transactions that fill a table
  Capacity,    \* extend transactions a table has room for
  MaxTables,   \* maxTables: confirmed submissions that end a pass
  Headroom,    \* candidates collected per submission (3)
  ScanLimit,   \* scanLimit: signatures of the history that are read
  Cooldown,    \* COOLDOWN_SLOTS, in ticks
  MaxSlot,     \* bound: slots in which tables are created
  MaxFaults,   \* bound: reads and sends that fail, creations of a table that
               \* exists that are accepted, and entries that are closed later
  NoTable      \* a transaction that uses no lookup table

ASSUME TableAssumption ==
  /\ Extends \in Nat \ {0} /\ Capacity \in Nat /\ Extends <= Capacity
  /\ MaxTables \in Nat \ {0} /\ Headroom \in Nat \ {0}
  /\ ScanLimit \in Nat /\ Cooldown \in Nat /\ MaxSlot \in Nat
  /\ MaxFaults \in Nat

\* A table's address is derived from the signer and a recent slot.
Tables == 0..MaxSlot

ASSUME NoTableAssumption == NoTable \notin Tables

\* kind: every entry is owned by GAR or ArNS ("prescribe"), some never was
\* ("other"), or some was and has been closed ("stale").  shared remembers
\* that a second creation of the table was accepted.
Table == [state : {"none", "active", "deactivated", "closed"},
          kind : {"prescribe", "other", "stale"},
          filled : 0..Capacity, final : 0..Capacity, age : 0..Cooldown,
          shared : BOOLEAN]

VARIABLES
  slot,
  table,    \* the tables on chain
  history,  \* the signer's transactions, each the table it looks up
  send,     \* each sender's call in progress
  pass,     \* each reclaimer's pass in progress
  faults

vars == <<slot, table, history, send, pass, faults>>

SendPcs == {"idle", "create", "extend", "wait", "consume"}
Sends   == [pc : SendPcs, table : Tables, kind : {"prescribe", "other"},
            sent : 0..Extends]
NoSend  == [pc |-> "idle", table |-> 0, kind |-> "prescribe", sent |-> 0]

PassPcs == {"idle", "table", "deactivate", "close"}
NoPass  == [pc |-> "idle", todo |-> <<>>, cooled |-> {}, done |-> 0]

Absent == [state |-> "none", kind |-> "prescribe", filled |-> 0, final |-> 0,
           age |-> 0, shared |-> FALSE]

Init ==
  /\ slot = 0
  /\ table = [t \in Tables |-> Absent]
  /\ history = <<>>
  /\ send = [s \in Senders |-> NoSend]
  /\ pass = [r \in Reclaimers |-> NoPass]
  /\ faults = 0

\* A submission that the chain accepts (ok) and that changes it by effect
\* goes on to done; it may also fail, rejected or with its outcome unknown,
\* and goes on to failed.
Submit(ok, effect, nothing, done, failed) ==
  \/ ok /\ effect /\ done /\ UNCHANGED faults
  \/ ~ok /\ nothing /\ failed /\ UNCHANGED faults
  \/ /\ faults < MaxFaults
     /\ faults' = faults + 1
     /\ nothing \/ (ok /\ effect)
     /\ failed

-----------------------------------------------------------------------------
(* sendWithEphemeralLookupTable.                                           *)

SendGoto(s, l) == send' = [send EXCEPT ![s].pc = l]
SendEnds(s)    == send' = [send EXCEPT ![s] = NoSend]

\* getSlot, and the address that follows from it.
DeriveTable(s) ==
  /\ send[s].pc = "idle"
  /\ \E k \in {"prescribe", "other"} :
       send' = [send EXCEPT ![s] = [pc |-> "create", table |-> slot,
                                    kind |-> k, sent |-> 0]]
  /\ UNCHANGED <<slot, table, history, pass, faults>>

\* Two sends that read the same finalized slot derive the same address.  What
\* the lookup table program makes of the second creation is not in the
\* repository: it refuses, or accepts and changes nothing.
CreateLookupTable(s) ==
  LET t == send[s].table IN
  /\ send[s].pc = "create"
  /\ \/ Submit(table[t].state = "none",
               table' = [table EXCEPT ![t].state = "active"],
               UNCHANGED table, SendGoto(s, "extend"), SendEnds(s))
     \/ /\ table[t].state \in {"active", "deactivated"}
        /\ faults < MaxFaults
        /\ faults' = faults + 1
        /\ table' = [table EXCEPT ![t].shared = TRUE]
        /\ SendGoto(s, "extend")
  /\ UNCHANGED <<slot, history, pass>>

\* The kind of a table that gets entries of kind k.
WithEntries(t, k) == IF k = "other" THEN "other" ELSE table[t].kind

ExtendLookupTable(s) ==
  LET t == send[s].table
      n == send[s].sent + 1 IN
  /\ send[s].pc = "extend"
  /\ Submit(table[t].state = "active" /\ table[t].filled < Capacity,
            table' = [table EXCEPT ![t].filled = @ + 1,
                                   ![t].kind = WithEntries(t, send[s].kind)],
            UNCHANGED table,
            send' = [send EXCEPT ![s].sent = n,
                                 ![s].pc = IF n < Extends THEN "extend"
                                           ELSE "wait"],
            SendEnds(s))
  /\ UNCHANGED <<slot, history, pass>>

\* Mutant: the wait is for confirmation.
ActiveWhenConfirmed(t) == table[t].filled >= Extends

\* What waitForLookupTableActive waits for: as many entries as this send's.
Active(t) == table[t].final >= Extends

WaitForLookupTableActive(s) ==
  /\ send[s].pc = "wait"
  /\ \/ /\ Active(send[s].table)
        /\ SendGoto(s, "consume")
        /\ UNCHANGED faults
     \/ /\ faults < MaxFaults
        /\ faults' = faults + 1
        /\ SendEnds(s)
  /\ UNCHANGED <<slot, table, history, pass>>

\* The transaction lands, whatever its outcome, or is dropped.
Consume(s) ==
  /\ send[s].pc = "consume"
  /\ Submit(TRUE, history' = Append(history, send[s].table),
            UNCHANGED history, SendEnds(s), SendEnds(s))
  /\ UNCHANGED <<slot, table, pass>>

SendStep(s) ==
  \/ DeriveTable(s) \/ CreateLookupTable(s) \/ ExtendLookupTable(s)
  \/ WaitForLookupTableActive(s) \/ Consume(s)

-----------------------------------------------------------------------------
(* reclaimLookupTablesForSigner.                                           *)

\* Mutant: no headroom over maxTables.
CollectUpToMax(found, t) ==
  IF t = NoTable \/ t \in ToSet(found) \/ Len(found) >= MaxTables
  THEN found ELSE Append(found, t)

Collect(found, t) ==
  IF t = NoTable \/ t \in ToSet(found) \/ Len(found) >= Headroom * MaxTables
  THEN found ELSE Append(found, t)

\* The tables of the newest transactions, newest first.
Candidates(h) ==
  LET oldest == IF Len(h) > ScanLimit THEN Len(h) - ScanLimit + 1 ELSE 1 IN
  FoldLeft(Collect, <<>>, Reverse(SubSeq(h, oldest, Len(h))))

PassGoto(r, l) == pass' = [pass EXCEPT ![r].pc = l]

PassNext(r, n) ==
  pass' = [pass EXCEPT ![r].pc = "table", ![r].todo = Tail(@),
                       ![r].done = @ + n]

\* The history and, at the same slot, what has cooled down.
ScanHistory(r) ==
  /\ pass[r].pc = "idle"
  /\ pass' = [pass EXCEPT ![r] =
       [pc |-> "table", todo |-> Candidates(history), done |-> 0,
        cooled |-> {t \in Tables : /\ table[t].state = "deactivated"
                                   /\ table[t].age = Cooldown}]]
  /\ UNCHANGED <<slot, table, history, send, faults>>

\* Mutant: any table of the history may be reclaimed.
AnyTable(t) == table[t].filled > 0

\* The fingerprint: entries there are, each owned by GAR or ArNS.
Fingerprint(t) == table[t].filled > 0 /\ table[t].kind = "prescribe"

\* Mutant: one submission more.
SpentAfterMore(r) == pass[r].done > MaxTables

Spent(r) == pass[r].done >= MaxTables

ReadTable(r) ==
  /\ pass[r].pc = "table"
  /\ IF pass[r].todo = <<>> \/ Spent(r)
     THEN pass' = [pass EXCEPT ![r] = NoPass]
     ELSE LET t == Head(pass[r].todo) IN
          IF ~Fingerprint(t) THEN PassNext(r, 0)
          ELSE IF table[t].state = "active" THEN PassGoto(r, "deactivate")
          ELSE IF table[t].state = "deactivated" /\ t \in pass[r].cooled
          THEN PassGoto(r, "close") ELSE PassNext(r, 0)
  /\ UNCHANGED <<slot, table, history, send, faults>>

DeactivateLookupTable(r) ==
  LET t == Head(pass[r].todo) IN
  /\ pass[r].pc = "deactivate"
  /\ Submit(table[t].state = "active",
            /\ table' = [table EXCEPT ![t].state = "deactivated"]
            /\ history' = Append(history, NoTable),
            UNCHANGED <<table, history>>, PassNext(r, 1), PassNext(r, 0))
  /\ UNCHANGED <<slot, send>>

CloseLookupTable(r) ==
  LET t == Head(pass[r].todo) IN
  /\ pass[r].pc = "close"
  /\ Submit(table[t].state = "deactivated" /\ table[t].age = Cooldown,
            /\ table' = [table EXCEPT ![t].state = "closed"]
            /\ history' = Append(history, NoTable),
            UNCHANGED <<table, history>>, PassNext(r, 1), PassNext(r, 0))
  /\ UNCHANGED <<slot, send>>

\* A read of the history fails the pass; one of a table skips the table.
PassError(r) ==
  /\ pass[r].pc = "table" /\ pass[r].todo # <<>>
  /\ faults < MaxFaults
  /\ faults' = faults + 1
  /\ PassNext(r, 0)
  /\ UNCHANGED <<slot, table, history, send>>

PassStep(r) ==
  \/ ScanHistory(r) \/ ReadTable(r)
  \/ DeactivateLookupTable(r) \/ CloseLookupTable(r)

-----------------------------------------------------------------------------
(* The chain.                                                              *)

\* A slot passes: what was confirmed is final, what was deactivated ages.
Tick ==
  /\ slot' = IF slot < MaxSlot THEN slot + 1 ELSE slot
  /\ table' = [t \in Tables |->
       [table[t] EXCEPT
         !.final = table[t].filled,
         !.age = IF table[t].state = "deactivated" /\ @ < Cooldown
                 THEN @ + 1 ELSE @]]
  /\ UNCHANGED <<history, send, pass, faults>>

\* A gateway or a record that a table lists is closed.
EntryCloses(t) ==
  /\ faults < MaxFaults
  /\ table[t].kind = "prescribe" /\ table[t].filled > 0
  /\ table' = [table EXCEPT ![t].kind = "stale"]
  /\ faults' = faults + 1
  /\ UNCHANGED <<slot, history, send, pass>>

Next ==
  \/ \E s \in Senders : SendStep(s)
  \/ \E r \in Reclaimers : PassStep(r) \/ PassError(r)
  \/ Tick
  \/ \E t \in Tables : EntryCloses(t)

Spec == Init /\ [][Next]_vars

\* The cleanup pass is run for ever, and slots pass.
Fairness == (\A r \in Reclaimers : WF_vars(PassStep(r))) /\ WF_vars(Tick)

FairSpec == Spec /\ Fairness

-----------------------------------------------------------------------------
(* Properties.                                                             *)

\* The tables, sends and passes are well formed; a pass sees at most maxTables
\* of its submissions confirmed (those that fail are not counted: see README).
TypeOK ==
  /\ slot \in Tables /\ table \in [Tables -> Table]
  /\ history \in Seq(Tables \cup {NoTable})
  /\ send \in [Senders -> Sends]
  /\ \A r \in Reclaimers :
       /\ pass[r].pc \in PassPcs /\ pass[r].cooled \subseteq Tables
       /\ pass[r].todo \in Seq(Tables) /\ pass[r].done \in 0..MaxTables
  /\ faults \in 0..MaxFaults

\* A send that alone created its table (sendWithEphemeralLookupTable) consumes
\* it active, with its own entries only and every one of them final: no cleanup
\* pass and no other send of the same signer interferes.
ConsumeResolves ==
  \A s \in Senders :
    (send[s].pc = "consume" /\ ~table[send[s].table].shared) =>
      /\ table[send[s].table].state = "active"
      /\ table[send[s].table].filled = Extends
      /\ table[send[s].table].final = Extends
      /\ \A u \in Senders \ {s} :
           send[u].pc \in {"extend", "wait", "consume"}
             => send[u].table # send[s].table

\* The cleanup pass (reclaimLookupTablesForSigner) touches no table with
\* entries of other programs, though such tables are in the history it reads,
\* unless a second send was let into a table of the first.
OtherTablesUntouched ==
  \A t \in Tables :
    (table[t].kind = "other" /\ ~table[t].shared)
      => table[t].state \in {"none", "active"}

\* "The rest get picked up next pass" (the comment on the headroom of
\* reclaimLookupTablesForSigner): the rent of every table that was consumed
\* comes back, unless an entry of the table is closed, or one of another
\* program is added, before.
EveryTableClosed ==
  \A t \in Tables :
    (t \in ToSet(history) /\ table[t].kind = "prescribe")
      ~> (table[t].state = "closed" \/ table[t].kind # "prescribe")
=============================================================================
