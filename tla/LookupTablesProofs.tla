------------------------- MODULE LookupTablesProofs -------------------------
(***************************************************************************)
(* For every number of senders, cleanup passes, slots and failures, and     *)
(* whatever the lookup table program makes of a second creation: a table   *)
(* that one send created belongs to it until its transaction is in the     *)
(* history, so nothing interferes with a send that is about to consume its *)
(* table, and the cleanup pass leaves the tables of other programs alone.  *)
(***************************************************************************)
EXTENDS LookupTables, FoldLemmas

-----------------------------------------------------------------------------
(* What the scan of the history collects.                                  *)

\* Nothing is collected but the tables that are met.
LEMMA CollectType ==
  ASSUME NEW W, NEW found \in Seq(W), NEW t \in W \cup {NoTable}
  PROVE  Collect(found, t) \in Seq(W)
BY DEF Collect

\* The newest transactions of the history, newest first.
LEMMA NewestOfHistory ==
  ASSUME NEW h, NEW X, h \in Seq(X), NEW i \in 1..(Len(h) + 1)
  PROVE  /\ Reverse(SubSeq(h, i, Len(h))) \in Seq(ToSet(h))
         /\ DOMAIN Reverse(SubSeq(h, i, Len(h))) = 1..(Len(h) - i + 1)
<1> DEFINE q == SubSeq(h, i, Len(h))
           n == Len(h) - i + 1
<1>1. q = [j \in 1..n |-> h[j + i - 1]] /\ n \in Nat
  OBVIOUS
<1>2. q \in [1..n -> ToSet(h)] /\ Len(q) = n
  BY <1>1 DEF ToSet
<1>3. Reverse(q) \in [1..n -> ToSet(h)]
  <2>1. \A j \in 1..n : Len(q) - j + 1 \in 1..n
    BY <1>1, <1>2
  <2> HIDE DEF q, n
  <2> QED BY <1>1, <1>2, <2>1 DEF Reverse
<1>4. Reverse(q) \in Seq(ToSet(h)) /\ DOMAIN Reverse(q) = 1..n
  <2> HIDE DEF q, n
  <2> QED BY <1>1, <1>3
<1> QED BY <1>4

\* Candidates returns tables of the history, and no transaction without one.
LEMMA CandidatesOfHistory ==
  ASSUME NEW h, NEW X, h \in Seq(X)
  PROVE  Candidates(h) \in Seq(ToSet(h) \ {NoTable})
<1> DEFINE oldest == IF Len(h) > ScanLimit THEN Len(h) - ScanLimit + 1 ELSE 1
           q == Reverse(SubSeq(h, oldest, Len(h)))
           W == ToSet(h) \ {NoTable}
           n == Len(h) - oldest + 1
           V == Seq(W)
           G == [p \in V \X (1..n) |-> Collect(p[1], q[p[2]])]
           it == CHOOSE f : f = [s \in SUBSET DOMAIN q |->
                   IF s = {} THEN <<>>
                   ELSE LET x == Max(s) IN Collect(f[s \ {x}], q[x])]
<1>1. n \in Nat /\ DOMAIN q = 1..n /\ q \in Seq(ToSet(h))
  <2>1. oldest \in 1..(Len(h) + 1)
    BY TableAssumption
  <2> QED BY <2>1, NewestOfHistory
<1>2. \A found \in V, i \in 1..n : Collect(found, q[i]) \in V
  <2> SUFFICES ASSUME NEW found \in V, NEW i \in 1..n
               PROVE  Collect(found, q[i]) \in V
    OBVIOUS
  <2>1. q[i] \in W \cup {NoTable}
    BY <1>1
  <2> QED BY <2>1, CollectType
<1>3. G \in [V \X (1..n) -> V]
  BY <1>2
<1>4. PICK f \in [SUBSET (1..n) -> V] : FoldsLeft(f, n, <<>>, G)
  <2>1. <<>> \in V
    OBVIOUS
  <2> HIDE DEF V, G, n
  <2> QED BY <1>1, <1>3, <2>1, FoldLeftExists
<1>5. f = [s \in SUBSET DOMAIN q |->
             IF s = {} THEN <<>>
             ELSE LET x == Max(s) IN Collect(f[s \ {x}], q[x])]
  <2>1. \A s \in SUBSET (1..n) : s # {} => Max(s) \in 1..n
    BY <1>1, MaxOfPositions
  <2>2. \A s \in SUBSET (1..n) :
          s # {} => G[<<f[s \ {Max(s)}], Max(s)>>]
                      = Collect(f[s \ {Max(s)}], q[Max(s)])
    BY <2>1
  <2> HIDE DEF G, q, V, n
  <2> QED BY <1>1, <1>4, <2>2 DEF FoldsLeft
<1>6. it = [s \in SUBSET DOMAIN q |->
              IF s = {} THEN <<>>
              ELSE LET x == Max(s) IN Collect(it[s \ {x}], q[x])]
  <2> HIDE DEF q
  <2> QED BY <1>5
<1>7. \A k \in 0..n : it[1..k] \in V
  <2> DEFINE S == {k \in 0..n : it[1..k] \in V}
  <2> HIDE DEF it, q, V, n
  <2>1. 0 \in S
    BY <1>1, <1>6 DEF V
  <2>2. \A k \in 0..(n - 1) : k \in S => k + 1 \in S
    <3> SUFFICES ASSUME NEW k \in 0..(n - 1), it[1..k] \in V
                 PROVE  it[1..(k + 1)] \in V
      BY <1>1
    <3>1. Max(1..(k + 1)) = k + 1 /\ (1..(k + 1)) \ {k + 1} = 1..k
      BY <1>1, MaxOfInterval
    <3>2. 1..(k + 1) \in SUBSET DOMAIN q /\ 1..(k + 1) # {}
      <4>1. k + 1 \in 1..(k + 1) /\ \A j \in 1..(k + 1) : j \in 1..n
        BY <1>1
      <4> QED BY <1>1, <4>1
    <3>3. it[1..(k + 1)] = Collect(it[1..k], q[k + 1])
      BY <1>6, <3>1, <3>2
    <3> QED BY <1>1, <1>2, <3>3
  <2> HIDE DEF S
  <2>3. \A k \in 0..n : k \in S
    BY <1>1, <2>1, <2>2, UpToByInduction
  <2> QED BY <2>3 DEF S
<1>8. Candidates(h) = it[DOMAIN q]
  BY DEF Candidates, FoldLeft, MapThenFoldSet
<1>9. it[1..n] \in V
  <2> HIDE DEF it, n, V
  <2> QED BY <1>1, <1>7
<1> QED BY <1>1, <1>8, <1>9

-----------------------------------------------------------------------------
(* Well-formed states.                                                     *)

\* A pass in progress, as the code keeps it.
Pass == [pc : PassPcs, todo : Seq(Tables), cooled : SUBSET Tables,
         done : 0..MaxTables]

\* A send has made as many extensions as the place it has come to says.
Fits(x) ==
  /\ x.pc = "create" => x.sent = 0
  /\ x.pc = "extend" => x.sent < Extends
  /\ x.pc \in {"wait", "consume"} => x.sent = Extends

Shaped ==
  /\ slot \in Tables
  /\ table \in [Tables -> Table]
  /\ history \in Seq(Tables \cup {NoTable})
  /\ send \in [Senders -> Sends] /\ \A s \in Senders : Fits(send[s])
  /\ pass \in [Reclaimers -> Pass]
  /\ faults \in 0..MaxFaults

\* A table that was not created is empty.
NoneIsEmpty ==
  \A t \in Tables : table[t].state = "none" => table[t].filled = 0

\* The table a pass is about to reclaim was created, and the pass has a
\* submission left.
Chosen ==
  \A r \in Reclaimers : pass[r].pc \in {"deactivate", "close"} =>
    /\ pass[r].todo # <<>> /\ pass[r].done < MaxTables
    /\ table[Head(pass[r].todo)].state # "none"

Sorted == Shaped /\ NoneIsEmpty /\ Chosen

LEMMA SortedInit == Init => Sorted
BY TableAssumption DEF Init, Sorted, Shaped, Table, NoneIsEmpty, Chosen,
   Tables, Sends, SendPcs, NoSend, Fits, Pass, PassPcs, NoPass,
   Absent

\* What a step of a send does to the senders: it gives one of them a record
\* that is again as far as it says.
Moves(s) ==
  \E x \in Sends : Fits(x) /\ send' = [send EXCEPT ![s] = x]

LEMMA SendMoves ==
  ASSUME Shaped, NEW s \in Senders,
         \/ SendEnds(s)
         \/ send[s].pc = "create" /\ SendGoto(s, "extend")
         \/ send[s].pc = "wait" /\ SendGoto(s, "consume")
  PROVE  Moves(s)
<1>1. NoSend \in Sends /\ Fits(NoSend) /\ NoSend.pc = "idle"
  BY TableAssumption DEF NoSend, Sends, SendPcs, Tables, Fits
<1>2. CASE SendEnds(s)
  BY <1>1, <1>2 DEF SendEnds, Moves
<1>3. send[s] \in Sends /\ Fits(send[s])
  BY DEF Shaped
<1>4. CASE send[s].pc = "create" /\ SendGoto(s, "extend")
  <2> DEFINE x == [send[s] EXCEPT !.pc = "extend"]
  <2>1. x \in Sends /\ Fits(x) /\ x.table = send[s].table
    BY <1>3, <1>4, TableAssumption DEF Sends, SendPcs, Fits
  <2>2. send' = [send EXCEPT ![s] = x]
    BY <1>4 DEF SendGoto
  <2> QED BY <2>1, <2>2 DEF Moves
<1>5. CASE send[s].pc = "wait" /\ SendGoto(s, "consume")
  <2> DEFINE x == [send[s] EXCEPT !.pc = "consume"]
  <2>1. x \in Sends /\ Fits(x) /\ x.table = send[s].table
    BY <1>3, <1>5 DEF Sends, SendPcs, Fits
  <2>2. send' = [send EXCEPT ![s] = x]
    BY <1>5 DEF SendGoto
  <2> QED BY <2>1, <2>2 DEF Moves
<1> QED BY <1>2, <1>4, <1>5

\* The count of failures, which every step leaves or raises by one.
Failing == UNCHANGED faults \/ (faults < MaxFaults /\ faults' = faults + 1)

LEMMA FailingType ==
  ASSUME Shaped, Failing
  PROVE  faults' \in 0..MaxFaults
BY TableAssumption DEF Shaped, Failing

\* What a step of a send does to the tables and to the history: it leaves a
\* table that exists.
LEMMA SendEffects ==
  ASSUME Shaped, NEW s \in Senders, SendStep(s)
  PROVE  /\ UNCHANGED <<slot, pass>> /\ Failing /\ Moves(s)
         /\ \/ UNCHANGED <<table, history>>
            \/ /\ UNCHANGED history
               /\ \E row \in Table :
                    /\ table' = [table EXCEPT ![send[s].table] = row]
                    /\ row.state # "none"
            \/ UNCHANGED table /\ history' = Append(history, send[s].table)
<1> DEFINE t == send[s].table
<1>0. t \in Tables /\ table[t] \in Table /\ send[s] \in Sends /\ Fits(send[s])
  BY DEF Shaped, Sends
<1>1. CASE DeriveTable(s)
  <2>1. PICK k \in {"prescribe", "other"} :
          send' = [send EXCEPT ![s] = [pc |-> "create", table |-> slot,
                                       kind |-> k, sent |-> 0]]
    BY <1>1 DEF DeriveTable
  <2>2. /\ [pc |-> "create", table |-> slot, kind |-> k, sent |-> 0] \in Sends
        /\ Fits([pc |-> "create", table |-> slot, kind |-> k, sent |-> 0])
    BY TableAssumption DEF Shaped, Sends, SendPcs, Fits
  <2>3. Moves(s)
    BY <2>1, <2>2 DEF Moves
  <2> QED BY <1>1, <2>3 DEF DeriveTable, Failing
<1>2. CASE CreateLookupTable(s)
  <2>1. SendGoto(s, "extend") \/ SendEnds(s)
    BY <1>2 DEF CreateLookupTable, Submit
  <2>2. Moves(s)
    BY <1>2, <2>1, SendMoves DEF CreateLookupTable
  <2>3. /\ [table[t] EXCEPT !.state = "active"] \in Table
        /\ [table[t] EXCEPT !.shared = TRUE] \in Table
        /\ [table[t] EXCEPT !.state = "active"].state # "none"
        /\ [table[t] EXCEPT !.shared = TRUE].state = table[t].state
    BY <1>0 DEF Table
  <2>4. /\ UNCHANGED <<slot, pass, history>> /\ Failing
        /\ \/ UNCHANGED table
           \/ table' = [table EXCEPT ![t].state = "active"]
           \/ /\ table[t].state # "none"
              /\ table' = [table EXCEPT ![t].shared = TRUE]
    BY <1>2 DEF CreateLookupTable, Submit, Failing
  <2> QED BY <2>2, <2>3, <2>4
<1>3. CASE ExtendLookupTable(s)
  <2> DEFINE n == send[s].sent + 1
             row == [table[t] EXCEPT !.filled = @ + 1,
                                     !.kind = WithEntries(t, send[s].kind)]
             x == [send[s] EXCEPT !.sent = n,
                     !.pc = IF n < Extends THEN "extend" ELSE "wait"]
  <2>1. send[s].pc = "extend" /\ UNCHANGED <<slot, pass, history>>
    BY <1>3 DEF ExtendLookupTable
  <2>2. /\ Failing
        /\ send' = [send EXCEPT ![s] = x] \/ SendEnds(s)
        /\ \/ UNCHANGED table
           \/ /\ table[t].state = "active" /\ table[t].filled < Capacity
              /\ table' = [table EXCEPT ![t] = row]
    BY <1>3 DEF ExtendLookupTable, Submit, Failing
  <2>3. x \in Sends /\ Fits(x)
    <3>1. send[s].sent \in 0..Extends /\ send[s].sent < Extends
      BY <1>0, <2>1 DEF Sends, Fits
    <3>2. n \in 0..Extends /\ (n < Extends \/ n = Extends)
      BY <3>1, TableAssumption
    <3> HIDE DEF n
    <3>3. x.sent = n /\ x.pc = IF n < Extends THEN "extend" ELSE "wait"
      BY <1>0 DEF Sends
    <3>4. x \in Sends
      BY <1>0, <3>2 DEF Sends, SendPcs
    <3> QED BY <3>2, <3>3, <3>4 DEF Fits
  <2>4. Moves(s)
    BY <2>2, <2>3, SendMoves DEF Moves
  <2>5. table[t].state = "active" /\ table[t].filled < Capacity
          => row \in Table /\ row.state # "none"
    <3>1. WithEntries(t, send[s].kind) \in {"prescribe", "other", "stale"}
      BY <1>0 DEF WithEntries, Table
    <3>2. table[t].filled < Capacity => table[t].filled + 1 \in 0..Capacity
      BY <1>0, TableAssumption DEF Table
    <3> QED BY <1>0, <3>1, <3>2 DEF Table
  <2> QED BY <2>1, <2>2, <2>4, <2>5
<1>4. CASE WaitForLookupTableActive(s)
  <2>1. send[s].pc = "wait" /\ (SendGoto(s, "consume") \/ SendEnds(s))
    BY <1>4 DEF WaitForLookupTableActive
  <2>2. Moves(s)
    BY <2>1, SendMoves
  <2> QED BY <1>4, <2>2 DEF WaitForLookupTableActive, Failing
<1>5. CASE Consume(s)
  <2>1. SendEnds(s)
    BY <1>5 DEF Consume, Submit
  <2>2. Moves(s)
    BY <2>1, SendMoves
  <2> QED BY <1>5, <2>2 DEF Consume, Submit, Failing
<1> QED BY <1>1, <1>2, <1>3, <1>4, <1>5 DEF SendStep

LEMMA SortedSend ==
  ASSUME Sorted, NEW s \in Senders, SendStep(s)
  PROVE  Sorted'
<1> DEFINE t == send[s].table
<1>1. t \in Tables
  BY DEF Sorted, Shaped, Sends
<1>2. /\ UNCHANGED <<slot, pass>> /\ faults' \in 0..MaxFaults
      /\ send' \in [Senders -> Sends] /\ \A u \in Senders : Fits(send'[u])
  <2>1. UNCHANGED <<slot, pass>> /\ faults' \in 0..MaxFaults /\ Moves(s)
    BY SendEffects, FailingType DEF Sorted
  <2> QED BY <2>1 DEF Moves, Sorted, Shaped
<1>3. \A r \in Reclaimers : pass[r].todo # <<>> => Head(pass[r].todo) \in Tables
  BY DEF Sorted, Shaped, Pass
<1>4. CASE UNCHANGED table /\ history' \in {history, Append(history, t)}
  <2>1. history' \in Seq(Tables \cup {NoTable})
    BY <1>1, <1>4 DEF Sorted, Shaped
  <2> QED BY <1>2, <1>4, <2>1 DEF Sorted, Shaped, NoneIsEmpty, Chosen
<1>5. CASE /\ UNCHANGED history
           /\ \E row \in Table : /\ table' = [table EXCEPT ![t] = row]
                                 /\ row.state # "none"
  <2>1. PICK row \in Table : /\ table' = [table EXCEPT ![t] = row]
                             /\ row.state # "none"
    BY <1>5
  <2>2. /\ table' \in [Tables -> Table] /\ table'[t].state # "none"
        /\ \A u \in Tables \ {t} : table'[u] = table[u]
    BY <1>1, <2>1 DEF Sorted, Shaped
  <2> QED BY <1>2, <1>3, <1>5, <2>2 DEF Sorted, Shaped, NoneIsEmpty, Chosen
<1> QED BY <1>4, <1>5, SendEffects DEF Sorted

\* The rest of a pass, one submission further or not.
LEMMA PassNextType ==
  ASSUME Shaped, NEW r \in Reclaimers, NEW n \in {0, 1}, PassNext(r, n),
         pass[r].todo # <<>>, pass[r].done + n \in 0..MaxTables
  PROVE  /\ pass' \in [Reclaimers -> Pass]
         /\ pass'[r].pc = "table" /\ pass'[r].todo = Tail(pass[r].todo)
         /\ \A q \in Reclaimers \ {r} : pass'[q] = pass[q]
<1>1. pass[r] \in Pass /\ Tail(pass[r].todo) \in Seq(Tables)
  BY DEF Shaped, Pass
<1> QED BY <1>1 DEF PassNext, Shaped, Pass, PassPcs

\* What a step of a pass does to the tables and to the history.  The table
\* that is reclaimed is the head of the pass's list.
LEMMA PassEffects ==
  ASSUME Sorted, NEW r \in Reclaimers, PassStep(r) \/ PassError(r)
  PROVE  /\ UNCHANGED <<slot, send>> /\ Failing
         /\ pass' \in [Reclaimers -> Pass]
         /\ \A q \in Reclaimers \ {r} : pass'[q] = pass[q]
         /\ \/ UNCHANGED <<table, history>>
            \/ /\ pass[r].pc \in {"deactivate", "close"}
               /\ table[Head(pass[r].todo)].state \in {"active", "deactivated"}
               /\ \E new \in {"deactivated", "closed"} :
                    table' = [table EXCEPT ![Head(pass[r].todo)].state = new]
               /\ history' = Append(history, NoTable)
               /\ pass'[r].pc = "table"
         /\ pass'[r].pc \in {"deactivate", "close"} =>
              /\ pass'[r].todo # <<>> /\ pass'[r].done < MaxTables
              /\ UNCHANGED <<table, history>>
              /\ Fingerprint(Head(pass'[r].todo))
         /\ \/ pass'[r].todo \in {<<>>, pass[r].todo}
            \/ pass[r].todo # <<>> /\ pass'[r].todo = Tail(pass[r].todo)
            \/ pass'[r].todo = Candidates(history) /\ UNCHANGED history
<1> USE TableAssumption
<1>1. pass[r] \in Pass /\ pass[r].done \in 0..MaxTables
  BY DEF Sorted, Shaped, Pass
<1>2. CASE ScanHistory(r)
  <2> DEFINE p == [pc |-> "table", todo |-> Candidates(history), done |-> 0,
                   cooled |-> {t \in Tables : /\ table[t].state = "deactivated"
                                              /\ table[t].age = Cooldown}]
  <2>1. pass' = [pass EXCEPT ![r] = p]
    BY <1>2 DEF ScanHistory
  <2>2. Candidates(history) \in Seq(Tables)
    <3>1. Candidates(history) \in Seq(ToSet(history) \ {NoTable})
      BY CandidatesOfHistory DEF Sorted, Shaped
    <3>2. ToSet(history) \ {NoTable} \subseteq Tables
      BY DEF Sorted, Shaped, ToSet
    <3> QED BY <3>1, <3>2
  <2>3. p \in Pass
    BY <2>2 DEF Pass, PassPcs
  <2> QED BY <1>2, <2>1, <2>3 DEF ScanHistory, Sorted, Shaped, Failing
<1>3. CASE ReadTable(r)
  <2>1. UNCHANGED <<slot, table, history, send, faults>>
    BY <1>3 DEF ReadTable
  <2>2. CASE pass' = [pass EXCEPT ![r] = NoPass]
    <3>1. NoPass \in Pass
      BY DEF NoPass, Pass, PassPcs
    <3> QED BY <2>1, <2>2, <3>1 DEF Sorted, Shaped, Failing, NoPass
  <2>3. CASE PassNext(r, 0) /\ pass[r].todo # <<>>
    BY <1>1, <2>1, <2>3, PassNextType DEF Sorted, Failing
  <2>4. CASE /\ \E l \in {"deactivate", "close"} : PassGoto(r, l)
             /\ pass[r].todo # <<>> /\ pass[r].done < MaxTables
             /\ Fingerprint(Head(pass[r].todo))
    <3>1. PICK l \in {"deactivate", "close"} : PassGoto(r, l)
      BY <2>4
    <3>2. [pass[r] EXCEPT !.pc = l] \in Pass
      BY <1>1, <3>1 DEF Pass, PassPcs
    <3>3. pass' = [pass EXCEPT ![r] = [pass[r] EXCEPT !.pc = l]]
      BY <3>1 DEF PassGoto
    <3>4. /\ pass'[r].pc = l /\ pass'[r].todo = pass[r].todo
          /\ pass'[r].done = pass[r].done
      BY <1>1, <3>3 DEF Sorted, Shaped, Pass
    <3> QED BY <2>1, <2>4, <3>2, <3>3, <3>4 DEF Sorted, Shaped, Failing
  <2>5. \/ pass' = [pass EXCEPT ![r] = NoPass]
        \/ pass[r].todo # <<>> /\ PassNext(r, 0)
        \/ /\ \E l \in {"deactivate", "close"} : PassGoto(r, l)
           /\ pass[r].todo # <<>> /\ pass[r].done < MaxTables
           /\ Fingerprint(Head(pass[r].todo))
    BY <1>1, <1>3 DEF ReadTable, Spent
  <2> QED BY <2>2, <2>3, <2>4, <2>5
<1>4. CASE DeactivateLookupTable(r)
  <2> DEFINE t == Head(pass[r].todo)
  <2>1. /\ UNCHANGED <<slot, send>> /\ Failing
        /\ PassNext(r, 1) \/ PassNext(r, 0)
        /\ \/ UNCHANGED <<table, history>>
           \/ /\ table[t].state = "active"
              /\ table' = [table EXCEPT ![t].state = "deactivated"]
              /\ history' = Append(history, NoTable)
    BY <1>4 DEF DeactivateLookupTable, Submit, Failing
  <2>2. pass[r].todo # <<>> /\ pass[r].done < MaxTables
    BY <1>4 DEF DeactivateLookupTable, Sorted, Chosen
  <2>3. /\ pass' \in [Reclaimers -> Pass]
        /\ pass'[r].pc = "table" /\ pass'[r].todo = Tail(pass[r].todo)
        /\ \A q \in Reclaimers \ {r} : pass'[q] = pass[q]
    <3> HIDE DEF t
    <3>1. PICK n \in {0, 1} : PassNext(r, n)
      BY <2>1
    <3>2. pass[r].done + n \in 0..MaxTables
      BY <1>1, <2>2, TableAssumption
    <3>3. Shaped
      BY DEF Sorted
    <3> QED BY <2>2, <3>1, <3>2, <3>3, PassNextType
  <2>4. pass[r].pc = "deactivate"
    BY <1>4 DEF DeactivateLookupTable
  <2> QED BY <2>1, <2>2, <2>3, <2>4
<1>5. CASE CloseLookupTable(r)
  <2> DEFINE t == Head(pass[r].todo)
  <2>1. /\ UNCHANGED <<slot, send>> /\ Failing
        /\ PassNext(r, 1) \/ PassNext(r, 0)
        /\ \/ UNCHANGED <<table, history>>
           \/ /\ table[t].state = "deactivated"
              /\ table' = [table EXCEPT ![t].state = "closed"]
              /\ history' = Append(history, NoTable)
    BY <1>5 DEF CloseLookupTable, Submit, Failing
  <2>2. pass[r].todo # <<>> /\ pass[r].done < MaxTables
    BY <1>5 DEF CloseLookupTable, Sorted, Chosen
  <2>3. /\ pass' \in [Reclaimers -> Pass]
        /\ pass'[r].pc = "table" /\ pass'[r].todo = Tail(pass[r].todo)
        /\ \A q \in Reclaimers \ {r} : pass'[q] = pass[q]
    <3> HIDE DEF t
    <3>1. PICK n \in {0, 1} : PassNext(r, n)
      BY <2>1
    <3>2. pass[r].done + n \in 0..MaxTables
      BY <1>1, <2>2, TableAssumption
    <3>3. Shaped
      BY DEF Sorted
    <3> QED BY <2>2, <3>1, <3>2, <3>3, PassNextType
  <2>4. pass[r].pc = "close"
    BY <1>5 DEF CloseLookupTable
  <2> QED BY <2>1, <2>2, <2>3, <2>4
<1>6. CASE PassError(r)
  <2>1. /\ UNCHANGED <<slot, table, history, send>> /\ Failing
        /\ PassNext(r, 0) /\ pass[r].todo # <<>>
    BY <1>6 DEF PassError, Failing
  <2> QED BY <1>1, <2>1, PassNextType DEF Sorted
<1> QED BY <1>2, <1>3, <1>4, <1>5, <1>6 DEF PassStep

LEMMA SortedPass ==
  ASSUME Sorted, NEW r \in Reclaimers, PassStep(r) \/ PassError(r)
  PROVE  Sorted'
<1> DEFINE t == Head(pass[r].todo)
<1>1. /\ UNCHANGED <<slot, send>> /\ faults' \in 0..MaxFaults
      /\ pass' \in [Reclaimers -> Pass]
      /\ \A q \in Reclaimers \ {r} : pass'[q] = pass[q]
  BY PassEffects, FailingType DEF Sorted
<1>2. pass'[r].pc \in {"deactivate", "close"} =>
        /\ pass'[r].todo # <<>> /\ pass'[r].done < MaxTables
        /\ UNCHANGED <<table, history>>
        /\ Fingerprint(Head(pass'[r].todo))
  BY PassEffects
<1>3. \A q \in Reclaimers :
        /\ pass'[q].todo \in Seq(Tables)
        /\ pass'[q].todo # <<>> => Head(pass'[q].todo) \in Tables
  BY <1>1 DEF Pass
<1>4. CASE UNCHANGED <<table, history>>
  <2>1. Shaped' /\ NoneIsEmpty'
    BY <1>1, <1>4 DEF Sorted, Shaped, NoneIsEmpty
  <2>2. Chosen'
    <3> SUFFICES ASSUME NEW q \in Reclaimers,
                        pass'[q].pc \in {"deactivate", "close"}
                 PROVE  /\ pass'[q].todo # <<>> /\ pass'[q].done < MaxTables
                        /\ table[Head(pass'[q].todo)].state # "none"
      BY <1>4 DEF Chosen
    <3>1. CASE q = r
      <4>1. /\ pass'[r].todo # <<>> /\ pass'[r].done < MaxTables
            /\ Fingerprint(Head(pass'[r].todo))
        BY <1>2, <3>1
      <4>2. Head(pass'[r].todo) \in Tables
        BY <1>3, <4>1
      <4>3. table[Head(pass'[r].todo)].filled \in Nat
        BY <4>2 DEF Sorted, Shaped, Table
      <4> QED BY <3>1, <4>1, <4>2, <4>3 DEF Fingerprint, Sorted, NoneIsEmpty
    <3>2. CASE q # r
      BY <1>1, <3>2 DEF Sorted, Chosen
    <3> QED BY <3>1, <3>2
  <2> QED BY <2>1, <2>2 DEF Sorted
<1>5. CASE /\ pass[r].pc \in {"deactivate", "close"}
           /\ table[t].state \in {"active", "deactivated"}
           /\ \E new \in {"deactivated", "closed"} :
                table' = [table EXCEPT ![t].state = new]
           /\ history' = Append(history, NoTable)
           /\ pass'[r].pc = "table"
  <2>1. t \in Tables
    BY <1>5 DEF Sorted, Shaped, Chosen, Pass
  <2>2. PICK new \in {"deactivated", "closed"} :
          table' = [table EXCEPT ![t].state = new]
    BY <1>5
  <2>3. Shaped'
    <3>1. [table[t] EXCEPT !.state = new] \in Table
      <4>1. table[t] \in Table
        BY <2>1 DEF Sorted, Shaped
      <4> QED BY <4>1 DEF Table
    <3>2. table' = [table EXCEPT ![t] = [table[t] EXCEPT !.state = new]]
      BY <2>2
    <3>3. history' \in Seq(Tables \cup {NoTable})
      BY <1>5 DEF Sorted, Shaped
    <3> QED BY <1>1, <2>1, <3>1, <3>2, <3>3 DEF Sorted, Shaped
  <2>4. /\ \A u \in Tables : /\ table'[u].kind = table[u].kind
                             /\ table'[u].filled = table[u].filled
        /\ \A u \in Tables \ {t} : table'[u] = table[u]
        /\ table'[t].state = new
    BY <2>1, <2>2 DEF Sorted, Shaped, Table
  <2>5. NoneIsEmpty'
    BY <2>1, <2>4 DEF Sorted, NoneIsEmpty
  <2>6. Chosen'
    <3> SUFFICES ASSUME NEW q \in Reclaimers \ {r},
                        pass[q].pc \in {"deactivate", "close"}
                 PROVE  /\ pass[q].todo # <<>> /\ pass[q].done < MaxTables
                        /\ table'[Head(pass[q].todo)].state # "none"
      BY <1>1, <1>5 DEF Chosen
    <3>1. pass[q].todo # <<>> /\ Head(pass[q].todo) \in Tables
      BY DEF Sorted, Shaped, Chosen, Pass
    <3> QED BY <2>4, <3>1 DEF Sorted, Chosen
  <2> QED BY <2>3, <2>5, <2>6 DEF Sorted
<1> QED BY <1>4, <1>5, PassEffects

\* What the chain does by itself.
LEMMA SortedTick ==
  ASSUME Sorted, Tick
  PROVE  Sorted'
<1> USE TableAssumption
<1> DEFINE new(t) ==
      [table[t] EXCEPT !.final = table[t].filled,
         !.age = IF table[t].state = "deactivated" /\ @ < Cooldown
                 THEN @ + 1 ELSE @]
<1>1. \A t \in Tables : new(t) \in Table
  <2> SUFFICES ASSUME NEW t \in Tables PROVE new(t) \in Table
    OBVIOUS
  <2>1. table[t] \in Table
    BY DEF Sorted, Shaped
  <2>2. new(t).age \in 0..Cooldown
    BY <2>1 DEF Table
  <2> QED BY <2>1, <2>2 DEF Table
<1>2. table' = [t \in Tables |-> new(t)]
  BY DEF Tick
<1>3. \A t \in Tables : /\ table'[t].state = table[t].state
                        /\ table'[t].kind = table[t].kind
                        /\ table'[t].filled = table[t].filled
  <2> SUFFICES ASSUME NEW t \in Tables
               PROVE  /\ new(t).state = table[t].state
                      /\ new(t).kind = table[t].kind
                      /\ new(t).filled = table[t].filled
    BY <1>2
  <2>1. table[t] \in Table
    BY DEF Sorted, Shaped
  <2> QED BY <2>1 DEF Table
<1>4. UNCHANGED <<history, send, pass, faults>> /\ slot' \in Tables
  <2>1. UNCHANGED <<history, send, pass, faults>>
    BY DEF Tick
  <2>2. slot' = (IF slot < MaxSlot THEN slot + 1 ELSE slot) /\ slot \in Tables
    BY DEF Tick, Sorted, Shaped
  <2>3. slot' \in Tables
    BY <2>2 DEF Tables
  <2> QED BY <2>1, <2>3
<1>5. Shaped'
  <2> HIDE DEF new
  <2> QED BY <1>1, <1>2, <1>4 DEF Sorted, Shaped
<1>6. NoneIsEmpty'
  BY <1>3 DEF Sorted, NoneIsEmpty
<1>7. Chosen'
  <2>1. \A r \in Reclaimers :
          pass[r].todo # <<>> => Head(pass[r].todo) \in Tables
    BY DEF Sorted, Shaped, Pass
  <2> QED BY <1>3, <1>4, <2>1 DEF Sorted, Chosen
<1> QED BY <1>5, <1>6, <1>7 DEF Sorted

LEMMA SortedEntry ==
  ASSUME Sorted, NEW t \in Tables, EntryCloses(t)
  PROVE  Sorted'
<1>1. /\ UNCHANGED <<slot, history, send, pass>> /\ faults' \in 0..MaxFaults
      /\ table' = [table EXCEPT ![t].kind = "stale"]
  BY TableAssumption DEF EntryCloses, Sorted, Shaped
<1>2. /\ \A u \in Tables : /\ table'[u].state = table[u].state
                           /\ table'[u].filled = table[u].filled
      /\ \A u \in Tables \ {t} : table'[u] = table[u]
      /\ table'[t].kind = "stale"
  BY <1>1 DEF Sorted, Shaped, Table
<1>3. Shaped'
  <2>1. [table[t] EXCEPT !.kind = "stale"] \in Table
    <3>1. table[t] \in Table
      BY DEF Sorted, Shaped
    <3> QED BY <3>1 DEF Table
  <2>2. table' = [table EXCEPT ![t] = [table[t] EXCEPT !.kind = "stale"]]
    BY <1>1
  <2> QED BY <1>1, <2>1, <2>2 DEF Sorted, Shaped
<1>4. NoneIsEmpty'
  BY <1>2 DEF Sorted, NoneIsEmpty
<1>5. Chosen'
  <2>1. \A r \in Reclaimers :
          pass[r].todo # <<>> => Head(pass[r].todo) \in Tables
    BY DEF Sorted, Shaped, Pass
  <2> QED BY <1>1, <1>2, <2>1 DEF Sorted, Chosen
<1> QED BY <1>3, <1>4, <1>5 DEF Sorted

LEMMA SortedStep == Sorted /\ [Next]_vars => Sorted'
<1> SUFFICES ASSUME Sorted, [Next]_vars PROVE Sorted'
  OBVIOUS
<1>1. CASE UNCHANGED vars
  BY <1>1 DEF vars, Sorted, Shaped, NoneIsEmpty, Chosen
<1>2. CASE Next
  BY <1>2, SortedSend, SortedPass, SortedTick, SortedEntry DEF Next
<1> QED BY <1>1, <1>2

\* The invariant of these states.
THEOREM SortedAlways == Spec => []Sorted
BY SortedInit, SortedStep, PTL DEF Spec

-----------------------------------------------------------------------------
(* Tables that belong to one send.                                         *)

\* A send that has created its table and not yet consumed it.
Owner(s) == send[s].pc \in {"extend", "wait", "consume"}

\* Its table is active, in no transaction of the history, and filled as far
\* as the send has come.
Holds(s) ==
  LET t == send[s].table IN
  /\ table[t].state = "active" /\ t \notin ToSet(history)
  /\ table[t].filled = send[s].sent
  /\ send[s].pc = "consume" => table[t].final = Extends

Owned ==
  \A s \in Senders : Owner(s) =>
    /\ table[send[s].table].state # "none"
    /\ ~table[send[s].table].shared => Holds(s)

Alone ==
  \A s, u \in Senders :
    Owner(s) /\ Owner(u) /\ s # u /\ send[s].table = send[u].table
      => table[send[s].table].shared

\* The tables of the history exist, and a pass works on these only.
Listed ==
  /\ \A t \in ToSet(history) \ {NoTable} : table[t].state # "none"
  /\ \A r \in Reclaimers : ToSet(pass[r].todo) \subseteq ToSet(history) \ {NoTable}

\* The table a pass is about to reclaim is no other program's.
Marked ==
  \A r \in Reclaimers : pass[r].pc \in {"deactivate", "close"} =>
    LET t == Head(pass[r].todo) IN
    table[t].kind = "other" => table[t].shared

Bounded == \A t \in Tables : table[t].final <= table[t].filled

Owning ==
  Sorted /\ Owned /\ Alone /\ Listed /\ Marked /\ Bounded /\ OtherTablesUntouched

LEMMA ToSetAppend ==
  ASSUME NEW X, NEW h \in Seq(X), NEW x \in X
  PROVE  ToSet(Append(h, x)) = ToSet(h) \cup {x}
<1>1. DOMAIN Append(h, x) = 1..(Len(h) + 1) /\ DOMAIN h = 1..Len(h)
  OBVIOUS
<1>2. Append(h, x)[Len(h) + 1] = x
  OBVIOUS
<1>3. \A i \in 1..Len(h) : Append(h, x)[i] = h[i]
  OBVIOUS
<1> QED BY <1>1, <1>2, <1>3 DEF ToSet

LEMMA ToSetTail ==
  ASSUME NEW X, NEW q \in Seq(X), q # <<>>
  PROVE  Head(q) \in ToSet(q) /\ ToSet(Tail(q)) \subseteq ToSet(q)
<1>1. Head(q) = q[1] /\ 1 \in DOMAIN q
  OBVIOUS
<1>2. \A i \in DOMAIN Tail(q) : i + 1 \in DOMAIN q /\ Tail(q)[i] = q[i + 1]
  OBVIOUS
<1> QED BY <1>1, <1>2 DEF ToSet

LEMMA ToSetWithin ==
  ASSUME NEW W, NEW q \in Seq(W)
  PROVE  ToSet(q) \subseteq W
BY DEF ToSet

LEMMA OwningInit == Init => Owning
<1> SUFFICES ASSUME Init PROVE Owning
  OBVIOUS
<1>1. ToSet(<<>>) = {}
  BY DEF ToSet
<1>2. Sorted
  BY SortedInit
<1>3. Owned /\ Alone
  BY DEF Init, Owned, Alone, Owner, NoSend
<1>4. Listed /\ Marked
  BY <1>1 DEF Init, Listed, Marked, NoPass
<1>5. Bounded /\ OtherTablesUntouched
  BY TableAssumption DEF Init, Bounded, OtherTablesUntouched, Absent
<1> QED BY <1>2, <1>3, <1>4, <1>5 DEF Owning

\* A step of a send touches no table of another, unless it is let into it,
\* takes a table only when it creates it, and lists its table only as it lets
\* go of it.
LEMMA OwnerStep ==
  ASSUME Owning, NEW s \in Senders, SendStep(s),
         NEW t, t = send[s].table
  PROVE  /\ Owner(s)' => send'[s].table = t /\ table'[t].state # "none"
         /\ Owner(s)' /\ ~table'[t].shared =>
              Holds(s)' /\ (Owner(s) \/ table[t].state = "none")
         /\ \/ UNCHANGED table
            \/ table'[t].shared
            \/ table'[t].state = "active"
               /\ (Owner(s) \/ table[t].state = "none")
         /\ table[t].shared => table'[t].shared
         /\ history' # history => Owner(s) /\ ~Owner(s)'
         /\ Bounded'
<1> USE TableAssumption
<1>1. /\ send[s] \in Sends /\ t \in Tables /\ table[t] \in Table
      /\ send \in [Senders -> Sends] /\ table \in [Tables -> Table]
      /\ Fits(send[s])
  BY DEF Owning, Sorted, Shaped, Sends
<1>2. \A u \in Tables : table[u].filled \in Nat /\ table[u].final \in Nat
  BY <1>1 DEF Table
<1>3. t \notin ToSet(history) \/ table[t].state # "none"
  BY <1>1, NoTableAssumption DEF Owning, Listed
<1>4. CASE SendEnds(s) /\ UNCHANGED <<table, history>>
  <2>1. send'[s].pc = "idle"
    BY <1>1, <1>4 DEF SendEnds, NoSend
  <2> QED BY <1>4, <2>1 DEF Owner, Owning, Bounded
<1>5. CASE DeriveTable(s)
  <2>1. send'[s].pc = "create"
    BY <1>1, <1>5 DEF DeriveTable
  <2> QED BY <1>5, <2>1 DEF DeriveTable, Owner, Owning, Bounded
<1>6. CASE CreateLookupTable(s)
  <2>1. UNCHANGED history /\ send[s].pc = "create" /\ send[s].sent = 0
    BY <1>1, <1>6 DEF CreateLookupTable, Fits
  <2>2. \/ SendEnds(s) /\ UNCHANGED table
        \/ /\ table[t].state = "none"
           /\ table' = [table EXCEPT ![t].state = "active"]
           /\ SendGoto(s, "extend") \/ SendEnds(s)
        \/ /\ table' = [table EXCEPT ![t].shared = TRUE]
           /\ table[t].state # "none" /\ SendGoto(s, "extend")
    BY <1>6 DEF CreateLookupTable, Submit
  <2>3. CASE /\ table[t].state = "none"
             /\ table' = [table EXCEPT ![t].state = "active"]
             /\ SendGoto(s, "extend") \/ SendEnds(s)
    <3>1. /\ table'[t].state = "active" /\ table'[t].filled = 0
          /\ table'[t].shared = table[t].shared
          /\ \A u \in Tables : /\ table'[u].filled = table[u].filled
                               /\ table'[u].final = table[u].final
      BY <1>1, <2>3 DEF Owning, Sorted, NoneIsEmpty, Table
    <3>2. \/ send'[s].pc = "idle"
          \/ /\ send'[s].pc = "extend" /\ send'[s].table = t
             /\ send'[s].sent = 0
      BY <1>1, <2>1, <2>3 DEF SendGoto, SendEnds, NoSend, Sends
    <3>3. Bounded'
      BY <3>1 DEF Owning, Bounded
    <3> QED BY <1>1, <1>3, <2>1, <2>3, <3>1, <3>2, <3>3 DEF Owner, Holds
  <2>4. CASE /\ table' = [table EXCEPT ![t].shared = TRUE]
             /\ table[t].state # "none" /\ SendGoto(s, "extend")
    <3>1. /\ table'[t].shared /\ table'[t].state # "none"
          /\ \A u \in Tables : /\ table'[u].filled = table[u].filled
                               /\ table'[u].final = table[u].final
      BY <1>1, <2>4 DEF Table
    <3>2. send'[s].table = t
      BY <1>1, <2>4 DEF SendGoto, Sends
    <3>3. Bounded'
      BY <3>1 DEF Owning, Bounded
    <3> QED BY <2>1, <3>1, <3>2, <3>3
  <2> QED BY <1>4, <2>1, <2>2, <2>3, <2>4
<1>7. CASE ExtendLookupTable(s)
  <2> DEFINE n == send[s].sent + 1
             x == [send[s] EXCEPT !.sent = n,
                     !.pc = IF n < Extends THEN "extend" ELSE "wait"]
  <2>1. Owner(s) /\ UNCHANGED history /\ send[s].pc = "extend"
    BY <1>7 DEF ExtendLookupTable, Owner
  <2>2. \/ SendEnds(s) /\ UNCHANGED table
        \/ /\ table[t].state = "active"
           /\ table' = [table EXCEPT ![t].filled = @ + 1,
                          ![t].kind = WithEntries(t, send[s].kind)]
           /\ send' = [send EXCEPT ![s] = x] \/ SendEnds(s)
    BY <1>1, <1>7 DEF ExtendLookupTable, Submit
  <2>3. CASE /\ table[t].state = "active"
             /\ table' = [table EXCEPT ![t].filled = @ + 1,
                            ![t].kind = WithEntries(t, send[s].kind)]
             /\ send' = [send EXCEPT ![s] = x] \/ SendEnds(s)
    <3>1. /\ table'[t].state = "active" /\ table'[t].filled = table[t].filled + 1
          /\ table'[t].shared = table[t].shared
          /\ table'[t].final = table[t].final
          /\ \A u \in Tables \ {t} : table'[u] = table[u]
      BY <1>1, <2>3 DEF Table
    <3>2. Bounded'
      BY <1>1, <1>2, <3>1 DEF Owning, Bounded
    <3>3. CASE SendEnds(s)
      <4>1. send'[s].pc = "idle"
        BY <1>1, <3>3 DEF SendEnds, NoSend
      <4> QED BY <2>1, <3>1, <3>2, <4>1 DEF Owner
    <3>4. CASE send' = [send EXCEPT ![s] = x]
      <4>1. /\ send'[s].table = t /\ send'[s].sent = send[s].sent + 1
            /\ send'[s].pc \in {"extend", "wait"}
        BY <1>1, <3>4 DEF Sends
      <4>2. ~table'[t].shared => Holds(s)'
        BY <2>1, <3>1, <4>1 DEF Owning, Owned, Holds
      <4> QED BY <2>1, <3>1, <3>2, <4>1, <4>2
    <3> QED BY <2>3, <3>3, <3>4
  <2> QED BY <1>4, <2>1, <2>2, <2>3
<1>8. CASE WaitForLookupTableActive(s)
  <2>1. /\ Owner(s) /\ UNCHANGED <<table, history>>
        /\ \/ SendEnds(s)
           \/ table[t].final >= Extends /\ SendGoto(s, "consume")
        /\ send[s].pc = "wait" /\ send[s].sent = Extends
    BY <1>1, <1>8 DEF WaitForLookupTableActive, Active, Owner, Fits
  <2>2. CASE table[t].final >= Extends /\ SendGoto(s, "consume")
    <3>1. /\ send'[s].table = t /\ send'[s].pc = "consume"
          /\ send'[s].sent = send[s].sent
      BY <1>1, <2>2 DEF SendGoto, Sends
    <3>2. ~table[t].shared => Holds(s)'
      <4> SUFFICES ASSUME ~table[t].shared PROVE Holds(s)'
        OBVIOUS
      <4>1. Holds(s)
        BY <2>1 DEF Owning, Owned
      <4>2. table[t].final = Extends
        BY <1>1, <1>2, <2>1, <2>2, <4>1 DEF Holds, Owning, Bounded
      <4> QED BY <2>1, <3>1, <4>1, <4>2 DEF Holds
    <3> QED BY <2>1, <3>1, <3>2 DEF Owning, Owned, Bounded
  <2> QED BY <1>4, <2>1, <2>2
<1>9. CASE Consume(s)
  <2>1. Owner(s) /\ UNCHANGED table /\ SendEnds(s)
    BY <1>9 DEF Consume, Submit, Owner
  <2>2. send'[s].pc = "idle"
    BY <1>1, <2>1 DEF SendEnds, NoSend
  <2> QED BY <2>1, <2>2 DEF Owner, Owning, Bounded
<1> QED BY <1>5, <1>6, <1>7, <1>8, <1>9 DEF SendStep

LEMMA OwningSend ==
  ASSUME Owning, NEW s \in Senders, SendStep(s)
  PROVE  Owning'
<1> DEFINE t == send[s].table
<1>1. /\ t \in Tables /\ history \in Seq(Tables \cup {NoTable})
      /\ send \in [Senders -> Sends] /\ table \in [Tables -> Table]
  BY DEF Owning, Sorted, Shaped, Sends
<1>2. /\ UNCHANGED pass /\ \A u \in Tables \ {t} : table'[u] = table[u]
      /\ \A u \in Senders \ {s} : send'[u] = send[u]
      /\ table[t].state # "none" => table'[t].state # "none"
      /\ history' \in {history, Append(history, t)}
  <2>1. Shaped
    BY DEF Owning, Sorted
  <2>2. /\ UNCHANGED pass /\ Moves(s)
        /\ history' \in {history, Append(history, t)}
        /\ \/ UNCHANGED table
           \/ \E row \in Table : /\ table' = [table EXCEPT ![t] = row]
                                 /\ row.state # "none"
    BY <2>1, SendEffects
  <2>3. \A u \in Senders \ {s} : send'[u] = send[u]
    BY <1>1, <2>2 DEF Moves
  <2> QED BY <1>1, <2>2, <2>3
<1>3. /\ Owner(s)' => send'[s].table = t /\ table'[t].state # "none"
      /\ Owner(s)' /\ ~table'[t].shared =>
           Holds(s)' /\ (Owner(s) \/ table[t].state = "none")
      /\ \/ UNCHANGED table
         \/ table'[t].shared
         \/ table'[t].state = "active" /\ (Owner(s) \/ table[t].state = "none")
      /\ table[t].shared => table'[t].shared
      /\ history' # history => Owner(s) /\ ~Owner(s)'
      /\ Bounded'
  BY OwnerStep
<1>4. ToSet(history') \in {ToSet(history), ToSet(history) \cup {t}}
  <2>1. ToSet(Append(history, t)) = ToSet(history) \cup {t}
    BY <1>1, ToSetAppend
  <2> QED BY <1>2, <2>1
<1>5. \A u \in Senders \ {s} :
        Owner(u) /\ ~table'[send[u].table].shared /\ send[u].table = t
          => UNCHANGED table /\ ~Owner(s)' /\ ~Owner(s)
  <2> SUFFICES ASSUME NEW u \in Senders \ {s}, Owner(u), send[u].table = t,
                      ~table'[t].shared
               PROVE  UNCHANGED table /\ ~Owner(s)' /\ ~Owner(s)
    OBVIOUS
  <2>1. ~table[t].shared
    BY <1>3
  <2>2. table[t].state = "active" /\ ~Owner(s)
    BY <2>1 DEF Owning, Owned, Holds, Alone
  <2> QED BY <1>3, <2>2
<1>6. Sorted'
  BY SortedSend DEF Owning
<1>7. \A u \in Tables : table[u].shared => table'[u].shared
  BY <1>2, <1>3
<1>8. Owned'
  <2> SUFFICES ASSUME NEW u \in Senders, Owner(u)',
                      Owner(u)' => send'[u].table \in Tables
               PROVE  /\ table'[send'[u].table].state # "none"
                      /\ ~table'[send'[u].table].shared => Holds(u)'
    BY <1>6 DEF Owned, Sorted, Shaped, Sends
  <2>1. CASE u = s
    BY <1>3, <2>1
  <2>2. CASE u # s
    <3>1. /\ send'[u] = send[u] /\ Owner(u) /\ send[u].table \in Tables
          /\ table'[send[u].table].state # "none"
      BY <1>1, <1>2, <2>2 DEF Owner, Sends, Owning, Owned
    <3> SUFFICES ASSUME ~table'[send[u].table].shared PROVE Holds(u)'
      BY <3>1
    <3>2. Holds(u) /\ ~table[send[u].table].shared
      BY <1>7, <3>1 DEF Owning, Owned
    <3>3. table'[send[u].table] = table[send[u].table]
      BY <1>2, <1>5, <2>2, <3>1
    <3>4. send[u].table \notin ToSet(history')
      <4>1. CASE history' = history
        BY <3>2, <4>1 DEF Holds
      <4>2. CASE history' # history
        <5>1. Owner(s)
          BY <1>3, <4>2
        <5>2. send[u].table # t
          BY <1>5, <2>2, <3>1, <5>1
        <5> QED BY <1>4, <3>2, <5>2 DEF Holds
      <4> QED BY <4>1, <4>2
    <3> QED BY <3>1, <3>2, <3>3, <3>4 DEF Holds
  <2> QED BY <2>1, <2>2
<1>9. Alone'
  <2> SUFFICES ASSUME NEW u \in Senders, NEW v \in Senders, Owner(u)', Owner(v)',
                      u # v, send'[u].table = send'[v].table
               PROVE  table'[send'[u].table].shared
    BY DEF Alone
  <2>1. \A w \in Senders \ {s} : Owner(w)' => Owner(w)
    BY <1>2 DEF Owner
  <2>2. CASE u # s /\ v # s
    <3>1. /\ Owner(u) /\ Owner(v) /\ send[u].table = send[v].table
          /\ send'[u].table = send[u].table /\ send[u].table \in Tables
      BY <1>1, <1>2, <2>1, <2>2 DEF Sends
    <3> QED BY <1>7, <3>1 DEF Owning, Alone
  <2>3. \A w \in Senders \ {s} :
          Owner(s)' /\ Owner(w)' /\ send'[w].table = send'[s].table
            => table'[t].shared
    BY <1>2, <1>3, <1>5, <2>1
  <2> QED BY <1>3, <2>2, <2>3
<1>10. Listed'
  <2>1. \A u \in Tables : table'[u].state = "none" => table[u].state = "none"
    BY <1>2
  <2>2. \A u \in ToSet(history') \ {NoTable} : table'[u].state # "none"
    <3> SUFFICES ASSUME NEW u \in ToSet(history') \ {NoTable}
                 PROVE  table'[u].state # "none"
      OBVIOUS
    <3>1. u \in Tables
      BY <1>6 DEF Sorted, Shaped, ToSet
    <3>2. CASE u \in ToSet(history)
      BY <2>1, <3>1, <3>2 DEF Owning, Listed
    <3>3. CASE u \notin ToSet(history)
      <4>1. u = t /\ Owner(s)
        BY <1>3, <1>4, <3>3
      <4>2. table[t].state # "none"
        BY <4>1 DEF Owning, Owned
      <4> QED BY <2>1, <3>1, <4>1, <4>2
    <3> QED BY <3>2, <3>3
  <2>3. ToSet(history) \subseteq ToSet(history')
    BY <1>4
  <2> QED BY <1>2, <2>2, <2>3 DEF Owning, Listed
<1>11. Marked'
  <2> SUFFICES ASSUME NEW r \in Reclaimers,
                      pass[r].pc \in {"deactivate", "close"},
                      table'[Head(pass[r].todo)].kind = "other"
               PROVE  table'[Head(pass[r].todo)].shared
    BY <1>2 DEF Marked
  <2> DEFINE h == Head(pass[r].todo)
  <2>1. /\ h \in Tables /\ h \in ToSet(history) /\ table[h].state # "none"
        /\ table[h].kind = "other" => table[h].shared
    <3>1. pass[r].todo \in Seq(Tables) /\ pass[r].todo # <<>>
      BY DEF Owning, Sorted, Shaped, Chosen, Pass
    <3>2. h \in ToSet(pass[r].todo) /\ h \in Tables
      BY <3>1, ToSetTail
    <3> QED BY <3>2 DEF Owning, Listed, Marked, Sorted, Chosen
  <2>2. CASE table'[h] = table[h]
    BY <2>1, <2>2
  <2>3. CASE table'[h] # table[h]
    <3>1. h = t /\ ~UNCHANGED table
      BY <1>2, <2>1, <2>3
    <3>2. CASE Owner(s)
      BY <1>3, <2>1, <3>1, <3>2 DEF Owning, Owned, Holds
    <3> QED BY <1>3, <2>1, <3>1, <3>2
  <2> QED BY <2>2, <2>3
<1>12. OtherTablesUntouched'
  <2> SUFFICES ASSUME NEW u \in Tables, table'[u].kind = "other",
                      ~table'[u].shared
               PROVE  table'[u].state \in {"none", "active"}
    BY DEF OtherTablesUntouched
  <2>1. CASE table'[u] = table[u]
    BY <2>1 DEF Owning, OtherTablesUntouched
  <2>2. CASE table'[u] # table[u]
    BY <1>2, <1>3, <2>2
  <2> QED BY <2>1, <2>2
<1> QED BY <1>3, <1>6, <1>8, <1>9, <1>10, <1>11, <1>12 DEF Owning

LEMMA OwningPass ==
  ASSUME Owning, NEW r \in Reclaimers, PassStep(r) \/ PassError(r)
  PROVE  Owning'
<1> DEFINE t == Head(pass[r].todo)
<1>1. /\ history \in Seq(Tables \cup {NoTable}) /\ table \in [Tables -> Table]
      /\ pass \in [Reclaimers -> Pass] /\ send \in [Senders -> Sends]
  BY DEF Owning, Sorted, Shaped
<1>2. /\ UNCHANGED send
      /\ \A q \in Reclaimers \ {r} : pass'[q] = pass[q]
  BY PassEffects DEF Owning
<1>3. \/ UNCHANGED <<table, history>>
      \/ /\ pass[r].todo # <<>> /\ t \in Tables /\ t \in ToSet(history)
         /\ table[t].state # "none"
         /\ \E new \in {"deactivated", "closed"} :
              table' = [table EXCEPT ![t].state = new]
         /\ ToSet(history') = ToSet(history) \cup {NoTable}
  <2> SUFFICES ASSUME ~UNCHANGED <<table, history>>
               PROVE  /\ pass[r].todo # <<>> /\ t \in Tables
                      /\ t \in ToSet(history) /\ table[t].state # "none"
                      /\ \E new \in {"deactivated", "closed"} :
                           table' = [table EXCEPT ![t].state = new]
                      /\ ToSet(history') = ToSet(history) \cup {NoTable}
    OBVIOUS
  <2>1. /\ pass[r].pc \in {"deactivate", "close"}
        /\ table[t].state \in {"active", "deactivated"}
        /\ \E new \in {"deactivated", "closed"} :
             table' = [table EXCEPT ![t].state = new]
        /\ history' = Append(history, NoTable)
    BY PassEffects DEF Owning
  <2>2. pass[r].todo # <<>> /\ pass[r].todo \in Seq(Tables)
    BY <1>1, <2>1 DEF Owning, Sorted, Chosen, Pass
  <2>3. t \in ToSet(pass[r].todo) /\ t \in Tables
    BY <2>2, ToSetTail
  <2>4. t \in ToSet(history)
    BY <2>3 DEF Owning, Listed
  <2>5. ToSet(history') = ToSet(history) \cup {NoTable}
    BY <1>1, <2>1, ToSetAppend
  <2> QED BY <2>1, <2>2, <2>3, <2>4, <2>5
<1>4. Sorted'
  BY SortedPass DEF Owning
<1>5. /\ \A u \in Tables : /\ table'[u].filled = table[u].filled
                           /\ table'[u].final = table[u].final
                           /\ table'[u].kind = table[u].kind
                           /\ table'[u].shared = table[u].shared
                           /\ table[u].state # "none" => table'[u].state # "none"
      /\ \A u \in Tables \ ToSet(history) : table'[u] = table[u]
      /\ ToSet(history) \subseteq ToSet(history')
      /\ ToSet(history') \subseteq ToSet(history) \cup {NoTable}
  <2>1. CASE UNCHANGED <<table, history>>
    BY <2>1
  <2>2. CASE \E new \in {"deactivated", "closed"} :
               /\ table' = [table EXCEPT ![t].state = new]
               /\ t \in Tables /\ t \in ToSet(history)
               /\ ToSet(history') = ToSet(history) \cup {NoTable}
    <3>1. PICK new \in {"deactivated", "closed"} :
            table' = [table EXCEPT ![t].state = new]
      BY <2>2
    <3>2. /\ \A u \in Tables \ {t} : table'[u] = table[u]
          /\ table'[t].filled = table[t].filled
          /\ table'[t].final = table[t].final /\ table'[t].state = new
          /\ table'[t].kind = table[t].kind
          /\ table'[t].shared = table[t].shared
      BY <1>1, <2>2, <3>1 DEF Table
    <3> QED BY <2>2, <3>2
  <2> QED BY <1>3, <2>1, <2>2
<1>6. Owned' /\ Alone'
  <2>1. \A s \in Senders : /\ Owner(s)' <=> Owner(s)
                           /\ send[s].table \in Tables
    BY <1>1, <1>2 DEF Owner, Sends
  <2>2. ASSUME NEW s \in Senders, Owner(s), ~table[send[s].table].shared
        PROVE  Holds(s)'
    <3>1. Holds(s) /\ send[s].table \notin ToSet(history)
      BY <2>2 DEF Owning, Owned, Holds
    <3>2. /\ table'[send[s].table] = table[send[s].table]
          /\ send[s].table \notin ToSet(history')
      BY <1>5, <2>1, <3>1, NoTableAssumption
    <3> QED BY <1>2, <3>1, <3>2 DEF Holds
  <2>3. Owned'
    BY <1>2, <1>5, <2>1, <2>2 DEF Owning, Owned
  <2>4. Alone'
    BY <1>2, <1>5, <2>1 DEF Owning, Alone
  <2> QED BY <2>3, <2>4
<1>7. Bounded'
  BY <1>5 DEF Owning, Bounded
<1>8. Listed'
  <2>1. \A u \in ToSet(history') \ {NoTable} : table'[u].state # "none"
    <3> SUFFICES ASSUME NEW u \in ToSet(history') \ {NoTable}
                 PROVE  table'[u].state # "none"
      OBVIOUS
    <3>1. u \in ToSet(history) \ {NoTable}
      BY <1>5
    <3>2. ToSet(history) \subseteq Tables \cup {NoTable}
      BY <1>1, ToSetWithin
    <3> QED BY <1>5, <3>1, <3>2 DEF Owning, Listed
  <2>2. ToSet(pass'[r].todo) \subseteq ToSet(history') \ {NoTable}
    <3>1. CASE pass'[r].todo = pass[r].todo
      BY <1>5, <3>1 DEF Owning, Listed
    <3>2. CASE pass'[r].todo = <<>>
      BY <3>2 DEF ToSet
    <3>3. CASE pass[r].todo # <<>> /\ pass'[r].todo = Tail(pass[r].todo)
      <4>1. pass[r].todo \in Seq(Tables)
        BY <1>1 DEF Pass
      <4>2. ToSet(pass'[r].todo) \subseteq ToSet(pass[r].todo)
        BY <3>3, <4>1, ToSetTail
      <4> QED BY <1>5, <4>2 DEF Owning, Listed
    <3>4. CASE pass'[r].todo = Candidates(history) /\ UNCHANGED history
      <4>1. Candidates(history) \in Seq(ToSet(history) \ {NoTable})
        BY <1>1, CandidatesOfHistory
      <4> QED BY <3>4, <4>1, ToSetWithin
    <3> QED BY <3>1, <3>2, <3>3, <3>4, PassEffects DEF Owning
  <2> QED BY <1>2, <1>5, <2>1, <2>2 DEF Owning, Listed
<1>9. Marked'
  <2> SUFFICES ASSUME NEW q \in Reclaimers,
                      pass'[q].pc \in {"deactivate", "close"},
                      table'[Head(pass'[q].todo)].kind = "other"
               PROVE  table'[Head(pass'[q].todo)].shared
    BY DEF Marked
  <2>1. pass'[q].todo \in Seq(Tables) /\ pass'[q].todo # <<>>
    BY <1>4, <1>1 DEF Sorted, Shaped, Chosen, Pass
  <2>2. Head(pass'[q].todo) \in Tables
    BY <2>1
  <2>3. CASE q = r
    <3>1. Fingerprint(Head(pass'[r].todo))
      BY <2>3, PassEffects DEF Owning
    <3> QED BY <1>5, <2>2, <2>3, <3>1 DEF Fingerprint
  <2>4. CASE q # r
    BY <1>2, <1>5, <2>2, <2>4 DEF Owning, Marked
  <2> QED BY <2>3, <2>4
<1>10. OtherTablesUntouched'
  <2> SUFFICES ASSUME NEW u \in Tables, table[u].kind = "other", ~table[u].shared
               PROVE  table'[u].state \in {"none", "active"}
    BY <1>5 DEF OtherTablesUntouched
  <2>1. CASE table'[u] = table[u]
    BY <2>1 DEF Owning, OtherTablesUntouched
  <2>2. CASE table'[u] # table[u]
    <3>1. u = t /\ pass[r].pc \in {"deactivate", "close"}
      BY <1>1, <2>2, PassEffects DEF Owning
    <3> QED BY <3>1 DEF Owning, Marked
  <2> QED BY <2>1, <2>2
<1> QED BY <1>4, <1>6, <1>7, <1>8, <1>9, <1>10 DEF Owning

LEMMA OwningChain ==
  ASSUME Owning, Tick \/ \E t \in Tables : EntryCloses(t)
  PROVE  Owning'
<1>1. /\ history \in Seq(Tables \cup {NoTable}) /\ table \in [Tables -> Table]
      /\ send \in [Senders -> Sends]
  BY DEF Owning, Sorted, Shaped
<1>2. UNCHANGED <<history, send, pass>>
  BY DEF Tick, EntryCloses
<1>3. \A t \in Tables :
        /\ table'[t].state = table[t].state /\ table'[t].filled = table[t].filled
        /\ table'[t].final \in {table[t].final, table[t].filled}
        /\ table'[t].shared = table[t].shared
        /\ table'[t].kind \in {table[t].kind, "stale"}
  <2>1. CASE Tick
    BY <1>1, <2>1 DEF Tick, Table
  <2>2. CASE \E t \in Tables : EntryCloses(t)
    BY <1>1, <2>2 DEF EntryCloses, Table
  <2> QED BY <2>1, <2>2
<1>4. Sorted'
  BY SortedTick, SortedEntry DEF Owning
<1>5. \A t \in Tables : table[t].filled \in Nat
  BY <1>1 DEF Table
<1>6. Bounded'
  BY <1>3, <1>5 DEF Owning, Bounded
<1>7. Owned' /\ Alone'
  <2>0. \A s \in Senders : send[s].table \in Tables
    BY <1>1 DEF Sends
  <2>1. ASSUME NEW s \in Senders, Owner(s), ~table[send[s].table].shared
        PROVE  Holds(s)'
    <3>1. Holds(s)
      BY <2>1 DEF Owning, Owned
    <3>2. send[s].pc = "consume" => table[send[s].table].filled = Extends
      BY <3>1 DEF Holds, Owning, Sorted, Shaped, Fits
    <3> QED BY <1>2, <1>3, <2>0, <3>1, <3>2 DEF Holds
  <2> QED BY <1>2, <1>3, <2>0, <2>1 DEF Owning, Owned, Alone, Owner
<1>8. Listed'
  <2>1. \A u \in ToSet(history) \ {NoTable} : u \in Tables
    BY <1>1 DEF ToSet
  <2> QED BY <1>2, <1>3, <2>1 DEF Owning, Listed
<1>9. Marked' /\ OtherTablesUntouched'
  <2>1. \A r \in Reclaimers : pass[r].pc \in {"deactivate", "close"} =>
          Head(pass[r].todo) \in Tables
    BY DEF Owning, Sorted, Shaped, Chosen, Pass
  <2> QED BY <1>2, <1>3, <2>1 DEF Owning, Marked, OtherTablesUntouched
<1> QED BY <1>4, <1>6, <1>7, <1>8, <1>9 DEF Owning

LEMMA OwningStep == Owning /\ [Next]_vars => Owning'
<1> SUFFICES ASSUME Owning, [Next]_vars PROVE Owning'
  OBVIOUS
<1>1. CASE UNCHANGED vars
  <2>1. Sorted'
    BY SortedStep DEF Owning
  <2> QED BY <1>1, <2>1 DEF vars, Owning, Owned, Owner, Holds, Alone, Listed,
             Marked, Bounded, OtherTablesUntouched
<1>2. CASE Next
  BY <1>2, OwningSend, OwningPass, OwningChain DEF Next
<1> QED BY <1>1, <1>2

\* The invariant of these states.
THEOREM OwningAlways == Spec => []Owning
BY OwningInit, OwningStep, PTL DEF Spec

\* ConsumeResolves: the transaction that consumes a table which its send alone
\* created finds it active, with its own entries only and every one final.  A
\* send owns its table from the creation on (sendWithEphemeralLookupTable), and
\* the cleanup pass finds tables only in the history, where the consuming
\* transaction is the first to put them.
THEOREM Consumption == Spec => []ConsumeResolves
<1>1. Owning => ConsumeResolves
  <2> SUFFICES ASSUME Owning, NEW s \in Senders, send[s].pc = "consume",
                      ~table[send[s].table].shared
               PROVE  /\ table[send[s].table].state = "active"
                      /\ table[send[s].table].filled = Extends
                      /\ table[send[s].table].final = Extends
                      /\ \A u \in Senders \ {s} :
                           send[u].pc \in {"extend", "wait", "consume"}
                             => send[u].table # send[s].table
    BY DEF ConsumeResolves
  <2>1. Owner(s) /\ Holds(s) /\ send[s].sent = Extends
    BY DEF Owning, Owned, Owner, Sorted, Shaped, Fits
  <2> QED BY <2>1 DEF Owning, Alone, Owner, Holds
<1> QED BY <1>1, OwningAlways, PTL

\* OtherTablesUntouched: whatever the senders do, no cleanup pass deactivates
\* or closes a table with entries of other programs that one send created (the
\* fingerprint in reclaimLookupTablesForSigner is read before each submission,
\* and a table that is in the history gets no more entries).
THEOREM OtherPrograms == Spec => []OtherTablesUntouched
<1>1. Owning => OtherTablesUntouched
  BY DEF Owning
<1> QED BY <1>1, OwningAlways, PTL

\* TypeOK: no table is filled beyond its capacity, and a pass ends at the
\* latest when maxTables of its submissions were confirmed.
THEOREM TypeCorrectness == Spec => []TypeOK
<1>1. Sorted => TypeOK
  BY DEF Sorted, Shaped, TypeOK, Pass
<1> QED BY <1>1, SortedAlways, PTL
=============================================================================
