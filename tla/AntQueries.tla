----------------------------- MODULE AntQueries -----------------------------
(***************************************************************************)
(* The reads of ANTs: getOwner, getState, getStates (getANTStates),        *)
(* getSummaries (getANTSummaries), getRecord and getRecords                *)
(* (ant-readable.ts), and resolveArNSName (io-readable.ts).  They send     *)
(* nothing; what they answer is put together from accounts that arrive in  *)
(* batches and scans.  Read as AntCalls, with Answer for what is returned. *)
(***************************************************************************)
EXTENDS NameCalls

CONSTANT ChunkSize       \* accounts of one getMultipleAccounts

(* The code's chunk is 100: the pair of accounts that getANTStates reads of *)
(* every ANT is never split over two requests.                             *)
ASSUME ChunkAssumption == ChunkSize \in Nat \ {0} /\ ChunkSize % 2 = 0

QueryOps == {"getOwner", "getState", "getStates", "getSummaries", "getRecord",
             "getRecords", "resolveArNSName"}

Rec(a, un)  == <<"rec", a, un>>
Meta(a, un) == <<"meta", a, un>>
Recs(a)     == <<"recs", a>>     \* a scan for the records of one ANT
Metas(a)    == <<"metas", a>>    \* and for what describes them
AllRecs     == <<"allrecs">>     \* scans of the whole program
AllMetas    == <<"allmetas">>
BatchOf(keys) == <<"batch", keys>>

QueryValue(x, key) ==
    CASE key[1] = "batch"    -> [i \in DOMAIN key[2] |-> AntValue(x, key[2][i])]
      [] key[1] = "metas"    -> x.meta[key[2]]
      [] key[1] = "allrecs"  -> x.recs
      [] key[1] = "allmetas" -> x.meta

(* Accounts in chunks of as many as one request may name.                  *)
Chunks(all) ==
    LET n == (Len(all) + ChunkSize - 1) \div ChunkSize
    IN  [i \in 1..n |-> BatchOf(SubSeq(all, (i - 1) * ChunkSize + 1,
                                       Min({i * ChunkSize, Len(all)})))]

(* Mutant: a third account of every ANT is read, as getANTSummaries does.  *)
AccountsOfThree(a) == <<Known(a), Ctrl(a), Rec(a, "@")>>

(* The accounts that getANTStates and getState read of every ANT.          *)
AccountsOf(a) == <<Known(a), Ctrl(a)>>

SummaryAccountsOf(a) == <<Known(a), Ctrl(a), Rec(a, "@")>>

StateChunks(p)   == Chunks(FlattenSeq([i \in DOMAIN p.as |-> AccountsOf(p.as[i])]))
SummaryChunks(p) == Chunks(FlattenSeq([i \in DOMAIN p.as |-> SummaryAccountsOf(p.as[i])]))

Described(p, records, descriptions) ==
    IF p.describe THEN {records, descriptions} ELSE {records}

RecordBatch(a, un) == BatchOf(<<Rec(a, un), Meta(a, un)>>)

QueryReads(p, seen) ==
    CASE p.op = "getOwner"     -> InTurn(<<Known(p.a)>>, seen)
      [] p.op = "getState"     -> AtOnce({BatchOf(AccountsOf(p.a))}
                                           \union Described(p, Recs(p.a), Metas(p.a)), seen)
      [] p.op = "getStates"    -> Then(InTurn(StateChunks(p), seen),
                                       AtOnce(Described(p, AllRecs, AllMetas), seen))
      [] p.op = "getSummaries" -> InTurn(SummaryChunks(p), seen)
      [] p.op = "getRecord"    -> InTurn(<<RecordBatch(p.a, p.un)>>, seen)
      [] p.op = "getRecords"   -> AtOnce(Described(p, Recs(p.a), Metas(p.a)), seen)
      [] p.op = "resolveArNSName" ->
           Then(InTurn(<<Arns(p.n)>>, seen),
                IF seen[Arns(p.n)] = Nobody THEN {}
                ELSE InTurn(<<RecordBatch(seen[Arns(p.n)], p.un)>>, seen))

(* Errors: no config, no ArNS record, no record of the undername.          *)
QueryRefuses(p, seen) ==
    \/ p.op = "getOwner" /\ seen[Known(p.a)] = Nobody
    \/ p.op = "getState" /\ seen[BatchOf(AccountsOf(p.a))][1] = Nobody
    \/ /\ p.op = "resolveArNSName"
       /\ \/ seen[Arns(p.n)] = Nobody
          \/ seen[RecordBatch(seen[Arns(p.n)], p.un)][1] = Nobody

----------------------------------------------------------------------------
(* What is answered: objects of one ANT each, given by what every account  *)
(* and scan that went into one held when it was read.                      *)
Pairing(keys, values) == [k \in ToSet(keys) |-> values[CHOOSE i \in DOMAIN keys : keys[i] = k]]

(* The accounts of the i-th ANT among the chunks.                          *)
Slice(chunks, seen, width, i) ==
    SubSeq(FlattenSeq([j \in DOMAIN chunks |-> seen[chunks[j]]]),
           (i - 1) * width + 1, i * width)

StateOf(p, seen, i) ==
    LET keys == AccountsOf(p.as[i])
    IN  Pairing(keys, Slice(StateChunks(p), seen, Len(keys), i))

SummaryOf(p, seen, i) ==
    LET keys == SummaryAccountsOf(p.as[i])
    IN  Pairing(keys, Slice(SummaryChunks(p), seen, 3, i))

(* The records of an ANT, with their descriptions when they are asked for. *)
RecordsOf(p, a, records, descriptions) ==
    IF p.describe THEN With(Just(Recs(a), records), Just(Metas(a), descriptions))
                  ELSE Just(Recs(a), records)

(* Mints without a config are left out.                                    *)
States(p, seen) ==
    {With(StateOf(p, seen, i), RecordsOf(p, p.as[i], seen[AllRecs][p.as[i]],
                                         seen[AllMetas][p.as[i]])) :
       i \in {j \in DOMAIN p.as : StateOf(p, seen, j)[Known(p.as[j])] # Nobody}}

Summaries(p, seen) ==
    {SummaryOf(p, seen, i) :
       i \in {j \in DOMAIN p.as : SummaryOf(p, seen, j)[Known(p.as[j])] # Nobody}}

Answer(p, seen) ==
    CASE p.op = "getOwner"  -> {Just(Known(p.a), seen[Known(p.a)])}
      [] p.op = "getState"  ->
           {With(Pairing(AccountsOf(p.a), seen[BatchOf(AccountsOf(p.a))]),
                 RecordsOf(p, p.a, seen[Recs(p.a)], seen[Metas(p.a)]))}
      [] p.op = "getStates" -> States(p, seen)
      [] p.op = "getSummaries" -> Summaries(p, seen)
      [] p.op = "getRecord" ->
           {Pairing(<<Rec(p.a, p.un), Meta(p.a, p.un)>>, seen[RecordBatch(p.a, p.un)])}
      [] p.op = "getRecords" -> {RecordsOf(p, p.a, seen[Recs(p.a)], seen[Metas(p.a)])}
      [] p.op = "resolveArNSName" ->
           LET a == seen[Arns(p.n)] IN
           {Pairing(<<Rec(a, p.un), Meta(a, p.un)>>, seen[RecordBatch(a, p.un)])}

(* What of an object is of one moment: the owner and the controllers, and a *)
(* record that is read with its description.  Not so a summary, whose three *)
(* accounts a chunk may split, nor what comes of scans.                     *)
Bonds(op) == IF op = "getSummaries" THEN {} ELSE {{"known", "ctrl"}, {"rec", "meta"}}

(* An account, or a scan, held this.                                       *)
Held(x, key) == IF key[1] = "metas" THEN x.meta[key[2]] ELSE AntValue(x, key)

SaidOf(M, said, keys) == \E m \in M : \A key \in keys : said[key] = Held(m, key)

(* Each account held what is said of it at one of the moments M, and those *)
(* in a bond at the same.                                                  *)
SaidWell(op, M, said) ==
    /\ \A key \in DOMAIN said : SaidOf(M, said, {key})
    /\ \A kinds \in Bonds(op) :
         SaidOf(M, said, {key \in DOMAIN said : key[1] \in kinds})
=============================================================================
