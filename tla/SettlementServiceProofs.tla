----------------------- MODULE SettlementServiceProofs -----------------------
(***************************************************************************)
(* Proofs about SettlementService, for any trades, batches and sweeps:     *)
(* the invariants of its run and OnlyReorgsUnsettle.                       *)
(*                                                                         *)
(* IInv is inductive and holds all of them but MovedIsMarked, which counts *)
(* batches and so needs a second invariant on top of it, LossesCounted.    *)
(***************************************************************************)
EXTENDS SettlementService, FiniteSetTheorems, TLAPS

-----------------------------------------------------------------------------
(* The inductive invariant.                                                *)

\* The transaction of b once succeeded.
Succeeded(b) == \E p \in included : p[1] = b

\* A settlements row of a transaction that moved t and once succeeded.
Rests(t, r) == r.trade = t /\ t \in moving[r.tx] /\ Succeeded(r.tx)
Recorded(t) == \E r \in settlements : Rests(t, r)

\* A batch that has not sent its transaction has left no trace.
Unsent ==
  /\ \A b \in Batch : pc[b] \in {"idle", "send"} =>
       /\ block[b] = 0 /\ ~Succeeded(b) /\ b \notin undone
       /\ \A r \in settlements : r.tx # b
  /\ \A i \in DOMAIN sent : pc[sent[i]] \notin {"idle", "send"}

\* The rows of a transaction are those of its request, all there once it waits.
RowsOfRequest ==
  /\ \A r \in settlements : r.trade \in ids[r.tx]
  /\ \A b \in Batch : pc[b] \in {"wait", "settle", "confirm"} =>
       \A t \in ids[b] : \E r \in settlements : r.trade = t /\ r.tx = b

\* A receipt names a block in which the transaction did succeed.
ReceiptsTrue ==
  /\ \A b \in Batch : pc[b] \in {"settle", "confirm"} =>
       receipt[b] > 0 /\ <<b, receipt[b]>> \in included
  /\ \A b \in Batch : Included(b) => <<b, block[b]>> \in included

\* What a batch found settled already is recorded for another one.
OthersRecorded ==
  \A b \in Batch : pc[b] \in Runs => \A t \in ids[b] \ moving[b] : Recorded(t)

\* A transaction that once succeeded leaves the chain by a reorganisation.
LeftUndone == \A b \in Batch : Succeeded(b) /\ block[b] = 0 => b \in undone

\* What a sweep looks at once succeeded; what it takes back was undone.
SweepsTrue ==
  /\ \A s \in Sweep : \A q \in todo[s] : Succeeded(q[2]) /\ q[1] \in ids[q[2]]
  /\ \A s \in Sweep : at[s] = "unsettle" =>
       row[s] \in Trade /\ \E b \in undone : row[s] \in ids[b]

IInv ==
  /\ TypeOK
  /\ PaidOnce
  /\ SettledIsRecorded
  /\ ConfirmedWasIncluded
  /\ Unsent
  /\ RowsOfRequest
  /\ ReceiptsTrue
  /\ OthersRecorded
  /\ LeftUndone
  /\ SweepsTrue

-----------------------------------------------------------------------------
LEMMA InitInv == Init => IInv
<1> SUFFICES ASSUME Init PROVE IInv
  OBVIOUS
<1>1. TypeOK
  BY BoundsAssumption
  DEF Init, TypeOK, DatabaseOK, BatchesOK, SweepsOK, ChainOK, HistoryOK, Runs
<1>2. \A b \in Batch : ~Included(b)
  BY DEF Init, Included
<1>3. \A b \in Batch : pc[b] = "idle"
  BY DEF Init
<1>4. \A s \in Sweep : at[s] = "idle" /\ todo[s] = {}
  BY DEF Init
<1>5. settled = {} /\ settlements = {} /\ included = {} /\ sent = <<>>
  BY DEF Init
<1>6. \A b \in Batch : block[b] = 0
  BY DEF Init
<1>7. PaidOnce /\ ReceiptsTrue
  BY <1>2, <1>3 DEF PaidOnce, ReceiptsTrue
<1>8. SettledIsRecorded /\ ConfirmedWasIncluded
  BY <1>5 DEF SettledIsRecorded, ConfirmedWasIncluded
<1>9. Unsent
  BY <1>5, <1>6 DEF Init, Unsent, Succeeded
<1>10. RowsOfRequest /\ OthersRecorded
  BY <1>3, <1>5 DEF RowsOfRequest, OthersRecorded, Runs
<1>11. LeftUndone
  BY <1>5 DEF LeftUndone, Succeeded
<1>12. SweepsTrue
  BY <1>4 DEF SweepsTrue
<1> QED
  BY <1>1, <1>7, <1>8, <1>9, <1>10, <1>11, <1>12 DEF IInv

\* What a step keeps: a trade stays recorded while rows, transactions and
\* successes stay.
LEMMA RecordedStays ==
  ASSUME NEW t, Recorded(t),
         moving' = moving,
         included \subseteq included',
         \A r \in settlements : \E q \in settlements' : q.trade = r.trade /\ q.tx = r.tx
  PROVE  Recorded(t)'
<1>1. PICK r \in settlements : Rests(t, r)
  BY DEF Recorded
<1>2. PICK q \in settlements' : q.trade = r.trade /\ q.tx = r.tx
  OBVIOUS
<1>3. Rests(t, q)'
  BY <1>1, <1>2 DEF Rests, Succeeded
<1> QED  BY <1>2, <1>3 DEF Recorded

LEMMA SettledAreRecorded ==
  SettledIsRecorded <=> \A t \in settled : Recorded(t)
BY DEF SettledIsRecorded, Recorded, Rests, Succeeded

-----------------------------------------------------------------------------
(* The sweeps.                                                             *)

\* A step that only moves sweeps.
LEMMA SweepFrame ==
  ASSUME IInv, SweepsOK', HistoryOK', SweepsTrue',
         UNCHANGED <<database, batches, chain, undone>>
  PROVE  IInv'
<1> USE DEF IInv, database, batches, chain
<1>1. DatabaseOK' /\ BatchesOK' /\ ChainOK'
  BY DEF TypeOK, DatabaseOK, BatchesOK, ChainOK
<1>2. PaidOnce'
  BY DEF PaidOnce, Included
<1>3. SettledIsRecorded' /\ ConfirmedWasIncluded'
  BY DEF SettledIsRecorded, ConfirmedWasIncluded
<1>4. Unsent' /\ RowsOfRequest'
  BY DEF Unsent, Succeeded, RowsOfRequest
<1>5. ReceiptsTrue'
  BY DEF ReceiptsTrue, Included
<1>6. OthersRecorded'
  BY DEF OthersRecorded, Recorded, Rests, Succeeded
<1>7. LeftUndone'
  BY DEF LeftUndone, Succeeded
<1> QED  BY <1>1, <1>2, <1>3, <1>4, <1>5, <1>6, <1>7 DEF TypeOK

LEMMA StartSweepStep ==
  ASSUME IInv, NEW s \in Sweep, NEW n \in 1..(head + 1), StartSweep(s, n)
  PROVE  IInv'
<1> DEFINE T == {<<r.trade, r.tx>> : r \in Affected(n)}
<1>0. /\ todo' = [todo EXCEPT ![s] = T]
      /\ at' = [at EXCEPT ![s] = "check"]
      /\ unswept' = {m \in unswept : m < n}
      /\ UNCHANGED <<database, batches, chain, row, undone, reorgs, failures>>
      /\ ids' = ids /\ included' = included
  BY DEF StartSweep, batches, chain
<1>1. SweepsOK /\ SweepsTrue /\ HistoryOK
  BY DEF IInv, TypeOK
<1>2. ASSUME NEW q \in T
      PROVE  q \in Trade \X Batch /\ Succeeded(q[2]) /\ q[1] \in ids[q[2]]
  <2>1. PICK r \in Affected(n) : q = <<r.trade, r.tx>>
    OBVIOUS
  <2>2. r \in settlements /\ r \in Row /\ r.status = "CONFIRMED"
    BY DEF Affected, IInv, TypeOK, DatabaseOK
  <2>3. r.trade \in Trade /\ r.tx \in Batch
    BY <2>2 DEF Row
  <2>4. <<r.tx, r.block>> \in included
    BY <2>2 DEF IInv, ConfirmedWasIncluded
  <2>5. r.trade \in ids[r.tx]
    BY <2>2 DEF IInv, RowsOfRequest
  <2> QED  BY <2>1, <2>3, <2>4, <2>5 DEF Succeeded
<1> HIDE DEF T
<1>3. SweepsOK'
  BY <1>0, <1>1, <1>2 DEF SweepsOK
<1>4. HistoryOK'
  BY <1>0, <1>1 DEF HistoryOK
<1>5. SweepsTrue'
  BY <1>0, <1>1, <1>2 DEF SweepsTrue, SweepsOK, Succeeded
<1> QED  BY <1>0, <1>3, <1>4, <1>5, SweepFrame

LEMMA CheckStep ==
  ASSUME IInv, NEW s \in Sweep, Check(s)
  PROVE  IInv'
<1>0. UNCHANGED <<database, batches, chain, history>> /\ ids' = ids
      /\ included' = included /\ undone' = undone
  BY DEF Check, batches, chain, history
<1>1. SweepsOK /\ SweepsTrue /\ HistoryOK
  BY DEF IInv, TypeOK
<1>2. PICK q \in todo[s] :
        /\ todo' = [todo EXCEPT ![s] = @ \ {q}]
        /\ \/ HasReceipt(q[2]) /\ UNCHANGED <<at, row>>
           \/ /\ ~HasReceipt(q[2])
              /\ row' = [row EXCEPT ![s] = q[1]]
              /\ at' = [at EXCEPT ![s] = "unsettle"]
  BY DEF Check
<1>3. q \in Trade \X Batch /\ Succeeded(q[2]) /\ q[1] \in ids[q[2]]
  BY <1>1 DEF SweepsOK, SweepsTrue
<1>4. ~HasReceipt(q[2]) => q[2] \in undone
  BY <1>3 DEF HasReceipt, IInv, LeftUndone, TypeOK, ChainOK
<1>5. SweepsOK'
  BY <1>1, <1>2, <1>3 DEF SweepsOK
<1>6. HistoryOK'
  BY <1>0, <1>1 DEF HistoryOK, history
<1>7. SweepsTrue'
  <2>1. \A z \in Sweep : todo'[z] \subseteq todo[z]
    BY <1>1, <1>2 DEF SweepsOK
  <2>2. \A z \in Sweep : at'[z] = "unsettle" =>
          \/ at[z] = "unsettle" /\ row'[z] = row[z]
          \/ row'[z] = q[1] /\ ~HasReceipt(q[2])
    BY <1>1, <1>2 DEF SweepsOK
  <2> QED  BY <1>0, <1>1, <1>3, <1>4, <2>1, <2>2 DEF SweepsTrue, Succeeded
<1> QED  BY <1>0, <1>5, <1>6, <1>7, SweepFrame

\* A sweep that skips a row, ends or fails.
LEMMA SweepMovesOn ==
  ASSUME IInv, NEW s \in Sweep, EndSweep(s) \/ SkipRow(s) \/ FailSweep(s)
  PROVE  IInv'
<1>1. SweepsOK /\ SweepsTrue /\ HistoryOK
  BY DEF IInv, TypeOK
<1>2. SweepsOK'
  BY <1>1 DEF EndSweep, SkipRow, FailSweep, SweepsOK
<1>3. /\ UNCHANGED <<database, batches, chain, undone, unswept, reorgs>>
      /\ \/ failures' = failures
         \/ failures < MaxFailures /\ failures' = failures + 1
  BY DEF EndSweep, SkipRow, FailSweep, history
<1>4. HistoryOK'
  BY <1>1, <1>3, BoundsAssumption DEF HistoryOK
<1>5. SweepsTrue'
  <2>1. \A z \in Sweep : todo'[z] \subseteq todo[z]
    BY <1>1 DEF EndSweep, SkipRow, FailSweep, SweepsOK
  <2>2. \A z \in Sweep : at'[z] = "unsettle" => at[z] = "unsettle" /\ row'[z] = row[z]
    BY <1>1 DEF EndSweep, SkipRow, FailSweep, SweepsOK
  <2>3. ids' = ids /\ included' = included /\ undone' = undone
    BY <1>3 DEF batches, chain
  <2> QED  BY <1>1, <2>1, <2>2, <2>3 DEF SweepsTrue, Succeeded
<1> QED  BY <1>2, <1>3, <1>4, <1>5, SweepFrame

\* UPDATE trades SET settled = false
LEMMA UnsettleStep ==
  ASSUME IInv, NEW s \in Sweep, Unsettle(s)
  PROVE  IInv'
<1>0. /\ settled' = settled \ {row[s]}
      /\ at' = [at EXCEPT ![s] = "mark"]
      /\ UNCHANGED <<settlements, pc, ids, moving, receipt, todo, row, sent, block,
                     success, head, included, undone, unswept, reorgs, failures>>
  BY DEF Unsettle, batches, chain, history
<1>1. TypeOK'
  BY <1>0 DEF IInv, TypeOK, DatabaseOK, BatchesOK, SweepsOK, ChainOK, HistoryOK
<1>2. PaidOnce'
  BY <1>0 DEF IInv, PaidOnce, Included
<1>3. SettledIsRecorded' /\ ConfirmedWasIncluded'
  BY <1>0 DEF IInv, SettledIsRecorded, ConfirmedWasIncluded
<1>4. Unsent' /\ RowsOfRequest'
  BY <1>0 DEF IInv, Unsent, Succeeded, RowsOfRequest
<1>5. ReceiptsTrue'
  BY <1>0 DEF IInv, ReceiptsTrue, Included
<1>6. OthersRecorded'
  BY <1>0 DEF IInv, OthersRecorded, Recorded, Rests, Succeeded
<1>7. LeftUndone'
  BY <1>0 DEF IInv, LeftUndone, Succeeded
<1>8. SweepsTrue'
  <2>1. \A z \in Sweep : at'[z] = "unsettle" => at[z] = "unsettle"
    BY <1>0 DEF IInv, TypeOK, SweepsOK
  <2> QED  BY <1>0, <2>1 DEF IInv, SweepsTrue, Succeeded
<1> QED  BY <1>1, <1>2, <1>3, <1>4, <1>5, <1>6, <1>7, <1>8 DEF IInv

-----------------------------------------------------------------------------
(* Updates of settlements.                                                 *)

\* An UPDATE keeps the trade and the transaction of every row.
LEMMA RowsUpdated ==
  ASSUME IInv, TypeOK', ConfirmedWasIncluded', SweepsTrue',
         NEW f, settlements' = {f[r] : r \in settlements},
         \A r \in settlements : f[r].trade = r.trade /\ f[r].tx = r.tx,
         UNCHANGED <<settled, ids, moving, receipt, chain, undone>>,
         \A b \in Batch : pc'[b] = pc[b] \/ (pc[b] \in Runs /\ pc'[b] = "done")
  PROVE  IInv'
<1>0. UNCHANGED <<settled, ids, moving, receipt, sent, block, success, included, undone>>
  BY DEF chain
<1>1. \A r \in settlements : \E q \in settlements' : q.trade = r.trade /\ q.tx = r.tx
  OBVIOUS
<1>2. \A q \in settlements' : \E r \in settlements : q.trade = r.trade /\ q.tx = r.tx
  OBVIOUS
<1>3. PaidOnce'
  BY <1>0 DEF IInv, PaidOnce, Included
<1>4. \A t : Recorded(t) => Recorded(t)'
  BY <1>0, <1>1, RecordedStays
<1>5. SettledIsRecorded'
  <2>1. \A t \in settled' : Recorded(t)'
    BY <1>0, <1>4, SettledAreRecorded DEF IInv
  <2> QED  BY <2>1 DEF SettledIsRecorded, Recorded, Rests, Succeeded
<1>6. Unsent'
  <2>1. \A b \in Batch : pc'[b] \in {"idle", "send"} => pc[b] = pc'[b]
    OBVIOUS
  <2>2. \A i \in DOMAIN sent : sent[i] \in Batch
    BY DEF IInv, TypeOK, ChainOK
  <2> QED  BY <1>0, <1>2, <2>1, <2>2 DEF IInv, Unsent, Succeeded
<1>7. RowsOfRequest'
  <2>1. \A q \in settlements' : q.trade \in ids'[q.tx]
    BY <1>0, <1>2 DEF IInv, RowsOfRequest
  <2>2. ASSUME NEW b \in Batch, pc'[b] \in {"wait", "settle", "confirm"}, NEW t \in ids'[b]
        PROVE  \E q \in settlements' : q.trade = t /\ q.tx = b
    <3>1. pc[b] = pc'[b]
      BY <2>2
    <3>2. PICK z \in settlements : z.trade = t /\ z.tx = b
      BY <1>0, <2>2, <3>1 DEF IInv, RowsOfRequest
    <3> QED  BY <1>1, <3>2
  <2> QED  BY <2>1, <2>2 DEF RowsOfRequest
<1>8. ReceiptsTrue'
  BY <1>0 DEF IInv, ReceiptsTrue, Included
<1>9. OthersRecorded'
  BY <1>0, <1>4 DEF IInv, OthersRecorded, Runs
<1>10. LeftUndone'
  BY <1>0 DEF IInv, LeftUndone, Succeeded
<1> QED  BY <1>3, <1>5, <1>6, <1>7, <1>8, <1>9, <1>10 DEF IInv

LEMMA MarkReorgedStep ==
  ASSUME IInv, NEW s \in Sweep, MarkReorged(s)
  PROVE  IInv'
<1> DEFINE f == [r \in settlements |->
                   IF r.trade = row[s] THEN [r EXCEPT !.status = "REORGED"] ELSE r]
<1>0. /\ settlements' = {f[r] : r \in settlements}
      /\ at' = [at EXCEPT ![s] = "check"]
      /\ row' = [row EXCEPT ![s] = NoTrade]
      /\ UNCHANGED <<settled, pc, ids, moving, receipt, todo, chain, undone,
                     unswept, reorgs, failures>>
  BY DEF MarkReorged, batches, history
<1>1. ASSUME NEW r \in settlements
      PROVE  /\ f[r] \in Row /\ f[r].trade = r.trade /\ f[r].tx = r.tx
             /\ f[r].status # "REORGED" => f[r] = r
  <2>1. r \in Row
    BY DEF IInv, TypeOK, DatabaseOK
  <2> QED  BY <2>1 DEF Row, Status
<1> HIDE DEF f
<1>2. DatabaseOK'
  BY <1>0, <1>1 DEF IInv, TypeOK, DatabaseOK
<1>3. TypeOK'
  BY <1>0, <1>2 DEF IInv, TypeOK, BatchesOK, SweepsOK, ChainOK, HistoryOK, chain
<1>4. ConfirmedWasIncluded'
  BY <1>0, <1>1 DEF IInv, ConfirmedWasIncluded, chain
<1>5. SweepsTrue'
  <2>1. \A z \in Sweep : at'[z] = "unsettle" => at[z] = "unsettle" /\ row'[z] = row[z]
    BY <1>0 DEF IInv, TypeOK, SweepsOK
  <2>2. UNCHANGED <<ids, todo, included, undone>>
    BY <1>0 DEF chain
  <2> QED  BY <2>1, <2>2 DEF IInv, SweepsTrue, Succeeded
<1> QED  BY <1>0, <1>1, <1>3, <1>4, <1>5, RowsUpdated

LEMMA MarkConfirmedStep ==
  ASSUME IInv, NEW b \in Batch, MarkConfirmed(b)
  PROVE  IInv'
<1> DEFINE f == [r \in settlements |->
                   IF r.tx = b THEN [r EXCEPT !.status = "CONFIRMED", !.block = receipt[b]]
                               ELSE r]
<1>0. /\ settlements' = {f[r] : r \in settlements}
      /\ pc[b] = "confirm"
      /\ pc' = [pc EXCEPT ![b] = "done"]
      /\ UNCHANGED <<settled, ids, moving, receipt, at, todo, row, chain, undone,
                     unswept, reorgs, failures>>
  BY DEF MarkConfirmed, sweeps, history
<1>1. receipt[b] \in Nat /\ receipt[b] > 0 /\ <<b, receipt[b]>> \in included
  BY <1>0 DEF IInv, TypeOK, BatchesOK, ReceiptsTrue
<1>2. ASSUME NEW r \in settlements
      PROVE  /\ f[r] \in Row /\ f[r].trade = r.trade /\ f[r].tx = r.tx
             /\ \/ f[r] = r
                \/ f[r].status = "CONFIRMED" /\ f[r].tx = b /\ f[r].block = receipt[b]
  <2>1. r \in Row
    BY DEF IInv, TypeOK, DatabaseOK
  <2> QED  BY <1>1, <2>1 DEF Row, Status
<1> HIDE DEF f
<1>3. DatabaseOK'
  BY <1>0, <1>1, <1>2 DEF IInv, TypeOK, DatabaseOK
<1>4. TypeOK'
  BY <1>0, <1>3 DEF IInv, TypeOK, BatchesOK, SweepsOK, ChainOK, HistoryOK, chain
<1>5. ConfirmedWasIncluded'
  BY <1>0, <1>1, <1>2 DEF IInv, ConfirmedWasIncluded, chain
<1>6. SweepsTrue'
  BY <1>0 DEF IInv, SweepsTrue, Succeeded, chain
<1>7. \A c \in Batch : pc'[c] = pc[c] \/ (pc[c] \in Runs /\ pc'[c] = "done")
  BY <1>0 DEF IInv, TypeOK, BatchesOK, Runs
<1> QED  BY <1>0, <1>2, <1>4, <1>5, <1>6, <1>7, RowsUpdated

-----------------------------------------------------------------------------
(* The batches.                                                            *)

\* The query: what it does not move is recorded for another batch.
LEMMA SettleStep ==
  ASSUME IInv, NEW b \in Batch, NEW requested \in SUBSET Trade, Settle(b, requested)
  PROVE  IInv'
<1>0. /\ pc[b] = "idle"
      /\ ids' = [ids EXCEPT ![b] = requested]
      /\ moving' = [moving EXCEPT ![b] = requested \ settled]
      /\ pc' = [pc EXCEPT ![b] = IF requested \subseteq settled THEN "done" ELSE "send"]
      /\ UNCHANGED <<settled, settlements, receipt, at, todo, row, sent, block, success,
                     head, included, undone, unswept, reorgs, failures>>
  BY DEF Settle, database, sweeps, chain, history
<1>1. /\ pc'[b] \in {"send", "done"}
      /\ moving'[b] = ids'[b] \ settled
      /\ \A c \in Batch : c # b => /\ pc'[c] = pc[c] /\ ids'[c] = ids[c]
                                   /\ moving'[c] = moving[c]
  BY <1>0 DEF IInv, TypeOK, BatchesOK
<1>2. /\ block[b] = 0 /\ ~Succeeded(b) /\ b \notin undone
      /\ \A r \in settlements : r.tx # b
  BY <1>0 DEF IInv, Unsent
<1>3. settlements \subseteq Row /\ \A r \in settlements : r.tx \in Batch
  BY DEF IInv, TypeOK, DatabaseOK, Row
<1>4. TypeOK'
  <2>1. BatchesOK'
    BY <1>0, <1>1 DEF IInv, TypeOK, BatchesOK, Runs
  <2> QED  BY <1>0, <2>1 DEF IInv, TypeOK, DatabaseOK, SweepsOK, ChainOK, HistoryOK
<1>5. PaidOnce'
  <2>1. \A c \in Batch : Included(c)' => Included(c) /\ c # b
    BY <1>0, <1>2 DEF Included, IInv, TypeOK, ChainOK
  <2> QED  BY <1>1, <2>1 DEF IInv, PaidOnce
<1>6. \A t : Recorded(t) => Recorded(t)'
  BY <1>0, <1>1, <1>2, <1>3 DEF Recorded, Rests, Succeeded
<1>7. SettledIsRecorded'
  <2>1. \A t \in settled' : Recorded(t)'
    BY <1>0, <1>6, SettledAreRecorded DEF IInv
  <2> QED  BY <2>1 DEF SettledIsRecorded, Recorded, Rests, Succeeded
<1>8. ConfirmedWasIncluded'
  BY <1>0 DEF IInv, ConfirmedWasIncluded
<1>9. Unsent'
  <2>1. \A c \in Batch : pc'[c] \in {"idle", "send"} => pc[c] \in {"idle", "send"}
    BY <1>0, <1>1
  <2>2. \A i \in DOMAIN sent : sent[i] \in Batch
    BY DEF IInv, TypeOK, ChainOK
  <2> QED  BY <1>0, <2>1, <2>2 DEF IInv, Unsent, Succeeded
<1>10. RowsOfRequest'
  BY <1>0, <1>1, <1>2, <1>3 DEF IInv, RowsOfRequest
<1>11. ReceiptsTrue'
  <2>1. \A c \in Batch : pc'[c] \in {"settle", "confirm"} => pc[c] = pc'[c]
    BY <1>1
  <2> QED  BY <1>0, <2>1 DEF IInv, ReceiptsTrue, Included
<1>12. OthersRecorded'
  <2>1. \A t \in settled : Recorded(t)
    BY SettledAreRecorded DEF IInv
  <2>2. \A t \in ids'[b] \ moving'[b] : Recorded(t)'
    BY <1>1, <1>6, <2>1
  <2>3. \A c \in Batch : c # b /\ pc'[c] \in Runs =>
          \A t \in ids'[c] \ moving'[c] : Recorded(t)'
    BY <1>1, <1>6 DEF IInv, OthersRecorded
  <2> QED  BY <2>2, <2>3 DEF OthersRecorded, Runs
<1>13. LeftUndone'
  BY <1>0 DEF IInv, LeftUndone, Succeeded
<1>14. SweepsTrue'
  <2>1. \A c \in Batch : Succeeded(c) => c # b
    BY <1>2
  <2>2. \A c \in undone : c \in Batch
    BY DEF IInv, TypeOK, HistoryOK
  <2>3. \A s \in Sweep : \A q \in todo[s] : q[2] \in Batch
    BY DEF IInv, TypeOK, SweepsOK
  <2>4. ASSUME NEW s \in Sweep, at[s] = "unsettle"
        PROVE  \E c \in undone : row[s] \in ids'[c]
    <3>1. PICK c \in undone : row[s] \in ids[c]
      BY <2>4 DEF IInv, SweepsTrue
    <3> QED  BY <1>1, <1>2, <2>2, <3>1
  <2> QED  BY <1>0, <1>1, <2>1, <2>3, <2>4 DEF IInv, SweepsTrue, Succeeded
<1> QED
  BY <1>4, <1>5, <1>7, <1>8, <1>9, <1>10, <1>11, <1>12, <1>13, <1>14 DEF IInv

\* A step that moves batches on, or ends them, and leaves the rest to show.
LEMMA BatchFrame ==
  ASSUME IInv, TypeOK', SettledIsRecorded', ReceiptsTrue',
         \A i \in DOMAIN sent' : pc'[sent'[i]] \notin {"idle", "send"},
         UNCHANGED <<settlements, ids, moving, sweeps, block, success, included, undone>>,
         \A c \in Batch :
           /\ pc'[c] \in {"idle", "send"} => pc[c] = pc'[c]
           /\ pc'[c] \in Runs => pc[c] \in Runs
           /\ pc'[c] \in {"wait", "settle", "confirm"} =>
                pc[c] \in {"wait", "settle", "confirm"}
  PROVE  IInv'
<1>0. UNCHANGED <<settlements, ids, moving, todo, at, row, block, success, included, undone>>
  BY DEF sweeps
<1>1. PaidOnce'
  BY <1>0 DEF IInv, PaidOnce, Included
<1>2. ConfirmedWasIncluded'
  BY <1>0 DEF IInv, ConfirmedWasIncluded
<1>3. Unsent'
  BY <1>0 DEF IInv, Unsent, Succeeded
<1>4. RowsOfRequest'
  BY <1>0 DEF IInv, RowsOfRequest
<1>5. OthersRecorded'
  BY <1>0 DEF IInv, OthersRecorded, Recorded, Rests, Succeeded, Runs
<1>6. LeftUndone'
  BY <1>0 DEF IInv, LeftUndone, Succeeded
<1>7. SweepsTrue'
  BY <1>0 DEF IInv, SweepsTrue, Succeeded
<1> QED  BY <1>1, <1>2, <1>3, <1>4, <1>5, <1>6, <1>7 DEF IInv

LEMMA SendStep ==
  ASSUME IInv, NEW b \in Batch, Send(b)
  PROVE  IInv'
<1>0. /\ pc[b] = "send"
      /\ sent' = Append(sent, b)
      /\ pc' = [pc EXCEPT ![b] = "insert"]
      /\ UNCHANGED <<settled, settlements, ids, moving, receipt, at, todo, row, block,
                     success, head, included, undone, unswept, reorgs, failures>>
  BY DEF Send, database, sweeps, history
<1>1. sent \in Seq(Batch) /\ pc'[b] = "insert"
      /\ \A c \in Batch : c # b => pc'[c] = pc[c]
  BY <1>0 DEF IInv, TypeOK, ChainOK, BatchesOK
<1>2. TypeOK'
  <2>1. sent' \in Seq(Batch)
    BY <1>0, <1>1
  <2>2. BatchesOK'
    BY <1>0 DEF IInv, TypeOK, BatchesOK, Runs
  <2> QED  BY <1>0, <2>1, <2>2 DEF IInv, TypeOK, DatabaseOK, SweepsOK, ChainOK, HistoryOK
<1>3. ASSUME NEW i \in DOMAIN sent'  PROVE pc'[sent'[i]] \notin {"idle", "send"}
  <2>1. (i \in DOMAIN sent /\ sent'[i] = sent[i] /\ sent[i] \in Batch) \/ sent'[i] = b
    BY <1>0, <1>1
  <2>2. i \in DOMAIN sent => pc[sent[i]] \notin {"idle", "send"}
    BY DEF IInv, Unsent
  <2> QED  BY <1>1, <2>1, <2>2
<1>4. SettledIsRecorded'
  BY <1>0 DEF IInv, SettledIsRecorded
<1>5. ReceiptsTrue'
  BY <1>0, <1>1 DEF IInv, ReceiptsTrue, Included
<1> QED  BY <1>0, <1>1, <1>2, <1>3, <1>4, <1>5, BatchFrame DEF sweeps, Runs

\* A batch that is refused or fails.
LEMMA EndsStep ==
  ASSUME IInv, NEW b \in Batch, Refused(b) \/ FailBatch(b)
  PROVE  IInv'
<1>0. /\ pc[b] \in Runs
      /\ pc' = [pc EXCEPT ![b] = "done"]
      /\ UNCHANGED <<settled, settlements, ids, moving, receipt, at, todo, row, sent,
                     block, success, head, included, undone, unswept, reorgs>>
      /\ \/ failures' = failures
         \/ failures < MaxFailures /\ failures' = failures + 1
  BY DEF Refused, FailBatch, database, sweeps, chain, history, Runs
<1>1. \A c \in Batch : pc'[c] = pc[c] \/ pc'[c] = "done"
  BY <1>0 DEF IInv, TypeOK, BatchesOK
<1>2. TypeOK'
  <2>1. BatchesOK'
    BY <1>0 DEF IInv, TypeOK, BatchesOK
  <2>2. HistoryOK'
    BY <1>0, BoundsAssumption DEF IInv, TypeOK, HistoryOK
  <2> QED  BY <1>0, <2>1, <2>2 DEF IInv, TypeOK, DatabaseOK, SweepsOK, ChainOK
<1>3. \A i \in DOMAIN sent' : pc'[sent'[i]] \notin {"idle", "send"}
  <2>1. \A i \in DOMAIN sent : sent[i] \in Batch
    BY DEF IInv, TypeOK, ChainOK
  <2> QED  BY <1>0, <1>1, <2>1 DEF IInv, Unsent
<1>4. SettledIsRecorded'
  BY <1>0 DEF IInv, SettledIsRecorded
<1>5. ReceiptsTrue'
  BY <1>0, <1>1 DEF IInv, ReceiptsTrue, Included
<1> QED  BY <1>0, <1>1, <1>2, <1>3, <1>4, <1>5, BatchFrame DEF sweeps, Runs

LEMMA WaitStep ==
  ASSUME IInv, NEW b \in Batch, Wait(b)
  PROVE  IInv'
<1>0. /\ pc[b] = "wait"
      /\ UNCHANGED <<settled, settlements, ids, moving, at, todo, row, sent, block,
                     success, head, included, undone, unswept, reorgs, failures>>
  BY DEF Wait, database, sweeps, chain, history
<1>1. /\ pc'[b] \in {"settle", "done"}
      /\ pc'[b] = "settle" => Included(b) /\ receipt'[b] = block[b]
      /\ \A c \in Batch : c # b => pc'[c] = pc[c] /\ receipt'[c] = receipt[c]
  BY DEF Wait, Confirmed, ReceiptBlock, IInv, TypeOK, BatchesOK
<1>2. TypeOK'
  <2>1. block[b] \in Nat
    BY DEF IInv, TypeOK, ChainOK
  <2>2. pc' \in [Batch -> Runs \cup {"idle", "done"}] /\ receipt' \in [Batch -> Nat]
    BY <2>1 DEF Wait, ReceiptBlock, IInv, TypeOK, BatchesOK, Runs
  <2> QED
    BY <1>0, <2>2 DEF IInv, TypeOK, DatabaseOK, BatchesOK, SweepsOK, ChainOK, HistoryOK
<1>3. \A i \in DOMAIN sent' : pc'[sent'[i]] \notin {"idle", "send"}
  <2>1. \A i \in DOMAIN sent : sent[i] \in Batch
    BY DEF IInv, TypeOK, ChainOK
  <2> QED  BY <1>0, <1>1, <2>1 DEF IInv, Unsent
<1>4. SettledIsRecorded'
  BY <1>0 DEF IInv, SettledIsRecorded
<1>5. ReceiptsTrue'
  <2>1. pc'[b] = "settle" => receipt'[b] > 0 /\ <<b, receipt'[b]>> \in included
    BY <1>1 DEF IInv, ReceiptsTrue, Included
  <2> QED  BY <1>0, <1>1, <2>1 DEF IInv, ReceiptsTrue, Included
<1> QED  BY <1>0, <1>1, <1>2, <1>3, <1>4, <1>5, BatchFrame DEF sweeps, Runs

\* UPDATE trades: what the batch moved has its rows and has succeeded, the
\* rest of the request is recorded for others.
LEMMA MarkSettledStep ==
  ASSUME IInv, NEW b \in Batch, MarkSettled(b)
  PROVE  IInv'
<1>0. /\ pc[b] = "settle"
      /\ settled' = settled \cup ids[b]
      /\ pc' = [pc EXCEPT ![b] = "confirm"]
      /\ UNCHANGED <<settlements, ids, moving, receipt, at, todo, row, sent, block,
                     success, head, included, undone, unswept, reorgs, failures>>
  BY DEF MarkSettled, sweeps, chain, history
<1>1. pc'[b] = "confirm" /\ \A c \in Batch : c # b => pc'[c] = pc[c]
  BY <1>0 DEF IInv, TypeOK, BatchesOK
<1>2. TypeOK'
  <2>1. BatchesOK' /\ ids[b] \subseteq Trade
    BY <1>0 DEF IInv, TypeOK, BatchesOK, Runs
  <2> QED  BY <1>0, <2>1 DEF IInv, TypeOK, DatabaseOK, SweepsOK, ChainOK, HistoryOK
<1>3. \A i \in DOMAIN sent' : pc'[sent'[i]] \notin {"idle", "send"}
  <2>1. \A i \in DOMAIN sent : sent[i] \in Batch
    BY DEF IInv, TypeOK, ChainOK
  <2> QED  BY <1>0, <1>1, <2>1 DEF IInv, Unsent
<1>4. SettledIsRecorded'
  <2>1. ASSUME NEW t \in moving[b]  PROVE Recorded(t)
    <3>1. t \in ids[b]
      BY DEF IInv, TypeOK, BatchesOK
    <3>2. PICK r \in settlements : r.trade = t /\ r.tx = b
      BY <1>0, <3>1 DEF IInv, RowsOfRequest
    <3>3. Succeeded(b)
      BY <1>0 DEF IInv, ReceiptsTrue, Succeeded
    <3> QED  BY <3>2, <3>3 DEF Recorded, Rests
  <2>2. \A t \in ids[b] \ moving[b] : Recorded(t)
    BY <1>0 DEF IInv, OthersRecorded, Runs
  <2>3. \A t \in settled : Recorded(t)
    BY SettledAreRecorded DEF IInv
  <2>4. \A t \in settled' : Recorded(t)
    BY <1>0, <2>1, <2>2, <2>3
  <2> QED  BY <1>0, <2>4 DEF SettledIsRecorded, Recorded, Rests, Succeeded
<1>5. ReceiptsTrue'
  BY <1>0, <1>1 DEF IInv, ReceiptsTrue, Included
<1> QED  BY <1>0, <1>1, <1>2, <1>3, <1>4, <1>5, BatchFrame DEF sweeps, Runs

LEMMA InsertPendingStep ==
  ASSUME IInv, NEW b \in Batch, InsertPending(b)
  PROVE  IInv'
<1> DEFINE New == [trade : ids[b], tx : {b}, status : {"PENDING"}, block : {0}]
<1>0. /\ pc[b] = "insert"
      /\ settlements' = settlements \cup New
      /\ pc' = [pc EXCEPT ![b] = "wait"]
      /\ UNCHANGED <<settled, ids, moving, receipt, at, todo, row, sent, block,
                     success, head, included, undone, unswept, reorgs, failures>>
  BY DEF InsertPending, sweeps, chain, history
<1>1. pc'[b] = "wait" /\ \A c \in Batch : c # b => pc'[c] = pc[c]
  BY <1>0 DEF IInv, TypeOK, BatchesOK
<1>2. \A r \in New : /\ r.trade \in ids[b] /\ r.tx = b
                     /\ r.status = "PENDING" /\ r.block = 0
  OBVIOUS
<1>3. \A t \in ids[b] : \E r \in New : r.trade = t /\ r.tx = b
  <2>1. ASSUME NEW t \in ids[b]  PROVE \E r \in New : r.trade = t /\ r.tx = b
    <3>1. [trade |-> t, tx |-> b, status |-> "PENDING", block |-> 0] \in New
      OBVIOUS
    <3> QED  BY <3>1
  <2> QED  BY <2>1
<1>4. New \subseteq Row
  <2>1. ids[b] \subseteq Trade
    BY DEF IInv, TypeOK, BatchesOK
  <2> QED  BY <2>1 DEF Row, Status
<1> HIDE DEF New
<1>5. TypeOK'
  <2>1. DatabaseOK'
    BY <1>0, <1>2, <1>4 DEF IInv, TypeOK, DatabaseOK
  <2>2. BatchesOK'
    BY <1>0 DEF IInv, TypeOK, BatchesOK, Runs
  <2> QED  BY <1>0, <2>1, <2>2 DEF IInv, TypeOK, SweepsOK, ChainOK, HistoryOK
<1>6. PaidOnce'
  BY <1>0 DEF IInv, PaidOnce, Included
<1>7. \A t : Recorded(t) => Recorded(t)'
  BY <1>0 DEF Recorded, Rests, Succeeded
<1>8. SettledIsRecorded'
  <2>1. \A t \in settled' : Recorded(t)'
    BY <1>0, <1>7, SettledAreRecorded DEF IInv
  <2> QED  BY <2>1 DEF SettledIsRecorded, Recorded, Rests, Succeeded
<1>9. ConfirmedWasIncluded'
  BY <1>0, <1>2 DEF IInv, ConfirmedWasIncluded
<1>10. Unsent'
  <2>1. \A c \in Batch : pc'[c] \in {"idle", "send"} => pc[c] = pc'[c] /\ c # b
    BY <1>1
  <2>2. \A i \in DOMAIN sent : sent[i] \in Batch
    BY DEF IInv, TypeOK, ChainOK
  <2>3. \A i \in DOMAIN sent' : pc'[sent'[i]] \notin {"idle", "send"}
    BY <1>0, <1>1, <2>2 DEF IInv, Unsent
  <2> QED  BY <1>0, <1>2, <2>1, <2>3 DEF IInv, Unsent, Succeeded
<1>11. RowsOfRequest'
  BY <1>0, <1>1, <1>2, <1>3 DEF IInv, RowsOfRequest
<1>12. ReceiptsTrue'
  BY <1>0, <1>1 DEF IInv, ReceiptsTrue, Included
<1>13. OthersRecorded'
  BY <1>0, <1>1, <1>7 DEF IInv, OthersRecorded, Runs
<1>14. LeftUndone' /\ SweepsTrue'
  BY <1>0 DEF IInv, LeftUndone, SweepsTrue, Succeeded
<1> QED
  BY <1>5, <1>6, <1>8, <1>9, <1>10, <1>11, <1>12, <1>13, <1>14 DEF IInv

-----------------------------------------------------------------------------
(* The chain.                                                              *)

\* A step of the chain only adds to included and to undone; it keeps the
\* promises about rows, requests and sweeps.
LEMMA ChainFrame ==
  ASSUME IInv, TypeOK', PaidOnce', Unsent', LeftUndone',
         \A c \in Batch : Included(c)' => <<c, block'[c]>> \in included',
         UNCHANGED <<database, batches, sweeps>>,
         included \subseteq included', undone \subseteq undone'
  PROVE  IInv'
<1>0. UNCHANGED <<settled, settlements, pc, ids, moving, receipt, at, todo, row>>
  BY DEF database, batches, sweeps
<1>1. \A c : Succeeded(c) => Succeeded(c)'
  BY DEF Succeeded
<1>2. \A t : Recorded(t) => Recorded(t)'
  BY <1>0, <1>1 DEF Recorded, Rests
<1>3. SettledIsRecorded'
  <2>1. \A t \in settled' : Recorded(t)'
    BY <1>0, <1>2, SettledAreRecorded DEF IInv
  <2> QED  BY <2>1 DEF SettledIsRecorded, Recorded, Rests, Succeeded
<1>4. ConfirmedWasIncluded'
  BY <1>0 DEF IInv, ConfirmedWasIncluded
<1>5. RowsOfRequest'
  BY <1>0 DEF IInv, RowsOfRequest
<1>6. ReceiptsTrue'
  BY <1>0 DEF IInv, ReceiptsTrue
<1>7. OthersRecorded'
  BY <1>0, <1>2 DEF IInv, OthersRecorded, Runs
<1>8. SweepsTrue'
  BY <1>0, <1>1 DEF IInv, SweepsTrue
<1> QED  BY <1>3, <1>4, <1>5, <1>6, <1>7, <1>8 DEF IInv

\* A transaction that succeeds moves trades that none on the chain has moved.
LEMMA IncludeStep ==
  ASSUME IInv, NEW b \in Batch, Include(b)
  PROVE  IInv'
<1>0. /\ block[b] = 0
      /\ \E i \in DOMAIN sent : sent[i] = b
      /\ head' = head + 1
      /\ block' = [block EXCEPT ![b] = head + 1]
      /\ UNCHANGED <<database, batches, sweeps, sent, undone, unswept, reorgs, failures>>
      /\ moving' = moving /\ pc' = pc /\ settlements' = settlements
  BY DEF Include, history, batches, database
<1>1. PICK ok \in BOOLEAN :
        /\ ok => Fresh(b)
        /\ success' = [success EXCEPT ![b] = ok]
        /\ included' = IF ok THEN included \cup {<<b, head + 1>>} ELSE included
  BY DEF Include
<1>2. ChainOK
  BY DEF IInv, TypeOK
<1>3. /\ block'[b] = head + 1 /\ success'[b] = ok
      /\ \A c \in Batch : c # b => block'[c] = block[c] /\ success'[c] = success[c]
  BY <1>0, <1>1, <1>2 DEF ChainOK
<1>4. /\ included \subseteq included'
      /\ \A p \in included' : p \in included \/ (ok /\ p = <<b, head + 1>>)
  BY <1>1
<1>5. TypeOK'
  <2>1. ChainOK'
    <3>1. block' \in [Batch -> 0..head']
      BY <1>0, <1>2 DEF ChainOK
    <3>2. included' \subseteq Batch \X Nat
      BY <1>2, <1>4 DEF ChainOK
    <3> QED  BY <1>0, <1>1, <1>2, <3>1, <3>2 DEF ChainOK
  <2> QED
    BY <1>0, <2>1 DEF IInv, TypeOK, DatabaseOK, BatchesOK, SweepsOK, HistoryOK,
                      database, batches, sweeps
<1>6. PaidOnce'
  <2>1. ASSUME NEW c \in Batch, c # b, Included(c), ok
        PROVE  moving[b] \cap moving[c] = {}
    <3>1. moving[c] \subseteq Moved
      BY <2>1 DEF Moved
    <3> QED  BY <1>1, <2>1, <3>1 DEF Fresh
  <2>2. \A c \in Batch : c # b => (Included(c)' <=> Included(c))
    BY <1>3 DEF Included
  <2>3. Included(b)' => ok
    BY <1>3 DEF Included
  <2> QED  BY <1>0, <2>1, <2>2, <2>3 DEF IInv, PaidOnce
<1>7. Unsent'
  <2>1. pc[b] \notin {"idle", "send"}
    BY <1>0 DEF IInv, Unsent
  <2>2. \A c \in Batch : c # b => (Succeeded(c)' <=> Succeeded(c))
    BY <1>1 DEF Succeeded
  <2> QED  BY <1>0, <1>3, <2>1, <2>2 DEF IInv, Unsent
<1>8. LeftUndone'
  <2>1. block'[b] # 0
    BY <1>2, <1>3 DEF ChainOK
  <2>2. \A c \in Batch : c # b => (Succeeded(c)' <=> Succeeded(c))
    BY <1>1 DEF Succeeded
  <2> QED  BY <1>0, <1>3, <2>1, <2>2 DEF IInv, LeftUndone
<1>9. \A c \in Batch : Included(c)' => <<c, block'[c]>> \in included'
  <2>1. Included(b)' => <<b, block'[b]>> \in included'
    BY <1>1, <1>3 DEF Included
  <2>2. \A c \in Batch : c # b /\ Included(c)' => <<c, block'[c]>> \in included'
    BY <1>3, <1>4 DEF IInv, ReceiptsTrue, Included
  <2> QED  BY <2>1, <2>2
<1> QED  BY <1>0, <1>4, <1>5, <1>6, <1>7, <1>8, <1>9, ChainFrame

LEMMA OtherBlockStep ==
  ASSUME IInv, OtherBlock
  PROVE  IInv'
<1>0. /\ head' = head + 1
      /\ UNCHANGED <<database, batches, sweeps, sent, block, success, included, undone,
                     unswept, reorgs, failures>>
      /\ UNCHANGED <<moving, pc, settlements>>
  BY DEF OtherBlock, history, batches, database
<1>1. TypeOK'
  <2>1. ChainOK'
    BY <1>0 DEF IInv, TypeOK, ChainOK
  <2> QED
    BY <1>0, <2>1 DEF IInv, TypeOK, DatabaseOK, BatchesOK, SweepsOK, HistoryOK,
                      database, batches, sweeps
<1>2. PaidOnce'
  BY <1>0 DEF IInv, PaidOnce, Included
<1>3. Unsent'
  BY <1>0 DEF IInv, Unsent, Succeeded
<1>4. LeftUndone'
  BY <1>0 DEF IInv, LeftUndone, Succeeded
<1>5. \A c \in Batch : Included(c)' => <<c, block'[c]>> \in included'
  BY <1>0 DEF IInv, ReceiptsTrue, Included
<1> QED  BY <1>0, <1>1, <1>2, <1>3, <1>4, <1>5, ChainFrame

\* Transactions only leave the chain, and every one that does is in undone.
LEMMA ReorganiseStep ==
  ASSUME IInv, NEW n \in 1..head, Reorganise(n)
  PROVE  IInv'
<1>0. /\ head' = n - 1
      /\ block' = [b \in Batch |-> IF block[b] >= n THEN 0 ELSE block[b]]
      /\ undone' = undone \cup {b \in Batch : block[b] >= n}
      /\ unswept' = unswept \cup {n}
      /\ reorgs < MaxReorgs /\ reorgs' = reorgs + 1
      /\ UNCHANGED <<database, batches, sweeps, sent, success, included, failures>>
      /\ UNCHANGED <<moving, pc, settlements>>
  BY DEF Reorganise, batches, database
<1>1. head \in Nat /\ n \in Nat \ {0} /\ block \in [Batch -> 0..head]
  BY DEF IInv, TypeOK, ChainOK
<1>2. TypeOK'
  <2>1. ChainOK'
    <3>1. \A b \in Batch : block[b] \in Nat
      BY <1>1
    <3>2. block' \in [Batch -> 0..head']
      BY <1>0, <1>1, <3>1
    <3> QED  BY <1>0, <1>1, <3>2 DEF IInv, TypeOK, ChainOK
  <2>2. HistoryOK'
    BY <1>0, <1>1, BoundsAssumption DEF IInv, TypeOK, HistoryOK
  <2> QED
    BY <1>0, <2>1, <2>2 DEF IInv, TypeOK, DatabaseOK, BatchesOK, SweepsOK,
                            database, batches, sweeps
<1>3. \A b \in Batch : Included(b)' => Included(b) /\ block'[b] = block[b]
  BY <1>0, <1>1 DEF Included
<1>4. PaidOnce'
  BY <1>0, <1>3 DEF IInv, PaidOnce
<1>5. Unsent'
  <2>1. \A b \in Batch : block[b] = 0 => block'[b] = 0 /\ ~(block[b] >= n)
    BY <1>0, <1>1
  <2> QED  BY <1>0, <2>1 DEF IInv, Unsent, Succeeded
<1>6. LeftUndone'
  <2>1. \A b \in Batch : block'[b] = 0 => block[b] = 0 \/ block[b] >= n
    BY <1>0, <1>1
  <2> QED  BY <1>0, <2>1 DEF IInv, LeftUndone, Succeeded
<1>7. \A b \in Batch : Included(b)' => <<b, block'[b]>> \in included'
  BY <1>0, <1>3 DEF IInv, ReceiptsTrue
<1> QED  BY <1>0, <1>2, <1>4, <1>5, <1>6, <1>7, ChainFrame

-----------------------------------------------------------------------------
(* All steps.                                                              *)

LEMMA NextInv == IInv /\ [Next]_vars => IInv'
<1> SUFFICES ASSUME IInv, [Next]_vars PROVE IInv'
  OBVIOUS
<1>1. ASSUME NEW b \in Batch,
             \/ \E requested \in SUBSET Trade : Settle(b, requested)
             \/ ServeBatch(b) \/ FailBatch(b)
      PROVE  IInv'
  BY <1>1, SettleStep, SendStep, EndsStep, InsertPendingStep, WaitStep, MarkSettledStep,
     MarkConfirmedStep DEF ServeBatch
<1>2. ASSUME NEW s \in Sweep,
             \/ \E n \in 1..(head + 1) : StartSweep(s, n)
             \/ ServeSweep(s) \/ SkipRow(s) \/ FailSweep(s)
      PROVE  IInv'
  BY <1>2, StartSweepStep, CheckStep, UnsettleStep, MarkReorgedStep, SweepMovesOn
  DEF ServeSweep
<1>3. CASE Chain
  BY <1>3, IncludeStep, OtherBlockStep, ReorganiseStep DEF Chain
<1>4. CASE UNCHANGED vars
  <2>1. UNCHANGED <<database, batches, sweeps, chain, history>>
    BY <1>4 DEF vars
  <2>2. SweepsOK' /\ HistoryOK'
    BY <2>1 DEF IInv, TypeOK, SweepsOK, HistoryOK, sweeps, history
  <2>3. SweepsTrue'
    BY <2>1 DEF IInv, SweepsTrue, Succeeded, sweeps, batches, chain, history
  <2> QED  BY <2>1, <2>2, <2>3, SweepFrame DEF history
<1> QED  BY <1>1, <1>2, <1>3, <1>4 DEF Next

-----------------------------------------------------------------------------
(* The losses.  MovedIsMarked is not inductive: a batch fails between its  *)
(* transaction and its UPDATE, and is forgotten only when a later block    *)
(* includes the transaction.  So a batch counts as lost from the moment it *)
(* ends, while its transaction may still succeed.                          *)

WasSent(b) == \E i \in DOMAIN sent : sent[i] = b

\* A reorganisation is behind whatever the database says of t.
Taken(t) == \E c \in undone : t \in ids[c]

Lost(b) ==
  /\ pc[b] = "done" /\ WasSent(b)
  /\ block[b] = 0 \/ success[b]
  /\ \E t \in moving[b] \ settled : ~Taken(t)
LostBatches == {b \in Batch : Lost(b)}

OnChainWasSent == \A b \in Batch : block[b] > 0 => WasSent(b)

\* After its first UPDATE a batch has no more to lose.
MarkedBefore ==
  \A b \in Batch : pc[b] = "confirm" => \A t \in moving[b] \ settled : Taken(t)

LostByFailure == IsFiniteSet(LostBatches) /\ Cardinality(LostBatches) <= failures

LossesCounted == OnChainWasSent /\ MarkedBefore /\ LostByFailure

LEMMA LossesInit == Init => LossesCounted
<1> SUFFICES ASSUME Init PROVE LossesCounted
  OBVIOUS
<1>1. OnChainWasSent /\ MarkedBefore
  BY DEF Init, OnChainWasSent, MarkedBefore
<1>2. LostBatches = {}
  BY DEF Init, LostBatches, Lost
<1>3. failures = 0
  BY DEF Init
<1> QED  BY <1>1, <1>2, <1>3, FS_EmptySet DEF LossesCounted, LostByFailure

\* Fewer batches are lost, or none more.
LEMMA NoneMoreLost ==
  ASSUME LostByFailure, failures \in Nat, failures' \in Nat, failures <= failures',
         \A c \in Batch : Lost(c)' => Lost(c)
  PROVE  LostByFailure'
<1>1. LostBatches' \subseteq LostBatches
  BY DEF LostBatches
<1>2. IsFiniteSet(LostBatches') /\ Cardinality(LostBatches') <= Cardinality(LostBatches)
  BY <1>1, FS_Subset DEF LostByFailure
<1>3. Cardinality(LostBatches) \in Nat /\ Cardinality(LostBatches') \in Nat
  BY <1>2, FS_CardinalityType DEF LostByFailure
<1> QED  BY <1>2, <1>3 DEF LostByFailure

\* What a reorganisation took stays taken: a request of a batch that was sent
\* does not change.
LEMMA TakenStays ==
  ASSUME IInv, [Next]_vars, NEW t, Taken(t)
  PROVE  Taken(t)'
<1>1. PICK c \in undone : t \in ids[c]
  BY DEF Taken
<1>2. undone \subseteq undone'
  BY DEF Next, ServeBatch, ServeSweep, Chain, Settle, Send, Refused, InsertPending,
         Wait, MarkSettled, MarkConfirmed, FailBatch, StartSweep, Check, Unsettle,
         MarkReorged, EndSweep, SkipRow, FailSweep, OtherBlock, Include,
         Reorganise, history, vars
<1>3. ids' = ids \/ \E b \in Batch : \E requested \in SUBSET Trade : Settle(b, requested)
  BY DEF Next, ServeBatch, ServeSweep, Chain, Send, Refused, InsertPending,
         Wait, MarkSettled, MarkConfirmed, FailBatch, StartSweep, Check, Unsettle,
         MarkReorged, EndSweep, SkipRow, FailSweep, OtherBlock, Include,
         Reorganise, batches, vars
<1>4. ASSUME NEW b \in Batch, NEW requested \in SUBSET Trade, Settle(b, requested)
      PROVE  ids'[c] = ids[c]
  <2>1. c # b /\ c \in Batch
    BY <1>4 DEF Settle, IInv, Unsent, TypeOK, HistoryOK
  <2> QED  BY <1>4, <2>1 DEF Settle, IInv, TypeOK, BatchesOK
<1>5. ids'[c] = ids[c]
  BY <1>3, <1>4
<1> QED  BY <1>1, <1>2, <1>5 DEF Taken

\* A mark is only taken back when a reorganisation is behind it.
LEMMA UnmarkedIsTaken ==
  ASSUME IInv, [Next]_vars, NEW t \in settled \ settled'
  PROVE  Taken(t)
<1>1. ASSUME NEW s \in Sweep, Unsettle(s)  PROVE Taken(t)
  BY <1>1 DEF Unsettle, IInv, SweepsTrue, Taken
<1>2. (\E s \in Sweep : Unsettle(s)) \/ settled \subseteq settled'
  BY DEF Next, ServeBatch, ServeSweep, Chain, Settle, Send, Refused, InsertPending,
         Wait, MarkSettled, MarkConfirmed, FailBatch, StartSweep, Check,
         MarkReorged, EndSweep, SkipRow, FailSweep, OtherBlock, Include,
         Reorganise, database, vars
<1> QED  BY <1>1, <1>2

\* A step that neither settles new trades nor ends a batch that was sent
\* leaves no batch more to lose: what is unmarked after it was so before, or
\* was taken.
LEMMA LossesStay ==
  ASSUME IInv, IInv', LossesCounted, [Next]_vars, failures <= failures',
         UNCHANGED <<moving, sent>>,
         \A c \in Batch : block'[c] > 0 => block[c] > 0 \/ WasSent(c),
         \A c \in Batch : pc'[c] = "confirm" => pc[c] = "confirm",
         \A c \in Batch : Lost(c)' =>
           \/ pc[c] = "done" /\ (block[c] = 0 \/ success[c])
           \/ pc[c] = "confirm"
  PROVE  LossesCounted'
<1>1. OnChainWasSent'
  BY DEF LossesCounted, OnChainWasSent, WasSent
<1>2. ASSUME NEW t, t \notin settled', ~Taken(t)'
      PROVE  t \notin settled /\ ~Taken(t)
  BY <1>2, TakenStays, UnmarkedIsTaken
<1>3. MarkedBefore'
  BY <1>2 DEF LossesCounted, MarkedBefore
<1>4. ASSUME NEW c \in Batch, Lost(c)'  PROVE Lost(c)
  <2>1. PICK t \in moving[c] : t \notin settled' /\ ~Taken(t)'
    BY <1>4 DEF Lost
  <2>2. t \in moving[c] \ settled /\ ~Taken(t)
    BY <1>2, <2>1
  <2>3. pc[c] # "confirm"
    BY <2>2 DEF LossesCounted, MarkedBefore
  <2>4. WasSent(c)
    BY <1>4 DEF Lost, WasSent
  <2> QED  BY <1>4, <2>2, <2>3, <2>4 DEF Lost
<1>5. failures \in Nat /\ failures' \in Nat
  BY BoundsAssumption DEF IInv, TypeOK, HistoryOK
<1> QED  BY <1>1, <1>3, <1>4, <1>5, NoneMoreLost DEF LossesCounted

LEMMA SweepLosses ==
  ASSUME IInv, IInv', LossesCounted, [Next]_vars, NEW s \in Sweep,
         \/ \E n \in 1..(head + 1) : StartSweep(s, n)
         \/ ServeSweep(s) \/ SkipRow(s) \/ FailSweep(s)
  PROVE  LossesCounted'
<1>1. UNCHANGED <<pc, moving, sent, block, success>>
  BY DEF ServeSweep, StartSweep, Check, Unsettle, MarkReorged, EndSweep, SkipRow,
         FailSweep, batches, chain
<1>2. failures' = failures \/ failures' = failures + 1
  BY DEF ServeSweep, StartSweep, Check, Unsettle, MarkReorged, EndSweep, SkipRow,
         FailSweep, history
<1>3. failures <= failures'
  BY <1>2, BoundsAssumption DEF IInv, TypeOK, HistoryOK
<1> QED  BY <1>1, <1>3, LossesStay DEF Lost

LEMMA ChainLosses ==
  ASSUME IInv, IInv', LossesCounted, [Next]_vars, Chain
  PROVE  LossesCounted'
<1>1. UNCHANGED <<pc, moving, ids, sent, failures>>
  BY DEF Chain, OtherBlock, Include, Reorganise, batches, history
<1>2. failures <= failures'
  BY <1>1, BoundsAssumption DEF IInv, TypeOK, HistoryOK
<1>3. /\ block \in [Batch -> Nat] /\ block' \in [Batch -> Nat]
      /\ success \in [Batch -> BOOLEAN]
      /\ \A b \in Batch : moving[b] \subseteq ids[b]
  BY DEF IInv, TypeOK, ChainOK, BatchesOK
<1>4. CASE OtherBlock
  BY <1>1, <1>2, <1>4, LossesStay DEF OtherBlock, Lost
<1>5. ASSUME NEW b \in Batch, Include(b)  PROVE LossesCounted'
  <2>1. WasSent(b) /\ block[b] = 0
    BY <1>5 DEF Include, WasSent
  <2>2. \A c \in Batch : c # b => block'[c] = block[c] /\ success'[c] = success[c]
    BY <1>3, <1>5 DEF Include
  <2> QED  BY <1>1, <1>2, <2>1, <2>2, LossesStay DEF Lost
<1>6. ASSUME NEW n \in 1..head, Reorganise(n)  PROVE LossesCounted'
  <2>1. n \in Nat \ {0}
    BY DEF IInv, TypeOK, ChainOK
  <2>2. ASSUME NEW c \in Batch, block[c] >= n  PROVE ~Lost(c)'
    <3>1. c \in undone'
      BY <1>6, <2>2 DEF Reorganise
    <3>2. \A t \in moving[c] : Taken(t)'
      BY <1>1, <1>3, <3>1 DEF Taken
    <3> QED  BY <1>1, <3>2 DEF Lost
  <2>3. \A c \in Batch : ~(block[c] >= n) =>
          block'[c] = block[c] /\ success'[c] = success[c]
    BY <1>6 DEF Reorganise
  <2>4. \A c \in Batch : block'[c] > 0 => block[c] > 0
    BY <1>3, <1>6, <2>1 DEF Reorganise
  <2>5. \A c \in Batch : Lost(c)' => pc[c] = "done" /\ (block[c] = 0 \/ success[c])
    BY <1>1, <2>2, <2>3 DEF Lost
  <2> QED  BY <1>1, <1>2, <2>4, <2>5, LossesStay
<1> QED  BY <1>4, <1>5, <1>6 DEF Chain

\* The query and the transaction: nothing is sent yet, or nothing has ended.
LEMMA SettleLosses ==
  ASSUME IInv, IInv', LossesCounted, [Next]_vars,
         NEW b \in Batch, NEW requested \in SUBSET Trade, Settle(b, requested)
  PROVE  LossesCounted'
<1>1. /\ UNCHANGED <<settled, sent, block, success, failures>>
      /\ pc[b] = "idle" /\ pc'[b] \in {"done", "send"}
      /\ \A c \in Batch : c # b => pc'[c] = pc[c] /\ moving'[c] = moving[c]
  BY DEF Settle, database, chain, history, IInv, TypeOK, BatchesOK
<1>2. ~WasSent(b)
  BY <1>1 DEF IInv, Unsent, WasSent
<1>3. \A c \in Batch : Lost(c)' => Lost(c)
  BY <1>1, <1>2, TakenStays DEF Lost, WasSent
<1>4. OnChainWasSent'
  BY <1>1 DEF LossesCounted, OnChainWasSent, WasSent
<1>5. MarkedBefore'
  BY <1>1, TakenStays DEF LossesCounted, MarkedBefore
<1>6. failures \in Nat /\ failures' \in Nat /\ failures <= failures'
  BY <1>1, BoundsAssumption DEF IInv, TypeOK, HistoryOK
<1> QED  BY <1>3, <1>4, <1>5, <1>6, NoneMoreLost DEF LossesCounted

LEMMA SendLosses ==
  ASSUME IInv, IInv', LossesCounted, [Next]_vars, NEW b \in Batch, Send(b)
  PROVE  LossesCounted'
<1>1. /\ UNCHANGED <<settled, moving, block, success, failures>>
      /\ pc'[b] = "insert"
      /\ \A c \in Batch : c # b => pc'[c] = pc[c]
  BY DEF Send, database, history, IInv, TypeOK, BatchesOK
<1>2. ASSUME NEW c \in Batch
      PROVE  /\ WasSent(c) => WasSent(c)'
             /\ c # b /\ WasSent(c)' => WasSent(c)
  <2>1. sent \in Seq(Batch) /\ sent' = Append(sent, b)
    BY DEF Send, IInv, TypeOK, ChainOK
  <2> QED  BY <2>1 DEF WasSent
<1>3. \A c \in Batch : Lost(c)' => Lost(c)
  BY <1>1, <1>2, TakenStays DEF Lost
<1>4. OnChainWasSent'
  BY <1>1, <1>2 DEF LossesCounted, OnChainWasSent
<1>5. MarkedBefore'
  BY <1>1, TakenStays DEF LossesCounted, MarkedBefore
<1>6. failures \in Nat /\ failures' \in Nat /\ failures <= failures'
  BY <1>1, BoundsAssumption DEF IInv, TypeOK, HistoryOK
<1> QED  BY <1>3, <1>4, <1>5, <1>6, NoneMoreLost DEF LossesCounted

\* A batch that goes on, is refused before it sends, or finds its transaction
\* reverted.
LEMMA ServeLosses ==
  ASSUME IInv, IInv', LossesCounted, [Next]_vars, NEW b \in Batch,
         Refused(b) \/ InsertPending(b) \/ Wait(b) \/ MarkConfirmed(b)
  PROVE  LossesCounted'
<1>1. UNCHANGED <<moving, sent, block, success, failures>>
  BY DEF Refused, InsertPending, Wait, MarkConfirmed, chain, history
<1>2. /\ pc'[b] # "confirm"
      /\ \A c \in Batch : c # b => pc'[c] = pc[c]
  BY DEF Refused, InsertPending, Wait, MarkConfirmed, IInv, TypeOK, BatchesOK
<1>3. Lost(b)' => pc[b] = "confirm"
  <2>1. CASE Refused(b)
    BY <1>1, <2>1 DEF Refused, IInv, Unsent, Lost, WasSent
  <2>2. CASE InsertPending(b)
    BY <2>2 DEF InsertPending, IInv, TypeOK, BatchesOK, Lost
  <2>3. CASE Wait(b)
    BY <1>1, <2>3 DEF Wait, Reverted, IInv, TypeOK, BatchesOK, ChainOK, Lost
  <2>4. CASE MarkConfirmed(b)
    BY <2>4 DEF MarkConfirmed
  <2> QED  BY <2>1, <2>2, <2>3, <2>4
<1>4. failures <= failures'
  BY <1>1, BoundsAssumption DEF IInv, TypeOK, HistoryOK
<1>5. \A c \in Batch : Lost(c)' =>
        \/ pc[c] = "done" /\ (block[c] = 0 \/ success[c])
        \/ pc[c] = "confirm"
  BY <1>1, <1>2, <1>3 DEF Lost
<1> QED  BY <1>1, <1>2, <1>4, <1>5, LossesStay

\* After the first UPDATE all that the batch moved is marked.
LEMMA MarkSettledLosses ==
  ASSUME IInv, IInv', LossesCounted, [Next]_vars, NEW b \in Batch, MarkSettled(b)
  PROVE  LossesCounted'
<1>1. /\ UNCHANGED <<moving, sent, block, success, failures>>
      /\ settled' = settled \cup ids[b]
      /\ pc'[b] = "confirm"
      /\ \A c \in Batch : c # b => pc'[c] = pc[c]
  BY DEF MarkSettled, chain, history, IInv, TypeOK, BatchesOK
<1>2. moving[b] \subseteq settled'
  BY <1>1 DEF IInv, TypeOK, BatchesOK
<1>3. \A c \in Batch : Lost(c)' => Lost(c)
  BY <1>1, TakenStays DEF Lost, WasSent
<1>4. OnChainWasSent'
  BY <1>1 DEF LossesCounted, OnChainWasSent, WasSent
<1>5. MarkedBefore'
  BY <1>1, <1>2, TakenStays DEF LossesCounted, MarkedBefore
<1>6. failures \in Nat /\ failures' \in Nat /\ failures <= failures'
  BY <1>1, BoundsAssumption DEF IInv, TypeOK, HistoryOK
<1> QED  BY <1>3, <1>4, <1>5, <1>6, NoneMoreLost DEF LossesCounted

\* A failure loses its own batch and no other.
LEMMA FailureLosses ==
  ASSUME IInv, IInv', LossesCounted, [Next]_vars, NEW b \in Batch, FailBatch(b)
  PROVE  LossesCounted'
<1>1. /\ UNCHANGED <<settled, moving, sent, block, success>>
      /\ failures' = failures + 1
      /\ pc'[b] = "done"
      /\ \A c \in Batch : c # b => pc'[c] = pc[c]
  BY DEF FailBatch, database, chain, IInv, TypeOK, BatchesOK
<1>2. LostBatches' \subseteq LostBatches \cup {b}
  BY <1>1, TakenStays DEF LostBatches, Lost, WasSent
<1>3. IsFiniteSet(LostBatches) /\ Cardinality(LostBatches) <= failures
  BY DEF LossesCounted, LostByFailure
<1>4. /\ IsFiniteSet(LostBatches \cup {b})
      /\ Cardinality(LostBatches) \in Nat
      /\ Cardinality(LostBatches \cup {b}) <= Cardinality(LostBatches) + 1
  <2>1. Cardinality(LostBatches) \in Nat
    BY <1>3, FS_CardinalityType
  <2>2. /\ IsFiniteSet(LostBatches \cup {b})
        /\ Cardinality(LostBatches \cup {b}) =
             IF b \in LostBatches THEN Cardinality(LostBatches)
                                  ELSE Cardinality(LostBatches) + 1
    BY <1>3, FS_AddElement
  <2> QED  BY <2>1, <2>2
<1>5. IsFiniteSet(LostBatches') /\ Cardinality(LostBatches') <= Cardinality(LostBatches \cup {b})
  BY <1>2, <1>4, FS_Subset
<1>6. Cardinality(LostBatches') \in Nat /\ Cardinality(LostBatches \cup {b}) \in Nat
  BY <1>4, <1>5, FS_CardinalityType
<1>7. failures \in Nat
  BY BoundsAssumption DEF IInv, TypeOK, HistoryOK
<1>8. LostByFailure'
  BY <1>1, <1>3, <1>4, <1>5, <1>6, <1>7 DEF LostByFailure
<1>9. OnChainWasSent'
  BY <1>1 DEF LossesCounted, OnChainWasSent, WasSent
<1>10. MarkedBefore'
  BY <1>1, TakenStays DEF LossesCounted, MarkedBefore
<1> QED  BY <1>8, <1>9, <1>10 DEF LossesCounted

LEMMA LossesNext == IInv /\ IInv' /\ LossesCounted /\ [Next]_vars => LossesCounted'
<1> SUFFICES ASSUME IInv, IInv', LossesCounted, [Next]_vars PROVE LossesCounted'
  OBVIOUS
<1>1. ASSUME NEW b \in Batch,
             \/ \E requested \in SUBSET Trade : Settle(b, requested)
             \/ ServeBatch(b) \/ FailBatch(b)
      PROVE  LossesCounted'
  BY <1>1, SettleLosses, SendLosses, ServeLosses, MarkSettledLosses, FailureLosses
  DEF ServeBatch
<1>2. ASSUME NEW s \in Sweep,
             \/ \E n \in 1..(head + 1) : StartSweep(s, n)
             \/ ServeSweep(s) \/ SkipRow(s) \/ FailSweep(s)
      PROVE  LossesCounted'
  BY <1>2, SweepLosses
<1>3. CASE Chain
  BY <1>3, ChainLosses
<1>4. CASE UNCHANGED vars
  <2>1. UNCHANGED <<pc, moving, sent, block, success, failures>>
    BY <1>4 DEF vars, batches, chain, history
  <2>2. failures <= failures'
    BY <2>1, BoundsAssumption DEF IInv, TypeOK, HistoryOK
  <2> QED  BY <2>1, <2>2, LossesStay DEF Lost
<1> QED  BY <1>1, <1>2, <1>3, <1>4 DEF Next

-----------------------------------------------------------------------------
(* The theorems.                                                           *)

\* The invariants of the run hold together, for any trades, batches, sweeps
\* and bounds.
THEOREM SettlementInvariance == Spec => []IInv
BY InitInv, NextInv, PTL DEF Spec

\* Every variable keeps its type, and a CONFIRMED row always has its block.
THEOREM SettlementTypeCorrect == Spec => []TypeOK
<1>1. IInv => TypeOK
  BY DEF IInv
<1> QED  BY <1>1, SettlementInvariance, PTL

\* No trade is moved by two transactions of the chain: settledTrades of the
\* contract holds against batches that overlap, retries and reorganisations.
THEOREM NoTradePaidTwice == Spec => []PaidOnce
<1>1. IInv => PaidOnce
  BY DEF IInv
<1> QED  BY <1>1, SettlementInvariance, PTL

\* A trade that the database calls settled was moved by a transaction that
\* settlements names for it.
THEOREM SettledTradesRecorded == Spec => []SettledIsRecorded
<1>1. IInv => SettledIsRecorded
  BY DEF IInv
<1> QED  BY <1>1, SettlementInvariance, PTL

\* A CONFIRMED row names a block in which its transaction succeeded.
THEOREM ConfirmationsTrue == Spec => []ConfirmedWasIncluded
<1>1. IInv => ConfirmedWasIncluded
  BY DEF IInv
<1> QED  BY <1>1, SettlementInvariance, PTL

\* Only handleReorg takes a settlement back, and only of a transaction that a
\* reorganisation took out.
THEOREM RollbacksFollowReorgs == Spec => OnlyReorgsUnsettle
<1> DEFINE Kept == \A t \in settled \ settled' : \E b \in undone : t \in ids[b]
<1>1. ASSUME IInv, [Next]_vars  PROVE Kept
  BY <1>1, UnmarkedIsTaken DEF Taken
<1>2. IInv /\ [Next]_vars => [Kept]_vars
  BY <1>1
<1> HIDE DEF Kept
<1>3. Spec => [][Kept]_vars
  BY <1>2, SettlementInvariance, PTL DEF Spec
<1> QED  BY <1>3 DEF OnlyReorgsUnsettle, Kept

\* A trade the contract moved is left unmarked by a batch that ended only when
\* that batch itself was cut short or a reorganisation took a trade back: the
\* forgotten batches are no more than the failures, whatever overlaps.
THEOREM ForgottenByFailure == Spec => []MovedIsMarked
<1>1. Spec => []LossesCounted
  BY LossesInit, LossesNext, SettlementInvariance, PTL DEF Spec
<1>2. IInv /\ LossesCounted => MovedIsMarked
  <2> SUFFICES ASSUME IInv, LossesCounted PROVE MovedIsMarked
    OBVIOUS
  <2> DEFINE F == {b \in Batch : Forgotten(b)}
  <2>1. ASSUME NEW b \in Batch, Forgotten(b)  PROVE Lost(b)
    <3>1. block[b] > 0 /\ success[b] /\ pc[b] \notin {"insert", "wait", "settle"}
      BY <2>1 DEF Forgotten, Included
    <3>2. PICK t \in moving[b] \ settled : ~Taken(t)
      BY <2>1 DEF Forgotten, Taken
    <3>3. pc[b] \notin {"idle", "send"}
      BY <3>1 DEF IInv, Unsent, TypeOK, ChainOK
    <3>4. pc[b] # "confirm"
      BY <3>2 DEF LossesCounted, MarkedBefore
    <3>5. pc[b] = "done"
      BY <3>1, <3>3, <3>4 DEF IInv, TypeOK, BatchesOK, Runs
    <3>6. WasSent(b)
      BY <3>1 DEF LossesCounted, OnChainWasSent
    <3> QED  BY <3>1, <3>2, <3>5, <3>6 DEF Lost
  <2>2. F \subseteq LostBatches
    BY <2>1 DEF LostBatches
  <2>3. IsFiniteSet(LostBatches) /\ Cardinality(LostBatches) <= failures
    BY DEF LossesCounted, LostByFailure
  <2>4. IsFiniteSet(F) /\ Cardinality(F) <= Cardinality(LostBatches)
    BY <2>2, <2>3, FS_Subset
  <2>5. Cardinality(F) \in Nat /\ Cardinality(LostBatches) \in Nat /\ failures \in Nat
    BY <2>3, <2>4, FS_CardinalityType, BoundsAssumption DEF IInv, TypeOK, HistoryOK
  <2>6. Cardinality(F) <= failures
    BY <2>3, <2>4, <2>5
  <2> QED  BY <2>6 DEF MovedIsMarked
<1> QED  BY <1>1, <1>2, SettlementInvariance, PTL

=============================================================================
