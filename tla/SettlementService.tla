------------------------- MODULE SettlementService -------------------------
(***************************************************************************)
(* The settlement service of the API gateway (services/settlement.ts) and  *)
(* the two admin routes that call it (routes/admin.ts): batches of trades  *)
(* go to the Settlement contract, and a sweep takes back what a chain      *)
(* reorganisation undid.                                                   *)
(*                                                                         *)
(* A batch or a sweep is one HTTP request that awaits every query and      *)
(* every answer of the node, so they interleave with each other and with   *)
(* the chain.  No database transaction spans their statements.             *)
(*                                                                         *)
(* The chain is external, modelled from what the service asks of it: the   *)
(* transactions of the one signer enter it in the order of their nonces,   *)
(* one to a block; a reorganisation takes the last blocks away, and their  *)
(* transactions are included again later, at the same or another height.   *)
(* The contract is the one whose ABI the service declares; its checks are  *)
(* those of Settlement.sol.  Columns and events that no code reads are     *)
(* left out, and so is startMonitoring, which no code calls.               *)
(***************************************************************************)
EXTENDS Integers, Sequences, FiniteSets

CONSTANTS
  Trade,        \* the rows of trades
  NoTrade,      \* a sweep takes no trade back
  Unowned,      \* trades of which one order has no row, so no wallet
  Batch,        \* calls of POST /settle, and the transaction each one sends
  Sweep,        \* calls of POST /reorg
  MaxHead,      \* bound: no other blocks above this height
  MaxReorgs,    \* bound: reorganisations
  MaxFailures   \* bound: calls cut short by an error or a crash

ASSUME TradeAssumption == Unowned \subseteq Trade /\ NoTrade \notin Trade
ASSUME BoundsAssumption ==
  MaxHead \in Nat /\ MaxReorgs \in Nat /\ MaxFailures \in Nat

VARIABLES
  \* The database:
  settled,      \* the trades whose column settled is true
  settlements,  \* the rows of settlements
  \* The batches:
  pc,           \* pc[b]: the await at which b is
  ids,          \* ids[b]: the tradeIds of its request
  moving,       \* moving[b]: the trades its query found unsettled
  receipt,      \* receipt[b]: the block of its receipt
  \* The sweeps:
  at,           \* at[s]: the await at which s is
  todo,         \* todo[s]: the rows of its query not yet visited
  row,          \* row[s]: the trade of the row it takes back, or NoTrade
  \* The chain:
  sent,         \* the transactions in the order of their nonces
  block,        \* block[b]: the block that includes b's transaction, or 0
  success,      \* success[b]: that transaction did not revert
  head,         \* the height of the chain
  \* History:
  included,     \* <<b, n>>: b's transaction once succeeded in block n
  undone,       \* batches whose transaction a reorganisation took out
  unswept,      \* first blocks of reorganisations that no sweep looked at
  reorgs,       \* reorganisations so far
  failures      \* calls cut short so far

database == <<settled, settlements>>
batches  == <<pc, ids, moving, receipt>>
sweeps   == <<at, todo, row>>
chain    == <<sent, block, success, head, included>>
history  == <<undone, unswept, reorgs, failures>>
vars     == <<database, batches, sweeps, chain, history>>

Status == {"PENDING", "CONFIRMED", "REORGED"}
Row    == [trade : Trade, tx : Batch, status : Status, block : Nat]

\* A batch is at one of its awaits.
Runs == {"send", "insert", "wait", "settle", "confirm"}

\* The trades that the contract has settled on the present chain.
Included(b) == block[b] > 0 /\ success[b]
Moved == UNION {moving[b] : b \in {c \in Batch : Included(c)}}

-----------------------------------------------------------------------------
(* Slips: plausible mistakes, used by no action.                           *)

\* The contract does not look the trade up in settledTrades.
FreshAlways(b) == TRUE
\* The batch takes a receipt for success, whatever its status.
AnyReceipt(b) == block[b] > 0
\* The block of the present head is stored, not the receipt's.
HeadBlock(b) == head
\* The block is never stored.
NullBlock(b) == 0
\* The sweep does not ask for the receipt.
NeverThere(b) == FALSE

-----------------------------------------------------------------------------
(* The chain.                                                              *)

\* settleTrades: no trade is settled already, no address is zero.
Fresh(b) == moving[b] \cap (Moved \cup Unowned) = {}

\* The next transaction of the signer is included.  settleTrades checks again;
\* the vault may no longer cover an amount, so it may revert for that too.
Include(b) ==
  /\ block[b] = 0
  /\ \E i \in DOMAIN sent :
       sent[i] = b /\ \A j \in 1..(i - 1) : block[sent[j]] > 0
  /\ head' = head + 1
  /\ block' = [block EXCEPT ![b] = head + 1]
  /\ \E ok \in BOOLEAN :
       /\ ok => Fresh(b)
       /\ success' = [success EXCEPT ![b] = ok]
       /\ included' = IF ok THEN included \cup {<<b, head + 1>>} ELSE included
  /\ UNCHANGED <<database, batches, sweeps, sent, history>>

\* A block without a transaction of the signer.
OtherBlock ==
  /\ head < MaxHead
  /\ head' = head + 1
  /\ UNCHANGED <<database, batches, sweeps, sent, block, success, included, history>>

\* The blocks from n on are replaced; those of the new branch follow.
Reorganise(n) ==
  /\ reorgs < MaxReorgs
  /\ head' = n - 1
  /\ block' = [b \in Batch |-> IF block[b] >= n THEN 0 ELSE block[b]]
  /\ undone' = undone \cup {b \in Batch : block[b] >= n}
  /\ unswept' = unswept \cup {n}
  /\ reorgs' = reorgs + 1
  /\ UNCHANGED <<database, batches, sweeps, sent, success, included, failures>>

-----------------------------------------------------------------------------
(* batchSettleTrades.                                                      *)

\* The route refuses an empty list; a query that finds nothing ends the call.
Settle(b, requested) ==
  /\ pc[b] = "idle"
  /\ requested # {}
  /\ ids' = [ids EXCEPT ![b] = requested]
  /\ moving' = [moving EXCEPT ![b] = requested \ settled]
  /\ pc' = [pc EXCEPT ![b] = IF requested \subseteq settled THEN "done" ELSE "send"]
  /\ UNCHANGED <<database, receipt, sweeps, chain, history>>

\* The wallets are read, the node estimates the gas against its head and the
\* transaction goes out with the next nonce.
Send(b) ==
  /\ pc[b] = "send"
  /\ Fresh(b)
  /\ sent' = Append(sent, b)
  /\ pc' = [pc EXCEPT ![b] = "insert"]
  /\ UNCHANGED <<database, ids, moving, receipt, sweeps,
                 block, success, head, included, history>>

\* The estimate reverts: for a check of settleTrades, or the vault's.
Refused(b) ==
  /\ pc[b] = "send"
  /\ pc' = [pc EXCEPT ![b] = "done"]
  /\ UNCHANGED <<database, ids, moving, receipt, sweeps, chain, history>>

\* One PENDING row for each id of the request, whatever the query found.
InsertPending(b) ==
  /\ pc[b] = "insert"
  /\ settlements' = settlements \cup
       [trade : ids[b], tx : {b}, status : {"PENDING"}, block : {0}]
  /\ pc' = [pc EXCEPT ![b] = "wait"]
  /\ UNCHANGED <<settled, ids, moving, receipt, sweeps, chain, history>>

\* tx.wait: the receipt's status, its block; a reverted transaction throws.
Confirmed(b) == Included(b)
ReceiptBlock(b) == block[b]
Reverted(b) == block[b] > 0 /\ ~success[b]

Wait(b) ==
  /\ pc[b] = "wait"
  /\ \/ /\ Confirmed(b)
        /\ receipt' = [receipt EXCEPT ![b] = ReceiptBlock(b)]
        /\ pc' = [pc EXCEPT ![b] = "settle"]
     \/ /\ Reverted(b)
        /\ receipt' = receipt
        /\ pc' = [pc EXCEPT ![b] = "done"]
  /\ UNCHANGED <<database, ids, moving, sweeps, chain, history>>

\* UPDATE trades, for every id of the request.
MarkSettled(b) ==
  /\ pc[b] = "settle"
  /\ settled' = settled \cup ids[b]
  /\ pc' = [pc EXCEPT ![b] = "confirm"]
  /\ UNCHANGED <<settlements, ids, moving, receipt, sweeps, chain, history>>

\* UPDATE settlements, for every row of the transaction.
MarkConfirmed(b) ==
  /\ pc[b] = "confirm"
  /\ settlements' =
       {IF r.tx = b THEN [r EXCEPT !.status = "CONFIRMED", !.block = receipt[b]]
                    ELSE r : r \in settlements}
  /\ pc' = [pc EXCEPT ![b] = "done"]
  /\ UNCHANGED <<settled, ids, moving, receipt, sweeps, chain, history>>

-----------------------------------------------------------------------------
(* handleReorg.                                                            *)

\* The rows that the query of handleReorg(n) finds.
Affected(n) == {r \in settlements : r.status = "CONFIRMED" /\ r.block >= n}

StartSweep(s, n) ==
  /\ at[s] = "idle"
  /\ todo' = [todo EXCEPT ![s] = {<<r.trade, r.tx>> : r \in Affected(n)}]
  /\ at' = [at EXCEPT ![s] = "check"]
  /\ unswept' = {m \in unswept : m < n}
  /\ UNCHANGED <<database, batches, row, chain, undone, reorgs, failures>>

\* getTransactionReceipt for the next row: a receipt of any status will do.
HasReceipt(b) == block[b] > 0

Check(s) ==
  /\ at[s] = "check"
  /\ \E r \in todo[s] :
       /\ todo' = [todo EXCEPT ![s] = @ \ {r}]
       /\ \/ HasReceipt(r[2]) /\ UNCHANGED <<at, row>>
          \/ /\ ~HasReceipt(r[2])
             /\ row' = [row EXCEPT ![s] = r[1]]
             /\ at' = [at EXCEPT ![s] = "unsettle"]
  /\ UNCHANGED <<database, batches, chain, history>>

\* UPDATE trades SET settled = false
Unsettle(s) ==
  /\ at[s] = "unsettle"
  /\ settled' = settled \ {row[s]}
  /\ at' = [at EXCEPT ![s] = "mark"]
  /\ UNCHANGED <<settlements, batches, todo, row, chain, history>>

\* UPDATE settlements, for every row of the trade, of any transaction.
MarkReorged(s) ==
  /\ at[s] = "mark"
  /\ settlements' =
       {IF r.trade = row[s] THEN [r EXCEPT !.status = "REORGED"] ELSE r
          : r \in settlements}
  /\ at' = [at EXCEPT ![s] = "check"]
  /\ row' = [row EXCEPT ![s] = NoTrade]
  /\ UNCHANGED <<settled, batches, todo, chain, history>>

EndSweep(s) ==
  /\ at[s] = "check"
  /\ todo[s] = {}
  /\ at' = [at EXCEPT ![s] = "done"]
  /\ UNCHANGED <<database, batches, todo, row, chain, history>>

-----------------------------------------------------------------------------
(* Failures.                                                               *)

\* A query or the node fails (an id of the request may be no trade at all,
\* which the insert refuses), or the gateway stops: the batch ends there.
FailBatch(b) ==
  /\ failures < MaxFailures
  /\ pc[b] \in Runs
  /\ pc' = [pc EXCEPT ![b] = "done"]
  /\ failures' = failures + 1
  /\ UNCHANGED <<database, ids, moving, receipt, sweeps, chain, undone, unswept, reorgs>>

\* The loop of a sweep catches an error and goes on with the next row, also
\* between its two UPDATEs.
SkipRow(s) ==
  /\ failures < MaxFailures
  /\ \/ /\ at[s] = "check"
        /\ \E r \in todo[s] : todo' = [todo EXCEPT ![s] = @ \ {r}]
        /\ UNCHANGED <<at, row>>
     \/ /\ at[s] \in {"unsettle", "mark"}
        /\ at' = [at EXCEPT ![s] = "check"]
        /\ row' = [row EXCEPT ![s] = NoTrade]
        /\ todo' = todo
  /\ failures' = failures + 1
  /\ UNCHANGED <<database, batches, chain, undone, unswept, reorgs>>

\* The gateway stops, or the query of the sweep fails: the sweep ends.
FailSweep(s) ==
  /\ failures < MaxFailures
  /\ at[s] \in {"check", "unsettle", "mark"}
  /\ at' = [at EXCEPT ![s] = "done"]
  /\ todo' = [todo EXCEPT ![s] = {}]
  /\ row' = [row EXCEPT ![s] = NoTrade]
  /\ failures' = failures + 1
  /\ UNCHANGED <<database, batches, chain, undone, unswept, reorgs>>

-----------------------------------------------------------------------------
Init ==
  /\ settled = {} /\ settlements = {}
  /\ pc = [b \in Batch |-> "idle"]
  /\ ids = [b \in Batch |-> {}]
  /\ moving = [b \in Batch |-> {}]
  /\ receipt = [b \in Batch |-> 0]
  /\ at = [s \in Sweep |-> "idle"]
  /\ todo = [s \in Sweep |-> {}]
  /\ row = [s \in Sweep |-> NoTrade]
  /\ sent = <<>>
  /\ block = [b \in Batch |-> 0]
  /\ success = [b \in Batch |-> FALSE]
  /\ head = 0
  /\ included = {} /\ undone = {} /\ unswept = {}
  /\ reorgs = 0 /\ failures = 0

\* What a running batch does next, and a running sweep.
ServeBatch(b) ==
  \/ Send(b) \/ Refused(b) \/ InsertPending(b) \/ Wait(b)
  \/ MarkSettled(b) \/ MarkConfirmed(b)
ServeSweep(s) == Check(s) \/ Unsettle(s) \/ MarkReorged(s) \/ EndSweep(s)

Chain ==
  \/ OtherBlock
  \/ \E b \in Batch : Include(b)
  \/ \E n \in 1..head : Reorganise(n)

Next ==
  \/ \E b \in Batch :
       \/ \E requested \in SUBSET Trade : Settle(b, requested)
       \/ ServeBatch(b)
       \/ FailBatch(b)
  \/ \E s \in Sweep :
       \/ \E n \in 1..(head + 1) : StartSweep(s, n)
       \/ ServeSweep(s)
       \/ SkipRow(s)
       \/ FailSweep(s)
  \/ Chain

Spec == Init /\ [][Next]_vars

-----------------------------------------------------------------------------
(* Properties.                                                             *)

\* Types; a confirmed row has its block, a row that is pending has none.
DatabaseOK ==
  /\ settled \subseteq Trade
  /\ settlements \subseteq Row
  /\ \A r \in settlements : /\ r.status = "CONFIRMED" => r.block > 0
                            /\ r.status = "PENDING" => r.block = 0
BatchesOK ==
  /\ pc \in [Batch -> Runs \cup {"idle", "done"}]
  /\ ids \in [Batch -> SUBSET Trade]
  /\ moving \in [Batch -> SUBSET Trade]
  /\ \A b \in Batch : moving[b] \subseteq ids[b]
  /\ receipt \in [Batch -> Nat]
SweepsOK ==
  /\ at \in [Sweep -> {"idle", "check", "unsettle", "mark", "done"}]
  /\ todo \in [Sweep -> SUBSET (Trade \X Batch)]
  /\ row \in [Sweep -> Trade \cup {NoTrade}]
ChainOK ==
  /\ sent \in Seq(Batch)
  /\ block \in [Batch -> 0..head]
  /\ success \in [Batch -> BOOLEAN]
  /\ head \in Nat
  /\ included \subseteq Batch \X Nat
HistoryOK ==
  /\ undone \subseteq Batch
  /\ unswept \subseteq Nat
  /\ reorgs \in 0..MaxReorgs /\ failures \in 0..MaxFailures
TypeOK == DatabaseOK /\ BatchesOK /\ SweepsOK /\ ChainOK /\ HistoryOK

\* "Each trade can only be settled once" (settlement.ts:44): of two batches
\* that name the same trade, sent at the same time or again after a failure or
\* a reorganisation, at most one moves it on the chain as it stands.
PaidOnce ==
  \A b, c \in Batch :
    b # c /\ Included(b) /\ Included(c) => moving[b] \cap moving[c] = {}

\* batchSettleTrades marks every id of its request, also those another batch
\* had settled before.  Still a trade marked as settled has a settlements row
\* of a transaction that moved that very trade at some time, so that a sweep
\* can find what it rests on.
SettledIsRecorded ==
  \A t \in settled : \E r \in settlements :
    /\ r.trade = t
    /\ t \in moving[r.tx]
    /\ \E p \in included : p[1] = r.tx

\* A CONFIRMED row names a block in which its transaction did succeed, for all
\* that happened between tx.wait and the UPDATE: the block is what handleReorg
\* searches by.
ConfirmedWasIncluded ==
  \A r \in settlements : r.status = "CONFIRMED" => <<r.tx, r.block>> \in included

\* Only a reorganisation takes a settlement back: a trade loses its mark only
\* when the transaction of a batch that named it has left the chain, however
\* the sweep is interleaved with batches that confirm.
OnlyReorgsUnsettle ==
  [][\A t \in settled \ settled' : \E b \in undone : t \in ids[b]]_vars

\* A batch that is over and whose trades the contract moved: some of them are
\* not marked as settled, and no reorganisation is behind it.
Forgotten(b) ==
  /\ Included(b) /\ pc[b] \notin {"insert", "wait", "settle"}
  /\ \E t \in moving[b] \ settled : \A c \in undone : t \notin ids[c]

\* settlement.ts sends a transaction first and records it after: every batch
\* that leaves trades settled on the chain and unsettled in the database took a
\* failure of its own, or a reorganisation.  Batches and sweeps that overlap
\* make none.
MovedIsMarked == Cardinality({b \in Batch : Forgotten(b)}) <= failures

\* "Mark affected settlements as REORGED" (docs/failure-modes.md:32): when
\* every reorganisation has been swept and no call runs, a row that still says
\* CONFIRMED has its transaction on the chain.  Violated.
AffectedMarked ==
  unswept = {} /\ (\A b \in Batch : pc[b] \notin Runs)
               /\ (\A s \in Sweep : at[s] \in {"idle", "done"})
  => \A r \in settlements : r.status = "CONFIRMED" => Included(r.tx)
=============================================================================
