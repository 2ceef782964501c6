------------------------- MODULE ExchangeContracts -------------------------
(***************************************************************************)
(* Custody and settlement on chain: Vault.sol, which holds the tokens and  *)
(* accounts for them, and Settlement.sol, which moves them between users   *)
(* for trades matched off chain.                                           *)
(*                                                                         *)
(* Transactions run one after the other, each one whole or not at all.     *)
(* settleTrades is the only one that loops, so it is taken trade by trade: *)
(* `tx` holds the state it works on, which Commit publishes and Revert     *)
(* drops.  Its calldata is chosen as it is read.  Callers that onlyOwner   *)
(* or onlySettlement turn away change nothing and are left out, as is      *)
(* nonReentrant: the tokens call nobody back (MockERC20.sol).              *)
(***************************************************************************)
EXTENDS Integers, Sequences, FiniteSets, Functions

CONSTANTS
  User,       \* addresses that trade
  Vault,      \* the vault's own address
  Token,      \* ERC20 tokens
  TradeId,    \* trade ids, hashes of the matched trades
  Operator,   \* addresses that the owner of Exchange appoints
  NoAddress,  \* address(0)
  Supply,     \* bound: what is minted of each token
  MaxAmount,  \* bound: the largest amount of a call
  NoTx        \* settleTrades is not running

ASSUME VaultAssumption  == Vault \notin User /\ NoAddress \notin Operator
\* Addresses are 160 bits wide.
ASSUME UserAssumption   == IsFiniteSet(User)
ASSUME AmountAssumption == Supply \in Nat /\ MaxAmount \in Nat

Amount  == 0..MaxAmount
Account == User \cup {Vault}
Transfer == [id : TradeId, token : Token, buyer : User, seller : User, amount : Amount]

ASSUME NoTxAssumption ==
  NoTx \notin [token : Token, batch : Seq(Transfer),
               balances : [User -> Nat], settled : SUBSET TradeId]

VARIABLES
  tokens,      \* tokens[t][a]: what the ERC20 contract t says a owns
  balances,    \* balances[t][u]: Vault.balances
  settlementOperator, \* of Settlement
  settled,     \* Settlement.settledTrades
  batchNonce,  \* Settlement.batchNonce
  tx,          \* the running settleTrades, or NoTx
  \* History:
  ledger,      \* every transfer settled so far
  net          \* net[t][u]: deposits of u less its withdrawals

vars == <<tokens, balances, settlementOperator, settled, batchNonce, tx, ledger, net>>

-----------------------------------------------------------------------------
(* Slips, as in MatchingEngine: plausible mistakes, used by no action.     *)

\* The balance is not compared with the amount.
AffordsAny(b, u, amount) == amount > 0
\* Both balances are read before either is written.
MovedFromCache(b, from, to, amount) ==
  [[b EXCEPT ![from] = @ - amount] EXCEPT ![to] = b[to] + amount]
\* The seller is not credited.
MovedNowhere(b, from, to, amount) == [b EXCEPT ![from] = @ - amount]
\* The replay check reads the state before the transaction.
UnsettledBefore(id) == id \notin settled

-----------------------------------------------------------------------------
(* Vault.                                                                  *)

\* The two requires of withdraw and transferInternal.
Affords(b, u, amount) == amount > 0 /\ b[u] >= amount

\* The ERC20 transfer, as OpenZeppelin's ERC20 makes it; it reverts when the
\* sender owns less than amount.
Moved(b, from, to, amount) ==
  [[b EXCEPT ![from] = @ - amount] EXCEPT ![to] = @ + amount]

\* The two assignments of transferInternal.
Reassigned(b, from, to, amount) ==
  [[b EXCEPT ![from] = @ - amount] EXCEPT ![to] = @ + amount]

Deposit(u, t, amount) ==
  /\ tx = NoTx
  /\ amount > 0
  /\ tokens[t][u] >= amount
  /\ tokens' = [tokens EXCEPT ![t] = Moved(@, u, Vault, amount)]
  /\ balances' = [balances EXCEPT ![t][u] = @ + amount]
  /\ net' = [net EXCEPT ![t][u] = @ + amount]
  /\ UNCHANGED <<settlementOperator, settled, batchNonce, tx, ledger>>

Withdraw(u, t, amount) ==
  /\ tx = NoTx
  /\ Affords(balances[t], u, amount)
  /\ tokens[t][Vault] >= amount
  /\ balances' = [balances EXCEPT ![t][u] = @ - amount]
  /\ tokens' = [tokens EXCEPT ![t] = Moved(@, Vault, u, amount)]
  /\ net' = [net EXCEPT ![t][u] = @ - amount]
  /\ UNCHANGED <<settlementOperator, settled, batchNonce, tx, ledger>>

\* mint of MockERC20, for anyone.
Mint(u, t, amount) ==
  /\ tx = NoTx
  /\ amount > 0
  /\ SumFunction(tokens[t]) + amount <= Supply
  /\ tokens' = [tokens EXCEPT ![t][u] = @ + amount]
  /\ UNCHANGED <<balances, settlementOperator, settled, batchNonce, tx, ledger, net>>

\* An ERC20 transfer straight to the vault's address, or between users: the
\* contracts take no notice of it.
TransferToken(u, a, t, amount) ==
  /\ tx = NoTx
  /\ a # u
  /\ amount > 0
  /\ tokens[t][u] >= amount
  /\ tokens' = [tokens EXCEPT ![t] = Moved(@, u, a, amount)]
  /\ UNCHANGED <<balances, settlementOperator, settled, batchNonce, tx, ledger, net>>

-----------------------------------------------------------------------------
(* Settlement.                                                             *)

\* The require of the loop against replays.
Unsettled(id) == id \notin tx.settled

\* onlyOwner, by way of Exchange.setSettlementOperator.
SetSettlementOperator(o) ==
  /\ tx = NoTx
  /\ settlementOperator' = o
  /\ UNCHANGED <<tokens, balances, settled, batchNonce, tx, ledger, net>>

\* onlyOperator: o calls.
SettleTrades(o, t) ==
  /\ tx = NoTx
  /\ o = settlementOperator
  /\ tx' = [token |-> t, batch |-> <<>>, balances |-> balances[t], settled |-> settled]
  /\ UNCHANGED <<tokens, balances, settlementOperator, settled, batchNonce, ledger, net>>

\* One iteration of the loop, for a trade that passes every require.
SettleNext(id, buyer, seller, amount) ==
  /\ tx # NoTx
  /\ Unsettled(id)
  /\ Affords(tx.balances, buyer, amount)
  /\ tx' = [token |-> tx.token,
            batch |-> Append(tx.batch,
              [id |-> id, token |-> tx.token, buyer |-> buyer,
               seller |-> seller, amount |-> amount]),
            balances |-> Reassigned(tx.balances, buyer, seller, amount),
            settled |-> tx.settled \cup {id}]
  /\ UNCHANGED <<tokens, balances, settlementOperator, settled, batchNonce, ledger, net>>

\* The end of the loop: length > 0.
Commit ==
  /\ tx # NoTx
  /\ tx.batch # <<>>
  /\ balances' = [balances EXCEPT ![tx.token] = tx.balances]
  /\ settled' = tx.settled
  /\ batchNonce' = batchNonce + 1
  /\ ledger' = ledger \o tx.batch
  /\ tx' = NoTx
  /\ UNCHANGED <<tokens, settlementOperator, net>>

\* A require fails: on the next trade, which may be any, or on an empty batch.
Revert ==
  /\ tx # NoTx
  /\ tx' = NoTx
  /\ UNCHANGED <<tokens, balances, settlementOperator, settled, batchNonce, ledger, net>>

-----------------------------------------------------------------------------
Init ==
  /\ tokens = [t \in Token |-> [a \in Account |-> 0]]
  /\ balances = [t \in Token |-> [u \in User |-> 0]]
  /\ settlementOperator = NoAddress
  /\ settled = {}
  /\ batchNonce = 0
  /\ tx = NoTx
  /\ ledger = <<>>
  /\ net = [t \in Token |-> [u \in User |-> 0]]

Next ==
  \/ \E u \in User, t \in Token, amount \in Amount :
       \/ Deposit(u, t, amount)
       \/ Withdraw(u, t, amount)
       \/ Mint(u, t, amount)
       \/ \E a \in Account : TransferToken(u, a, t, amount)
  \/ \E o \in Operator :
       SetSettlementOperator(o) \/ \E t \in Token : SettleTrades(o, t)
  \/ \E id \in TradeId, buyer, seller \in User, amount \in Amount :
       SettleNext(id, buyer, seller, amount)
  \/ Commit
  \/ Revert

Spec == Init /\ [][Next]_vars
-----------------------------------------------------------------------------
(* Properties.                                                             *)

\* Types of every variable: no balance is negative (uint256 would revert).
TypeOK ==
  /\ tokens \in [Token -> [Account -> Nat]]
  /\ balances \in [Token -> [User -> Nat]]
  /\ settlementOperator \in Operator \cup {NoAddress}
  /\ settled \subseteq TradeId
  /\ batchNonce \in Nat
  /\ tx \in [token : Token, batch : Seq(Transfer),
             balances : [User -> Nat], settled : SUBSET TradeId] \cup {NoTx}
  /\ ledger \in Seq(Transfer)
  /\ net \in [Token -> [User -> Int]]

\* The vault can always pay every user back: it owns at least what it owes, of
\* every token, also while a batch is being settled.
Solvency ==
  \A t \in Token :
    /\ SumFunction(balances[t]) <= tokens[t][Vault]
    /\ tx # NoTx => SumFunction(tx.balances) <= tokens[tx.token][Vault]

\* Ids settled by the transfers of a ledger, each of them once.
SettlesOnce(transfers, ids) ==
  /\ \A i, j \in DOMAIN transfers : transfers[i].id = transfers[j].id => i = j
  /\ ids = {transfers[i].id : i \in DOMAIN transfers}

\* "Each trade ID can only be settled once" (docs/failure-modes.md): no id
\* moves money twice, in two batches or in one, and settledTrades holds exactly
\* the ids that did.
SettledOnce ==
  /\ SettlesOnce(ledger, settled)
  /\ tx # NoTx => SettlesOnce(ledger \o tx.batch, tx.settled)

\* What the transfers of a ledger added to the balance of u, in token t.
Gained(transfers, t, u) ==
  SumFunction([i \in DOMAIN transfers |->
    IF transfers[i].token # t THEN 0
    ELSE (IF transfers[i].seller = u THEN transfers[i].amount ELSE 0)
       - (IF transfers[i].buyer = u THEN transfers[i].amount ELSE 0)])

\* Every balance is what its owner put in, took out, paid and was paid: in
\* particular a batch that reverts half-way leaves no trace.
BalancesExplained ==
  \A t \in Token, u \in User :
    balances[t][u] = net[t][u] + Gained(ledger, t, u)
=============================================================================
