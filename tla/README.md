# A verification project for hybrid-dex

hybrid-dex is an exchange with an off-chain matching engine (Rust), an API gateway
(TypeScript, PostgreSQL) and on-chain custody and settlement (Solidity). This directory
holds TLA+ models of its parts, the TLC configurations that check them on small instances,
and proofs, checked by TLAPS, of what matters most. Paths below are relative to `src/`.

`PROJECT.json` is the index: components, runs, the mutation each property was shown to
detect, the source lines every definition models, findings, hazards and theorems.

## The system

| part | state | operations | called by |
|---|---|---|---|
| matching engine `engine/matching-engine` | per market: bids and asks (`BTreeMap` of `VecDeque`s), an index from order to level, a sequence; one `tokio::Mutex` around the registry of all markets | `submit_order`, `cancel_order`, `replace_order` over gRPC | gateway |
| engine persistence | `snapshot.json`, an event log | `snapshot::load` at start; `snapshot::save`, `replay_from_log` and `append_to_log` are called by nothing | `main.rs` |
| gateway: orders `routes/orders.ts` | tables `orders`, `trades` | POST, GET, DELETE, PUT | traders |
| gateway: settlement `services/settlement.ts`, `routes/admin.ts` | tables `trades`, `settlements`; a chain it does not control | `batchSettleTrades`, `handleReorg`, `startMonitoring` (not called) | administrators |
| gateway: feeds `ws/trades.ts`, `ws/orderbook.ts` | per connection: `lastSequence`, a timer | subscribe, poll, close | web trader |
| sign-in `routes/auth.ts`, `middleware/auth.ts`, `features/wallet`, `state/store.ts` of the web trader | per page a wallet and a signer, one token per browser, table `users` | connect, nonce, login, disconnect | traders, market maker |
| limits `middleware/rate-limit.ts`, `risk-check.ts` | a map of counters, a map of limits | registered on no route | nobody |
| contracts `contracts/exchange` | `Vault.balances`, `Settlement.settledTrades`, `batchNonce`, `Exchange.markets` | `deposit`, `withdraw`, `transferInternal`, `settleTrades`, `addMarket`, `setMarketStatus`, the setters | traders, operator, owner |
| market maker `scripts/market-maker.ts` | `activeOrders`, a token | `authenticate`, `updateQuotes` on a timer, `shutdown` | itself |
| web trader `apps/web-trader` | a socket, a store | connect, reconnect, disconnect | users |
| admin console, `packages/`, `infra/`, `typechain-types/` | none | pages without logic, stubs, scripts, generated code | |

Where they meet: an HTTP handler of the gateway awaits the engine and then writes the
database, one query at a time. The sequence number the engine gives a trade is the key of
its row (`UNIQUE(market, sequence)`). Settlement reads those rows, looks up the wallets in
the rows of `orders`, sends one transaction for a batch and writes back what the chain
answered. The feeds poll the rows by sequence.

What is hard about it, part by part (each with its line under "hazards" in `PROJECT.json`):

- *Engine.* A matching loop with several exits, two of them panics. Correct means: the index
  agrees with the queues, the book is never crossed, price-time priority, no lot created or
  lost, a cancelled order never trades, the mutex always comes back.
- *Orders.* A handler reads the row, awaits the engine, writes the row, and any of these can
  fail or interleave with another handler; the engine can panic or restart under it. Correct
  means: rows and book agree, acknowledged trades are stored, nothing trades unrecorded.
- *Contracts.* Transactions are atomic, so the difficulty is arithmetic and replay: duplicate
  ids in a batch, an account trading with itself, a batch failing half-way. Correct means:
  solvency, each trade settled once, every balance explained.
- *Settlement service.* A crash between the transaction and its bookkeeping, two batches with
  one trade, reorgs. Correct means: a trade marked settled is settled on the chain, and a trade
  that was matched is settled in the end.
- *Sign-in.* The page's wallet, its signer and the token are three things, set at three moments,
  and the token is the browser's. Correct means: an order is placed for the wallet the page
  shows, and nobody stays signed in after a disconnect.
- *Feeds, market maker, web client.* Timers that overlap with the work of the last tick, rows
  that arrive late. Correct means: no trade is skipped, no order or socket is forgotten, a lost connection comes back.

## The modules

### MatchingEngine

One market. `queue[side][price]` is the `VecDeque` of a level, `levels[side]` the keys of the
`BTreeMap` (a level can be empty and still be there: that is how the panic comes about),
`index` is `OrderBook.index`. `active` is the order being matched, and stands for the mutex: a
handler holds it from `lock().await` to its return and never awaits in between, so requests
are serial and `SubmitOrder`, `CancelOrder`, `ReplaceOrder` are enabled when it is free.

| action | code |
|---|---|
| `SubmitOrder`, `ReplaceOrder` | the gRPC handlers, up to the matching loop (`Begin`); replace cancels first |
| `CancelOrder` | `cancel_order`, whole |
| `Match(p)` | one iteration of the loop; buys and sells are one action, by `Opposite`, `Better`, `Crosses` |
| `Panic(p)` | `pop_front().unwrap()` on an empty level: what the loop has done stays, the reply is lost |
| `Finish` | the end of the loop, `cleanup`, `add`, the reply |

`log`, `submitted`, `filled`, `gone` and `clock` are history, read by the properties
only. `clock` numbers the arrivals; the `timestamp` field of an order decides nothing in the code.
Market, wallet and timestamp are left out. Ids are fresh on submission, as in the gateway,
where they are UUIDs; sequence numbers do not reach 2^64.

### PriceTimeBook and MatchingEngineRefinement

`PriceTimeBook` is what the engine promises: a set of open orders, a taker, a tape.
`MatchingEngineRefinement` maps the levels, queues and index to it; `ImplementsBook` is the
abstract specification as a property of the engine. The abstract taker can be dropped at any
time (`Abort`); the engine does so only when it panics.

### OrderGateway

The order routes. A handler is an HTTP request; `pc[h]` is the `await` it is at, so other
handlers run between any two queries, as they do in one Node process and in several. The
engine is `Engine == INSTANCE PriceTimeBook`, whose steps the handlers trigger and wait for:
`StartMatching`, `EngineFill`, `EngineReturn`, `EnginePanic`, `EngineCancel`, `EngineRefuse`. A
handler can fail at every await (`Fail`: a broken connection, a failing query, a dying process),
and the engine goes on without it. `EngineRestart` empties the engine. `PriceTimeBook` allows more than the engine does today: its
taker sweeps several levels (the engine panics, see `engine_pop`) and can be dropped at any
point. What holds of the gateway over it holds over the engine, and goes on to hold when the
panic is repaired. The rows are
`orders[id]` and the set `trades`, with `ON CONFLICT DO NOTHING` in `InsertTrade`. The id of an
order is the request that drew it: UUIDs are fresh. There is one market and one wallet, because
requests of another wallet are turned away before they have an effect. A request refused with
400 or 404 changes nothing and is not an action.

A price or quantity is a text of the body, and the two places it goes to read it differently.
`Wire` is what proto-loader makes of a decimal number, its lowest 64 bits, also of a negative one;
a text that PostgreSQL and `BigInt()` take but that is not written in plain decimal digits (with white space
around it, or a JSON number beyond 2^53, which is printed rounded) may be sent as some other word (`Sent`,
with `Misread` the words it may be). A BIGINT column takes a signed number or refuses it
(`Storable`), and a refused query fails the handler. POST checks that both numbers are positive,
PUT checks neither sign nor size. So the number in the row is not the word in the engine, and a
row of -5 lots can stand for an order of 2^64-5.

### ExchangeContracts

Vault and Settlement. A transaction is one step, except `settleTrades`, whose loop is taken
trade by trade on a working copy `tx` that `Commit` publishes and `Revert` drops. The ERC20
tokens are OpenZeppelin's and external; `TransferToken` is a transfer the vault does not see, `Mint`
the mock token's, for anyone (its constructor's million for the deployer included). Until
`SetSettlementOperator` names one there is no operator, and nobody can settle; the owner may name
another at any time.

### SettlementService

`batchSettleTrades` and `handleReorg`, as the admin routes call them. `pc[b]` and `at[s]` are the
await at which a batch or a sweep is: no database transaction spans the statements of either, so
batches, sweeps and the chain interleave between any two of them. What a batch read before it
sends (`moving`, the trades its query found unsettled) is what the contract is asked to settle,
while the statements after it go by what was asked for (`ids`).

| action | code |
|---|---|
| `Settle` | the route's refusal of an empty list, the SELECT of unsettled trades |
| `Send`, `Refused` | the SELECT of wallets, the gas estimate of ethers, the transaction |
| `InsertPending` | INSERT of PENDING rows, for every id asked for |
| `Wait` | `tx.wait()`: a receipt, or an exception for a reverted transaction |
| `MarkSettled`, `MarkConfirmed` | the two UPDATEs |
| `StartSweep`, `Check`, `Unsettle`, `MarkReorged`, `EndSweep` | the query of `handleReorg`, one row of its loop, its two UPDATEs |
| `FailBatch`, `SkipRow`, `FailSweep` | an error or a crash at any await; the loop of a sweep catches its errors and goes on |
| `Include`, `OtherBlock`, `Reorganise` | the chain, external |

The chain includes the transactions of the one signer in the order of their nonces. They are
one to a block here: the code compares block numbers only, and two in a block are the same as
two in neighbouring blocks that a reorganisation takes together. A reorganisation keeps
the blocks below `n`; the transactions it takes out are still known and come back
later, at any height, and may revert there. `Include` lets a transaction revert without a reason,
since a vault balance may not suffice. The contract is the one whose ABI the service declares:
that ABI (`settlement.ts:26`) has no `token` parameter, so the call does not select `settleTrades`
of `Settlement.sol`, and without a configured address it goes to the zero address, which has
no code. The checks of the model's contract are those of `Settlement.sol`. `included`, `undone`,
`unswept`, `reorgs` and `failures` are history. `startMonitoring` and `verifySettlement` are called
by nothing; columns no code reads are left out.

### MarketMaker

The bot: `SignIn` and `SignInFails` are `authenticate`, request by request, `Tick` a call of
`updateQuotes` (the first one is awaited before the timer is set, as in `run`) and `Signal` one of
`shutdown`, which a signal can start at any time, also before the bot is signed in. `lists` holds every array `this.activeOrders` has
been: `cancelAllOrders` iterates over the one it took when it began, also when another call has
replaced it, and sees what is pushed to it meanwhile. A step of the bot runs from one answer to
the next request; `Begin` is the start of a call. `Serve`, `Refuse` and `Fail` are the gateway: one request,
done or not, answered or not. The token expires after a day (`Expire`, `auth.ts:43`); then every
request is refused, and the bot takes a refusal for an order that is gone. `Known` is what the bot can still cancel.

### SignIn

`features/wallet/index.tsx` with the store, the interceptor of `services/api.ts` and the gateway's
two routes. A flow is one call of `handleConnect`; `pc[f]` is the await it is at.

| action | code |
|---|---|
| `Click` | the Connect button, there while the page shows no wallet |
| `Accounts`, `Connect`, `Decline` | `connectWallet`: `eth_requestAccounts`, `getSigner` with the `set` after it, its catch |
| `Nonce` | the answer to GET nonce, after which the signer is read from the store |
| `Sign` | the wallet's signature |
| `Login` | POST login, `verifyWalletSignature`, `setToken` |
| `Fail` | any of these refused, declined or lost |
| `Disconnect` | `disconnectWallet` |
| `Reload` | the page is loaded again: the store is new, the token in `localStorage` stays |
| `SwitchAccount` | the user's wallet, external; nothing in the code listens for it |

`address[f]` is the `walletAddress` the flow goes on with and `signedBy[f]` the account that
signs. A token is the wallet it names. `Submits` is what the order form checks and the gateway
asks for. `issuer`, `overtaken`, `carried` and `reloaded` are history: they tell the cases apart in which
page and token come to differ. Nonces are no part of the model: the row of `users` is written by
`getNonce` and compared by nothing, so that no two runs of the code differ by it.

### MarketFeeds

Both WebSocket endpoints. A query of a connection takes three steps, asked (with the
`lastSequence` of that moment), evaluated, handled; a connection may have several under way, from
timers that fire again, so they overtake each other. `timers` are the timers that fire and
`interval` the one variable that remembers one of them. The rows compare as the code compares them,
by number in SQL and by string in `ws/trades.ts:36`. The environment inserts rows in any order,
which is what concurrent handlers of `OrderGateway` do, subscribes, and closes the connection
at any time.

### WebClient

One `WebSocketService` and the effect of `App.tsx` that connects and disconnects it. Each callback
of a socket is an action (`Open`, `Closed`), so are the timeout (`Reconnect`) and the two halves of the
effect (`Mount`, `Unmount`). `ws` is `this.ws`: the sockets are many, the field is one, and that is
what can go wrong. `Gateway` makes the gateway unreachable and reachable again, at any time; a
server that closes a connection is one that was away for a moment. The order in which timeouts
fire is left open, since their delays differ. A closed socket is used again for a new one; `NeverForks`
shows that with as many sockets as runs of the effect there always is one.

### Slips

Each module has a section of *slips*: what one operator would be after a plausible mistake (a
strict comparison, `push_back` for `push_front`, a forgotten await). No specification uses
them. `PROJECT.json` ("mutants") names, for each property, the operator to replace by its slip;
the property must then fail in its own run.

## The runs

| run | checks | bounds |
|---|---|---|
| `engine` | the type invariant, `IndexTracksBook`, `Uncrossed`, `TimePriority`, `Conservation`, `Whereabouts`, `ReplyComplete`, `NoTradeThrough`, `LockReleased`, `ImplementsBook` | 3 ids, 2 prices, 1 or 2 lots, 4 submissions or replacements, any number of cancellations; no symmetry |
| `engine_pop` | `LevelHoldsOrder`, violated | as `engine`, 5 submissions or replacements |
| `gateway` | the type invariant, `TapeRecorded`, `OrdersRecorded`, `CancelStands`, `RowsMatchBook` | 3 requests, 8 bodies (price 1 with 1 or 2 lots, price 2 with 1; a price too big for its column, a negative price, a negative quantity, quantity 0, a text read as another word), words of 0 to 5 and columns of -3 to 2, 1 restart; requests symmetric |
| `gateway_replace` | `ReplaceAtomic`, violated | as `gateway` |
| `gateway_durable` | `DurableTrades`, violated | as `gateway` |
| `contracts` | the type invariant, `Solvency`, `SettledOnce`, `BalancesExplained` | 2 users, 2 tokens, 2 trade ids, 2 units minted of each token, 2 operators, batches of any length |
| `settlement` | the type invariant, `PaidOnce`, `SettledIsRecorded`, `ConfirmedWasIncluded`, `MovedIsMarked`, `OnlyReorgsUnsettle` | 3 trades, one of them without a wallet, 2 batches of any trades, 1 sweep from any block, other blocks up to height 2, 1 reorganisation, 1 failure; trades and batches symmetric |
| `settlement_reorg` | `AffectedMarked`, violated | as `settlement`, 2 reorganisations, no failure, no symmetry |
| `market_maker` | the type invariant, `LossesExplained`, `GoodbyeTrue`, `ShutsDown` | 3 updates of 2 quotes, 1 signal, 1 failure |
| `market_feeds` | the type invariant, `NoneSkipped`, `Streamed`, `BookConverges`, `TimersStop` | 1 connection, rows 9, 10 and 11 in any order, LIMIT 2, 2 queries at once, 2 subscriptions, 1 change of the orderbook, 1 failure |
| `web_client` | the type invariant, `NeverForks`, `Recovers` | 3 runs of the effect, 3 sockets, the code's 5 attempts, any number of outages |
| `sign_in` | the type invariant, `OrdersOwned`, `SignedOut` | 2 pages, 2 accounts, 3 flows, any number of disconnects, reloads and changes of account; all three sets symmetric |

Why the bounds are enough. Three orders are a taker and two makers, so a taker can meet two
levels, two orders of one level, or a level that a cancellation emptied; two lots make partial
fills; four submissions leave room to replace an order that rests and an order that is filled. The
theorems below hold without the bounds. Three requests make a POST and two requests that race
for its order, or three orders of which one trades with two others; every interleaving of two
requests on one order is there. Words of six values are enough for a negative number, which becomes one of the three
large words, and for a number that a word holds and a column does not. Two trade ids make a repeat within a batch and between
batches; two users make trades with another and with oneself. Two batches race for a trade,
repeat one after a failure, or settle again what a sweep took back; a sweep beside them meets
every state of their rows; one reorganisation takes out none, one or both of their transactions,
and `MaxHead` lets them come back at another height. Three updates are two that overlap and one
that comes after; two quotes are a first that is pushed while the second is under way. Two
queries at once overtake each other, and from 9 to 10 the order of strings is not that of numbers.
Three runs of the effect are the two of StrictMode and one after them. Three flows are two that
overlap, on one page or on two, and one before or after them; two accounts are one and another.
The engine, the contracts, the web client and the wallet never stop; in the other models requests run out, so
their runs do not check deadlock.

Fairness. `engine` assumes that the task that holds the mutex runs (`WF_vars(Work)`): it
never awaits while it holds it. `market_maker` assumes that requests are answered, with a result or an error, and that the
bot then goes on (`WF_vars(Serve(c) \/ Refuse(c))`, `WF_vars(Work(c))`); `market_feeds` that timers fire and
queries end; `web_client` that timeouts fire and that a socket that connects or closes does so in the
end, by an event open or close. `gateway` and `sign_in` check no
liveness: a request of either may wait for an answer or a person for as long as it likes, since no call has a deadline. No fairness is assumed of clients, failures, panics or restarts.

### What the violated runs show

- `engine_pop`: a level whose queue is empty stays a key of the map until `cleanup`, at the end of
  `submit`. An order that crosses a level emptied by a cancellation or a replacement panics on it
  (`matching.rs:60`, `:101`), and so does *every order that takes a whole level and has lots
  left*: it meets the level it just emptied. The handler's task dies, the mutex is freed, the
  trades it made are used up and no caller ever hears of them, the
  level stays and makes later orders panic until a submission that does not reach it ends with `cleanup`. The
  repository's own tests `test_cancel_order` and `test_multiple_price_levels`
  (`engine/matching-engine/src/tests/mod.rs:89-102`, `:122-137`) state the contrary.
- `gateway_replace`: a PUT whose row check came before a DELETE's update and whose call came
  after the DELETE's leaves an open order in the engine with a CANCELLED row. Two PUTs can leave
  the row with the price of the one that lost (`orders.ts:160` says atomically).
- `gateway_durable`: PUT returns the trades of its replacement and stores none
  (`docs/failure-modes.md:96`).
- `settlement_reorg`: a batch reads its receipt, a reorganisation takes the transaction out, the sweep
  comes and finds no CONFIRMED row yet, and the batch writes one (`docs/failure-modes.md:32` says
  that affected settlements are marked). Or the sweep finds a receipt again, in another block; the
  row keeps the old one, and a reorganisation of the new block finds nothing to mark, since its
  query goes by the block stored.

The passing properties say what is left: `TapeRecorded` that nothing else loses a trade before a
restart, `RowsMatchBook` that a single change of an order whose numbers are plain leaves its row right, read modulo 2^64, `CancelStands`
that a cancellation stands as long as nobody asked to replace the order; `PaidOnce` that no race
or retry of batches moves a trade twice, `SettledIsRecorded` that a mark always rests on a
transaction that did succeed once, `ConfirmedWasIncluded` that the block stored is one that held
the transaction, `MovedIsMarked` that the chain and the database disagree about a trade only after a
failure between the transaction and its bookkeeping, one batch for each, or a reorganisation
(`settlement.ts:9` says strong consistency: such a batch is never completed, and the contract refuses every later one that
names one of its trades), `OnlyReorgsUnsettle` that a sweep takes back nothing unless a reorganisation
took it out first. That `RowsMatchBook` needs the modulus comes of no race but of a missing check: POST
refuses a price or quantity that is not positive (`orders.ts:37`), PUT does not. A PUT of -5 lots is answered,
and leaves a row of -5 for an order of 2^64-5 lots.

The bot loses orders without any failure when two `cancelAllOrders` overlap (the one that ends last
forgets what the other's update has placed since), and leaves orders open when a signal comes
during an update. With an expired token it forgets all of them. `LossesExplained` and `GoodbyeTrue` state that these are the
only ways, and how many orders each of them costs. The trade stream skips a row that is inserted after a row of a higher sequence;
`NoneSkipped` states that nothing else makes it skip one, not even the comparison of strings,
which only makes it send rows twice. A second `subscribe` leaves a timer that nothing stops, since
each timer clears the one set last; `TimersStop` states that a single one does not.

In the web client `disconnect()` closes a socket whose `onclose` connects again: every cleanup of the
effect (`App.tsx:38`; StrictMode makes one at the start of each development session) leaves a second
socket, or a timeout, beside those of the next run. `NeverForks` states that it is one for each run and
that lost connections add none. Two sockets share one `this.ws`, so `onopen` of the one
subscribes the other, twice, or nobody: TLC finds a client whose only socket opens and stays
unsubscribed, because the service had turned to a socket that failed meanwhile. `Recovers` says what is left: a service that is
mounted and still trying gets a subscribed socket. "Automatic reconnection" (`docs/failure-modes.md:42`)
ends for good after five closes in a row, some 15 seconds of outage.

The four cases `OrdersOwned` excepts are all reachable, and each was found by leaving it out. A page
that is loaded again keeps the token of the last wallet; whoever then connects another account places orders for the old
one until the new login is through, and for ever if it fails (`carried`). A second page that logs in
replaces the token of the first one. A login that was on its way when the page disconnected and connected again stores the token of
the account before (`overtaken`); with no new connection it leaves a page that shows no wallet
with a token, the exception of `SignedOut`. And the account may change between
`eth_requestAccounts` and `getSigner`. That two flows on one page never mix the address of one with the signer of
the other is what `verifyWalletSignature` is for, and what `OrdersOwned` fails without.

## The proofs

`MatchingEngineProofs` proves, for every set of ids, every set of natural prices, every `MaxQty`
and `MaxRequests`, that `Spec` implies the seven invariants of run `engine`, the action
property `NoTradeThrough`, and the specification of the book, `ImplementsBook`. Assumed of the constants: prices and bounds are natural numbers,
`NoPlace` is no place, `NoOrder` is no order (named `ASSUME`s of `MatchingEngine`).

The inductive invariant `IInv` is the conjunction of six of them, `TypeOK`, `IndexTracksBook`,
`Uncrossed`, `TimePriority`, `Conservation` and `Whereabouts`. They hold each other up. That a
cancellation removes an order needs `IndexTracksBook`; that it removes only one, its second
part, no id queued twice. That a fill leaves the other queues alone, and that `filled` of taker
and maker are two different entries (`Conservation`), needs that the order being matched is not queued. That `Finish` leaves
the book uncrossed needs the loop's exit: no level of the other side crosses the taker's price.
That a resting order goes behind the others of its level needs that it is younger than all of
them (`TimePriority`). The proof has one lemma per action and one step per
conjunct; the lemmas `RetainProperties`, `RequeueProperties` and `ShrunkProperties` say what the
operations on queues return, once. `NoTradeThrough` follows from the invariant for a step
`Match(p)`: the best level of `levels` is the best non-empty one, by `IndexTracksBook`, and its head is
the oldest, by `TimePriority`. `ReplyComplete` is inductive on top of `IInv`: a match appends one trade to the
reply and to the tape and its lots to the account of the taker, and to that account once, because the taker is
not the order it meets. The property states the sum by its running totals, so that each step extends them by one.

That `Spec` implements `PriceTimeBook` (`ImplementsBook`) is proved with the same generality. Two more facts are needed beyond `IInv`: `NoOrder` is no order of the book, and
`Numbered`, that `sequence` is the length of the log. There is one lemma per action. `Match` is `Fill` because the
front of the best level comes before every other counterparty (`FrontIsFirst`: a better price by `Best`, an older
stamp by `TimePriority`), and because no other order has the id of that front (`IndexTracksBook`), so that exactly one open order
changes. `Finish` is `Settle` because every counterparty rests on a level of the map, which the loop would not have left.

`OrderGatewayProofs` proves `TypeOK`, `OrdersRecorded`, `CancelStands`, `TapeRecorded` and `RowsMatchBook`, for any requests,
bodies, word sizes and restarts, over `PriceTimeBook`. Assumed: a word has a positive number of values and restarts are bounded by a natural number,
the prices and quantities of the bodies are integers of either sign and any size, what a text may be misread as is a word, and the four null values are
none of what they stand in for. `Control` is what every part needs: the types; where a handler can be for what it asked, and what
it has by then (`Flow`); and that the handler a taker is matched for waits for it or is gone (`Held`).
`OrdersRecorded` adds that the row of an order appears with the insert of its POST (`Rows`) and that every id of
the engine comes from a POST (`Sourced`). `CancelStands` is not inductive: the engine's cancel comes before the row says so, and
in between the DELETE must already count as a cancellation (`Out`); nothing brings the id back then, since its POST is past
the engine when there is a row to cancel. `TapeRecorded` needs that replies, rows and tape tell of the same trades
(`Reported`), so that a conflict on the sequence is with the very row, and that a POST that is answered has stored its reply to the end (`Stored`).
`RowsMatchBook` speaks of orders whose requests are all answered, and says nothing of the way there. `Tracked` does: every
order in the engine, the taker included, fits the POST that has yet to insert its row, or the PUT that has yet to
update it, or its row (`Fits`, which compares by `Wire`), and then no PUT or DELETE is between the engine and its UPDATE. It holds as long as the engine ran on, no
request on the order failed, their numbers are plain and at most one alters it (`Undisturbed`); `Asked` adds that the
row this one found is still as it was, since nobody else writes it.

`ExchangeContractsProofs` proves `TypeOK`, `SettledOnce`, `Solvency` and `BalancesExplained`, for every finite
set of users (`UserAssumption`: an address has 160 bits), all tokens and ids, and batches of every length. `SettledOnce` is inductive together with `TypeOK`, since it
speaks of the working copy too: the ledger followed by the running batch settles each id once.
The other two are about sums, over all users and over the whole ledger. The fold that computes them takes one element
after the other in an order of its own; `SumIs`, `SumRemove` and `SumExtends` show, by a smallest set for which it
fails, that a sum over a finite set is any one of its terms and the sum of the others. With this `Solvency` is inductive: a deposit and
a withdrawal change the sum and what the vault owns alike, and a transfer between users changes two terms that cancel out,
or one term twice when both are the same user. `BalancesExplained` needs the same of the copy a batch works on (`RunExplained`):
that copy is explained by the ledger followed by the trades the batch has settled so far, and `Commit` publishes both at once.

`SettlementServiceProofs` proves `TypeOK`, `PaidOnce`, `SettledIsRecorded`,
`ConfirmedWasIncluded`, `MovedIsMarked` and the action property `OnlyReorgsUnsettle`, for all sets of trades,
batches and sweeps and without the bounds on blocks, reorganisations and failures (they are any natural numbers).
`PaidOnce` is inductive with types alone, except for batches not sent: what such a batch moves
changes when it is read, so it must not be on the chain (`Unsent`). `SettledIsRecorded` is the
hard one. `batchSettleTrades` marks *every* id of its request, and its transaction moved only
those its query found unsettled. For these the batch has a row of its own: the rows of a request
are inserted before it waits, and no statement removes a row (`RowsOfRequest`), and its receipt was
true when it was read (`ReceiptsTrue`). The others were settled when it asked, and the row
that said so is still there, whatever happened to their mark (`OthersRecorded`).
`OnlyReorgsUnsettle` needs that a sweep found no receipt of a transaction that once succeeded:
between the query and the UPDATE such a transaction has left the chain (`SweepsTrue`, `LeftUndone`).
`MovedIsMarked` counts, and is not inductive: a batch is forgotten when a block includes its transaction, which may be long
after the failure. `LossesCounted` counts a batch as lost from the moment it ends with its transaction sent and not known to be
reverted, so that only `FailBatch` makes one, and one each time; it needs that what is on the chain was sent, and that
between its two UPDATEs a batch has nothing unmarked but what a reorganisation took.

`MarketMakerProofs` proves `TypeOK`, `LossesExplained` and `GoodbyeTrue`, for any number of updates, signals, quotes and
failures. Both count lost orders against failed requests. An order is lost for the bot (`Lost`) when it is open and no call will come
to it, or when the request about it has failed and its call has not heard of it yet (`Doomed`): `Counted` bounds these by
`failures`, which a failure raises together with them. That no other step adds to them needs the rest of the invariant: a
loop leaves an order behind only when its DELETE was answered, and that closed it for good (`Closed`), since an order that came back is
never placed again (`Listed`); as long as no two calls of `cancelAllOrders` overlapped, the one under way goes through
the array that a late answer is pushed to (`Alone`); without a token there is nothing to lose (`Unborn`).
`GoodbyeTrue` follows, since the bot exits with that array empty and no loop under way (`Left`).

`MarketFeedsProofs` proves `TypeOK` and `NoneSkipped`, for any number of connections, of queries at
once and of subscriptions, every LIMIT, and sequence numbers below 100 (`SequenceAssumption`: the
order of strings, `After`, is defined for these; the proof uses only that they are positive
integers). `lastSequence` is not monotone and results overtake each other, so the
invariant is about every number a query was asked with and every result on its way, not about
`lastSequence` alone. A number is a *position* (`Passed`) when every row up to it was sent, came
late or is older than a first query; a result is *covered* when every row up to one of its rows is in it, or
is explained the same way. A poll asked from a position is answered with a covered result; once a
covered result is sent each of its rows is a position, whichever the comparison picks; and a row that
is inserted below a position is late by definition, because positions are rows (`Positions`).

`WebClientProofs` proves `TypeOK` and `NeverForks`, for any number of sockets, attempts and runs of the
effect; the invariant adds that the sockets alive are finitely many (`Chains`).

`SignInProofs` proves `TypeOK`, `OrdersOwned` and `SignedOut`, for any pages, accounts and flows.
Neither of the last two is inductive: `Login` sets the token to an address read several steps before.
`FlowInv` says what a flow that has read its signer, and was not overtaken, can still do: its page is
connected, with the wallet it will log in to, unless that page's signer is another account; and that
a page has a signer exactly when it has a wallet.

Every invariant and every action property that a passing run checks is stated by a theorem, and so is the refinement. Only
model-checked are the liveness properties under fairness (`LockReleased`, `ShutsDown`, `Streamed`, `BookConverges`,
`TimersStop`, `Recovers`): the prover does not reason about `ENABLED`, which fairness is made of. The properties of the
violated runs are refuted by a trace, which needs no proof.

## What is not modelled

- The limits: `rate-limit.ts` and `risk-check.ts` are middleware that no route registers. Modelling them would
  be modelling a program that does not run.
- Of signing in, the nonce: it is stored per wallet, handed to whoever asks, and compared by nothing.
- What the web trader shows. `App.tsx:33` passes a function to `setTrades`, which stores it as the trades, so that the
  first trade message breaks the page; to the socket that is an `Unmount`. `wsConnected` stays set when a
  connection is lost without an error. `OrderForm.tsx:33` multiplies in floating point, so that some prices
  arrive with a fraction. These are plain from one line each.
- Engine snapshots and replay beyond the restart: no code saves, and nothing calls `replay_from_log` or
  `append_to_log`; `services/settlement.ts` has `startMonitoring` and `verifySettlement` in the same state, and `ws.rs` is
  no part of the server.
- `Exchange.markets`: no other contract and no service reads it. `addMarket` asks that the market is not
  *active*, and says "market exists" otherwise (`Exchange.sol:68`): a market that was switched off can be added
  again with other tokens. `emergencyWithdraw` does nothing.
  `contracts/exchange/test/Exchange.test.ts:41-42` expects the deployer to own Vault and
  Settlement, while the constructor of Exchange makes Exchange their owner; lines 51-76 add
  markets with the zero address, which `Exchange.sol:69` refuses. These are constant, and no run
  is spent on them.
- Market data routes read only. The admin console has one page that does anything: it polls routes that refuse it,
  since it sends no token. Packages and infrastructure hold no logic.
- Of the implementation's lines more than half are the generated `typechain-types`; what is left beside
  the code above is imports, types, markup, read-only routes, configuration and the code nothing calls.

## The plan

1. *Done:* `MatchingEngine`, `PriceTimeBook`, the refinement as a run, the proofs of the engine;
   `OrderGateway`; `ExchangeContracts` and the proof of `SettledOnce`.
2. *Done:* `SettlementService` and its proofs.
3. *Done:* `MarketFeeds` and the proof of `NoneSkipped`.
4. *Done:* `MarketMaker`.
5. *Done:* `WebClient` and its proofs.
6. *Done:* `SignIn` and its proofs; signing in and expiry in `MarketMaker`; the operator and mints in
   `ExchangeContracts`; `MovedIsMarked`.
7. *Done:* `ImplementsBook` as a theorem; the proofs of `OrderGateway`.
8. *Done:* the proofs of `MarketMaker`, `Solvency`, `BalancesExplained`, `MovedIsMarked`, `RowsMatchBook` and
   `ReplyComplete`.
9. The safety half of the liveness properties, as invariants: what holds of a state from which the client recovers
   or the stream goes on, so that only the last step rests on fairness.
