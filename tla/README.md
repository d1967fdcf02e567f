# DexExecutorgo in TLA+

DexExecutorgo watches the mempool of a chain for the swaps of competitors and,
when one concerns a pair for which a trading signal is at hand, publishes an
order for the same trade with a slightly higher gas price. This directory holds
its specification: modules translated from the Go source, TLC configurations
that check them on small instances, and proofs checked by TLAPS.

`node_mgr.go:106` and the like refer to `src/core/`.

## 1. The system

| Component | State it keeps | Operations | Talks to |
|---|---|---|---|
| **Analyser** `NodeMgr.GasPriceAnalyse` (node_mgr.go:114-322) | `PendingTxList`, `Signals`, locals of the running handler | a select over context, `PendingTxChan`, `SignalChan`; decode, `RebuildTx`, block check, `Trade`; recover and restart | reads `HeaderWsList`; RPC endpoint; NATS publisher |
| **Header goroutine** `NodeMgr.SubGethBlockHeader` (84-112) | `HeaderWsList` | receive a header, trim, append; recover and restart | newHeads subscription |
| **Decoders** `RouterDecoder`, `CallClientDecoder` (328-489) | constant tables | call data to symbol; `debug_traceCall` and receipt in two goroutines joined by a WaitGroup | RPC endpoint |
| **NodeClient** (ethwebsocket.go) | two clients, two subscriptions over one websocket | dial, subscribe, retry every 5 s | geth client library |
| **NATS subscriber** (nats_sub.go) | `ReceiveSignalChan`: a channel per project | `SignalMsgHandler` finds the channel by the subject and hands the message over, unbuffered | NATS, the analysers of all chains |
| **Start-up** (main.go, config.go) | the tables of every chain | read configuration and pairs, build tables, dial, start goroutines | all |
| **WsConn** (websocket.go, node_ws.go) | connection, four buffered channels, close channel, reconnect lock | reader, writer, `Reconnect`, `Close`, `CloseWs`, `Send*`, `Subscribe`, heartbeat | server, owner |
| Legacy handlers (node_ws.go:12-36, 69-112) | `NodeClient.HeaderWsList` | append a header | WsConn; nothing calls them |

What is hard: the analyser and the header goroutine share a slice without a
lock; every index into that slice may panic, and a panic unwinds the handler
half way and restarts it; the handler waits for RPC calls without a timeout while headers,
signals and transactions go on arriving; subscriptions die silently; main starts
subscribers before the chains they feed exist, and dies half way if a dial
fails; and in WsConn two goroutines reconnect the same connection, through a lock, a
bounded channel that only one of them drains, and a "closed?" test that takes a message away.

What makes each component correct:

* Analyser: signals are neither lost, repeated nor reordered by panics and trims;
  an order is built from the newest signal of its symbol; it is published only if
  its trade block is still ahead; it outbids the competitor as far as its fee cap
  allows; one competitor transaction leads to one order at most; and every signal is taken in the end.
* Header list: between pushes it is the newest part of the headers, and a reader
  sees its last element.
* Decoders: the two goroutines and the shared variables amount to one step; a
  mined transaction is no rival; the decoder returns if its calls do.
* Chains: each gets its own signals in order, a stuck one holds up no other,
  addresses are recognised, and start-up ends with all of them or with none.
* WsConn: a new connection always has its subscription on the way; reconnecting
  ends; giving up and closing end the goroutines.

`PROJECT.json` lists every hazard at its line, with the properties about it.

## 2. Modules

| Module | Contents |
|---|---|
| `RecentList` | the list that drops its oldest `Drop` items once longer than `MaxLen` (200 and 100 in the code), used three times by NodeMgr |
| `Decoders` | what the two decoders return and where they panic |
| `NodeMgr` | one chain's executor: analyser, header goroutine, NodeClient, NATS hand-over, environment |
| `OrderDesk` | the abstract specification NodeMgr implements |
| `HeaderRace` | the header slice as shared memory, word by word |
| `CallTrees` | the trees `debug_traceCall` returns, `GetAllAddress`, and its reference definition |
| `CallDecoder` | `CallClientDecoder.DecodeToSymbol` with its two goroutines; the walk through a tree is a constant operator |
| `DecodeStep` | the single step that `CallDecoder` implements; what NodeMgr's `Decoded` allows is at least that |
| `ChainTables` | the tables main builds from the configuration, and `LoadPairsConfig` |
| `Chains` | the whole process: main, the NATS subscribers, and of each analyser only whether it can receive |
| `SignalFeed` | the abstract specification `Chains` implements |
| `WsConn` | the reconnecting websocket |
| `MC*` | instances for TLC |
| `RecentListProofs`, `NodeMgrProofs`, `HeaderRaceProofs`, `CallDecoderProofs`, `ChainsProofs`, `WsConnProofs` | theorems and proofs |

The three views of one chain fit together as follows. `HeaderRace` justifies
`HeaderReads` of `NodeMgr`, `CallDecoder` justifies its action `Decoded`, and
`Chains` justifies that `NodeMgr` may look at one chain alone: what a chain is handed
is `SignalFeed`, whatever the other chains do.

### NodeMgr

`aPc` is where the analyser is. A transaction takes it from `select` either
straight to `rebuild` (`RecvRouterTx`: decoding is local) or to `decode`
(`RecvEnemyTx`: it waits for two RPC calls, whose results `Decoded` chooses),
and then through `rebuild` (first read of the header list, line 204) and
`check` (second read, line 207) to `publish`. A panic at any of these places
goes to `panic`, and `Restart` is the deferred function. `hPc` is where the header
goroutine is; `RecvHead` and `StoreHead` are the beginning and the end of the
assignment of `HeaderWsList`.

*Granularity.* The goroutines share only `HeaderWsList`. Every analyser
action reads it at most once, and a read between `RecvHead` and `StoreHead`
may be torn: `HeaderReads` gives the outcomes. `HeaderRace` shows that
these are all the outcomes, by modelling the two assignments (trim, append, with
growth of the array) and the read as single stores and loads in any order. Both
modules take what a torn read may see from one operator, `OverlappedReads` of
`RecentList`, so that what is proved of one is what the other assumes.
It covers a read that overlaps one push; the code reads two words, headers are
seconds apart, so an overlap with two is left out. The constant `Torn`
switches torn reads off, to tell what fails because of them.

*Data.* A symbol is a pair of tokens; call data is reduced to how far it decodes
(`shape`, `path`); of a list of symbols only the first element and emptiness
matter to the code. Prices are integers, `BaseGasPrice` a fraction with
denominator `WeiFraction`, and `Uint64` is the conversion of `math/big`: the
magnitude of a negative number, modulo `Uint64Range`. An order is a dynamic-fee
transaction: its tip is `NewGasPrice`, computed from the competitor's price, but its fee
cap `MaxFeePerGas` is copied from the signal (line 247), and what it pays per gas at a
base fee is the smaller of cap and base fee plus tip (`EffectiveGasPrice`). The
competitor's price is what `tx.GasPrice()` returns, which is the fee cap if that is a dynamic-fee
transaction too.

*Ghosts.* `floor` (newest stored block when the transaction was taken)
and `accepted` (every signal appended) record history for the properties; no
guard reads them.

*Environment assumptions.* Block numbers only rise (no reorganisation); each
transaction is announced once; the clock is past the first minute of 1970; NATS
delivers each signal once, one at a time. Subscriptions may die, RPC calls and
publications may fail.

### CallDecoder

`pc` has the caller and the two goroutines, `wg` is the counter of the WaitGroup,
`addresses` and `alreadyOnChain` are the variables they share. `alreadyOnChain`
starts as true and is lowered by any error of the receipt call, "not found"
included; a trace that fails leaves `addresses` empty. The transaction may be
mined at any moment. `minedBefore` and `receiptFailed` are ghosts. `GetAllAddress`
is the code's recursion; `InCallOrder` says the same without it: the addresses of
all calls, sorted by the path that leads to them. Both are in `CallTrees`, which is
written with `RECURSIVE`; `CallDecoder` and `DecodeStep` know them as the constant operators
`AllAddresses` and `EntryOrder`, to which `MCDecoder.cfg` gives those two, so
that the goroutines and their WaitGroup can be proved about for every walk.

### Chains

`mainPc` walks main's loop: `range` (take the map's next key, any of those
left, and start its subscriber), `tables`, `dial` (both clients), `execute`, and
`wait` at the end. `dead` is a panic of main, which ends the process with every
chain. `analyser[c]` is `off`, `select` (ready to receive) or `decode` (busy with
RPC calls). Between NATS and the analyser a signal is in `pending[c]`, then `inHand[c]`
(the handler is blocked on it), then `accepted[c]`; `sent` is the history, and
the refinement to `SignalFeed` joins `inHand` and `pending` to what waits.
An address is a record of an account and a spelling, because the look-up is by string:
main lowers the addresses of competitors and pairs, but not those of routers and
tokens. A map that is inverted by a loop over it (`newRouter[vv] = kk`) may
become any table that picks one name per address: `Inversions`.

### WsConn

In this program websocket.go is reached only through `SubPendingTx` and `SubBlockHeader`
(node_ws.go:12-67), which main never calls; it is modelled as the library that
it is, with `EstablishConn` as its owner.

`conn` is the field `c`: up, broken by the network,
or closed. `current[g]` says whether the connection that goroutine `g` loaded is
still the one in `c`; a replaced connection was closed by `Reconnect`, so it
fails. `buf` is `writeBufferChan`, `control` counts what the channels for pings,
pongs and close messages hold; `IsChanClose` is the code's test, which
receives, and `AfterIsChanClose` what that leaves in the channel. `handlers` says
whether the ping handler is installed on `c`: only the first connection ever has it.
`WsConfig` is what the builder was told (automatic reconnect, heartbeat); the hook that
subscribes again is that of `EstablishConn`, and `CustomSub` would be the same step.
A read may time out although the connection is up (`ReadTimesOut`).
`CloseWs` is one step although it closes five channels and the connection one after
the other; no goroutine could act on the difference except by stopping a little earlier.

## 3. Runs

All instances have a finite environment; after it has done all it may, the
program waits in its selects for ever, as it should. That is why deadlock checking
is off.

| Run | Module | Checks | Instance |
|---|---|---|---|
| `orders` | MCNodeMgr | `TypeOK`, `TradesNewestSignal`, `OrdersPassBlockCheck`, `OutbidsCompetitor`, `ImplementsOrderDesk` | three transactions: of a competitor, priced below the base fee of a signal, a router swap, one of nobody's concern; three signals of two symbols with a high and a low fee cap, so that lists trim (`MaxLen` 1); two blocks, and a clock that passes the end of a minute; no torn reads |
| `signals` | MCNodeMgr | `NewestSignalsKept`, `NeverCancels`, `ImplementsOrderDesk`, `SignalsAccepted` | fairness; three signals, one without separator, and a malformed message, through a list that trims; a competitor's transaction and one that panics in the decoder; torn reads, dead feeds, overflow of geth's buffer, cancelled context |
| `header_race` | MCHeaderRace | `SliceHoldsList`, `ReadsAsNodeMgrSays` | nine pushes at `MaxLen` 4: growths of the array, trims that append in place and a growth behind a trim |
| `decoder` | MCCallDecoder | `TypeOK`, `MinedIsNoRival`, `ImplementsDecodeStep`, `ReturnsIfAnswered` | every call tree over three addresses, two levels deep with at most two calls each, and a competitor calling two of those: so several pairs, in every order and nesting |
| `chains` | MCChains | `TypeOK`, `ImplementsFeeds`, `OthersServed`, `AllOrNothing` | two projects on one chain and one on another; two signals for the first and one for the second; an endpoint that may refuse the connection, two that may never answer; a second pairs file, a malformed key; routers in lower and in checksum case; NATS keeps one message |
| `ws_reconnect` | MCWsConn | `TypeOK`, `SubscriptionOnItsWay`, `HookHasRoom`, `ReconnectReturns` | fairness of `Reconnect`; with and without automatic reconnect; a buffer of 3, one failure of the network, a failing dial of at most 2, a ping, a message and a close message of the owner, who calls `Close` or `CloseWs` |

The bounds are enough for what they are for: the list of signals (`orders`, `signals`) and
the one of headers (`header_race`, `torn_check`) pass their trim, geth's buffer overflows, a competitor's transaction can meet any
number of stored headers from none on, and the actors in each property (two
transactions with two signals, reader with writer and owner, two chains that share a
name) all take part. The safety properties hold on larger instances for a reason
other than a run: section 4 proves each of them for all values of the constants.

Six runs end in a violation, each of something the repository itself says:

| Run | Property | What happens |
|---|---|---|
| `wrong_symbol` | `OrderMatchesSymbol` | `GetLastSignalBySymbol` returns the oldest signal when none has the symbol (314-322): an order for another pair is published |
| `torn_check` | `OrdersPassBlockCheck` | with torn reads the block check (206-207) compares with an old header |
| `stale_guard` | `StaleHeaderRefused` | `time.Now().Second()`, the second within the minute, is compared with a unix time (195-196), so the limit of two seconds never applies |
| `router_case` | `RoutersRecognised` | routers keep the spelling of the configuration (main.go:24), transactions carry lower case: the two routers of conf/config_online.toml:32-33, in checksum case, are never recognised, and the router decoder is never called |
| `ws_give_up` | `ExitsAfterRetries` | `Reconnect` calls `CloseWs`, which takes the lock that `Reconnect` holds (websocket.go:249, 274, 478) |
| `ws_close` | `CloseIsClean` | a queued message makes a closed channel look open (468-475): send on a closed channel |

The theorems `StaleGuardIsDead` and `ChainsRecogniseAsSpelt` say exactly when the properties
of `stale_guard` and `router_case` fail: for every clock past the first minute of 1970, and
for every router not configured in lower case.

Two more oddities of the code are stated as what it does. `OutbidsCompetitor`: nothing in
`RebuildTx` or `Trade` compares the signal's fee cap with the competitor's price, so an order
whose cap is too low is published although it must lose; the property therefore speaks of orders whose
cap leaves room. `AllOrNothing`: one endpoint that cannot be dialled ends the
process and with it the chains already at work.

### Fairness

`NodeMgr!FairSpec`: the handler of a transaction goes on (weak fairness: its RPC calls
return, which is an assumption about the endpoint, for the code gives them no timeout), a
panicked goroutine is started anew, and since a Go select picks at random among the ready
cases, a signal that is ready again and again is taken (strong fairness of `RecvSignal`).
Nothing is assumed of the environment, the header goroutine or the other cases.

`CallDecoder!FairSpec` makes that assumption explicit: the calls in the constant
`Answering` are sure to answer, successfully or not, the others need not.

`Chains!FairSpec`: main goes on and a dial returns in the end, either way (an assumption:
the code passes no deadline to the dials of `NewNodeMgr`, and main would wait with them); the
goroutines of the subscribers run; an analyser in its select takes a waiting signal in
the end (strong fairness, for transactions compete with it); only the endpoints of
`Answering` are sure to answer. `OthersServed` is about exactly these chains: the
others may hang for ever, and it still holds.

`WsConn!FairReconnect`, for `ReconnectReturns`: a step inside `Reconnect` that can be taken again
and again is taken, of reader and writer each: the mutex starves nobody and a dial,
whose handshake has a timeout, returns. `WsConn!FairSpec`, for `ExitsAfterRetries`: all the
program's goroutines run, the mutex and the select starve nobody, a dial
either fails (boundedly often) or succeeds. Even then the websocket need not be
subscribed in the end: reader and writer may close each other's fresh
connections for ever. That schedule needs the same narrow timing each round, and
the code says nothing that excludes it, so no property claims the contrary.
`ReconnectReturns` needs a buffer the owner's messages cannot fill
(`BufCap` 1 breaks it: the hook then waits for a writer that waits for the hook).

## 4. Proofs

Every theorem holds for all values of the constants under the assumptions named in
the modules (`NodeMgrAssumption`, `RecentListAssumption`, `HeaderRaceAssumption`,
`CallDecoderAssumption`, `ChainsAssumption`, `WsConnAssumption`), which TLC evaluates on every run.

| Theorem | Statement | Argument |
|---|---|---|
| `NodeMgrProofs!TypeCorrect` | `[]TypeOK` | inductive; the parts of `TypeOK` are taken per group of actions |
| `SignalsKept` | `[]NewestSignalsKept` | inductive with `TypeOK`; `PushKeepsRecentPart` about `RecentList` |
| `NewestSignalTraded` | `[]TradesNewestSignal` | from the two above: `RebuildTx` finds the last match, and while the order is in the making nothing touches the list |
| `CancelUnreachable` | `[]NeverCancels` | the decoders never return symbols with "on chain" |
| `HeadersStayInOrder` | `[]HeadersInOrder` | numbers increase along stored, received, queued and future headers |
| `StaleGuardIsDead` | the limit of line 196 never applies to a stored header | header times are at least `Epoch`, a second within the minute is less |
| `UntornBlockCheck` | `~Torn => []OrdersPassBlockCheck` | `BlockCheckInv`: the floor of an order in the making is at most the last header, and only grows beneath it |
| `OrdersOutbid` | `[]OutbidsCompetitor` | the magnitude of a negative difference still outbids; that it fits uint64 follows from the cap, which is a uint64 above it |
| `Refinement` | `Spec => ImplementsOrderDesk` | `DeskInv`: a transaction is waiting, in hand or answered, in one of these only, and the order in hand uses a listed signal |
| `OneOrderPerTransaction` | no two orders in `published` have one transaction | from `DeskInv`: the transaction in hand is not among the answered ones |
| `SignalsStoredOnce` | a delivered signal is handed over or stored, not both, and stored once | `SignalPlaces`: the signals are shared out among those not delivered, the queue and the history. The safety half of `SignalsAccepted` |
| `HeaderRaceProofs!SliceIsTheList` | `[]SliceHoldsList` | `SliceInv`: the words not yet stored are all that the field and its target differ in, and the target holds the trimmed list in any array it points to |
| `ReadsAreHeaderReads` | `[]ReadsAsNodeMgrSays` | `WindowInv` says what the slots behind the old and the new pointer hold while a push is under way, `ReaderInv` that the words a reader has loaded, or would load now, are a length and a pointer from that window; `WindowSlot`: any such pair leads to a read that `OverlappedReads` allows |
| `CallDecoderProofs!DecoderTypeCorrect` | `[]TypeOK` | `PhaseInv`: both goroutines start with one step of the caller; `CountAtWork`: the counter is the sum over the two |
| `MinedTransactionIsNoRival` | `[]MinedIsNoRival` | `MinedInv`: unless the receipt call fails, `alreadyOnChain` is never lowered for a transaction that was mined before |
| `ReturnsWhenBothAreGone` | an outcome only with both goroutines gone | from `TypeOK`: a counter of zero means none at work |
| `DecoderImplementsStep` | `Spec => ImplementsDecodeStep`, if `AllAddresses` is `EntryOrder` on the calls of `Calls` | every step but `GetMined` and `Return` stutters; `Return` reads either no addresses or those of this trace, and by `MinedInv` an `alreadyOnChain` that is true only of a mined transaction |
| `ChainsProofs!ChainsImplementFeeds` | `Spec => ImplementsFeeds` | `TypeFeeds` and the fact that what is in hand for a chain is its own; every step of `Chains` is a `Send`, a `Take` or a stutter |
| `ChainsTypeCorrect` | `[]TypeOK` | inductive: an analyser is started only past `execute`, where the tables and the clients are there |
| `ChainsRecogniseAsSpelt` | a running chain recognises a competitor in whichever case it is configured, a router in lower case only | from `ChainsTypeCorrect`; lowering makes one address of all the spellings of an account |
| `MainWaitsForAll` | `mainPc = "wait"` implies that every chain was started | `PastMain`: a chain taken from `todo` runs, or main is still on it. The safety half of `AllOrNothing` |
| `WsConnProofs!WsTypeCorrect` | `[]TypeOK` | inductive: `LockFollowsHolder` ties the lock to where the two loops are |
| `WsSubscribesAgain` | `[]SubscriptionOnItsWay` | with `TypeOK`: whoever takes the queued subscription away is about to replace the connection |
| `WsCleanWithoutCloseWs` | `[]CloseIsClean` if the owner never calls `CloseWs` | `ChansOpen`: who gives up never gets the lock that `CloseWs` needs, so nothing closes the channels |
| `WsHookHasRoom` | `[]HookHasRoom`, if the buffer is larger by two than the number of messages the owner puts there | `QueueInv`: what is queued, still to be sent by the owner, and owed by a `Reconnect` under way, fits the buffer; a `Reconnect` takes a message away before it queues one, unless the channel was empty |
| `WsGivingUpIsForEver` | a loop that gave up keeps its place and the lock in every step | from the lock part of `TypeOK` |

The invariants that runs check are not inductive as they stand: `OrdersPassBlockCheck`
says nothing of an order in the making, `ImplementsOrderDesk` nothing of
the transactions queued, `SliceHoldsList` nothing of an assignment under way,
`ReadsAsNodeMgrSays` nothing of a reader that has loaded one word of two, and `HookHasRoom`
nothing of the messages still to come, hence `BlockCheckInv`, `DeskInv`, `SliceInv`,
`WindowInv` with `ReaderInv`, and `QueueInv`.

What the theorems assume beyond the modules is what the table says. `UntornBlockCheck`: false without it, as `torn_check`
shows. `DecoderImplementsStep`: that the walk of lines 481-489 lists the calls in the
order they are entered; run `decoder` checks exactly this, for every call tree of its instance.
`WsHookHasRoom`: the size of the owner's traffic, since with a full buffer the hook does wait;
the code's channel has 10 places (websocket.go:180), and an owner sends it a few subscriptions.

Every safety property that a passing run checks is also proved. Model-checked only:

* liveness (`SignalsAccepted`, `ReturnsIfAnswered`, `OthersServed`, `AllOrNothing`,
  `ReconnectReturns`): temporal reasoning under fairness and `ENABLED` are beyond the prover.
  Their safety halves are proved where they have one: `SignalsStoredOnce`,
  `ReturnsWhenBothAreGone`, `MainWaitsForAll`, `WsHookHasRoom`;
* that `GetAllAddress` lists the calls as `InCallOrder` does: an induction over trees.

## 5. Not modelled

* The legacy handlers `HeadsHandler` and `PendingTxHandler`: nothing calls
  `SubPendingTx` or `SubBlockHeader`, and they are sequential.
* The fields of an order beyond signal, priority fee and fee cap (node_mgr.go:234-303): data
  copied from the signal. What is kept of them is whether building them panics.
* The time between a close frame and the end of the connection: the frame ends it for the
  reader at once.
* The callbacks of WsConn that keep nothing (`ErrorHandleFunc`, `PreReconnectHook`,
  `DecompressFunc`) and the number of writes of a heartbeat stream.
* Configuration files that cannot be read (the process ends before it begins),
  logging, wire types, the test program.

## 6. Plan

1. The composition as a refinement: `NodeMgr`, seen from NATS, implements the
   `SignalFeed` of one chain (with a history of what was sent), so that `Chains` and `NodeMgr` meet in one abstract specification.
2. Both recoveries and the cancelled context as action properties of `NodeMgr`: what a panic or
   a cancelled context may change of the lists and of what was published, and their proofs.
3. `ExitsAfterRetries` turned round: with fewer failing dials than `MaxRetry` the lock is
   given back by every step that ends a `Reconnect`, as a theorem of `WsConn`.
