------------------------------ MODULE NodeMgr ------------------------------
(***************************************************************************)
(* One chain's NodeMgr: the goroutine GasPriceAnalyse (competitor          *)
(* transactions and trading signals in, orders out), the goroutine         *)
(* SubGethBlockHeader (block headers in) and what surrounds them: the geth *)
(* websocket with its two subscriptions, the NATS subscriber and the RPC   *)
(* endpoint.                                                               *)
(*                                                                         *)
(* Granularity.  HeaderWsList is the only state the two goroutines share,  *)
(* and no lock guards it.  Every analyser action reads it at most once; the*)
(* write of it is a store with a begin (RecvHead) and an end (StoreHead),  *)
(* so that a read can fall inside the store: a data race, whose outcomes   *)
(* HeaderReads gives.                                                      *)
(*                                                                         *)
(* Data.  A symbol is the pair of its tokens; addresses, hashes and call   *)
(* data are abstract; of a transaction's symbolList only the first element *)
(* and emptiness matter to the code, so a handler keeps that element.      *)
(***************************************************************************)
EXTENDS RecentList, Decoders

CONSTANTS
  Txs,            \* pending transactions: records [hash, to, gasPrice, input]
  SignalMsgs,     \* signals: [id, symbol, tradeBlock, base, maxFee, wellFormed]
  Malformed,      \* a message on the signal subject that does not unmarshal
  RouterMap,      \* address -> dex name (main.go:22-25)
  Enemies,        \* addresses of competitors (main.go:32-36)
  Traces,         \* address lists a debug_traceCall may return
  None, Nil, NoHeader,  \* no transaction or signal; a nil header; no header
  WeiFraction,    \* Signal.base counts 1/WeiFraction of a wei
  Uint64Range,    \* 2^64 in the code
  Torn,           \* may a header read that overlaps the store be torn?
  Cancellable     \* does an owner cancel the context? (main never does)

CONSTANTS         \* bounds of the environment
  FirstBlock, LastBlock,  \* the blocks mined while the program runs
  Epoch, LastSecond,      \* unix time at the start, and its bound
  SubBuffer               \* geth buffers this many transactions

(* The clock is past the first minute of 1970, which is all that matters of *)
(* it; prices and rates are in range; a trace is a finite list of addresses.   *)
ASSUME NodeMgrAssumption ==
  /\ {FirstBlock, LastBlock, SubBuffer, LastSecond} \subseteq Nat
  /\ Epoch \in Nat /\ Epoch >= 60
  /\ WeiFraction \in Nat \ {0} /\ Uint64Range \in Nat \ {0}
  /\ \A t \in Txs : t.gasPrice \in Nat
  /\ \A s \in SignalMsgs : s.tradeBlock \in Int /\ s.base \in Nat /\ s.maxFee \in Int
  /\ Malformed \notin SignalMsgs
  /\ \A trace \in Traces : trace \in Seq(Range(trace))
  /\ Torn \in BOOLEAN /\ Cancellable \in BOOLEAN

VARIABLES
  \* the environment
  now,            \* wall clock, unix seconds
  nextBlock,      \* number of the block mined next
  unsentTxs, unsentSignals,
  ctxDone,        \* the context is cancelled
  sub,            \* the two geth subscriptions: "none", "live" or "dead"
  headQ, txQ,     \* what geth buffered for the two channels
  signalQ,        \* what NATS hands to SignalMsgHandler, one at a time
  \* goroutine SubGethBlockHeader
  hPc,            \* "subscribe", "select" or "store"
  newHead,        \* the header being stored
  headerWsList,
  \* goroutine GasPriceAnalyse
  aPc,            \* "select", "decode", "rebuild", "check", "publish", "panic"
  job,            \* locals of the transaction handler
  pendingTxList, signals,
  \* effects and history
  cancelled,      \* CancelTx was called
  published,      \* orders published on NATS
  accepted        \* every signal appended to Signals, oldest first

envVars     == <<now, nextBlock, unsentTxs, unsentSignals, ctxDone>>
feedVars    == <<sub, headQ, txQ>>
headerVars  == <<hPc, newHead, headerWsList>>
listVars    == <<pendingTxList, signals, accepted>>
effectVars  == <<cancelled, published>>
vars == <<envVars, feedVars, signalQ, headerVars, aPc, job, listVars, effectVars>>

Header == [number : Nat, time : Nat]

(* floor is a ghost: the newest block stored when the handler took the     *)
(* transaction.                                                            *)
IdleJob == [tx |-> None, symbol |-> NoSymbol, signal |-> None, floor |-> 0]

NodeMgrInit ==
  /\ now = Epoch
  /\ nextBlock = FirstBlock
  /\ unsentTxs = Txs
  /\ unsentSignals = SignalMsgs \cup {Malformed}
  /\ ctxDone = FALSE
  /\ sub = [feed \in {"heads", "txs"} |-> "none"]
  /\ headQ = <<>> /\ txQ = <<>> /\ signalQ = <<>>
  /\ hPc = "subscribe"
  /\ newHead = Nil
  /\ headerWsList = <<>>
  /\ aPc = "select"
  /\ job = IdleJob
  /\ pendingTxList = <<>> /\ signals = <<>> /\ accepted = <<>>
  /\ cancelled = FALSE
  /\ published = <<>>

----------------------------------------------------------------------------
(* The environment: the chain, the node's websocket, NATS, the owner.      *)

Tick == /\ now < LastSecond
        /\ now' = now + 1
        /\ UNCHANGED <<nextBlock, unsentTxs, unsentSignals, ctxDone, feedVars, signalQ,
                       headerVars, aPc, job, listVars, effectVars>>

(* A block is mined; a live newHeads subscription buffers its header. *)
Mine ==
  /\ nextBlock <= LastBlock
  /\ nextBlock' = nextBlock + 1
  /\ headQ' = IF sub["heads"] = "live"
              THEN Append(headQ, [number |-> nextBlock, time |-> now]) ELSE headQ
  /\ UNCHANGED <<now, unsentTxs, unsentSignals, ctxDone, sub, txQ, signalQ,
                 headerVars, aPc, job, listVars, effectVars>>

(* The node announces a transaction.  When geth's buffer for the channel is *)
(* full it ends the subscription, and nothing of the program reads          *)
(* subscription.Err(): the feed stays dead.                                 *)
AnnounceTx(t) ==
  /\ t \in unsentTxs
  /\ sub["txs"] = "live"
  /\ unsentTxs' = unsentTxs \ {t}
  /\ IF Len(txQ) < SubBuffer
     THEN txQ' = Append(txQ, t) /\ UNCHANGED sub
     ELSE txQ' = <<>> /\ sub' = [sub EXCEPT !["txs"] = "dead"]
  /\ UNCHANGED <<now, nextBlock, unsentSignals, ctxDone, headQ, signalQ,
                 headerVars, aPc, job, listVars, effectVars>>

(* NATS delivers a message of this chain's subject; SignalMsgHandler blocks *)
(* on the unbuffered SignalChan until the analyser receives it.             *)
SendSignal(m) ==
  /\ m \in unsentSignals
  /\ unsentSignals' = unsentSignals \ {m}
  /\ signalQ' = Append(signalQ, m)
  /\ UNCHANGED <<now, nextBlock, unsentTxs, ctxDone, feedVars,
                 headerVars, aPc, job, listVars, effectVars>>

(* The websocket breaks.  Both subscriptions share it and neither is renewed. *)
DropConnection ==
  /\ \E feed \in DOMAIN sub : sub[feed] = "live"
  /\ sub' = [feed \in DOMAIN sub |-> IF sub[feed] = "live" THEN "dead" ELSE sub[feed]]
  /\ headQ' = <<>> /\ txQ' = <<>>
  /\ UNCHANGED <<envVars, signalQ, headerVars, aPc, job, listVars, effectVars>>

Cancel ==
  /\ Cancellable /\ ~ctxDone
  /\ ctxDone' = TRUE
  /\ UNCHANGED <<now, nextBlock, unsentTxs, unsentSignals, feedVars, signalQ,
                 headerVars, aPc, job, listVars, effectVars>>

(* wsClient.Close(): both feeds end, and a later subscribe fails for ever. *)
CloseWsClient == /\ sub' = [feed \in DOMAIN sub |-> "dead"]
                 /\ headQ' = <<>> /\ txQ' = <<>>

----------------------------------------------------------------------------
(* Execute's own goroutine: subscribe to the pending transactions, retrying *)
(* every five seconds while it fails (a failed try changes nothing).        *)

SubscribeFullPendingTransactions ==
  /\ sub["txs"] = "none"
  /\ sub' = [sub EXCEPT !["txs"] = "live"]
  /\ UNCHANGED <<envVars, headQ, txQ, signalQ, headerVars, aPc, job, listVars, effectVars>>

----------------------------------------------------------------------------
(* Goroutine SubGethBlockHeader.                                           *)

SubscribeNewHeads ==
  /\ hPc = "subscribe" /\ sub["heads"] = "none"
  /\ hPc' = "select"
  /\ sub' = [sub EXCEPT !["heads"] = "live"]
  /\ UNCHANGED <<envVars, headQ, txQ, signalQ, newHead, headerWsList, aPc, job,
                 listVars, effectVars>>

HeaderCtxDone ==
  /\ hPc = "select" /\ ctxDone
  /\ CloseWsClient
  /\ UNCHANGED <<envVars, signalQ, headerVars, aPc, job, listVars, effectVars>>

RecvHead ==
  /\ hPc = "select" /\ headQ # <<>>
  /\ headQ' = Tail(headQ)
  /\ IF Head(headQ).number = 0
     THEN UNCHANGED <<hPc, newHead>>
     ELSE hPc' = "store" /\ newHead' = Head(headQ)
  /\ UNCHANGED <<envVars, sub, txQ, signalQ, headerWsList, aPc, job, listVars, effectVars>>

StoreHead ==
  /\ hPc = "store"
  /\ headerWsList' = Push(headerWsList, newHead)
  /\ hPc' = "select" /\ newHead' = Nil
  /\ UNCHANGED <<envVars, feedVars, signalQ, aPc, job, listVars, effectVars>>

----------------------------------------------------------------------------
(* What n.HeaderWsList[len(n.HeaderWsList)-1] yields.  On an empty list the *)
(* index panics.  A read that overlaps the store may pair a word of the old *)
(* slice with a word of the new one.  It then yields nil (a slot not stored *)
(* to yet, or one behind the array: both fault when followed), the new      *)
(* header or, when the store trims, one that is Drop headers old (the new   *)
(* length with the old pointer).  Module HeaderRace has the stores and the  *)
(* loads one by one.                                                        *)

LatestHeader == IF headerWsList = <<>> THEN NoHeader ELSE Last(headerWsList)

HeaderReads ==
  {LatestHeader} \cup
  (IF Torn /\ hPc = "store" THEN {Nil} \cup OverlappedReads(headerWsList, newHead) ELSE {})

(* Mutant: the number of the latest block itself. *)
PendingBlockNumLatest(h, t) == IF (t % 60) - h.time > 2 THEN 0 ELSE h.number

(* time.Now().Second() is the second within the minute, 0 to 59. *)
GetPendingBlockNum(h, t) == IF (t % 60) - h.time > 2 THEN 0 ELSE h.number + 1

----------------------------------------------------------------------------
(* Mutant: the search runs from the oldest signal. *)
FirstSignalBySymbol(list, symbol) ==
  LET i == SelectInSeq(list, LAMBDA s : s.symbol = symbol)
  IN list[IF i = 0 THEN 1 ELSE i]

(* The newest signal of that symbol.  The named result keeps the last one   *)
(* looked at, so without a match the oldest signal of the list is returned. *)
GetLastSignalBySymbol(list, symbol) ==
  LET i == SelectLastInSeq(list, LAMBDA s : s.symbol = symbol)
  IN list[IF i = 0 THEN 1 ELSE i]

(* big.Int.Uint64 of a negative number is the low word of its magnitude. *)
Uint64(x) == (IF x < 0 THEN -x ELSE x) % Uint64Range

(* int64(BaseGasPrice * 10^9) *)
BaseGasPrice(signal) == signal.base \div WeiFraction

(* Mutant: the one wei on top of the competitor's price is left out. *)
NewGasPriceEqual(signal, t) == Uint64(t.gasPrice - BaseGasPrice(signal))

(* Mutant: the difference is used without the conversion to uint64. *)
NewGasPriceSigned(signal, t) == 1 + t.gasPrice - BaseGasPrice(signal)

NewGasPrice(signal, t) == Uint64(1 + t.gasPrice - BaseGasPrice(signal))

----------------------------------------------------------------------------
(* Goroutine GasPriceAnalyse.                                              *)

(* A panic unwinds the goroutine: the transaction in hand is gone. *)
Panics == aPc' = "panic" /\ job' = IdleJob

NextCase == aPc' = "select" /\ job' = IdleJob

TakeTx == aPc = "select" /\ txQ # <<>> /\ txQ' = Tail(txQ)

Floor == IF headerWsList = <<>> THEN 0 ELSE Last(headerWsList).number

(* The end of the transaction case: rebuild, cancel or nothing. *)
Decide(t, symbol, alreadyOnChain, floor) ==
  LET rivals == symbol # NoSymbol /\ signals # <<>>
  IN /\ IF rivals /\ ~alreadyOnChain
        THEN /\ aPc' = "rebuild"
             /\ job' = [IdleJob EXCEPT !.tx = t, !.symbol = symbol, !.floor = floor]
        ELSE NextCase
     /\ cancelled' = (cancelled \/ (rivals /\ alreadyOnChain))

RecvRouterTx ==
  /\ TakeTx
  /\ LET t == Head(txQ)
     IN /\ t.to \in DOMAIN RouterMap
        /\ IF RouterPanics(RouterMap[t.to], t.input)
           THEN Panics /\ UNCHANGED cancelled
           ELSE Decide(t, RouterSymbol(RouterMap[t.to], t.input), FALSE, Floor)
  /\ UNCHANGED <<envVars, sub, headQ, signalQ, headerVars, listVars, published>>

(* The competitor's transaction is recorded before the header list is read. *)
RecvEnemyTx ==
  /\ TakeTx
  /\ LET t == Head(txQ)
     IN /\ t.to \in Enemies \ DOMAIN RouterMap
        /\ pendingTxList' = Push(pendingTxList, t)
        /\ \E h \in HeaderReads :
             IF h = NoHeader THEN Panics
             ELSE /\ aPc' = "decode"
                  /\ job' = [IdleJob EXCEPT !.tx = t, !.floor = Floor]
  /\ UNCHANGED <<envVars, sub, headQ, signalQ, headerVars, signals, accepted, effectVars>>

RecvOtherTx ==
  /\ TakeTx
  /\ Head(txQ).to \notin Enemies \cup DOMAIN RouterMap
  /\ NextCase
  /\ UNCHANGED <<envVars, sub, headQ, signalQ, headerVars, listVars, effectVars>>

(* debug_traceCall and TransactionReceipt have both returned. *)
Decoded ==
  /\ aPc = "decode"
  /\ \E d \in DecodeOutcomes(Traces) : Decide(job.tx, d.symbol, d.alreadyOnChain, job.floor)
  /\ UNCHANGED <<envVars, feedVars, signalQ, headerVars, listVars, published>>

(* RebuildTx up to the log line, whose argument is the first of two reads   *)
(* of the pending block number.                                             *)
RebuildTx ==
  /\ aPc = "rebuild"
  /\ \E h \in HeaderReads :
       IF h \in {Nil, NoHeader} THEN Panics
       ELSE /\ aPc' = "check"
            /\ job' = [job EXCEPT !.signal = GetLastSignalBySymbol(signals, job.symbol)]
  /\ UNCHANGED <<envVars, feedVars, signalQ, headerVars, listVars, effectVars>>

(* The block check, on the second read. *)
CheckBlock ==
  /\ aPc = "check"
  /\ \E h \in HeaderReads :
       IF h \in {Nil, NoHeader} THEN Panics
       ELSE IF job.signal.tradeBlock >= GetPendingBlockNum(h, now)
            THEN aPc' = "publish" /\ UNCHANGED job
            ELSE NextCase
  /\ UNCHANGED <<envVars, feedVars, signalQ, headerVars, listVars, effectVars>>

(* Trade panics on a symbol without its separator before it publishes. *)
TradePanics ==
  /\ aPc = "publish" /\ ~job.signal.wellFormed
  /\ Panics
  /\ UNCHANGED <<envVars, feedVars, signalQ, headerVars, listVars, effectVars>>

(* uint64(signal.BuildTx.MaxFeePerGas): the fee cap is the signal's own. *)
MaxFeePerGas(signal) == signal.maxFee % Uint64Range

NewOrder == [tx |-> job.tx, symbol |-> job.symbol, signal |-> job.signal,
             floor |-> job.floor,
             maxPriorityFeePerGas |-> NewGasPrice(job.signal, job.tx),
             maxFeePerGas |-> MaxFeePerGas(job.signal)]

Trade ==
  /\ aPc = "publish" /\ job.signal.wellFormed
  /\ NextCase
  /\ published' = Append(published, NewOrder)
  /\ UNCHANGED <<envVars, feedVars, signalQ, headerVars, listVars, cancelled>>

(* Mutant: an order whose acknowledgement is lost is sent once more. *)
TradeRetries ==
  /\ aPc = "publish" /\ job.signal.wellFormed
  /\ published' = Append(published, NewOrder)
  /\ UNCHANGED <<envVars, feedVars, signalQ, headerVars, aPc, job, listVars,
                 cancelled>>

(* PublishMsg returns an error: it is logged and the order is dropped. *)
TradeFails ==
  /\ aPc = "publish" /\ job.signal.wellFormed
  /\ NextCase
  /\ UNCHANGED <<envVars, feedVars, signalQ, headerVars, listVars, effectVars>>

(* The signal is stored first; then, if any competitor transaction was ever *)
(* seen, the log line reads the header list.                                *)
RecvSignal ==
  /\ aPc = "select" /\ signalQ # <<>>
  /\ signalQ' = Tail(signalQ)
  /\ LET m == Head(signalQ)
     IN IF m = Malformed
        THEN NextCase /\ UNCHANGED listVars
        ELSE /\ signals' = Push(signals, m)
             /\ accepted' = Append(accepted, m)
             /\ UNCHANGED pendingTxList
             /\ IF pendingTxList = <<>> THEN NextCase
                ELSE \E h \in HeaderReads :
                       IF h \in {Nil, NoHeader} THEN Panics ELSE NextCase
  /\ UNCHANGED <<envVars, feedVars, headerVars, effectVars>>

(* The loop logs that it exits, closes the client and selects again. *)
AnalyseCtxDone ==
  /\ aPc = "select" /\ ctxDone
  /\ CloseWsClient
  /\ UNCHANGED <<envVars, signalQ, headerVars, aPc, job, listVars, effectVars>>

(* Mutant: nothing recovers the goroutine. *)
StayDown == aPc = "panic" /\ UNCHANGED vars

(* The deferred function recovers, sleeps and starts the goroutine anew. *)
Restart ==
  /\ aPc = "panic"
  /\ NextCase
  /\ UNCHANGED <<envVars, feedVars, signalQ, headerVars, listVars, effectVars>>

----------------------------------------------------------------------------
Environment == \/ Tick \/ Mine \/ DropConnection \/ Cancel
               \/ \E t \in unsentTxs : AnnounceTx(t)
               \/ \E m \in unsentSignals : SendSignal(m)

SubGethBlockHeader == SubscribeNewHeads \/ HeaderCtxDone \/ RecvHead \/ StoreHead

TxCase == RecvRouterTx \/ RecvEnemyTx \/ RecvOtherTx

TxHandler == Decoded \/ RebuildTx \/ CheckBlock \/ TradePanics \/ Trade \/ TradeFails

GasPriceAnalyse == TxCase \/ TxHandler \/ RecvSignal \/ AnalyseCtxDone \/ Restart

Next == \/ Environment \/ SubscribeFullPendingTransactions
        \/ SubGethBlockHeader \/ GasPriceAnalyse

Spec == NodeMgrInit /\ [][Next]_vars

(***************************************************************************)
(* Fairness.  The analyser runs when it can, and its RPC calls return (the *)
(* code sets no timeout: without that assumption it may hang).  A select   *)
(* picks at random among its ready cases, so a case that is ready again    *)
(* and again is picked: strong fairness, needed for the signal case only.  *)
(* Nothing is assumed of the environment or of the header goroutine.       *)
(***************************************************************************)
FairSpec == Spec /\ WF_vars(TxHandler) /\ WF_vars(Restart) /\ SF_vars(RecvSignal)

----------------------------------------------------------------------------
(* Properties.                                                             *)

Symbols == {NoSymbol} \cup Range(PairSymbolMap) \cup (Range(AddrTokens) \X Range(AddrTokens))

Job == [tx : Txs \cup {None}, symbol : Symbols, signal : SignalMsgs \cup {None}, floor : Nat]

Order == [tx : Txs, symbol : Symbols, signal : SignalMsgs, floor : Nat,
          maxPriorityFeePerGas : Nat, maxFeePerGas : Nat]

EnvTypeOK ==
  /\ now \in Nat /\ nextBlock \in Nat
  /\ unsentTxs \subseteq Txs
  /\ unsentSignals \subseteq SignalMsgs \cup {Malformed}
  /\ ctxDone \in BOOLEAN

FeedTypeOK ==
  /\ sub \in [{"heads", "txs"} -> {"none", "live", "dead"}]
  /\ headQ \in Seq(Header)
  /\ txQ \in Seq(Txs)
  /\ signalQ \in Seq(SignalMsgs \cup {Malformed})

HeaderTypeOK ==
  /\ hPc \in {"subscribe", "select", "store"}
  /\ newHead \in IF hPc = "store" THEN Header ELSE {Nil}
  /\ headerWsList \in Seq(Header)

ListTypeOK ==
  /\ pendingTxList \in Seq(Txs)
  /\ signals \in Seq(SignalMsgs)
  /\ accepted \in Seq(SignalMsgs)

JobTypeOK ==
  /\ aPc \in {"select", "decode", "rebuild", "check", "publish", "panic"}
  /\ job \in Job
  /\ aPc \in {"decode", "rebuild", "check", "publish"} => job.tx \in Txs
  /\ aPc = "rebuild" => signals # <<>>
  /\ aPc \in {"check", "publish"} => job.signal \in SignalMsgs

EffectTypeOK ==
  /\ cancelled \in BOOLEAN
  /\ published \in Seq(Order)

(***************************************************************************)
(* Types, and which locals are set where: the goroutine of the headers     *)
(* holds a header exactly inside the store, an analyser that is in the     *)
(* transaction handler holds its transaction, one that looks for a signal  *)
(* has some to look at, one past RebuildTx holds a signal, and a price     *)
(* that is published is a uint64 and so not negative (lines 194-211, 246). *)
(***************************************************************************)
TypeOK == /\ EnvTypeOK /\ FeedTypeOK /\ HeaderTypeOK
          /\ ListTypeOK /\ JobTypeOK /\ EffectTypeOK

(***************************************************************************)
(* No signal is lost, duplicated or reordered between SignalChan and the   *)
(* Signals list, whatever panics and restarts happen in between: Signals   *)
(* is the newest part of what was accepted, and at least KeptAfterTrim of  *)
(* it (node_mgr.go:167-188, with the panic of line 186 after the append).  *)
(***************************************************************************)
NewestSignalsKept == IsRecentPart(signals, accepted)

(* s is the newest accepted signal for that symbol. *)
NewestFor(symbol, s) ==
  \E i \in 1..Len(accepted) :
    /\ accepted[i] = s /\ s.symbol = symbol
    /\ \A j \in (i + 1)..Len(accepted) : accepted[j].symbol # symbol

(***************************************************************************)
(* An order is built from the newest signal ever accepted for its symbol,  *)
(* provided Signals still holds one for that symbol, even though signals   *)
(* keep arriving between competitor transactions (node_mgr.go:203, 314).   *)
(***************************************************************************)
TradesNewestSignal ==
  aPc \in {"check", "publish"} /\ (\E i \in 1..Len(signals) : signals[i].symbol = job.symbol)
    => NewestFor(job.symbol, job.signal)

(***************************************************************************)
(* The block check (node_mgr.go:206-207): an order is published only for a *)
(* trade block past the newest block that was stored when the competitor's *)
(* transaction arrived, although headers are stored while the handler runs *)
(* and its RPC calls take their time.  It needs header reads that are not  *)
(* torn.                                                                   *)
(***************************************************************************)
OrdersPassBlockCheck ==
  \A i \in 1..Len(published) : published[i].signal.tradeBlock > published[i].floor

(***************************************************************************)
(* CancelTx (line 162) is never reached: the client decoder returns no     *)
(* symbols for a transaction that is on chain, the router decoder never    *)
(* says that one is.                                                       *)
(***************************************************************************)
NeverCancels == ~cancelled

(* What a dynamic-fee order pays per gas at base fee b (EIP-1559). *)
EffectiveGasPrice(order, b) ==
  IF b + order.maxPriorityFeePerGas <= order.maxFeePerGas
  THEN b + order.maxPriorityFeePerGas ELSE order.maxFeePerGas

(***************************************************************************)
(* An order is a dynamic-fee transaction whose fee cap comes unchanged from *)
(* the signal (lines 242-247).  If that cap covers the signal's base fee   *)
(* and exceeds the competitor's price, the order is valid, its tip not     *)
(* above its cap, and at that base fee it pays more than the competitor -  *)
(* even when the competitor bids below the base fee and the difference is  *)
(* negative before Uint64() (lines 208-211, 246).  A lower cap loses:      *)
(* nothing in RebuildTx or Trade looks at it.                              *)
(***************************************************************************)
OutbidsCompetitor ==
  \A i \in 1..Len(published) :
    LET order == published[i]
        b == BaseGasPrice(order.signal)
    IN order.maxFeePerGas >= b /\ order.maxFeePerGas > order.tx.gasPrice
         => /\ order.maxPriorityFeePerGas <= order.maxFeePerGas
            /\ EffectiveGasPrice(order, b) > order.tx.gasPrice

(* The refinement mapping: of an order, its transaction and its signal. *)
Desk == INSTANCE OrderDesk
          WITH Window <- MaxLen + 1,
               published <- [i \in 1..Len(published) |->
                              [tx |-> published[i].tx, signal |-> published[i].signal]]

(***************************************************************************)
(* The three lists and all the goroutines together implement OrderDesk:    *)
(* an order answers a transaction not answered before and is built from    *)
(* one of the last MaxLen + 1 accepted signals.                            *)
(***************************************************************************)
ImplementsOrderDesk == Desk!Spec

(***************************************************************************)
(* Every signal handed to SignalMsgHandler is stored in the end, although  *)
(* the analyser stops receiving while it waits for RPC calls and for a     *)
(* second after each panic.                                                *)
(***************************************************************************)
SignalsAccepted ==
  \A m \in SignalMsgs : (m \in ToSet(signalQ)) ~> (m \in ToSet(accepted))

(***************************************************************************)
(* What the log of RebuildTx says: the order uses "the most recent signal" *)
(* of the competitor's symbol (line 204, "获取最近signal").                 *)
(***************************************************************************)
OrderMatchesSymbol ==
  \A i \in 1..Len(published) : published[i].signal.symbol = published[i].symbol

(***************************************************************************)
(* What line 196 says ("timeNow-lastPendingBlockTimestamp > 2"): a newest  *)
(* header more than two seconds old is not used, and the block number is 0.*)
(***************************************************************************)
StaleHeaderRefused ==
  headerWsList # <<>> /\ now - Last(headerWsList).time > 2
    => GetPendingBlockNum(Last(headerWsList), now) = 0
=============================================================================
