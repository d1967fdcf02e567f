--------------------------- MODULE NodeMgrProofs ---------------------------
(***************************************************************************)
(* Theorems about NodeMgr, for every list bound, mempool, set of signals   *)
(* and configuration map.                                                  *)
(***************************************************************************)
EXTENDS NodeMgr, RecentListProofs, WellFoundedInduction

(* A nonempty set of positions has a last one. *)
LEMMA LastPosition ==
  ASSUME NEW n \in Nat, NEW T, T \subseteq 1..n, T # {}
  PROVE  \E x \in T : \A y \in T : x >= y
<1> DEFINE D == {n - x : x \in T}
<1>1. D \subseteq Nat /\ D # {}
  <2>1. \A x \in T : n - x \in Nat
    OBVIOUS
  <2>2. D # {}
    BY Zenon
  <2> QED BY <2>1, <2>2
<1>2. PICK d \in D : \A e \in D : ~(<<e, d>> \in OpToRel(<, Nat))
  BY <1>1, NatLessThanWellFounded, WFMin
<1>3. PICK x \in T : d = n - x
  OBVIOUS
<1>4. \A y \in T : x >= y
  <2> TAKE y \in T
  <2>1. ~(n - y < n - x)
    BY <1>1, <1>2, <1>3 DEF OpToRel
  <2> QED BY <2>1
<1> QED BY <1>4

(* And a first one. *)
LEMMA FirstPosition ==
  ASSUME NEW n \in Nat, NEW T, T \subseteq 1..n, T # {}
  PROVE  \E x \in T : \A y \in T : x =< y
<1>1. T \subseteq Nat
  OBVIOUS
<1>2. PICK x \in T : \A y \in T : ~(<<y, x>> \in OpToRel(<, Nat))
  BY <1>1, NatLessThanWellFounded, WFMin
<1>3. ASSUME NEW y \in T PROVE x =< y
  <2>1. x \in Nat /\ y \in Nat
    BY <1>1
  <2>2. ~(y < x)
    BY <1>2, <2>1 DEF OpToRel
  <2> QED BY <2>1, <2>2
<1> QED BY <1>3

(* GetLastSignalBySymbol returns an item of the list, and of those with the *)
(* symbol, if there are any, the last one.                                  *)
LEMMA LastSignalProperties ==
  ASSUME NEW S, NEW list \in Seq(S), list # <<>>, NEW symbol
  PROVE  \E i \in 1..Len(list) :
           /\ GetLastSignalBySymbol(list, symbol) = list[i]
           /\ (\E k \in 1..Len(list) : list[k].symbol = symbol)
                => /\ list[i].symbol = symbol
                   /\ \A j \in (i + 1)..Len(list) : list[j].symbol # symbol
<1> DEFINE I == {k \in 1..Len(list) : list[k].symbol = symbol}
           last == IF I # {} THEN Max(I) ELSE 0
<1>1. GetLastSignalBySymbol(list, symbol) = list[IF last = 0 THEN 1 ELSE last]
  BY DEF GetLastSignalBySymbol, SelectLastInSeq
<1>2. ASSUME I # {}
      PROVE  Max(I) \in I /\ \A k \in I : Max(I) >= k
  <2>1. I \subseteq 1..Len(list) /\ Len(list) \in Nat
    BY LenProperties
  <2> HIDE DEF I
  <2>2. \E x \in I : \A y \in I : x >= y
    BY <1>2, <2>1, LastPosition
  <2> QED BY <2>2 DEF Max
<1>3. Len(list) \in Nat \ {0}
  BY EmptySeq, LenProperties
<1>4. CASE I = {}
  <2>1. GetLastSignalBySymbol(list, symbol) = list[1]
    BY <1>1, <1>4
  <2> QED BY <1>3, <1>4, <2>1
<1>5. CASE I # {}
  <2>1. Max(I) \in 1..Len(list) /\ list[Max(I)].symbol = symbol
    BY <1>2, <1>5
  <2>2. \A j \in (Max(I) + 1)..Len(list) : list[j].symbol # symbol
    <3> TAKE j \in (Max(I) + 1)..Len(list)
    <3>1. j \in 1..Len(list) /\ ~(Max(I) >= j)
      BY <1>3, <2>1
    <3> QED BY <1>2, <1>5, <3>1
  <2>3. GetLastSignalBySymbol(list, symbol) = list[Max(I)]
    BY <1>1, <1>5, <2>1
  <2> QED BY <2>1, <2>2, <2>3
<1> QED BY <1>4, <1>5

----------------------------------------------------------------------------
(* Type correctness.                                                       *)

(* A part of TypeOK whose variables do not change holds in the next state. *)
LEMMA UnchangedTypes ==
  /\ EnvTypeOK /\ UNCHANGED envVars => EnvTypeOK'
  /\ FeedTypeOK /\ UNCHANGED <<feedVars, signalQ>> => FeedTypeOK'
  /\ HeaderTypeOK /\ UNCHANGED headerVars => HeaderTypeOK'
  /\ ListTypeOK /\ UNCHANGED listVars => ListTypeOK'
  /\ JobTypeOK /\ UNCHANGED <<aPc, job, signals>> => JobTypeOK'
  /\ EffectTypeOK /\ UNCHANGED effectVars => EffectTypeOK'
BY DEF EnvTypeOK, FeedTypeOK, HeaderTypeOK, ListTypeOK, JobTypeOK, EffectTypeOK,
       envVars, feedVars, headerVars, listVars, effectVars

(* The environment and the two subscriptions. *)
LEMMA EnvironmentTypes ==
  ASSUME TypeOK, Environment \/ SubscribeFullPendingTransactions
  PROVE  TypeOK'
<1> USE DEF TypeOK
<1>1. HeaderTypeOK' /\ ListTypeOK' /\ JobTypeOK' /\ EffectTypeOK'
  <2>1. UNCHANGED <<headerVars, listVars, aPc, job, effectVars>>
    BY DEF Environment, SubscribeFullPendingTransactions, Tick, Mine, DropConnection, Cancel,
           AnnounceTx, SendSignal
  <2>2. UNCHANGED signals
    BY <2>1 DEF listVars
  <2> QED BY <2>1, <2>2, UnchangedTypes
<1>2. CASE Tick
  BY <1>1, <1>2, UnchangedTypes DEF Tick, EnvTypeOK
<1>3. CASE Mine
  <2>1. EnvTypeOK'
    BY <1>3 DEF Mine, EnvTypeOK
  <2>2. FeedTypeOK'
    BY <1>3, AppendProperties DEF Mine, EnvTypeOK, FeedTypeOK, Header
  <2> QED BY <1>1, <2>1, <2>2
<1>4. CASE DropConnection
  BY <1>1, <1>4, UnchangedTypes DEF DropConnection, FeedTypeOK
<1>5. CASE Cancel
  BY <1>1, <1>5, UnchangedTypes DEF Cancel, EnvTypeOK
<1>6. ASSUME NEW t \in unsentTxs, AnnounceTx(t)
      PROVE  TypeOK'
  <2>1. EnvTypeOK'
    BY <1>6 DEF AnnounceTx, EnvTypeOK
  <2>2. t \in Txs
    BY DEF EnvTypeOK
  <2>3. FeedTypeOK'
    <3>1. txQ' \in Seq(Txs)
      <4>1. Append(txQ, t) \in Seq(Txs) /\ <<>> \in Seq(Txs)
        BY <2>2, AppendProperties, EmptySeq DEF FeedTypeOK
      <4>2. txQ' = Append(txQ, t) \/ txQ' = <<>>
        BY <1>6 DEF AnnounceTx
      <4> QED BY <4>1, <4>2
    <3>2. UNCHANGED <<headQ, signalQ>>
      BY <1>6 DEF AnnounceTx
    <3>3. sub' \in [{"heads", "txs"} -> {"none", "live", "dead"}]
      BY <1>6 DEF AnnounceTx, FeedTypeOK
    <3> QED BY <3>1, <3>2, <3>3 DEF FeedTypeOK
  <2> QED BY <1>1, <2>1, <2>3
<1>7. ASSUME NEW m \in unsentSignals, SendSignal(m)
      PROVE  TypeOK'
  <2>1. EnvTypeOK'
    BY <1>7 DEF SendSignal, EnvTypeOK
  <2>2. m \in SignalMsgs \cup {Malformed}
    BY DEF EnvTypeOK
  <2>3. FeedTypeOK'
    BY <1>7, <2>2, AppendProperties DEF SendSignal, FeedTypeOK, feedVars
  <2> QED BY <1>1, <2>1, <2>3
<1>8. CASE SubscribeFullPendingTransactions
  BY <1>1, <1>8, UnchangedTypes DEF SubscribeFullPendingTransactions, FeedTypeOK
<1> QED BY <1>2, <1>3, <1>4, <1>5, <1>6, <1>7, <1>8 DEF Environment

(* The goroutine of the headers. *)
LEMMA SubGethBlockHeaderTypes ==
  ASSUME TypeOK, SubGethBlockHeader
  PROVE  TypeOK'
<1> USE DEF TypeOK
<1>1. EnvTypeOK' /\ ListTypeOK' /\ JobTypeOK' /\ EffectTypeOK'
  <2>1. UNCHANGED <<envVars, listVars, aPc, job, effectVars>>
    BY DEF SubGethBlockHeader, SubscribeNewHeads, HeaderCtxDone, RecvHead, StoreHead
  <2>2. UNCHANGED signals
    BY <2>1 DEF listVars
  <2> QED BY <2>1, <2>2, UnchangedTypes
<1>2. CASE SubscribeNewHeads
  BY <1>1, <1>2 DEF SubscribeNewHeads, FeedTypeOK, HeaderTypeOK
<1>3. CASE HeaderCtxDone
  <2>1. FeedTypeOK'
    BY <1>3 DEF HeaderCtxDone, CloseWsClient, FeedTypeOK
  <2>2. HeaderTypeOK'
    BY <1>3, UnchangedTypes DEF HeaderCtxDone
  <2> QED BY <1>1, <2>1, <2>2
<1>4. CASE RecvHead
  <2>1. headQ # <<>> /\ Head(headQ) \in Header /\ Tail(headQ) \in Seq(Header)
    BY <1>4, HeadTailProperties DEF RecvHead, FeedTypeOK
  <2>2. FeedTypeOK'
    BY <1>4, <2>1 DEF RecvHead, FeedTypeOK
  <2>3. HeaderTypeOK'
    BY <1>4, <2>1 DEF RecvHead, HeaderTypeOK
  <2> QED BY <1>1, <2>2, <2>3
<1>5. CASE StoreHead
  <2>1. FeedTypeOK'
    BY <1>5, UnchangedTypes DEF StoreHead
  <2>2. HeaderTypeOK'
    BY <1>5, PushProperties DEF StoreHead, HeaderTypeOK
  <2> QED BY <1>1, <2>1, <2>2
<1> QED BY <1>2, <1>3, <1>4, <1>5 DEF SubGethBlockHeader

(* Every outcome of a read of the header list is nothing or a header. *)
LEMMA HeaderReadsType ==
  ASSUME HeaderTypeOK, NEW h \in HeaderReads, h \notin {Nil, NoHeader}
  PROVE  h \in Header
<1>1. headerWsList \in Seq(Header) /\ Len(headerWsList) \in Nat
  BY LenProperties DEF HeaderTypeOK
<1>2. ASSUME headerWsList # <<>>
      PROVE  Last(headerWsList) \in Header
  BY <1>1, <1>2, EmptySeq, ElementOfSeq DEF Last
<1>3. CASE h = LatestHeader
  BY <1>2, <1>3 DEF LatestHeader
<1>4. CASE hPc = "store" /\ h = newHead
  BY <1>4 DEF HeaderTypeOK
<1>5. ASSUME Len(headerWsList) > MaxLen,
             NEW i \in {Len(headerWsList) - Drop, Len(headerWsList) - Drop + 1}
      PROVE  headerWsList[i] \in Header
  <2>1. i \in 1..Len(headerWsList)
    BY <1>1, <1>5, RecentListAssumption
  <2> QED BY <1>1, <2>1, ElementOfSeq
<1> QED BY <1>3, <1>4, <1>5 DEF HeaderReads, OverlappedReads

(* A head of txQ that is taken is a transaction. *)
LEMMA TakeTxTypes ==
  ASSUME TypeOK, TakeTx, UNCHANGED <<envVars, sub, headQ, signalQ, headerVars>>
  PROVE  /\ Head(txQ) \in Txs
         /\ EnvTypeOK' /\ FeedTypeOK' /\ HeaderTypeOK'
<1>1. txQ # <<>> /\ Head(txQ) \in Txs /\ Tail(txQ) \in Seq(Txs)
  BY HeadTailProperties DEF TakeTx, TypeOK, FeedTypeOK
<1> QED BY <1>1, UnchangedTypes DEF TakeTx, TypeOK, FeedTypeOK

(* No locals at all are well-typed locals. *)
LEMMA IdleJobType == IdleJob \in Job
BY DEF IdleJob, Job, Symbols, NoSymbol

(* The newest stored block is a natural number. *)
LEMMA FloorType == HeaderTypeOK => Floor \in Nat
<1> SUFFICES ASSUME HeaderTypeOK, headerWsList # <<>>
             PROVE  Last(headerWsList).number \in Nat
  BY DEF Floor
<1>1. Last(headerWsList) \in Header
  BY EmptySeq, LenProperties, ElementOfSeq DEF HeaderTypeOK, Last
<1> QED BY <1>1 DEF Header

(* Both decoders yield a symbol or none. *)
LEMMA SymbolTypes ==
  /\ \A dex, input : RouterSymbol(dex, input) \in Symbols
  /\ \A addresses \in Traces \cup {<<>>}, onChain \in BOOLEAN : ClientSymbol(addresses, onChain) \in Symbols
<1>1. ASSUME NEW dex, NEW input
      PROVE  RouterSymbol(dex, input) \in Symbols
  BY DEF RouterSymbol, Symbols, NoSymbol, Range
<1>2. ASSUME NEW addresses \in Traces \cup {<<>>}
      PROVE  FirstPair(addresses) \in Symbols
  <2> DEFINE I == {i \in 1..Len(addresses) : addresses[i] \in DOMAIN PairSymbolMap}
             first == IF I # {} THEN Min(I) ELSE 0
  <2>1. FirstPair(addresses) = IF first = 0 THEN NoSymbol ELSE PairSymbolMap[addresses[first]]
    BY DEF FirstPair, SelectInSeq
  <2>2. Len(addresses) \in Nat
    <3>1. addresses \in Seq(Range(addresses)) \/ addresses = <<>>
      BY NodeMgrAssumption
    <3> QED BY <3>1, LenProperties
  <2>3. I # {} => Min(I) \in I
    <3> HIDE DEF I
    <3>1. ASSUME I # {} PROVE \E x \in I : \A y \in I : x =< y
      BY <3>1, <2>2, FirstPosition DEF I
    <3> QED BY <3>1 DEF Min
  <2>4. CASE I = {}
    BY <2>1, <2>4 DEF Symbols
  <2>5. CASE I # {}
    <3>1. first # 0 /\ addresses[first] \in DOMAIN PairSymbolMap
      BY <2>3, <2>5
    <3> QED BY <2>1, <3>1 DEF Symbols, Range
  <2> QED BY <2>4, <2>5
<1> QED BY <1>1, <1>2 DEF ClientSymbol, Symbols

(* What a decoder may return comes from one trace and one answer to the     *)
(* question for the receipt.                                               *)
LEMMA DecodedOnce ==
  ASSUME Decoded
  PROVE  \E addresses \in Traces \cup {<<>>}, onChain \in BOOLEAN :
           Decide(job.tx, ClientSymbol(addresses, onChain), onChain, job.floor)
<1>1. PICK d \in DecodeOutcomes(Traces) : Decide(job.tx, d.symbol, d.alreadyOnChain, job.floor)
  BY DEF Decoded
<1>2. PICK addresses \in Traces \cup {<<>>}, onChain \in BOOLEAN :
        d = [symbol |-> ClientSymbol(addresses, onChain), alreadyOnChain |-> onChain]
  BY DEF DecodeOutcomes
<1>3. d.symbol = ClientSymbol(addresses, onChain) /\ d.alreadyOnChain = onChain
  BY <1>2
<1> QED BY <1>1, <1>3

(* After a panic, and in the select, no local of the handler is in use. *)
LEMMA IdleTypes ==
  ASSUME Panics \/ NextCase
  PROVE  JobTypeOK'
BY IdleJobType DEF Panics, NextCase, JobTypeOK

(* The end of the transaction case sets the locals that RebuildTx needs. *)
LEMMA DecideTypes ==
  ASSUME NEW t \in Txs, NEW symbol \in Symbols, NEW onChain \in BOOLEAN, NEW floor \in Nat,
         Decide(t, symbol, onChain, floor), UNCHANGED <<listVars, published>>,
         EffectTypeOK
  PROVE  JobTypeOK' /\ EffectTypeOK'
<1>1. EffectTypeOK'
  <2>1. cancelled' \in BOOLEAN
    BY DEF Decide, EffectTypeOK
  <2> QED BY <2>1 DEF EffectTypeOK
<1>2. CASE NextCase
  BY <1>1, <1>2, IdleTypes
<1>3. CASE ~NextCase
  <2>1. /\ signals # <<>> /\ aPc' = "rebuild"
        /\ job' = [IdleJob EXCEPT !.tx = t, !.symbol = symbol, !.floor = floor]
    BY <1>3 DEF Decide
  <2>2. job' \in Job /\ job'.tx = t
    BY <2>1, IdleJobType DEF Job, IdleJob
  <2>3. signals' # <<>>
    BY <2>1 DEF listVars
  <2> QED BY <1>1, <2>1, <2>2, <2>3 DEF JobTypeOK
<1> QED BY <1>2, <1>3

(* The transaction case of the select. *)
LEMMA TxCaseTypes ==
  ASSUME TypeOK, TxCase
  PROVE  TypeOK'
<1> USE DEF TypeOK
<1>1. /\ Head(txQ) \in Txs
      /\ EnvTypeOK' /\ FeedTypeOK' /\ HeaderTypeOK'
  BY TakeTxTypes DEF TxCase, RecvRouterTx, RecvEnemyTx, RecvOtherTx
<1>2. Floor \in Nat
  BY FloorType
<1> DEFINE t == Head(txQ)
<1>3. CASE RecvRouterTx
  <2>1. ListTypeOK'
    BY <1>3, UnchangedTypes DEF RecvRouterTx
  <2>2. CASE Panics /\ UNCHANGED cancelled
    <3>1. UNCHANGED effectVars
      BY <1>3, <2>2 DEF RecvRouterTx, effectVars
    <3> QED BY <1>1, <2>1, <2>2, <3>1, IdleTypes, UnchangedTypes
  <2>3. CASE Decide(t, RouterSymbol(RouterMap[t.to], t.input), FALSE, Floor)
    <3>1. RouterSymbol(RouterMap[t.to], t.input) \in Symbols
      BY SymbolTypes
    <3>2. UNCHANGED <<listVars, published>>
      BY <1>3 DEF RecvRouterTx
    <3> HIDE DEF t
    <3>3. t \in Txs
      BY <1>1 DEF t
    <3>4. JobTypeOK' /\ EffectTypeOK'
      BY <1>2, <2>3, <3>1, <3>2, <3>3, DecideTypes
    <3> QED BY <1>1, <2>1, <3>4
  <2> QED BY <1>3, <2>2, <2>3 DEF RecvRouterTx
<1>4. CASE RecvEnemyTx
  <2>1. ListTypeOK'
    BY <1>1, <1>4, PushProperties DEF RecvEnemyTx, ListTypeOK
  <2>2. EffectTypeOK'
    BY <1>4, UnchangedTypes DEF RecvEnemyTx
  <2>3. CASE Panics
    BY <1>1, <2>1, <2>2, <2>3, IdleTypes
  <2>4. CASE /\ aPc' = "decode"
             /\ job' = [IdleJob EXCEPT !.tx = t, !.floor = Floor]
    <3>1. job' \in Job /\ job'.tx = t
      BY <1>1, <1>2, <2>4, IdleJobType DEF Job, IdleJob
    <3> QED BY <1>1, <2>1, <2>2, <2>4, <3>1 DEF JobTypeOK
  <2> QED BY <1>4, <2>3, <2>4 DEF RecvEnemyTx
<1>5. CASE RecvOtherTx
  BY <1>1, <1>5, IdleTypes, UnchangedTypes DEF RecvOtherTx
<1> QED BY <1>3, <1>4, <1>5 DEF TxCase

(* The price of an order is a natural number, whatever the sign of the      *)
(* difference it is computed from.                                          *)
LEMMA NewGasPriceType ==
  ASSUME NEW s \in SignalMsgs, NEW t \in Txs
  PROVE  NewGasPrice(s, t) \in Nat
<1>1. t.gasPrice \in Int /\ s.base \in Int /\ WeiFraction \in Nat \ {0}
      /\ Uint64Range \in Nat \ {0}
  BY NodeMgrAssumption
<1>2. BaseGasPrice(s) \in Int
  BY <1>1 DEF BaseGasPrice
<1> DEFINE x == 1 + t.gasPrice - BaseGasPrice(s)
           magnitude == IF x < 0 THEN -x ELSE x
<1>3. magnitude \in Nat
  BY <1>1, <1>2
<1> HIDE DEF magnitude
<1>4. magnitude % Uint64Range \in Nat
  BY <1>1, <1>3
<1> QED BY <1>4 DEF NewGasPrice, Uint64, magnitude

(* An order built from a transaction and a signal at hand has its type. *)
LEMMA NewOrderType ==
  ASSUME job \in Job, job.tx \in Txs, job.signal \in SignalMsgs
  PROVE  NewOrder \in Order
<1>1. NewGasPrice(job.signal, job.tx) \in Nat
  BY NewGasPriceType
<1>2. job.signal.maxFee \in Int /\ Uint64Range \in Nat \ {0}
  BY NodeMgrAssumption
<1>3. MaxFeePerGas(job.signal) \in Nat
  BY <1>2 DEF MaxFeePerGas
<1> QED BY <1>1, <1>3 DEF NewOrder, Order, Job

(* The rest of the transaction handler. *)
LEMMA TxHandlerTypes ==
  ASSUME TypeOK, TxHandler
  PROVE  TypeOK'
<1> USE DEF TypeOK
<1>1. EnvTypeOK' /\ FeedTypeOK' /\ HeaderTypeOK' /\ ListTypeOK'
  <2>1. UNCHANGED <<envVars, feedVars, signalQ, headerVars, listVars>>
    BY DEF TxHandler, Decoded, RebuildTx, CheckBlock, TradePanics, Trade, TradeFails
  <2> QED BY <2>1, UnchangedTypes
<1>2. CASE Decoded
  <2>1. PICK addresses \in Traces \cup {<<>>}, onChain \in BOOLEAN :
           Decide(job.tx, ClientSymbol(addresses, onChain), onChain, job.floor)
    BY <1>2, DecodedOnce
  <2>2. job.tx \in Txs /\ job.floor \in Nat /\ ClientSymbol(addresses, onChain) \in Symbols
    BY <1>2, SymbolTypes DEF Decoded, JobTypeOK, Job
  <2>3. UNCHANGED <<listVars, published>>
    BY <1>2 DEF Decoded
  <2>4. JobTypeOK' /\ EffectTypeOK'
    BY <2>1, <2>2, <2>3, DecideTypes
  <2> QED BY <1>1, <2>4
<1>3. CASE RebuildTx
  <2>1. EffectTypeOK'
    BY <1>3, UnchangedTypes DEF RebuildTx
  <2>2. CASE Panics
    BY <1>1, <2>1, <2>2, IdleTypes
  <2>3. CASE /\ aPc' = "check"
             /\ job' = [job EXCEPT !.signal = GetLastSignalBySymbol(signals, job.symbol)]
    <3>1. signals \in Seq(SignalMsgs) /\ signals # <<>>
      BY <1>3 DEF RebuildTx, JobTypeOK, ListTypeOK
    <3>2. GetLastSignalBySymbol(signals, job.symbol) \in SignalMsgs
      BY <3>1, LastSignalProperties, ElementOfSeq
    <3>3. job' \in Job /\ job'.tx \in Txs /\ job'.signal \in SignalMsgs
      BY <1>3, <2>3, <3>2 DEF RebuildTx, JobTypeOK, Job
    <3> QED BY <1>1, <2>1, <2>3, <3>3 DEF JobTypeOK
  <2> QED BY <1>3, <2>2, <2>3 DEF RebuildTx
<1>4. CASE CheckBlock
  <2>1. EffectTypeOK'
    BY <1>4, UnchangedTypes DEF CheckBlock
  <2>2. CASE Panics \/ NextCase
    BY <1>1, <2>1, <2>2, IdleTypes
  <2>3. CASE aPc' = "publish" /\ job' = job
    <3>1. /\ job' \in Job /\ job'.tx \in Txs /\ job'.signal \in SignalMsgs
      BY <1>4, <2>3 DEF CheckBlock, JobTypeOK, Job
    <3> QED BY <1>1, <2>1, <2>3, <3>1 DEF JobTypeOK
  <2> QED BY <1>4, <2>2, <2>3 DEF CheckBlock
<1>5. CASE TradePanics
  BY <1>1, <1>5, IdleTypes, UnchangedTypes DEF TradePanics
<1>6. CASE Trade
  <2>1. job \in Job /\ job.tx \in Txs /\ job.signal \in SignalMsgs
    BY <1>6 DEF Trade, JobTypeOK
  <2>2. NewOrder \in Order
    BY <2>1, NewOrderType
  <2>3. EffectTypeOK'
    BY <1>6, <2>2, AppendProperties DEF Trade, EffectTypeOK
  <2> QED BY <1>1, <1>6, <2>3, IdleTypes DEF Trade
<1>7. CASE TradeFails
  BY <1>1, <1>7, IdleTypes, UnchangedTypes DEF TradeFails
<1> QED BY <1>2, <1>3, <1>4, <1>5, <1>6, <1>7 DEF TxHandler

(* The other cases of the select and the restart. *)
LEMMA SignalCaseTypes ==
  ASSUME TypeOK, RecvSignal \/ AnalyseCtxDone \/ Restart
  PROVE  TypeOK'
<1> USE DEF TypeOK
<1>1. CASE RecvSignal
  <2>1. EnvTypeOK' /\ HeaderTypeOK' /\ EffectTypeOK'
    BY <1>1, UnchangedTypes DEF RecvSignal
  <2>2. Head(signalQ) \in SignalMsgs \cup {Malformed} /\ FeedTypeOK'
    BY <1>1, HeadTailProperties DEF RecvSignal, FeedTypeOK, feedVars
  <2>3. JobTypeOK'
    BY <1>1, IdleTypes DEF RecvSignal
  <2>4. ListTypeOK'
    <3>1. CASE UNCHANGED listVars
      BY <3>1, UnchangedTypes
    <3>2. CASE ~UNCHANGED listVars
      <4> DEFINE m == Head(signalQ)
      <4>1. /\ m \in SignalMsgs
            /\ signals' = Push(signals, m) /\ accepted' = Append(accepted, m)
            /\ UNCHANGED pendingTxList
        BY <1>1, <2>2, <3>2 DEF RecvSignal
      <4> HIDE DEF m
      <4> QED BY <4>1, PushProperties, AppendProperties DEF ListTypeOK
    <3> QED BY <3>1, <3>2
  <2> QED BY <2>1, <2>2, <2>3, <2>4
<1>2. CASE AnalyseCtxDone
  <2>1. FeedTypeOK'
    BY <1>2 DEF AnalyseCtxDone, CloseWsClient, FeedTypeOK
  <2>2. EffectTypeOK'
    BY <1>2, UnchangedTypes DEF AnalyseCtxDone
  <2>3. EnvTypeOK' /\ HeaderTypeOK' /\ ListTypeOK'
    BY <1>2, UnchangedTypes DEF AnalyseCtxDone
  <2>4. JobTypeOK'
    BY <1>2, UnchangedTypes DEF AnalyseCtxDone, listVars
  <2> QED BY <2>1, <2>2, <2>3, <2>4
<1>3. CASE Restart
  BY <1>3, IdleTypes, UnchangedTypes DEF Restart
<1> QED BY <1>1, <1>2, <1>3

(***************************************************************************)
(* Every variable keeps its type, and every local of the analyser is set   *)
(* wherever the code uses it: an analyser past RebuildTx holds a signal,   *)
(* and each published price is a natural number.                           *)
(***************************************************************************)
THEOREM TypeCorrect == Spec => []TypeOK
<1>1. NodeMgrInit => TypeOK
  <2> SUFFICES ASSUME NodeMgrInit PROVE TypeOK
    OBVIOUS
  <2>1. EnvTypeOK /\ HeaderTypeOK
    <3>1. Epoch \in Nat /\ FirstBlock \in Nat
      BY NodeMgrAssumption
    <3> QED BY <3>1, EmptySeq DEF NodeMgrInit, EnvTypeOK, HeaderTypeOK
  <2>2. FeedTypeOK /\ ListTypeOK /\ EffectTypeOK
    BY EmptySeq DEF NodeMgrInit, FeedTypeOK, ListTypeOK, EffectTypeOK
  <2>3. JobTypeOK
    BY IdleJobType DEF NodeMgrInit, JobTypeOK
  <2> QED BY <2>1, <2>2, <2>3 DEF TypeOK
<1>2. TypeOK /\ [Next]_vars => TypeOK'
  <2>1. ASSUME TypeOK, UNCHANGED vars PROVE TypeOK'
    BY <2>1, UnchangedTypes DEF TypeOK, vars, listVars
  <2> QED BY <2>1, EnvironmentTypes, SubGethBlockHeaderTypes, TxCaseTypes, TxHandlerTypes,
             SignalCaseTypes DEF Next, GasPriceAnalyse
<1> QED BY <1>1, <1>2, PTL DEF Spec

----------------------------------------------------------------------------
(* The list of signals and the signal an order is built from.              *)

(* A push keeps the newest part of what was pushed so far. *)
LEMMA PushKeepsRecentPart ==
  ASSUME NEW S, NEW list \in Seq(S), NEW history \in Seq(S), NEW x \in S,
         IsRecentPart(list, history)
  PROVE  IsRecentPart(Push(list, x), Append(history, x))
<1> DEFINE pushed == Push(list, x)
           longer == Append(history, x)
<1>1. /\ Len(list) \in Nat /\ Len(history) \in Nat /\ Len(pushed) \in Nat
      /\ Drop \in Nat \ {0} /\ MaxLen \in Nat /\ Drop <= MaxLen
  BY PushProperties, LenProperties, RecentListAssumption
<1>2. /\ Len(list) <= Len(history) /\ Len(list) <= MaxLen + 1
      /\ Len(list) < MaxLen - Drop + 2 => Len(list) = Len(history)
      /\ \A i \in 1..Len(list) : list[i] = history[Len(history) - Len(list) + i]
  BY DEF IsRecentPart, KeptAfterTrim
<1>3. /\ Len(pushed) = IF Len(list) > MaxLen THEN Len(list) - Drop + 1 ELSE Len(list) + 1
      /\ pushed[Len(pushed)] = x
      /\ \A i \in 1..(Len(pushed) - 1) : pushed[i] = list[Len(list) - Len(pushed) + 1 + i]
  BY PushProperties
<1>4. /\ Len(longer) = Len(history) + 1 /\ longer[Len(history) + 1] = x
      /\ \A i \in 1..Len(history) : longer[i] = history[i]
  BY AppendProperties
<1> HIDE DEF pushed, longer
<1>5. /\ Len(pushed) <= Len(longer) /\ Len(pushed) <= MaxLen + 1
      /\ Len(pushed) < MaxLen - Drop + 2 => Len(pushed) = Len(longer)
  BY <1>1, <1>2, <1>3, <1>4
<1>6. ASSUME NEW i \in 1..Len(pushed)
      PROVE  pushed[i] = longer[Len(longer) - Len(pushed) + i]
  <2>1. CASE i = Len(pushed)
    BY <1>1, <1>3, <1>4, <2>1
  <2>2. CASE i # Len(pushed)
    <3> DEFINE j == Len(list) - Len(pushed) + 1 + i
               k == Len(history) - Len(list) + j
    <3>1. i \in 1..(Len(pushed) - 1)
      BY <1>1, <2>2
    <3>2. j \in 1..Len(list) /\ k \in 1..Len(history)
      BY <1>1, <1>2, <1>3, <3>1
    <3>3. k = Len(longer) - Len(pushed) + i
      BY <1>1, <1>4
    <3>4. pushed[i] = list[j] /\ list[j] = history[k] /\ history[k] = longer[k]
      BY <1>2, <1>3, <1>4, <3>1, <3>2
    <3> QED BY <3>3, <3>4
  <2> QED BY <2>1, <2>2
<1> QED BY <1>5, <1>6 DEF IsRecentPart, KeptAfterTrim, pushed, longer

(* Only RecvSignal touches the signals, and it pushes one or none. *)
LEMMA SignalSteps ==
  ASSUME TypeOK, [Next]_vars
  PROVE  \/ UNCHANGED <<signals, accepted>>
         \/ /\ aPc = "select" /\ aPc' \in {"select", "panic"}
            /\ \E m \in SignalMsgs : /\ signals' = Push(signals, m)
                                     /\ accepted' = Append(accepted, m)
<1>1. CASE RecvSignal
  <2> DEFINE m == Head(signalQ)
  <2>1. m \in SignalMsgs \cup {Malformed}
    BY <1>1, HeadTailProperties DEF RecvSignal, TypeOK, FeedTypeOK
  <2>2. aPc = "select" /\ aPc' \in {"select", "panic"}
    BY <1>1 DEF RecvSignal, NextCase, Panics
  <2>3. CASE m = Malformed
    BY <1>1, <2>3 DEF RecvSignal, listVars
  <2>4. CASE m # Malformed
    <3>1. signals' = Push(signals, m) /\ accepted' = Append(accepted, m) /\ m \in SignalMsgs
      BY <1>1, <2>1, <2>4 DEF RecvSignal
    <3> HIDE DEF m
    <3> QED BY <2>2, <3>1
  <2> QED BY <2>3, <2>4
<1>2. CASE Environment \/ SubscribeFullPendingTransactions
  BY <1>2 DEF Environment, Tick, Mine, DropConnection, Cancel, AnnounceTx, SendSignal,
              SubscribeFullPendingTransactions, listVars
<1>3. CASE SubGethBlockHeader
  BY <1>3 DEF SubGethBlockHeader, SubscribeNewHeads, HeaderCtxDone, RecvHead, StoreHead, listVars
<1>4. CASE TxCase
  BY <1>4 DEF TxCase, RecvRouterTx, RecvEnemyTx, RecvOtherTx, listVars
<1>5. CASE TxHandler
  BY <1>5 DEF TxHandler, Decoded, RebuildTx, CheckBlock, TradePanics, Trade, TradeFails, listVars
<1>6. CASE AnalyseCtxDone \/ Restart \/ UNCHANGED vars
  BY <1>6 DEF AnalyseCtxDone, Restart, listVars, vars
<1> QED BY <1>1, <1>2, <1>3, <1>4, <1>5, <1>6 DEF Next, GasPriceAnalyse

(***************************************************************************)
(* No signal is lost, duplicated or reordered between the channel and the  *)
(* list, for every MaxLen and Drop, through every panic and restart.       *)
(***************************************************************************)
THEOREM SignalsKept == Spec => []NewestSignalsKept
<1>1. NodeMgrInit => NewestSignalsKept
  BY RecentListAssumption DEF NodeMgrInit, NewestSignalsKept, IsRecentPart, KeptAfterTrim
<1>2. TypeOK /\ NewestSignalsKept /\ [Next]_vars => NewestSignalsKept'
  <2> SUFFICES ASSUME TypeOK, NewestSignalsKept, [Next]_vars
               PROVE  NewestSignalsKept'
    OBVIOUS
  <2>1. CASE UNCHANGED <<signals, accepted>>
    BY <2>1 DEF NewestSignalsKept
  <2>2. ASSUME NEW m \in SignalMsgs,
               signals' = Push(signals, m), accepted' = Append(accepted, m)
        PROVE  NewestSignalsKept'
    <3>1. IsRecentPart(signals, accepted)
          /\ signals \in Seq(SignalMsgs) /\ accepted \in Seq(SignalMsgs)
      BY DEF NewestSignalsKept, TypeOK, ListTypeOK
    <3>2. IsRecentPart(Push(signals, m), Append(accepted, m))
      BY <3>1, PushKeepsRecentPart
    <3> QED BY <2>2, <3>2 DEF NewestSignalsKept
  <2> QED BY <2>1, <2>2, SignalSteps
<1> QED BY <1>1, <1>2, TypeCorrect, PTL DEF Spec

(* RebuildTx finds the newest accepted signal of the symbol. *)
LEMMA RebuildFindsNewest ==
  ASSUME TypeOK, NewestSignalsKept, NEW symbol,
         \E k \in 1..Len(signals) : signals[k].symbol = symbol
  PROVE  NewestFor(symbol, GetLastSignalBySymbol(signals, symbol))
<1>1. /\ signals \in Seq(SignalMsgs) /\ accepted \in Seq(SignalMsgs) /\ signals # <<>>
      /\ Len(signals) \in Nat /\ Len(accepted) \in Nat
  BY LenProperties DEF TypeOK, ListTypeOK
<1>2. PICK i \in 1..Len(signals) :
        /\ GetLastSignalBySymbol(signals, symbol) = signals[i]
        /\ signals[i].symbol = symbol
        /\ \A j \in (i + 1)..Len(signals) : signals[j].symbol # symbol
  BY <1>1, LastSignalProperties
<1>3. /\ Len(signals) <= Len(accepted)
      /\ \A j \in 1..Len(signals) : signals[j] = accepted[Len(accepted) - Len(signals) + j]
  BY DEF NewestSignalsKept, IsRecentPart
<1> DEFINE n == Len(accepted) - Len(signals) + i
<1>4. n \in 1..Len(accepted) /\ accepted[n] = signals[i]
  BY <1>1, <1>2, <1>3
<1>5. ASSUME NEW j \in (n + 1)..Len(accepted)
      PROVE  accepted[j].symbol # symbol
  <2> DEFINE k == j - (Len(accepted) - Len(signals))
  <2>1. k \in (i + 1)..Len(signals) /\ k \in 1..Len(signals)
        /\ j = Len(accepted) - Len(signals) + k
    BY <1>1, <1>2, <1>3
  <2>2. accepted[j] = signals[k]
    BY <1>3, <2>1
  <2> QED BY <1>2, <2>1, <2>2
<1> QED BY <1>2, <1>4, <1>5 DEF NewestFor

(* While an order is in the making the select takes no signal, and the      *)
(* order's symbol and signal stay what they are.                            *)
LEMMA OrderInTheMaking ==
  ASSUME TypeOK, [Next]_vars, aPc' \in {"check", "publish"}
  PROVE  /\ UNCHANGED <<signals, accepted>>
         /\ \/ aPc \in {"check", "publish"} /\ job'.symbol = job.symbol
                                            /\ job'.signal = job.signal
            \/ job'.symbol = job.symbol
               /\ job'.signal = GetLastSignalBySymbol(signals, job.symbol)
<1>1. UNCHANGED <<signals, accepted>>
  BY SignalSteps
<1>2. job \in Job
  BY DEF TypeOK, JobTypeOK
<1>3. CASE RebuildTx
  BY <1>1, <1>2, <1>3 DEF RebuildTx, Panics, Job
<1>4. CASE CheckBlock
  BY <1>1, <1>2, <1>4 DEF CheckBlock, Panics, NextCase, Job
<1>5. CASE UNCHANGED <<aPc, job>>
  BY <1>1, <1>5
<1>6. CASE Environment \/ SubscribeFullPendingTransactions \/ SubGethBlockHeader
           \/ AnalyseCtxDone \/ UNCHANGED vars
  <2>1. UNCHANGED <<aPc, job>>
    BY <1>6 DEF Environment, Tick, Mine, DropConnection, Cancel, AnnounceTx, SendSignal,
                SubscribeFullPendingTransactions, SubGethBlockHeader, SubscribeNewHeads,
                HeaderCtxDone, RecvHead, StoreHead, AnalyseCtxDone, vars
  <2> QED BY <1>5, <2>1
<1>7. CASE RecvSignal \/ Restart \/ TradePanics \/ Trade \/ TradeFails
  BY <1>7 DEF RecvSignal, Restart, TradePanics, Trade, TradeFails, NextCase, Panics
<1>8. CASE TxCase \/ Decoded
  BY <1>8 DEF TxCase, RecvRouterTx, RecvEnemyTx, RecvOtherTx, Decoded, Decide, NextCase, Panics
<1> QED BY <1>3, <1>4, <1>6, <1>7, <1>8 DEF Next, GasPriceAnalyse, TxHandler

(***************************************************************************)
(* The order in the making is built from the newest signal ever accepted   *)
(* for its symbol, if the list holds one for that symbol at all.           *)
(***************************************************************************)
THEOREM NewestSignalTraded == Spec => []TradesNewestSignal
<1>1. NodeMgrInit => TradesNewestSignal
  BY DEF NodeMgrInit, TradesNewestSignal
<1>2. TypeOK /\ NewestSignalsKept /\ TradesNewestSignal /\ [Next]_vars => TradesNewestSignal'
  <2> SUFFICES ASSUME TypeOK, NewestSignalsKept, TradesNewestSignal, [Next]_vars,
                      aPc' \in {"check", "publish"},
                      \E k \in 1..Len(signals') : signals'[k].symbol = job'.symbol
               PROVE  NewestFor(job.symbol, job.signal)'
    BY DEF TradesNewestSignal
  <2>1. UNCHANGED <<signals, accepted>> /\ job'.symbol = job.symbol
    BY OrderInTheMaking
  <2>2. \E k \in 1..Len(signals) : signals[k].symbol = job.symbol
    BY <2>1
  <2>3. NewestFor(job.symbol, job'.signal)
    <3>1. CASE aPc \in {"check", "publish"} /\ job'.signal = job.signal
      BY <2>2, <3>1 DEF TradesNewestSignal
    <3>2. CASE job'.signal = GetLastSignalBySymbol(signals, job.symbol)
      BY <2>2, <3>2, RebuildFindsNewest
    <3> QED BY <3>1, <3>2, OrderInTheMaking
  <2> QED BY <2>1, <2>3 DEF NewestFor
<1> QED BY <1>1, <1>2, TypeCorrect, SignalsKept, PTL DEF Spec

(***************************************************************************)
(* CancelTx is unreachable, whatever the maps, traces and receipts are.    *)
(***************************************************************************)
THEOREM CancelUnreachable == Spec => []NeverCancels
<1>1. NodeMgrInit => NeverCancels
  BY DEF NodeMgrInit, NeverCancels
<1>2. NeverCancels /\ [Next]_vars => NeverCancels'
  <2> SUFFICES ASSUME ~cancelled, [Next]_vars PROVE ~cancelled'
    BY DEF NeverCancels
  <2>1. CASE RecvRouterTx
    BY <2>1 DEF RecvRouterTx, Decide
  <2>2. CASE Decoded
    BY <2>2, DecodedOnce DEF Decide, ClientSymbol
  <2>3. CASE UNCHANGED cancelled
    BY <2>3
  <2>4. CASE Environment \/ SubscribeFullPendingTransactions \/ SubGethBlockHeader
    BY <2>3, <2>4 DEF Environment, Tick, Mine, DropConnection, Cancel, AnnounceTx, SendSignal,
                SubscribeFullPendingTransactions, SubGethBlockHeader, SubscribeNewHeads,
                HeaderCtxDone, RecvHead, StoreHead, effectVars
  <2>5. CASE RecvEnemyTx \/ RecvOtherTx \/ RecvSignal \/ AnalyseCtxDone \/ Restart
    BY <2>3, <2>5 DEF RecvEnemyTx, RecvOtherTx, RecvSignal, AnalyseCtxDone, Restart, effectVars
  <2>6. CASE RebuildTx \/ CheckBlock \/ TradePanics \/ Trade \/ TradeFails
    BY <2>3, <2>6 DEF RebuildTx, CheckBlock, TradePanics, Trade, TradeFails, effectVars
  <2>7. CASE UNCHANGED vars
    BY <2>3, <2>7 DEF vars, effectVars
  <2> QED BY <2>1, <2>2, <2>4, <2>5, <2>6, <2>7 DEF Next, GasPriceAnalyse, TxCase, TxHandler
<1> QED BY <1>1, <1>2, PTL DEF Spec

----------------------------------------------------------------------------
(* The headers and the block check.                                        *)

Stamped(h) == h.time >= 60 /\ h.number < nextBlock

(***************************************************************************)
(* The headers of the list, then the one being stored, then the buffered   *)
(* ones: each was mined already, with a time past the first minute of the  *)
(* epoch, and their numbers rise.  The code has no check of its own for    *)
(* this; it follows from the order in which the node announces blocks.     *)
(***************************************************************************)
HeadersInOrder ==
  /\ now >= 60
  /\ \A i \in 1..Len(headerWsList) : Stamped(headerWsList[i])
  /\ \A i \in 1..Len(headQ) : Stamped(headQ[i])
  /\ \A i, j \in 1..Len(headerWsList) :
       i < j => headerWsList[i].number < headerWsList[j].number
  /\ \A i, j \in 1..Len(headQ) : i < j => headQ[i].number < headQ[j].number
  /\ \A i \in 1..Len(headerWsList), j \in 1..Len(headQ) :
       headerWsList[i].number < headQ[j].number
  /\ hPc = "store" =>
       /\ Stamped(newHead)
       /\ \A i \in 1..Len(headerWsList) : headerWsList[i].number < newHead.number
       /\ \A j \in 1..Len(headQ) : newHead.number < headQ[j].number

(* The steps that touch a header, the clock or the chain. *)
LEMMA HeaderSteps ==
  ASSUME [Next]_vars
  PROVE  \/ UNCHANGED <<now, nextBlock, headQ, headerVars>>
         \/ Tick \/ Mine \/ RecvHead \/ StoreHead
         \/ headQ' = <<>> /\ UNCHANGED <<now, nextBlock, headerVars>>
         \/ SubscribeNewHeads
<1>1. CASE Environment \/ SubscribeFullPendingTransactions
  BY <1>1 DEF Environment, DropConnection, Cancel, AnnounceTx, SendSignal,
              SubscribeFullPendingTransactions, envVars, feedVars
<1>2. CASE SubGethBlockHeader
  BY <1>2 DEF SubGethBlockHeader, HeaderCtxDone, CloseWsClient, envVars
<1>3. CASE TxCase
  BY <1>3 DEF TxCase, RecvRouterTx, RecvEnemyTx, RecvOtherTx, envVars
<1>4. CASE TxHandler
  BY <1>4 DEF TxHandler, Decoded, RebuildTx, CheckBlock, TradePanics, Trade, TradeFails,
              envVars, feedVars
<1>5. CASE RecvSignal \/ AnalyseCtxDone \/ Restart \/ UNCHANGED vars
  BY <1>5 DEF RecvSignal, AnalyseCtxDone, CloseWsClient, Restart, vars, envVars, feedVars
<1> QED BY <1>1, <1>2, <1>3, <1>4, <1>5 DEF Next, GasPriceAnalyse

(***************************************************************************)
(* The blocks of the header list are in the order in which they were mined *)
(* and newer ones are behind it, whatever is trimmed, dropped or lost.     *)
(***************************************************************************)
THEOREM HeadersStayInOrder == Spec => []HeadersInOrder
<1>1. NodeMgrInit => HeadersInOrder
  BY NodeMgrAssumption, EmptySeq DEF NodeMgrInit, HeadersInOrder
<1>2. TypeOK /\ HeadersInOrder /\ [Next]_vars => HeadersInOrder'
  <2> SUFFICES ASSUME TypeOK, HeadersInOrder, [Next]_vars
               PROVE  HeadersInOrder'
    OBVIOUS
  <2>1. /\ now \in Nat /\ nextBlock \in Nat
        /\ headQ \in Seq(Header) /\ headerWsList \in Seq(Header)
        /\ Len(headQ) \in Nat /\ Len(headerWsList) \in Nat
        /\ hPc = "store" => newHead \in Header
    BY LenProperties DEF TypeOK, EnvTypeOK, FeedTypeOK, HeaderTypeOK
  <2>2. /\ \A i \in 1..Len(headQ) : headQ[i].number \in Nat
        /\ \A i \in 1..Len(headerWsList) : headerWsList[i].number \in Nat
        /\ hPc = "store" => newHead.number \in Nat
    <3>1. \A h \in Header : h.number \in Nat
      BY DEF Header
    <3>2. /\ \A i \in 1..Len(headQ) : headQ[i] \in Header
          /\ \A i \in 1..Len(headerWsList) : headerWsList[i] \in Header
      BY <2>1, ElementOfSeq
    <3> QED BY <2>1, <3>1, <3>2
  <2>3. CASE UNCHANGED <<now, nextBlock, headQ, headerVars>>
    BY <2>3 DEF HeadersInOrder, Stamped, headerVars
  <2>4. CASE Tick
    BY <2>1, <2>4 DEF Tick, HeadersInOrder, Stamped, feedVars, headerVars
  <2>5. CASE headQ' = <<>> /\ UNCHANGED <<now, nextBlock, headerVars>>
    BY <2>5, EmptySeq DEF HeadersInOrder, Stamped, headerVars
  <2>6. CASE SubscribeNewHeads
    BY <2>6 DEF SubscribeNewHeads, HeadersInOrder, Stamped, envVars
  <2>7. CASE Mine
    <3> DEFINE h == [number |-> nextBlock, time |-> now]
    <3>1. /\ nextBlock' = nextBlock + 1 /\ UNCHANGED <<now, headerVars>>
          /\ headQ' = headQ \/ headQ' = Append(headQ, h)
      BY <2>7 DEF Mine
    <3>2. h \in Header /\ h.number = nextBlock /\ h.time = now
      BY <2>1 DEF Header
    <3> HIDE DEF h
    <3>3. CASE headQ' = headQ
      <4>1. \A i \in 1..Len(headQ) : Stamped(headQ[i])'
        BY <2>1, <2>2, <3>1, <3>3 DEF HeadersInOrder, Stamped
      <4>2. \A i \in 1..Len(headerWsList) : Stamped(headerWsList[i])'
        BY <2>1, <2>2, <3>1 DEF HeadersInOrder, Stamped, headerVars
      <4>3. hPc = "store" => Stamped(newHead)'
        BY <2>1, <2>2, <3>1 DEF HeadersInOrder, Stamped, headerVars
      <4> QED BY <3>1, <3>3, <4>1, <4>2, <4>3 DEF HeadersInOrder, headerVars
    <3>4. CASE headQ' = Append(headQ, h)
      <4>1. /\ Len(headQ') = Len(headQ) + 1 /\ headQ'[Len(headQ) + 1] = h
            /\ \A i \in 1..Len(headQ) : headQ'[i] = headQ[i]
        BY <2>1, <3>2, <3>4, AppendProperties
      <4>2. ASSUME NEW i \in 1..Len(headQ')
            PROVE  i \in 1..Len(headQ) \/ (i = Len(headQ) + 1 /\ headQ'[i] = h)
        BY <2>1, <4>1
      <4>3. \A i \in 1..Len(headQ') : Stamped(headQ[i])'
        BY <2>1, <2>2, <3>1, <3>2, <4>1, <4>2 DEF HeadersInOrder, Stamped
      <4>4. \A i \in 1..Len(headerWsList) : Stamped(headerWsList[i])'
        BY <2>1, <2>2, <3>1 DEF HeadersInOrder, Stamped, headerVars
      <4>5. \A i, j \in 1..Len(headQ') : i < j => headQ'[i].number < headQ'[j].number
        BY <2>1, <2>2, <3>2, <4>1, <4>2 DEF HeadersInOrder, Stamped
      <4>6. \A i \in 1..Len(headerWsList), j \in 1..Len(headQ') :
               headerWsList[i].number < headQ'[j].number
        BY <2>1, <2>2, <3>2, <4>1, <4>2 DEF HeadersInOrder, Stamped
      <4>7. hPc = "store" => \A j \in 1..Len(headQ') : newHead.number < headQ'[j].number
        BY <2>1, <2>2, <3>2, <4>1, <4>2 DEF HeadersInOrder, Stamped
      <4>8. hPc = "store" => Stamped(newHead)'
        BY <2>1, <2>2, <3>1 DEF HeadersInOrder, Stamped, headerVars
      <4> QED BY <3>1, <4>3, <4>4, <4>5, <4>6, <4>7, <4>8 DEF HeadersInOrder, headerVars
    <3> QED BY <3>1, <3>3, <3>4
  <2>8. CASE RecvHead
    <3>1. /\ hPc = "select" /\ headQ # <<>> /\ headQ' = Tail(headQ)
          /\ UNCHANGED <<now, nextBlock, headerWsList>>
          /\ hPc' = "store" => newHead' = Head(headQ)
      BY <2>8 DEF RecvHead, envVars
    <3>2. /\ Len(headQ') = Len(headQ) - 1 /\ Head(headQ) = headQ[1] /\ 1 \in 1..Len(headQ)
          /\ \A i \in 1..Len(headQ') : headQ'[i] = headQ[i + 1] /\ i + 1 \in 1..Len(headQ)
      BY <2>1, <3>1, HeadTailProperties, EmptySeq
    <3> QED BY <2>1, <2>2, <3>1, <3>2 DEF HeadersInOrder, Stamped
  <2>9. CASE StoreHead
    <3>1. /\ hPc = "store" /\ hPc' = "select" /\ headerWsList' = Push(headerWsList, newHead)
          /\ UNCHANGED <<now, nextBlock, headQ>>
      BY <2>9 DEF StoreHead, envVars, feedVars
    <3> DEFINE shift == Len(headerWsList) - Len(headerWsList') + 1
    <3>2. /\ Len(headerWsList') \in Nat \ {0}
          /\ shift >= 0
          /\ headerWsList'[Len(headerWsList')] = newHead
          /\ \A i \in 1..(Len(headerWsList') - 1) :
               headerWsList'[i] = headerWsList[shift + i]
      <4>1. newHead \in Header
        BY <2>1, <3>1
      <4>2. /\ headerWsList' \in Seq(Header)
            /\ Len(headerWsList') = IF Len(headerWsList) > MaxLen
                                    THEN Len(headerWsList) - Drop + 1
                                    ELSE Len(headerWsList) + 1
            /\ headerWsList'[Len(headerWsList')] = newHead
            /\ \A i \in 1..(Len(headerWsList') - 1) :
                 headerWsList'[i] = headerWsList[Len(headerWsList) - Len(headerWsList') + 1 + i]
        <5> DEFINE pushed == Push(headerWsList, newHead)
        <5>1. /\ pushed \in Seq(Header)
              /\ Len(pushed) = IF Len(headerWsList) > MaxLen
                               THEN Len(headerWsList) - Drop + 1
                               ELSE Len(headerWsList) + 1
              /\ pushed[Len(pushed)] = newHead
              /\ \A i \in 1..(Len(pushed) - 1) :
                   pushed[i] = headerWsList[Len(headerWsList) - Len(pushed) + 1 + i]
          BY <2>1, <4>1, PushProperties
        <5>2. headerWsList' = pushed
          BY <3>1
        <5> HIDE DEF pushed
        <5> QED BY <5>1, <5>2
      <4>3. Len(headerWsList') \in Nat \ {0} /\ shift >= 0
        <5>1. Len(headerWsList') \in Nat
          BY <4>2, LenProperties
        <5>2. Drop \in Nat \ {0} /\ MaxLen \in Nat /\ Drop <= MaxLen
          BY RecentListAssumption
        <5> QED BY <2>1, <4>2, <5>1, <5>2
      <4> QED BY <4>2, <4>3
    <3> HIDE DEF shift
    <3>3. ASSUME NEW i \in 1..Len(headerWsList')
          PROVE  \/ /\ i \in 1..(Len(headerWsList') - 1) /\ shift + i \in 1..Len(headerWsList)
                    /\ headerWsList'[i] = headerWsList[shift + i]
                 \/ i = Len(headerWsList') /\ headerWsList'[i] = newHead
      <4>1. CASE i = Len(headerWsList')
        BY <3>2, <4>1
      <4>2. CASE i # Len(headerWsList')
        <5>1. i \in 1..(Len(headerWsList') - 1)
          BY <3>2, <4>2
        <5>2. shift + i \in 1..Len(headerWsList)
          BY <2>1, <3>2, <5>1 DEF shift
        <5> QED BY <3>2, <5>1, <5>2
      <4> QED BY <4>1, <4>2
    <3>4. \A i \in 1..Len(headerWsList') : Stamped(headerWsList'[i])
      BY <3>1, <3>3 DEF HeadersInOrder
    <3>5. ASSUME NEW i \in 1..Len(headerWsList'), NEW j \in 1..Len(headerWsList'), i < j
          PROVE  headerWsList'[i].number < headerWsList'[j].number
      <4>1. shift \in Int
        BY <2>1, <3>2 DEF shift
      <4>2. /\ i \in 1..(Len(headerWsList') - 1) /\ shift + i \in 1..Len(headerWsList)
            /\ headerWsList'[i] = headerWsList[shift + i]
        BY <3>2, <3>3, <3>5
      <4>3. CASE j = Len(headerWsList') /\ headerWsList'[j] = newHead
        BY <3>1, <4>2, <4>3 DEF HeadersInOrder
      <4>4. CASE shift + j \in 1..Len(headerWsList) /\ headerWsList'[j] = headerWsList[shift + j]
        <5>1. shift + i < shift + j
          BY <3>5, <4>1
        <5> QED BY <4>2, <4>4, <5>1 DEF HeadersInOrder
      <4> QED BY <3>3, <4>3, <4>4
    <3>6. \A i \in 1..Len(headerWsList'), j \in 1..Len(headQ) :
             headerWsList'[i].number < headQ[j].number
      BY <3>1, <3>3 DEF HeadersInOrder
    <3> QED BY <3>1, <3>4, <3>5, <3>6 DEF HeadersInOrder, Stamped
  <2> QED BY <2>3, <2>4, <2>5, <2>6, <2>7, <2>8, <2>9, HeaderSteps
<1> QED BY <1>1, <1>2, TypeCorrect, PTL DEF Spec

(* A second within the minute is no more than a time past the minute. *)
LEMMA SecondWithinMinute ==
  ASSUME NEW t \in Nat, NEW time \in Nat, time >= 60
  PROVE  ~((t % 60) - time > 2)
OBVIOUS

(* The age computed from a second within the minute is negative. *)
LEMMA PendingBlockNumIsNext ==
  ASSUME TypeOK, HeadersInOrder, NEW i \in 1..Len(headerWsList)
  PROVE  /\ headerWsList[i].number \in Nat
         /\ GetPendingBlockNum(headerWsList[i], now) = headerWsList[i].number + 1
<1>1. headerWsList[i] \in Header
  BY ElementOfSeq DEF TypeOK, HeaderTypeOK
<1>2. headerWsList[i].number \in Nat /\ headerWsList[i].time \in Nat
  BY <1>1 DEF Header
<1>3. now \in Nat
  BY DEF TypeOK, EnvTypeOK
<1>4. headerWsList[i].time >= 60
  BY DEF HeadersInOrder, Stamped
<1>5. ~((now % 60) - headerWsList[i].time > 2)
  BY <1>2, <1>3, <1>4, SecondWithinMinute
<1> QED BY <1>2, <1>5 DEF GetPendingBlockNum

(* No stored header is ever refused for its age. *)
StaleGuardNeverFires ==
  \A i \in 1..Len(headerWsList) :
    GetPendingBlockNum(headerWsList[i], now) = headerWsList[i].number + 1

(***************************************************************************)
(* Why StaleHeaderRefused fails, and not only in its run: whatever the     *)
(* clock says after the first minute of 1970, and however old a header is, *)
(* the limit of line 196 does not apply to it, because time.Now().Second() *)
(* (line 195) is compared with a unix time.                                *)
(***************************************************************************)
THEOREM StaleGuardIsDead == Spec => []StaleGuardNeverFires
<1>1. TypeOK /\ HeadersInOrder => StaleGuardNeverFires
  BY PendingBlockNumIsNext DEF StaleGuardNeverFires
<1> QED BY <1>1, TypeCorrect, HeadersStayInOrder, PTL

(***************************************************************************)
(* What makes the block check sound when header reads are not torn: the    *)
(* newest stored block is at least as new as it was when the handler took  *)
(* the transaction, and an order that passed the check is for a later one. *)
(***************************************************************************)
BlockCheckInv ==
  /\ aPc \in {"decode", "rebuild", "check", "publish"} => job.floor <= Floor
  /\ aPc = "publish" => job.signal.tradeBlock > job.floor
  /\ OrdersPassBlockCheck

(* The newest stored block only grows. *)
LEMMA FloorGrows ==
  ASSUME TypeOK, HeadersInOrder, [Next]_vars
  PROVE  Floor \in Nat /\ Floor' \in Int /\ Floor <= Floor'
<1>1. Floor \in Nat
  BY FloorType DEF TypeOK
<1>2. CASE UNCHANGED headerWsList
  BY <1>1, <1>2 DEF Floor
<1>3. CASE StoreHead
  <2>1. /\ headerWsList' = Push(headerWsList, newHead)
        /\ hPc = "store" /\ newHead \in Header /\ newHead.number \in Nat
    BY <1>3 DEF StoreHead, TypeOK, HeaderTypeOK, Header
  <2>2. headerWsList \in Seq(Header) /\ Len(headerWsList) \in Nat
    BY LenProperties DEF TypeOK, HeaderTypeOK
  <2> DEFINE pushed == Push(headerWsList, newHead)
  <2>3. pushed \in Seq(Header) /\ pushed[Len(pushed)] = newHead
        /\ Len(pushed) # 0
    <3>1. /\ pushed \in Seq(Header) /\ pushed[Len(pushed)] = newHead
          /\ Len(pushed) = IF Len(headerWsList) > MaxLen THEN Len(headerWsList) - Drop + 1
                                                         ELSE Len(headerWsList) + 1
      BY <2>1, <2>2, PushProperties
    <3>2. Drop \in Nat /\ MaxLen \in Nat /\ Drop <= MaxLen
      BY RecentListAssumption
    <3> QED BY <2>2, <3>1, <3>2
  <2>4. Last(pushed) = newHead /\ pushed # <<>>
    BY <2>3, EmptySeq DEF Last
  <2>5. Floor' = newHead.number
    BY <2>1, <2>4 DEF Floor
  <2>6. CASE headerWsList = <<>>
    BY <2>1, <2>5, <2>6 DEF Floor
  <2>7. CASE headerWsList # <<>>
    <3>1. Len(headerWsList) \in 1..Len(headerWsList)
      BY <2>2, <2>7, EmptySeq
    <3>2. headerWsList[Len(headerWsList)].number < newHead.number
      BY <2>1, <3>1 DEF HeadersInOrder
    <3>3. Floor = headerWsList[Len(headerWsList)].number
      BY <2>7 DEF Floor, Last
    <3> QED BY <1>1, <2>1, <2>5, <3>2, <3>3
  <2> QED BY <2>6, <2>7
<1>4. UNCHANGED headerWsList \/ StoreHead
  BY HeaderSteps DEF headerVars, Tick, Mine, RecvHead, SubscribeNewHeads
<1> QED BY <1>2, <1>3, <1>4

(* The block check sees the latest header or none. *)
LEMMA UntornReads ==
  ASSUME Torn = FALSE, TypeOK, HeadersInOrder,
         NEW h \in HeaderReads, h \notin {Nil, NoHeader}
  PROVE  Floor \in Nat /\ GetPendingBlockNum(h, now) = Floor + 1
<1>1. h = LatestHeader
  BY DEF HeaderReads
<1>2. headerWsList # <<>> /\ h = headerWsList[Len(headerWsList)]
  BY <1>1 DEF LatestHeader, Last
<1>3. Len(headerWsList) \in 1..Len(headerWsList)
  BY <1>2, LenProperties, EmptySeq DEF TypeOK, HeaderTypeOK
<1>4. Floor = h.number
  BY <1>2 DEF Floor, Last
<1> QED BY <1>2, <1>3, <1>4, PendingBlockNumIsNext

(* A published order is one that was in the making. *)
LEMMA PublishedSteps ==
  ASSUME [Next]_vars
  PROVE  UNCHANGED published \/ Trade
<1>1. CASE Environment \/ SubscribeFullPendingTransactions \/ SubGethBlockHeader
  BY <1>1 DEF Environment, Tick, Mine, DropConnection, Cancel, AnnounceTx, SendSignal,
              SubscribeFullPendingTransactions, SubGethBlockHeader, SubscribeNewHeads,
              HeaderCtxDone, RecvHead, StoreHead, effectVars
<1>2. CASE TxCase \/ RecvSignal \/ AnalyseCtxDone \/ Restart \/ UNCHANGED vars
  BY <1>2 DEF TxCase, RecvRouterTx, RecvEnemyTx, RecvOtherTx, RecvSignal, AnalyseCtxDone,
              Restart, vars, effectVars
<1>3. CASE TxHandler
  BY <1>3 DEF TxHandler, Decoded, RebuildTx, CheckBlock, TradePanics, TradeFails, effectVars
<1> QED BY <1>1, <1>2, <1>3 DEF Next, GasPriceAnalyse

(* How the analyser's place and locals change: the floor is set when a      *)
(* transaction is taken, and only CheckBlock leads to the publication.      *)
LEMMA JobSteps ==
  ASSUME TypeOK, [Next]_vars, aPc' \in {"decode", "rebuild", "check", "publish"}
  PROVE  \/ UNCHANGED <<aPc, job>>
         \/ aPc' # "publish" /\ job'.floor = Floor
         \/ /\ aPc' # "publish" /\ job'.floor = job.floor
            /\ aPc \in {"decode", "rebuild"}
         \/ CheckBlock
<1>1. job \in Job
  BY DEF TypeOK, JobTypeOK
<1>2. CASE Environment \/ SubscribeFullPendingTransactions \/ SubGethBlockHeader
           \/ AnalyseCtxDone \/ UNCHANGED vars
  BY <1>2 DEF Environment, Tick, Mine, DropConnection, Cancel, AnnounceTx, SendSignal,
              SubscribeFullPendingTransactions, SubGethBlockHeader, SubscribeNewHeads,
              HeaderCtxDone, RecvHead, StoreHead, AnalyseCtxDone, vars
<1>3. CASE RecvSignal \/ Restart \/ TradePanics \/ Trade \/ TradeFails
  BY <1>3 DEF RecvSignal, Restart, TradePanics, Trade, TradeFails, NextCase, Panics
<1>4. CASE TxCase
  BY <1>4 DEF TxCase, RecvRouterTx, RecvEnemyTx, RecvOtherTx, Decide, NextCase, Panics, IdleJob
<1>5. CASE Decoded
  BY <1>5 DEF Decoded, Decide, NextCase, IdleJob
<1>6. CASE RebuildTx
  BY <1>1, <1>6 DEF RebuildTx, Panics, Job
<1>7. CASE CheckBlock
  BY <1>7
<1> QED BY <1>2, <1>3, <1>4, <1>5, <1>6, <1>7 DEF Next, GasPriceAnalyse, TxHandler

(***************************************************************************)
(* The block check does what it is for as long as no header read is torn:  *)
(* an order's trade block is past every block that was stored when its     *)
(* competitor's transaction arrived.                                       *)
(***************************************************************************)
THEOREM UntornBlockCheck ==
  ASSUME Torn = FALSE
  PROVE  Spec => []OrdersPassBlockCheck
<1>1. NodeMgrInit => BlockCheckInv
  BY EmptySeq DEF NodeMgrInit, BlockCheckInv, OrdersPassBlockCheck
<1>2. TypeOK /\ HeadersInOrder /\ BlockCheckInv /\ [Next]_vars => BlockCheckInv'
  <2> SUFFICES ASSUME TypeOK, HeadersInOrder, BlockCheckInv, [Next]_vars
               PROVE  BlockCheckInv'
    OBVIOUS
  <2>1. Floor \in Nat /\ Floor' \in Int /\ Floor <= Floor'
    BY FloorGrows
  <2>2. job \in Job /\ job.floor \in Nat
    BY DEF TypeOK, JobTypeOK, Job
  <2>3. CheckBlock => \/ aPc' \in {"select", "panic"}
                      \/ /\ aPc' = "publish" /\ job'.floor = job.floor
                         /\ job'.signal = job.signal
                         /\ job.floor <= Floor /\ job.signal.tradeBlock >= Floor + 1
                         /\ job.signal.tradeBlock \in Int
    <3> SUFFICES ASSUME CheckBlock, aPc' \notin {"select", "panic"}
                 PROVE  /\ aPc' = "publish" /\ job'.floor = job.floor
                        /\ job'.signal = job.signal
                        /\ job.floor <= Floor /\ job.signal.tradeBlock >= Floor + 1
                        /\ job.signal.tradeBlock \in Int
      OBVIOUS
    <3>1. PICK h \in HeaderReads :
             /\ h \notin {Nil, NoHeader}
             /\ job.signal.tradeBlock >= GetPendingBlockNum(h, now)
             /\ aPc' = "publish" /\ job' = job
      BY DEF CheckBlock, NextCase, Panics
    <3>2. GetPendingBlockNum(h, now) = Floor + 1
      BY <3>1, UntornReads
    <3>3. job.signal \in SignalMsgs /\ job.floor <= Floor
      BY DEF CheckBlock, TypeOK, JobTypeOK, BlockCheckInv
    <3>4. job.signal.tradeBlock \in Int
      BY <3>3, NodeMgrAssumption
    <3> QED BY <2>2, <3>1, <3>2, <3>3, <3>4 DEF Job
  <2>4. aPc' \in {"decode", "rebuild", "check", "publish"} => job'.floor <= Floor'
    <3> SUFFICES ASSUME aPc' \in {"decode", "rebuild", "check", "publish"}
                 PROVE  job'.floor <= Floor'
      OBVIOUS
    <3> QED BY <2>1, <2>2, <2>3, JobSteps DEF BlockCheckInv
  <2>5. aPc' = "publish" => job'.signal.tradeBlock > job'.floor
    BY <2>1, <2>2, <2>3, JobSteps DEF BlockCheckInv
  <2>6. OrdersPassBlockCheck'
    <3>1. CASE UNCHANGED published
      BY <3>1 DEF BlockCheckInv, OrdersPassBlockCheck
    <3>2. CASE Trade
      <4>1. /\ published' = Append(published, NewOrder)
            /\ job.signal.tradeBlock > job.floor
        BY <3>2 DEF Trade, BlockCheckInv
      <4>2. NewOrder.signal = job.signal /\ NewOrder.floor = job.floor
        BY DEF NewOrder
      <4>3. published \in Seq(Range(published) \cup {NewOrder})
        BY SeqMonotonic DEF TypeOK, EffectTypeOK, Range
      <4>4. /\ Len(published') = Len(published) + 1
            /\ published'[Len(published) + 1] = NewOrder
            /\ \A i \in 1..Len(published) : published'[i] = published[i]
            /\ Len(published) \in Nat
        BY <4>1, <4>3, AppendProperties, LenProperties
      <4>5. ASSUME NEW i \in 1..Len(published')
            PROVE  published'[i].signal.tradeBlock > published'[i].floor
        <5>1. i \in 1..Len(published) \/ i = Len(published) + 1
          BY <4>4
        <5> QED BY <4>1, <4>2, <4>4, <5>1 DEF BlockCheckInv, OrdersPassBlockCheck
      <4> QED BY <4>5 DEF OrdersPassBlockCheck
    <3> QED BY <3>1, <3>2, PublishedSteps
  <2> QED BY <2>4, <2>5, <2>6 DEF BlockCheckInv
<1>3. BlockCheckInv => OrdersPassBlockCheck
  BY DEF BlockCheckInv
<1> QED BY <1>1, <1>2, <1>3, TypeCorrect, HeadersStayInOrder, PTL DEF Spec

----------------------------------------------------------------------------
(* NodeMgr implements OrderDesk.                                           *)

Busy == aPc \in {"decode", "rebuild", "check", "publish"}

(***************************************************************************)
(* A transaction is in at most one place: not announced yet, buffered,     *)
(* in the handler, or answered.  The signal of an order in the making is   *)
(* still in the list.                                                      *)
(***************************************************************************)
DeskInv ==
  /\ \A i \in 1..Len(txQ) : txQ[i] \notin unsentTxs
  /\ \A i, j \in 1..Len(txQ) : i # j => txQ[i] # txQ[j]
  /\ \A i \in 1..Len(published) : published[i].tx \notin unsentTxs
  /\ \A i \in 1..Len(published), j \in 1..Len(txQ) : published[i].tx # txQ[j]
  /\ Busy => /\ job.tx \notin unsentTxs
             /\ \A j \in 1..Len(txQ) : job.tx # txQ[j]
             /\ \A i \in 1..Len(published) : published[i].tx # job.tx
  /\ aPc \in {"check", "publish"} => \E k \in 1..Len(signals) : signals[k] = job.signal

(* An order is in the making only after RebuildTx. *)
LEMMA PlacesOfOrders ==
  ASSUME [Next]_vars, aPc' \in {"check", "publish"}
  PROVE  aPc \in {"rebuild", "check", "publish"}
<1>1. CASE Environment \/ SubscribeFullPendingTransactions \/ SubGethBlockHeader
           \/ AnalyseCtxDone \/ UNCHANGED vars
  BY <1>1 DEF Environment, Tick, Mine, DropConnection, Cancel, AnnounceTx, SendSignal,
              SubscribeFullPendingTransactions, SubGethBlockHeader, SubscribeNewHeads,
              HeaderCtxDone, RecvHead, StoreHead, AnalyseCtxDone, vars
<1>2. CASE TxCase \/ RecvSignal \/ Restart
  BY <1>2 DEF TxCase, RecvRouterTx, RecvEnemyTx, RecvOtherTx, RecvSignal, Restart, Decide,
              NextCase, Panics
<1>3. CASE TxHandler
  BY <1>3 DEF TxHandler, Decoded, RebuildTx, CheckBlock, TradePanics, Trade, TradeFails, Decide,
              NextCase, Panics
<1> QED BY <1>1, <1>2, <1>3 DEF Next, GasPriceAnalyse

(* The steps that move a transaction. *)
LEMMA TxSteps ==
  ASSUME TypeOK, [Next]_vars
  PROVE  \/ /\ UNCHANGED <<unsentTxs, published>> /\ (txQ' = txQ \/ txQ' = <<>>)
            /\ Busy' => Busy /\ job'.tx = job.tx
         \/ \E t \in unsentTxs : AnnounceTx(t)
         \/ /\ txQ # <<>> /\ txQ' = Tail(txQ) /\ UNCHANGED <<unsentTxs, published>>
            /\ Busy' => job'.tx = Head(txQ)
         \/ Trade
<1>1. job \in Job
  BY DEF TypeOK, JobTypeOK
<1>2. CASE Tick \/ Mine \/ DropConnection \/ Cancel \/ SubscribeFullPendingTransactions
           \/ (\E m \in unsentSignals : SendSignal(m))
  BY <1>2 DEF Tick, Mine, DropConnection, Cancel, SendSignal,
              SubscribeFullPendingTransactions, envVars, feedVars, effectVars, Busy
<1>3. CASE SubGethBlockHeader \/ AnalyseCtxDone \/ UNCHANGED vars
  BY <1>3 DEF SubGethBlockHeader, SubscribeNewHeads, HeaderCtxDone, CloseWsClient, RecvHead,
              StoreHead, AnalyseCtxDone, vars, envVars, feedVars, effectVars, Busy
<1>4. CASE TxCase
  BY <1>4 DEF TxCase, RecvRouterTx, RecvEnemyTx, RecvOtherTx, TakeTx, Decide, NextCase, Panics,
              IdleJob, envVars, effectVars, Busy
<1>5. CASE RecvSignal \/ Restart \/ TradePanics \/ TradeFails
  BY <1>5 DEF RecvSignal, Restart, TradePanics, TradeFails, NextCase, Panics, Busy,
              envVars, feedVars, effectVars
<1>6. CASE Decoded
  BY <1>6 DEF Decoded, Decide, NextCase, IdleJob, Busy, envVars, feedVars
<1>7. CASE RebuildTx \/ CheckBlock
  BY <1>1, <1>7 DEF RebuildTx, CheckBlock, NextCase, Panics, Busy, Job,
                    envVars, feedVars, effectVars
<1> QED BY <1>2, <1>3, <1>4, <1>5, <1>6, <1>7
           DEF Next, Environment, GasPriceAnalyse, TxHandler

(* The invariant of the refinement: DeskInv holds in every reachable state. *)
THEOREM DeskInvariant == Spec => []DeskInv
<1>1. NodeMgrInit => DeskInv
  BY EmptySeq DEF NodeMgrInit, DeskInv, Busy
<1>2. TypeOK /\ DeskInv /\ [Next]_vars => DeskInv'
  <2> SUFFICES ASSUME TypeOK, DeskInv, [Next]_vars
               PROVE  DeskInv'
    OBVIOUS
  <2>1. /\ txQ \in Seq(Txs) /\ Len(txQ) \in Nat /\ unsentTxs \subseteq Txs
        /\ published \in Seq(Order) /\ Len(published) \in Nat
    BY LenProperties DEF TypeOK, EnvTypeOK, FeedTypeOK, EffectTypeOK
  <2>2. aPc' \in {"check", "publish"} => \E k \in 1..Len(signals') : signals'[k] = job'.signal
    <3> SUFFICES ASSUME aPc' \in {"check", "publish"}
                 PROVE  \E k \in 1..Len(signals') : signals'[k] = job'.signal
      OBVIOUS
    <3>1. UNCHANGED signals
      BY OrderInTheMaking
    <3>2. CASE aPc \in {"check", "publish"} /\ job'.signal = job.signal
      BY <3>1, <3>2 DEF DeskInv
    <3>3. CASE job'.signal = GetLastSignalBySymbol(signals, job.symbol) /\ signals # <<>>
      <4>1. signals \in Seq(SignalMsgs)
        BY DEF TypeOK, ListTypeOK
      <4> QED BY <3>1, <3>3, <4>1, LastSignalProperties
    <3>4. signals # <<>>
      <4>1. CASE aPc = "rebuild"
        BY <4>1 DEF TypeOK, JobTypeOK
      <4>2. CASE aPc \in {"check", "publish"}
        BY <4>2, EmptySeq DEF DeskInv
      <4> QED BY <4>1, <4>2, PlacesOfOrders
    <3> QED BY <3>2, <3>3, <3>4, OrderInTheMaking
  <2> DEFINE Rest ==
        /\ \A i \in 1..Len(txQ) : txQ[i] \notin unsentTxs
        /\ \A i, j \in 1..Len(txQ) : i # j => txQ[i] # txQ[j]
        /\ \A i \in 1..Len(published) : published[i].tx \notin unsentTxs
        /\ \A i \in 1..Len(published), j \in 1..Len(txQ) : published[i].tx # txQ[j]
        /\ Busy => /\ job.tx \notin unsentTxs
                   /\ \A j \in 1..Len(txQ) : job.tx # txQ[j]
                   /\ \A i \in 1..Len(published) : published[i].tx # job.tx
  <2>3. CASE /\ UNCHANGED <<unsentTxs, published>> /\ (txQ' = txQ \/ txQ' = <<>>)
             /\ Busy' => Busy /\ job'.tx = job.tx
    <3>1. \A i \in 1..Len(txQ') : i \in 1..Len(txQ) /\ txQ'[i] = txQ[i]
      BY <2>1, <2>3, EmptySeq
    <3>2. Rest'
      BY <2>3, <3>1 DEF DeskInv
    <3> QED BY <2>2, <3>2 DEF DeskInv
  <2>4. ASSUME NEW t \in unsentTxs, AnnounceTx(t)
        PROVE  DeskInv'
    <3>1. /\ unsentTxs' = unsentTxs \ {t} /\ UNCHANGED <<published, aPc, job>>
          /\ txQ' = Append(txQ, t) \/ txQ' = <<>>
      BY <2>4 DEF AnnounceTx, effectVars
    <3>2. CASE txQ' = <<>>
      <4>1. Len(txQ') = 0
        BY <3>2, EmptySeq
      <4>2. Rest'
        BY <3>1, <4>1 DEF DeskInv, Busy
      <4> QED BY <2>2, <4>2 DEF DeskInv
    <3>3. CASE txQ' = Append(txQ, t)
      <4>1. /\ Len(txQ') = Len(txQ) + 1 /\ txQ'[Len(txQ) + 1] = t
            /\ \A i \in 1..Len(txQ) : txQ'[i] = txQ[i]
        BY <2>1, <3>3, AppendProperties
      <4>2. ASSUME NEW i \in 1..Len(txQ')
            PROVE  \/ i \in 1..Len(txQ) /\ txQ'[i] = txQ[i]
                   \/ i = Len(txQ) + 1 /\ txQ'[i] = t
        BY <2>1, <4>1
      <4>3. Rest'
        <5>1. \A i \in 1..Len(txQ') : txQ'[i] \notin unsentTxs'
          BY <3>1, <4>2 DEF DeskInv
        <5>2. \A i, j \in 1..Len(txQ') : i # j => txQ'[i] # txQ'[j]
          BY <4>2 DEF DeskInv
        <5>3. \A i \in 1..Len(published), j \in 1..Len(txQ') : published[i].tx # txQ'[j]
          BY <4>2 DEF DeskInv
        <5>4. Busy => /\ job.tx \notin unsentTxs'
                      /\ \A j \in 1..Len(txQ') : job.tx # txQ'[j]
          BY <3>1, <4>2 DEF DeskInv
        <5> QED BY <3>1, <5>1, <5>2, <5>3, <5>4 DEF DeskInv, Busy
      <4> QED BY <2>2, <4>3 DEF DeskInv
    <3> QED BY <3>1, <3>2, <3>3
  <2>5. CASE /\ txQ # <<>> /\ txQ' = Tail(txQ) /\ UNCHANGED <<unsentTxs, published>>
             /\ Busy' => job'.tx = Head(txQ)
    <3>1. /\ Len(txQ') = Len(txQ) - 1 /\ Head(txQ) = txQ[1] /\ 1 \in 1..Len(txQ)
          /\ \A i \in 1..Len(txQ') : txQ'[i] = txQ[i + 1] /\ i + 1 \in 1..Len(txQ)
      BY <2>1, <2>5, HeadTailProperties, EmptySeq
    <3>2. \A i \in 1..Len(txQ') : i \in Nat /\ i + 1 # 1
      BY <2>1, <3>1
    <3>3. Rest'
      BY <2>1, <2>5, <3>1, <3>2 DEF DeskInv
    <3> QED BY <2>2, <3>3 DEF DeskInv
  <2>6. CASE Trade
    <3>1. /\ UNCHANGED <<unsentTxs, txQ>> /\ published' = Append(published, NewOrder)
          /\ Busy /\ ~Busy'
      BY <2>6 DEF Trade, NextCase, Busy, envVars, feedVars
    <3>2. NewOrder \in Order /\ NewOrder.tx = job.tx
      <4>1. job \in Job /\ job.tx \in Txs /\ job.signal \in SignalMsgs
        BY <2>6 DEF Trade, TypeOK, JobTypeOK
      <4> QED BY <4>1, NewOrderType DEF NewOrder
    <3>3. /\ Len(published') = Len(published) + 1 /\ published'[Len(published) + 1] = NewOrder
          /\ \A i \in 1..Len(published) : published'[i] = published[i]
      BY <2>1, <3>1, <3>2, AppendProperties
    <3>4. ASSUME NEW i \in 1..Len(published')
          PROVE  \/ i \in 1..Len(published) /\ published'[i] = published[i]
                 \/ published'[i] = NewOrder
      BY <2>1, <3>3
    <3>5. Rest'
      BY <3>1, <3>2, <3>4 DEF DeskInv
    <3> QED BY <2>2, <3>5 DEF DeskInv
  <2> QED BY <2>3, <2>4, <2>5, <2>6, TxSteps
<1> QED BY <1>1, <1>2, TypeCorrect, PTL DEF Spec

(* A published order as OrderDesk sees it, and the list of those. *)
DeskOrder(o) == [tx |-> o.tx, signal |-> o.signal]

DeskPublished == [i \in 1..Len(published) |-> DeskOrder(published[i])]

(* What OrderDesk sees of the published orders is a list of its orders. *)
LEMMA DeskPublishedType ==
  ASSUME published \in Seq(Order)
  PROVE  /\ DeskPublished \in Seq(Desk!Order)
         /\ Len(DeskPublished) = Len(published) /\ Len(published) \in Nat
<1>1. Len(published) \in Nat
  BY LenProperties
<1>2. \A i \in 1..Len(published) : DeskOrder(published[i]) \in Desk!Order
  <2>1. \A i \in 1..Len(published) : published[i] \in Order
    BY ElementOfSeq
  <2> QED BY <2>1 DEF DeskOrder, Desk!Order, Order
<1>3. DeskPublished \in [1..Len(published) -> Desk!Order]
  BY <1>2 DEF DeskPublished
<1>4. DeskPublished \in Seq(Desk!Order)
  BY <1>1, <1>3, SeqDef
<1>5. DOMAIN DeskPublished = 1..Len(published) /\ DOMAIN DeskPublished = 1..Len(DeskPublished)
      /\ Len(DeskPublished) \in Nat
  BY <1>4, LenProperties DEF DeskPublished
<1> QED BY <1>1, <1>4, <1>5

(* A signal of the list is one of the last MaxLen + 1 accepted ones. *)
LEMMA ListedSignalsAreRecent ==
  ASSUME TypeOK, NewestSignalsKept, NEW k \in 1..Len(signals)
  PROVE  signals[k] \in Desk!Recent
<1>1. /\ Len(signals) \in Nat /\ Len(accepted) \in Nat /\ MaxLen \in Nat
      /\ Len(signals) <= Len(accepted) /\ Len(signals) <= MaxLen + 1
      /\ signals[k] = accepted[Len(accepted) - Len(signals) + k]
  BY LenProperties, RecentListAssumption
     DEF TypeOK, ListTypeOK, NewestSignalsKept, IsRecentPart
<1> DEFINE n == Len(accepted) - Len(signals) + k
<1>2. n \in 1..Len(accepted) /\ n > Len(accepted) - (MaxLen + 1)
  BY <1>1
<1> QED BY <1>1, <1>2 DEF Desk!Recent

(***************************************************************************)
(* The whole of NodeMgr, with its panics, restarts, RPC calls and torn     *)
(* reads, implements OrderDesk: a competitor transaction is answered by at *)
(* most one order, built from one of the last MaxLen + 1 accepted signals. *)
(***************************************************************************)
THEOREM Refinement == Spec => ImplementsOrderDesk
<1> DEFINE DeskVars == <<accepted, DeskPublished>>
<1>1. NodeMgrInit => Desk!Init
  <2> SUFFICES ASSUME NodeMgrInit PROVE Desk!Init
    OBVIOUS
  <2>1. published = <<>> /\ accepted = <<>>
    BY DEF NodeMgrInit
  <2>2. DeskPublished \in Seq(Desk!Order) /\ Len(DeskPublished) = 0
    BY <2>1, EmptySeq, DeskPublishedType
  <2>3. DeskPublished = <<>>
    BY <2>2, EmptySeq
  <2> QED BY <2>1, <2>3 DEF Desk!Init, DeskPublished, DeskOrder
<1>2. TypeOK /\ TypeOK' /\ NewestSignalsKept /\ DeskInv /\ [Next]_vars => [Desk!Next]_DeskVars
  <2> SUFFICES ASSUME TypeOK, TypeOK', NewestSignalsKept, DeskInv, [Next]_vars
               PROVE  Desk!Next \/ UNCHANGED DeskVars
    OBVIOUS
  <2>1. CASE UNCHANGED <<published, accepted>>
    BY <2>1 DEF DeskPublished
  <2>2. ASSUME UNCHANGED published, NEW m \in SignalMsgs, accepted' = Append(accepted, m)
        PROVE  Desk!Next
    <3>1. UNCHANGED DeskPublished
      BY <2>2 DEF DeskPublished
    <3> QED BY <2>2, <3>1 DEF Desk!Next, Desk!Accept, DeskPublished, DeskOrder
  <2>3. CASE Trade /\ UNCHANGED accepted
    <3> DEFINE o == DeskOrder(NewOrder)
    <3>1. /\ published' = Append(published, NewOrder)
          /\ job.tx \in Txs /\ job.signal \in SignalMsgs /\ job \in Job
          /\ aPc = "publish"
      BY <2>3 DEF Trade, TypeOK, JobTypeOK
    <3>2. NewOrder \in Order /\ o \in Desk!Order /\ o.tx = job.tx /\ o.signal = job.signal
      BY <3>1, NewOrderType DEF NewOrder, DeskOrder, Desk!Order
    <3>3. /\ published \in Seq(Order) /\ published' \in Seq(Order)
          /\ Len(published') = Len(published) + 1 /\ published'[Len(published) + 1] = NewOrder
          /\ \A i \in 1..Len(published) : published'[i] = published[i]
      BY <3>1, <3>2, AppendProperties DEF TypeOK, EffectTypeOK
    <3>4. o.signal \in Desk!Recent
      <4>1. PICK k \in 1..Len(signals) : signals[k] = job.signal
        BY <3>1 DEF DeskInv
      <4> QED BY <3>2, <4>1, ListedSignalsAreRecent
    <3>5. o.tx \notin Desk!Answered
      <4>1. \A i \in 1..Len(published) : published[i].tx # job.tx
        BY <3>1 DEF DeskInv, Busy
      <4>2. Len(DeskPublished) = Len(published)
        BY <3>3, DeskPublishedType
      <4>3. \A i \in 1..Len(published) : DeskPublished[i].tx = published[i].tx
        BY DEF DeskPublished, DeskOrder
      <4> QED BY <3>2, <4>1, <4>2, <4>3 DEF Desk!Answered, DeskPublished, DeskOrder
    <3>6. DeskPublished' = Append(DeskPublished, o)
      <4>1. /\ DeskPublished \in Seq(Desk!Order) /\ Len(DeskPublished) = Len(published)
            /\ Len(published) \in Nat
        BY <3>3, DeskPublishedType
      <4>2. DeskPublished' \in Seq(Desk!Order) /\ Len(DeskPublished') = Len(published) + 1
        <5>1. Len(published') \in Nat
          BY <3>3, <4>1
        <5>2. \A i \in 1..Len(published') : published'[i] \in Order
          BY <3>3, ElementOfSeq
        <5>3. DeskPublished' \in [1..Len(published') -> Desk!Order]
          BY <5>2 DEF DeskPublished, DeskOrder, Desk!Order, Order
        <5>4. DeskPublished' \in Seq(Desk!Order)
          BY <5>1, <5>3, SeqDef
        <5>5. DOMAIN DeskPublished' = 1..Len(published') /\ Len(DeskPublished') \in Nat
              /\ DOMAIN DeskPublished' = 1..Len(DeskPublished')
          BY <5>4, LenProperties DEF DeskPublished
        <5> QED BY <3>3, <5>1, <5>4, <5>5
      <4>3. /\ Append(DeskPublished, o) \in Seq(Desk!Order)
            /\ Len(Append(DeskPublished, o)) = Len(published) + 1
            /\ Append(DeskPublished, o)[Len(published) + 1] = o
            /\ \A i \in 1..Len(published) : Append(DeskPublished, o)[i] = DeskPublished[i]
        BY <3>2, <4>1, AppendProperties
      <4>4. ASSUME NEW i \in 1..Len(DeskPublished')
            PROVE  DeskPublished'[i] = Append(DeskPublished, o)[i]
        <5>1. DeskPublished'[i] = DeskOrder(published'[i])
          BY <3>3, <4>2 DEF DeskPublished, DeskOrder
        <5>2. CASE i = Len(published) + 1
          BY <3>3, <4>3, <5>1, <5>2
        <5>3. CASE i \in 1..Len(published)
          BY <3>3, <4>3, <5>1, <5>3 DEF DeskPublished
        <5> QED BY <4>1, <4>2, <5>2, <5>3
      <4> HIDE DEF o
      <4> QED BY <4>2, <4>3, <4>4, SeqEqual
    <3> QED BY <2>3, <3>2, <3>4, <3>5, <3>6
            DEF Desk!Next, Desk!Publish, DeskPublished, DeskOrder
  <2>4. UNCHANGED accepted \/ (UNCHANGED published
                               /\ \E m \in SignalMsgs : accepted' = Append(accepted, m))
    <3>1. Trade => UNCHANGED accepted
      BY DEF Trade, listVars
    <3> QED BY <3>1, SignalSteps, PublishedSteps
  <2> QED BY <2>1, <2>2, <2>3, <2>4, PublishedSteps
<1> QED BY <1>1, <1>2, TypeCorrect, SignalsKept, DeskInvariant, PTL
        DEF Spec, ImplementsOrderDesk, Desk!Spec, DeskPublished, DeskOrder

----------------------------------------------------------------------------
(* The price.                                                              *)

(* When the fee cap covers both the base fee and one wei more than the      *)
(* competitor's price, the difference of the prices, negative or not, fits  *)
(* uint64 (the cap is one), the tip fits below the cap and the sum is above *)
(* the competitor's price.                                                  *)
LEMMA BidIsHigher ==
  ASSUME NEW s \in SignalMsgs, NEW t \in Txs,
         MaxFeePerGas(s) >= BaseGasPrice(s), MaxFeePerGas(s) > t.gasPrice
  PROVE  /\ NewGasPrice(s, t) <= MaxFeePerGas(s)
         /\ BaseGasPrice(s) + NewGasPrice(s, t) > t.gasPrice
<1> DEFINE base == BaseGasPrice(s)
           price == t.gasPrice
           x == 1 + price - base
           magnitude == IF x < 0 THEN -x ELSE x
<1>1. price \in Nat /\ s.base \in Nat /\ s.maxFee \in Int
      /\ WeiFraction \in Nat \ {0} /\ Uint64Range \in Nat \ {0}
  BY NodeMgrAssumption
<1>2. base \in Nat
  BY <1>1 DEF BaseGasPrice
<1>3. MaxFeePerGas(s) \in 0..(Uint64Range - 1)
  BY <1>1 DEF MaxFeePerGas
<1>4. NewGasPrice(s, t) = magnitude % Uint64Range
  BY DEF NewGasPrice, Uint64
<1>5. MaxFeePerGas(s) >= base /\ MaxFeePerGas(s) > price
  OBVIOUS
<1> HIDE DEF base, price
<1>6. magnitude \in 0..MaxFeePerGas(s) /\ base + magnitude > price
  BY <1>1, <1>2, <1>3, <1>5
<1> HIDE DEF magnitude
<1>7. magnitude % Uint64Range = magnitude
  BY <1>1, <1>3, <1>6
<1> QED BY <1>3, <1>4, <1>6, <1>7 DEF base, price

(***************************************************************************)
(* Every published order whose fee cap allows it is valid and pays more    *)
(* than its competitor, whatever the prices; that the price difference     *)
(* fits 64 bits follows from the cap, and need not be assumed.             *)
(***************************************************************************)
THEOREM OrdersOutbid == Spec => []OutbidsCompetitor
<1>1. NodeMgrInit => OutbidsCompetitor
  BY EmptySeq DEF NodeMgrInit, OutbidsCompetitor
<1>2. TypeOK /\ OutbidsCompetitor /\ [Next]_vars => OutbidsCompetitor'
  <2> SUFFICES ASSUME TypeOK, OutbidsCompetitor, [Next]_vars
               PROVE  OutbidsCompetitor'
    OBVIOUS
  <2> DEFINE Outbids(order) ==
        order.maxFeePerGas >= BaseGasPrice(order.signal) /\ order.maxFeePerGas > order.tx.gasPrice
          => /\ order.maxPriorityFeePerGas <= order.maxFeePerGas
             /\ EffectiveGasPrice(order, BaseGasPrice(order.signal)) > order.tx.gasPrice
  <2>0. \A i \in 1..Len(published) : Outbids(published[i])
    BY DEF OutbidsCompetitor
  <2>1. CASE UNCHANGED published
    BY <2>1 DEF OutbidsCompetitor
  <2>2. CASE Trade
    <3>1. /\ published' = Append(published, NewOrder)
          /\ job.tx \in Txs /\ job.signal \in SignalMsgs /\ job \in Job
          /\ published \in Seq(Order)
      BY <2>2 DEF Trade, TypeOK, JobTypeOK, EffectTypeOK
    <3>2. /\ NewOrder \in Order /\ NewOrder.tx = job.tx /\ NewOrder.signal = job.signal
          /\ NewOrder.maxPriorityFeePerGas = NewGasPrice(job.signal, job.tx)
          /\ NewOrder.maxFeePerGas = MaxFeePerGas(job.signal)
      BY <3>1, NewOrderType DEF NewOrder
    <3>3. /\ Len(published') = Len(published) + 1 /\ Len(published) \in Nat
          /\ published'[Len(published) + 1] = NewOrder
          /\ \A i \in 1..Len(published) : published'[i] = published[i]
      BY <3>1, <3>2, AppendProperties, LenProperties
    <3>4. Outbids(NewOrder)
      <4> SUFFICES ASSUME MaxFeePerGas(job.signal) >= BaseGasPrice(job.signal),
                          MaxFeePerGas(job.signal) > job.tx.gasPrice
                   PROVE  /\ NewOrder.maxPriorityFeePerGas <= NewOrder.maxFeePerGas
                          /\ EffectiveGasPrice(NewOrder, BaseGasPrice(NewOrder.signal))
                               > NewOrder.tx.gasPrice
        BY <3>2
      <4>1. /\ NewGasPrice(job.signal, job.tx) <= MaxFeePerGas(job.signal)
            /\ BaseGasPrice(job.signal) + NewGasPrice(job.signal, job.tx) > job.tx.gasPrice
        BY <3>1, BidIsHigher
      <4> QED BY <3>2, <4>1 DEF EffectiveGasPrice
    <3>5. \A i \in 1..Len(published') : Outbids(published'[i])
      <4>1. ASSUME NEW i \in 1..Len(published')
            PROVE  \/ i \in 1..Len(published) /\ published'[i] = published[i]
                   \/ published'[i] = NewOrder
        BY <3>3
      <4> HIDE DEF Outbids
      <4> QED BY <2>0, <3>4, <4>1
    <3> QED BY <3>5 DEF OutbidsCompetitor
  <2> QED BY <2>1, <2>2, PublishedSteps
<1> QED BY <1>1, <1>2, TypeCorrect, PTL DEF Spec
(***************************************************************************)
(* No competitor transaction is answered twice, although the handler that  *)
(* holds it may panic, be restarted and fail to publish, with other        *)
(* transactions of the same symbol behind it (node_mgr.go:115-166, 305).   *)
(***************************************************************************)
THEOREM OneOrderPerTransaction ==
  Spec => [](\A i, j \in 1..Len(published) : published[i].tx = published[j].tx => i = j)
<1> DEFINE OneEach == \A i, j \in 1..Len(published) : published[i].tx = published[j].tx => i = j
<1>1. NodeMgrInit => OneEach
  BY EmptySeq DEF NodeMgrInit
<1>2. TypeOK /\ DeskInv /\ OneEach /\ [Next]_vars => OneEach'
  <2> SUFFICES ASSUME TypeOK, DeskInv, OneEach, [Next]_vars
               PROVE  OneEach'
    OBVIOUS
  <2>1. CASE UNCHANGED published
    BY <2>1
  <2>2. CASE Trade
    <3>1. /\ published' = Append(published, NewOrder) /\ published \in Seq(Order)
          /\ Busy /\ job.tx \in Txs /\ job.signal \in SignalMsgs /\ job \in Job
      BY <2>2 DEF Trade, Busy, TypeOK, JobTypeOK, EffectTypeOK
    <3>2. NewOrder \in Order /\ NewOrder.tx = job.tx
      BY <3>1, NewOrderType DEF NewOrder
    <3>3. /\ Len(published') = Len(published) + 1 /\ Len(published) \in Nat
          /\ published'[Len(published) + 1] = NewOrder
          /\ \A i \in 1..Len(published) : published'[i] = published[i]
      BY <3>1, <3>2, AppendProperties, LenProperties
    <3>4. \A i \in 1..Len(published) : published[i].tx # job.tx
      BY <3>1 DEF DeskInv
    <3>5. \A i \in 1..Len(published') :
            \/ i \in 1..Len(published) /\ published'[i] = published[i]
            \/ i = Len(published) + 1 /\ published'[i] = NewOrder
      BY <3>3
    <3> QED BY <3>2, <3>4, <3>5
  <2> QED BY <2>1, <2>2, PublishedSteps
<1> QED BY <1>1, <1>2, TypeCorrect, DeskInvariant, PTL DEF Spec
----------------------------------------------------------------------------
(* Where a signal is: not delivered yet, handed over, or stored.           *)
Among(m, list) == \E i \in 1..Len(list) : list[i] = m
Distinct(list) == \A i, j \in 1..Len(list) : list[i] = list[j] => i = j

SignalPlaces ==
  /\ \A m \in SignalMsgs : m \in unsentSignals \/ Among(m, signalQ) \/ Among(m, accepted)
  /\ \A m \in unsentSignals : ~Among(m, signalQ) /\ ~Among(m, accepted)
  /\ \A i \in 1..Len(signalQ) : ~Among(signalQ[i], accepted)
  /\ Distinct(signalQ) /\ Distinct(accepted)

(* What an item behind a list without it leaves of the two predicates. *)
LEMMA AppendAmong ==
  ASSUME NEW S, NEW list \in Seq(S), NEW x \in S
  PROVE  /\ \A m : Among(m, Append(list, x)) <=> Among(m, list) \/ m = x
         /\ Distinct(list) /\ ~Among(x, list) => Distinct(Append(list, x))
<1>1. /\ Len(Append(list, x)) = Len(list) + 1 /\ Len(list) \in Nat
      /\ Append(list, x)[Len(list) + 1] = x
      /\ \A i \in 1..Len(list) : Append(list, x)[i] = list[i]
  BY AppendProperties, LenProperties
<1>2. \A i \in 1..Len(Append(list, x)) : i \in 1..Len(list) \/ i = Len(list) + 1
  BY <1>1
<1>3. \A m : Among(m, Append(list, x)) <=> Among(m, list) \/ m = x
  <2> SUFFICES ASSUME NEW m PROVE Among(m, Append(list, x)) <=> Among(m, list) \/ m = x
    OBVIOUS
  <2>1. Among(m, Append(list, x)) => Among(m, list) \/ m = x
    BY <1>1, <1>2 DEF Among
  <2>2. Among(m, list) \/ m = x => Among(m, Append(list, x))
    BY <1>1 DEF Among
  <2> QED BY <2>1, <2>2
<1>4. ASSUME Distinct(list), ~Among(x, list) PROVE Distinct(Append(list, x))
  BY <1>1, <1>2, <1>4 DEF Distinct, Among
<1> QED BY <1>3, <1>4

(* The rest of a list without duplicates is what is left without its head. *)
LEMMA TailAmong ==
  ASSUME NEW S, NEW list \in Seq(S), list # <<>>
  PROVE  /\ \A m : Among(m, list) <=> Among(m, Tail(list)) \/ m = Head(list)
         /\ Distinct(list) => Distinct(Tail(list)) /\ ~Among(Head(list), Tail(list))
<1>1. /\ Len(Tail(list)) = Len(list) - 1 /\ Len(list) \in Nat \ {0} /\ Head(list) = list[1]
      /\ \A i \in 1..Len(Tail(list)) : Tail(list)[i] = list[i + 1]
  BY HeadTailProperties, EmptySeq, LenProperties
<1>2. \A i \in 1..Len(list) : i = 1 \/ (i - 1 \in 1..Len(Tail(list)) /\ Tail(list)[i - 1] = list[i])
  BY <1>1
<1>3. \A i \in 1..Len(Tail(list)) : i + 1 \in 1..Len(list) /\ i + 1 # 1
  BY <1>1
<1>4. \A m : Among(m, list) <=> Among(m, Tail(list)) \/ m = Head(list)
  <2> SUFFICES ASSUME NEW m PROVE Among(m, list) <=> Among(m, Tail(list)) \/ m = Head(list)
    OBVIOUS
  <2>1. Among(m, list) => Among(m, Tail(list)) \/ m = Head(list)
    BY <1>1, <1>2 DEF Among
  <2>2. Among(m, Tail(list)) => Among(m, list)
    BY <1>1, <1>3 DEF Among
  <2>3. m = Head(list) => Among(m, list)
    BY <1>1 DEF Among
  <2> QED BY <2>1, <2>2, <2>3
<1>5. ASSUME Distinct(list) PROVE Distinct(Tail(list)) /\ ~Among(Head(list), Tail(list))
  <2>1. ASSUME NEW i \in 1..Len(Tail(list)), NEW j \in 1..Len(Tail(list)), Tail(list)[i] = Tail(list)[j]
        PROVE  i = j
    <3>1. i + 1 = j + 1
      BY <1>1, <1>3, <1>5, <2>1 DEF Distinct
    <3> QED BY <1>1, <3>1
  <2>2. ASSUME NEW i \in 1..Len(Tail(list)), Tail(list)[i] = Head(list) PROVE FALSE
    BY <1>1, <1>3, <1>5, <2>2 DEF Distinct
  <2> QED BY <2>1, <2>2 DEF Distinct, Among
<1> QED BY <1>4, <1>5

(* Who moves a signal. *)
LEMMA SignalMoves ==
  ASSUME TypeOK, [Next]_vars
  PROVE  \/ UNCHANGED <<unsentSignals, signalQ, accepted>>
         \/ \E m \in unsentSignals : /\ unsentSignals' = unsentSignals \ {m}
                                     /\ signalQ' = Append(signalQ, m) /\ UNCHANGED accepted
         \/ /\ signalQ # <<>> /\ signalQ' = Tail(signalQ) /\ UNCHANGED unsentSignals
            /\ \/ Head(signalQ) = Malformed /\ UNCHANGED accepted
               \/ Head(signalQ) # Malformed /\ accepted' = Append(accepted, Head(signalQ))
<1>1. CASE RecvSignal
  BY <1>1 DEF RecvSignal, envVars, listVars
<1>2. ASSUME NEW m \in unsentSignals, SendSignal(m)
      PROVE  unsentSignals' = unsentSignals \ {m} /\ signalQ' = Append(signalQ, m) /\ UNCHANGED accepted
  BY <1>2 DEF SendSignal, listVars
<1>3. CASE Tick \/ Mine \/ DropConnection \/ Cancel \/ \E t \in unsentTxs : AnnounceTx(t)
  BY <1>3 DEF Tick, Mine, DropConnection, Cancel, AnnounceTx, envVars, listVars
<1>4. CASE SubscribeFullPendingTransactions \/ SubGethBlockHeader
  BY <1>4 DEF SubscribeFullPendingTransactions, SubGethBlockHeader, SubscribeNewHeads,
              HeaderCtxDone, RecvHead, StoreHead, envVars, listVars
<1>5. CASE TxCase \/ TxHandler
  BY <1>5 DEF TxCase, RecvRouterTx, RecvEnemyTx, RecvOtherTx, TxHandler, Decoded, RebuildTx,
              CheckBlock, TradePanics, Trade, TradeFails, envVars, listVars
<1>6. CASE AnalyseCtxDone \/ Restart \/ UNCHANGED vars
  BY <1>6 DEF AnalyseCtxDone, Restart, envVars, listVars, vars
<1> QED BY <1>1, <1>2, <1>3, <1>4, <1>5, <1>6 DEF Next, Environment, GasPriceAnalyse

LEMMA SignalPlacesNext ==
  ASSUME TypeOK, SignalPlaces, [Next]_vars
  PROVE  SignalPlaces'
<1>1. /\ signalQ \in Seq(SignalMsgs \cup {Malformed}) /\ accepted \in Seq(SignalMsgs)
      /\ accepted \in Seq(SignalMsgs \cup {Malformed})
      /\ unsentSignals \subseteq SignalMsgs \cup {Malformed} /\ Malformed \notin SignalMsgs
  BY NodeMgrAssumption DEF TypeOK, EnvTypeOK, FeedTypeOK, ListTypeOK
<1>2. CASE UNCHANGED <<unsentSignals, signalQ, accepted>>
  BY <1>2 DEF SignalPlaces, Among, Distinct
<1>3. ASSUME NEW m \in unsentSignals, unsentSignals' = unsentSignals \ {m},
             signalQ' = Append(signalQ, m), UNCHANGED accepted
      PROVE  SignalPlaces'
  <2>1. /\ \A n : Among(n, signalQ') <=> Among(n, signalQ) \/ n = m
        /\ Distinct(signalQ')
    BY <1>1, <1>3, AppendAmong DEF SignalPlaces
  <2>2. ASSUME NEW i \in 1..Len(signalQ') PROVE ~Among(signalQ'[i], accepted)
    <3>1. Among(signalQ'[i], signalQ')
      BY DEF Among
    <3>2. CASE signalQ'[i] = m
      BY <3>2 DEF SignalPlaces
    <3>3. CASE Among(signalQ'[i], signalQ)
      <4>1. PICK j \in 1..Len(signalQ) : signalQ[j] = signalQ'[i]
        BY <3>3 DEF Among
      <4>2. ~Among(signalQ[j], accepted)
        BY DEF SignalPlaces
      <4> QED BY <4>1, <4>2
    <3> QED BY <2>1, <3>1, <3>2, <3>3
  <2>3. /\ \A n \in SignalMsgs : n \in unsentSignals' \/ Among(n, signalQ') \/ Among(n, accepted')
        /\ \A n \in unsentSignals' : ~Among(n, signalQ') /\ ~Among(n, accepted')
    BY <1>3, <2>1 DEF SignalPlaces
  <2> QED BY <1>3, <2>1, <2>2, <2>3 DEF SignalPlaces, Among, Distinct
<1>4. CASE signalQ # <<>> /\ signalQ' = Tail(signalQ) /\ UNCHANGED unsentSignals
           /\ (\/ Head(signalQ) = Malformed /\ UNCHANGED accepted
               \/ Head(signalQ) # Malformed /\ accepted' = Append(accepted, Head(signalQ)))
  <2> DEFINE m == Head(signalQ)
  <2>1. /\ \A n : Among(n, signalQ) <=> Among(n, signalQ') \/ n = m
        /\ Distinct(signalQ') /\ ~Among(m, signalQ')
    BY <1>1, <1>4, TailAmong DEF SignalPlaces
  <2>2. ASSUME NEW n, Among(n, signalQ) PROVE ~Among(n, accepted)
    <3>1. PICK j \in 1..Len(signalQ) : signalQ[j] = n
      BY <2>2 DEF Among
    <3> QED BY <3>1 DEF SignalPlaces
  <2>3. m \in SignalMsgs \cup {Malformed}
    BY <1>1, <1>4, HeadTailProperties
  <2>4. Among(m, signalQ)
    BY <2>1
  <2>5. /\ \A n : Among(n, accepted') => Among(n, accepted) \/ n = m
        /\ \A n : Among(n, accepted) => Among(n, accepted')
        /\ m # Malformed => Among(m, accepted')
        /\ Distinct(accepted')
    <3>1. CASE m = Malformed
      BY <1>4, <3>1 DEF SignalPlaces
    <3>2. CASE m # Malformed
      <4>1. accepted' = Append(accepted, m) /\ ~Among(m, accepted) /\ Distinct(accepted)
        BY <1>4, <2>2, <2>4, <3>2 DEF SignalPlaces
      <4> HIDE DEF m
      <4>2. /\ \A n : Among(n, Append(accepted, m)) <=> Among(n, accepted) \/ n = m
            /\ Distinct(Append(accepted, m))
        BY <1>1, <2>3, <4>1, AppendAmong
      <4>3. \A n : Among(n, accepted') <=> Among(n, Append(accepted, m))
        BY <4>1 DEF Among
      <4>4. Distinct(accepted')
        BY <4>1, <4>2 DEF Distinct
      <4> QED BY <4>2, <4>3, <4>4
    <3> QED BY <3>1, <3>2
  <2>6. ASSUME NEW i \in 1..Len(signalQ') PROVE ~Among(signalQ'[i], accepted')
    <3>1. Among(signalQ'[i], signalQ')
      BY DEF Among
    <3>2. Among(signalQ'[i], signalQ) /\ signalQ'[i] # m
      BY <2>1, <3>1
    <3> QED BY <2>2, <2>5, <3>2
  <2>7. \A n \in SignalMsgs : n \in unsentSignals' \/ Among(n, signalQ') \/ Among(n, accepted')
    BY <1>1, <1>4, <2>1, <2>5 DEF SignalPlaces
  <2>8. \A n \in unsentSignals' : ~Among(n, signalQ') /\ ~Among(n, accepted')
    BY <1>4, <2>1, <2>4, <2>5 DEF SignalPlaces
  <2> HIDE DEF m
  <2> QED BY <2>1, <2>5, <2>6, <2>7, <2>8 DEF SignalPlaces, Among, Distinct
<1> QED BY <1>2, <1>3, <1>4, SignalMoves

(***************************************************************************)
(* The safety half of SignalsAccepted: a signal that NATS has delivered is *)
(* either with the blocked handler or stored, and stored once - panics     *)
(* after it was appended and restarts included (node_mgr.go:115-121,       *)
(* 167-188; nats_sub.go:35).                                               *)
(***************************************************************************)
THEOREM SignalsStoredOnce ==
  Spec => [](/\ \A m \in SignalMsgs \ unsentSignals : Among(m, signalQ) \/ Among(m, accepted)
             /\ \A i \in 1..Len(signalQ) : ~Among(signalQ[i], accepted)
             /\ Distinct(accepted))
<1>1. NodeMgrInit => SignalPlaces
  BY EmptySeq DEF NodeMgrInit, SignalPlaces, Among, Distinct
<1>2. TypeOK /\ SignalPlaces /\ [Next]_vars => SignalPlaces'
  BY SignalPlacesNext
<1>3. SignalPlaces => /\ \A m \in SignalMsgs \ unsentSignals : Among(m, signalQ) \/ Among(m, accepted)
                      /\ \A i \in 1..Len(signalQ) : ~Among(signalQ[i], accepted)
                      /\ Distinct(accepted)
  BY DEF SignalPlaces
<1> QED BY <1>1, <1>2, <1>3, TypeCorrect, PTL DEF Spec
=============================================================================
