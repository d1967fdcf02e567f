---------------------------- MODULE ChainsProofs ----------------------------
(***************************************************************************)
(* Theorems about Chains, for every configuration, set of signals and      *)
(* number of messages that NATS keeps.                                     *)
(***************************************************************************)
EXTENDS Chains, SequenceTheorems, TLAPS

(* A message in hand and those behind it. *)
LEMMA InFront ==
  ASSUME NEW S, NEW s \in Seq(S), NEW x \in S
  PROVE  /\ <<x>> \o s # <<>> /\ Head(<<x>> \o s) = x /\ Tail(<<x>> \o s) = s
         /\ \A y \in S : <<x>> \o Append(s, y) = Append(<<x>> \o s, y)
         /\ s # <<>> => <<Head(s)>> \o Tail(s) = s
OBVIOUS

(* A signal of a chain is a signal. *)
LEMMA SignalsOfProperties ==
  /\ \A m \in Signals : m.project \in Keys /\ m \in SignalsOf(m.project)
  /\ \A c \in Keys : \A m \in SignalsOf(c) : m \in Signals /\ m.project = c /\ m # None
BY ChainsAssumption DEF SignalsOf

----------------------------------------------------------------------------
(* Signals on their way are typed, and nobody holds another's.             *)
LEMMA FeedsInit == Init => TypeFeeds
BY EmptySeq DEF Init, TypeFeeds

LEMMA FeedsPublish ==
  ASSUME TypeFeeds, NEW m \in unsent, Publish(m)
  PROVE  TypeFeeds'
<1>1. m \in Signals /\ m.project \in Keys /\ m \in SignalsOf(m.project)
  BY SignalsOfProperties DEF TypeFeeds
<1>2. unsent' \subseteq Signals
  BY DEF TypeFeeds, Publish
<1>3. sent' \in [Keys -> Seq(Signals)]
  <2>1. Append(sent[m.project], m) \in Seq(Signals)
    BY <1>1, AppendProperties DEF TypeFeeds
  <2> QED BY <1>1, <2>1 DEF TypeFeeds, Publish
<1>4. DOMAIN pending' = Keys /\ \A c \in Keys : pending'[c] \in Seq(SignalsOf(c))
  <2>1. Append(pending[m.project], m) \in Seq(SignalsOf(m.project))
    BY <1>1, AppendProperties DEF TypeFeeds
  <2> QED BY <1>1, <2>1 DEF TypeFeeds, Publish
<1> QED BY <1>2, <1>3, <1>4 DEF TypeFeeds, Publish

LEMMA FeedsHandler ==
  ASSUME TypeFeeds, NEW c \in Keys, SignalMsgHandler(c)
  PROVE  TypeFeeds'
<1>1. /\ Head(pending[c]) \in SignalsOf(c)
      /\ Tail(pending[c]) \in Seq(SignalsOf(c))
  BY HeadTailProperties DEF TypeFeeds, SignalMsgHandler
<1> QED BY <1>1 DEF TypeFeeds, SignalMsgHandler

(* The channel of c carries what c's own handler has in hand. *)
LEMMA ChannelIsOwn ==
  ASSUME TypeFeeds, NEW c \in Keys, RecvSignal(c)
  PROVE  /\ inHand[c] \in SignalsOf(c) /\ inHand[c] # None
         /\ accepted' = [accepted EXCEPT ![c] = Append(@, inHand[c])]
         /\ inHand' = [inHand EXCEPT ![c] = None]
         /\ UNCHANGED <<unsent, sent, pending>>
<1>1. PICK d \in Keys :
        /\ inHand[d] # None
        /\ ReceiveSignalChan[inHand[d].project] = ReceiveSignalChan[c]
        /\ accepted' = [accepted EXCEPT ![c] = Append(@, inHand[d])]
        /\ inHand' = [inHand EXCEPT ![d] = None]
  BY DEF RecvSignal
<1>2. inHand[d] \in SignalsOf(d) /\ inHand[d].project = d
  BY <1>1, SignalsOfProperties DEF TypeFeeds
<1>3. d = c
  BY <1>1, <1>2 DEF ReceiveSignalChan
<1> QED BY <1>1, <1>2, <1>3 DEF RecvSignal

LEMMA FeedsRecv ==
  ASSUME TypeFeeds, NEW c \in Keys, RecvSignal(c)
  PROVE  TypeFeeds'
<1>1. Append(accepted[c], inHand[c]) \in Seq(Signals)
  BY ChannelIsOwn, SignalsOfProperties, AppendProperties DEF TypeFeeds
<1> QED BY <1>1, ChannelIsOwn DEF TypeFeeds

(* The steps that no signal is part of. *)
Elsewhere == Main \/ (\E c \in Keys : StartNatsSubscribe(c) \/ RecvTx(c) \/ Decoded(c)) \/ UNCHANGED vars

LEMMA ElsewhereKeepsFeeds == Elsewhere => UNCHANGED feedVars
BY DEF Elsewhere, Main, StartChain, BuildTables, NewNodeMgr, Execute, StartNatsSubscribe,
       RecvTx, Decoded, vars, feedVars

LEMMA StepCases ==
  ASSUME [Next]_vars
  PROVE  \/ Elsewhere
         \/ \E m \in unsent : Publish(m)
         \/ \E c \in Keys : SignalMsgHandler(c) \/ RecvSignal(c)
BY DEF Next, Elsewhere

LEMMA FeedsNext == TypeFeeds /\ [Next]_vars => TypeFeeds'
<1> SUFFICES ASSUME TypeFeeds, [Next]_vars PROVE TypeFeeds'
  OBVIOUS
<1>1. CASE Elsewhere
  BY <1>1, ElsewhereKeepsFeeds DEF TypeFeeds, feedVars
<1> QED BY <1>1, StepCases, FeedsPublish, FeedsHandler, FeedsRecv

----------------------------------------------------------------------------
(* What is on the way to c, as SignalFeed sees it. *)
Waiting == [c \in Keys |-> IF inHand[c] = None THEN pending[c] ELSE <<inHand[c]>> \o pending[c]]

OwnOf == [c \in Keys |-> SignalsOf(c)]

LEMMA PublishIsSend ==
  ASSUME TypeFeeds, NEW m \in unsent, Publish(m)
  PROVE  /\ m.project \in Keys /\ m \in OwnOf[m.project]
         /\ sent' = [sent EXCEPT ![m.project] = Append(@, m)]
         /\ Waiting' \in {Waiting, [Waiting EXCEPT ![m.project] = Append(@, m)]}
         /\ accepted' = accepted
<1> DEFINE p == m.project
<1>1. p \in Keys /\ m \in SignalsOf(p)
  BY SignalsOfProperties DEF TypeFeeds
<1>2. CASE pending' = pending
  BY <1>1, <1>2 DEF Publish, Waiting, OwnOf
<1>3. CASE pending' = [pending EXCEPT ![p] = Append(@, m)]
  <2>1. pending'[p] = Append(pending[p], m) /\ inHand' = inHand
    BY <1>1, <1>3 DEF TypeFeeds, Publish
  <2>2. inHand[p] # None => <<inHand[p]>> \o Append(pending[p], m)
                              = Append(<<inHand[p]>> \o pending[p], m)
    BY <1>1, InFront DEF TypeFeeds
  <2>3. Waiting'[p] = Append(Waiting[p], m)
    BY <1>1, <2>1, <2>2 DEF Waiting
  <2>4. \A c \in Keys : c # p => Waiting'[c] = Waiting[c]
    BY <1>1, <1>3, <2>1 DEF Waiting, TypeFeeds
  <2>5. Waiting' = [Waiting EXCEPT ![p] = Append(@, m)]
    BY <1>1, <2>3, <2>4 DEF Waiting
  <2> QED BY <1>1, <2>5 DEF Publish, OwnOf
<1> QED BY <1>2, <1>3 DEF Publish

LEMMA HandlerStutters ==
  ASSUME TypeFeeds, NEW c \in Keys, SignalMsgHandler(c)
  PROVE  Waiting' = Waiting /\ sent' = sent /\ accepted' = accepted
<1>1. /\ pending[c] \in Seq(SignalsOf(c)) /\ pending[c] # <<>>
      /\ Head(pending[c]) \in SignalsOf(c) /\ Head(pending[c]) # None
      /\ Tail(pending[c]) \in Seq(SignalsOf(c))
  BY HeadTailProperties, SignalsOfProperties DEF TypeFeeds, SignalMsgHandler
<1>2. <<Head(pending[c])>> \o Tail(pending[c]) = pending[c]
  BY <1>1, InFront
<1>3. Waiting'[c] = Waiting[c]
  BY <1>1, <1>2 DEF Waiting, TypeFeeds, SignalMsgHandler
<1>4. \A d \in Keys : d # c => Waiting'[d] = Waiting[d]
  BY DEF Waiting, TypeFeeds, SignalMsgHandler
<1> QED BY <1>3, <1>4 DEF Waiting, SignalMsgHandler

LEMMA RecvIsTake ==
  ASSUME TypeFeeds, NEW c \in Keys, RecvSignal(c)
  PROVE  /\ Waiting[c] # <<>>
         /\ accepted' = [accepted EXCEPT ![c] = Append(@, Head(Waiting[c]))]
         /\ Waiting' = [Waiting EXCEPT ![c] = Tail(@)]
         /\ sent' = sent
<1>1. /\ inHand[c] \in SignalsOf(c) /\ inHand[c] # None
      /\ accepted' = [accepted EXCEPT ![c] = Append(@, inHand[c])]
      /\ inHand' = [inHand EXCEPT ![c] = None]
      /\ UNCHANGED <<sent, pending>>
  BY ChannelIsOwn
<1>2. Waiting[c] = <<inHand[c]>> \o pending[c]
  BY <1>1 DEF Waiting
<1>3. Waiting[c] # <<>> /\ Head(Waiting[c]) = inHand[c] /\ Tail(Waiting[c]) = pending[c]
  BY <1>1, <1>2, InFront DEF TypeFeeds
<1>4. Waiting'[c] = Tail(Waiting[c])
  BY <1>1, <1>3 DEF Waiting, TypeFeeds
<1>5. \A d \in Keys : d # c => Waiting'[d] = Waiting[d]
  BY <1>1 DEF Waiting, TypeFeeds
<1>6. Waiting' = [Waiting EXCEPT ![c] = Tail(@)]
  BY <1>4, <1>5 DEF Waiting
<1> QED BY <1>1, <1>3, <1>6

LEMMA FeedsRefinementInit == Init => Feeds!Init
BY DEF Init, Feeds!Init

LEMMA FeedsRefinementNext ==
  TypeFeeds /\ [Next]_vars => [Feeds!Next]_<<sent, Waiting, accepted>>
<1> SUFFICES ASSUME TypeFeeds, [Next]_vars
             PROVE  Feeds!Next \/ UNCHANGED <<sent, Waiting, accepted>>
  OBVIOUS
<1>1. CASE Elsewhere
  BY <1>1, ElsewhereKeepsFeeds DEF Waiting, feedVars
<1>2. ASSUME NEW m \in unsent, Publish(m) PROVE Feeds!Next
  <2>1. Feeds!Send(m.project, m)
    BY <1>2, PublishIsSend DEF Feeds!Send, Waiting
  <2> QED BY <1>2, <2>1, PublishIsSend DEF Feeds!Next, OwnOf
<1>3. ASSUME NEW c \in Keys, SignalMsgHandler(c) PROVE UNCHANGED <<sent, Waiting, accepted>>
  BY <1>3, HandlerStutters
<1>4. ASSUME NEW c \in Keys, RecvSignal(c) PROVE Feeds!Next
  <2>1. Feeds!Take(c)
    BY <1>4, RecvIsTake DEF Feeds!Take, Waiting
  <2> QED BY <2>1 DEF Feeds!Next
<1> QED BY <1>1, <1>2, <1>3, <1>4, StepCases

(***************************************************************************)
(* Whatever the chains are configured as, and in whatever order they are   *)
(* started: each takes its own signals only, in order and none twice, out  *)
(* of the handlers and channels of nats_sub.go:27-37.                      *)
(***************************************************************************)
THEOREM ChainsImplementFeeds == Spec => ImplementsFeeds
<1>1. Init => Feeds!Init BY FeedsRefinementInit
<1>2. TypeFeeds /\ [Next]_vars => [Feeds!Next]_<<sent, Waiting, accepted>>
  BY FeedsRefinementNext
<1>3. Init => TypeFeeds BY FeedsInit
<1>4. TypeFeeds /\ [Next]_vars => TypeFeeds' BY FeedsNext
<1> QED BY <1>1, <1>2, <1>3, <1>4, PTL DEF Spec, ImplementsFeeds, Feeds!Spec, Waiting

----------------------------------------------------------------------------
(* main and its chains.                                                    *)
Started ==
  /\ \A c \in Keys : analyser[c] # "off" => c \in connected /\ HasTables(c)
  /\ \A c \in Keys : c \notin subscribed => pending[c] = <<>> /\ inHand[c] = None

LEMMA MainInit == Init => TypeMain /\ Started
BY DEF Init, TypeMain, Started

(* The tables that a step leaves alone are still the chain's. *)
LEMMA TablesStay ==
  ASSUME NEW c \in Keys, HasTables(c), tables'[c] = tables[c]
  PROVE  HasTables(c)'
BY DEF HasTables

LEMMA MainNext == TypeMain /\ Started /\ TypeFeeds /\ [Next]_vars => TypeMain' /\ Started'
<1> SUFFICES ASSUME TypeMain, Started, TypeFeeds, [Next]_vars PROVE TypeMain' /\ Started'
  OBVIOUS
<1>1. CASE StartChain
  <2>1. \A c \in Keys : tables'[c] = tables[c]
    BY <1>1 DEF StartChain
  <2>2. TypeMain'
    BY <1>1 DEF TypeMain, Started, StartChain
  <2>3. Started'
    BY <1>1, <2>1, TablesStay DEF Started, StartChain, feedVars
  <2> QED BY <2>2, <2>3
<1>2. CASE BuildTables
  <2>1. k \in spawned /\ k \in Keys /\ analyser[k] = "off" /\ UNCHANGED <<todo, k, spawned, connected, subscribed, analyser>>
    BY <1>2 DEF TypeMain, BuildTables
  <2>2. \A c \in Keys : c # k => tables'[c] = tables[c]
    BY <1>2 DEF TypeMain, BuildTables
  <2>3. mainPc' = "dead" \/ (mainPc' = "dial" /\ HasTables(k)')
    BY <1>2, <2>1 DEF TypeMain, BuildTables, HasTables
  <2>4. TypeMain'
    BY <1>2, <2>1, <2>3 DEF TypeMain, BuildTables
  <2>5. Started'
    BY <1>2, <2>1, <2>2, TablesStay DEF Started, BuildTables, feedVars
  <2> QED BY <2>4, <2>5
<1>3. CASE NewNodeMgr
  <2>1. \A c \in Keys : tables'[c] = tables[c]
    BY <1>3 DEF NewNodeMgr
  <2>2. TypeMain'
    BY <1>3, <2>1, TablesStay DEF TypeMain, NewNodeMgr
  <2>3. Started'
    BY <1>3, <2>1, TablesStay DEF Started, NewNodeMgr, feedVars
  <2> QED BY <2>2, <2>3
<1>4. CASE Execute
  <2>1. \A c \in Keys : tables'[c] = tables[c]
    BY <1>4 DEF Execute
  <2>2. k \in Keys /\ k \in connected /\ HasTables(k)
    BY <1>4 DEF TypeMain, Execute
  <2>3. TypeMain'
    BY <1>4 DEF TypeMain, Execute
  <2>4. Started'
    BY <1>4, <2>1, <2>2, TablesStay DEF Started, TypeMain, Execute, feedVars
  <2> QED BY <2>3, <2>4
<1>5. ASSUME NEW c \in Keys, StartNatsSubscribe(c) PROVE TypeMain' /\ Started'
  <2>1. \A d \in Keys : tables'[d] = tables[d]
    BY <1>5 DEF StartNatsSubscribe, mainVars
  <2>2. TypeMain'
    BY <1>5, <2>1, TablesStay DEF TypeMain, StartNatsSubscribe, mainVars
  <2>3. Started'
    BY <1>5, <2>1, TablesStay DEF Started, StartNatsSubscribe, mainVars, feedVars
  <2> QED BY <2>2, <2>3
<1>6. ASSUME NEW c \in Keys, RecvTx(c) \/ Decoded(c) PROVE TypeMain' /\ Started'
  <2>1. /\ analyser' \in [Keys -> {"off", "select", "decode"}]
        /\ \A d \in Keys : analyser'[d] = "off" <=> analyser[d] = "off"
    BY <1>6 DEF TypeMain, RecvTx, Decoded
  <2>2. UNCHANGED <<mainVars, subscribed, feedVars>>
    BY <1>6 DEF RecvTx, Decoded
  <2>3. \A d \in Keys : tables'[d] = tables[d]
    BY <2>2 DEF mainVars
  <2>4. TypeMain'
    BY <2>1, <2>2, <2>3, TablesStay DEF TypeMain, mainVars
  <2>5. Started'
    BY <2>1, <2>2, <2>3, TablesStay DEF Started, mainVars, feedVars
  <2> QED BY <2>4, <2>5
<1>7. ASSUME UNCHANGED <<mainVars, subscribed, analyser>>,
             \A c \in Keys : c \notin subscribed => UNCHANGED <<pending[c], inHand[c]>>
      PROVE  TypeMain' /\ Started'
  <2>1. \A d \in Keys : tables'[d] = tables[d]
    BY <1>7 DEF mainVars
  <2>2. TypeMain'
    BY <1>7, <2>1, TablesStay DEF TypeMain, mainVars
  <2>3. Started'
    BY <1>7, <2>1, TablesStay DEF Started, mainVars
  <2> QED BY <2>2, <2>3
<1>8. ASSUME NEW m \in unsent, Publish(m) PROVE TypeMain' /\ Started'
  <2>1. \A c \in Keys : c \notin subscribed => UNCHANGED <<pending[c], inHand[c]>>
    BY <1>8 DEF Publish, TypeFeeds
  <2> QED BY <1>7, <1>8, <2>1 DEF Publish
<1>9. ASSUME NEW c \in Keys, SignalMsgHandler(c) PROVE TypeMain' /\ Started'
  <2>1. \A d \in Keys : d \notin subscribed => UNCHANGED <<pending[d], inHand[d]>>
    BY <1>9 DEF SignalMsgHandler, TypeFeeds, Started
  <2> QED BY <1>7, <1>9, <2>1 DEF SignalMsgHandler
<1>10. ASSUME NEW c \in Keys, RecvSignal(c) PROVE TypeMain' /\ Started'
  <2>1. \A d \in Keys : d \notin subscribed => UNCHANGED <<pending[d], inHand[d]>>
    BY <1>10, ChannelIsOwn DEF TypeFeeds, Started
  <2> QED BY <1>7, <1>10, <2>1 DEF RecvSignal
<1>11. CASE UNCHANGED vars
  BY <1>7, <1>11 DEF vars, feedVars
<1> QED
  BY <1>1, <1>2, <1>3, <1>4, <1>5, <1>6, <1>8, <1>9, <1>10, <1>11 DEF Next, Main

(***************************************************************************)
(* main's progress and what the chains and feeds hold agree in every       *)
(* interleaving of start-up with signals (main.go:15-49).                  *)
(***************************************************************************)
THEOREM ChainsTypeCorrect == Spec => []TypeOK
<1>1. Init => TypeMain /\ Started BY MainInit
<1>2. TypeMain /\ Started /\ TypeFeeds /\ [Next]_vars => TypeMain' /\ Started' BY MainNext
<1>3. Init => TypeFeeds BY FeedsInit
<1>4. TypeFeeds /\ [Next]_vars => TypeFeeds' BY FeedsNext
<1>5. TypeMain /\ Started /\ TypeFeeds => TypeOK BY DEF TypeOK, Started
<1> QED BY <1>1, <1>2, <1>3, <1>4, <1>5, PTL DEF Spec

----------------------------------------------------------------------------
Spelt(c, who, spellings) ==
  \E s \in spellings : Addr(who, s) \in Range(ChainConfig[c].router)

Competes(c, who) ==
  \E a \in Lookup(ChainEnemies, ChainConfig[c].name) : a.who = who

(* Lowering makes one address of all the spellings of an account. *)
LEMMA LoweredEnemies ==
  ASSUME NEW c \in Keys, NEW who
  PROVE  Addr(who, "lower") \in EnemiesMap(Lookup(ChainEnemies, ChainConfig[c].name))
           <=> Competes(c, who)
<1> DEFINE enemies == Lookup(ChainEnemies, ChainConfig[c].name)
<1>1. ASSUME NEW a \in enemies PROVE ToLower(a) = Addr(a.who, "lower")
  <2>1. a = Addr(a.who, a.spelling)
    BY <1>1, ChainsAssumption DEF Lookup
  <2> QED BY <2>1 DEF ToLower, Addr
<1>2. \A v, w : Addr(v, "lower") = Addr(w, "lower") => v = w
  <2>1. \A v : Addr(v, "lower").who = v BY DEF Addr
  <2> QED BY <2>1
<1> HIDE DEF enemies
<1>3. Addr(who, "lower") \in EnemiesMap(enemies) <=> \E a \in enemies : a.who = who
  BY <1>1, <1>2 DEF EnemiesMap
<1> QED BY <1>3 DEF enemies, Competes

(* How a running chain treats a transaction to who. *)
RecognisedAsSpelt ==
  \A c \in Keys, who \in Txs : analyser[c] # "off" =>
    LET kind == KindOf(tables[c], who)
    IN /\ kind = "router" <=> Spelt(c, who, {"lower"})
       /\ kind = "enemy"  <=> Competes(c, who) /\ kind # "router"

(***************************************************************************)
(* Which accounts are recognised, for every configuration, and so exactly  *)
(* when RoutersRecognised fails: a competitor in whichever case its        *)
(* address is configured, a router in lower case only - main lowers the    *)
(* ones and not the others (main.go:22-36).                                *)
(***************************************************************************)
THEOREM ChainsRecogniseAsSpelt == Spec => []RecognisedAsSpelt
<1>1. TypeOK => RecognisedAsSpelt
  <2> SUFFICES ASSUME TypeOK, NEW c \in Keys, NEW who \in Txs, analyser[c] # "off"
               PROVE  LET kind == KindOf(tables[c], who)
                      IN /\ kind = "router" <=> Spelt(c, who, {"lower"})
                         /\ kind = "enemy"  <=> Competes(c, who) /\ kind # "router"
    BY DEF RecognisedAsSpelt
  <2>1. HasTables(c)
    BY DEF TypeOK
  <2>2. Addr(who, "lower") \in DOMAIN tables[c].RouterMap <=> Spelt(c, who, {"lower"})
    BY <2>1 DEF HasTables, NewRouter, Inversions, Spelt
  <2>3. Addr(who, "lower") \in tables[c].EnemiesMap <=> Competes(c, who)
    BY <2>1, LoweredEnemies DEF HasTables
  <2> QED BY <2>2, <2>3 DEF KindOf
<1> QED BY <1>1, ChainsTypeCorrect, PTL
----------------------------------------------------------------------------
(* A chain that main is past runs, unless main is still on it. *)
PastMain ==
  /\ mainPc = "wait" => todo = {}
  /\ \A c \in Keys \ todo : analyser[c] # "off" \/ (c = k /\ mainPc \in {"tables", "dial", "execute", "dead"})

LEMMA PastMainNext ==
  TypeMain /\ PastMain /\ [Next]_vars => PastMain'
<1> SUFFICES ASSUME TypeMain, PastMain, [Next]_vars PROVE PastMain'
  OBVIOUS
<1>1. CASE StartChain
  BY <1>1 DEF TypeMain, PastMain, StartChain
<1>2. CASE BuildTables
  BY <1>2 DEF TypeMain, PastMain, BuildTables
<1>3. CASE NewNodeMgr
  BY <1>3 DEF TypeMain, PastMain, NewNodeMgr
<1>4. CASE Execute
  BY <1>4 DEF TypeMain, PastMain, Execute
<1>5. ASSUME NEW c \in Keys, RecvTx(c) \/ Decoded(c) PROVE PastMain'
  <2>1. \A d \in Keys : analyser'[d] = "off" <=> analyser[d] = "off"
    BY <1>5 DEF TypeMain, RecvTx, Decoded
  <2> QED BY <1>5, <2>1 DEF PastMain, RecvTx, Decoded, mainVars
<1>6. CASE UNCHANGED <<mainVars, analyser>>
  BY <1>6 DEF PastMain, mainVars
<1>7. ASSUME NEW c \in Keys, StartNatsSubscribe(c) \/ SignalMsgHandler(c) \/ RecvSignal(c)
      PROVE  UNCHANGED <<mainVars, analyser>>
  BY <1>7 DEF StartNatsSubscribe, SignalMsgHandler, RecvSignal
<1>8. ASSUME NEW m \in unsent, Publish(m) PROVE UNCHANGED <<mainVars, analyser>>
  BY <1>8 DEF Publish
<1>9. CASE UNCHANGED vars
  BY <1>6, <1>9 DEF vars
<1> QED BY <1>1, <1>2, <1>3, <1>4, <1>5, <1>6, <1>7, <1>8, <1>9 DEF Next, Main

(***************************************************************************)
(* Start-up never ends with a chain left out: once main is in its last     *)
(* select (main.go:51), every configured chain has been started, in        *)
(* whichever order the map gave them and whatever its endpoint answered.   *)
(***************************************************************************)
THEOREM MainWaitsForAll ==
  Spec => [](mainPc = "wait" => \A c \in Keys : analyser[c] # "off")
<1>1. Init => PastMain
  BY DEF Init, PastMain
<1>2. TypeMain /\ PastMain /\ [Next]_vars => PastMain'
  BY PastMainNext
<1>3. PastMain => (mainPc = "wait" => \A c \in Keys : analyser[c] # "off")
  BY DEF PastMain
<1>4. TypeOK => TypeMain
  BY DEF TypeOK
<1> QED BY <1>1, <1>2, <1>3, <1>4, ChainsTypeCorrect, PTL DEF Spec
=============================================================================
