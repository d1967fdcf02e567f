------------------------------- MODULE Chains -------------------------------
(***************************************************************************)
(* The whole process: main starts one chain after the other (main.go), and *)
(* every chain that is started gets its trading signals through NATS       *)
(* (nats_sub.go).  Of a chain's analyser only what the others could notice *)
(* is kept: whether it is ready to receive or busy with a transaction,     *)
(* whose RPC calls may never return.  NodeMgr has the rest.                *)
(***************************************************************************)
EXTENDS Integers, ChainTables

CONSTANTS
  ChainConfig,    \* project id -> [name, router, tokens]
  ChainEnemies,   \* chain name -> addresses
  PairsDirs,      \* what conf/pairs may hold: sequences of [chain, pairs]
  Signals,        \* trading signals, [project, id]
  Txs,            \* accounts that transactions go to
  None            \* no message, no chain, no tables

CONSTANTS         \* the environment
  PendingLimit,   \* messages NATS keeps for one subscription
  MayFail,        \* chains whose endpoints may refuse the connection
  Answering       \* chains whose RPC endpoint answers every call

Keys == DOMAIN ChainConfig

ASSUME ChainsAssumption ==
  /\ \A m \in Signals : m.project \in Keys
  /\ None \notin Signals /\ None \notin Keys
  /\ \A name \in DOMAIN ChainEnemies : \A a \in ChainEnemies[name] : a = Addr(a.who, a.spelling)
  /\ PendingLimit \in Nat
  /\ MayFail \subseteq Keys /\ Answering \subseteq Keys

VARIABLES
  ChainPairs,     \* what was read from the pairs files
  mainPc,         \* "range", "tables", "dial", "execute", "wait" or "dead"
  todo, k,        \* chains not started, and the one being started
  spawned,        \* chains whose goroutine StartNatsSubscribe was started
  subscribed,     \* chains whose subscription exists
  tables,         \* what main built for the chain
  connected,      \* chains with both clients
  analyser,       \* "off", "select" or "decode"
  unsent, sent,   \* signals not yet published; those published, by chain
  pending,        \* what NATS keeps for the chain's subscription
  inHand,         \* the message SignalMsgHandler is blocked on
  accepted        \* what the analyser received from SignalChan

mainVars == <<ChainPairs, mainPc, todo, k, spawned, tables, connected>>
feedVars == <<unsent, sent, pending, inHand, accepted>>
vars == <<mainVars, subscribed, analyser, feedVars>>

(* The configuration is read and the channels exist before main runs        *)
(* (config.go:46-92, nats_sub.go:13-18).                                   *)
Init ==
  /\ \E files \in PairsDirs : ChainPairs = LoadPairsConfig(files)
  /\ mainPc = "range" /\ todo = Keys /\ k = None
  /\ spawned = {} /\ subscribed = {} /\ connected = {}
  /\ tables = [c \in Keys |-> None]
  /\ analyser = [c \in Keys |-> "off"]
  /\ unsent = Signals
  /\ sent = [c \in Keys |-> <<>>]
  /\ pending = [c \in Keys |-> <<>>]
  /\ inHand = [c \in Keys |-> None]
  /\ accepted = [c \in Keys |-> <<>>]

----------------------------------------------------------------------------
(* main.                                                                   *)

(* The map's next key, in any order; its subscriber starts first. *)
StartChain ==
  /\ mainPc = "range"
  /\ \E c \in todo : k' = c /\ todo' = todo \ {c} /\ spawned' = spawned \cup {c}
  /\ mainPc' = "tables"
  /\ UNCHANGED <<ChainPairs, tables, connected, subscribed, analyser, feedVars>>

Lookup(f, name) == IF name \in DOMAIN f THEN f[name] ELSE {}

BuildTables ==
  /\ mainPc = "tables"
  /\ LET config == ChainConfig[k]
         pairs  == IF config.name \in DOMAIN ChainPairs THEN ChainPairs[config.name] ELSE <<>>
     IN IF PairKeyPanics(pairs)
        THEN mainPc' = "dead" /\ UNCHANGED tables
        ELSE /\ mainPc' = "dial"
             /\ \E router \in NewRouter(config.router), tokens \in AddrTokens(config.tokens),
                   symbols \in PairSymbolMaps(pairs) :
                  tables' = [tables EXCEPT ![k] =
                    [RouterMap |-> router, AddrTokens |-> tokens, PairSymbolMap |-> symbols,
                     EnemiesMap |-> EnemiesMap(Lookup(ChainEnemies, config.name))]]
  /\ UNCHANGED <<ChainPairs, todo, k, spawned, connected, subscribed, analyser, feedVars>>

(* Mutant: a chain that cannot be reached is left out. *)
SkipUnreachable ==
  /\ mainPc = "dial"
  /\ \/ mainPc' = "execute" /\ connected' = connected \cup {k}
     \/ k \in MayFail /\ mainPc' = "range" /\ UNCHANGED connected
  /\ UNCHANGED <<ChainPairs, todo, k, spawned, tables, subscribed, analyser, feedVars>>

(* Mutant: the nil client is used only later. *)
CarryOnWithNil ==
  /\ mainPc = "dial"
  /\ mainPc' = "execute" /\ connected' \in {connected \cup {k}, connected}
  /\ UNCHANGED <<ChainPairs, todo, k, spawned, tables, subscribed, analyser, feedVars>>

(* NewDexNodeClient dials twice.  After a failure it returns nil, which     *)
(* NewNodeMgr logs and then dereferences; nothing recovers main.           *)
NewNodeMgr ==
  /\ mainPc = "dial"
  /\ \/ mainPc' = "execute" /\ connected' = connected \cup {k}
     \/ k \in MayFail /\ mainPc' = "dead" /\ UNCHANGED connected
  /\ UNCHANGED <<ChainPairs, todo, k, spawned, tables, subscribed, analyser, feedVars>>

Execute ==
  /\ mainPc = "execute"
  /\ analyser' = [analyser EXCEPT ![k] = "select"]
  /\ mainPc' = IF todo = {} THEN "wait" ELSE "range"
  /\ UNCHANGED <<ChainPairs, todo, k, spawned, tables, connected, subscribed, feedVars>>

----------------------------------------------------------------------------
(* NATS and the subscribers.                                               *)

StartNatsSubscribe(c) ==
  /\ c \in spawned \ subscribed
  /\ subscribed' = subscribed \cup {c}
  /\ UNCHANGED <<mainVars, analyser, feedVars>>

(* A signal is published on the subject of its chain and project.  Nobody   *)
(* keeps it for a subscriber that is not there yet or lags behind too far. *)
Publish(m) ==
  /\ m \in unsent
  /\ unsent' = unsent \ {m}
  /\ sent' = [sent EXCEPT ![m.project] = Append(@, m)]
  /\ pending' = IF m.project \in subscribed /\ Len(pending[m.project]) < PendingLimit
                THEN [pending EXCEPT ![m.project] = Append(@, m)] ELSE pending
  /\ UNCHANGED <<mainVars, subscribed, analyser, inHand, accepted>>

(* Mutant: all the subscriptions share one goroutine. *)
HandOverOneByOne(c) ==
  /\ pending[c] # <<>> /\ \A d \in Keys : inHand[d] = None
  /\ inHand' = [inHand EXCEPT ![c] = Head(pending[c])]
  /\ pending' = [pending EXCEPT ![c] = Tail(@)]
  /\ UNCHANGED <<mainVars, subscribed, analyser, unsent, sent, accepted>>

(* Every subscription calls SignalMsgHandler with one message at a time. *)
SignalMsgHandler(c) ==
  /\ pending[c] # <<>> /\ inHand[c] = None
  /\ inHand' = [inHand EXCEPT ![c] = Head(pending[c])]
  /\ pending' = [pending EXCEPT ![c] = Tail(@)]
  /\ UNCHANGED <<mainVars, subscribed, analyser, unsent, sent, accepted>>

----------------------------------------------------------------------------
(* The chains.                                                             *)

(* Mutant: one channel for all the projects on a chain. *)
ChanPerName == [c \in Keys |-> ChainConfig[c].name]

(* The channel that the handler looks up by the subject's project, and main *)
(* by the key of the configuration: one per project.                       *)
ReceiveSignalChan == [c \in Keys |-> c]

RecvSignal(c) ==
  /\ analyser[c] = "select"
  /\ \E d \in Keys :
       /\ inHand[d] # None
       /\ ReceiveSignalChan[inHand[d].project] = ReceiveSignalChan[c]
       /\ accepted' = [accepted EXCEPT ![c] = Append(@, inHand[d])]
       /\ inHand' = [inHand EXCEPT ![d] = None]
  /\ UNCHANGED <<mainVars, subscribed, analyser, unsent, sent, pending>>

(* A transaction carries its addresses in lower case. *)
KindOf(table, who) ==
  LET to == Addr(who, "lower")
  IN CASE to \in DOMAIN table.RouterMap -> "router"
       [] to \notin DOMAIN table.RouterMap /\ to \in table.EnemiesMap -> "enemy"
       [] OTHER -> "other"

RecvTx(c) ==
  /\ analyser[c] = "select"
  /\ \E who \in Txs :
       analyser' = [analyser EXCEPT ![c] = IF KindOf(tables[c], who) = "enemy" THEN "decode" ELSE @]
  /\ UNCHANGED <<mainVars, subscribed, feedVars>>

(* Both RPC calls have returned. *)
Decoded(c) ==
  /\ analyser[c] = "decode"
  /\ analyser' = [analyser EXCEPT ![c] = "select"]
  /\ UNCHANGED <<mainVars, subscribed, feedVars>>

----------------------------------------------------------------------------
Main == StartChain \/ BuildTables \/ NewNodeMgr \/ Execute

Next == /\ mainPc # "dead"
        /\ \/ Main
           \/ \E m \in unsent : Publish(m)
           \/ \E c \in Keys : \/ StartNatsSubscribe(c) \/ SignalMsgHandler(c)
                              \/ RecvSignal(c) \/ RecvTx(c) \/ Decoded(c)

Spec == Init /\ [][Next]_vars

Alive(A) == mainPc # "dead" /\ A

(* Goroutines run and dials return; a select starves no ready case; only    *)
(* the endpoints of Answering are sure to answer.                          *)
FairSpec ==
  /\ Spec
  /\ WF_vars(Alive(Main))
  /\ \A c \in Keys : /\ WF_vars(Alive(StartNatsSubscribe(c)))
                     /\ WF_vars(Alive(SignalMsgHandler(c)))
                     /\ SF_vars(Alive(RecvSignal(c)))
  /\ \A c \in Answering : WF_vars(Alive(Decoded(c)))

----------------------------------------------------------------------------
(* Properties.                                                             *)

(* The signals that are meant for c. *)
SignalsOf(c) == {m \in Signals : m.project = c}

TypeFeeds ==
  /\ unsent \subseteq Signals
  /\ sent \in [Keys -> Seq(Signals)] /\ accepted \in [Keys -> Seq(Signals)]
  /\ DOMAIN pending = Keys /\ \A c \in Keys : pending[c] \in Seq(SignalsOf(c))
  /\ DOMAIN inHand = Keys /\ \A c \in Keys : inHand[c] \in SignalsOf(c) \cup {None}

HasTables(c) ==
  /\ tables[c].RouterMap \in NewRouter(ChainConfig[c].router)
  /\ tables[c].AddrTokens \in AddrTokens(ChainConfig[c].tokens)
  /\ tables[c].EnemiesMap = EnemiesMap(Lookup(ChainEnemies, ChainConfig[c].name))

TypeMain ==
  /\ todo \subseteq Keys /\ spawned = Keys \ todo
  /\ subscribed \subseteq spawned /\ connected \subseteq spawned
  /\ analyser \in [Keys -> {"off", "select", "decode"}] /\ DOMAIN tables = Keys
  /\ mainPc \in {"range", "tables", "dial", "execute", "wait", "dead"}
  /\ mainPc \in {"tables", "dial", "execute"} => k \in spawned /\ analyser[k] = "off"
  /\ mainPc \in {"dial", "execute"} => HasTables(k)
  /\ mainPc = "execute" => k \in connected

(***************************************************************************)
(* Types, and how far main is with each chain: one that runs has its own   *)
(* tables and both clients, although its subscriber was started first and  *)
(* may hold a signal long before; one without subscription gets nothing.   *)
(***************************************************************************)
TypeOK ==
  /\ TypeMain /\ TypeFeeds
  /\ \A c \in Keys : analyser[c] # "off" => c \in connected /\ HasTables(c)
  /\ \A c \in Keys : c \notin subscribed => pending[c] = <<>> /\ inHand[c] = None

Feeds == INSTANCE SignalFeed
           WITH taken <- accepted,
                Own <- [c \in Keys |-> SignalsOf(c)],
                waiting <- [c \in Keys |-> IF inHand[c] = None THEN pending[c]
                                           ELSE <<inHand[c]>> \o pending[c]]

(***************************************************************************)
(* Every chain gets its own signals and no others, in the order they were  *)
(* sent, none twice, through the channels that the chains' handlers share  *)
(* by name (nats_sub.go:27-37, main.go:16-21).  Signals from before the    *)
(* subscription, or beyond what NATS keeps, are lost.                      *)
(***************************************************************************)
ImplementsFeeds == Feeds!Spec

(***************************************************************************)
(* A chain whose endpoint never answers a call holds up its own signals    *)
(* only (node_mgr.go:468, nats_sub.go:35): whatever the others do, a       *)
(* signal that waits for a chain with an answering endpoint is taken,      *)
(* even one that came before the chain was started.                        *)
(***************************************************************************)
OthersServed ==
  \A m \in Signals : m.project \in Answering =>
    (m \in ToSet(pending[m.project]) ~> (m \in ToSet(accepted[m.project]) \/ mainPc = "dead"))

(***************************************************************************)
(* No chain is left behind: in the end every chain runs, or the process is *)
(* dead with all of them, those that traded already included - a failed    *)
(* dial is logged as if main went on (node_mgr.go:46-49, 65).              *)
(***************************************************************************)
AllOrNothing == <>(mainPc = "dead" \/ \A c \in Keys : analyser[c] # "off")

(***************************************************************************)
(* What the shipped configuration takes for granted                        *)
(* (conf/config_online.toml:32-33, both routers in checksum case): a        *)
(* transaction to an account that is configured as a router is treated as  *)
(* one, in whichever case its address is written.                          *)
(***************************************************************************)
RoutersRecognised ==
  \A c \in Keys : analyser[c] # "off" =>
    \A a \in Range(ChainConfig[c].router) : KindOf(tables[c], a.who) = "router"
=============================================================================
