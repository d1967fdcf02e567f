------------------------------- MODULE WsConn -------------------------------
(***************************************************************************)
(* The reconnecting websocket of websocket.go with a hook (or CustomSub)   *)
(* that subscribes again after a reconnect, as EstablishConn builds it     *)
(* (node_ws.go:38-67), with or without AutoReconnect and a heartbeat.      *)
(*                                                                         *)
(* Three goroutines share it: the reader (receiveMessage), the writer      *)
(* (writeRequest) and the owner, who subscribes, may send more and may     *)
(* close.  Reader and writer both call Reconnect, one at a time under      *)
(* reConnectLock; the field ws.c is read without the lock, so each of them *)
(* may hold a connection that the other has replaced meanwhile.            *)
(*                                                                         *)
(* A message is "sub" (the subscription), one of OtherMsgs, "beat" (the    *)
(* heartbeat), a control message, or "nil" (what a closed channel yields). *)
(* Pauses are left out: a step may come arbitrarily late.                  *)
(***************************************************************************)
EXTENDS Integers, SequencesExt

CONSTANTS
  Configs,       \* what the builder was told: [autoReconnect, heartbeat]
  BufCap,        \* capacity of the buffered channels, 10 in the code
  MaxRetry,      \* dials per Reconnect, 100 in the code
  OtherMsgs,     \* what the owner sends besides its subscription
  OwnerCloses    \* which closing operations the owner may call: sets of them

CONSTANTS        \* bounds of the environment
  Drops,         \* how often the network fails: breaks the connection or is silent
  DialFailures,  \* how many dials fail
  Pings          \* how many pings the server sends

(* The messages with a channel of their own: 10 places each. *)
Control == {"ping", "pong", "close"}

ASSUME WsConnAssumption ==
  /\ Configs \subseteq [autoReconnect : BOOLEAN, heartbeat : BOOLEAN]
  /\ {BufCap, MaxRetry} \subseteq Nat \ {0}
  /\ {Drops, DialFailures, Pings} \subseteq Nat
  /\ OwnerCloses \subseteq SUBSET {"Close", "CloseWs"}

VARIABLES
  WsConfig,      \* the builder's choice
  conn,          \* ws.c: "up", "broken" (by the network) or "closed" (by us)
  handlers,      \* the handlers of receiveMessage are installed on ws.c
  subscribed,    \* the subscription was written to ws.c
  current,       \* does the reader's (writer's) connection equal ws.c?
  buf,           \* writeBufferChan
  control,       \* how many messages each channel for control messages holds
  closeMsg,      \* is there a message in the channel ws.close?
  chansClosed,   \* CloseWs has closed the channels
  lock,          \* who holds reConnectLock
  pc,            \* where each goroutine is
  carried,       \* the message the writer took
  writeErr,      \* the variable err of writeRequest
  timer,         \* heartTimer is running
  retries,       \* failed dials of the running Reconnect
  unsent,        \* messages the owner has not sent
  closes,        \* closing operations the owner has not called
  panicked,      \* a goroutine panicked: nothing recovers, the process dies
  drops, dialFailures, pings    \* what the environment has left

link   == <<conn, handlers, subscribed, current>>
queues == <<buf, control, closeMsg, chansClosed>>
locals == <<carried, writeErr, timer, retries>>
todo   == <<unsent, closes>>
budget == <<drops, dialFailures, pings>>
rest   == <<WsConfig, panicked>>
vars == <<link, queues, lock, pc, locals, todo, budget, rest>>

Loops == {"reader", "writer"}
Goroutines == Loops \cup {"owner"}

(* Where Reconnect returns to. *)
Home(g) == IF g = "reader" THEN "loop" ELSE "select"

Goto(g, place) == pc' = [pc EXCEPT ![g] = place]

(* A step that only moves g along. *)
Moves(g, place) == Goto(g, place) /\ UNCHANGED <<link, queues, lock, locals, todo, budget, rest>>

(* What the builder's calls leave in the configuration. *)
Build == WsConfig \in Configs

(* NewWs has connected, made the channels and started the goroutines. *)
NewWs ==
  /\ Build
  /\ conn = "up" /\ handlers = FALSE /\ subscribed = FALSE
  /\ current = [g \in Loops |-> FALSE]
  /\ buf = <<>> /\ control = [c \in Control |-> 0] /\ closeMsg = FALSE /\ chansClosed = FALSE
  /\ lock = "free"
  /\ pc = [g \in Goroutines |-> IF g = "writer" THEN "select" ELSE "start"]
  /\ carried = "nil" /\ writeErr = FALSE /\ timer = TRUE
  /\ retries = 0
  /\ unsent = OtherMsgs /\ closes \in OwnerCloses
  /\ panicked = FALSE
  /\ drops = Drops /\ dialFailures = DialFailures /\ pings = Pings

(* A send on a closed channel panics. *)
SendOnClosed == /\ chansClosed
                /\ panicked' = TRUE
                /\ UNCHANGED <<link, queues, lock, pc, locals, todo, budget, WsConfig>>

Enqueue(m) == ~chansClosed /\ Len(buf) < BufCap /\ buf' = Append(buf, m)

(* The channel of a control message c. *)
Put(c) == /\ ~chansClosed /\ control[c] < BufCap
          /\ control' = [control EXCEPT ![c] = @ + 1]

----------------------------------------------------------------------------
(* The network.                                                            *)

DropConnection ==
  /\ drops > 0 /\ conn = "up"
  /\ drops' = drops - 1
  /\ conn' = "broken"
  /\ UNCHANGED <<handlers, subscribed, current, queues, lock, pc, locals, todo,
                 dialFailures, pings, rest>>

----------------------------------------------------------------------------
(* The owner: EstablishConn, then whatever else the API offers.            *)

Subscribe ==
  /\ pc["owner"] = "start" /\ Enqueue("sub")
  /\ Goto("owner", "idle")
  /\ UNCHANGED <<link, control, closeMsg, chansClosed, lock, locals, todo, budget, rest>>

SendMessage(m) ==
  /\ pc["owner"] = "idle" /\ m \in unsent
  /\ \/ m \notin Control /\ Enqueue(m) /\ UNCHANGED control
     \/ m \in Control /\ Put(m) /\ UNCHANGED buf
  /\ unsent' = unsent \ {m}
  /\ UNCHANGED <<link, closeMsg, chansClosed, lock, pc, locals, closes, budget, rest>>

(* isChanClose(ws.writeBufferChan) receives: it takes a message, if any. *)
IsChanClose == buf = <<>> /\ chansClosed

(* Mutant: the test leaves the queue as it is. *)
NothingTaken == buf

AfterIsChanClose == IF buf = <<>> THEN buf ELSE Tail(buf)

Close ==
  /\ pc["owner"] = "idle" /\ "Close" \in closes
  /\ closes' = closes \ {"Close"}
  /\ buf' = AfterIsChanClose
  /\ conn' = IF IsChanClose THEN conn ELSE "closed"
  /\ UNCHANGED <<handlers, subscribed, current, control, closeMsg, chansClosed, lock, pc,
                 locals, unsent, budget, rest>>

CallCloseWs ==
  /\ pc["owner"] = "idle" /\ "CloseWs" \in closes
  /\ closes' = closes \ {"CloseWs"}
  /\ Goto("owner", "closeWs")
  /\ UNCHANGED <<link, queues, lock, locals, unsent, budget, rest>>

(* CloseWs takes the lock, even when Reconnect calls it and holds the lock. *)
CloseWs(g) ==
  /\ pc[g] = "closeWs" /\ lock = "free"
  /\ closeMsg' = TRUE /\ chansClosed' = TRUE
  /\ conn' = "closed"
  /\ Goto(g, "done")
  /\ UNCHANGED <<handlers, subscribed, current, buf, control, lock, locals, todo, budget, rest>>

----------------------------------------------------------------------------
(* Reconnect, by the reader or the writer.                                 *)

(* Under the lock: the check, and the old connection is closed. *)
EnterReconnect(g) ==
  /\ pc[g] = "reconnect" /\ lock = "free"
  /\ \/ IsChanClose /\ Moves(g, Home(g))
     \/ /\ ~IsChanClose
        /\ Goto(g, "dial") /\ lock' = g /\ buf' = AfterIsChanClose
        /\ conn' = "closed" /\ retries' = 0
        /\ UNCHANGED <<handlers, subscribed, current, control, closeMsg, chansClosed, carried,
                       writeErr, timer, todo, budget, rest>>

Connect(g) ==
  /\ pc[g] = "dial"
  /\ conn' = "up" /\ handlers' = FALSE /\ subscribed' = FALSE
  /\ current' = [h \in Loops |-> FALSE]
  /\ retries' = 0
  /\ Goto(g, "hook")
  /\ UNCHANGED <<queues, lock, carried, writeErr, timer, todo, budget, rest>>

ConnectFails(g) ==
  /\ pc[g] = "dial" /\ dialFailures > 0
  /\ dialFailures' = dialFailures - 1
  /\ retries' = retries + 1
  /\ Goto(g, IF retries + 1 = MaxRetry THEN "closeWs" ELSE "dial")
  /\ UNCHANGED <<link, queues, lock, carried, writeErr, timer, todo, drops, pings, rest>>

(* Mutant: the hook returns early and Reconnect keeps the lock. *)
HookKeepsLock(g) ==
  /\ pc[g] = "hook" /\ Enqueue("sub")
  /\ Goto(g, Home(g))
  /\ UNCHANGED <<link, control, closeMsg, chansClosed, lock, locals, todo, budget, rest>>

(* Mutant: so as not to wait, the hook sends only when nothing is queued. *)
HookSkipsIfQueued(g) ==
  /\ pc[g] = "hook" /\ ~chansClosed
  /\ buf' = IF buf = <<>> THEN <<"sub">> ELSE buf
  /\ lock' = "free" /\ Goto(g, Home(g))
  /\ UNCHANGED <<link, control, closeMsg, chansClosed, locals, todo, budget, rest>>

(* PostReconnectSuccessHook subscribes, still under the lock. *)
PostReconnectSuccessHook(g) ==
  /\ pc[g] = "hook"
  /\ \/ SendOnClosed
     \/ /\ Enqueue("sub")
        /\ lock' = "free" /\ Goto(g, Home(g))
        /\ UNCHANGED <<link, control, closeMsg, chansClosed, locals, todo, budget, rest>>

----------------------------------------------------------------------------
(* receiveMessage.                                                         *)

CloseReady == closeMsg \/ chansClosed

Working(g) == current[g] /\ conn = "up"

(* On the connection that is there when the goroutine begins. *)
SetHandlers ==
  /\ pc["reader"] = "start"
  /\ handlers' = TRUE
  /\ Goto("reader", "loop")
  /\ UNCHANGED <<conn, subscribed, current, queues, lock, locals, todo, budget, rest>>

ReaderLoop ==
  /\ pc["reader"] = "loop"
  /\ IF CloseReady
     THEN closeMsg' = FALSE /\ Goto("reader", "done") /\ UNCHANGED current
     ELSE Goto("reader", "read") /\ current' = [current EXCEPT !["reader"] = TRUE]
          /\ UNCHANGED closeMsg
  /\ UNCHANGED <<conn, handlers, subscribed, buf, control, chansClosed, lock, locals, todo,
                 budget, rest>>

(* Data for ProtoHandleFunc, which keeps nothing of it here. *)
ReadMessage ==
  pc["reader"] = "read" /\ Working("reader") /\ Moves("reader", "loop")

(* Without the handlers the library answers the ping itself. *)
ReadPing ==
  /\ pc["reader"] = "read" /\ Working("reader") /\ pings > 0
  /\ pings' = pings - 1
  /\ Goto("reader", IF handlers THEN "pong" ELSE "read")
  /\ UNCHANGED <<link, queues, lock, locals, todo, drops, dialFailures, rest>>

SendPongMessage ==
  /\ pc["reader"] = "pong"
  /\ \/ SendOnClosed
     \/ /\ Put("pong")
        /\ Goto("reader", "read")
        /\ UNCHANGED <<link, buf, closeMsg, chansClosed, lock, locals, todo, budget, rest>>

AfterReadError == IF WsConfig.autoReconnect THEN "reconnect" ELSE "done"

ReadFails ==
  pc["reader"] = "read" /\ ~Working("reader") /\ Moves("reader", AfterReadError)

(* Nothing arrived for readDeadLineTime: only reading has failed. *)
ReadTimesOut ==
  /\ pc["reader"] = "read" /\ drops > 0
  /\ drops' = drops - 1
  /\ Goto("reader", AfterReadError)
  /\ UNCHANGED <<link, queues, lock, locals, todo, dialFailures, pings, rest>>

----------------------------------------------------------------------------
(* writeRequest.                                                           *)

SelectClose ==
  /\ pc["writer"] = "select" /\ CloseReady
  /\ closeMsg' = FALSE
  /\ Goto("writer", "done")
  /\ UNCHANGED <<link, buf, control, chansClosed, lock, locals, todo, budget, rest>>

SelectMessage ==
  /\ pc["writer"] = "select"
  /\ \/ buf # <<>> /\ carried' = Head(buf) /\ buf' = Tail(buf)
     \/ IsChanClose /\ carried' = "nil" /\ UNCHANGED buf
  /\ Goto("writer", "load")
  /\ UNCHANGED <<link, control, closeMsg, chansClosed, lock, writeErr, timer, retries, todo,
                 budget, rest>>

SelectControl(c) ==
  /\ pc["writer"] = "select"
  /\ \/ control[c] > 0 /\ control' = [control EXCEPT ![c] = @ - 1]
     \/ control[c] = 0 /\ chansClosed /\ UNCHANGED control
  /\ carried' = c
  /\ Goto("writer", "load")
  /\ UNCHANGED <<link, buf, closeMsg, chansClosed, lock, writeErr, timer, retries, todo,
                 budget, rest>>

(* Without a heartbeat the timer fires once, writes nothing, and the error  *)
(* of an earlier write is looked at again.                                  *)
SelectTimer ==
  /\ pc["writer"] = "select" /\ timer
  /\ \/ /\ WsConfig.heartbeat
        /\ carried' = "beat" /\ Goto("writer", "load") /\ UNCHANGED timer
     \/ /\ ~WsConfig.heartbeat
        /\ timer' = FALSE /\ Goto("writer", IF writeErr THEN "reconnect" ELSE "select")
        /\ UNCHANGED carried
  /\ UNCHANGED <<link, queues, lock, writeErr, retries, todo, budget, rest>>

LoadConn ==
  /\ pc["writer"] = "load"
  /\ current' = [current EXCEPT !["writer"] = TRUE]
  /\ Goto("writer", "write")
  /\ UNCHANGED <<conn, handlers, subscribed, queues, lock, locals, todo, budget, rest>>

(* A write to a connection the network broke may still look successful. A   *)
(* close message is the last that a connection takes.                       *)
WriteMessage ==
  /\ pc["writer"] = "write" /\ current["writer"] /\ conn # "closed"
  /\ writeErr' = FALSE
  /\ subscribed' = (subscribed \/ (carried = "sub" /\ conn = "up"))
  /\ conn' = IF carried = "close" THEN "closed" ELSE conn
  /\ carried' = "nil"
  /\ Goto("writer", "select")
  /\ UNCHANGED <<handlers, current, queues, lock, timer, retries, todo, budget, rest>>

WriteFails ==
  /\ pc["writer"] = "write" /\ ~Working("writer")
  /\ writeErr' = TRUE
  /\ carried' = "nil"
  /\ Goto("writer", "reconnect")
  /\ UNCHANGED <<link, queues, lock, timer, retries, todo, budget, rest>>

----------------------------------------------------------------------------
Reconnect(g) == \/ EnterReconnect(g) \/ Connect(g)
                \/ PostReconnectSuccessHook(g)

ReceiveMessage == \/ SetHandlers \/ ReaderLoop \/ ReadMessage \/ ReadPing
                  \/ SendPongMessage \/ ReadFails \/ ReadTimesOut

WriteRequest == \/ SelectClose \/ SelectMessage \/ SelectTimer
                \/ \E c \in Control : SelectControl(c)
                \/ LoadConn \/ WriteMessage \/ WriteFails

Owner == \/ Subscribe \/ (\E m \in unsent : SendMessage(m)) \/ Close \/ CallCloseWs

Next == /\ ~panicked
        /\ \/ DropConnection \/ Owner \/ ReceiveMessage \/ WriteRequest
           \/ \E g \in Loops : Reconnect(g) \/ ConnectFails(g)
           \/ \E g \in Goroutines : CloseWs(g)

Spec == NewWs /\ [][Next]_vars

(***************************************************************************)
(* Fairness.  A goroutine that can run does run, the mutex and select let  *)
(* nobody starve, and a dial that does not fail succeeds.  The network,    *)
(* the server and the owner (beyond EstablishConn) promise nothing.        *)
(* FairReconnect asks this only of the steps inside Reconnect, of reader   *)
(* and writer each; FairSpec of all the program's steps.                   *)
(***************************************************************************)
FairReconnect == Spec /\ \A g \in Loops : SF_vars(~panicked /\ Reconnect(g))

FairSpec ==
  /\ FairReconnect
  /\ WF_vars(~panicked /\ Subscribe)
  /\ WF_vars(~panicked /\ (SetHandlers \/ ReaderLoop \/ ReadFails \/ SendPongMessage))
  /\ WF_vars(~panicked /\ (LoadConn \/ WriteMessage \/ WriteFails))
  /\ SF_vars(~panicked /\ (SelectMessage \/ \E c \in Control : SelectControl(c)))
  /\ SF_vars(~panicked /\ SelectClose)
  /\ \A g \in Goroutines : SF_vars(~panicked /\ CloseWs(g))

----------------------------------------------------------------------------
(* Properties.                                                             *)

Places(g) ==
  IF g = "owner" THEN {"start", "idle", "closeWs", "done"}
  ELSE {"reconnect", "dial", "hook", "closeWs", "done"} \cup
       (IF g = "reader" THEN {"start", "loop", "read", "pong"} ELSE {"select", "load", "write"})

Msgs == {"sub"} \cup (OtherMsgs \ Control)

TypeBuf == buf \in Seq(Msgs) /\ Len(buf) <= BufCap

TypeData ==
  /\ control \in [Control -> 0..BufCap]
  /\ WsConfig \in Configs
  /\ conn \in {"up", "broken", "closed"}
  /\ {handlers, subscribed, closeMsg, chansClosed, writeErr, timer, panicked} \subseteq BOOLEAN
  /\ current \in [Loops -> BOOLEAN]
  /\ carried \in Msgs \cup Control \cup {"nil", "beat"}
  /\ retries \in 0..MaxRetry
  /\ unsent \subseteq OtherMsgs /\ closes \subseteq UNION OwnerCloses
  /\ drops \in 0..Drops /\ dialFailures \in 0..DialFailures /\ pings \in 0..Pings

TypePc == /\ pc \in [Goroutines -> UNION {Places(g) : g \in Goroutines}]
          /\ \A g \in Goroutines : pc[g] \in Places(g)

LockFollowsHolder ==
  /\ lock \in Loops \cup {"free"}
  /\ \A g \in Loops : (lock = g) <=> pc[g] \in {"dial", "hook", "closeWs"}
  /\ \A g \in Loops : pc[g] = "dial" => retries < MaxRetry

(***************************************************************************)
(* Types, and the lock (lines 248-250): it is held exactly by the one of   *)
(* the two loops that is dialling, subscribing again or giving up; and it  *)
(* dials only while attempts are left.                                     *)
(***************************************************************************)
TypeOK == TypeData /\ TypeBuf /\ TypePc /\ LockFollowsHolder

(* g is about to replace the connection, or is at it. *)
Replacing(g) == pc[g] \in {"reconnect", "dial", "hook", "closeWs"}

(***************************************************************************)
(* A connection that is up but carries no subscription is never left at    *)
(* that: a subscription is queued or in the writer's hand for this very    *)
(* connection, or someone is about to replace the connection - although    *)
(* Reconnect throws away a queued message and reader and writer close each *)
(* other's fresh connections (lines 248-302, 343-352, 425-432, 468-475).   *)
(***************************************************************************)
SubscriptionOnItsWay ==
  conn = "up" /\ ~subscribed /\ ~chansClosed =>
    \/ pc["owner"] = "start"
    \/ "sub" \in ToSet(buf)
    \/ carried = "sub" /\ pc["writer"] \in {"load", "write"}
    \/ \E g \in Loops : Replacing(g)
    \/ pc["reader"] \in {"read", "pong"} /\ ~current["reader"] /\ WsConfig.autoReconnect

(***************************************************************************)
(* The hook, which sends on the bounded channel while it holds the lock    *)
(* that the writer may be waiting for, finds room there (lines 248-302,    *)
(* 356-364).  What makes room is the message that isChanClose throws away  *)
(* at the beginning of each Reconnect (468-475).                           *)
(***************************************************************************)
HookHasRoom == \A g \in Loops : pc[g] = "hook" => Len(buf) < BufCap

(***************************************************************************)
(* Whoever reconnects returns to its loop with the lock free for the other *)
(* (lines 248-302) - also when both reconnect at once, while the owner     *)
(* closes, and although the hook sends on a bounded channel that nobody    *)
(* drains under the lock - unless the process dies of a closed channel.    *)
(* It needs fewer failing dials than MaxRetry, and fewer messages of the   *)
(* owner than would fill the buffer.                                       *)
(***************************************************************************)
ReconnectReturns == \A g \in Loops : Replacing(g) ~> (pc[g] = Home(g) \/ panicked)

(***************************************************************************)
(* What the log of line 273 says: after the last failed dial the client    *)
(* begins exiting, so that both goroutines end.                            *)
(***************************************************************************)
ExitsAfterRetries ==
  (\E g \in Loops : pc[g] = "closeWs") ~> (\A g \in Loops : pc[g] = "done")

(***************************************************************************)
(* What the logs of lines 319 and 418 say of a closed websocket: its       *)
(* goroutines exit.  They do not panic.                                    *)
(***************************************************************************)
CloseIsClean == ~panicked
=============================================================================
