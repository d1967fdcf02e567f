---------------------------- MODULE WsConnProofs ----------------------------
(***************************************************************************)
(* Theorems about WsConn, for every configuration, capacity, number of     *)
(* retries and behaviour of the network.                                   *)
(***************************************************************************)
EXTENDS WsConn, SequenceTheorems, FiniteSetTheorems, TLAPS

(* Losing the first message keeps the buffer's type. *)
LEMMA TailInBounds ==
  ASSUME TypeBuf
  PROVE  AfterIsChanClose \in Seq(Msgs) /\ Len(AfterIsChanClose) <= BufCap
<1>1. buf \in Seq(Msgs) /\ Len(buf) <= BufCap /\ BufCap \in Nat /\ Len(buf) \in Nat
  BY WsConnAssumption, LenProperties DEF TypeBuf
<1>2. CASE buf = <<>>
  BY <1>1, <1>2 DEF AfterIsChanClose
<1>3. CASE buf # <<>>
  BY <1>1, <1>3, HeadTailProperties DEF AfterIsChanClose
<1> QED BY <1>2, <1>3

(* So does a message that is queued. *)
LEMMA EnqueueType ==
  ASSUME TypeBuf, NEW m \in Msgs, Enqueue(m)
  PROVE  TypeBuf'
<1>1. buf \in Seq(Msgs) /\ Len(buf) < BufCap /\ BufCap \in Nat /\ Len(buf) \in Nat
  BY WsConnAssumption, LenProperties DEF TypeBuf, Enqueue
<1>2. Append(buf, m) \in Seq(Msgs) /\ Len(Append(buf, m)) = Len(buf) + 1
  BY <1>1, AppendProperties
<1>3. buf' = Append(buf, m)
  BY DEF Enqueue
<1>4. Len(buf) + 1 <= BufCap
  BY <1>1
<1> QED BY <1>2, <1>3, <1>4 DEF TypeBuf

(* A goroutine that goes to one of its places. *)
LEMMA GotoType ==
  ASSUME TypePc, NEW g \in Goroutines, NEW place \in Places(g), Goto(g, place)
  PROVE  TypePc'
<1>1. place \in UNION {Places(h) : h \in Goroutines}
  OBVIOUS
<1>2. pc' \in [Goroutines -> UNION {Places(h) : h \in Goroutines}]
  BY <1>1 DEF TypePc, Goto
<1>3. \A h \in Goroutines : pc'[h] = IF h = g THEN place ELSE pc[h]
  BY DEF TypePc, Goto
<1> QED BY <1>2, <1>3 DEF TypePc

(* A control message that is put into its channel or taken from it. *)
LEMMA ControlType ==
  ASSUME TypeData, NEW c \in Control, NEW n \in 0..BufCap
  PROVE  [control EXCEPT ![c] = n] \in [Control -> 0..BufCap]
BY DEF TypeData

(* The two loops return to a place of theirs. *)
LEMMA HomeIsAPlace == \A g \in Loops : Home(g) \in Places(g) \ {"dial", "hook", "closeWs"}
BY DEF Home, Places, Loops

LEMMA TypeInit == NewWs => TypeOK
<1> SUFFICES ASSUME NewWs PROVE TypeOK
  OBVIOUS
<1>1. TypeData
  <2>1. control \in [Control -> 0..BufCap] /\ retries \in 0..MaxRetry
    BY WsConnAssumption DEF NewWs
  <2>2. drops \in 0..Drops /\ dialFailures \in 0..DialFailures /\ pings \in 0..Pings
    BY WsConnAssumption DEF NewWs
  <2> QED BY <2>1, <2>2 DEF NewWs, Build, TypeData
<1>2. TypeBuf
  BY WsConnAssumption, EmptySeq DEF NewWs, TypeBuf
<1>3. TypePc
  <2>1. \A g \in Goroutines : pc[g] \in Places(g)
    BY DEF NewWs, Places, Goroutines, Loops
  <2>2. pc = [g \in Goroutines |-> pc[g]]
    BY DEF NewWs
  <2> QED BY <2>1, <2>2 DEF TypePc
<1>4. LockFollowsHolder
  BY WsConnAssumption DEF NewWs, LockFollowsHolder, Goroutines, Loops
<1> QED BY <1>1, <1>2, <1>3, <1>4 DEF TypeOK

LEMMA TypeNext == TypeOK /\ [Next]_vars => TypeOK'
<1> SUFFICES ASSUME TypeOK, [Next]_vars PROVE TypeOK'
  OBVIOUS
<1>0. TypeData /\ TypeBuf /\ TypePc /\ LockFollowsHolder
  BY DEF TypeOK
<1>1. ASSUME DropConnection PROVE TypeOK'
  <2>1. TypeData'
    BY <1>0, <1>1, WsConnAssumption
      DEF TypeData, DropConnection, queues, locals, todo, rest
  <2>2. TypeBuf'
    BY <1>0, <1>1 DEF TypeBuf, DropConnection, queues
  <2>3. UNCHANGED <<pc, lock, retries>>
    BY <1>1 DEF DropConnection, locals
  <2>4. TypePc'
    BY <1>0, <2>3 DEF TypePc
  <2>5. LockFollowsHolder'
    BY <1>0, <2>3 DEF LockFollowsHolder
  <2> QED BY <2>1, <2>2, <2>4, <2>5 DEF TypeOK
<1>2. ASSUME Subscribe PROVE TypeOK'
  <2>1. TypeData'
    BY <1>0, <1>2, WsConnAssumption
      DEF TypeData, Subscribe, link, locals, todo, budget, rest
  <2>2. TypeBuf'
    <3>1. Enqueue("sub") BY <1>2 DEF Subscribe
    <3> QED BY <1>0, <3>1, EnqueueType DEF Msgs
  <2>3. Goto("owner", "idle")
    BY <1>2 DEF Subscribe
  <2>4. TypePc'
    BY <1>0, <2>3, GotoType, HomeIsAPlace
      DEF TypePc, Places, AfterReadError, Goroutines, Loops
  <2>5. LockFollowsHolder'
    BY <1>0, <1>2, <2>3, HomeIsAPlace, WsConnAssumption
      DEF LockFollowsHolder, TypeData, TypePc, Goto, Subscribe, locals, Goroutines,
          Loops
  <2> QED BY <2>1, <2>2, <2>4, <2>5 DEF TypeOK
<1>3. ASSUME NEW m \in unsent, SendMessage(m) PROVE TypeOK'
  <2>1. TypeData'
    BY <1>0, <1>3, WsConnAssumption
      DEF TypeData, SendMessage, Put, link, locals, budget, rest
  <2>2. TypeBuf'
    <3>1. (m \notin Control /\ Enqueue(m)) \/ UNCHANGED buf BY <1>3 DEF SendMessage
    <3> QED BY <1>0, <1>3, <3>1, EnqueueType DEF Msgs, TypeBuf, TypeData
  <2>3. UNCHANGED <<pc, lock, retries>>
    BY <1>3 DEF SendMessage, locals
  <2>4. TypePc'
    BY <1>0, <2>3 DEF TypePc
  <2>5. LockFollowsHolder'
    BY <1>0, <2>3 DEF LockFollowsHolder
  <2> QED BY <2>1, <2>2, <2>4, <2>5 DEF TypeOK
<1>4. ASSUME Close PROVE TypeOK'
  <2>1. TypeData'
    BY <1>0, <1>4, WsConnAssumption DEF TypeData, Close, locals, budget, rest
  <2>2. TypeBuf'
    <3>1. buf' = AfterIsChanClose BY <1>4 DEF Close
    <3> QED BY <1>0, <3>1, TailInBounds DEF TypeBuf
  <2>3. UNCHANGED <<pc, lock, retries>>
    BY <1>4 DEF Close, locals
  <2>4. TypePc'
    BY <1>0, <2>3 DEF TypePc
  <2>5. LockFollowsHolder'
    BY <1>0, <2>3 DEF LockFollowsHolder
  <2> QED BY <2>1, <2>2, <2>4, <2>5 DEF TypeOK
<1>5. ASSUME CallCloseWs PROVE TypeOK'
  <2>1. TypeData'
    BY <1>0, <1>5, WsConnAssumption
      DEF TypeData, CallCloseWs, link, queues, locals, todo, budget, rest
  <2>2. TypeBuf'
    BY <1>0, <1>5 DEF TypeBuf, CallCloseWs, queues
  <2>3. Goto("owner", "closeWs")
    BY <1>5 DEF CallCloseWs
  <2>4. TypePc'
    BY <1>0, <2>3, GotoType, HomeIsAPlace
      DEF TypePc, Places, AfterReadError, Goroutines, Loops
  <2>5. LockFollowsHolder'
    BY <1>0, <1>5, <2>3, HomeIsAPlace, WsConnAssumption
      DEF LockFollowsHolder, TypeData, TypePc, Goto, CallCloseWs, locals, Goroutines,
          Loops
  <2> QED BY <2>1, <2>2, <2>4, <2>5 DEF TypeOK
<1>6. ASSUME NEW g \in Goroutines, CloseWs(g) PROVE TypeOK'
  <2>1. TypeData'
    BY <1>0, <1>6, WsConnAssumption DEF TypeData, CloseWs, locals, todo, budget, rest
  <2>2. TypeBuf'
    BY <1>0, <1>6 DEF TypeBuf, CloseWs
  <2>3. Goto(g, "done")
    BY <1>6 DEF CloseWs
  <2>4. TypePc'
    BY <1>0, <2>3, GotoType, HomeIsAPlace
      DEF TypePc, Places, AfterReadError, Goroutines, Loops
  <2>5. LockFollowsHolder'
    BY <1>0, <1>6, <2>3, HomeIsAPlace, WsConnAssumption
      DEF LockFollowsHolder, TypeData, TypePc, Goto, CloseWs, locals, Goroutines,
          Loops
  <2> QED BY <2>1, <2>2, <2>4, <2>5 DEF TypeOK
<1>7. ASSUME NEW g \in Loops, EnterReconnect(g) PROVE TypeOK'
  <2>1. TypeData'
    <3>1. /\ conn' \in {conn, "closed"} /\ retries' \in {retries, 0}
          /\ UNCHANGED <<handlers, subscribed, current, control, closeMsg, chansClosed, carried,
                         writeErr, timer, todo, budget, rest>>
      BY <1>7 DEF EnterReconnect, Moves, link, queues, locals
    <3>2. retries' \in 0..MaxRetry
      BY <1>0, <3>1, WsConnAssumption DEF TypeData
    <3> QED BY <1>0, <3>1, <3>2 DEF TypeData, todo, budget, rest
  <2>2. TypeBuf'
    <3>1. buf' = AfterIsChanClose \/ UNCHANGED buf BY <1>7
      DEF EnterReconnect, Moves, queues
    <3> QED BY <1>0, <3>1, TailInBounds DEF TypeBuf
  <2>3. Goto(g, Home(g)) \/ Goto(g, "dial")
    BY <1>7 DEF EnterReconnect, Moves
  <2>4. TypePc'
    BY <1>0, <2>3, GotoType, HomeIsAPlace
      DEF TypePc, Places, AfterReadError, Goroutines, Loops
  <2>5. LockFollowsHolder'
    BY <1>0, <1>7, <2>3, HomeIsAPlace, WsConnAssumption
      DEF LockFollowsHolder, TypeData, TypePc, Goto, EnterReconnect, Moves, locals,
          Goroutines, Loops
  <2> QED BY <2>1, <2>2, <2>4, <2>5 DEF TypeOK
<1>8. ASSUME NEW g \in Loops, Connect(g) PROVE TypeOK'
  <2>0. retries' \in 0..MaxRetry
    BY <1>8, WsConnAssumption DEF Connect
  <2>1. TypeData'
    BY <1>0, <1>8, <2>0 DEF TypeData, Connect, queues, todo, budget, rest
  <2>2. TypeBuf'
    BY <1>0, <1>8 DEF TypeBuf, Connect, queues
  <2>3. Goto(g, "hook")
    BY <1>8 DEF Connect
  <2>4. TypePc'
    BY <1>0, <2>3, GotoType, HomeIsAPlace
      DEF TypePc, Places, AfterReadError, Goroutines, Loops
  <2>5. LockFollowsHolder'
    BY <1>0, <1>8, <2>3, HomeIsAPlace, WsConnAssumption
      DEF LockFollowsHolder, TypeData, TypePc, Goto, Connect, locals, Goroutines,
          Loops
  <2> QED BY <2>1, <2>2, <2>4, <2>5 DEF TypeOK
<1>9. ASSUME NEW g \in Loops, ConnectFails(g) PROVE TypeOK'
  <2>1. TypeData'
    <3>1. retries' \in 0..MaxRetry
      BY <1>0, <1>9, WsConnAssumption DEF TypeData, LockFollowsHolder, ConnectFails
    <3> QED BY <1>0, <1>9, <3>1, WsConnAssumption
      DEF TypeData, ConnectFails, link, queues, todo, rest
  <2>2. TypeBuf'
    BY <1>0, <1>9 DEF TypeBuf, ConnectFails, queues
  <2>3. Goto(g, "closeWs") \/ Goto(g, "dial")
    BY <1>9 DEF ConnectFails
  <2>4. TypePc'
    BY <1>0, <2>3, GotoType, HomeIsAPlace
      DEF TypePc, Places, AfterReadError, Goroutines, Loops
  <2>5. LockFollowsHolder'
    BY <1>0, <1>9, <2>3, HomeIsAPlace, WsConnAssumption
      DEF LockFollowsHolder, TypeData, TypePc, Goto, ConnectFails, Goroutines, Loops
  <2> QED BY <2>1, <2>2, <2>4, <2>5 DEF TypeOK
<1>10. ASSUME NEW g \in Loops, PostReconnectSuccessHook(g) PROVE TypeOK'
  <2>1. TypeData'
    BY <1>0, <1>10, WsConnAssumption
      DEF TypeData, PostReconnectSuccessHook, SendOnClosed, link, queues, locals,
          todo, budget, rest
  <2>2. TypeBuf'
    <3>1. Enqueue("sub") \/ UNCHANGED buf BY <1>10
      DEF PostReconnectSuccessHook, SendOnClosed, queues
    <3> QED BY <1>0, <3>1, EnqueueType DEF Msgs, TypeBuf
  <2>3. Goto(g, Home(g)) \/ pc' = pc
    BY <1>10 DEF PostReconnectSuccessHook, SendOnClosed
  <2>4. TypePc'
    BY <1>0, <2>3, GotoType, HomeIsAPlace
      DEF TypePc, Places, AfterReadError, Goroutines, Loops
  <2>5. LockFollowsHolder'
    BY <1>0, <1>10, <2>3, HomeIsAPlace, WsConnAssumption
      DEF LockFollowsHolder, TypeData, TypePc, Goto, PostReconnectSuccessHook,
          SendOnClosed, locals, Goroutines, Loops
  <2> QED BY <2>1, <2>2, <2>4, <2>5 DEF TypeOK
<1>11. ASSUME SetHandlers PROVE TypeOK'
  <2>1. TypeData'
    BY <1>0, <1>11, WsConnAssumption
      DEF TypeData, SetHandlers, queues, locals, todo, budget, rest
  <2>2. TypeBuf'
    BY <1>0, <1>11 DEF TypeBuf, SetHandlers, queues
  <2>3. Goto("reader", "loop")
    BY <1>11 DEF SetHandlers
  <2>4. TypePc'
    BY <1>0, <2>3, GotoType, HomeIsAPlace
      DEF TypePc, Places, AfterReadError, Goroutines, Loops
  <2>5. LockFollowsHolder'
    BY <1>0, <1>11, <2>3, HomeIsAPlace, WsConnAssumption
      DEF LockFollowsHolder, TypeData, TypePc, Goto, SetHandlers, locals, Goroutines,
          Loops
  <2> QED BY <2>1, <2>2, <2>4, <2>5 DEF TypeOK
<1>12. ASSUME ReaderLoop PROVE TypeOK'
  <2>1. TypeData'
    BY <1>0, <1>12, WsConnAssumption
      DEF TypeData, ReaderLoop, locals, todo, budget, rest
  <2>2. TypeBuf'
    BY <1>0, <1>12 DEF TypeBuf, ReaderLoop
  <2>3. Goto("reader", "done") \/ Goto("reader", "read")
    BY <1>12 DEF ReaderLoop
  <2>4. TypePc'
    BY <1>0, <2>3, GotoType, HomeIsAPlace
      DEF TypePc, Places, AfterReadError, Goroutines, Loops
  <2>5. LockFollowsHolder'
    BY <1>0, <1>12, <2>3, HomeIsAPlace, WsConnAssumption
      DEF LockFollowsHolder, TypeData, TypePc, Goto, ReaderLoop, locals, Goroutines,
          Loops
  <2> QED BY <2>1, <2>2, <2>4, <2>5 DEF TypeOK
<1>13. ASSUME ReadMessage PROVE TypeOK'
  <2>1. TypeData'
    BY <1>0, <1>13, WsConnAssumption
      DEF TypeData, ReadMessage, Moves, link, queues, locals, todo, budget, rest
  <2>2. TypeBuf'
    BY <1>0, <1>13 DEF TypeBuf, ReadMessage, Moves, queues
  <2>3. Goto("reader", "loop")
    BY <1>13 DEF ReadMessage, Moves
  <2>4. TypePc'
    BY <1>0, <2>3, GotoType, HomeIsAPlace
      DEF TypePc, Places, AfterReadError, Goroutines, Loops
  <2>5. LockFollowsHolder'
    BY <1>0, <1>13, <2>3, HomeIsAPlace, WsConnAssumption
      DEF LockFollowsHolder, TypeData, TypePc, Goto, ReadMessage, Moves, locals,
          Goroutines, Loops
  <2> QED BY <2>1, <2>2, <2>4, <2>5 DEF TypeOK
<1>14. ASSUME ReadPing PROVE TypeOK'
  <2>1. TypeData'
    BY <1>0, <1>14, WsConnAssumption
      DEF TypeData, ReadPing, link, queues, locals, todo, rest
  <2>2. TypeBuf'
    BY <1>0, <1>14 DEF TypeBuf, ReadPing, queues
  <2>3. Goto("reader", "pong") \/ Goto("reader", "read")
    BY <1>14 DEF ReadPing
  <2>4. TypePc'
    BY <1>0, <2>3, GotoType, HomeIsAPlace
      DEF TypePc, Places, AfterReadError, Goroutines, Loops
  <2>5. LockFollowsHolder'
    BY <1>0, <1>14, <2>3, HomeIsAPlace, WsConnAssumption
      DEF LockFollowsHolder, TypeData, TypePc, Goto, ReadPing, locals, Goroutines,
          Loops
  <2> QED BY <2>1, <2>2, <2>4, <2>5 DEF TypeOK
<1>15. ASSUME SendPongMessage PROVE TypeOK'
  <2>1. TypeData'
    <3>1. control' \in [Control -> 0..BufCap]
      <4>1. CASE SendOnClosed
        BY <1>0, <4>1 DEF TypeData, SendOnClosed, queues
      <4>2. CASE Put("pong")
        BY <1>0, <4>2, ControlType, WsConnAssumption DEF TypeData, Put, Control
      <4> QED BY <1>15, <4>1, <4>2 DEF SendPongMessage
    <3> QED BY <1>0, <1>15, <3>1
      DEF TypeData, SendPongMessage, SendOnClosed, link, queues, locals, todo, budget,
          rest
  <2>2. TypeBuf'
    BY <1>0, <1>15 DEF TypeBuf, SendPongMessage, SendOnClosed, queues
  <2>3. Goto("reader", "read") \/ pc' = pc
    BY <1>15 DEF SendPongMessage, SendOnClosed
  <2>4. TypePc'
    BY <1>0, <2>3, GotoType, HomeIsAPlace
      DEF TypePc, Places, AfterReadError, Goroutines, Loops
  <2>5. LockFollowsHolder'
    BY <1>0, <1>15, <2>3, HomeIsAPlace, WsConnAssumption
      DEF LockFollowsHolder, TypeData, TypePc, Goto, SendPongMessage, SendOnClosed,
          locals, Goroutines, Loops
  <2> QED BY <2>1, <2>2, <2>4, <2>5 DEF TypeOK
<1>16. ASSUME ReadFails PROVE TypeOK'
  <2>1. TypeData'
    BY <1>0, <1>16, WsConnAssumption
      DEF TypeData, ReadFails, Moves, link, queues, locals, todo, budget, rest
  <2>2. TypeBuf'
    BY <1>0, <1>16 DEF TypeBuf, ReadFails, Moves, queues
  <2>3. Goto("reader", AfterReadError)
    BY <1>16 DEF ReadFails, Moves
  <2>4. TypePc'
    BY <1>0, <2>3, GotoType, HomeIsAPlace
      DEF TypePc, Places, AfterReadError, Goroutines, Loops
  <2>5. LockFollowsHolder'
    BY <1>0, <1>16, <2>3, HomeIsAPlace, WsConnAssumption
      DEF LockFollowsHolder, TypeData, TypePc, Goto, AfterReadError, ReadFails, Moves,
          locals, Goroutines, Loops
  <2> QED BY <2>1, <2>2, <2>4, <2>5 DEF TypeOK
<1>17. ASSUME ReadTimesOut PROVE TypeOK'
  <2>1. TypeData'
    BY <1>0, <1>17, WsConnAssumption
      DEF TypeData, ReadTimesOut, link, queues, locals, todo, rest
  <2>2. TypeBuf'
    BY <1>0, <1>17 DEF TypeBuf, ReadTimesOut, queues
  <2>3. Goto("reader", AfterReadError)
    BY <1>17 DEF ReadTimesOut
  <2>4. TypePc'
    BY <1>0, <2>3, GotoType, HomeIsAPlace
      DEF TypePc, Places, AfterReadError, Goroutines, Loops
  <2>5. LockFollowsHolder'
    BY <1>0, <1>17, <2>3, HomeIsAPlace, WsConnAssumption
      DEF LockFollowsHolder, TypeData, TypePc, Goto, AfterReadError, ReadTimesOut,
          locals, Goroutines, Loops
  <2> QED BY <2>1, <2>2, <2>4, <2>5 DEF TypeOK
<1>18. ASSUME SelectClose PROVE TypeOK'
  <2>1. TypeData'
    BY <1>0, <1>18, WsConnAssumption
      DEF TypeData, SelectClose, link, locals, todo, budget, rest
  <2>2. TypeBuf'
    BY <1>0, <1>18 DEF TypeBuf, SelectClose
  <2>3. Goto("writer", "done")
    BY <1>18 DEF SelectClose
  <2>4. TypePc'
    BY <1>0, <2>3, GotoType, HomeIsAPlace
      DEF TypePc, Places, AfterReadError, Goroutines, Loops
  <2>5. LockFollowsHolder'
    BY <1>0, <1>18, <2>3, HomeIsAPlace, WsConnAssumption
      DEF LockFollowsHolder, TypeData, TypePc, Goto, SelectClose, locals, Goroutines,
          Loops
  <2> QED BY <2>1, <2>2, <2>4, <2>5 DEF TypeOK
<1>19. ASSUME SelectMessage PROVE TypeOK'
  <2>1. TypeData'
    <3>1. carried' \in Msgs \cup Control \cup {"nil", "beat"}
      BY <1>0, <1>19, HeadTailProperties DEF TypeBuf, SelectMessage
    <3> QED BY <1>0, <1>19, <3>1 DEF TypeData, SelectMessage, link, todo, budget, rest
  <2>2. TypeBuf'
    <3>1. buf' = AfterIsChanClose BY <1>19
      DEF SelectMessage, IsChanClose, AfterIsChanClose
    <3> QED BY <1>0, <3>1, TailInBounds DEF TypeBuf
  <2>3. Goto("writer", "load")
    BY <1>19 DEF SelectMessage
  <2>4. TypePc'
    BY <1>0, <2>3, GotoType, HomeIsAPlace
      DEF TypePc, Places, AfterReadError, Goroutines, Loops
  <2>5. LockFollowsHolder'
    BY <1>0, <1>19, <2>3, HomeIsAPlace, WsConnAssumption
      DEF LockFollowsHolder, TypeData, TypePc, Goto, SelectMessage, Goroutines, Loops
  <2> QED BY <2>1, <2>2, <2>4, <2>5 DEF TypeOK
<1>20. ASSUME NEW c \in Control, SelectControl(c) PROVE TypeOK'
  <2>1. TypeData'
    BY <1>0, <1>20, WsConnAssumption
      DEF TypeData, SelectControl, link, todo, budget, rest
  <2>2. TypeBuf'
    BY <1>0, <1>20 DEF TypeBuf, SelectControl
  <2>3. Goto("writer", "load")
    BY <1>20 DEF SelectControl
  <2>4. TypePc'
    BY <1>0, <2>3, GotoType, HomeIsAPlace
      DEF TypePc, Places, AfterReadError, Goroutines, Loops
  <2>5. LockFollowsHolder'
    BY <1>0, <1>20, <2>3, HomeIsAPlace, WsConnAssumption
      DEF LockFollowsHolder, TypeData, TypePc, Goto, SelectControl, Goroutines, Loops
  <2> QED BY <2>1, <2>2, <2>4, <2>5 DEF TypeOK
<1>21. ASSUME SelectTimer PROVE TypeOK'
  <2>1. TypeData'
    BY <1>0, <1>21, WsConnAssumption
      DEF TypeData, SelectTimer, link, queues, todo, budget, rest
  <2>2. TypeBuf'
    BY <1>0, <1>21 DEF TypeBuf, SelectTimer, queues
  <2>3. Goto("writer", "load") \/ Goto("writer", "reconnect") \/ Goto("writer", "select")
    BY <1>21 DEF SelectTimer
  <2>4. TypePc'
    BY <1>0, <2>3, GotoType, HomeIsAPlace
      DEF TypePc, Places, AfterReadError, Goroutines, Loops
  <2>5. LockFollowsHolder'
    BY <1>0, <1>21, <2>3, HomeIsAPlace, WsConnAssumption
      DEF LockFollowsHolder, TypeData, TypePc, Goto, SelectTimer, Goroutines, Loops
  <2> QED BY <2>1, <2>2, <2>4, <2>5 DEF TypeOK
<1>22. ASSUME LoadConn PROVE TypeOK'
  <2>1. TypeData'
    BY <1>0, <1>22, WsConnAssumption
      DEF TypeData, LoadConn, queues, locals, todo, budget, rest
  <2>2. TypeBuf'
    BY <1>0, <1>22 DEF TypeBuf, LoadConn, queues
  <2>3. Goto("writer", "write")
    BY <1>22 DEF LoadConn
  <2>4. TypePc'
    BY <1>0, <2>3, GotoType, HomeIsAPlace
      DEF TypePc, Places, AfterReadError, Goroutines, Loops
  <2>5. LockFollowsHolder'
    BY <1>0, <1>22, <2>3, HomeIsAPlace, WsConnAssumption
      DEF LockFollowsHolder, TypeData, TypePc, Goto, LoadConn, locals, Goroutines,
          Loops
  <2> QED BY <2>1, <2>2, <2>4, <2>5 DEF TypeOK
<1>23. ASSUME WriteMessage PROVE TypeOK'
  <2>1. TypeData'
    BY <1>0, <1>23, WsConnAssumption
      DEF TypeData, WriteMessage, queues, todo, budget, rest
  <2>2. TypeBuf'
    BY <1>0, <1>23 DEF TypeBuf, WriteMessage, queues
  <2>3. Goto("writer", "select")
    BY <1>23 DEF WriteMessage
  <2>4. TypePc'
    BY <1>0, <2>3, GotoType, HomeIsAPlace
      DEF TypePc, Places, AfterReadError, Goroutines, Loops
  <2>5. LockFollowsHolder'
    BY <1>0, <1>23, <2>3, HomeIsAPlace, WsConnAssumption
      DEF LockFollowsHolder, TypeData, TypePc, Goto, WriteMessage, Goroutines, Loops
  <2> QED BY <2>1, <2>2, <2>4, <2>5 DEF TypeOK
<1>24. ASSUME WriteFails PROVE TypeOK'
  <2>1. TypeData'
    BY <1>0, <1>24, WsConnAssumption
      DEF TypeData, WriteFails, link, queues, todo, budget, rest
  <2>2. TypeBuf'
    BY <1>0, <1>24 DEF TypeBuf, WriteFails, queues
  <2>3. Goto("writer", "reconnect")
    BY <1>24 DEF WriteFails
  <2>4. TypePc'
    BY <1>0, <2>3, GotoType, HomeIsAPlace
      DEF TypePc, Places, AfterReadError, Goroutines, Loops
  <2>5. LockFollowsHolder'
    BY <1>0, <1>24, <2>3, HomeIsAPlace, WsConnAssumption
      DEF LockFollowsHolder, TypeData, TypePc, Goto, WriteFails, Goroutines, Loops
  <2> QED BY <2>1, <2>2, <2>4, <2>5 DEF TypeOK
<1>25. CASE UNCHANGED vars
  BY <1>0, <1>25
    DEF TypeOK, TypeData, TypeBuf, TypePc, LockFollowsHolder, vars, link, queues,
        locals, todo, budget, rest
<1> QED
  BY <1>1, <1>2, <1>3, <1>4, <1>5, <1>6, <1>7, <1>8, <1>9, <1>10, <1>11, <1>12, <1>13,
     <1>14, <1>15, <1>16, <1>17, <1>18, <1>19, <1>20, <1>21, <1>22, <1>23, <1>24, <1>25
    DEF Next, Owner, ReceiveMessage, WriteRequest, Reconnect

(***************************************************************************)
(* The lock follows its holder, and all types hold, for every bound        *)
(* (websocket.go:248-302).                                                 *)
(***************************************************************************)
THEOREM WsTypeCorrect == Spec => []TypeOK
<1>1. NewWs => TypeOK BY TypeInit
<1>2. TypeOK /\ [Next]_vars => TypeOK' BY TypeNext
<1> QED BY <1>1, <1>2, PTL DEF Spec

----------------------------------------------------------------------------
(* What is in the queue after a message was appended, and after one left. *)
LEMMA QueuedAfterEnqueue ==
  ASSUME TypeBuf, NEW m \in Msgs, Enqueue(m)
  PROVE  m \in ToSet(buf') /\ ToSet(buf) \subseteq ToSet(buf')
<1>1. buf \in Seq(Msgs) /\ Len(buf) \in Nat /\ DOMAIN buf = 1..Len(buf)
  BY LenProperties DEF TypeBuf
<1>2. /\ Append(buf, m) \in Seq(Msgs) /\ Len(Append(buf, m)) = Len(buf) + 1
      /\ \A i \in 1..Len(buf) : Append(buf, m)[i] = buf[i]
      /\ Append(buf, m)[Len(buf) + 1] = m
  BY <1>1, AppendProperties
<1>3. buf' = Append(buf, m)
  BY DEF Enqueue
<1>4. DOMAIN Append(buf, m) = 1..(Len(buf) + 1)
  BY <1>2, LenProperties
<1> QED BY <1>1, <1>2, <1>3, <1>4 DEF ToSet

LEMMA QueuedAfterTail ==
  ASSUME TypeBuf, "sub" \in ToSet(buf)
  PROVE  buf # <<>> /\ (Head(buf) = "sub" \/ "sub" \in ToSet(Tail(buf)))
<1>1. buf \in Seq(Msgs) /\ Len(buf) \in Nat /\ DOMAIN buf = 1..Len(buf)
  BY LenProperties DEF TypeBuf
<1>2. PICK i \in 1..Len(buf) : buf[i] = "sub"
  BY <1>1 DEF ToSet
<1>3. buf # <<>>
  BY <1>1, <1>2, EmptySeq
<1>4. CASE i = 1
  BY <1>1, <1>2, <1>3, <1>4
<1>5. CASE i # 1
  <2>1. /\ Tail(buf) \in Seq(Msgs) /\ Len(Tail(buf)) = Len(buf) - 1
        /\ \A j \in 1..Len(Tail(buf)) : Tail(buf)[j] = buf[j + 1]
    BY <1>1, <1>3, HeadTailProperties
  <2>2. DOMAIN Tail(buf) = 1..(Len(buf) - 1)
    BY <2>1, LenProperties
  <2>3. i - 1 \in 1..(Len(buf) - 1) /\ Tail(buf)[i - 1] = "sub"
    <3>1. i - 1 \in 1..(Len(buf) - 1) /\ i - 1 + 1 = i
      BY <1>1, <1>2, <1>5
    <3> QED BY <3>1, <2>1, <1>2
  <2> QED BY <1>3, <2>2, <2>3 DEF ToSet
<1> QED BY <1>3, <1>4, <1>5

LEMMA SubscriptionInit == NewWs => SubscriptionOnItsWay
BY DEF NewWs, SubscriptionOnItsWay, Goroutines, Loops

LEMMA SubscriptionNext ==
  TypeOK /\ SubscriptionOnItsWay /\ [Next]_vars => SubscriptionOnItsWay'
<1> SUFFICES ASSUME TypeOK, SubscriptionOnItsWay, [Next]_vars PROVE SubscriptionOnItsWay'
  OBVIOUS
<1>0. TypeBuf /\ pc \in [Goroutines -> UNION {Places(g) : g \in Goroutines}] /\ current \in [Loops -> BOOLEAN]
  BY DEF TypeOK, TypePc, TypeData
<1>1. ASSUME DropConnection PROVE SubscriptionOnItsWay'
  BY <1>1 DEF SubscriptionOnItsWay, DropConnection
<1>2. ASSUME Subscribe PROVE SubscriptionOnItsWay'
  <2>1. Enqueue("sub") \/ SendOnClosed
    BY <1>2 DEF Subscribe
  <2>2. "sub" \in ToSet(buf') \/ chansClosed'
    BY <1>0, <2>1, QueuedAfterEnqueue DEF Msgs, SendOnClosed, queues
  <2> QED BY <2>2 DEF SubscriptionOnItsWay
<1>3. ASSUME NEW m \in unsent, SendMessage(m) PROVE SubscriptionOnItsWay'
  <2>1. ToSet(buf) \subseteq ToSet(buf')
    <3>1. (m \notin Control /\ Enqueue(m)) \/ UNCHANGED buf
      BY <1>3 DEF SendMessage
    <3> QED BY <1>0, <1>3, <3>1, QueuedAfterEnqueue DEF Msgs, TypeOK, TypeData
  <2> QED BY <1>3, <2>1
    DEF SubscriptionOnItsWay, SendMessage, Replacing, link, locals, rest
<1>4. ASSUME Close PROVE SubscriptionOnItsWay'
  BY <1>4 DEF SubscriptionOnItsWay, Close, IsChanClose
<1>5. ASSUME CallCloseWs PROVE SubscriptionOnItsWay'
  BY <1>0, <1>5
    DEF SubscriptionOnItsWay, Replacing, CallCloseWs, Goto, link, queues, locals,
        rest, Goroutines, Loops
<1>6. ASSUME NEW g \in Goroutines, CloseWs(g) PROVE SubscriptionOnItsWay'
  BY <1>6 DEF SubscriptionOnItsWay, CloseWs
<1>7. ASSUME NEW g \in Loops, EnterReconnect(g) PROVE SubscriptionOnItsWay'
  BY <1>0, <1>7
    DEF SubscriptionOnItsWay, Replacing, EnterReconnect, Moves, Goto, Home,
        IsChanClose, link, queues, locals, rest, Goroutines, Loops
<1>8. ASSUME NEW g \in Loops, Connect(g) PROVE SubscriptionOnItsWay'
  BY <1>0, <1>8
    DEF SubscriptionOnItsWay, Replacing, Connect, Goto, queues, locals, rest,
        Goroutines, Loops
<1>9. ASSUME NEW g \in Loops, ConnectFails(g) PROVE SubscriptionOnItsWay'
  BY <1>0, <1>9
    DEF SubscriptionOnItsWay, Replacing, ConnectFails, Goto, link, queues, rest,
        Goroutines, Loops
<1>10. ASSUME NEW g \in Loops, PostReconnectSuccessHook(g) PROVE SubscriptionOnItsWay'
  <2>1. Enqueue("sub") \/ SendOnClosed
    BY <1>10 DEF PostReconnectSuccessHook
  <2>2. "sub" \in ToSet(buf') \/ chansClosed'
    BY <1>0, <2>1, QueuedAfterEnqueue DEF Msgs, SendOnClosed, queues
  <2> QED BY <2>2 DEF SubscriptionOnItsWay
<1>11. ASSUME SetHandlers PROVE SubscriptionOnItsWay'
  BY <1>0, <1>11
    DEF SubscriptionOnItsWay, Replacing, SetHandlers, Goto, queues, locals, rest,
        Goroutines, Loops
<1>12. ASSUME ReaderLoop PROVE SubscriptionOnItsWay'
  BY <1>0, <1>12
    DEF SubscriptionOnItsWay, Replacing, ReaderLoop, Goto, locals, rest, Goroutines,
        Loops
<1>13. ASSUME ReadMessage PROVE SubscriptionOnItsWay'
  BY <1>0, <1>13
    DEF SubscriptionOnItsWay, Replacing, Working, ReadMessage, Moves, Goto, link,
        queues, locals, rest, Goroutines, Loops
<1>14. ASSUME ReadPing PROVE SubscriptionOnItsWay'
  BY <1>0, <1>14
    DEF SubscriptionOnItsWay, Replacing, Working, ReadPing, Goto, link, queues,
        locals, rest, Goroutines, Loops
<1>15. ASSUME SendPongMessage PROVE SubscriptionOnItsWay'
  BY <1>0, <1>15
    DEF SubscriptionOnItsWay, Replacing, SendPongMessage, SendOnClosed, Goto, link,
        queues, locals, rest, Goroutines, Loops
<1>16. ASSUME ReadFails PROVE SubscriptionOnItsWay'
  BY <1>0, <1>16
    DEF SubscriptionOnItsWay, Replacing, Working, ReadFails, Moves, Goto,
        AfterReadError, link, queues, locals, rest, Goroutines, Loops
<1>17. ASSUME ReadTimesOut PROVE SubscriptionOnItsWay'
  BY <1>0, <1>17
    DEF SubscriptionOnItsWay, Replacing, ReadTimesOut, Goto, AfterReadError, link,
        queues, locals, rest, Goroutines, Loops
<1>18. ASSUME SelectClose PROVE SubscriptionOnItsWay'
  BY <1>0, <1>18
    DEF SubscriptionOnItsWay, Replacing, SelectClose, Goto, link, locals, rest,
        Goroutines, Loops
<1>19. ASSUME SelectMessage PROVE SubscriptionOnItsWay'
  <2>1. "sub" \in ToSet(buf) => carried' = "sub" \/ "sub" \in ToSet(buf')
    BY <1>0, <1>19, QueuedAfterTail DEF SelectMessage, IsChanClose
  <2> QED BY <1>0, <1>19, <2>1
    DEF SubscriptionOnItsWay, SelectMessage, Replacing, Goto, link, rest, Goroutines,
        Loops
<1>20. ASSUME NEW c \in Control, SelectControl(c) PROVE SubscriptionOnItsWay'
  BY <1>0, <1>20
    DEF SubscriptionOnItsWay, Replacing, SelectControl, Goto, link, rest, Goroutines,
        Loops
<1>21. ASSUME SelectTimer PROVE SubscriptionOnItsWay'
  BY <1>0, <1>21
    DEF SubscriptionOnItsWay, Replacing, SelectTimer, Goto, link, queues, rest,
        Goroutines, Loops
<1>22. ASSUME LoadConn PROVE SubscriptionOnItsWay'
  BY <1>0, <1>22
    DEF SubscriptionOnItsWay, Replacing, LoadConn, Goto, queues, locals, rest,
        Goroutines, Loops
<1>23. ASSUME WriteMessage PROVE SubscriptionOnItsWay'
  BY <1>0, <1>23
    DEF SubscriptionOnItsWay, Replacing, WriteMessage, Goto, queues, rest, Goroutines,
        Loops
<1>24. ASSUME WriteFails PROVE SubscriptionOnItsWay'
  BY <1>0, <1>24
    DEF SubscriptionOnItsWay, Replacing, Working, WriteFails, Goto, link, queues,
        rest, Goroutines, Loops
<1>25. CASE UNCHANGED vars
  BY <1>25
    DEF SubscriptionOnItsWay, Replacing, vars, link, queues, locals, todo, budget,
        rest
<1> QED
  BY <1>1, <1>2, <1>3, <1>4, <1>5, <1>6, <1>7, <1>8, <1>9, <1>10, <1>11, <1>12, <1>13,
     <1>14, <1>15, <1>16, <1>17, <1>18, <1>19, <1>20, <1>21, <1>22, <1>23, <1>24, <1>25
    DEF Next, Owner, ReceiveMessage, WriteRequest, Reconnect

(***************************************************************************)
(* A connection that is up is never left without its subscription, for     *)
(* every number of drops, messages and configurations.                     *)
(***************************************************************************)
THEOREM WsSubscribesAgain == Spec => []SubscriptionOnItsWay
<1>1. NewWs => SubscriptionOnItsWay BY SubscriptionInit
<1>2. TypeOK /\ SubscriptionOnItsWay /\ [Next]_vars => SubscriptionOnItsWay' BY SubscriptionNext
<1>3. Spec => []TypeOK BY WsTypeCorrect
<1> QED BY <1>1, <1>2, <1>3, PTL DEF Spec

----------------------------------------------------------------------------
(* As long as nobody has called CloseWs, and only its caller gets past the  *)
(* lock, the channels are open.                                            *)
ChansOpen == ~chansClosed /\ ~panicked /\ pc["owner"] # "closeWs"

LEMMA OpenNext ==
  ASSUME "CloseWs" \notin UNION OwnerCloses
  PROVE  TypeOK /\ ChansOpen /\ [Next]_vars => ChansOpen'
<1> SUFFICES ASSUME TypeOK, ChansOpen, [Next]_vars PROVE ChansOpen'
  OBVIOUS
<1>0. /\ pc \in [Goroutines -> UNION {Places(g) : g \in Goroutines}]
      /\ closes \subseteq UNION OwnerCloses
      /\ \A g \in Loops : pc[g] = "closeWs" => lock = g
  BY DEF TypeOK, TypePc, TypeData, LockFollowsHolder
<1>1. ASSUME DropConnection PROVE ChansOpen'
  BY <1>0, <1>1 DEF ChansOpen, DropConnection, queues, rest, Goroutines, Loops
<1>2. ASSUME Subscribe PROVE ChansOpen'
  BY <1>0, <1>2 DEF ChansOpen, Subscribe, Goto, rest, Goroutines, Loops
<1>3. ASSUME NEW m \in unsent, SendMessage(m) PROVE ChansOpen'
  BY <1>0, <1>3 DEF ChansOpen, SendMessage, rest, Goroutines, Loops
<1>4. ASSUME Close PROVE ChansOpen'
  BY <1>0, <1>4 DEF ChansOpen, Close, rest, Goroutines, Loops
<1>5. ASSUME CallCloseWs PROVE ChansOpen'
  BY <1>0, <1>5 DEF ChansOpen, CallCloseWs, Goto, queues, rest, Goroutines, Loops
<1>6. ASSUME NEW g \in Goroutines, CloseWs(g) PROVE ChansOpen'
  BY <1>0, <1>6 DEF ChansOpen, CloseWs, Goto, rest, Goroutines, Loops
<1>7. ASSUME NEW g \in Loops, EnterReconnect(g) PROVE ChansOpen'
  BY <1>0, <1>7
    DEF ChansOpen, EnterReconnect, Moves, Goto, queues, rest, Goroutines, Loops
<1>8. ASSUME NEW g \in Loops, Connect(g) PROVE ChansOpen'
  BY <1>0, <1>8 DEF ChansOpen, Connect, Goto, queues, rest, Goroutines, Loops
<1>9. ASSUME NEW g \in Loops, ConnectFails(g) PROVE ChansOpen'
  BY <1>0, <1>9 DEF ChansOpen, ConnectFails, Goto, queues, rest, Goroutines, Loops
<1>10. ASSUME NEW g \in Loops, PostReconnectSuccessHook(g) PROVE ChansOpen'
  BY <1>0, <1>10
    DEF ChansOpen, PostReconnectSuccessHook, SendOnClosed, Goto, queues, rest,
        Goroutines, Loops
<1>11. ASSUME SetHandlers PROVE ChansOpen'
  BY <1>0, <1>11 DEF ChansOpen, SetHandlers, Goto, queues, rest, Goroutines, Loops
<1>12. ASSUME ReaderLoop PROVE ChansOpen'
  BY <1>0, <1>12 DEF ChansOpen, ReaderLoop, Goto, rest, Goroutines, Loops
<1>13. ASSUME ReadMessage PROVE ChansOpen'
  BY <1>0, <1>13
    DEF ChansOpen, ReadMessage, Moves, Goto, queues, rest, Goroutines, Loops
<1>14. ASSUME ReadPing PROVE ChansOpen'
  BY <1>0, <1>14 DEF ChansOpen, ReadPing, Goto, queues, rest, Goroutines, Loops
<1>15. ASSUME SendPongMessage PROVE ChansOpen'
  BY <1>0, <1>15
    DEF ChansOpen, SendPongMessage, SendOnClosed, Goto, queues, rest, Goroutines,
        Loops
<1>16. ASSUME ReadFails PROVE ChansOpen'
  BY <1>0, <1>16 DEF ChansOpen, ReadFails, Moves, Goto, queues, rest, Goroutines, Loops
<1>17. ASSUME ReadTimesOut PROVE ChansOpen'
  BY <1>0, <1>17 DEF ChansOpen, ReadTimesOut, Goto, queues, rest, Goroutines, Loops
<1>18. ASSUME SelectClose PROVE ChansOpen'
  BY <1>0, <1>18 DEF ChansOpen, SelectClose, Goto, rest, Goroutines, Loops
<1>19. ASSUME SelectMessage PROVE ChansOpen'
  BY <1>0, <1>19 DEF ChansOpen, SelectMessage, Goto, rest, Goroutines, Loops
<1>20. ASSUME NEW c \in Control, SelectControl(c) PROVE ChansOpen'
  BY <1>0, <1>20 DEF ChansOpen, SelectControl, Goto, rest, Goroutines, Loops
<1>21. ASSUME SelectTimer PROVE ChansOpen'
  BY <1>0, <1>21 DEF ChansOpen, SelectTimer, Goto, queues, rest, Goroutines, Loops
<1>22. ASSUME LoadConn PROVE ChansOpen'
  BY <1>0, <1>22 DEF ChansOpen, LoadConn, Goto, queues, rest, Goroutines, Loops
<1>23. ASSUME WriteMessage PROVE ChansOpen'
  BY <1>0, <1>23 DEF ChansOpen, WriteMessage, Goto, queues, rest, Goroutines, Loops
<1>24. ASSUME WriteFails PROVE ChansOpen'
  BY <1>0, <1>24 DEF ChansOpen, WriteFails, Goto, queues, rest, Goroutines, Loops
<1>25. CASE UNCHANGED vars
  BY <1>25 DEF ChansOpen, vars, queues, rest
<1> QED
  BY <1>1, <1>2, <1>3, <1>4, <1>5, <1>6, <1>7, <1>8, <1>9, <1>10, <1>11, <1>12, <1>13,
     <1>14, <1>15, <1>16, <1>17, <1>18, <1>19, <1>20, <1>21, <1>22, <1>23, <1>24, <1>25
    DEF Next, Owner, ReceiveMessage, WriteRequest, Reconnect

(***************************************************************************)
(* The panic that closing can end in is CloseWs's alone: without a call of *)
(* it no goroutine ever sends on a closed channel, however often dials     *)
(* fail and connections are closed.                                        *)
(***************************************************************************)
THEOREM WsCleanWithoutCloseWs ==
  ASSUME "CloseWs" \notin UNION OwnerCloses
  PROVE  Spec => []CloseIsClean
<1>1. NewWs => ChansOpen
  BY DEF NewWs, ChansOpen, Goroutines, Loops
<1>2. TypeOK /\ ChansOpen /\ [Next]_vars => ChansOpen' BY OpenNext
<1>3. Spec => []TypeOK BY WsTypeCorrect
<1>4. ChansOpen => CloseIsClean BY DEF ChansOpen, CloseIsClean
<1> QED BY <1>1, <1>2, <1>3, <1>4, PTL DEF Spec

(* g has given up: it waits, in CloseWs, for the lock that it holds. *)
GaveUp(g) == pc[g] = "closeWs"

LEMMA GaveUpNext ==
  ASSUME TypeOK, [Next]_vars, NEW h \in Loops, GaveUp(h)
  PROVE  GaveUp(h)' /\ lock' = h
<1>0. /\ pc \in [Goroutines -> UNION {Places(g) : g \in Goroutines}] /\ h \in Goroutines
      /\ lock = h /\ pc[h] = "closeWs" /\ h # "owner" /\ h # "free"
      /\ \A g \in Loops : (lock = g) <=> pc[g] \in {"dial", "hook", "closeWs"}
  BY DEF TypeOK, TypePc, LockFollowsHolder, GaveUp, Goroutines, Loops
<1>1. ASSUME DropConnection PROVE GaveUp(h)' /\ lock' = h
  BY <1>0, <1>1 DEF GaveUp, DropConnection, Goroutines, Loops
<1>2. ASSUME Subscribe PROVE GaveUp(h)' /\ lock' = h
  BY <1>0, <1>2 DEF GaveUp, Subscribe, Goto, Goroutines, Loops
<1>3. ASSUME NEW m \in unsent, SendMessage(m) PROVE GaveUp(h)' /\ lock' = h
  BY <1>0, <1>3 DEF GaveUp, SendMessage, Goroutines, Loops
<1>4. ASSUME Close PROVE GaveUp(h)' /\ lock' = h
  BY <1>0, <1>4 DEF GaveUp, Close, Goroutines, Loops
<1>5. ASSUME CallCloseWs PROVE GaveUp(h)' /\ lock' = h
  BY <1>0, <1>5 DEF GaveUp, CallCloseWs, Goto, Goroutines, Loops
<1>6. ASSUME NEW g \in Goroutines, CloseWs(g) PROVE GaveUp(h)' /\ lock' = h
  BY <1>0, <1>6 DEF GaveUp, CloseWs, Goto, Goroutines, Loops
<1>7. ASSUME NEW g \in Loops, EnterReconnect(g) PROVE GaveUp(h)' /\ lock' = h
  BY <1>0, <1>7 DEF GaveUp, EnterReconnect, Moves, Goto, Goroutines, Loops
<1>8. ASSUME NEW g \in Loops, Connect(g) PROVE GaveUp(h)' /\ lock' = h
  BY <1>0, <1>8 DEF GaveUp, Connect, Goto, Goroutines, Loops
<1>9. ASSUME NEW g \in Loops, ConnectFails(g) PROVE GaveUp(h)' /\ lock' = h
  BY <1>0, <1>9 DEF GaveUp, ConnectFails, Goto, Goroutines, Loops
<1>10. ASSUME NEW g \in Loops, PostReconnectSuccessHook(g) PROVE GaveUp(h)' /\ lock' = h
  BY <1>0, <1>10
    DEF GaveUp, PostReconnectSuccessHook, SendOnClosed, Goto, Goroutines, Loops
<1>11. ASSUME SetHandlers PROVE GaveUp(h)' /\ lock' = h
  BY <1>0, <1>11 DEF GaveUp, SetHandlers, Goto, Goroutines, Loops
<1>12. ASSUME ReaderLoop PROVE GaveUp(h)' /\ lock' = h
  BY <1>0, <1>12 DEF GaveUp, ReaderLoop, Goto, Goroutines, Loops
<1>13. ASSUME ReadMessage PROVE GaveUp(h)' /\ lock' = h
  BY <1>0, <1>13 DEF GaveUp, ReadMessage, Moves, Goto, Goroutines, Loops
<1>14. ASSUME ReadPing PROVE GaveUp(h)' /\ lock' = h
  BY <1>0, <1>14 DEF GaveUp, ReadPing, Goto, Goroutines, Loops
<1>15. ASSUME SendPongMessage PROVE GaveUp(h)' /\ lock' = h
  BY <1>0, <1>15 DEF GaveUp, SendPongMessage, SendOnClosed, Goto, Goroutines, Loops
<1>16. ASSUME ReadFails PROVE GaveUp(h)' /\ lock' = h
  BY <1>0, <1>16 DEF GaveUp, ReadFails, Moves, Goto, Goroutines, Loops
<1>17. ASSUME ReadTimesOut PROVE GaveUp(h)' /\ lock' = h
  BY <1>0, <1>17 DEF GaveUp, ReadTimesOut, Goto, Goroutines, Loops
<1>18. ASSUME SelectClose PROVE GaveUp(h)' /\ lock' = h
  BY <1>0, <1>18 DEF GaveUp, SelectClose, Goto, Goroutines, Loops
<1>19. ASSUME SelectMessage PROVE GaveUp(h)' /\ lock' = h
  BY <1>0, <1>19 DEF GaveUp, SelectMessage, Goto, Goroutines, Loops
<1>20. ASSUME NEW c \in Control, SelectControl(c) PROVE GaveUp(h)' /\ lock' = h
  BY <1>0, <1>20 DEF GaveUp, SelectControl, Goto, Goroutines, Loops
<1>21. ASSUME SelectTimer PROVE GaveUp(h)' /\ lock' = h
  BY <1>0, <1>21 DEF GaveUp, SelectTimer, Goto, Goroutines, Loops
<1>22. ASSUME LoadConn PROVE GaveUp(h)' /\ lock' = h
  BY <1>0, <1>22 DEF GaveUp, LoadConn, Goto, Goroutines, Loops
<1>23. ASSUME WriteMessage PROVE GaveUp(h)' /\ lock' = h
  BY <1>0, <1>23 DEF GaveUp, WriteMessage, Goto, Goroutines, Loops
<1>24. ASSUME WriteFails PROVE GaveUp(h)' /\ lock' = h
  BY <1>0, <1>24 DEF GaveUp, WriteFails, Goto, Goroutines, Loops
<1>25. CASE UNCHANGED vars
  BY <1>0, <1>25 DEF GaveUp, vars
<1> QED
  BY <1>1, <1>2, <1>3, <1>4, <1>5, <1>6, <1>7, <1>8, <1>9, <1>10, <1>11, <1>12, <1>13,
     <1>14, <1>15, <1>16, <1>17, <1>18, <1>19, <1>20, <1>21, <1>22, <1>23, <1>24, <1>25
    DEF Next, Owner, ReceiveMessage, WriteRequest, Reconnect

(***************************************************************************)
(* A goroutine whose hundred dials have failed never leaves CloseWs, and   *)
(* keeps the lock for ever: CloseWs locks the mutex that Reconnect, its    *)
(* caller, holds (websocket.go:249, 274, 478).  So nobody exits.           *)
(***************************************************************************)
THEOREM WsGivingUpIsForEver ==
  Spec => [][\A g \in Loops : GaveUp(g) => GaveUp(g)' /\ lock' = g]_vars
<1>1. TypeOK /\ [Next]_vars => [\A g \in Loops : GaveUp(g) => GaveUp(g)' /\ lock' = g]_vars
  BY GaveUpNext
<1>2. Spec => []TypeOK BY WsTypeCorrect
<1> QED BY <1>1, <1>2, PTL DEF Spec

----------------------------------------------------------------------------
(* What fills the queue: the owner's subscription, its messages, and one   *)
(* subscription per Reconnect, which has taken a message away before.      *)

Starting == pc["owner"] = "start"

Quiet == UNCHANGED <<unsent, lock>> /\ Starting' = Starting

QueueStep ==
  \/ Quiet /\ (buf' = buf \/ buf' = AfterIsChanClose)
  \/ Starting /\ ~Starting' /\ buf' = Append(buf, "sub") /\ UNCHANGED <<unsent, lock>>
  \/ /\ \E m \in unsent : /\ unsent' = unsent \ {m}
                          /\ \/ m \notin Control /\ buf' = Append(buf, m)
                             \/ m \in Control /\ buf' = buf
     /\ UNCHANGED lock /\ Starting' = Starting
  \/ /\ lock = "free" /\ lock' # "free" /\ buf' = AfterIsChanClose
     /\ UNCHANGED unsent /\ Starting' = Starting
  \/ /\ lock # "free" /\ lock' = "free" /\ buf' = Append(buf, "sub")
     /\ UNCHANGED unsent /\ Starting' = Starting

LEMMA QueueSteps == TypeOK /\ [Next]_vars => QueueStep
<1> SUFFICES ASSUME TypeOK, [Next]_vars PROVE QueueStep
  OBVIOUS
<1>0. /\ pc \in [Goroutines -> UNION {Places(g) : g \in Goroutines}]
      /\ \A g \in Loops : pc[g] = "hook" => lock = g
  BY DEF TypeOK, TypePc, LockFollowsHolder
<1>1. ASSUME DropConnection PROVE QueueStep
  BY <1>0, <1>1 DEF QueueStep, Quiet, Starting, DropConnection, queues, todo, Goroutines, Loops
<1>2. ASSUME Subscribe PROVE QueueStep
  BY <1>0, <1>2 DEF QueueStep, Quiet, Starting, Subscribe, Enqueue, Goto, todo, Goroutines, Loops
<1>3. ASSUME NEW m \in unsent, SendMessage(m) PROVE QueueStep
  BY <1>0, <1>3 DEF QueueStep, Quiet, Starting, SendMessage, Enqueue, Goroutines, Loops
<1>4. ASSUME Close PROVE QueueStep
  BY <1>0, <1>4 DEF QueueStep, Quiet, Starting, Close, Goroutines, Loops
<1>5. ASSUME CallCloseWs PROVE QueueStep
  BY <1>0, <1>5 DEF QueueStep, Quiet, Starting, CallCloseWs, Goto, queues, Goroutines, Loops
<1>6. ASSUME NEW g \in Goroutines, CloseWs(g) PROVE QueueStep
  BY <1>0, <1>6 DEF QueueStep, Quiet, Starting, CloseWs, Goto, todo, Goroutines, Loops
<1>7. ASSUME NEW g \in Loops, EnterReconnect(g) PROVE QueueStep
  BY <1>0, <1>7 DEF QueueStep, Quiet, Starting, EnterReconnect, Moves, Goto, queues, todo, Goroutines, Loops
<1>8. ASSUME NEW g \in Loops, Connect(g) PROVE QueueStep
  BY <1>0, <1>8 DEF QueueStep, Quiet, Starting, Connect, Goto, queues, todo, Goroutines, Loops
<1>9. ASSUME NEW g \in Loops, ConnectFails(g) PROVE QueueStep
  BY <1>0, <1>9 DEF QueueStep, Quiet, Starting, ConnectFails, Goto, queues, todo, Goroutines, Loops
<1>10. ASSUME NEW g \in Loops, PostReconnectSuccessHook(g) PROVE QueueStep
  BY <1>0, <1>10 DEF QueueStep, Quiet, Starting, PostReconnectSuccessHook, SendOnClosed, Enqueue, Goto, queues, todo, Goroutines, Loops
<1>11. ASSUME SetHandlers \/ ReaderLoop \/ ReadMessage \/ ReadPing PROVE QueueStep
  BY <1>0, <1>11 DEF QueueStep, Quiet, Starting, SetHandlers, ReaderLoop, ReadMessage, ReadPing, Moves, Goto, queues, todo, Goroutines, Loops
<1>12. ASSUME SendPongMessage \/ ReadFails \/ ReadTimesOut PROVE QueueStep
  BY <1>0, <1>12 DEF QueueStep, Quiet, Starting, SendPongMessage, SendOnClosed, ReadFails, ReadTimesOut, Moves, Goto, queues, todo, Goroutines, Loops
<1>13. ASSUME SelectClose PROVE QueueStep
  BY <1>0, <1>13 DEF QueueStep, Quiet, Starting, SelectClose, Goto, todo, Goroutines, Loops
<1>14. ASSUME SelectMessage PROVE QueueStep
  BY <1>0, <1>14 DEF QueueStep, Quiet, Starting, SelectMessage, AfterIsChanClose, Goto, todo, Goroutines, Loops
<1>15. ASSUME NEW c \in Control, SelectControl(c) PROVE QueueStep
  BY <1>0, <1>15 DEF QueueStep, Quiet, Starting, SelectControl, Goto, todo, Goroutines, Loops
<1>16. ASSUME SelectTimer PROVE QueueStep
  BY <1>0, <1>16 DEF QueueStep, Quiet, Starting, SelectTimer, Goto, queues, todo, Goroutines, Loops
<1>17. ASSUME LoadConn \/ WriteMessage \/ WriteFails PROVE QueueStep
  BY <1>0, <1>17 DEF QueueStep, Quiet, Starting, LoadConn, WriteMessage, WriteFails, Goto, queues, todo, Goroutines, Loops
<1>18. ASSUME UNCHANGED vars PROVE QueueStep
  BY <1>0, <1>18 DEF QueueStep, Quiet, Starting, vars, queues, todo, Goroutines, Loops
<1> QED
  BY <1>1, <1>2, <1>3, <1>4, <1>5, <1>6, <1>7, <1>8, <1>9, <1>10, <1>11, <1>12, <1>13, <1>14, <1>15, <1>16, <1>17, <1>18
    DEF Next, Owner, ReceiveMessage, WriteRequest, Reconnect

(* The messages that are queued, or that somebody has yet to queue: whoever *)
(* holds the lock owes one subscription.                                    *)
QueueInv ==
  Len(buf) + Cardinality(unsent \ Control) + (IF Starting THEN 1 ELSE 0)
    + (IF lock = "free" THEN 0 ELSE 1) <= Cardinality(OtherMsgs \ Control) + 2

LEMMA QueueNext ==
  ASSUME IsFiniteSet(OtherMsgs), TypeOK, QueueInv, [Next]_vars
  PROVE  QueueInv'
<1> DEFINE waiting == Cardinality(unsent \ Control)
           all == Cardinality(OtherMsgs \ Control)
           starting == IF Starting THEN 1 ELSE 0
           owed == IF lock = "free" THEN 0 ELSE 1
<1>1. buf \in Seq(Msgs) /\ Len(buf) \in Nat /\ unsent \subseteq OtherMsgs
  BY LenProperties DEF TypeOK, TypeBuf, TypeData
<1>2. /\ IsFiniteSet(unsent \ Control) /\ waiting \in Nat /\ all \in Nat /\ waiting <= all
  <2>1. IsFiniteSet(OtherMsgs \ Control) /\ unsent \ Control \in SUBSET (OtherMsgs \ Control)
    BY <1>1, FS_Difference
  <2> QED BY <2>1, FS_Subset, FS_CardinalityType
<1>3. \/ buf = <<>> /\ AfterIsChanClose = <<>> /\ Len(buf) = 0
      \/ Len(buf) > 0 /\ Len(AfterIsChanClose) = Len(buf) - 1
  BY <1>1, HeadTailProperties, EmptySeq DEF AfterIsChanClose
<1>4. \A m : Len(Append(buf, m)) = Len(buf) + 1
  BY <1>1
<1>5. Len(buf) + waiting + starting + owed <= all + 2
  BY DEF QueueInv
<1>6. ASSUME UNCHANGED unsent PROVE waiting' = waiting
  BY <1>6
<1>7. starting \in {0, 1} /\ owed \in {0, 1}
  OBVIOUS
<1> SUFFICES Len(buf') + waiting' + starting' + owed' <= all + 2
  BY DEF QueueInv
<1>8. CASE Quiet /\ (buf' = buf \/ buf' = AfterIsChanClose)
  <2>1. waiting' = waiting /\ starting' = starting /\ owed' = owed /\ Len(buf') <= Len(buf) /\ Len(buf') \in Nat
    BY <1>1, <1>3, <1>6, <1>8 DEF Quiet
  <2> HIDE DEF waiting, all, starting, owed
  <2> QED BY <1>1, <1>2, <1>5, <1>7, <2>1
<1>9. CASE Starting /\ ~Starting' /\ buf' = Append(buf, "sub") /\ UNCHANGED <<unsent, lock>>
  <2>1. waiting' = waiting /\ starting = 1 /\ starting' = 0 /\ owed' = owed /\ Len(buf') = Len(buf) + 1
    BY <1>4, <1>6, <1>9
  <2> HIDE DEF waiting, all, starting, owed
  <2> QED BY <1>1, <1>2, <1>5, <1>7, <2>1
<1>10. ASSUME NEW m \in unsent, unsent' = unsent \ {m}, UNCHANGED lock, Starting' = Starting,
              (m \notin Control /\ buf' = Append(buf, m)) \/ (m \in Control /\ buf' = buf)
       PROVE  Len(buf') + waiting' + starting' + owed' <= all + 2
  <2>1. starting' = starting /\ owed' = owed
    BY <1>10
  <2>2. CASE m \notin Control /\ buf' = Append(buf, m)
    <3>1. unsent' \ Control = (unsent \ Control) \ {m} /\ m \in unsent \ Control
      BY <1>10, <2>2
    <3>2. waiting' = waiting - 1
      BY <1>2, <3>1, FS_RemoveElement
    <3>3. Len(buf') = Len(buf) + 1
      BY <1>4, <2>2
    <3> HIDE DEF waiting, all, starting, owed
    <3> QED BY <1>1, <1>2, <1>5, <1>7, <2>1, <3>2, <3>3
  <2>3. CASE m \in Control /\ buf' = buf
    <3>1. unsent' \ Control = unsent \ Control
      BY <1>10, <2>3
    <3>2. waiting' = waiting
      BY <3>1
    <3> HIDE DEF waiting, all, starting, owed
    <3> QED BY <1>5, <2>1, <2>3, <3>2
  <2> QED BY <1>10, <2>2, <2>3
<1>11. CASE /\ lock = "free" /\ lock' # "free" /\ buf' = AfterIsChanClose
            /\ UNCHANGED unsent /\ Starting' = Starting
  <2>1. waiting' = waiting /\ starting' = starting /\ owed = 0 /\ owed' = 1
    BY <1>6, <1>11
  <2>2. \/ Len(buf) = 0 /\ Len(buf') = 0
        \/ Len(buf) > 0 /\ Len(buf') = Len(buf) - 1
    BY <1>3, <1>11
  <2> HIDE DEF waiting, all, starting, owed
  <2> QED BY <1>1, <1>2, <1>5, <1>7, <2>1, <2>2
<1>12. CASE /\ lock # "free" /\ lock' = "free" /\ buf' = Append(buf, "sub")
            /\ UNCHANGED unsent /\ Starting' = Starting
  <2>1. waiting' = waiting /\ starting' = starting /\ owed = 1 /\ owed' = 0 /\ Len(buf') = Len(buf) + 1
    BY <1>4, <1>6, <1>12
  <2> HIDE DEF waiting, all, starting, owed
  <2> QED BY <1>1, <1>2, <1>5, <1>7, <2>1
<1> QED BY <1>8, <1>9, <1>10, <1>11, <1>12, QueueSteps DEF QueueStep

(***************************************************************************)
(* If the write channel has room for the owner's messages and two more,    *)
(* the hook never waits while it holds the lock, however often reader and  *)
(* writer reconnect: each Reconnect has taken a message away before it     *)
(* queues one (websocket.go:248-302, 468-475).                             *)
(***************************************************************************)
THEOREM WsHookHasRoom ==
  ASSUME IsFiniteSet(OtherMsgs), Cardinality(OtherMsgs \ Control) + 2 <= BufCap
  PROVE  Spec => []HookHasRoom
<1>1. IsFiniteSet(OtherMsgs \ Control) /\ Cardinality(OtherMsgs \ Control) \in Nat
  BY FS_Difference, FS_CardinalityType
<1>2. NewWs => QueueInv
  BY <1>1 DEF NewWs, QueueInv, Starting, Goroutines, Loops
<1>3. TypeOK /\ QueueInv /\ [Next]_vars => QueueInv'
  BY QueueNext
<1>4. TypeOK /\ QueueInv => HookHasRoom
  <2> SUFFICES ASSUME TypeOK, QueueInv, NEW g \in Loops, pc[g] = "hook" PROVE Len(buf) < BufCap
    BY DEF HookHasRoom
  <2>1. lock # "free" /\ Len(buf) \in Nat /\ BufCap \in Nat /\ unsent \subseteq OtherMsgs
    BY LenProperties, WsConnAssumption DEF TypeOK, LockFollowsHolder, TypeBuf, TypeData, Loops
  <2>2. Cardinality(unsent \ Control) \in Nat
    <3>1. unsent \ Control \in SUBSET (OtherMsgs \ Control)
      BY <2>1
    <3> QED BY <1>1, <3>1, FS_Subset, FS_CardinalityType
  <2> QED BY <1>1, <2>1, <2>2 DEF QueueInv
<1>5. Spec => []TypeOK BY WsTypeCorrect
<1> QED BY <1>2, <1>3, <1>4, <1>5, PTL DEF Spec
=============================================================================
