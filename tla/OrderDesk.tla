------------------------------ MODULE OrderDesk ------------------------------
(***************************************************************************)
(* What one chain's executor promises, with nothing said of goroutines,    *)
(* panics, RPC calls or subscriptions: signals are accepted one by one;    *)
(* each competitor transaction is answered by at most one order; and an    *)
(* order is always built from one of the last Window accepted signals.     *)
(* NodeMgr is shown to implement this specification.                       *)
(***************************************************************************)
EXTENDS Integers, Sequences

CONSTANTS Txs,          \* the transactions of the chain's mempool
          SignalMsgs,   \* the trading signals
          Window        \* how far back an order's signal may lie

VARIABLES accepted,     \* the signals accepted, oldest first
          published     \* the orders published, oldest first

Order == [tx : Txs, signal : SignalMsgs]

Recent == {accepted[i] : i \in {k \in 1..Len(accepted) : k > Len(accepted) - Window}}

Answered == {published[i].tx : i \in 1..Len(published)}

Init == /\ accepted = <<>>
        /\ published = <<>>

Accept(s) == /\ accepted' = Append(accepted, s)
             /\ UNCHANGED published

Publish(o) == /\ o.signal \in Recent
              /\ o.tx \notin Answered
              /\ published' = Append(published, o)
              /\ UNCHANGED accepted

Next == \/ \E s \in SignalMsgs : Accept(s)
        \/ \E o \in Order : Publish(o)

Spec == Init /\ [][Next]_<<accepted, published>>
=============================================================================
