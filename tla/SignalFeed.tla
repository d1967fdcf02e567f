----------------------------- MODULE SignalFeed -----------------------------
(***************************************************************************)
(* What the chains are promised of their trading signals: each takes those *)
(* that are sent to it, in the order they were sent, each once; any of     *)
(* them may be lost on the way.  Chains is shown to keep the promise.      *)
(***************************************************************************)
EXTENDS Sequences

CONSTANTS Keys,   \* the chains
          Own     \* chain -> signals that may be sent to it

VARIABLES sent,      \* by chain: its signals, oldest first
          waiting,   \* those on the way
          taken      \* those the chain took

Init == LET nothing == [c \in Keys |-> <<>>]
        IN sent = nothing /\ waiting = nothing /\ taken = nothing

Send(c, m) == /\ sent' = [sent EXCEPT ![c] = Append(@, m)]
              /\ waiting' \in {waiting, [waiting EXCEPT ![c] = Append(@, m)]}
              /\ UNCHANGED taken

Take(c) == /\ waiting[c] # <<>>
           /\ taken' = [taken EXCEPT ![c] = Append(@, Head(waiting[c]))]
           /\ waiting' = [waiting EXCEPT ![c] = Tail(@)]
           /\ UNCHANGED sent

Next == \E c \in Keys : (\E m \in Own[c] : Send(c, m)) \/ Take(c)

Spec == Init /\ [][Next]_<<sent, waiting, taken>>
=============================================================================
