----------------------------- MODULE DecodeStep -----------------------------
(***************************************************************************)
(* CallClientDecoder.DecodeToSymbol as its caller may think of it: nothing *)
(* happens but that the transaction may be mined, and then one outcome is  *)
(* there, made from this transaction's trace and its state on chain alone. *)
(* NodeMgr's action Decoded allows every such step; CallDecoder is shown   *)
(* to implement it.                                                        *)
(***************************************************************************)
EXTENDS Decoders

CONSTANTS Calls,            \* the calls that transactions make
          NotYet,           \* no outcome yet
          EntryOrder(_)     \* the addresses called, in the order the calls are entered

VARIABLES call,       \* what the transaction in hand calls
          mined,      \* it is on chain
          outcome

Init == call \in Calls /\ mined \in BOOLEAN /\ outcome = NotYet

GetMined == mined' = TRUE /\ UNCHANGED <<call, outcome>>

(* No transaction is said to be on chain that is not. *)
Return == /\ outcome = NotYet
          /\ outcome' \in {d \in DecodeOutcomes({EntryOrder(<<call>>)}) :
                            d.alreadyOnChain => mined}
          /\ UNCHANGED <<call, mined>>

Spec == Init /\ [][GetMined \/ Return]_<<call, mined, outcome>>
=============================================================================
