----------------------------- MODULE CallDecoder -----------------------------
(***************************************************************************)
(* CallClientDecoder.DecodeToSymbol (node_mgr.go:415-489) step by step: a  *)
(* goroutine that traces the transaction, one that asks for its receipt,   *)
(* and the caller, who waits for both behind a WaitGroup and then reads    *)
(* the two variables they share with it.                                   *)
(*                                                                         *)
(* Either RPC call succeeds, fails, or never answers: the code sets no     *)
(* timeout.  Meanwhile the transaction may be mined.                       *)
(***************************************************************************)
EXTENDS Decoders

CONSTANTS Calls,              \* the calls that transactions make
          NotYet,             \* no outcome yet
          Answering,          \* the calls that the endpoint is sure to answer
          AllAddresses(_),    \* the walk through a call tree, as CallTrees has it
          EntryOrder(_)       \* what the walk should list

ASSUME CallDecoderAssumption == Answering \subseteq {"trace", "receipt"}

VARIABLES
  call,            \* what the transaction in hand calls
  mined,           \* it is on chain
  pc,              \* where the caller and the two goroutines are
  wg,              \* the counter of the WaitGroup
  addresses, alreadyOnChain,   \* the variables that the goroutines assign
  outcome,         \* what the caller returned
  minedBefore,     \* ghost: it was on chain when the decoder was called
  receiptFailed    \* ghost: the receipt call failed on the way

vars == <<call, mined, pc, wg, addresses, alreadyOnChain, outcome, minedBefore, receiptFailed>>
ghosts == <<minedBefore, receiptFailed>>

RPCs == {"trace", "receipt"}

Goto(g, place) == pc' = [pc EXCEPT ![g] = place]

Init ==
  /\ call \in Calls
  /\ mined \in BOOLEAN
  /\ pc = [g \in RPCs \cup {"caller"} |-> "start"]
  /\ wg = 0
  /\ addresses = <<>> /\ alreadyOnChain = TRUE
  /\ outcome = NotYet
  /\ minedBefore = mined /\ receiptFailed = FALSE

(* The chain goes on while the calls are under way. *)
GetMined ==
  /\ ~mined /\ mined' = TRUE
  /\ UNCHANGED <<call, pc, wg, addresses, alreadyOnChain, outcome, ghosts>>

(* Mutant: the caller waits for one goroutine only. *)
SpawnOne ==
  /\ pc["caller"] = "start"
  /\ wg' = 1
  /\ pc' = [pc EXCEPT !["caller"] = "wait", !["trace"] = "call", !["receipt"] = "call"]
  /\ UNCHANGED <<call, mined, addresses, alreadyOnChain, outcome, ghosts>>

Spawn ==
  /\ pc["caller"] = "start"
  /\ wg' = 2
  /\ pc' = [pc EXCEPT !["caller"] = "wait", !["trace"] = "call", !["receipt"] = "call"]
  /\ UNCHANGED <<call, mined, addresses, alreadyOnChain, outcome, ghosts>>

(* debug_traceCall fails, or its result is no CallsRes: addresses stays nil. *)
TraceFails ==
  /\ pc["trace"] = "call"
  /\ Goto("trace", "done")
  /\ UNCHANGED <<call, mined, wg, addresses, alreadyOnChain, outcome, ghosts>>

TraceAnswers ==
  /\ pc["trace"] = "call"
  /\ addresses' = AllAddresses(<<call>>)
  /\ Goto("trace", "done")
  /\ UNCHANGED <<call, mined, wg, alreadyOnChain, outcome, ghosts>>

(* There is a receipt: alreadyOnChain keeps its first value, which is true. *)
ReceiptFound ==
  /\ pc["receipt"] = "call" /\ mined
  /\ Goto("receipt", "done")
  /\ UNCHANGED <<call, mined, wg, addresses, alreadyOnChain, outcome, ghosts>>

(* "Not found" is an error like any other one. *)
ReceiptError ==
  /\ pc["receipt"] = "call"
  /\ alreadyOnChain' = FALSE
  /\ receiptFailed' = mined
  /\ Goto("receipt", "done")
  /\ UNCHANGED <<call, mined, wg, addresses, outcome, minedBefore>>

(* Mutant: a goroutine that leaves early does not report to the WaitGroup. *)
DoneOnSuccess(g) ==
  /\ pc[g] = "done"
  /\ wg' = IF g = "trace" /\ addresses = <<>> THEN wg ELSE wg - 1
  /\ Goto(g, "gone")
  /\ UNCHANGED <<call, mined, addresses, alreadyOnChain, outcome, ghosts>>

(* The deferred wg.Done(). *)
Done(g) ==
  /\ pc[g] = "done"
  /\ wg' = wg - 1
  /\ Goto(g, "gone")
  /\ UNCHANGED <<call, mined, addresses, alreadyOnChain, outcome, ghosts>>

Return ==
  /\ pc["caller"] = "wait" /\ wg = 0
  /\ outcome' = [symbol |-> ClientSymbol(addresses, alreadyOnChain),
                 alreadyOnChain |-> alreadyOnChain]
  /\ Goto("caller", "returned")
  /\ UNCHANGED <<call, mined, wg, addresses, alreadyOnChain, ghosts>>

----------------------------------------------------------------------------
Answer(g) == IF g = "trace" THEN TraceFails \/ TraceAnswers
                            ELSE ReceiptFound \/ ReceiptError

Next == \/ GetMined \/ Spawn \/ Return
        \/ \E g \in RPCs : Answer(g) \/ Done(g)

Spec == Init /\ [][Next]_vars

(* Goroutines run; of the RPC calls only those of Answering are sure to return. *)
FairSpec == /\ Spec
            /\ WF_vars(Spawn) /\ WF_vars(Return)
            /\ \A g \in RPCs : WF_vars(Done(g))
            /\ \A g \in Answering : WF_vars(Answer(g))

----------------------------------------------------------------------------
(* Properties.                                                             *)

(***************************************************************************)
(* Types, and what the WaitGroup counts: the goroutines still at work.     *)
(***************************************************************************)
TypeOK ==
  /\ call \in Calls /\ mined \in BOOLEAN
  /\ \A g \in RPCs : pc[g] \in {"start", "call", "done", "gone"}
  /\ pc["caller"] \in {"start", "wait", "returned"}
  /\ wg = Cardinality({g \in RPCs : pc[g] \in {"call", "done"}})
  /\ addresses \in {<<>>, AllAddresses(<<call>>)}
  /\ alreadyOnChain \in BOOLEAN
  /\ minedBefore \in BOOLEAN /\ receiptFailed \in BOOLEAN

Step == INSTANCE DecodeStep

(***************************************************************************)
(* The two goroutines, the variables they share and the recursive walk     *)
(* through the call tree amount to one atomic step, a case of the action   *)
(* Decoded that NodeMgr takes (lines 433-489): its symbol is that of the   *)
(* first pair contract the transaction entered, and it says "on chain",    *)
(* which the shared variable says from the start, only of a transaction    *)
(* that is.                                                                *)
(***************************************************************************)
ImplementsDecodeStep == Step!Spec

(***************************************************************************)
(* A transaction that was on chain before the decoder was called is not    *)
(* taken for a rival, in whatever order the two calls answer, unless the   *)
(* receipt call itself fails (lines 433, 459-463, 471).                    *)
(***************************************************************************)
MinedIsNoRival ==
  outcome # NotYet /\ minedBefore /\ ~receiptFailed => outcome.symbol = NoSymbol

(***************************************************************************)
(* The decoder returns whenever both RPC calls answer, be it with errors   *)
(* (line 468): no path leaves the WaitGroup short of a Done.  A call that  *)
(* never answers keeps the caller waiting, for nothing limits it in time.  *)
(***************************************************************************)
ReturnsIfAnswered ==
  /\ RPCs \subseteq Answering => (pc["caller"] = "start" ~> outcome # NotYet)
  /\ [](outcome # NotYet => \A g \in RPCs : pc[g] = "gone")
=============================================================================
