-------------------------- MODULE CallDecoderProofs --------------------------
(***************************************************************************)
(* Theorems about CallDecoder, for every set of calls, pair table and walk *)
(* through a call tree, and whatever the endpoint answers.                 *)
(***************************************************************************)
EXTENDS CallDecoder, FiniteSetTheorems, TLAPS

AtWork(p) == {g \in RPCs : p[g] \in {"call", "done"}}

(* The caller spawns both goroutines at once, and waits for both. *)
PhaseInv ==
  /\ pc \in [RPCs \cup {"caller"} -> {"start", "call", "done", "gone", "wait", "returned"}]
  /\ pc["caller"] = "start"    => \A g \in RPCs : pc[g] = "start"
  /\ pc["caller"] # "start"    => \A g \in RPCs : pc[g] # "start"
  /\ pc["caller"] = "returned" => \A g \in RPCs : pc[g] = "gone"
  /\ pc["caller"] # "returned" => outcome = NotYet

(* What was on chain stays there, only a failing receipt call hides it, and *)
(* once that call is over nothing else is taken for being there.            *)
MinedInv ==
  /\ pc["receipt"] \in {"done", "gone"} /\ alreadyOnChain => mined
  /\ minedBefore => mined
  /\ minedBefore /\ ~receiptFailed => alreadyOnChain
  /\ MinedIsNoRival

DecoderInv == TypeOK /\ PhaseInv /\ MinedInv

----------------------------------------------------------------------------
(* The number of goroutines at work is the sum over the two of them. *)
LEMMA CountAtWork ==
  ASSUME NEW p
  PROVE  Cardinality(AtWork(p)) = (IF p["trace"] \in {"call", "done"} THEN 1 ELSE 0)
                                  + (IF p["receipt"] \in {"call", "done"} THEN 1 ELSE 0)
<1>1. CASE "trace" \in AtWork(p) /\ "receipt" \in AtWork(p)
  <2>1. AtWork(p) = {"trace"} \cup {"receipt"}
    BY <1>1 DEF AtWork, RPCs
  <2>2. Cardinality({"trace"}) = 1 /\ IsFiniteSet({"trace"})
    BY FS_Singleton
  <2>3. Cardinality({"trace"} \cup {"receipt"}) = 2
    BY <2>2, FS_AddElement
  <2> QED BY <1>1, <2>1, <2>3 DEF AtWork
<1>2. CASE "trace" \in AtWork(p) /\ "receipt" \notin AtWork(p)
  <2>1. AtWork(p) = {"trace"}
    BY <1>2 DEF AtWork, RPCs
  <2> QED BY <1>2, <2>1, FS_Singleton DEF AtWork, RPCs
<1>3. CASE "trace" \notin AtWork(p) /\ "receipt" \in AtWork(p)
  <2>1. AtWork(p) = {"receipt"}
    BY <1>3 DEF AtWork, RPCs
  <2>2. Cardinality({"receipt"}) = 1
    BY FS_Singleton
  <2> QED BY <1>3, <2>1, <2>2 DEF AtWork, RPCs
<1>4. CASE "trace" \notin AtWork(p) /\ "receipt" \notin AtWork(p)
  <2>1. AtWork(p) = {}
    BY <1>4 DEF AtWork, RPCs
  <2> QED BY <1>4, <2>1, FS_EmptySet DEF AtWork, RPCs
<1> QED BY <1>1, <1>2, <1>3, <1>4

(* A goroutine that reports to the WaitGroup is one fewer at work; none is  *)
(* at work when the counter is zero.                                        *)
LEMMA WaitGroupCounts ==
  ASSUME DecoderInv
  PROVE  /\ wg = Cardinality(AtWork(pc))
         /\ wg = 0 <=> \A g \in RPCs : pc[g] \notin {"call", "done"}
<1>1. wg = Cardinality(AtWork(pc))
  BY Zenon DEF DecoderInv, TypeOK, AtWork
<1> QED BY <1>1, CountAtWork DEF RPCs

LEMMA DecoderInit == Init => DecoderInv
<1> SUFFICES ASSUME Init PROVE DecoderInv
  OBVIOUS
<1>1. Cardinality(AtWork(pc)) = 0
  BY CountAtWork DEF Init, RPCs
<1>2. TypeOK
  BY <1>1 DEF Init, TypeOK, RPCs, AtWork
<1>3. PhaseInv /\ MinedInv
  BY DEF Init, PhaseInv, MinedInv, MinedIsNoRival, RPCs
<1> QED BY <1>2, <1>3 DEF DecoderInv

(* A step of one goroutine that leaves the number of those at work as it is. *)
LEMMA DecoderAnswers ==
  ASSUME DecoderInv, NEW g \in RPCs, Answer(g)
  PROVE  DecoderInv'
<1>1. /\ pc[g] = "call" /\ pc' = [pc EXCEPT ![g] = "done"]
      /\ UNCHANGED <<call, mined, wg, outcome, minedBefore>>
  BY DEF Answer, RPCs, TraceFails, TraceAnswers, ReceiptFound, ReceiptError, Goto, ghosts
<1>2. PhaseInv'
  BY <1>1 DEF DecoderInv, PhaseInv, TypeOK, RPCs
<1>3. wg' = Cardinality(AtWork(pc'))
  <2>1. AtWork(pc') = AtWork(pc)
    BY <1>1 DEF AtWork, DecoderInv, PhaseInv, RPCs
  <2> QED BY <1>1, <2>1, WaitGroupCounts
<1>4. addresses' \in {<<>>, AllAddresses(<<call'>>)} /\ alreadyOnChain' \in BOOLEAN /\ receiptFailed' \in BOOLEAN
  BY DEF Answer, RPCs, TraceFails, TraceAnswers, ReceiptFound, ReceiptError, ghosts, DecoderInv, TypeOK
<1>5. TypeOK'
  BY <1>1, <1>3, <1>4 DEF DecoderInv, TypeOK, PhaseInv, AtWork, RPCs
<1>6. MinedInv'
  <2>1. outcome = NotYet
    BY <1>1 DEF DecoderInv, PhaseInv, RPCs
  <2>2. minedBefore /\ ~receiptFailed' => alreadyOnChain'
    BY DEF Answer, RPCs, TraceFails, TraceAnswers, ReceiptFound, ReceiptError, ghosts, DecoderInv, MinedInv
  <2>3. (pc["receipt"] \in {"done", "gone"} /\ alreadyOnChain => mined)'
    <3>1. CASE g = "trace"
      <4>1. pc'["receipt"] = pc["receipt"]
        BY <1>1, <3>1 DEF DecoderInv, PhaseInv, RPCs
      <4>2. alreadyOnChain' = alreadyOnChain
        BY <3>1 DEF Answer, TraceFails, TraceAnswers
      <4> QED BY <1>1, <4>1, <4>2 DEF DecoderInv, MinedInv
    <3>2. CASE g = "receipt"
      <4>1. mined \/ ~alreadyOnChain'
        BY <3>2 DEF Answer, ReceiptFound, ReceiptError
      <4> QED BY <1>1, <4>1
    <3> QED BY <3>1, <3>2 DEF RPCs
  <2> QED BY <1>1, <2>1, <2>2, <2>3 DEF DecoderInv, MinedInv, MinedIsNoRival
<1> QED BY <1>2, <1>5, <1>6 DEF DecoderInv

LEMMA DecoderDone ==
  ASSUME DecoderInv, NEW g \in RPCs, Done(g)
  PROVE  DecoderInv'
<1>1. /\ pc[g] = "done" /\ pc' = [pc EXCEPT ![g] = "gone"] /\ wg' = wg - 1
      /\ UNCHANGED <<call, mined, addresses, alreadyOnChain, outcome, minedBefore, receiptFailed>>
  BY DEF Done, Goto, ghosts
<1>2. PhaseInv'
  BY <1>1 DEF DecoderInv, PhaseInv, TypeOK, RPCs
<1>3. wg' = Cardinality(AtWork(pc'))
  <2>1. /\ pc'["trace"] = IF g = "trace" THEN "gone" ELSE pc["trace"]
        /\ pc'["receipt"] = IF g = "receipt" THEN "gone" ELSE pc["receipt"]
    BY <1>1 DEF DecoderInv, PhaseInv, RPCs
  <2>2. wg = Cardinality(AtWork(pc))
    BY WaitGroupCounts
  <2> DEFINE p == pc'
  <2>3. /\ p["trace"] = IF g = "trace" THEN "gone" ELSE pc["trace"]
        /\ p["receipt"] = IF g = "receipt" THEN "gone" ELSE pc["receipt"]
    BY <2>1
  <2> HIDE DEF p
  <2>4. wg' = Cardinality(AtWork(p))
    BY <1>1, <2>2, <2>3, CountAtWork DEF RPCs
  <2> QED BY <2>4 DEF p
<1>4. TypeOK'
  BY <1>1, <1>3 DEF DecoderInv, TypeOK, PhaseInv, AtWork, RPCs
<1>5. MinedInv'
  BY <1>1 DEF DecoderInv, MinedInv, MinedIsNoRival
<1> QED BY <1>2, <1>4, <1>5 DEF DecoderInv

LEMMA DecoderSpawn == DecoderInv /\ Spawn => DecoderInv'
<1> SUFFICES ASSUME DecoderInv, Spawn PROVE DecoderInv'
  OBVIOUS
<1>1. /\ pc' = [pc EXCEPT !["caller"] = "wait", !["trace"] = "call", !["receipt"] = "call"]
      /\ wg' = 2 /\ pc["caller"] = "start"
      /\ UNCHANGED <<call, mined, addresses, alreadyOnChain, outcome, minedBefore, receiptFailed>>
  BY DEF Spawn, ghosts
<1>2. /\ pc'["trace"] = "call" /\ pc'["receipt"] = "call" /\ pc'["caller"] = "wait"
      /\ pc' \in [RPCs \cup {"caller"} -> {"start", "call", "done", "gone", "wait", "returned"}]
  BY <1>1 DEF DecoderInv, PhaseInv, RPCs
<1>3. PhaseInv'
  BY <1>1, <1>2 DEF DecoderInv, PhaseInv, RPCs
<1>4. wg' = Cardinality(AtWork(pc'))
  <2> DEFINE p == pc'
  <2>1. p["trace"] = "call" /\ p["receipt"] = "call" /\ wg' = 2
    BY <1>1, <1>2
  <2> HIDE DEF p
  <2>2. wg' = Cardinality(AtWork(p))
    BY <2>1, CountAtWork
  <2> QED BY <2>2 DEF p
<1>5. TypeOK'
  BY <1>1, <1>2, <1>4 DEF DecoderInv, TypeOK, AtWork, RPCs
<1>6. MinedInv'
  BY <1>1, <1>2 DEF DecoderInv, MinedInv, MinedIsNoRival
<1> QED BY <1>3, <1>5, <1>6 DEF DecoderInv

(* The caller goes on only when both goroutines are gone. *)
LEMMA ReturnsAfterBoth ==
  ASSUME DecoderInv, Return
  PROVE  \A g \in RPCs : pc[g] = "gone"
<1>1. pc["caller"] = "wait" /\ wg = 0
  BY DEF Return
<1> QED BY <1>1, WaitGroupCounts DEF DecoderInv, TypeOK, PhaseInv

LEMMA DecoderReturn == DecoderInv /\ Return => DecoderInv'
<1> SUFFICES ASSUME DecoderInv, Return PROVE DecoderInv'
  OBVIOUS
<1>1. /\ pc' = [pc EXCEPT !["caller"] = "returned"] /\ pc["caller"] = "wait"
      /\ outcome' = [symbol |-> ClientSymbol(addresses, alreadyOnChain),
                     alreadyOnChain |-> alreadyOnChain]
      /\ UNCHANGED <<call, mined, wg, addresses, alreadyOnChain, minedBefore, receiptFailed>>
  BY DEF Return, Goto, ghosts
<1>2. /\ \A g \in RPCs : pc'[g] = pc[g]
      /\ pc'["caller"] = "returned"
      /\ pc' \in [RPCs \cup {"caller"} -> {"start", "call", "done", "gone", "wait", "returned"}]
  BY <1>1 DEF DecoderInv, PhaseInv, RPCs
<1>3. PhaseInv'
  BY <1>1, <1>2, ReturnsAfterBoth DEF PhaseInv
<1>4. AtWork(pc') = AtWork(pc)
  BY <1>2 DEF AtWork
<1>5. TypeOK'
  BY <1>1, <1>2, <1>4, WaitGroupCounts DEF DecoderInv, TypeOK, AtWork
<1>6. MinedInv'
  BY <1>1 DEF DecoderInv, MinedInv, MinedIsNoRival, ClientSymbol
<1> QED BY <1>3, <1>5, <1>6 DEF DecoderInv

LEMMA DecoderNext == DecoderInv /\ [Next]_vars => DecoderInv'
<1> SUFFICES ASSUME DecoderInv, [Next]_vars PROVE DecoderInv'
  OBVIOUS
<1>1. CASE GetMined
  BY <1>1 DEF GetMined, ghosts, DecoderInv, TypeOK, PhaseInv, MinedInv, MinedIsNoRival
<1>2. CASE UNCHANGED vars
  BY <1>2 DEF vars, DecoderInv, TypeOK, PhaseInv, MinedInv, MinedIsNoRival
<1>3. CASE \E g \in RPCs : Answer(g) \/ Done(g)
  BY <1>3, DecoderAnswers, DecoderDone
<1> QED BY <1>1, <1>2, <1>3, DecoderSpawn, DecoderReturn DEF Next

LEMMA DecoderInvariant == Spec => []DecoderInv
BY DecoderInit, DecoderNext, PTL DEF Spec

----------------------------------------------------------------------------
(***************************************************************************)
(* The WaitGroup counts the goroutines that are still at work, and what    *)
(* the goroutines share keeps its type (node_mgr.go:436-468).              *)
(***************************************************************************)
THEOREM DecoderTypeCorrect == Spec => []TypeOK
<1>1. DecoderInv => TypeOK
  BY DEF DecoderInv
<1> QED BY <1>1, DecoderInvariant, PTL

(***************************************************************************)
(* A transaction that was on chain when the decoder was called is not      *)
(* taken for a rival, whatever the order of the answers, unless the        *)
(* receipt call itself fails (node_mgr.go:433, 459-463, 471).              *)
(***************************************************************************)
THEOREM MinedTransactionIsNoRival == Spec => []MinedIsNoRival
<1>1. DecoderInv => MinedIsNoRival
  BY DEF DecoderInv, MinedInv
<1> QED BY <1>1, DecoderInvariant, PTL

(***************************************************************************)
(* The safety half of ReturnsIfAnswered: there is an outcome only when     *)
(* both goroutines are gone, so that nothing writes the shared variables   *)
(* the caller read (node_mgr.go:438, 457 and 468).                         *)
(***************************************************************************)
THEOREM ReturnsWhenBothAreGone ==
  Spec => [](outcome # NotYet => \A g \in RPCs : pc[g] = "gone")
<1>1. DecoderInv => (outcome # NotYet => \A g \in RPCs : pc[g] = "gone")
  BY DEF DecoderInv, PhaseInv
<1> QED BY <1>1, DecoderInvariant, PTL

(***************************************************************************)
(* If the walk through a call tree lists the calls in the order in which   *)
(* they are entered, then the two goroutines, the variables they share and *)
(* the WaitGroup amount to the one step DecodeStep, which reads nothing    *)
(* but the trace of this transaction (node_mgr.go:415-479).                *)
(***************************************************************************)
THEOREM DecoderImplementsStep ==
  ASSUME \A c \in Calls : AllAddresses(<<c>>) = EntryOrder(<<c>>)
  PROVE  Spec => ImplementsDecodeStep
<1>1. Init => Step!Init
  BY DEF Init, Step!Init
<1>2. DecoderInv /\ [Next]_vars => [Step!GetMined \/ Step!Return]_<<call, mined, outcome>>
  <2> SUFFICES ASSUME DecoderInv, Next
               PROVE  Step!GetMined \/ Step!Return \/ UNCHANGED <<call, mined, outcome>>
    BY DEF vars
  <2>1. CASE Return
    <3>1. outcome = NotYet /\ call' = call /\ mined' = mined
      BY <2>1 DEF Return, DecoderInv, PhaseInv
    <3>2. addresses \in {EntryOrder(<<call>>)} \cup {<<>>} /\ alreadyOnChain \in BOOLEAN
      BY DEF DecoderInv, TypeOK
    <3>3. Step!ClientSymbol(addresses, alreadyOnChain) = ClientSymbol(addresses, alreadyOnChain)
      BY DEF ClientSymbol, FirstPair, NoSymbol, SelectInSeq, Min,
             Step!ClientSymbol, Step!FirstPair, Step!NoSymbol, Step!SelectInSeq, Step!Min
    <3>4. outcome' \in Step!DecodeOutcomes({EntryOrder(<<call>>)})
      BY <2>1, <3>2, <3>3 DEF Return, Step!DecodeOutcomes
    <3>5. outcome'.alreadyOnChain => mined
      <4>1. pc["receipt"] = "gone"
        BY <2>1, ReturnsAfterBoth DEF RPCs
      <4> QED BY <2>1, <4>1 DEF Return, DecoderInv, MinedInv
    <3> QED BY <3>1, <3>4, <3>5 DEF Step!Return
  <2>2. CASE GetMined
    BY <2>2 DEF GetMined, Step!GetMined
  <2>3. CASE ~Return /\ ~GetMined
    BY <2>3 DEF Next, Spawn, Answer, Done, TraceFails, TraceAnswers,
                ReceiptFound, ReceiptError, ghosts
  <2> QED BY <2>1, <2>2, <2>3
<1> QED BY <1>1, <1>2, DecoderInvariant, PTL DEF Spec, ImplementsDecodeStep, Step!Spec
=============================================================================
