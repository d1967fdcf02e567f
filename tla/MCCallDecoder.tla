--------------------------- MODULE MCCallDecoder ---------------------------
(* Instances of CallDecoder: call trees up to three levels deep. *)
EXTENDS CallDecoder, TLC

Trees == INSTANCE CallTrees
MCAllAddresses(calls) == Trees!GetAllAddress(calls)
MCEntryOrder(calls) == Trees!InCallOrder(calls)

MCAddrTokens == <<>>
MCPairSymbolMap == "pairAU" :> <<"avax", "usdc">> @@ "pairJU" :> <<"joe", "usdc">>

Node(to, calls) == [to |-> to, calls |-> calls]
Addresses == {"enemy", "pairAU", "pairJU"}
Leaves   == {Node(a, <<>>) : a \in Addresses}
Lists(S) == {<<>>} \cup {<<x>> : x \in S} \cup {<<x, y>> : x, y \in S}

(* Every call of at most two leaves, and the competitor calling two of those *)
(* that make one call at most.                                              *)
Small  == {Node(a, calls) : a \in Addresses, calls \in Lists(Leaves)}
Narrow == {n \in Small : Len(n.calls) <= 1}
MCCalls == Small \cup {Node("enemy", calls) : calls \in Lists(Narrow)}
BothAnswer == {"trace", "receipt"}
=============================================================================
