----------------------------- MODULE MCNodeMgr -----------------------------
(***************************************************************************)
(* Instances of NodeMgr for TLC: transactions, signals and configuration   *)
(* maps small enough to enumerate.                                         *)
(***************************************************************************)
EXTENDS NodeMgr, CallTrees

AU == <<"avax", "usdc">>
JU == <<"joe", "usdc">>

MCRouterMap     == "joeRouter" :> "traderjoe" @@ "uniRouter" :> "avaxuniswap"
MCEnemies       == {"enemy"}
MCAddrTokens    == "avaxAddr" :> "avax" @@ "usdcAddr" :> "usdc"
MCPairSymbolMap == "pairAU" :> AU @@ "pairJU" :> JU

(* The competitor's contract swaps with one pair, with two, or with none. *)
Call(to, calls) == [to |-> to, calls |-> calls]
MCCalls == {Call("enemy", <<Call("pairAU", <<>>)>>),
            Call("enemy", <<Call("helper", <<Call("pairJU", <<>>)>>), Call("pairAU", <<>>)>>),
            Call("enemy", <<>>)}
MCTraces == {GetAllAddress(<<c>>) : c \in MCCalls}

NoPath == [shape |-> "notPath", path |-> <<>>]
Path(tokens) == [shape |-> "path", path |-> tokens]
Shape(s) == [shape |-> s, path |-> <<>>]

Tx(h, to, price, input) == [hash |-> h, to |-> to, gasPrice |-> price, input |-> input]

High   == Tx(1, "enemy", 9, NoPath)
Low    == Tx(2, "enemy", 2, NoPath)
Swap   == Tx(3, "joeRouter", 7, Path(<<"avaxAddr", "usdcAddr">>))
OneHop == Tx(4, "joeRouter", 7, Path(<<"avaxAddr">>))
Other  == Tx(6, "somebody", 7, NoPath)

OrderTxs  == {Low, Swap, Other}
SignalTxs == {High, OneHop}
HighTx    == {High}

Sig(i, symbol, block, base, maxFee) ==
  [id |-> i, symbol |-> symbol, tradeBlock |-> block, base |-> base, maxFee |-> maxFee,
   wellFormed |-> TRUE]

(* A symbol without separator cannot be split into token and quote. *)
Glued == [Sig(9, <<"avaxusdc">>, 2, 0, 12) EXCEPT !.wellFormed = FALSE]

TwoPairs  == {Sig(1, AU, 2, 41, 12), Sig(2, JU, 3, 45, 5)}
SamePair  == {Sig(1, AU, 2, 41, 12), Sig(2, AU, 3, 45, 5), Sig(3, JU, 3, 45, 12)}
Parade    == {Sig(1, AU, 2, 41, 12), Sig(2, JU, 2, 45, 5), Glued}
OneSignal == {Sig(1, AU, 2, 41, 12)}
=============================================================================
