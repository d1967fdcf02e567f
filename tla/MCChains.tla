------------------------------ MODULE MCChains ------------------------------
(* Instances of Chains: two projects on one chain and one on another. *)
EXTENDS Chains, TLC

MCChainConfig ==
  "avalanche_v1" :> [name   |-> "avalanche",
                     router |-> "traderjoe" :> Addr("joe", "checksum")
                                @@ "avaxuniswap" :> Addr("uni", "lower")
                                @@ "pangolin" :> Addr("uni", "lower"),
                     tokens |-> "avax" :> Addr("wavax", "checksum")]
  @@ "avalanche_v2" :> [name |-> "avalanche", router |-> <<>>, tokens |-> <<>>]
  @@ "bsc_v1"       :> [name |-> "bsc", router |-> <<>>, tokens |-> <<>>]

MCChainEnemies == "avalanche" :> {Addr("bot", "checksum"), Addr("bot2", "lower")}

File(chain, dex, symbol) ==
  [chain |-> chain, pairs |-> [dex |-> dex, symbol |-> symbol] :> Addr("pool", "checksum")]
Pairs == <<File("avalanche", "old", NoSeparator), File("avalanche", "uniswapv3", <<"avax", "usdc">>)>>
Malformed == File("bsc", "uniswapv3", NoSeparator)
MCPairsDirs == {Pairs, Append(Pairs, Malformed)}

Sig(project, id) == [project |-> project, id |-> id]
MCSignals == {Sig("avalanche_v1", 1), Sig("avalanche_v1", 2), Sig("avalanche_v2", 3)}
MCTxs == {"joe", "uni", "bot"}
MCMayFail == {"bsc_v1"}
MCAnswering == {"avalanche_v1"}
=============================================================================
