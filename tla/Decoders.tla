------------------------------ MODULE Decoders ------------------------------
(***************************************************************************)
(* What RouterDecoder and CallClientDecoder make of a transaction          *)
(* (node_mgr.go:324-489).  A symbol is the pair of its tokens; of a        *)
(* symbolList only the first element and emptiness matter to the callers,  *)
(* so an operator yields that element.                                     *)
(***************************************************************************)
EXTENDS SequencesExt

CONSTANTS
  AddrTokens,     \* token address -> token name (main.go:27-30)
  PairSymbolMap   \* pair contract address -> symbol (main.go:38-45)

NoSymbol == <<>>

(* RouterDecoder.DecodeToSymbol.  input.shape tells how far the call data   *)
(* decodes: "short" (no selector), "unknown" (no such method, or arguments  *)
(* that do not unpack), "fewParams" (no third argument), "notPath" (the     *)
(* third argument is no traderjoe path) or "path", with the token addresses.*)

RouterPanics(dex, input) ==
  \/ input.shape = "short"
  \/ dex \in {"traderjoe", "avaxuniswap"} /\ input.shape = "fewParams"
  \/ dex = "traderjoe" /\ input.shape = "path" /\ Len(input.path) < 2

RouterSymbol(dex, input) ==
  IF /\ dex = "traderjoe" /\ input.shape = "path"
     /\ {input.path[1], input.path[2]} \subseteq DOMAIN AddrTokens
  THEN <<AddrTokens[input.path[1]], AddrTokens[input.path[2]]>>
  ELSE NoSymbol

(* CallClientDecoder.DecodeToSymbol, once both RPC goroutines are done: the *)
(* first traced address that is a known pair, unless the transaction is     *)
(* already on chain.  A failed trace leaves no addresses; a failed receipt  *)
(* call counts as "not on chain".                                           *)

FirstPair(addresses) ==
  LET i == SelectInSeq(addresses, LAMBDA a : a \in DOMAIN PairSymbolMap)
  IN IF i = 0 THEN NoSymbol ELSE PairSymbolMap[addresses[i]]

(* Mutant: symbols are returned whatever the receipt says. *)
ClientSymbolAlways(addresses, alreadyOnChain) == FirstPair(addresses)

ClientSymbol(addresses, alreadyOnChain) ==
  IF alreadyOnChain THEN NoSymbol ELSE FirstPair(addresses)

(* What DecodeToSymbol may return, given the address lists that a trace of  *)
(* the transaction may yield.                                               *)
DecodeOutcomes(traces) ==
  {[symbol |-> ClientSymbol(addresses, alreadyOnChain), alreadyOnChain |-> alreadyOnChain] :
     addresses \in traces \cup {<<>>}, alreadyOnChain \in BOOLEAN}
=============================================================================
