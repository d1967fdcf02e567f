----------------------------- MODULE ChainTables -----------------------------
(***************************************************************************)
(* The look-up tables that main.go builds for a chain.  An address is a    *)
(* record [who, spelling]: the account and the case of its hex digits,     *)
(* "lower", "checksum" (EIP-55) or "upper".  Two spellings of one account  *)
(* are different strings, and so different keys.                           *)
(***************************************************************************)
EXTENDS SequencesExt

Addr(who, spelling) == [who |-> who, spelling |-> spelling]

ToLower(address) == [address EXCEPT !.spelling = "lower"]

(* The tables that f can become when a loop over f in any order assigns     *)
(* table[f[name]] = name: of several names for one address the last wins.  *)
Inversions(f) == {table \in [Range(f) -> DOMAIN f] : \A a \in Range(f) : f[table[a]] = a}

(* Configured as name -> address; neither loop changes the spelling. *)
NewRouter(router)  == Inversions(router)
AddrTokens(tokens) == Inversions(tokens)

EnemiesMap(enemies) == {ToLower(addr) : addr \in enemies}

(* A key of the pairs file is "dex@BASE/QUOTE", here [dex, symbol]; without *)
(* the separator (symbol NoSeparator) the split panics.                    *)
CONSTANT NoSeparator

PairKeyPanics(pairs) == \E s \in DOMAIN pairs : s.symbol = NoSeparator

(* The files of the directory in the order of their names, [chain, pairs];  *)
(* a second file of a chain (chain.x.json) replaces what the first said.   *)
LoadPairsConfig(files) ==
  [chain \in {f.chain : f \in ToSet(files)} |->
     files[SelectLastInSeq(files, LAMBDA f : f.chain = chain)].pairs]

PairSymbolMaps(pairs) ==
  LET contracts == [s \in DOMAIN pairs |-> ToLower(pairs[s])]
  IN {[a \in Range(contracts) |-> key[a].symbol] : key \in Inversions(contracts)}
=============================================================================
