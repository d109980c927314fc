-------------------------- MODULE MCSystemContracts --------------------------
(* Two nodes, one of them also written in upper case, and an ID of the    *)
(* wrong length; a known configuration key in two spellings and an unknown *)
(* one; one name, also written with blanks, and two bad ones; one function *)
(* with two parameters and one that does not parse; two blocks.            *)
EXTENDS SystemContracts

MCLowerId(id) == IF id = "AA" THEN "aa" ELSE id
MCIs128(id) == id # "short"
MCLowerKey(k) == IF k = "TX_COUNT_LIMIT" THEN "tx_count_limit" ELSE k
MCTrim(s) == IF s = " n" THEN "n" ELSE s
MCLong(s) == s = "long"
MCComma(s) == s = "n,n"
MCParamCount == [f \in Signatures |-> IF f = "f(string,string)" THEN 2 ELSE -1]
MCArgLists == {<<"u", "v">>}
Sealer(id) == [nodeID |-> id, weight |-> 1, type |-> "sealer", enableNumber |-> 0]
MCGenesis == {<<>>, <<Sealer("aa")>>}
==============================================================================
