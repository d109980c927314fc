--------------------------- MODULE MCContractAuth ---------------------------
(* A contract with two methods whose admin is one of two accounts, a second *)
(* contract that anybody may deploy, directly or through the first one; two *)
(* blocks of two transactions.                                              *)
EXTENDS ContractAuth

MCDeployed == [c \in {"c"} |-> "a"]
=============================================================================
