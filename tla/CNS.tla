-------------------------------- MODULE CNS --------------------------------
(***************************************************************************)
(* CNSPrecompiled: contract addresses registered under a name and a        *)
(* version, one row of s_cns per name with a map from versions.            *)
(***************************************************************************)
EXTENDS FiniteSets

CONSTANTS CnsNames, Versions,    \* names and versions as callers write them
          Addresses,
          Trim(_),               \* boost::trim
          Long(_), Comma(_)      \* too long; contains a comma

VARIABLES cns,                   \* name |-> version |-> address, NoAddress if none
          cnsTable,              \* whether s_cns exists
          ret

NoAddress == "none"
Rows == {Trim(n) : n \in CnsNames}
Keys == {Trim(v) : v \in Versions}
Empty == [n \in Rows |-> [v \in Keys |-> NoAddress]]

Refuse(code) == ret' = <<code>> /\ UNCHANGED <<cns, cnsTable>>

\* checkCNSParam; a name that is too long throws, the other two codes are both answered
\* as the first.
checkCNSParam(name, version) ==
  CASE Long(version) -> "CODE_VERSION_LENGTH_OVERFLOW"
    [] ~Long(version) /\ (Comma(version) \/ Comma(name)) -> "CODE_ADDRESS_OR_VERSION_ERROR"
    [] ~Long(version) /\ ~Comma(version) /\ ~Comma(name) /\ Long(name) -> "throw"
    [] OTHER -> "ok"

\* BUG variant: a version that is registered is overwritten.
insertOver(n, v, address) ==
  LET name == Trim(n)  version == Trim(v)  code == checkCNSParam(name, version) IN
  CASE code = "throw" -> Refuse("PrecompiledError")
    [] code \notin {"throw", "ok"} -> Refuse("CODE_VERSION_LENGTH_OVERFLOW")
    [] OTHER -> /\ cns' = [cns EXCEPT ![name][version] = address]
                /\ cnsTable' = TRUE /\ ret' = <<"ok">>

insert(n, v, address) ==
  LET name == Trim(n)  version == Trim(v)  code == checkCNSParam(name, version) IN
  CASE code = "throw" -> Refuse("PrecompiledError")
    [] code \notin {"throw", "ok"} -> Refuse("CODE_VERSION_LENGTH_OVERFLOW")
    [] code = "ok" /\ cns[name][version] # NoAddress ->
         /\ cnsTable' = TRUE /\ ret' = <<"CODE_ADDRESS_AND_VERSION_EXIST">> /\ UNCHANGED cns
    [] OTHER -> /\ cns' = [cns EXCEPT ![name][version] = address]
                /\ cnsTable' = TRUE /\ ret' = <<"ok">>

\* The name is looked up as it is written, blanks included.
selectByName(name) ==
  /\ ret' = <<"value", IF name \in Rows THEN cns[name] ELSE [v \in Keys |-> NoAddress]>>
  /\ cnsTable' = TRUE
  /\ UNCHANGED cns

\* Also getContractAddress, which answers the address without the ABI.
selectByNameAndVersion(name, version) ==
  /\ ret' = <<"value", cns[Trim(name)][Trim(version)]>>
  /\ cnsTable' = TRUE
  /\ UNCHANGED cns

call ==
  \E n \in CnsNames :
    \/ selectByName(n)
    \/ \E v \in Versions :
         selectByNameAndVersion(n, v) \/ \E a \in Addresses : insert(n, v, a)
============================================================================
