---------------------------- MODULE SystemConfig ----------------------------
(***************************************************************************)
(* SystemConfigPrecompiled: the rows of s_config, each with the block from *)
(* which its value is enabled.  Values are what boost::lexical_cast makes  *)
(* of them; NotANumber stands for what it rejects, the empty value too.    *)
(***************************************************************************)
EXTENDS Integers

CONSTANTS ConfigKeys,     \* keys as callers write them
          LowerKey(_),    \* boost::to_lower
          Values,         \* the values callers pass
          NotANumber,
          TX_GAS_LIMIT_MIN, TX_COUNT_LIMIT_MIN

VARIABLES config,         \* key |-> [value, enableNumber] or NoRow
          number, ret

NoRow == [value |-> NotANumber, enableNumber |-> -1]
Rows == {LowerKey(k) : k \in ConfigKeys}

checkValueValid(key, value) ==
  /\ value # NotANumber
  /\ CASE key = "tx_gas_limit"            -> value > TX_GAS_LIMIT_MIN
       [] key = "consensus_leader_period" -> value >= 1
       [] key = "tx_count_limit"          -> value >= TX_COUNT_LIMIT_MIN
       [] OTHER                           -> FALSE

\* BUG variant: the row is written before the value is checked.
setValueByKeyFirst(key, value) ==
  LET k == LowerKey(key) IN
  /\ config' = [config EXCEPT ![k] = [value |-> value, enableNumber |-> number + 1]]
  /\ ret' = <<IF checkValueValid(k, value) THEN "ok" ELSE "CODE_INVALID_CONFIGURATION_VALUES">>
  /\ UNCHANGED number

setValueByKey(key, value) ==
  LET k == LowerKey(key) IN
  /\ IF checkValueValid(k, value)
     THEN /\ config' = [config EXCEPT ![k] = [value |-> value, enableNumber |-> number + 1]]
          /\ ret' = <<"ok">>
     ELSE ret' = <<"CODE_INVALID_CONFIGURATION_VALUES">> /\ UNCHANGED config
  /\ UNCHANGED number

\* getValueByKey: the row as it is, whether enabled yet or not.
getSysConfigByKey(key) ==
  /\ ret' = <<"value", config[LowerKey(key)]>>
  /\ UNCHANGED <<config, number>>

call ==
  \E key \in ConfigKeys :
    getSysConfigByKey(key) \/ \E value \in Values : setValueByKey(key, value)
=============================================================================
