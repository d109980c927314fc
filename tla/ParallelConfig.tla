--------------------------- MODULE ParallelConfig ---------------------------
(***************************************************************************)
(* ParallelConfigPrecompiled: which methods of a contract may run in       *)
(* parallel, and how many of their first parameters are their critical     *)
(* fields; and getTxCriticals, which the DAG asks for them.                *)
(***************************************************************************)
EXTENDS Integers, Sequences

CONSTANTS Contracts,
          Signatures,      \* the function signatures callers register
          ParamCount,      \* signature |-> number of parameters, -1 if it does not parse
          Sizes,           \* the criticalSize callers pass
          ArgLists         \* the arguments of calls to those functions

VARIABLES parallel,        \* contract |-> the function registered |-> criticalSize or None
          parallelTable,   \* the contracts whose table exists
          ret

None == -1
NoConfig == [f \in Signatures |-> None]

registerParallelFunction(contract, f, size) ==
  /\ parallel' = [parallel EXCEPT ![contract][f] = size]
  /\ parallelTable' = parallelTable \cup {contract}
  /\ ret' = <<"ok">>

unregisterParallelFunction(contract, f) ==
  /\ IF contract \in parallelTable
     THEN parallel' = [parallel EXCEPT ![contract][f] = None] /\ ret' = <<"ok">>
     ELSE ret' = <<"no output">> /\ UNCHANGED parallel
  /\ UNCHANGED parallelTable

\* The critical fields of a call to f: empty, and the transaction is sent back, if f is
\* not registered, does not parse or has fewer parameters than criticalSize.
getTxCriticals(contract, f, args) ==
  LET size == parallel[contract][f] IN
  IF size = None \/ ParamCount[f] < size THEN <<>> ELSE SubSeq(args, 1, size)

\* The DAG asks before it runs any transaction of the batch.
Prepare(contract, f, args) ==
  /\ ret' = <<"value", getTxCriticals(contract, f, args)>>
  /\ UNCHANGED <<parallel, parallelTable>>

call ==
  \E contract \in Contracts, f \in Signatures :
    \/ unregisterParallelFunction(contract, f)
    \/ \E args \in ArgLists : Len(args) = ParamCount[f] /\ Prepare(contract, f, args)
    \/ \E size \in Sizes : registerParallelFunction(contract, f, size)
=============================================================================
