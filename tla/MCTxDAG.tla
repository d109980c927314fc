------------------------------ MODULE MCTxDAG ------------------------------
(* A batch of four transactions over two fields, executed by two threads.  *)
(* The lists include a transaction that is sent back (no fields), one with *)
(* two fields and one that names a field twice.                            *)
EXTENDS TxDAG

CONSTANTS a, b

MCFields == {a, b}
MCCriticalLists == {<<>>, <<a>>, <<a, b>>, <<b, b>>}
============================================================================
