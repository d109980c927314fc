---------------------------- MODULE SerialOrder ----------------------------
(***************************************************************************)
(* What parallel execution of a block's transactions promises: the effect  *)
(* of executing them one at a time, in block order as far as two           *)
(* transactions that name the same critical field can tell.  Transaction i *)
(* is applied in one step, only after every earlier transaction it         *)
(* conflicts with, so it reads exactly what serial execution would show it *)
(* (invariant SerialReads).                                                *)
(***************************************************************************)
EXTENDS Naturals, Sequences, Functions

CONSTANTS N,              \* number of transactions of the batch
          Fields,         \* the critical fields
          CriticalLists   \* the lists of critical fields a transaction may have

Txs == 1 .. N

VARIABLES criticals,      \* transaction |-> its list of critical fields
          done,           \* the transactions applied so far
          field,          \* field |-> the last transaction that wrote it, 0 if none
          read,           \* transaction |-> what it read of its fields
          wrote           \* the applied transactions whose writes took effect

vars == <<criticals, done, field, read, wrote>>

Uses(i) == Range(criticals[i])

Conflicts(i, j) == Uses(i) \cap Uses(j) # {}

NoRead == [c \in Fields |-> 0]

Snapshot(i) == [c \in Fields |-> IF c \in Uses(i) THEN field[c] ELSE 0]

Init ==
  /\ criticals \in [Txs -> CriticalLists]
  /\ done = {}
  /\ field = NoRead
  /\ read = [i \in Txs |-> NoRead]
  /\ wrote = {}

\* Transaction i reads its fields, then (if it ends without an exception) writes them.
Apply(i, ok) ==
  /\ i \notin done
  /\ \A j \in 1 .. i - 1 : Conflicts(i, j) => j \in done
  /\ done' = done \cup {i}
  /\ read' = [read EXCEPT ![i] = Snapshot(i)]
  /\ field' = IF ok THEN [c \in Fields |-> IF c \in Uses(i) THEN i ELSE field[c]]
                    ELSE field
  /\ wrote' = IF ok THEN wrote \cup {i} ELSE wrote
  /\ UNCHANGED criticals

Next == \E i \in Txs, ok \in BOOLEAN : Apply(i, ok)

Spec == Init /\ [][Next]_vars

\* The earlier transactions whose write of c transaction i would see in a serial run.
Writers(i, c) == {j \in wrote : j < i /\ c \in Uses(j)}

(* Every applied transaction has read, of each of its fields, the write of *)
(* the nearest earlier transaction that wrote it: what executing the block *)
(* serially (TransactionExecutor::executeTransaction, one by one) shows.   *)
SerialReads ==
  \A i \in done : \A c \in Uses(i) :
    /\ read[i][c] = 0 => Writers(i, c) = {}
    /\ read[i][c] # 0 => /\ read[i][c] \in Writers(i, c)
                         /\ \A j \in Writers(i, c) : j <= read[i][c]
============================================================================
