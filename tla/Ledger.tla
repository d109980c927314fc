------------------------------- MODULE Ledger -------------------------------
(***************************************************************************)
(* What the executor promises the scheduler about block state: a durable   *)
(* state, and a chain of uncommitted blocks, each executed on the state    *)
(* its predecessor left.  Only the last block is written, only the first   *)
(* one is committed, and committing it makes exactly its state durable and *)
(* changes nothing a transaction of a later block reads.                   *)
(***************************************************************************)
EXTENDS Naturals, Sequences, SequencesExt

CONSTANTS Keys,      \* rows of the state
          Values     \* what a row may hold

VARIABLES durable,   \* key |-> its value in the committed state
          number,    \* number of the last committed block
          chain      \* uncommitted blocks: <<[number, view]>>, view: key |-> value

vars == <<durable, number, chain>>

Init == durable \in [Keys -> Values] /\ number = 0 /\ chain = <<>>

Begin ==
  /\ chain' = Append(chain,
       IF chain = <<>> THEN [number |-> number + 1, view |-> durable]
       ELSE [number |-> Last(chain).number + 1, view |-> Last(chain).view])
  /\ UNCHANGED <<durable, number>>

Write(k, v) ==
  /\ chain # <<>>
  /\ chain' = [chain EXCEPT ![Len(chain)].view[k] = v]
  /\ UNCHANGED <<durable, number>>

Commit ==
  /\ chain # <<>>
  /\ durable' = Head(chain).view
  /\ number' = Head(chain).number
  /\ chain' = Tail(chain)

Drop ==
  /\ chain' = <<>>
  /\ UNCHANGED <<durable, number>>

Next == Begin \/ (\E k \in Keys, v \in Values : Write(k, v)) \/ Commit \/ Drop

Spec == Init /\ [][Next]_vars
=============================================================================
