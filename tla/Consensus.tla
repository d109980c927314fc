----------------------------- MODULE Consensus -----------------------------
(***************************************************************************)
(* ConsensusPrecompiled: the list of sealers and observers, kept in one    *)
(* row of s_consensus.  Every call reads the list, changes it and writes   *)
(* it back; a change is enabled at the next block.                         *)
(***************************************************************************)
EXTENDS Integers, Sequences, SequencesExt

CONSTANTS NodeIds,     \* node IDs as callers write them
          LowerId(_),  \* boost::to_lower
          Is128(_),    \* whether an ID has 128 characters
          Weights      \* the weights callers pass

VARIABLES nodes,       \* the ConsensusNodeList of the row, <<>> if there is no row
          number,      \* blockContext->number()
          ret          \* what the last call returned: <<code>> or <<"value", v>>

Find(list, id) == {n \in DOMAIN list : list[n].nodeID = id}
First(S) == CHOOSE n \in S : \A k \in S : n <= k
HasSealer(list) == \E n \in DOMAIN list : list[n].type = "sealer"
Node(id, weight, type) ==
  [nodeID |-> id, weight |-> weight, type |-> type, enableNumber |-> number + 1]

\* Update the node if it is listed, append it otherwise.
Put(list, node) ==
  LET found == Find(list, node.nodeID) IN
  IF found # {} THEN [list EXCEPT ![First(found)] = node] ELSE Append(list, node)

Return(code) == ret' = <<code>> /\ UNCHANGED nodes

\* BUG variant: the list is written whatever is left in it.
WriteAlways(list) == nodes' = list /\ ret' = <<"ok">>

\* The new list is written unless it has no sealer.
WriteIfSealer(list) ==
  IF HasSealer(list) THEN nodes' = list /\ ret' = <<"ok">> ELSE Return("CODE_LAST_SEALER")

addSealer(id, weight) ==
  /\ CASE ~Is128(id) -> Return("CODE_INVALID_NODE_ID")
       [] Is128(id) /\ weight = 0 -> Return("CODE_INVALID_WEIGHT")
       [] OTHER -> nodes' = Put(nodes, Node(LowerId(id), weight, "sealer")) /\ ret' = <<"ok">>
  /\ UNCHANGED number

addObserver(id) ==
  /\ IF ~Is128(id) THEN Return("CODE_INVALID_NODE_ID")
     ELSE WriteIfSealer(Put(nodes, Node(LowerId(id), 0, "observer")))
  /\ UNCHANGED number

\* To remove a node that is not listed is no error.
removeNode(id) ==
  LET found == Find(nodes, LowerId(id)) IN
  /\ IF ~Is128(id) THEN Return("CODE_INVALID_NODE_ID")
     ELSE WriteIfSealer(IF found # {} THEN RemoveAt(nodes, First(found)) ELSE nodes)
  /\ UNCHANGED number

setWeight(id, weight) ==
  LET found == Find(nodes, LowerId(id)) IN
  /\ CASE ~Is128(id) -> Return("CODE_INVALID_NODE_ID")
       [] Is128(id) /\ weight = 0 -> Return("CODE_INVALID_WEIGHT")
       [] Is128(id) /\ weight # 0 /\ found = {} -> Return("CODE_NODE_NOT_EXIST")
       [] OTHER -> /\ nodes' = [nodes EXCEPT ![First(found)].weight = weight,
                                             ![First(found)].enableNumber = number + 1]
                   /\ ret' = <<"ok">>
  /\ UNCHANGED number

call ==
  \E id \in NodeIds :
    \/ addObserver(id) \/ removeNode(id)
    \/ \E weight \in Weights : addSealer(id, weight) \/ setWeight(id, weight)
============================================================================
