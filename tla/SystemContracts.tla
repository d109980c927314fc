--------------------------- MODULE SystemContracts ---------------------------
(***************************************************************************)
(* The system contracts of a chain together: transactions call them one at *)
(* a time, blocks follow one another.  A call that throws is reverted by   *)
(* callPrecompiled; none of these throws after a write.                    *)
(***************************************************************************)
EXTENDS Integers, Sequences, FiniteSets

CONSTANTS NodeIds, LowerId(_), Is128(_), Weights,
          ConfigKeys, LowerKey(_), Values, NotANumber, TX_GAS_LIMIT_MIN, TX_COUNT_LIMIT_MIN,
          CnsNames, Versions, Addresses, Trim(_), Long(_), Comma(_),
          Contracts, Signatures, ParamCount, Sizes, ArgLists,
          Genesis,         \* the node lists the chain may start with
          MaxNumber        \* bound: the last block

VARIABLES nodes, config, cns, cnsTable, parallel, parallelTable, number, ret

consensusRows == nodes
configRows    == config
cnsRows       == <<cns, cnsTable>>
parallelRows  == <<parallel, parallelTable>>
vars == <<nodes, config, cns, cnsTable, parallel, parallelTable, number, ret>>

Sealers == INSTANCE Consensus
Conf == INSTANCE SystemConfig
Names == INSTANCE CNS
Par == INSTANCE ParallelConfig

\* Node IDs in lower case, as the calls write them.
Ids == {LowerId(id) : id \in NodeIds}
NodeRows == [nodeID : Ids, weight : Nat, type : {"sealer", "observer"}, enableNumber : Int]

ASSUME LowerAssumption == \A id \in NodeIds : LowerId(LowerId(id)) = LowerId(id)
ASSUME NumbersAssumption == Weights \subseteq Nat /\ MaxNumber \in Nat

\* The genesis block lists every node once, in lower case, and has a sealer, if it has a
\* list at all; its sealers have a weight, and it enables its nodes at once.
ASSUME GenesisAssumption ==
  \A list \in Genesis :
    /\ list \in Seq(NodeRows)
    /\ \A m, n \in DOMAIN list : list[m].nodeID = list[n].nodeID => m = n
    /\ \A n \in DOMAIN list : /\ list[n].type = "sealer" => list[n].weight > 0
                             /\ list[n].enableNumber <= 2
    /\ list # <<>> => Sealers!HasSealer(list)

Init ==
  /\ nodes \in Genesis
  /\ config = [k \in Conf!Rows |-> Conf!NoRow]
  /\ cns = Names!Empty /\ cnsTable = FALSE
  /\ parallel = [c \in Contracts |-> Par!NoConfig] /\ parallelTable = {}
  /\ number = 1 /\ ret = <<"none">>

\* The block is committed and the next one begins.
NextBlock ==
  /\ number < MaxNumber
  /\ number' = number + 1
  /\ ret' = <<"none">>
  /\ UNCHANGED <<nodes, config, cns, cnsTable, parallel, parallelTable>>

CallConsensus == Sealers!call /\ UNCHANGED <<configRows, cnsRows, parallelRows>>
CallConfig    == Conf!call /\ UNCHANGED <<consensusRows, cnsRows, parallelRows>>
CallCNS       == Names!call /\ UNCHANGED <<consensusRows, configRows, parallelRows, number>>
CallParallel  == Par!call /\ UNCHANGED <<consensusRows, configRows, cnsRows, number>>

Next == NextBlock \/ CallConsensus \/ CallConfig \/ CallCNS \/ CallParallel

Spec == Init /\ [][Next]_vars

-----------------------------------------------------------------------------
(* Properties.                                                              *)

(* After any sequence of calls the node list names every node once,        *)
(* whatever case callers write its ID in, and unless the chain started     *)
(* without a list it has a sealer with a positive weight that is enabled   *)
(* for the next block: adding, demoting and removing nodes in one block    *)
(* never leaves the chain without one (CODE_LAST_SEALER in addObserver and *)
(* removeNode).                                                            *)
SealerRemains ==
  /\ \A m, n \in DOMAIN nodes : LowerId(nodes[m].nodeID) = LowerId(nodes[n].nodeID) => m = n
  /\ nodes # <<>> => \E n \in DOMAIN nodes : /\ nodes[n].type = "sealer"
                                             /\ nodes[n].weight > 0
                                             /\ nodes[n].enableNumber <= number + 1

(* A call that answers an error code leaves every row of every system      *)
(* contract as it was; only the table of s_cns may come into being.        *)
RefusedChangesNothing ==
  [][ret'[1] \notin {"ok", "none"} =>
       UNCHANGED <<nodes, config, cns, parallel, parallelTable, number>>]_vars

(* What has been settled stays settled: an address registered in CNS for a *)
(* name and a version never changes, nor does the value of a configuration *)
(* key between the block that enables it and the next change, which is not *)
(* enabled before the block after it is made.                              *)
SettledStays ==
  [][/\ \A n \in Names!Rows : \A v \in Names!Keys :
          cns[n][v] # Names!NoAddress => cns'[n][v] = cns[n][v]
     /\ \A k \in Conf!Rows : config'[k] # config[k] => config'[k].enableNumber = number + 1
     /\ \A k \in Conf!Rows : config'[k].enableNumber >= config[k].enableNumber]_vars
==============================================================================
