------------------------ MODULE SystemContractsProofs ------------------------
(***************************************************************************)
(* Proofs about SystemContracts, for any callers, node IDs, keys, names    *)
(* and any number of blocks.                                               *)
(*                                                                         *)
(* The node list is looked up by the lower-case ID alone, so that the      *)
(* first match is the only one because the stored IDs are in lower case    *)
(* and distinct (Listed); a sealer that is found has a positive weight and *)
(* is enabled because every write gives it both (Listed, again).           *)
(*                                                                         *)
(* Then the contract file system (BFS), for any paths and tables: every    *)
(* table is listed in the directory above it and everything listed has a   *)
(* table (Tree), also between the steps of building a path.                *)
(***************************************************************************)
EXTENDS SystemContracts, BFS, SequenceTheorems, WellFoundedInduction, TLAPS

\* A well-formed node list.
List(list) ==
  /\ list \in Seq(NodeRows)
  /\ \A m, n \in DOMAIN list : list[m].nodeID = list[n].nodeID => m = n
  /\ \A n \in DOMAIN list : /\ list[n].type = "sealer" => list[n].weight > 0
                            /\ list[n].enableNumber <= number + 1

Listed == List(nodes) /\ (nodes # <<>> => Sealers!HasSealer(nodes))

ConfigRows ==
  /\ config \in [Conf!Rows -> [value : Values \cup {NotANumber}, enableNumber : Int]]
  /\ \A k \in Conf!Rows : config[k].enableNumber <= number + 1

CnsRows == cns \in [Names!Rows -> [Names!Keys -> Addresses \cup {Names!NoAddress}]]

IndInv == number \in Nat /\ Listed /\ ConfigRows /\ CnsRows

-----------------------------------------------------------------------------
(* Node lists.                                                              *)

\* What RemoveAt returns.
LEMMA RemoveAtFacts ==
  ASSUME NEW S, NEW list \in Seq(S), NEW i \in 1 .. Len(list)
  PROVE  LET r == Sealers!RemoveAt(list, i) IN
         /\ r \in Seq(S) /\ Len(r) = Len(list) - 1
         /\ \A n \in 1 .. Len(list) - 1 : r[n] = IF n < i THEN list[n] ELSE list[n + 1]
  <1> DEFINE a == SubSeq(list, 1, i - 1)
             b == SubSeq(list, i + 1, Len(list))
  <1>1. a \in Seq(S) /\ Len(a) = i - 1 /\ \A n \in 1 .. i - 1 : a[n] = list[n]
    OBVIOUS
  <1>2. b \in Seq(S) /\ Len(b) = Len(list) - i /\ \A n \in 1 .. Len(list) - i : b[n] = list[i + n]
    OBVIOUS
  <1> HIDE DEF a, b
  <1>3. a \o b \in Seq(S) /\ Len(a \o b) = Len(a) + Len(b)
        /\ \A n \in 1 .. Len(a) + Len(b) : (a \o b)[n] = IF n <= Len(a) THEN a[n] ELSE b[n - Len(a)]
    BY <1>1, <1>2, ConcatProperties
  <1> DEFINE r == Sealers!RemoveAt(list, i)
  <1>4. r = a \o b
    BY DEF Sealers!RemoveAt, a, b
  <1> HIDE DEF r
  <1>5. r \in Seq(S) /\ Len(r) = Len(list) - 1
    <2>1. r \in Seq(S) /\ Len(r) = Len(a) + Len(b)
      BY <1>3, <1>4
    <2>2. Len(list) \in Nat /\ i \in Nat
      OBVIOUS
    <2> QED  BY <1>1, <1>2, <2>1, <2>2
  <1>6. ASSUME NEW n \in 1 .. Len(list) - 1
        PROVE  r[n] = IF n < i THEN list[n] ELSE list[n + 1]
    <2>1. CASE n < i
      BY <1>1, <1>2, <1>3, <1>4, <2>1
    <2>2. CASE ~(n < i)
      <3>1. n - (i - 1) \in 1 .. Len(list) - i /\ i + (n - (i - 1)) = n + 1 /\ ~(n <= i - 1)
        BY <2>2
      <3>2. r[n] = b[n - (i - 1)]
        BY <1>1, <1>2, <1>3, <1>4, <3>1
      <3>3. b[n - (i - 1)] = list[n + 1]
        BY <1>2, <3>1
      <3> QED  BY <2>2, <3>2, <3>3
    <2> QED  BY <2>1, <2>2
  <1> QED  BY <1>5, <1>6 DEF r

\* The rows that name an ID: none, or the first of them, which is the only one.
LEMMA FindFacts ==
  ASSUME NEW list, List(list), NEW id, Sealers!Find(list, id) # {}
  PROVE  LET i == Sealers!First(Sealers!Find(list, id)) IN
         /\ i \in DOMAIN list /\ list[i].nodeID = id
         /\ \A n \in DOMAIN list : list[n].nodeID = id => n = i
  <1>1. PICK i : i \in Sealers!Find(list, id)
    OBVIOUS
  <1>2. i \in DOMAIN list /\ list[i].nodeID = id
    BY <1>1 DEF Sealers!Find
  <1>3. Sealers!Find(list, id) = {i} /\ i \in Nat
    BY <1>2 DEF List, Sealers!Find
  <1>4. Sealers!First({i}) = i
    BY <1>3 DEF Sealers!First
  <1> QED  BY <1>2, <1>3, <1>4 DEF Sealers!Find

\* Put keeps the list well formed and, if it puts a sealer, leaves one in it.
LEMMA PutList ==
  ASSUME number \in Nat, NEW list, List(list), NEW node \in NodeRows,
         node.type = "sealer" => node.weight > 0, node.enableNumber <= number + 1
  PROVE  /\ List(Sealers!Put(list, node)) /\ Sealers!Put(list, node) # <<>>
         /\ node.type = "sealer" => Sealers!HasSealer(Sealers!Put(list, node))
  <1> DEFINE found == Sealers!Find(list, node.nodeID)
             i == Sealers!First(found)
  <1>0. list \in Seq(NodeRows) /\ Len(list) \in Nat /\ DOMAIN list = 1 .. Len(list)
    BY DEF List
  <1>1. CASE found # {}
    <2>1. /\ i \in DOMAIN list /\ list[i].nodeID = node.nodeID
          /\ \A n \in DOMAIN list : list[n].nodeID = node.nodeID => n = i
      BY <1>1, FindFacts
    <2> DEFINE r == [list EXCEPT ![i] = node]
    <2>2. Sealers!Put(list, node) = r
      BY <1>1 DEF Sealers!Put
    <2> HIDE DEF i
    <2>3. /\ r \in Seq(NodeRows) /\ DOMAIN r = DOMAIN list /\ r[i] = node
          /\ \A n \in DOMAIN list : n # i => r[n] = list[n]
      BY <1>0, <2>1
    <2> HIDE DEF r, found
    <2>4. List(r)
      BY <2>1, <2>3 DEF List
    <2>5. r # <<>> /\ (node.type = "sealer" => Sealers!HasSealer(r))
      BY <2>1, <2>3 DEF Sealers!HasSealer
    <2> QED  BY <2>2, <2>4, <2>5
  <1>2. CASE found = {}
    <2> DEFINE r == Append(list, node)
               l == Len(list) + 1
    <2>1. Sealers!Put(list, node) = r
      BY <1>2 DEF Sealers!Put
    <2>2. /\ r \in Seq(NodeRows) /\ DOMAIN r = DOMAIN list \cup {l} /\ r[l] = node
          /\ l \notin DOMAIN list
          /\ \A n \in DOMAIN list : r[n] = list[n]
      BY <1>0
    <2>3. \A n \in DOMAIN list : list[n].nodeID # node.nodeID
      BY <1>2 DEF Sealers!Find
    <2> HIDE DEF r, l, found
    <2>4. List(r)
      BY <2>2, <2>3 DEF List
    <2>5. r # <<>> /\ (node.type = "sealer" => Sealers!HasSealer(r))
      BY <2>2 DEF Sealers!HasSealer
    <2> QED  BY <2>1, <2>4, <2>5
  <1> QED  BY <1>1, <1>2

\* A list that loses a row stays well formed.
LEMMA RemoveList ==
  ASSUME NEW list, List(list), NEW i \in DOMAIN list
  PROVE  List(Sealers!RemoveAt(list, i))
  <1> DEFINE r == Sealers!RemoveAt(list, i)
             src(n) == IF n < i THEN n ELSE n + 1
  <1>0. list \in Seq(NodeRows) /\ Len(list) \in Nat /\ i \in 1 .. Len(list)
    BY DEF List
  <1>1. /\ r \in Seq(NodeRows) /\ Len(r) = Len(list) - 1
        /\ \A n \in 1 .. Len(list) - 1 : r[n] = IF n < i THEN list[n] ELSE list[n + 1]
    BY <1>0, RemoveAtFacts
  <1> HIDE DEF r
  <1>2. \A n \in DOMAIN r : src(n) \in DOMAIN list /\ r[n] = list[src(n)]
    BY <1>0, <1>1
  <1>3. \A m, n \in DOMAIN r : src(m) = src(n) => m = n
    BY <1>0, <1>1
  <1> HIDE DEF src
  <1>4. \A m, n \in DOMAIN r : r[m].nodeID = r[n].nodeID => m = n
    BY <1>2, <1>3 DEF List
  <1>5. \A n \in DOMAIN r : /\ r[n].type = "sealer" => r[n].weight > 0
                            /\ r[n].enableNumber <= number + 1
    BY <1>2 DEF List
  <1>6. List(r)
    BY <1>1, <1>4, <1>5 DEF List
  <1> QED  BY <1>6 DEF r

-----------------------------------------------------------------------------
(* The calls of ConsensusPrecompiled.                                       *)

\* What a call may do to the list: nothing, or write a well-formed one with a sealer.
Written(list) == List(list) /\ Sealers!HasSealer(list)

LEMMA WriteIfSealerFacts ==
  ASSUME NEW list, List(list), Sealers!WriteIfSealer(list)
  PROVE  \/ nodes' = list /\ Written(list) /\ ret' = <<"ok">>
         \/ nodes' = nodes /\ ret' = <<"CODE_LAST_SEALER">>
  BY DEF Sealers!WriteIfSealer, Sealers!Return, Written

\* A row with its weight and its enable number replaced, as setWeight does it.
Reweighted(row, w, e) == [[row EXCEPT !.weight = w] EXCEPT !.enableNumber = e]

\* It is a row again, of the same node.
LEMMA Updated ==
  ASSUME NEW row \in NodeRows, NEW w \in Nat, NEW e \in Int
  PROVE  LET node == Reweighted(row, w, e) IN
         /\ node \in NodeRows /\ node.nodeID = row.nodeID /\ node.type = row.type
         /\ node.weight = w /\ node.enableNumber = e
  BY DEF NodeRows, Reweighted

\* Every call of the contract writes such a list or leaves it alone.
LEMMA ConsensusCall ==
  ASSUME number \in Nat, Listed, Sealers!call
  PROVE  /\ nodes' = nodes \/ (Written(nodes') /\ ret' = <<"ok">>)
         /\ number' = number
  <1> DEFINE Goal == /\ nodes' = nodes \/ (Written(nodes') /\ ret' = <<"ok">>)
                     /\ number' = number
  <1>0. List(nodes) /\ nodes \in Seq(NodeRows) /\ DOMAIN nodes = 1 .. Len(nodes)
    BY DEF Listed, List
  <1>1. ASSUME NEW id \in NodeIds, NEW weight \in Weights, Sealers!addSealer(id, weight) PROVE Goal
    <2> DEFINE node == Sealers!Node(LowerId(id), weight, "sealer")
    <2>1. CASE ~Is128(id) \/ weight = 0
      BY <1>1, <2>1 DEF Sealers!addSealer, Sealers!Return
    <2>2. CASE Is128(id) /\ weight # 0
      <3>1. nodes' = Sealers!Put(nodes, node) /\ ret' = <<"ok">> /\ number' = number
        BY <1>1, <2>2 DEF Sealers!addSealer
      <3>2. /\ node \in NodeRows /\ node.type = "sealer" /\ node.weight > 0
            /\ node.enableNumber <= number + 1
        BY <2>2, NumbersAssumption DEF Sealers!Node, NodeRows, Ids
      <3> HIDE DEF node
      <3>3. Written(Sealers!Put(nodes, node))
        BY <1>0, <3>2, PutList DEF Written
      <3> QED  BY <3>1, <3>3
    <2> QED  BY <2>1, <2>2
  <1>2. ASSUME NEW id \in NodeIds, Sealers!addObserver(id) PROVE Goal
    <2> DEFINE node == Sealers!Node(LowerId(id), 0, "observer")
    <2>1. CASE ~Is128(id)
      BY <1>2, <2>1 DEF Sealers!addObserver, Sealers!Return
    <2>2. CASE Is128(id)
      <3>1. Sealers!WriteIfSealer(Sealers!Put(nodes, node)) /\ number' = number
        BY <1>2, <2>2 DEF Sealers!addObserver
      <3>2. node \in NodeRows /\ node.type # "sealer" /\ node.enableNumber <= number + 1
        BY DEF Sealers!Node, NodeRows, Ids
      <3> HIDE DEF node
      <3>3. List(Sealers!Put(nodes, node))
        BY <1>0, <3>2, PutList
      <3> QED  BY <3>1, <3>3, WriteIfSealerFacts
    <2> QED  BY <2>1, <2>2
  <1>3. ASSUME NEW id \in NodeIds, Sealers!removeNode(id) PROVE Goal
    <2> DEFINE found == Sealers!Find(nodes, LowerId(id))
               list == IF found # {} THEN Sealers!RemoveAt(nodes, Sealers!First(found)) ELSE nodes
    <2>1. CASE ~Is128(id)
      BY <1>3, <2>1 DEF Sealers!removeNode, Sealers!Return
    <2>2. CASE Is128(id)
      <3>1. Sealers!WriteIfSealer(list) /\ number' = number
        BY <1>3, <2>2 DEF Sealers!removeNode
      <3>2. List(list)
        BY <1>0, FindFacts, RemoveList
      <3> HIDE DEF list
      <3> QED  BY <3>1, <3>2, WriteIfSealerFacts
    <2> QED  BY <2>1, <2>2
  <1>4. ASSUME NEW id \in NodeIds, NEW weight \in Weights, Sealers!setWeight(id, weight) PROVE Goal
    <2> DEFINE found == Sealers!Find(nodes, LowerId(id))
               i == Sealers!First(found)
    <2>1. CASE ~Is128(id) \/ weight = 0 \/ found = {}
      BY <1>4, <2>1 DEF Sealers!setWeight, Sealers!Return
    <2>2. CASE Is128(id) /\ weight # 0 /\ found # {}
      <3>1. /\ nodes' = [nodes EXCEPT ![i].weight = weight, ![i].enableNumber = number + 1]
            /\ ret' = <<"ok">> /\ number' = number
        BY <1>4, <2>2 DEF Sealers!setWeight
      <3>2. i \in DOMAIN nodes
        BY <1>0, <2>2, FindFacts
      <3> HIDE DEF i, found
      <3> DEFINE node == Reweighted(nodes[i], weight, number + 1)
      <3>3. /\ node \in NodeRows /\ node.nodeID = nodes[i].nodeID /\ node.type = nodes[i].type
            /\ node.weight = weight /\ node.enableNumber = number + 1
        <4>1. nodes[i] \in NodeRows
          BY <1>0, <3>2
        <4>2. weight \in Nat /\ number + 1 \in Int
          BY NumbersAssumption
        <4> QED  BY <4>1, <4>2, Updated
      <3>4. nodes' = [nodes EXCEPT ![i] = node]
        BY <1>0, <3>1, <3>2 DEF Reweighted
      <3>5. node.weight > 0 /\ node.enableNumber <= number + 1
        BY <2>2, <3>3, NumbersAssumption
      <3> HIDE DEF node
      <3>6. /\ nodes' \in Seq(NodeRows) /\ DOMAIN nodes' = DOMAIN nodes /\ nodes'[i] = node
            /\ \A n \in DOMAIN nodes : n # i => nodes'[n] = nodes[n]
        BY <1>0, <3>2, <3>3, <3>4
      <3>7. List(nodes')
        BY <3>2, <3>3, <3>5, <3>6 DEF Listed, List
      <3>8. Sealers!HasSealer(nodes')
        <4>1. nodes # <<>>
          BY <3>2
        <4>2. PICK n \in DOMAIN nodes : nodes[n].type = "sealer"
          BY <4>1 DEF Listed, Sealers!HasSealer
        <4> QED  BY <3>3, <3>6, <4>2 DEF Sealers!HasSealer
      <3> QED  BY <3>1, <3>7, <3>8 DEF Written
    <2> QED  BY <2>1, <2>2
  <1> QED  BY <1>1, <1>2, <1>3, <1>4 DEF Sealers!call


-----------------------------------------------------------------------------
(* The calls of the other contracts.                                        *)

\* A call of SystemConfigPrecompiled leaves its rows alone, or writes one of them for the
\* next block and answers ok.
LEMMA ConfigCall ==
  ASSUME number \in Nat, ConfigRows, Conf!call
  PROVE  /\ number' = number
         /\ \/ config' = config
            \/ /\ ret' = <<"ok">>
               /\ \E k \in Conf!Rows, v \in Values :
                    config' = [config EXCEPT ![k] = [value |-> v, enableNumber |-> number + 1]]
  <1>1. PICK key \in ConfigKeys :
          Conf!getSysConfigByKey(key) \/ \E value \in Values : Conf!setValueByKey(key, value)
    BY DEF Conf!call
  <1>2. LowerKey(key) \in Conf!Rows
    BY DEF Conf!Rows
  <1>3. CASE Conf!getSysConfigByKey(key)
    BY <1>3 DEF Conf!getSysConfigByKey
  <1>4. ASSUME NEW value \in Values, Conf!setValueByKey(key, value)
        PROVE  /\ number' = number
               /\ \/ config' = config
                  \/ /\ ret' = <<"ok">>
                     /\ \E k \in Conf!Rows, v \in Values :
                          config' = [config EXCEPT ![k] = [value |-> v, enableNumber |-> number + 1]]
    <2>1. CASE Conf!checkValueValid(LowerKey(key), value)
      <3>1. /\ config' = [config EXCEPT ![LowerKey(key)] = [value |-> value, enableNumber |-> number + 1]]
            /\ ret' = <<"ok">> /\ number' = number
        BY <1>4, <2>1 DEF Conf!setValueByKey
      <3> QED  BY <1>2, <3>1
    <2>2. CASE ~Conf!checkValueValid(LowerKey(key), value)
      BY <1>4, <2>2 DEF Conf!setValueByKey
    <2> QED  BY <2>1, <2>2
  <1> QED  BY <1>1, <1>3, <1>4

\* Writing a row for the next block: what becomes of every row.
LEMMA ConfigWritten ==
  ASSUME number \in Nat, ConfigRows, number' = number, NEW k \in Conf!Rows, NEW v \in Values,
         config' = [config EXCEPT ![k] = [value |-> v, enableNumber |-> number + 1]]
  PROVE  /\ ConfigRows'
         /\ \A j \in Conf!Rows : config'[j] # config[j] => config'[j].enableNumber = number + 1
         /\ \A j \in Conf!Rows : config'[j].enableNumber >= config[j].enableNumber
  <1> DEFINE row == [value |-> v, enableNumber |-> number + 1]
             RowType == [value : Values \cup {NotANumber}, enableNumber : Int]
  <1>1. row \in RowType /\ row.enableNumber = number + 1
    OBVIOUS
  <1>2. config \in [Conf!Rows -> RowType] /\ \A j \in Conf!Rows : config[j].enableNumber <= number + 1
    BY DEF ConfigRows
  <1>3. \A j \in Conf!Rows : config[j].enableNumber \in Int
    BY <1>2
  <1> HIDE DEF row
  <1>4. config' = [config EXCEPT ![k] = row]
    BY DEF row
  <1> HIDE DEF RowType
  <1>5. /\ config' \in [Conf!Rows -> RowType] /\ config'[k] = row
        /\ \A j \in Conf!Rows : j # k => config'[j] = config[j]
    BY <1>1, <1>2, <1>4
  <1>6. ASSUME NEW j \in Conf!Rows
        PROVE  /\ config'[j] # config[j] => config'[j].enableNumber = number + 1
               /\ config'[j].enableNumber >= config[j].enableNumber
               /\ config'[j].enableNumber <= number + 1
    BY <1>1, <1>2, <1>3, <1>5
  <1>7. ConfigRows'
    BY <1>5, <1>6 DEF ConfigRows, RowType, Conf!Rows
  <1> QED  BY <1>6, <1>7

\* A call of CNSPrecompiled leaves the addresses alone, or registers one where there was
\* none and answers ok.
LEMMA CnsCall ==
  ASSUME Names!call
  PROVE  \/ cns' = cns
         \/ /\ ret' = <<"ok">>
            /\ \E n \in Names!Rows, v \in Names!Keys, a \in Addresses :
                 cns[n][v] = Names!NoAddress /\ cns' = [cns EXCEPT ![n][v] = a]
  <1>1. PICK n \in CnsNames :
          \/ Names!selectByName(n)
          \/ \E v \in Versions : \/ Names!selectByNameAndVersion(n, v)
                                 \/ \E a \in Addresses : Names!insert(n, v, a)
    BY DEF Names!call
  <1>2. CASE Names!selectByName(n)
    BY <1>2 DEF Names!selectByName
  <1>3. ASSUME NEW v \in Versions, Names!selectByNameAndVersion(n, v)
        PROVE  cns' = cns
    BY <1>3 DEF Names!selectByNameAndVersion
  <1>4. ASSUME NEW v \in Versions, NEW a \in Addresses, Names!insert(n, v, a)
        PROVE  \/ cns' = cns
               \/ /\ ret' = <<"ok">>
                  /\ cns[Trim(n)][Trim(v)] = Names!NoAddress
                  /\ cns' = [cns EXCEPT ![Trim(n)][Trim(v)] = a]
    <2> DEFINE code == Names!checkCNSParam(Trim(n), Trim(v))
    <2>1. CASE code # "ok"
      BY <1>4, <2>1 DEF Names!insert, Names!Refuse
    <2>2. CASE code = "ok" /\ cns[Trim(n)][Trim(v)] # Names!NoAddress
      BY <1>4, <2>2 DEF Names!insert
    <2>3. CASE code = "ok" /\ cns[Trim(n)][Trim(v)] = Names!NoAddress
      BY <1>4, <2>3 DEF Names!insert
    <2> QED  BY <2>1, <2>2, <2>3
  <1>5. \A v \in Versions : Trim(n) \in Names!Rows /\ Trim(v) \in Names!Keys
    BY DEF Names!Rows, Names!Keys
  <1> QED  BY <1>1, <1>2, <1>3, <1>4, <1>5

\* Registering an address: what becomes of every other.
LEMMA CnsWritten ==
  ASSUME CnsRows, NEW n \in Names!Rows, NEW v \in Names!Keys, NEW a \in Addresses,
         cns[n][v] = Names!NoAddress, cns' = [cns EXCEPT ![n][v] = a]
  PROVE  /\ CnsRows'
         /\ \A m \in Names!Rows, w \in Names!Keys :
              cns[m][w] # Names!NoAddress => cns'[m][w] = cns[m][w]
  BY DEF CnsRows, Names!Rows, Names!Keys, Names!NoAddress

\* A call of ParallelConfigPrecompiled that answers no ok leaves the registrations alone.
LEMMA ParallelCall ==
  ASSUME Par!call
  PROVE  (parallel' = parallel /\ parallelTable' = parallelTable) \/ ret' = <<"ok">>
  BY DEF Par!call, Par!unregisterParallelFunction, Par!Prepare, Par!registerParallelFunction

-----------------------------------------------------------------------------
(* The invariant.                                                           *)

\* The genesis block is well formed; no key is set and no address is registered.
LEMMA InitInv == Init => IndInv
  <1> SUFFICES ASSUME Init PROVE IndInv
    OBVIOUS
  <1>1. number = 1 /\ nodes \in Genesis
    BY DEF Init
  <1>2. Listed
    BY <1>1, GenesisAssumption DEF Listed, List
  <1>3. ConfigRows
    <2>1. config = [k \in Conf!Rows |-> [value |-> NotANumber, enableNumber |-> -1]]
      BY DEF Init, Conf!NoRow
    <2> QED  BY <1>1, <2>1 DEF ConfigRows
  <1>4. CnsRows
    BY DEF Init, CnsRows, Names!Empty
  <1> QED  BY <1>1, <1>2, <1>3, <1>4 DEF IndInv

\* What every step keeps, and what the two action properties say of it.
StepRefused ==
  ret'[1] \notin {"ok", "none"} =>
    UNCHANGED <<nodes, config, cns, parallel, parallelTable, number>>
StepSettled ==
  /\ \A n \in Names!Rows : \A v \in Names!Keys :
       cns[n][v] # Names!NoAddress => cns'[n][v] = cns[n][v]
  /\ \A k \in Conf!Rows : config'[k] # config[k] => config'[k].enableNumber = number + 1
  /\ \A k \in Conf!Rows : config'[k].enableNumber >= config[k].enableNumber

\* Rows that a step leaves alone are settled.
LEMMA ConfigKept ==
  ASSUME ConfigRows, config' = config
  PROVE  /\ \A k \in Conf!Rows : config'[k] # config[k] => config'[k].enableNumber = number + 1
         /\ \A k \in Conf!Rows : config'[k].enableNumber >= config[k].enableNumber
  <1>1. \A k \in Conf!Rows : config[k].enableNumber \in Int
    BY DEF ConfigRows
  <1> QED  BY <1>1

\* Every step keeps the invariant, changes nothing when it refuses and keeps what is settled.
LEMMA StepInv == IndInv /\ [Next]_vars => IndInv' /\ StepRefused /\ StepSettled
  <1> SUFFICES ASSUME IndInv, [Next]_vars PROVE IndInv' /\ StepRefused /\ StepSettled
    OBVIOUS
  <1>0. number \in Nat /\ Listed /\ ConfigRows /\ CnsRows
    BY DEF IndInv
  <1>1. CASE UNCHANGED <<nodes, config, cns, parallel, parallelTable, number>>
    <2>1. IndInv'
      BY <1>0, <1>1 DEF IndInv, Listed, List, ConfigRows, CnsRows, Sealers!HasSealer
    <2> QED  BY <1>0, <1>1, <2>1, ConfigKept DEF StepRefused, StepSettled
  <1>2. CASE NextBlock
    <2>1. /\ number' = number + 1 /\ ret' = <<"none">> /\ nodes' = nodes /\ config' = config
          /\ cns' = cns
      BY <1>2 DEF NextBlock
    <2>2. Listed'
      <3>1. \A n \in DOMAIN nodes : nodes[n].enableNumber \in Int
        <4>1. \A n \in DOMAIN nodes : nodes[n] \in NodeRows
          BY <1>0 DEF Listed, List
        <4> QED  BY <4>1 DEF NodeRows
      <3>2. \A n \in DOMAIN nodes : nodes[n].enableNumber <= number + 2
        BY <1>0, <3>1 DEF Listed, List
      <3> QED  BY <1>0, <2>1, <3>2 DEF Listed, List, Sealers!HasSealer
    <2>3. ConfigRows'
      <3>1. \A k \in Conf!Rows : config[k].enableNumber \in Int
        BY <1>0 DEF ConfigRows
      <3> QED  BY <1>0, <2>1, <3>1 DEF ConfigRows
    <2>4. IndInv'
      BY <1>0, <2>1, <2>2, <2>3 DEF IndInv, CnsRows
    <2> QED  BY <1>0, <2>1, <2>4, ConfigKept DEF StepRefused, StepSettled
  <1>3. CASE CallConsensus
    <2>1. Sealers!call /\ config' = config /\ cns' = cns
          /\ parallel' = parallel /\ parallelTable' = parallelTable
      BY <1>3 DEF CallConsensus, configRows, cnsRows, parallelRows
    <2>2. number' = number /\ (nodes' = nodes \/ (Written(nodes') /\ ret' = <<"ok">>))
      BY <1>0, <2>1, ConsensusCall
    <2>3. CASE nodes' = nodes
      BY <1>1, <2>1, <2>2, <2>3
    <2>4. CASE Written(nodes') /\ ret' = <<"ok">>
      <3>1. Listed'
        BY <2>2, <2>4 DEF Written, Listed, List
      <3>2. ConfigRows' /\ CnsRows'
        BY <1>0, <2>1, <2>2 DEF ConfigRows, CnsRows
      <3> QED  BY <1>0, <2>1, <2>2, <2>4, <3>1, <3>2, ConfigKept DEF IndInv, StepRefused, StepSettled
    <2> QED  BY <2>2, <2>3, <2>4
  <1>4. CASE CallConfig
    <2>1. Conf!call /\ nodes' = nodes /\ cns' = cns
          /\ parallel' = parallel /\ parallelTable' = parallelTable
      BY <1>4 DEF CallConfig, consensusRows, cnsRows, parallelRows
    <2>2. /\ number' = number
          /\ \/ config' = config
             \/ /\ ret' = <<"ok">>
                /\ \E k \in Conf!Rows, v \in Values :
                     config' = [config EXCEPT ![k] = [value |-> v, enableNumber |-> number + 1]]
      BY <1>0, <2>1, ConfigCall
    <2>3. CASE config' = config
      BY <1>1, <2>1, <2>2, <2>3
    <2>4. CASE config' # config
      <3>1. PICK k \in Conf!Rows, v \in Values :
              config' = [config EXCEPT ![k] = [value |-> v, enableNumber |-> number + 1]]
        BY <2>2, <2>4
      <3>2. /\ ConfigRows'
            /\ \A j \in Conf!Rows : config'[j] # config[j] => config'[j].enableNumber = number + 1
            /\ \A j \in Conf!Rows : config'[j].enableNumber >= config[j].enableNumber
        BY <1>0, <2>2, <3>1, ConfigWritten
      <3>3. Listed' /\ CnsRows'
        BY <1>0, <2>1, <2>2 DEF Listed, List, CnsRows, Sealers!HasSealer
      <3>4. ret' = <<"ok">>
        BY <2>2, <2>4
      <3>5. IndInv'
        BY <1>0, <2>2, <3>2, <3>3 DEF IndInv
      <3>6. StepRefused
        BY <3>4 DEF StepRefused
      <3>7. StepSettled
        BY <2>1, <3>2 DEF StepSettled
      <3> QED  BY <3>5, <3>6, <3>7
    <2> QED  BY <2>3, <2>4
  <1>5. CASE CallCNS
    <2>1. Names!call /\ nodes' = nodes /\ config' = config /\ number' = number
          /\ parallel' = parallel /\ parallelTable' = parallelTable
      BY <1>5 DEF CallCNS, consensusRows, configRows, parallelRows
    <2>2. \/ cns' = cns
          \/ /\ ret' = <<"ok">>
             /\ \E n \in Names!Rows, v \in Names!Keys, a \in Addresses :
                  cns[n][v] = Names!NoAddress /\ cns' = [cns EXCEPT ![n][v] = a]
      BY <2>1, CnsCall
    <2>3. CASE cns' = cns
      BY <1>1, <2>1, <2>3
    <2>4. CASE cns' # cns
      <3>1. PICK n \in Names!Rows, v \in Names!Keys, a \in Addresses :
              cns[n][v] = Names!NoAddress /\ cns' = [cns EXCEPT ![n][v] = a]
        BY <2>2, <2>4
      <3>2. /\ CnsRows'
            /\ \A m \in Names!Rows, w \in Names!Keys :
                 cns[m][w] # Names!NoAddress => cns'[m][w] = cns[m][w]
        BY <1>0, <3>1, CnsWritten
      <3>3. Listed' /\ ConfigRows'
        BY <1>0, <2>1 DEF Listed, List, ConfigRows, Sealers!HasSealer
      <3>4. ret' = <<"ok">>
        BY <2>2, <2>4
      <3>5. IndInv'
        BY <1>0, <2>1, <3>2, <3>3 DEF IndInv
      <3>6. StepRefused
        BY <3>4 DEF StepRefused
      <3>7. StepSettled
        BY <1>0, <2>1, <3>2, ConfigKept DEF StepSettled
      <3> QED  BY <3>5, <3>6, <3>7
    <2> QED  BY <2>3, <2>4
  <1>6. CASE CallParallel
    <2>1. Par!call /\ nodes' = nodes /\ config' = config /\ number' = number
          /\ cns' = cns
      BY <1>6 DEF CallParallel, consensusRows, configRows, cnsRows
    <2>2. (parallel' = parallel /\ parallelTable' = parallelTable) \/ ret' = <<"ok">>
      BY <2>1, ParallelCall
    <2>3. IndInv'
      BY <1>0, <2>1 DEF IndInv, Listed, List, ConfigRows, CnsRows, Sealers!HasSealer
    <2> QED  BY <1>0, <2>1, <2>2, <2>3, ConfigKept DEF StepRefused, StepSettled
  <1>7. CASE UNCHANGED vars
    BY <1>1, <1>7 DEF vars
  <1> QED  BY <1>2, <1>3, <1>4, <1>5, <1>6, <1>7 DEF Next

-----------------------------------------------------------------------------
(* The theorems.                                                            *)

\* The node list stays well formed, and so do the rows of the other contracts.
THEOREM Invariance == Spec => []IndInv
  <1>1. IndInv /\ [Next]_vars => IndInv'
    BY StepInv
  <1> QED  BY <1>1, InitInv, PTL DEF Spec

\* However calls add, demote, remove and reweight nodes, in whatever case they write the
\* IDs and in however many blocks, every node is listed once and a sealer that can vote
\* from the next block on remains.
THEOREM SealerRemainsHolds == Spec => []SealerRemains
  <1>1. IndInv => SealerRemains
    <2> SUFFICES ASSUME IndInv PROVE SealerRemains
      OBVIOUS
    <2>1. \A n \in DOMAIN nodes : nodes[n] \in NodeRows
      BY DEF IndInv, Listed, List
    <2>2. \A n \in DOMAIN nodes : LowerId(nodes[n].nodeID) = nodes[n].nodeID
      BY <2>1, LowerAssumption DEF NodeRows, Ids
    <2> QED  BY <2>2 DEF IndInv, Listed, List, SealerRemains, Sealers!HasSealer
  <1> QED  BY <1>1, Invariance, PTL

\* A call that is answered with an error code has changed no row of any system contract.
THEOREM RefusedChangesNothingHolds == Spec => RefusedChangesNothing
  <1>1. IndInv /\ [Next]_vars => [StepRefused]_vars
    BY StepInv
  <1> QED  BY <1>1, Invariance, PTL DEF Spec, RefusedChangesNothing, StepRefused

\* A registered address never changes, and a configuration value changes only for the
\* block after the change.
THEOREM SettledStaysHolds == Spec => SettledStays
  <1>1. IndInv /\ [Next]_vars => [StepSettled]_vars
    BY StepInv
  <1> QED  BY <1>1, Invariance, PTL DEF Spec, SettledStays, StepSettled

-----------------------------------------------------------------------------
(* The contract file system.                                                *)

\* What stands between slashes.  The provers know of no string that it is in STRING.
Name == STRING \cup {"", "apps", "tables"}
Empty == ""

\* A path without an empty component.
Plain(p) == p \in Seq(Name) /\ \A n \in 1 .. Len(p) : p[n] # Empty

-----------------------------------------------------------------------------
(* Paths.                                                                   *)

\* A set of natural numbers has a least member.
LEMMA LeastOf ==
  ASSUME NEW B, B \subseteq Nat, B # {}
  PROVE  \E n \in B : \A m \in B : n <= m
  <1> DEFINE R == OpToRel(<, Nat)
  <1>1. \A m, n \in Nat : m < n => <<m, n>> \in R
    BY DEF OpToRel
  <1>2. IsWellFoundedOn(R, Nat)
    BY NatLessThanWellFounded
  <1> HIDE DEF R
  <1>3. PICK n \in B : \A m \in B : ~ (<<m, n>> \in R)
    BY <1>2, WFMin
  <1>4. ASSUME NEW m \in B PROVE n <= m
    <2>1. ~ (m < n) /\ m \in Nat /\ n \in Nat
      BY <1>1, <1>3
    <2> QED
      BY <2>1
  <1> QED
    BY <1>4

\* The first n components.
LEMMA FirstOf ==
  ASSUME NEW d \in Seq(Name), NEW n \in 0 .. Len(d)
  PROVE  /\ SubSeq(d, 1, n) \in Seq(Name) /\ Len(SubSeq(d, 1, n)) = n
         /\ \A i \in 1 .. n : SubSeq(d, 1, n)[i] = d[i]
  OBVIOUS

\* A path and its last component.
LEMMA AppendFacts ==
  ASSUME NEW d \in Seq(Name), NEW n \in Name
  PROVE  /\ Append(d, n) \in Seq(Name) /\ Append(d, n) # <<>>
         /\ Len(Append(d, n)) = Len(d) + 1
         /\ Append(d, n)[Len(d) + 1] = n
         /\ \A i \in 1 .. Len(d) : Append(d, n)[i] = d[i]
         /\ Front(Append(d, n)) = d /\ Last(Append(d, n)) = n
  <1> DEFINE p == Append(d, n)
  <1>1. p \in Seq(Name) /\ Len(p) = Len(d) + 1 /\ p[Len(d) + 1] = n
        /\ \A i \in 1 .. Len(d) : p[i] = d[i]
    OBVIOUS
  <1>2. p # <<>>
    BY <1>1
  <1> HIDE DEF p
  <1> DEFINE f == SubSeq(p, 1, Len(p) - 1)
  <1>3. f \in Seq(Name) /\ Len(f) = Len(d) /\ \A i \in 1 .. Len(d) : f[i] = p[i]
    BY <1>1
  <1> HIDE DEF f
  <1>4. f = d
    BY <1>1, <1>3, SeqEqual
  <1>5. Front(p) = f /\ Last(p) = p[Len(p)]
    BY DEF Front, Last, f
  <1> QED
    BY <1>1, <1>2, <1>4, <1>5 DEF p

\* Two paths are the same only if directory and name are.
LEMMA SamePath ==
  ASSUME NEW c \in Seq(Name), NEW d \in Seq(Name), NEW m \in Name, NEW n \in Name,
         Append(c, m) = Append(d, n)
  PROVE  c = d /\ m = n
  BY AppendFacts

\* The directory and the name of a path.
LEMMA FrontLast ==
  ASSUME NEW p \in Seq(Name), p # <<>>
  PROVE  /\ Front(p) \in Seq(Name) /\ Last(p) \in Name
         /\ Len(Front(p)) = Len(p) - 1 /\ Last(p) = p[Len(p)]
         /\ \A i \in 1 .. Len(p) - 1 : Front(p)[i] = p[i]
         /\ p = Append(Front(p), Last(p))
  <1> DEFINE f == SubSeq(p, 1, Len(p) - 1)
  <1>1. Len(p) \in Nat \ {0}
    BY EmptySeq
  <1>2. f \in Seq(Name) /\ Len(f) = Len(p) - 1 /\ \A i \in 1 .. Len(p) - 1 : f[i] = p[i]
    <2> DEFINE k == Len(p) - 1
    <2>1. k \in 0 .. Len(p)
      BY <1>1
    <2> HIDE DEF k
    <2>2. SubSeq(p, 1, k) \in Seq(Name) /\ Len(SubSeq(p, 1, k)) = k
          /\ \A i \in 1 .. k : SubSeq(p, 1, k)[i] = p[i]
      BY <2>1, FirstOf
    <2> QED
      BY <2>2 DEF k, f
  <1>3. p[Len(p)] \in Name
    BY <1>1
  <1>4. Front(p) = f /\ Last(p) = p[Len(p)]
    BY DEF Front, Last
  <1> HIDE DEF f
  <1> DEFINE a == Append(f, p[Len(p)])
  <1>5. a \in Seq(Name) /\ Len(a) = Len(p) /\ a[Len(p)] = p[Len(p)]
        /\ \A i \in 1 .. Len(p) - 1 : a[i] = p[i]
    BY <1>1, <1>2, <1>3
  <1> HIDE DEF a
  <1>6. \A i \in 1 .. Len(p) : a[i] = p[i]
    BY <1>1, <1>5
  <1>7. a = p
    BY <1>5, <1>6, SeqEqual
  <1> QED
    BY <1>2, <1>3, <1>4, <1>7 DEF a

\* A directory is shorter than what is in it.
LEMMA Shorter ==
  ASSUME NEW p \in Seq(Name), p # <<>>
  PROVE  ~ (Len(p) <= Len(Front(p)))
  <1>1. Len(Front(p)) = Len(p) - 1 /\ Len(p) \in Nat
    BY FrontLast
  <1> QED
    BY <1>1

\* mkdir refuses shorter paths.
LEMMA TwoComponents ==
  ASSUME NEW p \in Seq(Name), Len(p) >= 2
  PROVE  p # <<>>
  <1>1. Len(<<>>) = 0
    BY EmptySeq
  <1>2. Len(p) # 0
    OBVIOUS
  <1> QED
    BY <1>1, <1>2, Zenon

\* The beginnings of a path.
LEMMA Beginning ==
  ASSUME NEW d \in Seq(Name), NEW n \in 1 .. Len(d)
  PROVE  /\ SubSeq(d, 1, n) \in Seq(Name) /\ Len(SubSeq(d, 1, n)) = n
         /\ SubSeq(d, 1, n - 1) \in Seq(Name) /\ Len(SubSeq(d, 1, n - 1)) = n - 1
         /\ d[n] \in Name
         /\ SubSeq(d, 1, n) = Append(SubSeq(d, 1, n - 1), d[n])
         /\ SubSeq(d, 1, n) # <<>>
         /\ Plain(d) => Plain(SubSeq(d, 1, n)) /\ d[n] # Empty
  <1> DEFINE a == SubSeq(d, 1, n)
             b == SubSeq(d, 1, n - 1)
  <1>1. a \in Seq(Name) /\ Len(a) = n /\ \A i \in 1 .. n : a[i] = d[i]
    OBVIOUS
  <1>2. b \in Seq(Name) /\ Len(b) = n - 1 /\ \A i \in 1 .. n - 1 : b[i] = d[i]
    OBVIOUS
  <1>3. d[n] \in Name
    OBVIOUS
  <1> HIDE DEF a, b
  <1> DEFINE c == Append(b, d[n])
  <1>4. c \in Seq(Name) /\ Len(c) = n /\ c[n] = d[n] /\ \A i \in 1 .. n - 1 : c[i] = d[i]
    BY <1>2, <1>3
  <1> HIDE DEF c
  <1>5. \A i \in 1 .. n : c[i] = a[i]
    BY <1>1, <1>4
  <1>6. c = a
    BY <1>1, <1>4, <1>5, SeqEqual
  <1>7. a # <<>>
    BY <1>1
  <1>8. ASSUME Plain(d) PROVE Plain(a) /\ d[n] # Empty
    <2>1. \A i \in 1 .. Len(d) : d[i] # Empty
      BY <1>8 DEF Plain
    <2>2. \A i \in 1 .. n : a[i] # Empty
      BY <1>1, <2>1
    <2> QED
      BY <1>1, <2>1, <2>2 DEF Plain
  <1> QED
    BY <1>1, <1>2, <1>3, <1>6, <1>7, <1>8 DEF a, b, c

\* All components, and none.
LEMMA WholePath ==
  ASSUME NEW d \in Seq(Name)
  PROVE  SubSeq(d, 1, Len(d)) = d /\ SubSeq(d, 1, 0) = <<>>
  <1> DEFINE a == SubSeq(d, 1, Len(d))
  <1>1. a \in Seq(Name) /\ Len(a) = Len(d) /\ \A i \in 1 .. Len(d) : a[i] = d[i]
    OBVIOUS
  <1> HIDE DEF a
  <1>2. a = d
    BY <1>1, SeqEqual
  <1>3. SubSeq(d, 1, 0) = <<>>
    OBVIOUS
  <1> QED
    BY <1>2, <1>3 DEF a

\* The recursive function of NamesOf, up to m components.
Collects(q, m, g) ==
  g = [n \in 0 .. m |->
         IF n = 0 THEN <<>> ELSE IF q[n] = Empty THEN g[n - 1] ELSE Append(g[n - 1], q[n])]

\* Its values.
LEMMA CollectsAt ==
  ASSUME NEW q, NEW m \in Nat, NEW g, Collects(q, m, g)
  PROVE  /\ g[0] = <<>>
         /\ \A n \in 1 .. m : g[n] = IF q[n] = Empty THEN g[n - 1] ELSE Append(g[n - 1], q[n])
  <1>1. \A n \in 0 .. m : g[n] = IF n = 0 THEN <<>> ELSE IF q[n] = Empty THEN g[n - 1]
                                 ELSE Append(g[n - 1], q[n])
    BY DEF Collects
  <1> QED
    BY <1>1

\* It exists: a shortest path for which it does not would have one that is shorter.
LEMMA CollectsExists ==
  ASSUME NEW q, NEW m \in Nat
  PROVE  \E g : Collects(q, m, g)
  <1> DEFINE B == {k \in Nat : ~ \E g : Collects(q, k, g)}
  <1> SUFFICES ASSUME B # {} PROVE FALSE
    OBVIOUS
  <1>1. PICK k \in B : \A j \in B : k <= j
    <2> HIDE DEF B
    <2>1. B \subseteq Nat
      BY DEF B
    <2> QED
      BY <2>1, LeastOf
  <1>2. CASE k = 0
    <2> DEFINE z == [n \in 0 .. 0 |-> <<>>]
    <2>1. z = [n \in 0 .. 0 |-> IF n = 0 THEN <<>> ELSE IF q[n] = Empty THEN z[n - 1]
                                ELSE Append(z[n - 1], q[n])]
      OBVIOUS
    <2> HIDE DEF z
    <2>2. Collects(q, 0, z)
      BY <2>1 DEF Collects
    <2> QED
      BY <1>2, <2>2
  <1>3. CASE k # 0
    <2>1. k - 1 \in Nat /\ k - 1 \notin B
      BY <1>1, <1>3
    <2>2. PICK g : Collects(q, k - 1, g)
      BY <2>1
    <2> DEFINE h == [n \in 0 .. k |->
                       IF n < k THEN g[n]
                       ELSE IF q[k] = Empty THEN g[k - 1] ELSE Append(g[k - 1], q[k])]
    <2>3. /\ g[0] = <<>>
          /\ \A n \in 1 .. k - 1 : g[n] = IF q[n] = Empty THEN g[n - 1]
                                          ELSE Append(g[n - 1], q[n])
      BY <2>1, <2>2, CollectsAt
    <2>4. \A n \in 0 .. k - 1 : h[n] = g[n]
      BY <2>1
    <2>5. h[k] = IF q[k] = Empty THEN g[k - 1] ELSE Append(g[k - 1], q[k])
      BY <2>1
    <2>6. h = [n \in 0 .. k |-> h[n]]
      OBVIOUS
    <2> HIDE DEF h
    <2>7. h[0] = <<>>
      BY <2>1, <2>3, <2>4
    <2>8. ASSUME NEW n \in 1 .. k
          PROVE  h[n] = IF q[n] = Empty THEN h[n - 1] ELSE Append(h[n - 1], q[n])
      <3>1. h[n - 1] = g[n - 1]
        BY <2>1, <2>4
      <3>2. CASE n = k
        BY <2>5, <3>1, <3>2
      <3>3. CASE n # k
        <4>1. n \in 1 .. k - 1 /\ n \in 0 .. k - 1
          BY <2>1, <3>3
        <4>2. h[n] = g[n]
          BY <2>4, <4>1
        <4> QED
          BY <2>3, <3>1, <4>1, <4>2
      <3> QED
        BY <3>2, <3>3
    <2>9. ASSUME NEW n \in 0 .. k
          PROVE  h[n] = IF n = 0 THEN <<>> ELSE IF q[n] = Empty THEN h[n - 1]
                        ELSE Append(h[n - 1], q[n])
      <3>1. CASE n = 0
        BY <2>7, <3>1
      <3>2. CASE n # 0
        <4>1. n \in 1 .. k
          BY <2>1, <3>2
        <4> QED
          BY <2>8, <3>2, <4>1
      <3> QED
        BY <3>1, <3>2
    <2>10. Collects(q, k, h)
      BY <2>6, <2>9 DEF Collects
    <2> QED
      BY <1>1, <2>10
  <1> QED
    BY <1>2, <1>3

\* NamesOf drops the empty components and nothing else.
LEMMA NamesFacts ==
  ASSUME NEW q \in Seq(Name)
  PROVE  /\ Plain(NamesOf(q))
         /\ Plain(q) => NamesOf(q) = q
         /\ q # <<>> /\ q[Len(q)] # Empty => NamesOf(q) # <<>>
  <1> DEFINE L == Len(q)
  <1>1. L \in Nat
    OBVIOUS
  <1>2. PICK g : Collects(q, L, g) /\ NamesOf(q) = g[L]
    <2>1. NamesOf(q) = (CHOOSE g : Collects(q, L, g))[L]
      BY DEF NamesOf, Collects, Empty
    <2>2. \E g : Collects(q, L, g)
      BY <1>1, CollectsExists
    <2> QED
      BY <2>1, <2>2
  <1>3. /\ g[0] = <<>>
        /\ \A n \in 1 .. L : g[n] = IF q[n] = Empty THEN g[n - 1] ELSE Append(g[n - 1], q[n])
    BY <1>1, <1>2, CollectsAt
  <1> HIDE DEF L
  <1> DEFINE Good(n) == Plain(g[n]) /\ (Plain(q) => g[n] = SubSeq(q, 1, n))
             B == {n \in 0 .. L : ~ Good(n)}
  <1>4. Good(0)
    <2>1. SubSeq(q, 1, 0) = <<>>
      BY WholePath
    <2>2. <<>> \in Seq(Name) /\ Len(<<>>) = 0
      BY EmptySeq
    <2>3. Plain(<<>>)
      BY <2>2 DEF Plain
    <2> QED
      BY <1>3, <2>1, <2>3
  <1>5. ASSUME NEW n \in 1 .. L, Good(n - 1) PROVE Good(n)
    <2>0. n \in 1 .. Len(q)
      BY DEF L
    <2>1. q[n] \in Name /\ SubSeq(q, 1, n) = Append(SubSeq(q, 1, n - 1), q[n])
          /\ (Plain(q) => q[n] # Empty)
      BY <2>0, Beginning
    <2>2. CASE q[n] = Empty
      <3>1. g[n] = g[n - 1]
        BY <1>3, <2>2
      <3> QED
        BY <1>5, <2>1, <2>2, <3>1
    <2>3. CASE q[n] # Empty
      <3>1. g[n] = Append(g[n - 1], q[n])
        BY <1>3, <2>3
      <3>2. Plain(g[n - 1])
        BY <1>5
      <3>3. Plain(g[n])
        <4> DEFINE c == g[n - 1]
        <4>1. c \in Seq(Name) /\ \A i \in 1 .. Len(c) : c[i] # Empty
          BY <3>2 DEF Plain
        <4> HIDE DEF c
        <4> DEFINE a == Append(c, q[n])
        <4>2. a \in Seq(Name) /\ Len(a) = Len(c) + 1 /\ a[Len(c) + 1] = q[n]
              /\ \A i \in 1 .. Len(c) : a[i] = c[i]
          BY <2>1, <4>1
        <4>3. Len(c) \in Nat
          BY <4>1
        <4> HIDE DEF a
        <4>4. \A i \in 1 .. Len(a) : a[i] # Empty
          BY <2>3, <4>1, <4>2, <4>3
        <4>5. Plain(a)
          BY <4>2, <4>4 DEF Plain
        <4> QED
          BY <3>1, <4>5 DEF a, c
      <3> QED
        BY <1>5, <2>1, <3>1, <3>3
    <2> QED
      BY <2>2, <2>3
  <1> HIDE DEF Good
  <1>6. \A n \in 0 .. L : Good(n)
    <2> SUFFICES ASSUME B # {} PROVE FALSE
      OBVIOUS
    <2>1. PICK n \in B : \A j \in B : n <= j
      <3>1. B \subseteq Nat
        BY <1>1
      <3> HIDE DEF B
      <3> QED
        BY <3>1, LeastOf
    <2>2. n # 0
      BY <1>4, <2>1
    <2>3. n \in 1 .. L /\ n - 1 \in 0 .. L /\ n - 1 \notin B
      BY <1>1, <2>1, <2>2
    <2> QED
      BY <1>5, <2>1, <2>3
  <1>7. Plain(q) => SubSeq(q, 1, L) = q
    BY WholePath DEF L
  <1>8. ASSUME q # <<>>, q[Len(q)] # Empty PROVE g[L] # <<>>
    <2>1. L \in 1 .. L /\ L \in 1 .. Len(q)
      BY <1>1, <1>8, EmptySeq DEF L
    <2>2. g[L] = Append(g[L - 1], q[L])
      BY <1>3, <1>8, <2>1 DEF L
    <2>3. L - 1 \in 0 .. L
      BY <1>1, <2>1
    <2>4. Good(L - 1)
      BY <1>6, <2>3
    <2>5. g[L - 1] \in Seq(Name) /\ q[L] \in Name
      BY <2>1, <2>4, Beginning DEF Good, Plain
    <2> QED
      BY <2>2, <2>5, AppendFacts
  <1> QED
    BY <1>1, <1>2, <1>6, <1>7, <1>8 DEF Good

\* A path without empty components is its own normal form, and the normal form of any
\* other has them at most at its end.
LEMMA NormFacts ==
  ASSUME NEW p \in Seq(Name)
  PROVE  /\ Norm(p) \in Seq(Name)
         /\ Plain(p) => Norm(p) = p
         /\ p # <<>> /\ p # <<Empty>> =>
              Norm(p) # <<>> /\ Plain(Front(Norm(p)))
  <1> DEFINE q == IF p # <<>> /\ Last(p) = Empty THEN Front(p) ELSE p
             r == NamesOf(q)
  <1>1. Norm(p) = IF q # <<>> /\ Last(q) = Empty THEN Append(r, Empty) ELSE r
    BY DEF Norm, Empty
  <1>2. q \in Seq(Name)
    BY FrontLast
  <1>3. Empty \in Name
    BY DEF Name, Empty
  <1>4. Plain(p) => q = p /\ (q # <<>> => Last(q) # Empty)
    <2> SUFFICES ASSUME Plain(p), p # <<>> PROVE Last(p) # Empty
      OBVIOUS
    <2>1. Len(p) \in 1 .. Len(p) /\ Last(p) = p[Len(p)]
      BY EmptySeq, FrontLast
    <2> QED
      BY <2>1 DEF Plain
  <1>5. p # <<>> /\ p # <<Empty>> => q # <<>>
    <2> SUFFICES ASSUME p # <<>>, p # <<Empty>>, Last(p) = Empty PROVE Front(p) # <<>>
      OBVIOUS
    <2>1. p = Append(Front(p), Empty)
      BY FrontLast
    <2>2. Append(<<>>, Empty) = <<Empty>>
      OBVIOUS
    <2> QED
      BY <2>1, <2>2
  <1> HIDE DEF q
  <1>6. /\ Plain(r) /\ r \in Seq(Name) /\ (Plain(q) => r = q)
        /\ q # <<>> /\ Last(q) # Empty => r # <<>>
    <2>1. q # <<>> => Last(q) = q[Len(q)]
      BY <1>2, FrontLast
    <2> QED
      BY <1>2, <2>1, NamesFacts DEF Plain
  <1> HIDE DEF r
  <1>7. Append(r, Empty) \in Seq(Name) /\ Append(r, Empty) # <<>> /\ Front(Append(r, Empty)) = r
    BY <1>3, <1>6, AppendFacts
  <1>8. r # <<>> => Plain(Front(r))
    <2> SUFFICES ASSUME r # <<>> PROVE Plain(Front(r))
      OBVIOUS
    <2>1. Len(r) \in Nat \ {0}
      BY <1>6, EmptySeq
    <2>2. Front(r) \in Seq(Name) /\ Len(Front(r)) = Len(r) - 1
          /\ \A i \in 1 .. Len(r) - 1 : Front(r)[i] = r[i]
      BY <1>6, FrontLast
    <2>3. \A i \in 1 .. Len(r) : r[i] # Empty
      BY <1>6 DEF Plain
    <2>4. \A i \in 1 .. Len(r) - 1 : Front(r)[i] # Empty
      BY <2>1, <2>2, <2>3
    <2> QED
      BY <2>2, <2>4 DEF Plain
  <1>9. Norm(p) \in Seq(Name)
    BY <1>1, <1>6, <1>7
  <1>10. Plain(p) => Norm(p) = p
    BY <1>1, <1>4, <1>6
  <1>11. ASSUME p # <<>>, p # <<Empty>>
         PROVE  Norm(p) # <<>> /\ Plain(Front(Norm(p)))
    BY <1>1, <1>5, <1>6, <1>7, <1>8, <1>11
  <1> QED
    BY <1>9, <1>10, <1>11

-----------------------------------------------------------------------------
(* The tree.                                                                *)

Table == [kind : {"dir", "oddDir", "file", "oddFile"},
          sub : SUBSET (Name \X {"directory", "contract"})]

\* What a table should be listed as.
TypeOf(t, p) == IF t[p].kind = "dir" THEN "directory" ELSE "contract"

\* There is a table under another spelling of p.
Spelled(t, p) == \E q \in DOMAIN t : q # p /\ Norm(q) = p

Typed(t) ==
  /\ t \in [DOMAIN t -> Table] /\ DOMAIN t \subseteq Seq(Name)
  /\ <<>> \in DOMAIN t /\ t[<<>>].kind = "dir"

\* A directory lists a name once, and a table stands behind the name.
Once(t) == \A d \in DOMAIN t : \A e, f \in t[d].sub : e[1] = f[1] => e = f
Exist(t) ==
  \A d \in DOMAIN t : \A e \in t[d].sub : \E q \in DOMAIN t : Norm(q) = Append(d, e[1])

\* With the right type, for the tables that were not tampered with.
Right(t, w) ==
  \A d \in DOMAIN t : \A e \in t[d].sub : LET p == Append(d, e[1]) IN
    p \in DOMAIN t /\ p \notin w /\ ~ Spelled(t, p) => e[2] = TypeOf(t, p)

\* Every table but the root and those of X is listed.
Found(t, X) ==
  \A q \in DOMAIN t \ X : q # <<>> =>
    \E d \in DOMAIN t : \E e \in t[d].sub : Norm(q) = Append(d, e[1])

\* The inductive invariant, for tables t of which those of w were tampered with.
Tree(t, w, X) == Typed(t) /\ Once(t) /\ Exist(t) /\ Right(t, w) /\ Found(t, X)

\* Between t and u at most the entry was added, and then its name is listed.
Adds(t, u, dir, n, type) ==
  /\ u \in [DOMAIN t -> Table] /\ DOMAIN u = DOMAIN t
  /\ \A d \in DOMAIN t : u[d].kind = t[d].kind /\ t[d].sub \subseteq u[d].sub
  /\ \A d \in DOMAIN t : \A e \in u[d].sub :
       e \in t[d].sub \/ (d = dir /\ e = <<n, type>> /\ \A f \in t[d].sub : f[1] # n)
  /\ \E e \in u[dir].sub : e[1] = n

\* What AddSub does.
LEMMA AddSubFacts ==
  ASSUME NEW t, t \in [DOMAIN t -> Table], NEW dir \in DOMAIN t, NEW n \in Name,
         NEW type \in {"directory", "contract"}
  PROVE  Adds(t, AddSub(t, dir, n, type), dir, n, type)
  <1> DEFINE u == AddSub(t, dir, n, type)
             s == IF \E e \in t[dir].sub : e[1] = n THEN t[dir].sub
                  ELSE t[dir].sub \cup {<<n, type>>}
  <1>1. u = [t EXCEPT ![dir].sub = s]
    BY DEF AddSub
  <1>2. t[dir] \in Table /\ t[dir].sub \subseteq Name \X {"directory", "contract"}
    BY DEF Table
  <1>3. <<n, type>> \in Name \X {"directory", "contract"} /\ <<n, type>>[1] = n
    OBVIOUS
  <1>4. s \subseteq Name \X {"directory", "contract"} /\ t[dir].sub \subseteq s
    BY <1>2, <1>3
  <1>5. \E e \in s : e[1] = n
    BY <1>3
  <1>6. \A e \in s : e \in t[dir].sub \/ (e = <<n, type>> /\ \A f \in t[dir].sub : f[1] # n)
    OBVIOUS
  <1> HIDE DEF s
  <1> DEFINE x == [t[dir] EXCEPT !.sub = s]
  <1>7. x \in Table /\ x.kind = t[dir].kind /\ x.sub = s
    BY <1>2, <1>4 DEF Table
  <1>8. u = [t EXCEPT ![dir] = x]
    BY <1>1
  <1> HIDE DEF x
  <1>9. /\ u \in [DOMAIN t -> Table] /\ DOMAIN u = DOMAIN t
        /\ u[dir] = x /\ \A d \in DOMAIN t : d # dir => u[d] = t[d]
    BY <1>7, <1>8
  <1> HIDE DEF u
  <1>10. \A d \in DOMAIN t : u[d].kind = t[d].kind /\ t[d].sub \subseteq u[d].sub
    BY <1>4, <1>7, <1>9
  <1>11. \A d \in DOMAIN t : \A e \in u[d].sub :
           e \in t[d].sub \/ (d = dir /\ e = <<n, type>> /\ \A f \in t[d].sub : f[1] # n)
    BY <1>6, <1>7, <1>9
  <1>12. \E e \in u[dir].sub : e[1] = n
    BY <1>5, <1>7, <1>9
  <1> QED
    <2>1. Adds(t, u, dir, n, type)
      BY <1>9, <1>10, <1>11, <1>12 DEF Adds
    <2> QED
      BY <2>1 DEF u

\* A new table: whatever is listed under its path already is another spelling of it.
LEMMA NewTable ==
  ASSUME NEW t, NEW w, NEW X, Tree(t, w, X), NEW p \in Seq(Name), p \notin DOMAIN t,
         NEW x \in Table, x.sub = {}
  PROVE  Tree(With(t, p, x), w, X \cup {p})
  <1> DEFINE u == With(t, p, x)
  <1>1. /\ DOMAIN u = DOMAIN t \cup {p} /\ u = [q \in DOMAIN u |-> u[q]]
        /\ u[p] = x /\ \A q \in DOMAIN t : u[q] = t[q]
    BY DEF With
  <1> HIDE DEF u
  <1>2. Typed(u)
    <2>1. \A q \in DOMAIN u : u[q] \in Table
      BY <1>1 DEF Tree, Typed
    <2>2. u \in [DOMAIN u -> Table]
      BY <1>1, <2>1
    <2> QED
      BY <1>1, <2>2 DEF Tree, Typed
  <1>3. Once(u)
    BY <1>1 DEF Tree, Once
  <1>4. Exist(u)
    BY <1>1 DEF Tree, Exist
  <1>5. Right(u, w)
    <2> SUFFICES ASSUME NEW d \in DOMAIN u, NEW e \in u[d].sub,
                        Append(d, e[1]) \in DOMAIN u, Append(d, e[1]) \notin w,
                        ~ Spelled(u, Append(d, e[1]))
                 PROVE  e[2] = TypeOf(u, Append(d, e[1]))
      BY DEF Right
    <2> DEFINE c == Append(d, e[1])
    <2>1. d \in DOMAIN t /\ e \in t[d].sub
      BY <1>1
    <2>2. PICK q \in DOMAIN t : Norm(q) = c
      BY <2>1 DEF Tree, Exist
    <2> HIDE DEF c
    <2>3. ~ Spelled(t, c)
      BY <1>1 DEF Spelled, c
    <2>4. c = q
      BY <2>2, <2>3 DEF Spelled
    <2>5. e[2] = TypeOf(t, c)
      BY <2>1, <2>3, <2>4 DEF Tree, Right, c
    <2> QED
      BY <1>1, <2>4, <2>5 DEF TypeOf, c
  <1>6. Found(u, X \cup {p})
    BY <1>1 DEF Tree, Found
  <1> QED
    BY <1>2, <1>3, <1>4, <1>5, <1>6 DEF Tree, u

\* A table is listed.
LEMMA Link ==
  ASSUME NEW t, NEW w, NEW X, Tree(t, w, X), NEW q \in DOMAIN t, NEW dir \in DOMAIN t,
         NEW n \in Name, NEW type \in {"directory", "contract"},
         Norm(q) = Append(dir, n),
         Append(dir, n) \in DOMAIN t /\ ~ Spelled(t, Append(dir, n)) =>
           type = TypeOf(t, Append(dir, n))
  PROVE  Tree(AddSub(t, dir, n, type), w, X \ {q})
  <1> DEFINE u == AddSub(t, dir, n, type)
  <1>1. /\ u \in [DOMAIN t -> Table] /\ DOMAIN u = DOMAIN t
        /\ \A d \in DOMAIN t : u[d].kind = t[d].kind /\ t[d].sub \subseteq u[d].sub
        /\ \A d \in DOMAIN t : \A e \in u[d].sub :
             e \in t[d].sub \/ (d = dir /\ e = <<n, type>> /\ \A f \in t[d].sub : f[1] # n)
        /\ \E e \in u[dir].sub : e[1] = n
    <2>1. t \in [DOMAIN t -> Table]
      BY DEF Tree, Typed
    <2>2. Adds(t, u, dir, n, type)
      BY <2>1, AddSubFacts
    <2> HIDE DEF u
    <2> QED
      BY <2>2 DEF Adds
  <1> HIDE DEF u
  <1>2. Typed(u)
    BY <1>1 DEF Tree, Typed
  <1>3. Once(u)
    <2> SUFFICES ASSUME NEW d \in DOMAIN u, NEW e \in u[d].sub, NEW f \in u[d].sub, e[1] = f[1]
                 PROVE  e = f
      BY DEF Once
    <2>1. <<n, type>>[1] = n
      OBVIOUS
    <2>2. CASE e \in t[d].sub /\ f \in t[d].sub
      BY <1>1, <2>2 DEF Tree, Once
    <2> QED
      BY <1>1, <2>1, <2>2
  <1>4. Exist(u)
    <2> SUFFICES ASSUME NEW d \in DOMAIN u, NEW e \in u[d].sub
                 PROVE  \E r \in DOMAIN u : Norm(r) = Append(d, e[1])
      BY DEF Exist
    <2>1. CASE e \in t[d].sub
      BY <1>1, <2>1 DEF Tree, Exist
    <2>2. CASE d = dir /\ e = <<n, type>>
      <3>1. e[1] = n
        BY <2>2
      <3> QED
        BY <1>1, <2>2, <3>1
    <2> QED
      BY <1>1, <2>1, <2>2
  <1>5. \A r : Spelled(u, r) <=> Spelled(t, r)
    BY <1>1 DEF Spelled
  <1>6. \A r \in DOMAIN t : TypeOf(u, r) = TypeOf(t, r)
    BY <1>1 DEF TypeOf
  <1>7. Right(u, w)
    <2> SUFFICES ASSUME NEW d \in DOMAIN u, NEW e \in u[d].sub,
                        Append(d, e[1]) \in DOMAIN u, Append(d, e[1]) \notin w,
                        ~ Spelled(u, Append(d, e[1]))
                 PROVE  e[2] = TypeOf(u, Append(d, e[1]))
      BY DEF Right
    <2>1. CASE e \in t[d].sub
      BY <1>1, <1>5, <1>6, <2>1 DEF Tree, Right
    <2>2. CASE d = dir /\ e = <<n, type>>
      <3>1. e[1] = n /\ e[2] = type
        BY <2>2
      <3> QED
        BY <1>1, <1>5, <1>6, <2>2, <3>1
    <2> QED
      BY <1>1, <2>1, <2>2
  <1>8. Found(u, X \ {q})
    <2> SUFFICES ASSUME NEW r \in DOMAIN u \ (X \ {q}), r # <<>>
                 PROVE  \E d \in DOMAIN u : \E e \in u[d].sub : Norm(r) = Append(d, e[1])
      BY DEF Found
    <2>1. CASE r = q
      BY <1>1, <2>1
    <2>2. CASE r # q
      BY <1>1, <2>2 DEF Tree, Found
    <2> QED
      BY <2>1, <2>2
  <1> QED
    BY <1>2, <1>3, <1>4, <1>7, <1>8 DEF Tree, u

-----------------------------------------------------------------------------
(* Building directories.                                                    *)

\* The recursive function of recursiveBuildDir, up to m components.
Start(t) == [ok |-> TRUE, t |-> t]
Builds(t, d, m, s) ==
  s = [n \in 0 .. m |->
         IF n = 0 THEN Start(t) ELSE BuildStep(s[n - 1], d, n)]

\* Its values.
LEMMA BuildsAt ==
  ASSUME NEW t, NEW d, NEW m \in Nat, NEW s, Builds(t, d, m, s)
  PROVE  /\ s[0] = Start(t)
         /\ \A n \in 1 .. m : s[n] = BuildStep(s[n - 1], d, n)
  <1>1. \A n \in 0 .. m : s[n] = IF n = 0 THEN Start(t)
                                 ELSE BuildStep(s[n - 1], d, n)
    BY DEF Builds
  <1> QED
    BY <1>1

\* It exists.
LEMMA BuildsExists ==
  ASSUME NEW t, NEW d, NEW m \in Nat
  PROVE  \E s : Builds(t, d, m, s)
  <1> DEFINE B == {k \in Nat : ~ \E s : Builds(t, d, k, s)}
  <1> SUFFICES ASSUME B # {} PROVE FALSE
    OBVIOUS
  <1>1. PICK k \in B : \A j \in B : k <= j
    <2> HIDE DEF B
    <2>1. B \subseteq Nat
      BY DEF B
    <2> QED
      BY <2>1, LeastOf
  <1>2. CASE k = 0
    <2> DEFINE z == [n \in 0 .. 0 |-> Start(t)]
    <2>1. z = [n \in 0 .. 0 |-> IF n = 0 THEN Start(t) ELSE BuildStep(z[n - 1], d, n)]
      OBVIOUS
    <2> HIDE DEF z
    <2>2. Builds(t, d, 0, z)
      BY <2>1 DEF Builds
    <2> QED
      BY <1>2, <2>2
  <1>3. CASE k # 0
    <2>1. k - 1 \in Nat /\ k - 1 \notin B
      BY <1>1, <1>3
    <2>2. PICK g : Builds(t, d, k - 1, g)
      BY <2>1
    <2> DEFINE h == [n \in 0 .. k |-> IF n < k THEN g[n] ELSE BuildStep(g[k - 1], d, k)]
    <2>3. g[0] = Start(t) /\ \A n \in 1 .. k - 1 : g[n] = BuildStep(g[n - 1], d, n)
      BY <2>1, <2>2, BuildsAt
    <2>4. \A n \in 0 .. k - 1 : h[n] = g[n]
      BY <2>1
    <2>5. h[k] = BuildStep(g[k - 1], d, k)
      BY <2>1
    <2>6. h = [n \in 0 .. k |-> h[n]]
      OBVIOUS
    <2> HIDE DEF h
    <2>7. ASSUME NEW n \in 0 .. k
          PROVE  h[n] = IF n = 0 THEN Start(t) ELSE BuildStep(h[n - 1], d, n)
      <3>1. CASE n = 0
        BY <2>1, <2>3, <2>4, <3>1
      <3>2. CASE n # 0 /\ n = k
        <4>1. h[n - 1] = g[n - 1]
          BY <2>1, <2>4, <3>2
        <4> QED
          BY <2>5, <3>2, <4>1
      <3>3. CASE n # 0 /\ n # k
        <4>1. n \in 1 .. k - 1 /\ n \in 0 .. k - 1 /\ n - 1 \in 0 .. k - 1
          BY <2>1, <3>3
        <4>2. h[n] = g[n] /\ h[n - 1] = g[n - 1]
          BY <2>4, <4>1
        <4>3. g[n] = BuildStep(g[n - 1], d, n)
          BY <2>3, <4>1
        <4> QED
          BY <3>3, <4>2, <4>3
      <3> QED
        BY <3>1, <3>2, <3>3
    <2>8. Builds(t, d, k, h)
      BY <2>6, <2>7 DEF Builds
    <2> QED
      BY <1>1, <2>8
  <1> QED
    BY <1>2, <1>3

\* The three ways of BuildStep.
Record(s) == s = [ok |-> s.ok, t |-> s.t] /\ s.ok \in BOOLEAN

LEMMA StepFacts ==
  ASSUME NEW s, Record(s), NEW d, NEW n
  PROVE  LET r == BuildStep(s, d, n)
             next == SubSeq(d, 1, n) IN
         /\ Record(r)
         /\ ~ s.ok => ~ r.ok /\ r.t = s.t
         /\ s.ok /\ next \in DOMAIN s.t => (r.ok <=> s.t[next].kind = "dir") /\ r.t = s.t
         /\ s.ok /\ next \notin DOMAIN s.t =>
              /\ r.ok
              /\ r.t = AddSub(With(s.t, next, Dir), SubSeq(d, 1, n - 1), d[n], "directory")
  <1> DEFINE r == BuildStep(s, d, n)
             next == SubSeq(d, 1, n)
             made == AddSub(With(s.t, next, Dir), SubSeq(d, 1, n - 1), d[n], "directory")
             isDir == s.t[next].kind = "dir"
  <1>1. CASE ~ s.ok
    <2>1. r = s
      BY <1>1 DEF BuildStep
    <2> QED
      BY <1>1, <2>1
  <1>2. CASE s.ok /\ next \in DOMAIN s.t
    <2>1. r = [s EXCEPT !.ok = isDir]
      BY <1>2 DEF BuildStep
    <2>2. isDir \in BOOLEAN
      OBVIOUS
    <2> HIDE DEF isDir
    <2>3. r = [ok |-> isDir, t |-> s.t]
      BY <2>1 DEF Record
    <2> HIDE DEF r
    <2>4. Record(r) /\ r.ok = isDir /\ r.t = s.t
      BY <2>2, <2>3 DEF Record
    <2> QED
      BY <1>2, <2>4 DEF isDir, r
  <1>3. CASE s.ok /\ next \notin DOMAIN s.t
    <2>1. r = [s EXCEPT !.t = made]
      BY <1>3 DEF BuildStep
    <2> HIDE DEF made
    <2>2. r = [ok |-> s.ok, t |-> made]
      BY <2>1 DEF Record
    <2> HIDE DEF r
    <2>3. Record(r) /\ r.ok = s.ok /\ r.t = made
      BY <2>2 DEF Record
    <2> QED
      BY <1>3, <2>3 DEF made, r
  <1> QED
    BY <1>1, <1>2, <1>3 DEF Record

\* What has become of the tables t when the first n components of d have been built.
Built(s, t, d, n, w, X) ==
  /\ Record(s) /\ Tree(s.t, w, X)
  /\ s.ok => SubSeq(d, 1, n) \in DOMAIN s.t /\ s.t[SubSeq(d, 1, n)].kind = "dir"
  /\ \A q \in DOMAIN t : q \in DOMAIN s.t /\ s.t[q].kind = t[q].kind
  /\ \A q \in DOMAIN s.t \ DOMAIN t : Plain(q) /\ Len(q) <= n

\* Nothing was made, or all from here on is missing.
Clean(s, t, d, n) ==
  IF s.ok THEN s.t = t \/ SubSeq(d, 1, n) \notin DOMAIN t ELSE s.t = t

\* A directory is made and listed.
Made(u, t, c, w, X) ==
  /\ Tree(u, w, X)
  /\ DOMAIN u = DOMAIN t \cup {c} /\ u[c].kind = "dir"
  /\ \A q \in DOMAIN t : u[q].kind = t[q].kind

\* Making a directory leaves a tree.
LEMMA MakeDir ==
  ASSUME NEW t, NEW w, NEW X, Tree(t, w, X), NEW dir \in DOMAIN t, NEW n \in Name,
         Plain(Append(dir, n)), Append(dir, n) \notin DOMAIN t
  PROVE  Made(AddSub(With(t, Append(dir, n), Dir), dir, n, "directory"),
              t, Append(dir, n), w, X)
  <1> DEFINE c == Append(dir, n)
             v == With(t, c, Dir)
             u == AddSub(v, dir, n, "directory")
  <1>1. Dir \in Table /\ Dir.sub = {} /\ Dir.kind = "dir"
    BY DEF Dir, Table
  <1>2. c \in Seq(Name) /\ Norm(c) = c
    BY NormFacts DEF Plain
  <1> HIDE DEF c
  <1>3. Tree(v, w, X \cup {c})
    BY <1>1, <1>2, NewTable DEF c
  <1>4. DOMAIN v = DOMAIN t \cup {c} /\ v[c] = Dir /\ \A q \in DOMAIN t : v[q] = t[q]
    BY DEF With, c
  <1> HIDE DEF v
  <1>5. v \in [DOMAIN v -> Table] /\ dir \in DOMAIN v /\ c \in DOMAIN v
    BY <1>3, <1>4 DEF Tree, Typed
  <1>6. TypeOf(v, c) = "directory"
    BY <1>1, <1>4 DEF TypeOf
  <1>7. Tree(u, w, (X \cup {c}) \ {c})
    BY <1>2, <1>3, <1>5, <1>6, Link DEF c
  <1>8. Adds(v, u, dir, n, "directory")
    BY <1>5, AddSubFacts
  <1> HIDE DEF u
  <1>9. Tree(u, w, X)
    BY <1>7 DEF Tree, Found
  <1>10. DOMAIN u = DOMAIN v /\ \A q \in DOMAIN v : u[q].kind = v[q].kind
    BY <1>8 DEF Adds
  <1>11. Made(u, t, c, w, X)
    BY <1>1, <1>4, <1>9, <1>10 DEF Made
  <1> QED
    BY <1>11 DEF u, v, c

\* One component is built: if what is before it was missing it is missing too, and can be
\* made.
LEMMA BuildOne ==
  ASSUME NEW t, NEW w, NEW X, Tree(t, w, X), NEW d, Plain(d), NEW n \in 1 .. Len(d),
         NEW s, Built(s, t, d, n - 1, w, X)
  PROVE  /\ Built(BuildStep(s, d, n), t, d, n, w, X)
         /\ X = {} /\ Clean(s, t, d, n - 1) => Clean(BuildStep(s, d, n), t, d, n)
  <1> DEFINE r == BuildStep(s, d, n)
             next == SubSeq(d, 1, n)
             dir == SubSeq(d, 1, n - 1)
  <1>1. d \in Seq(Name) /\ n \in Nat
    BY DEF Plain
  <1>2. /\ next \in Seq(Name) /\ Len(next) = n /\ dir \in Seq(Name) /\ d[n] \in Name
        /\ next = Append(dir, d[n]) /\ next # <<>> /\ Plain(next)
    BY <1>1, Beginning
  <1>3. /\ Record(s) /\ Tree(s.t, w, X)
        /\ s.ok => dir \in DOMAIN s.t /\ s.t[dir].kind = "dir"
        /\ \A q \in DOMAIN t : q \in DOMAIN s.t /\ s.t[q].kind = t[q].kind
        /\ \A q \in DOMAIN s.t \ DOMAIN t : Plain(q) /\ Len(q) <= n - 1
    BY DEF Built
  <1> HIDE DEF r, next, dir
  <1>4. \A q : Plain(q) => Len(q) \in Nat
    BY DEF Plain
  <1>5. Norm(next) = next
    BY <1>2, NormFacts
  <1>6. X = {} /\ next \in DOMAIN t => dir \in DOMAIN t
    <2> SUFFICES ASSUME X = {}, next \in DOMAIN t PROVE dir \in DOMAIN t
      OBVIOUS
    <2>1. PICK c \in DOMAIN t : \E e \in t[c].sub : Norm(next) = Append(c, e[1])
      BY <1>2 DEF Tree, Found
    <2>2. PICK e \in t[c].sub : next = Append(c, e[1])
      BY <1>5, <2>1
    <2> DEFINE m == e[1]
    <2>3. c \in Seq(Name) /\ m \in Name
      BY DEF Tree, Typed, Table
    <2>4. Append(dir, d[n]) = Append(c, m)
      BY <1>2, <2>2
    <2> HIDE DEF m
    <2>5. dir = c
      BY <1>2, <2>3, <2>4, SamePath
    <2> QED
      BY <2>5
  <1>7. next \notin DOMAIN t => next \notin DOMAIN s.t
    <2> SUFFICES ASSUME next \in DOMAIN s.t \ DOMAIN t PROVE FALSE
      OBVIOUS
    <2>1. Len(next) <= n - 1
      BY <1>3
    <2> QED
      BY <1>1, <1>2, <2>1
  <1>8. /\ Record(r)
        /\ ~ s.ok => ~ r.ok /\ r.t = s.t
        /\ s.ok /\ next \in DOMAIN s.t => (r.ok <=> s.t[next].kind = "dir") /\ r.t = s.t
        /\ s.ok /\ next \notin DOMAIN s.t =>
             r.ok /\ r.t = AddSub(With(s.t, next, Dir), dir, d[n], "directory")
    BY <1>3, StepFacts DEF r, next, dir
  <1>9. CASE ~ s.ok \/ next \in DOMAIN s.t
    <2>1. r.t = s.t /\ (r.ok => s.ok /\ next \in DOMAIN s.t /\ s.t[next].kind = "dir")
      BY <1>8, <1>9
    <2>2. \A q \in DOMAIN r.t \ DOMAIN t : Plain(q) /\ Len(q) <= n
      BY <1>1, <1>3, <1>4, <2>1
    <2>3. Built(r, t, d, n, w, X)
      BY <1>3, <1>8, <2>1, <2>2 DEF Built, next
    <2>4. ASSUME X = {}, Clean(s, t, d, n - 1) PROVE Clean(r, t, d, n)
      <3>1. s.t = t \/ (s.ok /\ dir \notin DOMAIN t)
        BY <2>4 DEF Clean, dir
      <3>2. CASE s.t = t
        BY <2>1, <3>2 DEF Clean
      <3>3. CASE s.ok /\ dir \notin DOMAIN t
        <4>1. next \notin DOMAIN t
          BY <1>6, <2>4, <3>3
        <4> QED
          BY <1>7, <1>9, <3>3, <4>1
      <3> QED
        BY <3>1, <3>2, <3>3
    <2> QED
      BY <2>3, <2>4 DEF r
  <1>10. CASE s.ok /\ next \notin DOMAIN s.t
    <2>1. r.ok /\ r.t = AddSub(With(s.t, next, Dir), dir, d[n], "directory")
      BY <1>8, <1>10
    <2>2. /\ Tree(r.t, w, X)
          /\ DOMAIN r.t = DOMAIN s.t \cup {next} /\ r.t[next].kind = "dir"
          /\ \A q \in DOMAIN s.t : r.t[q].kind = s.t[q].kind
      <3>1. Made(r.t, s.t, next, w, X)
        <4> DEFINE v == s.t
                   m == d[n]
        <4>1. Tree(v, w, X) /\ dir \in DOMAIN v /\ m \in Name /\ Plain(Append(dir, m))
              /\ Append(dir, m) \notin DOMAIN v
          BY <1>2, <1>3, <1>10
        <4>2. r.t = AddSub(With(v, Append(dir, m), Dir), dir, m, "directory")
          BY <1>2, <2>1
        <4> HIDE DEF v, m
        <4>3. Made(r.t, v, Append(dir, m), w, X)
          BY <4>1, <4>2, MakeDir
        <4> QED
          BY <1>2, <4>3 DEF v, m
      <3> QED
        BY <3>1 DEF Made
    <2>3. \A q \in DOMAIN t : q \in DOMAIN r.t /\ r.t[q].kind = t[q].kind
      BY <1>3, <2>2
    <2>4. ASSUME NEW q \in DOMAIN r.t \ DOMAIN t PROVE Plain(q) /\ Len(q) <= n
      <3>1. CASE q = next
        BY <1>1, <1>2, <3>1
      <3>2. CASE q # next
        <4>1. Plain(q) /\ Len(q) <= n - 1
          BY <1>3, <2>2, <3>2
        <4> QED
          BY <1>1, <1>4, <4>1
      <3> QED
        BY <3>1, <3>2
    <2>5. Built(r, t, d, n, w, X)
      BY <1>8, <2>2, <2>3, <2>4 DEF Built, next
    <2>6. next \notin DOMAIN t
      BY <1>3, <1>10
    <2>7. Clean(r, t, d, n)
      BY <2>1, <2>6 DEF Clean, next
    <2> QED
      BY <2>5, <2>7 DEF r
  <1> QED
    BY <1>9, <1>10

\* recursiveBuildDir leaves a tree; if it fails it leaves the one it found.
LEMMA BuildFacts ==
  ASSUME NEW t, NEW w, NEW X, Tree(t, w, X), NEW p, NEW d, d = Norm(p), Plain(d)
  PROVE  /\ Built(recursiveBuildDir(t, p), t, d, Len(d), w, X)
         /\ X = {} /\ ~ recursiveBuildDir(t, p).ok => recursiveBuildDir(t, p).t = t
  <1> DEFINE L == Len(d)
  <1>1. d \in Seq(Name) /\ L \in Nat
    BY DEF Plain
  <1>2. PICK s : Builds(t, d, L, s) /\ recursiveBuildDir(t, p) = s[L]
    <2>1. recursiveBuildDir(t, p) = (CHOOSE s : Builds(t, d, L, s))[L]
      BY DEF recursiveBuildDir, Builds, Start
    <2>2. \E s : Builds(t, d, L, s)
      BY <1>1, BuildsExists
    <2> QED
      BY <2>1, <2>2
  <1>4. s[0] = Start(t) /\ \A n \in 1 .. L : s[n] = BuildStep(s[n - 1], d, n)
    <2>1. L \in Nat /\ Builds(t, d, L, s)
      BY <1>1, <1>2
    <2> HIDE DEF L
    <2>2. \A n \in 0 .. L : s[n] = IF n = 0 THEN Start(t) ELSE BuildStep(s[n - 1], d, n)
      BY <2>1 DEF Builds
    <2> QED
      BY <2>1, <2>2
  <1> DEFINE Good(n) == Built(s[n], t, d, n, w, X) /\ (X = {} => Clean(s[n], t, d, n))
             B == {n \in 0 .. L : ~ Good(n)}
  <1>5. Good(0)
    <2>1. Record(Start(t)) /\ Start(t).ok /\ Start(t).t = t
      BY DEF Record, Start
    <2>2. SubSeq(d, 1, 0) = <<>> /\ <<>> \in DOMAIN t /\ t[<<>>].kind = "dir"
      BY <1>1, WholePath DEF Tree, Typed
    <2>3. Built(Start(t), t, d, 0, w, X) /\ Clean(Start(t), t, d, 0)
      BY <2>1, <2>2 DEF Built, Clean
    <2> QED
      BY <1>4, <2>3
  <1>6. ASSUME NEW n \in 1 .. L, Good(n - 1) PROVE Good(n)
    BY <1>4, <1>6, BuildOne
  <1> HIDE DEF Good
  <1>7. \A n \in 0 .. L : Good(n)
    <2> SUFFICES ASSUME B # {} PROVE FALSE
      OBVIOUS
    <2>1. PICK n \in B : \A j \in B : n <= j
      <3>1. B \subseteq Nat
        BY <1>1
      <3> HIDE DEF B
      <3> QED
        BY <3>1, LeastOf
    <2>2. n # 0
      BY <1>5, <2>1
    <2>3. n \in 1 .. L /\ n - 1 \in 0 .. L /\ n - 1 \notin B
      BY <1>1, <2>1, <2>2
    <2> QED
      BY <1>6, <2>1, <2>3
  <1>8. Good(L)
    BY <1>1, <1>7
  <1> QED
    BY <1>2, <1>8 DEF Good, Clean

-----------------------------------------------------------------------------
(* The calls.                                                               *)

\* A file that was made is listed as a contract.
LEMMA ListFile ==
  ASSUME NEW u, NEW w, NEW p \in DOMAIN u, Tree(u, w, {p}), u[p].kind = "file",
         Norm(p) # <<>>, Front(Norm(p)) \in DOMAIN u
  PROVE  Tree(AddSub(u, Front(Norm(p)), Last(Norm(p)), "contract"), w, {})
  <1> DEFINE c == Norm(p)
             dir == Front(c)
             n == Last(c)
  <1>1. p \in Seq(Name)
    BY DEF Tree, Typed
  <1>2. c \in Seq(Name)
    BY <1>1, NormFacts
  <1>3. n \in Name /\ c = Append(dir, n)
    BY <1>2, FrontLast
  <1>4. c \in DOMAIN u /\ ~ Spelled(u, c) => TypeOf(u, c) = "contract"
    BY DEF Spelled, TypeOf
  <1> HIDE DEF dir, n, c
  <1>5. dir \in DOMAIN u /\ Norm(p) = Append(dir, n)
    BY <1>3 DEF dir, c
  <1>6. Append(dir, n) \in DOMAIN u /\ ~ Spelled(u, Append(dir, n)) =>
          "contract" = TypeOf(u, Append(dir, n))
    BY <1>3, <1>4
  <1>7. Tree(AddSub(u, dir, n, "contract"), w, {p} \ {p})
    BY <1>3, <1>5, <1>6, Link
  <1> QED
    BY <1>7 DEF dir, n, c

\* File is a table.
LEMMA FileTable == File \in Table /\ File.sub = {} /\ File.kind = "file"
  BY DEF File, Table

\* The paths callers write are sequences of names.
LEMMA Spelling ==
  ASSUME NEW p \in Seq(STRING)
  PROVE  p \in Seq(Name)
  <1>1. Len(p) \in Nat /\ p \in [1 .. Len(p) -> STRING]
    OBVIOUS
  <1> DEFINE L == Len(p)
  <1> HIDE DEF L
  <1>2. L \in Nat /\ p \in [1 .. L -> Name]
    BY <1>1 DEF Name, L
  <1> QED
    BY <1>2

\* The paths of KV tables.
LEMMA TablePath ==
  ASSUME NEW name \in Seq(STRING)
  PROVE  LET p == getTableName(name) IN
         p \in Seq(Name) /\ p # <<>> /\ p # <<Empty>>
  <1> DEFINE a == <<"tables">>
             rest == IF name = <<>> THEN <<Empty>> ELSE name
             p == getTableName(name)
  <1>1. "tables" \in Name /\ "tables" # Empty
    BY DEF Name, Empty
  <1>2. a \in Seq(Name) /\ Len(a) = 1 /\ a[1] = "tables"
    BY <1>1
  <1>3. rest \in Seq(Name)
    <2>1. name \in Seq(Name)
      BY Spelling
    <2>2. Empty \in Name
      BY DEF Name, Empty
    <2>3. <<Empty>> \in Seq(Name)
      BY <2>2
    <2>4. CASE name = <<>>
      BY <2>3, <2>4
    <2>5. CASE name # <<>>
      BY <2>1, <2>5
    <2> QED  BY <2>4, <2>5
  <1>4. p = a \o rest
    BY DEF getTableName, Empty
  <1> HIDE DEF a, p, rest
  <1>5. p \in Seq(Name) /\ Len(p) = Len(a) + Len(rest) /\ p[1] = a[1]
    <2>1. /\ a \o rest \in Seq(Name) /\ Len(a \o rest) = Len(a) + Len(rest)
          /\ \A i \in 1 .. Len(a) + Len(rest) :
               (a \o rest)[i] = IF i <= Len(a) THEN a[i] ELSE rest[i - Len(a)]
      BY <1>2, <1>3, ConcatProperties
    <2>2. Len(rest) \in Nat
      BY <1>3
    <2>3. 1 \in 1 .. Len(a) + Len(rest) /\ 1 <= Len(a)
      BY <1>2, <2>2
    <2> QED
      BY <1>4, <2>1, <2>3
  <1>6. p # <<>>
    BY <1>2, <1>3, <1>5
  <1>7. <<Empty>>[1] = Empty
    OBVIOUS
  <1> QED
    BY <1>1, <1>2, <1>5, <1>6, <1>7 DEF p

\* No table is waiting to be listed between two calls.
FsInv == Tree(tables, tampered, {})

\* A call that only answers.
LEMMA FsReturn ==
  ASSUME FsInv, NEW answer, Return(answer)
  PROVE  FsInv' /\ UNCHANGED <<tables, rows>>
  BY DEF FsInv, Return

\* mkdir.
LEMMA FsMakeDir ==
  ASSUME FsInv, NEW p \in DirPaths, makeDir(p)
  PROVE  FsInv' /\ (fsRet'[1] # "ok" => UNCHANGED <<tables, rows>>)
  <1> DEFINE d == Norm(p)
             b == recursiveBuildDir(tables, p)
  <1>1. CASE \E answer : Return(answer)
    BY <1>1, FsReturn
  <1>2. CASE /\ checkPathValid(p) /\ Len(p) >= 2
             /\ tables' = b.t
             /\ fsRet' = <<IF b.ok THEN "ok" ELSE "CODE_FILE_BUILD_DIR_FAILED">>
             /\ UNCHANGED <<rows, tampered>>
    <2>1. p \in Seq(Name) /\ p # <<>>
      <3>1. p \in Seq(Name)
        BY PathsAssumption, Spelling
      <3>2. Len(p) >= 2
        BY <1>2
      <3> QED
        BY <3>1, <3>2, TwoComponents
    <2>2. Plain(d)
      <3>1. d \in Seq(Name)
        BY <2>1, NormFacts
      <3>2. \A n \in DOMAIN d : d[n] # Empty
        BY <1>2, <2>1 DEF checkPathValid, Root, Empty
      <3>3. DOMAIN d = 1 .. Len(d)
        BY <3>1, LenProperties
      <3> HIDE DEF d
      <3> QED
        BY <3>1, <3>2, <3>3 DEF Plain
    <2>3. Built(b, tables, d, Len(d), tampered, {}) /\ (~ b.ok => b.t = tables)
      BY <2>2, BuildFacts DEF FsInv
    <2> HIDE DEF b, d
    <2>4. FsInv'
      BY <1>2, <2>3 DEF FsInv, Built
    <2>5. fsRet'[1] # "ok" => ~ b.ok
      BY <1>2
    <2> QED
      BY <1>2, <2>3, <2>4, <2>5
  <1> QED
    BY <1>1, <1>2 DEF makeDir

\* createTable: the directories, the table, its entry.
LEMMA FsCreateTable ==
  ASSUME FsInv, NEW name \in TableNames, NEW valid, createTable(name, valid)
  PROVE  FsInv' /\ (fsRet'[1] # "ok" => UNCHANGED <<tables, rows>>)
  <1> DEFINE p == getTableName(name)
             c == Norm(p)
             d == Front(c)
             b == recursiveBuildDir(tables, d)
             v == With(b.t, p, File)
  <1>1. CASE \E answer : Return(answer)
    BY <1>1, FsReturn
  <1>2. CASE /\ p \notin DOMAIN tables
             /\ tables' = IF b.ok THEN AddSub(v, d, Last(c), "contract") ELSE b.t
             /\ fsRet' = <<IF b.ok THEN "ok" ELSE "CODE_FILE_BUILD_DIR_FAILED">>
             /\ UNCHANGED <<rows, tampered>>
    <2>1. p \in Seq(Name) /\ p # <<>> /\ p # <<Empty>>
      BY PathsAssumption, TablePath
    <2> HIDE DEF p
    <2>2. c \in Seq(Name) /\ c # <<>> /\ Plain(d) /\ (Plain(p) => c = p)
      BY <2>1, NormFacts
    <2> HIDE DEF c
    <2>3. ~ (Len(c) <= Len(d))
      BY <2>2, Shorter
    <2>4. Norm(d) = d
      BY <2>2, NormFacts DEF Plain
    <2> HIDE DEF d
    <2>5. Built(b, tables, d, Len(d), tampered, {}) /\ (~ b.ok => b.t = tables)
      BY <2>2, <2>4, BuildFacts DEF FsInv
    <2> HIDE DEF b
    <2>6. p \notin DOMAIN b.t
      <3> SUFFICES ASSUME p \in DOMAIN b.t PROVE FALSE
        OBVIOUS
      <3>1. Plain(p) /\ Len(p) <= Len(d)
        BY <1>2, <2>5 DEF Built
      <3>2. Len(c) <= Len(d)
        BY <2>2, <3>1
      <3> QED
        BY <2>3, <3>2
    <2>7. Tree(v, tampered, {p})
      <3>1. Tree(v, tampered, {} \cup {p})
        BY <2>1, <2>5, <2>6, FileTable, NewTable DEF Built
      <3> HIDE DEF v
      <3>2. {} \cup {p} = {p}
        OBVIOUS
      <3> QED
        BY <3>1, <3>2
    <2>8. DOMAIN v = DOMAIN b.t \cup {p} /\ v[p] = File
      BY DEF With
    <2> HIDE DEF v
    <2>9. b.ok => d \in DOMAIN v
      <3>1. SubSeq(d, 1, Len(d)) = d
        BY <2>2, WholePath DEF Plain
      <3> QED
        BY <2>5, <2>8, <3>1 DEF Built
    <2>10. b.ok => Tree(AddSub(v, d, Last(c), "contract"), tampered, {})
      BY <2>2, <2>7, <2>8, <2>9, FileTable, ListFile DEF c, d
    <2>11. FsInv'
      BY <1>2, <2>5, <2>10 DEF FsInv, Built
    <2>12. fsRet'[1] # "ok" => ~ b.ok
      BY <1>2
    <2> QED
      BY <1>2, <2>5, <2>11, <2>12
  <1> QED
    BY <1>1, <1>2 DEF createTable, getParentDir, getBaseName

\* create: the table, the directories, its entry.
LEMMA FsCreate ==
  ASSUME FsInv, NEW p \in Deployments, create(p)
  PROVE  FsInv' /\ (fsRet'[1] # "ok" => UNCHANGED <<tables, rows>>)
  <1> DEFINE c == Norm(p)
             d == Front(c)
             v == With(tables, p, File)
             b == recursiveBuildDir(v, d)
             r == buildBfsPath(v, p)
  <1>1. CASE \E answer : Return(answer)
    BY <1>1, FsReturn
  <1>2. CASE /\ p \notin DOMAIN tables /\ r.ok
             /\ tables' = r.t /\ fsRet' = <<"ok">> /\ UNCHANGED <<rows, tampered>>
    <2>1. p \in Seq(Name) /\ p # <<>> /\ p # <<Empty>>
      <3>1. p \in Seq(Name) /\ p # <<Empty>>
        BY PathsAssumption, Spelling DEF Empty
      <3>2. <<>> \in DOMAIN tables
        BY DEF FsInv, Tree, Typed
      <3> QED
        BY <1>2, <3>1, <3>2
    <2>2. c \in Seq(Name) /\ c # <<>> /\ Plain(d)
      BY <2>1, NormFacts
    <2>3. Norm(d) = d
      BY <2>2, NormFacts DEF Plain
    <2>4. Tree(v, tampered, {p})
      <3>1. Tree(v, tampered, {} \cup {p})
        BY <1>2, <2>1, FileTable, NewTable DEF FsInv
      <3> HIDE DEF v
      <3>2. {} \cup {p} = {p}
        OBVIOUS
      <3> QED
        BY <3>1, <3>2
    <2>5. p \in DOMAIN v /\ v[p] = File
      BY DEF With
    <2>6. r = IF b.ok THEN [b EXCEPT !.t = AddSub(b.t, d, Last(c), "contract")] ELSE b
      BY DEF buildBfsPath, getParentDir, getBaseName
    <2> HIDE DEF v, c, d
    <2>7. Built(b, v, d, Len(d), tampered, {p})
      BY <2>2, <2>3, <2>4, BuildFacts
    <2> HIDE DEF b, r
    <2>8. Record(b) /\ b.ok /\ r.t = AddSub(b.t, d, Last(c), "contract")
      <3>1. Record(b)
        BY <2>7 DEF Built
      <3>2. b.ok
        BY <1>2, <2>6
      <3> DEFINE x == AddSub(b.t, d, Last(c), "contract")
      <3>3. r = [b EXCEPT !.t = x]
        BY <2>6, <3>2
      <3> HIDE DEF x
      <3>4. r.t = x
        BY <3>1, <3>3 DEF Record
      <3> QED
        BY <3>1, <3>2, <3>4 DEF x
    <2>9. SubSeq(d, 1, Len(d)) = d
      BY <2>2, WholePath DEF Plain
    <2>10. d \in DOMAIN b.t /\ Tree(b.t, tampered, {p})
      BY <2>7, <2>8, <2>9 DEF Built
    <2>11. p \in DOMAIN b.t /\ b.t[p].kind = "file"
      BY <2>5, <2>7, FileTable DEF Built
    <2> DEFINE u == b.t
    <2>12. d \in DOMAIN u /\ Tree(u, tampered, {p}) /\ p \in DOMAIN u /\ u[p].kind = "file"
      BY <2>10, <2>11
    <2> HIDE DEF u
    <2>13. Tree(AddSub(u, d, Last(c), "contract"), tampered, {})
      BY <2>2, <2>12, ListFile DEF c, d
    <2>14. tables' = AddSub(u, d, Last(c), "contract") /\ tampered' = tampered
      BY <1>2, <2>8 DEF u
    <2> QED
      BY <1>2, <2>13, <2>14 DEF FsInv
  <1> QED
    BY <1>1, <1>2 DEF create

\* The type of a table is overwritten.
LEMMA Retyped ==
  ASSUME NEW t, NEW w, Tree(t, w, {}), NEW p \in DOMAIN t, p # <<>>, NEW u,
         DOMAIN u = DOMAIN t, u \in [DOMAIN t -> Table],
         \A q \in DOMAIN t : u[q].sub = t[q].sub /\ (q # p => u[q] = t[q])
  PROVE  Tree(u, w \cup {p}, {})
  <1>1. Typed(u)
    BY DEF Tree, Typed
  <1>2. Once(u)
    BY DEF Tree, Once
  <1>3. Exist(u)
    BY DEF Tree, Exist
  <1>4. Found(u, {})
    <2> SUFFICES ASSUME NEW q \in DOMAIN t, q # <<>>
                 PROVE  \E d \in DOMAIN t : \E e \in u[d].sub : Norm(q) = Append(d, e[1])
      BY DEF Found
    <2>1. PICK d \in DOMAIN t : \E e \in t[d].sub : Norm(q) = Append(d, e[1])
      BY DEF Tree, Found
    <2> QED
      BY <2>1
  <1>5. \A q : Spelled(u, q) <=> Spelled(t, q)
    BY DEF Spelled
  <1>6. \A q \in DOMAIN t : q # p => TypeOf(u, q) = TypeOf(t, q)
    BY DEF TypeOf
  <1>7. Right(u, w \cup {p})
    <2> SUFFICES ASSUME NEW d \in DOMAIN u, NEW e \in u[d].sub,
                        Append(d, e[1]) \in DOMAIN u, Append(d, e[1]) \notin w \cup {p},
                        ~ Spelled(u, Append(d, e[1]))
                 PROVE  e[2] = TypeOf(u, Append(d, e[1]))
      BY DEF Right
    <2>1. e \in t[d].sub /\ ~ Spelled(t, Append(d, e[1]))
      BY <1>5
    <2>2. e[2] = TypeOf(t, Append(d, e[1]))
      BY <2>1 DEF Tree, Right
    <2> QED
      BY <1>6, <2>2
  <1> QED
    BY <1>1, <1>2, <1>3, <1>4, <1>7 DEF Tree

\* KV set.
LEMMA FsSet ==
  ASSUME FsInv, NEW name \in TableNames, NEW key, NEW valid,
         set(name, key, valid)
  PROVE  FsInv' /\ (fsRet'[1] # "ok" => UNCHANGED <<tables, rows>>)
  <1> DEFINE p == getTableName(name)
             k == IF tables[p].kind \in {"file", "oddFile"} THEN "oddFile" ELSE "oddDir"
             x == [tables[p] EXCEPT !.kind = k]
  <1>1. CASE \E answer : Return(answer)
    BY <1>1, FsReturn
  <1>2. CASE /\ key # "type" /\ UNCHANGED <<tables, tampered>> /\ fsRet' = <<"ok">>
    BY <1>2 DEF FsInv
  <1>3. CASE /\ p \in DOMAIN tables
             /\ tables' = [tables EXCEPT ![p].kind = k]
             /\ tampered' = tampered \cup {p} /\ fsRet' = <<"ok">>
    <2>1. p # <<>>
      BY PathsAssumption, TablePath
    <2>2. tables[p] \in Table /\ tables \in [DOMAIN tables -> Table]
      BY <1>3 DEF FsInv, Tree, Typed
    <2>3. tables' = [tables EXCEPT ![p] = x]
      BY <1>3
    <2> HIDE DEF p
    <2>4. x \in Table /\ x.sub = tables[p].sub /\ x.kind # "dir"
      <3>1. k \in {"oddFile", "oddDir"}
        OBVIOUS
      <3> HIDE DEF k
      <3> QED
        BY <2>2, <3>1 DEF Table
    <2> HIDE DEF x, k
    <2>5. /\ DOMAIN tables' = DOMAIN tables /\ tables' \in [DOMAIN tables -> Table]
          /\ \A q \in DOMAIN tables : /\ tables'[q].sub = tables[q].sub
                                      /\ q # p => tables'[q] = tables[q]
      BY <1>3, <2>2, <2>3, <2>4
    <2>6. Tree(tables, tampered, {})
      BY DEF FsInv
    <2>7. Tree(tables', tampered \cup {p}, {})
      BY <1>3, <2>1, <2>5, <2>6, Retyped
    <2> QED
      BY <1>3, <2>7 DEF FsInv
  <1> QED
    BY <1>1, <1>2, <1>3 DEF set

\* Every call keeps the tree, and an error leaves it as it was.
LEMMA FsStep ==
  ASSUME FsInv, FsNext
  PROVE  FsInv' /\ (fsRet'[1] # "ok" => UNCHANGED <<tables, rows>>)
  <1>1. ASSUME NEW p \in DirPaths, makeDir(p)
        PROVE  FsInv' /\ (fsRet'[1] # "ok" => UNCHANGED <<tables, rows>>)
    BY <1>1, FsMakeDir
  <1>2. ASSUME NEW p \in DirPaths, listDir(p)
        PROVE  FsInv' /\ (fsRet'[1] # "ok" => UNCHANGED <<tables, rows>>)
    BY <1>2, FsReturn DEF listDir
  <1>3. ASSUME NEW name \in TableNames, desc(name)
        PROVE  FsInv' /\ (fsRet'[1] # "ok" => UNCHANGED <<tables, rows>>)
    BY <1>3, FsReturn DEF desc
  <1>4. ASSUME NEW name \in TableNames, NEW valid \in BOOLEAN, createTable(name, valid)
        PROVE  FsInv' /\ (fsRet'[1] # "ok" => UNCHANGED <<tables, rows>>)
    BY <1>4, FsCreateTable
  <1>5. ASSUME NEW name \in TableNames, NEW key \in RowKeys, get(name, key)
        PROVE  FsInv' /\ (fsRet'[1] # "ok" => UNCHANGED <<tables, rows>>)
    BY <1>5, FsReturn DEF get
  <1>6. ASSUME NEW name \in TableNames, NEW key \in RowKeys, NEW valid \in BOOLEAN,
               set(name, key, valid)
        PROVE  FsInv' /\ (fsRet'[1] # "ok" => UNCHANGED <<tables, rows>>)
    BY <1>6, FsSet
  <1>7. ASSUME NEW p \in Deployments, create(p)
        PROVE  FsInv' /\ (fsRet'[1] # "ok" => UNCHANGED <<tables, rows>>)
    BY <1>7, FsCreate
  <1> QED
    BY <1>1, <1>2, <1>3, <1>4, <1>5, <1>6, <1>7 DEF FsNext

\* The root, /apps and /tables.
LEMMA FsInitTree ==
  ASSUME FsInit
  PROVE  FsInv
  <1> DEFINE a == <<"apps">>
             b == <<"tables">>
             ea == <<"apps", "directory">>
             eb == <<"tables", "directory">>
             t == tables
  <1>1. "apps" \in Name /\ "tables" \in Name /\ "apps" # Empty /\ "tables" # Empty
    BY DEF Name, Empty
  <1>2. /\ a \in Seq(Name) /\ b \in Seq(Name) /\ Len(a) = 1 /\ Len(b) = 1
        /\ a[1] = "apps" /\ b[1] = "tables"
    BY <1>1
  <1>3. a # b /\ a # <<>> /\ b # <<>>
    BY <1>2
  <1>4. a = Append(<<>>, "apps") /\ b = Append(<<>>, "tables")
    OBVIOUS
  <1>5. Norm(a) = a /\ Norm(b) = b
    <2>1. Plain(a) /\ Plain(b)
      <3> HIDE DEF a, b
      <3> QED
        BY <1>1, <1>2 DEF Plain
    <2> QED
      BY <1>2, <2>1, NormFacts
  <1>6. ea[1] = "apps" /\ ea[2] = "directory" /\ eb[1] = "tables" /\ eb[2] = "directory"
    OBVIOUS
  <1>7. ea \in Name \X {"directory", "contract"} /\ eb \in Name \X {"directory", "contract"}
    BY <1>1
  <1>8. /\ Dir \in Table /\ Dir.kind = "dir" /\ Dir.sub = {}
        /\ [Dir EXCEPT !.sub = {ea, eb}] = [kind |-> "dir", sub |-> {ea, eb}]
    BY DEF Dir, Table
  <1> DEFINE x == [kind |-> "dir", sub |-> {ea, eb}]
  <1>9. x \in Table /\ x.kind = "dir" /\ x.sub = {ea, eb}
    BY <1>7 DEF Table
  <1>10. t = [p \in {<<>>, a, b} |-> IF p = <<>> THEN x ELSE Dir]
    BY <1>8 DEF FsInit, Root
  <1> HIDE DEF a, b, ea, eb, x
  <1>11. /\ DOMAIN t = {<<>>, a, b} /\ t[<<>>] = x /\ t[a] = Dir /\ t[b] = Dir
         /\ t \in [DOMAIN t -> Table]
    BY <1>3, <1>8, <1>9, <1>10
  <1> HIDE DEF t
  <1>12. \A d \in DOMAIN t : /\ t[d].kind = "dir"
                             /\ \A e \in t[d].sub : d = <<>> /\ e \in {ea, eb}
    BY <1>8, <1>9, <1>11
  <1>13. Typed(t)
    <2>1. <<>> \in Seq(Name)
      BY EmptySeq
    <2> QED
      BY <1>2, <1>11, <1>12, <2>1 DEF Typed
  <1>14. Once(t)
    BY <1>6, <1>12 DEF Once
  <1>15. Exist(t)
    <2> SUFFICES ASSUME NEW d \in DOMAIN t, NEW e \in t[d].sub
                 PROVE  \E q \in DOMAIN t : Norm(q) = Append(d, e[1])
      BY DEF Exist
    <2>1. CASE e = ea
      <3>1. Norm(a) = Append(d, e[1])
        BY <1>4, <1>5, <1>6, <1>12, <2>1
      <3> QED
        BY <1>11, <3>1
    <2>2. CASE e = eb
      <3>1. Norm(b) = Append(d, e[1])
        BY <1>4, <1>5, <1>6, <1>12, <2>2
      <3> QED
        BY <1>11, <3>1
    <2> QED
      BY <1>12, <2>1, <2>2
  <1>16. Right(t, tampered)
    BY <1>6, <1>12 DEF Right, TypeOf
  <1>17. Found(t, {})
    <2>1. ea \in t[<<>>].sub /\ eb \in t[<<>>].sub /\ <<>> \in DOMAIN t
      BY <1>9, <1>11
    <2>2. Norm(a) = Append(<<>>, ea[1]) /\ Norm(b) = Append(<<>>, eb[1])
      BY <1>4, <1>5, <1>6
    <2>3. \A q \in DOMAIN t : q # <<>> => q = a \/ q = b
      BY <1>11
    <2> QED
      BY <2>1, <2>2, <2>3 DEF Found
  <1> QED
    BY <1>13, <1>14, <1>15, <1>16, <1>17 DEF FsInv, Tree, t

\* The listings agree with the tables because every table is listed once, with its type.
LEMMA FsConsistent ==
  ASSUME FsInv
  PROVE  TreeConsistent
  <1>1. /\ tables \in [DOMAIN tables -> Table] /\ DOMAIN tables \subseteq Seq(Name)
        /\ Once(tables) /\ Exist(tables) /\ Right(tables, tampered) /\ Found(tables, {})
    BY DEF FsInv, Tree, Typed
  <1>2. \A p : Aliased(p) <=> Spelled(tables, p)
    BY DEF Aliased, Spelled
  <1>3. ASSUME NEW d \in DOMAIN tables, NEW e \in tables[d].sub
        PROVE  LET p == Append(d, e[1]) IN
               p \in tampered \/ Aliased(p) \/ ListedAs(p) = Is(p)
    <2> DEFINE n == e[1]
               p == Append(d, n)
    <2>1. d \in Seq(Name) /\ n \in Name
      BY <1>1 DEF Table
    <2>2. Front(p) = d /\ Last(p) = n
      BY <2>1, AppendFacts
    <2> HIDE DEF p, n
    <2>3. SUFFICES ASSUME p \notin tampered, ~ Aliased(p) PROVE ListedAs(p) = Is(p)
      BY DEF p, n
    <2>4. ListedAs(p) = e[2]
      <3>1. (CHOOSE f \in tables[d].sub : f[1] = n) = e
        BY <1>1 DEF Once, n
      <3>2. \E f \in tables[d].sub : f[1] = n
        BY DEF n
      <3> QED
        BY <2>2, <3>1, <3>2 DEF ListedAs
    <2>5. PICK q \in DOMAIN tables : Norm(q) = p
      BY <1>1 DEF Exist, p, n
    <2>6. p \in DOMAIN tables
      BY <1>2, <2>3, <2>5 DEF Spelled
    <2>7. e[2] = TypeOf(tables, p)
      BY <1>1, <1>2, <2>3, <2>6 DEF Right, p, n
    <2>8. Is(p) = TypeOf(tables, p)
      BY <2>6 DEF Is, TypeOf
    <2> QED
      BY <2>4, <2>7, <2>8
  <1>4. ASSUME NEW p \in DOMAIN tables, Norm(p) = p, p # <<>>
        PROVE  \E d \in DOMAIN tables : \E e \in tables[d].sub : p = Append(d, e[1])
    BY <1>1, <1>4 DEF Found
  <1>5. ASSUME NEW p \in Entries
        PROVE  \E d \in DOMAIN tables : \E e \in tables[d].sub : p = Append(d, e[1])
    BY DEF Entries
  <1>6. ASSUME NEW p \in ({q \in DOMAIN tables : Norm(q) = q} \cup Entries) \ {<<>>}
        PROVE  Aliased(p) \/ p \in tampered \/ ListedAs(p) = Is(p)
    <2>1. PICK d \in DOMAIN tables : \E e \in tables[d].sub : p = Append(d, e[1])
      BY <1>4, <1>5
    <2>2. PICK e \in tables[d].sub : p = Append(d, e[1])
      BY <2>1
    <2> QED
      BY <1>3, <2>2
  <1> QED
    BY <1>6 DEF TreeConsistent, Root

\* In every reachable state of the file system each table is listed in its directory and
\* each entry of a directory has a table, of the type it says unless it was tampered with
\* (recursiveBuildDir, createTable, buildBfsPath, KV set).
THEOREM FsInvariance == FsSpec => []FsInv
  <1>1. FsInv /\ [FsNext]_fsVars => FsInv'
    <2>1. ASSUME FsInv, UNCHANGED fsVars PROVE FsInv'
      BY <2>1 DEF FsInv, fsVars
    <2> QED
      BY <2>1, FsStep
  <1> QED
    BY <1>1, FsInitTree, PTL DEF FsSpec

\* The listings of the file system say what its tables are, whatever order directories, KV
\* tables and contracts are made in and however callers write their paths.
THEOREM TreeHolds == FsSpec => []TreeConsistent
  BY FsInvariance, FsConsistent, PTL

\* A call that is answered with an error leaves the tree and the rows as they were, though
\* CODE_FILE_BUILD_DIR_FAILED is returned without a revert: recursiveBuildDir fails before
\* it makes its first directory.
THEOREM RefusedHolds == FsSpec => RefusedLeavesTree
  <1>1. FsInv /\ [FsNext]_fsVars =>
          [fsRet'[1] # "ok" => UNCHANGED <<tables, rows>>]_fsVars
    BY FsStep
  <1>2. RefusedLeavesTree <=> [][fsRet'[1] # "ok" => UNCHANGED <<tables, rows>>]_fsVars
    BY DEF RefusedLeavesTree
  <1> QED
    BY <1>1, <1>2, FsInvariance, PTL DEF FsSpec
=============================================================================
