---------------------------- MODULE TxDAGProofs ----------------------------
(***************************************************************************)
(* Proofs about TxDAG, for any number of transactions, fields and threads. *)
(*                                                                         *)
(* ConflictOrder is not inductive: that a vertex has become ready says     *)
(* something about its predecessors only because inDegree is exactly the   *)
(* number of its incoming edges not yet counted down (Degrees), each edge  *)
(* is counted down once (FiredEdges), and the graph has, for every field,  *)
(* an edge from the nearest earlier user (LatestUser, Covered).  Earlier   *)
(* users of the field need no edge of their own: they had ended when the   *)
(* nearest one started, which is ConflictOrder itself.                     *)
(*                                                                         *)
(* FinishedMeansAll is about numbers that are sums over the threads; the   *)
(* invariant names the sets these numbers count instead (Tally).           *)
(***************************************************************************)
EXTENDS TxDAG, FiniteSetTheorems, SequenceTheorems, TLAPS

Edges == UNION {{<<i, k>> : k \in 1 .. Len(outEdge[i])} : i \in Txs}

\* The incoming edges of j that have not been counted down.
Pending(j) == {e \in Edges : outEdge[e[1]][e[2]] = j /\ e \notin fired}

Queued(j) == \E a \in 1 .. Len(topLevel) : topLevel[a] = j

Phases ==
  /\ phase # "run" => /\ \A t \in Threads : pc[t] = "idle"
                      /\ \A i \in Txs : status[i] = "idle"
                      /\ fired = {}
  /\ phase = "edges" => topLevel = <<>>
  /\ phase = "generate" => \A i \in Txs : Queued(i) => i < buildId
  /\ \A t \in Threads : nextId[t] # INVALID => pc[t] = "consume"
  /\ \A t \in Threads : pc[t] = "run" => status[cur[t]] = "running"
  /\ \A t \in Threads : pc[t] = "consume" => status[cur[t]] = "ended"

LatestUser ==
  phase = "edges" =>
    /\ \A c \in Fields : latest[c] # INVALID => latest[c] < buildId /\ c \in Uses(latest[c])
    /\ \A i \in 1 .. buildId - 1 : \A c \in Uses(i) : i <= latest[c]

\* If an earlier transaction uses field c too, one at or after it has an edge to j.
CoveredBy(j, c) ==
  \A i \in 1 .. j - 1 : c \in Uses(i) =>
    \E e \in Edges : /\ i <= e[1] /\ e[1] < j /\ c \in Uses(e[1])
                     /\ outEdge[e[1]][e[2]] = j

Covered ==
  /\ phase # "edges" => \A j \in Txs : \A c \in Uses(j) : CoveredBy(j, c)
  /\ phase = "edges" =>
       /\ \A j \in 1 .. buildId - 1 : \A c \in Uses(j) : CoveredBy(j, c)
       /\ buildId \in Txs => \A p \in 1 .. Len(criticals[buildId]) :
            p < buildPos => CoveredBy(buildId, criticals[buildId][p])

Degrees == \A j \in Txs : /\ IsFiniteSet(Pending(j))
                          /\ inDegree[j] = Cardinality(Pending(j))

\* A vertex is queued, held or executed only when nothing it waits for is left.
Ready ==
  \A j \in Txs :
    \/ Queued(j)
    \/ \E t \in Threads : j \in Held(t)
    \/ status[j] # "idle"
    => Pending(j) = {}

FiredEdges ==
  /\ \A e \in fired : status[e[1]] = "ended"
  /\ \A t \in Threads : pc[t] = "consume" =>
       \A k \in Nat : <<cur[t], k>> \in fired => k < edge[t]

IndInv == /\ TypeOK /\ Phases /\ LatestUser /\ Covered /\ Degrees /\ Ready
          /\ FiredEdges /\ OnePlace /\ ConflictOrder

-----------------------------------------------------------------------------
(* Type correctness.                                                        *)

\* Transactions are numbered by positive integers.
LEMMA TxsFacts ==
  /\ Txs \subseteq Nat \ {0}
  /\ INVALID \notin Txs
  BY NAssumption DEF Txs, INVALID

\* The loop variable of TxDAG::init, inside the loop, is a transaction.
LEMMA BuildIds ==
  /\ 1 \in 1 .. N + 1
  /\ \A i \in Txs : i + 1 \in 1 .. N + 1
  /\ \A i \in 1 .. N + 1 : i # N + 1 => i \in Txs
  BY NAssumption DEF Txs

\* The critical fields of a transaction are fields.
LEMMA UsesType ==
  ASSUME TypeOK
  PROVE  /\ \A i \in Txs : criticals[i] \in Seq(Fields)
         /\ \A i \in Txs : Uses(i) \subseteq Fields
         /\ \A i \in Txs : \A p \in 1 .. Len(criticals[i]) : criticals[i][p] \in Uses(i)
         /\ \A i \in Txs : \A c \in Uses(i) :
              \E p \in 1 .. Len(criticals[i]) : c = criticals[i][p]
  <1>1. \A i \in Txs : criticals[i] \in Seq(Fields)
    BY CriticalsAssumption DEF TypeOK, GraphType
  <1> QED
    BY <1>1 DEF Uses, Range

\* The initial state is well typed.
LEMMA InitType == Init => TypeOK
  <1> SUFFICES ASSUME Init PROVE TypeOK
    OBVIOUS
  <1> USE TxsFacts, BuildIds DEF Init, Vertex
  <1>1. GraphType
    BY DEF GraphType
  <1>2. ReadyType
    BY DEF ReadyType
  <1>3. ThreadType
    BY DEF ThreadType
  <1>4. ExecType
    <2>1. params \in [Txs -> BOOLEAN]
      BY Zenon
    <2>2. read \in [Txs -> [Fields -> Vertex]] /\ field \in [Fields -> Vertex]
      BY DEF INVALID
    <2> QED
      BY <2>1, <2>2 DEF ExecType
  <1> QED
    BY <1>1, <1>2, <1>3, <1>4 DEF TypeOK

\* Building the graph keeps the types.
LEMMA BuildType ==
  ASSUME TypeOK, Build
  PROVE  TypeOK'
  <1> USE TxsFacts, BuildIds DEF TypeOK
  <1>1. ThreadType' /\ ExecType'
    BY DEF Build, AddEdge, UpdateLatest, EndEdges, Generate, EndGenerate, threadVars,
           execVars, ThreadType, ExecType
  <1>2. CASE AddEdge
    <2>1. criticals[buildId] \in Seq(Fields)
      BY <1>2, UsesType DEF AddEdge
    <2>2. criticals[buildId][buildPos] \in Fields
      BY <1>2, <2>1 DEF AddEdge, GraphType
    <2> DEFINE pId == latest[criticals[buildId][buildPos]]
    <2>a. pId \in Txs \/ pId = INVALID
      BY <2>2 DEF GraphType, Vertex
    <2>b. outEdge' \in [Txs -> Seq(Txs)]
      <3>1. CASE pId = INVALID
        BY <1>2, <3>1 DEF AddEdge, GraphType
      <3>2. CASE pId \in Txs
        <4>0. outEdge[pId] \in Seq(Txs) /\ buildId \in Txs
          BY <1>2, <3>2 DEF AddEdge, GraphType
        <4>1. Append(outEdge[pId], buildId) \in Seq(Txs)
          BY <4>0
        <4>2. outEdge' = [outEdge EXCEPT ![pId] = Append(outEdge[pId], buildId)]
          BY <1>2, <3>2 DEF AddEdge
        <4> QED
          BY <3>2, <4>1, <4>2 DEF GraphType
      <3> QED
        BY <2>a, <3>1, <3>2
    <2>3. GraphType'
      BY <1>2, <2>b DEF AddEdge, GraphType
    <2>4. ReadyType'
      BY <1>2 DEF AddEdge, ReadyType
    <2> QED
      BY <1>1, <2>3, <2>4
  <1>3. CASE UpdateLatest
    <2>1. latest' \in [Fields -> Vertex]
      BY <1>3 DEF UpdateLatest, GraphType, Vertex
    <2>2. buildId' \in 1 .. N + 1
      BY <1>3 DEF UpdateLatest, GraphType
    <2>3. GraphType' /\ ReadyType'
      BY <1>3, <2>1, <2>2 DEF UpdateLatest, GraphType, ReadyType
    <2> QED
      BY <1>1, <2>3
  <1>4. CASE EndEdges
    BY <1>4, <1>1 DEF EndEdges, GraphType, ReadyType
  <1>5. CASE Generate
    <2>1. GraphType'
      BY <1>5 DEF Generate, GraphType
    <2>2. ReadyType'
      BY <1>5 DEF Generate, ReadyType
    <2> QED
      BY <1>1, <2>1, <2>2
  <1>6. CASE EndGenerate
    BY <1>6, <1>1 DEF EndGenerate, GraphType, ReadyType
  <1> QED
    BY <1>2, <1>3, <1>4, <1>5, <1>6 DEF Build

\* Executing it keeps the types.
LEMMA RunType ==
  ASSUME TypeOK, NEW t \in Threads, Start(t) \/ Step(t)
  PROVE  TypeOK'
  <1> USE TxsFacts DEF TypeOK
  <1>1. GraphType'
    BY DEF Start, Step, Check, Pop, PopNothing, AddCount, Execute, ExecuteEnd, CountDown,
           EndConsume, buildVars, GraphType
  <1>2. CASE Start(t) \/ Check(t) \/ PopNothing(t) \/ AddCount(t)
    <2>1. exeCnt' \in Nat
      BY <1>2 DEF Start, Check, PopNothing, AddCount, ReadyType, ThreadType
    <2>2. ReadyType' /\ ExecType'
      BY <1>2, <2>1 DEF Start, Check, PopNothing, AddCount, execVars, ReadyType, ExecType
    <2>3. /\ UNCHANGED <<cur, edge, nextId>>
          /\ \E x \in {"check", "exit", "pop", "count"} : pc' = [pc EXCEPT ![t] = x]
          /\ cnt' = cnt \/ cnt' = [cnt EXCEPT ![t] = 0]
      BY <1>2 DEF Start, Check, PopNothing, AddCount
    <2>4. ThreadType'
      BY <2>3 DEF ThreadType
    <2> QED
      BY <1>1, <2>2, <2>4
  <1>3. CASE Pop(t)
    <2>1. Head(topLevel) \in Txs /\ Tail(topLevel) \in Seq(Txs)
      BY <1>3 DEF Pop, ReadyType
    <2> QED
      BY <1>1, <1>3, <2>1 DEF Pop, execVars, ReadyType, ThreadType, ExecType, Vertex
  <1>4. CASE Execute(t)
    <2>a. ReadyType'
      BY <1>4 DEF Execute, ReadyType
    <2>b. pc' = [pc EXCEPT ![t] = "run"] \/ pc' = [pc EXCEPT ![t] = "consume"]
      BY <1>4 DEF Execute
    <2>c. nextId' \in [Threads -> Vertex] /\ edge' \in [Threads -> Nat \ {0}]
      BY <1>4 DEF Execute, ThreadType, Vertex
    <2>d. cnt' \in [Threads -> Nat]
      BY <1>4 DEF Execute, ThreadType
    <2>1. ReadyType' /\ ThreadType'
      BY <1>4, <2>a, <2>b, <2>c, <2>d DEF Execute, ThreadType
    <2>2. read' \in [Txs -> [Fields -> Vertex]]
      <3> DEFINE snap == [c \in Fields |-> IF c \in Uses(cur[t]) THEN field[c] ELSE 0]
      <3>1. snap \in [Fields -> Vertex]
        BY DEF ExecType, Vertex, INVALID
      <3>2. read' = read \/ read' = [read EXCEPT ![cur[t]] = snap]
        BY <1>4 DEF Execute
      <3> HIDE DEF snap
      <3> QED
        BY <3>1, <3>2 DEF ExecType
    <2>3. ExecType'
      BY <1>4, <2>2 DEF Execute, ExecType
    <2> QED
      BY <1>1, <2>1, <2>3
  <1>5. ASSUME NEW ok \in BOOLEAN, ExecuteEnd(t, ok) PROVE TypeOK'
    <2>1. ReadyType' /\ ThreadType'
      BY <1>5 DEF ExecuteEnd, ReadyType, ThreadType
    <2>2. cur[t] \in Txs
      BY <1>5 DEF ExecuteEnd, ThreadType, Vertex
    <2>3. field' \in [Fields -> Vertex]
      BY <1>5, <2>2 DEF ExecuteEnd, ExecType, Vertex
    <2>4. ExecType'
      BY <1>5, <2>3 DEF ExecuteEnd, ExecType
    <2> QED
      BY <1>1, <2>1, <2>4
  <1>6. CASE CountDown(t)
    <2>1. /\ cur[t] \in Txs /\ outEdge[cur[t]] \in Seq(Txs)
          /\ edge[t] \in 1 .. Len(outEdge[cur[t]])
      <3>1. cur[t] \in Txs /\ outEdge[cur[t]] \in Seq(Txs)
        BY <1>6 DEF CountDown, ThreadType, GraphType, Vertex
      <3>2. edge[t] \in Nat \ {0} /\ edge[t] <= Len(outEdge[cur[t]])
        BY <1>6 DEF CountDown, ThreadType
      <3> QED
        BY <3>1, <3>2
    <2>2. outEdge[cur[t]][edge[t]] \in Txs
      BY <2>1
    <2>3. inDegree' \in [Txs -> Int]
      <3>1. PICK j \in Txs : inDegree' = [inDegree EXCEPT ![j] = inDegree[j] - 1]
        BY <1>6, <2>2 DEF CountDown
      <3>2. inDegree[j] - 1 \in Int
        BY DEF ReadyType
      <3> QED
        BY <3>1, <3>2 DEF ReadyType
    <2>4. topLevel' \in Seq(Txs) /\ fired' \subseteq Txs \X (Nat \ {0})
      BY <1>6, <2>1, <2>2 DEF CountDown, ReadyType, ThreadType
    <2>5. ReadyType' /\ ExecType'
      BY <1>6, <2>3, <2>4 DEF CountDown, ReadyType, ExecType, execVars
    <2>6. nextId' \in [Threads -> Vertex]
      BY <1>6, <2>2 DEF CountDown, ThreadType, Vertex
    <2>7. ThreadType'
      BY <1>6, <2>6 DEF CountDown, ThreadType
    <2> QED
      BY <1>1, <2>5, <2>7
  <1>7. CASE EndConsume(t)
    <2>1. ReadyType' /\ ExecType'
      BY <1>7 DEF EndConsume, execVars, ReadyType, ExecType
    <2>2. cur' \in [Threads -> Vertex] /\ nextId' \in [Threads -> Vertex]
      BY <1>7 DEF EndConsume, ThreadType, Vertex
    <2>3. ThreadType'
      BY <1>7, <2>2 DEF EndConsume, ThreadType
    <2> QED
      BY <1>1, <2>1, <2>3
  <1> QED
    BY <1>2, <1>3, <1>4, <1>5, <1>6, <1>7 DEF Step

\* Every step keeps the types.
LEMMA StepType == TypeOK /\ [Next]_vars => TypeOK'
  <1> SUFFICES ASSUME TypeOK, [Next]_vars PROVE TypeOK'
    OBVIOUS
  <1>1. CASE UNCHANGED vars
    BY <1>1 DEF vars, TypeOK, GraphType, ReadyType, ThreadType, ExecType, buildVars,
                threadVars, execVars
  <1> QED
    BY <1>1, BuildType, RunType DEF Next

-----------------------------------------------------------------------------
(* The inductive invariant.                                                 *)

\* The initial state satisfies the invariant.
LEMMA InitInv == Init => IndInv
  <1> SUFFICES ASSUME Init PROVE IndInv
    OBVIOUS
  <1>1. TypeOK
    BY InitType
  <1>2. Edges = {} /\ \A j : Pending(j) = {}
    BY DEF Init, Edges, Pending
  <1>3. Phases
    BY TxsFacts DEF Init, Phases
  <1>4. LatestUser /\ Covered
    BY DEF Init, LatestUser, Covered
  <1>5. Degrees
    <2>1. IsFiniteSet({}) /\ Cardinality({}) = 0
      BY FS_EmptySet
    <2> QED
      BY <1>2, <2>1 DEF Init, Degrees
  <1>6. Ready /\ FiredEdges
    BY <1>2 DEF Ready, FiredEdges, Init
  <1>7. OnePlace /\ ConflictOrder
    BY TxsFacts DEF Init, OnePlace, ConflictOrder, Held
  <1> QED
    BY <1>1, <1>3, <1>4, <1>5, <1>6, <1>7 DEF IndInv

\* Steps that leave the graph and the fired edges alone leave what is pending alone.
LEMMA SameGraph ==
  ASSUME UNCHANGED <<criticals, outEdge, fired>>
  PROVE  /\ \A i : Uses(i)' = Uses(i)
         /\ Edges' = Edges
         /\ \A j : Pending(j)' = Pending(j)
         /\ \A j, c : CoveredBy(j, c)' = CoveredBy(j, c)
  BY DEF Uses, Edges, Pending, CoveredBy

\* An edge more towards buildId.
LEMMA EdgeAdded ==
  ASSUME TypeOK, fired = {}, fired' = {}, NEW p \in Txs, NEW b \in Txs,
         outEdge' = [outEdge EXCEPT ![p] = Append(outEdge[p], b)]
  PROVE  LET e == <<p, Len(outEdge[p]) + 1>> IN
         /\ e \notin Edges /\ Edges' = Edges \cup {e}
         /\ outEdge'[p][e[2]] = b
         /\ \A f \in Edges : outEdge'[f[1]][f[2]] = outEdge[f[1]][f[2]]
  <1> DEFINE e == <<p, Len(outEdge[p]) + 1>>
  <1>1. /\ outEdge[p] \in Seq(Txs) /\ Len(outEdge[p]) \in Nat
        /\ outEdge \in [Txs -> Seq(Txs)]
    BY DEF TypeOK, GraphType
  <1>2. /\ Len(outEdge'[p]) = Len(outEdge[p]) + 1
        /\ \A k \in 1 .. Len(outEdge[p]) : outEdge'[p][k] = outEdge[p][k]
        /\ outEdge'[p][Len(outEdge[p]) + 1] = b
    BY <1>1
  <1>3. \A i \in Txs : i # p => outEdge'[i] = outEdge[i]
    BY <1>1
  <1>4. e \notin Edges
    BY <1>1 DEF Edges
  <1>5. \A f \in Edges : outEdge'[f[1]][f[2]] = outEdge[f[1]][f[2]]
    BY <1>2, <1>3 DEF Edges
  <1>6. ASSUME NEW f PROVE f \in Edges' <=> f \in Edges \cup {e}
    <2>1. ASSUME NEW i \in Txs, NEW k \in Nat
          PROVE  k \in 1 .. Len(outEdge'[i]) <=>
                   k \in 1 .. Len(outEdge[i]) \/ <<i, k>> = e
      BY <1>1, <1>2, <1>3
    <2>2. f \in Edges' <=> \E i \in Txs : \E k \in Nat : f = <<i, k>> /\ k \in 1 .. Len(outEdge'[i])
      BY DEF Edges
    <2>3. f \in Edges <=> \E i \in Txs : \E k \in Nat : f = <<i, k>> /\ k \in 1 .. Len(outEdge[i])
      BY DEF Edges
    <2>4. e = <<p, Len(outEdge[p]) + 1>> /\ Len(outEdge[p]) + 1 \in Nat
      BY <1>1
    <2> HIDE DEF e
    <2> QED
      BY <2>1, <2>2, <2>3, <2>4
  <1> QED
    BY <1>2, <1>4, <1>5, <1>6

\* Linking a transaction to the last user of one of its fields (TxDAG::init).
LEMMA AddEdgeInv ==
  ASSUME IndInv, AddEdge
  PROVE  IndInv'
  <1>1. TypeOK /\ TypeOK'
    BY BuildType DEF IndInv, Build
  <1>2. PICK b \in Txs : b = buildId
    BY DEF AddEdge
  <1>3. /\ phase = "edges" /\ phase' = "edges"
        /\ buildId = b /\ buildId' = b /\ buildPos' = buildPos + 1
        /\ buildPos \in 1 .. Len(criticals[b])
        /\ UNCHANGED <<criticals, latest, topLevel, pc, cur, edge, nextId, status, fired>>
    <2>1. criticals[buildId] \in Seq(Fields) /\ buildPos \in Nat \ {0}
      BY <1>1, UsesType DEF AddEdge, TypeOK, GraphType
    <2> QED
      BY <1>2, <2>1 DEF AddEdge, threadVars, execVars
  <1>4. PICK c : c = criticals[b][buildPos]
    OBVIOUS
  <1>5. PICK p : p = latest[c]
    OBVIOUS
  <1>6. c \in Uses(b) /\ c \in Fields /\ (p \in Txs \/ p = INVALID)
    BY <1>1, <1>3, <1>4, <1>5, UsesType DEF TypeOK, GraphType, Vertex
  <1>7. fired = {} /\ fired' = {} /\ topLevel = <<>>
    BY <1>3 DEF IndInv, Phases
  <1>8. \A i : Uses(i)' = Uses(i)
    BY <1>3 DEF Uses
  <1>9. Phases' /\ LatestUser' /\ FiredEdges' /\ OnePlace' /\ ConflictOrder'
    BY <1>3, <1>7, <1>8 DEF IndInv, Phases, LatestUser, FiredEdges, OnePlace, ConflictOrder,
                            Held, Queued
  <1>10. Ready'
    BY <1>3, <1>7, TxsFacts DEF IndInv, Phases, Ready, Held, Queued
  <1>11. ASSUME \A j, d : CoveredBy(j, d) => CoveredBy(j, d)',
                CoveredBy(b, c)'
         PROVE  Covered'
    <2>1. \A q \in 1 .. Len(criticals[b]) : q < buildPos + 1 => q < buildPos \/ q = buildPos
      BY <1>1, <1>3 DEF TypeOK, GraphType
    <2>2. \A j \in 1 .. b - 1 : \A d \in Uses(j) : CoveredBy(j, d)'
      BY <1>3, <1>11 DEF IndInv, Covered
    <2>3. \A q \in 1 .. Len(criticals[b]) : \A d :
            d = criticals[b][q] /\ q < buildPos + 1 => CoveredBy(b, d)'
      BY <1>3, <1>4, <1>11, <2>1 DEF IndInv, Covered
    <2>4. \A q \in 1 .. Len(criticals[b]) : q < buildPos + 1 => CoveredBy(b, criticals[b][q])'
      BY <1>3, <2>3
    <2> QED
      BY <1>3, <1>8, <2>2, <2>4 DEF Covered
  <1>12. CASE p = INVALID
    <2>1. UNCHANGED <<outEdge, inDegree>>
      BY <1>3, <1>4, <1>5, <1>12 DEF AddEdge
    <2>2. Degrees'
      BY <1>3, <2>1, SameGraph DEF IndInv, Degrees
    <2>3. CoveredBy(b, c)
      <3>1. \A i \in 1 .. b - 1 : c \in Uses(i) => i <= p
        BY <1>3, <1>5 DEF IndInv, LatestUser
      <3>2. \A i \in 1 .. b - 1 : c \notin Uses(i)
        BY <1>12, <3>1, TxsFacts DEF INVALID
      <3> QED
        BY <3>2 DEF CoveredBy
    <2>4. Covered'
      BY <1>3, <1>11, <2>1, <2>3, SameGraph
    <2> QED
      BY <1>1, <1>9, <1>10, <2>2, <2>4 DEF IndInv
  <1>13. CASE p \in Txs
    <2>1. /\ outEdge' = [outEdge EXCEPT ![p] = Append(outEdge[p], b)]
          /\ inDegree' = [inDegree EXCEPT ![b] = inDegree[b] + 1]
      BY <1>3, <1>4, <1>5, <1>13, TxsFacts DEF AddEdge
    <2>2. PICK e : e = <<p, Len(outEdge[p]) + 1>>
      OBVIOUS
    <2>3. /\ e \notin Edges /\ Edges' = Edges \cup {e}
          /\ outEdge'[e[1]][e[2]] = b /\ e[1] = p
          /\ \A f \in Edges : outEdge'[f[1]][f[2]] = outEdge[f[1]][f[2]]
      BY <1>1, <1>7, <1>13, <2>1, <2>2, EdgeAdded
    <2>4. Pending(b)' = Pending(b) \cup {e} /\ e \notin Pending(b)
      BY <1>7, <2>3 DEF Pending
    <2>5. \A j \in Txs : j # b => Pending(j)' = Pending(j)
      BY <1>7, <2>3 DEF Pending
    <2>6. Degrees'
      <3>1. /\ IsFiniteSet(Pending(b)')
            /\ Cardinality(Pending(b)') = Cardinality(Pending(b)) + 1
        BY <2>4, FS_AddElement DEF IndInv, Degrees
      <3> QED
        BY <1>1, <2>1, <2>5, <3>1 DEF IndInv, Degrees, TypeOK, ReadyType
    <2>7. \A j, d : CoveredBy(j, d) => CoveredBy(j, d)'
      BY <1>8, <2>3 DEF CoveredBy
    <2>8. CoveredBy(b, c)'
      <3>1. p < b /\ c \in Uses(p)
        BY <1>3, <1>5, <1>6, <1>13, TxsFacts DEF IndInv, LatestUser
      <3>2. \A i \in 1 .. b - 1 : c \in Uses(i) => i <= p
        BY <1>3, <1>5 DEF IndInv, LatestUser
      <3> QED
        BY <1>8, <2>3, <3>1, <3>2 DEF CoveredBy
    <2> QED
      BY <1>1, <1>9, <1>10, <1>11, <2>6, <2>7, <2>8 DEF IndInv
  <1> QED
    BY <1>6, <1>12, <1>13

\* The other steps of TxDAG::init and DAG::generate.
LEMMA OtherBuildInv ==
  ASSUME IndInv, UpdateLatest \/ EndEdges \/ Generate \/ EndGenerate
  PROVE  IndInv'
  <1>1. TypeOK /\ TypeOK'
    BY BuildType DEF IndInv, Build
  <1>2. UNCHANGED <<criticals, outEdge, inDegree, pc, cur, edge, nextId, status, fired>>
    BY DEF UpdateLatest, EndEdges, Generate, EndGenerate, threadVars, execVars
  <1>3. Degrees' /\ FiredEdges'
    BY <1>2, SameGraph DEF IndInv, Degrees, FiredEdges
  <1>4. ConflictOrder' /\ (\A t : Held(t)' = Held(t))
    BY <1>2, SameGraph DEF IndInv, ConflictOrder, Held
  <1>5. CASE UpdateLatest
    <2>1. PICK b \in Txs : b = buildId
      BY <1>5 DEF UpdateLatest
    <2>2. /\ phase = "edges" /\ phase' = "edges" /\ b = buildId /\ buildId' = b + 1
          /\ buildPos' = 1 /\ buildPos > Len(criticals[b]) /\ topLevel' = topLevel
          /\ latest' = [c \in Fields |-> IF c \in Uses(b) THEN b ELSE latest[c]]
      BY <1>5, <2>1 DEF UpdateLatest
    <2>3. Phases' /\ Ready' /\ OnePlace'
      BY <1>2, <1>4, <2>2, SameGraph DEF IndInv, Phases, Ready, OnePlace, Queued
    <2>4. LatestUser'
      <3>1. b \in Nat \ {0} /\ \A i : Uses(i)' = Uses(i)
        BY <1>2, TxsFacts, SameGraph
      <3>2. \A c \in Fields : latest'[c] # INVALID => latest'[c] < b + 1 /\ c \in Uses(latest'[c])
        <4> TAKE c \in Fields
        <4>1. CASE c \in Uses(b)
          BY <2>2, <3>1, <4>1
        <4>2. CASE c \notin Uses(b)
          <5>1. latest'[c] = latest[c] /\ (latest[c] \in Nat \/ latest[c] = INVALID)
            BY <1>1, <2>2, <4>2, TxsFacts DEF TypeOK, GraphType, Vertex
          <5>2. latest[c] # INVALID => latest[c] < b /\ c \in Uses(latest[c])
            BY <2>2 DEF IndInv, LatestUser
          <5> QED
            BY <3>1, <5>1, <5>2
        <4> QED
          BY <4>1, <4>2
      <3>3. ASSUME NEW i \in 1 .. b, NEW c \in Uses(i) PROVE i <= latest'[c]
        <4>1. i \in Txs /\ c \in Fields
          BY <1>1, NAssumption, UsesType DEF Txs
        <4> QED
          BY <2>2, <3>1, <4>1 DEF IndInv, LatestUser
      <3>4. (b + 1) - 1 = b
        BY <3>1
      <3> QED
        BY <2>2, <3>1, <3>2, <3>3, <3>4 DEF LatestUser
    <2>5. Covered'
      <3>1. ASSUME NEW j \in 1 .. b, NEW c \in Uses(j) PROVE CoveredBy(j, c)
        <4>1. CASE j = b
          <5>1. PICK q \in 1 .. Len(criticals[b]) : c = criticals[b][q]
            BY <1>1, <4>1, UsesType
          <5>2. q < buildPos
            BY <1>1, <2>2, UsesType DEF TypeOK, GraphType
          <5> QED
            BY <2>2, <4>1, <5>1, <5>2 DEF IndInv, Covered
        <4>2. CASE j \in 1 .. b - 1
          BY <2>2, <4>2 DEF IndInv, Covered
        <4> QED
          BY <4>1, <4>2, TxsFacts
      <3>2. (b + 1) - 1 = b
        BY TxsFacts
      <3>3. \A q \in Nat : q < 1 => q \notin 1 .. Len(criticals'[b + 1])
        OBVIOUS
      <3>4. \A j \in 1 .. buildId' - 1 : \A c \in Uses(j)' : CoveredBy(j, c)'
        BY <1>2, <2>2, <3>1, <3>2, SameGraph
      <3> QED
        BY <2>2, <3>3, <3>4 DEF Covered
    <2> QED
      BY <1>1, <1>3, <1>4, <2>3, <2>4, <2>5 DEF IndInv
  <1>6. CASE EndEdges
    <2>1. /\ phase = "edges" /\ phase' = "generate" /\ buildId = N + 1 /\ buildId' = 1
          /\ topLevel = <<>> /\ topLevel' = <<>>
      BY <1>6 DEF EndEdges, IndInv, Phases
    <2>2. Phases' /\ LatestUser'
      BY <1>2, <2>1 DEF IndInv, Phases, LatestUser, Queued
    <2>3. Ready' /\ OnePlace'
      BY <1>2, <1>4, <2>1, SameGraph DEF IndInv, Ready, OnePlace, Queued
    <2>4. Covered'
      <3>1. Txs = 1 .. buildId - 1
        BY <2>1, NAssumption DEF Txs
      <3> QED
        BY <1>2, <2>1, <3>1, SameGraph DEF IndInv, Covered
    <2> QED
      BY <1>1, <1>3, <1>4, <2>2, <2>3, <2>4 DEF IndInv
  <1>7. CASE Generate
    <2>1. PICK b \in Txs : b = buildId
      BY <1>7 DEF Generate
    <2>2. /\ phase = "generate" /\ phase' = "generate" /\ b = buildId /\ buildId' = b + 1
          /\ topLevel' = IF inDegree[b] = 0 THEN Append(topLevel, b) ELSE topLevel
      BY <1>7, <2>1 DEF Generate
    <2>3. /\ topLevel \in Seq(Txs) /\ b \in Nat
          /\ \A a \in 1 .. Len(topLevel) : topLevel[a] < b /\ topLevel[a] \in Txs
      <3>1. topLevel \in Seq(Txs) /\ b \in Nat
        BY <1>1, TxsFacts DEF TypeOK, ReadyType
      <3>2. \A a \in 1 .. Len(topLevel) : topLevel[a] \in Txs
        BY <3>1
      <3> QED
        BY <2>2, <3>1, <3>2 DEF IndInv, Phases, Queued
    <2>4. /\ \A a \in 1 .. Len(topLevel') :
               \/ a \in 1 .. Len(topLevel) /\ topLevel'[a] = topLevel[a]
               \/ a = Len(topLevel) + 1 /\ topLevel'[a] = b /\ inDegree[b] = 0
      BY <2>2, <2>3
    <2>5. \A i \in Txs : Queued(i)' => i < b + 1
      BY <2>3, <2>4, TxsFacts DEF Queued
    <2>6. Phases' /\ LatestUser' /\ Covered'
      BY <1>2, <2>2, <2>5, SameGraph DEF IndInv, Phases, LatestUser, Covered
    <2>7. inDegree[b] = 0 => Pending(b) = {}
      BY FS_EmptySet DEF IndInv, Degrees
    <2>8. Ready'
      BY <1>2, <1>4, <2>2, <2>4, <2>7, SameGraph DEF IndInv, Ready, Queued
    <2>9. OnePlace'
      <3>1. \A t \in Threads : Held(t) = {}
        BY <2>2, TxsFacts DEF IndInv, Phases, Held
      <3>2. \A a \in 1 .. Len(topLevel') : status'[topLevel'[a]] = "idle"
        BY <1>2, <2>2, <2>3, <2>4 DEF IndInv, Phases
      <3>3. \A x, y \in 1 .. Len(topLevel') : topLevel'[x] = topLevel'[y] => x = y
        BY <2>3, <2>4, TxsFacts DEF IndInv, OnePlace
      <3> QED
        BY <1>2, <1>4, <3>1, <3>2, <3>3 DEF IndInv, OnePlace
    <2> QED
      BY <1>1, <1>3, <1>4, <2>6, <2>8, <2>9 DEF IndInv
  <1>8. CASE EndGenerate
    <2>1. phase = "generate" /\ phase' = "run" /\ topLevel' = topLevel
      BY <1>8 DEF EndGenerate
    <2>2. Phases' /\ LatestUser' /\ Covered'
      BY <1>2, <2>1, SameGraph DEF IndInv, Phases, LatestUser, Covered
    <2>3. Ready' /\ OnePlace'
      BY <1>2, <1>4, <2>1, SameGraph DEF IndInv, Ready, OnePlace, Queued
    <2> QED
      BY <1>1, <1>3, <1>4, <2>2, <2>3 DEF IndInv
  <1> QED
    BY <1>5, <1>6, <1>7, <1>8

\* No step of a parallel_for body changes the graph.
LEMMA RunGraph ==
  ASSUME IndInv, NEW t \in Threads, Start(t) \/ Step(t)
  PROVE  /\ TypeOK /\ TypeOK' /\ phase = "run"
         /\ UNCHANGED <<criticals, outEdge, phase>>
         /\ \A i : Uses(i)' = Uses(i)
         /\ Edges' = Edges
         /\ LatestUser' /\ Covered'
  <1>1. TypeOK /\ TypeOK'
    BY RunType DEF IndInv
  <1>2. /\ UNCHANGED <<criticals, outEdge, phase>>
        /\ phase = "run" \/ pc[t] # "idle"
    <2>1. CASE Start(t)
      BY <2>1 DEF Start, buildVars
    <2>2. CASE Check(t) \/ Pop(t) \/ PopNothing(t) \/ AddCount(t)
      BY <2>2 DEF Check, Pop, PopNothing, AddCount, buildVars
    <2>3. CASE Execute(t)
      BY <2>3 DEF Execute, buildVars
    <2>4. ASSUME NEW ok \in BOOLEAN, ExecuteEnd(t, ok)
          PROVE  UNCHANGED <<criticals, outEdge, phase>> /\ pc[t] # "idle"
      BY <2>4 DEF ExecuteEnd, buildVars
    <2>5. CASE CountDown(t) \/ EndConsume(t)
      BY <2>5 DEF CountDown, EndConsume, buildVars
    <2> QED
      BY <2>1, <2>2, <2>3, <2>4, <2>5 DEF Step
  <1>5. phase = "run"
    BY <1>2 DEF IndInv, Phases
  <1>6. /\ \A i : Uses(i)' = Uses(i)
        /\ Edges' = Edges
        /\ \A j, c : CoveredBy(j, c)' = CoveredBy(j, c)
    BY <1>2 DEF Uses, Edges, CoveredBy
  <1> QED
    BY <1>1, <1>2, <1>5, <1>6 DEF IndInv, LatestUser, Covered

\* Between two vertices: the loop test, an empty pop, adding to m_exeCnt.
LEMMA IdleStepInv ==
  ASSUME IndInv, NEW t \in Threads, Start(t) \/ Check(t) \/ PopNothing(t) \/ AddCount(t)
  PROVE  IndInv'
  <1>1. /\ TypeOK /\ TypeOK' /\ phase = "run" /\ phase' = "run"
        /\ \A i : Uses(i)' = Uses(i)
        /\ LatestUser' /\ Covered' /\ UNCHANGED <<criticals, outEdge>>
    BY RunGraph DEF Step
  <1>2. /\ UNCHANGED <<inDegree, topLevel, cur, edge, nextId, status, fired>>
        /\ pc[t] \notin {"exec", "run", "consume"}
        /\ \E x \in {"check", "exit", "pop", "count"} : pc' = [pc EXCEPT ![t] = x]
    BY DEF Start, Check, PopNothing, AddCount, execVars
  <1>3. /\ \A u \in Threads : u # t => pc'[u] = pc[u]
        /\ pc'[t] \notin {"exec", "run", "consume"}
    BY <1>1, <1>2 DEF TypeOK, ThreadType
  <1>4. \A u \in Threads : Held(u)' = Held(u)
    BY <1>2, <1>3 DEF Held
  <1>5. Degrees' /\ \A j : Pending(j)' = Pending(j)
    BY <1>1, <1>2, SameGraph DEF IndInv, Degrees
  <1>6. Phases'
    BY <1>1, <1>2, <1>3 DEF IndInv, Phases
  <1>7. Ready'
    BY <1>2, <1>4, <1>5 DEF IndInv, Ready, Queued
  <1>8. FiredEdges' /\ ConflictOrder'
    BY <1>1, <1>2, <1>3 DEF IndInv, FiredEdges, ConflictOrder
  <1>9. OnePlace'
    BY <1>2, <1>3, <1>4 DEF IndInv, OnePlace
  <1> QED
    BY <1>1, <1>5, <1>6, <1>7, <1>8, <1>9 DEF IndInv

\* A vertex moves from the queue to a thread.
LEMMA PopInv ==
  ASSUME IndInv, NEW t \in Threads, Pop(t)
  PROVE  IndInv'
  <1>1. /\ TypeOK /\ TypeOK' /\ phase = "run" /\ phase' = "run"
        /\ \A i : Uses(i)' = Uses(i)
        /\ LatestUser' /\ Covered' /\ UNCHANGED <<criticals, outEdge>>
    BY RunGraph DEF Step
  <1>2. topLevel \in Seq(Txs) /\ topLevel # <<>>
    BY <1>1 DEF Pop, TypeOK, ReadyType
  <1>3. PICK i \in Txs : i = Head(topLevel)
    BY <1>2
  <1>4. /\ UNCHANGED <<inDegree, edge, nextId, status, fired>>
        /\ pc[t] = "pop" /\ pc' = [pc EXCEPT ![t] = "exec"]
        /\ cur' = [cur EXCEPT ![t] = i] /\ topLevel' = Tail(topLevel)
    BY <1>3 DEF Pop, execVars
  <1>5. /\ i = topLevel[1] /\ 1 \in 1 .. Len(topLevel)
        /\ \A a \in 1 .. Len(topLevel') : /\ a + 1 \in 1 .. Len(topLevel)
                                          /\ topLevel'[a] = topLevel[a + 1]
    BY <1>2, <1>3, <1>4
  <1>6. /\ \A u \in Threads : u # t => pc'[u] = pc[u] /\ cur'[u] = cur[u]
        /\ pc'[t] = "exec" /\ cur'[t] = i
    BY <1>1, <1>4 DEF TypeOK, ThreadType
  <1>7. /\ \A u \in Threads : u # t => Held(u)' = Held(u)
        /\ nextId[t] = INVALID /\ Held(t) = {} /\ Held(t)' = {i}
    <2>1. nextId[t] = INVALID
      BY <1>4 DEF IndInv, Phases
    <2> QED
      BY <1>4, <1>6, <2>1, TxsFacts DEF Held
  <1>8. Degrees' /\ \A j : Pending(j)' = Pending(j)
    BY <1>1, <1>4, SameGraph DEF IndInv, Degrees
  <1>9. Queued(i) /\ status[i] = "idle" /\ (\A j \in Txs : Queued(j)' => Queued(j) /\ j # i)
    <2>1. Queued(i) /\ status[i] = "idle"
      BY <1>5 DEF IndInv, OnePlace, Queued
    <2>2. ASSUME NEW j \in Txs, Queued(j)' PROVE Queued(j) /\ j # i
      <3>1. PICK a \in 1 .. Len(topLevel') : topLevel'[a] = j
        BY <2>2 DEF Queued
      <3>2. topLevel[a + 1] = j /\ a + 1 \in 1 .. Len(topLevel) /\ a + 1 # 1
        BY <1>5, <3>1
      <3> QED
        BY <1>5, <3>2 DEF IndInv, OnePlace, Queued
    <2> QED
      BY <2>1, <2>2
  <1>10. Phases'
    BY <1>1, <1>4, <1>6 DEF IndInv, Phases
  <1>11. Ready'
    BY <1>4, <1>7, <1>8, <1>9 DEF IndInv, Ready
  <1>12. FiredEdges' /\ ConflictOrder'
    BY <1>1, <1>4, <1>6 DEF IndInv, FiredEdges, ConflictOrder
  <1>13. OnePlace'
    <2>1. \A x, y \in 1 .. Len(topLevel') : topLevel'[x] = topLevel'[y] => x = y
      <3> TAKE x, y \in 1 .. Len(topLevel')
      <3>1. topLevel'[x] = topLevel'[y] => x + 1 = y + 1
        BY <1>5 DEF IndInv, OnePlace
      <3> QED
        BY <3>1
    <2>2. \A a \in 1 .. Len(topLevel') :
            /\ status'[topLevel'[a]] = "idle"
            /\ \A u \in Threads : topLevel'[a] \notin Held(u)'
      <3> TAKE a \in 1 .. Len(topLevel')
      <3>1. topLevel'[a] # i
        BY <1>5 DEF IndInv, OnePlace
      <3> QED
        BY <1>4, <1>5, <1>7, <3>1 DEF IndInv, OnePlace
    <2>3. \A u \in Threads : i \notin Held(u)
      BY <1>5 DEF IndInv, OnePlace
    <2>4. \A u, v \in Threads : u # v => Held(u)' \cap Held(v)' = {}
      BY <1>7, <2>3 DEF IndInv, OnePlace
    <2>5. \A u \in Threads : nextId'[u] # INVALID => /\ nextId'[u] # cur'[u]
                                                     /\ status'[nextId'[u]] = "idle"
      BY <1>4, <1>6, <1>7 DEF IndInv, OnePlace
    <2>6. \A u \in Threads : pc'[u] = "exec" => status'[cur'[u]] = "idle"
      BY <1>4, <1>6, <1>9 DEF IndInv, OnePlace
    <2> QED
      BY <2>1, <2>2, <2>4, <2>5, <2>6 DEF OnePlace
  <1> QED
    BY <1>1, <1>8, <1>10, <1>11, <1>12, <1>13 DEF IndInv

\* A vertex with no pending edge may start: the nearest earlier user of each of its
\* fields has ended, and with it, by ConflictOrder, the ones before.
LEMMA PredecessorsEnded ==
  ASSUME IndInv, phase = "run", NEW j \in Txs, Pending(j) = {},
         NEW i \in 1 .. j - 1, Uses(i) \cap Uses(j) # {}
  PROVE  status[i] = "ended"
  <1>1. PICK c \in Uses(i) \cap Uses(j) : TRUE
    OBVIOUS
  <1>2. PICK e \in Edges : /\ i <= e[1] /\ e[1] < j /\ c \in Uses(e[1])
                           /\ outEdge[e[1]][e[2]] = j
    BY <1>1 DEF IndInv, Covered, CoveredBy
  <1>3. e \in fired
    BY <1>2 DEF Pending
  <1>4. status[e[1]] = "ended" /\ e[1] \in Txs
    BY <1>3 DEF IndInv, FiredEdges, Edges, TypeOK, ReadyType
  <1>5. CASE i = e[1]
    BY <1>4, <1>5
  <1>6. CASE i # e[1]
    <2>1. i \in 1 .. e[1] - 1
      BY <1>2, <1>4, <1>6, TxsFacts
    <2> QED
      BY <1>1, <1>2, <1>4, <2>1 DEF IndInv, ConflictOrder
  <1> QED
    BY <1>5, <1>6

\* A transaction starts (f_executeTx): everything it waits for is counted down.
LEMMA ExecuteInv ==
  ASSUME IndInv, NEW t \in Threads, Execute(t)
  PROVE  IndInv'
  <1>1. /\ TypeOK /\ TypeOK' /\ phase = "run" /\ phase' = "run"
        /\ \A i : Uses(i)' = Uses(i)
        /\ LatestUser' /\ Covered' /\ UNCHANGED <<criticals, outEdge>>
    BY RunGraph DEF Step
  <1>2. PICK i \in Txs : i = cur[t]
    BY <1>1 DEF Execute, TypeOK, ThreadType, Vertex
  <1>3. /\ UNCHANGED <<inDegree, topLevel, cur, fired>>
        /\ pc[t] = "exec" /\ i = cur[t]
        /\ edge' = [edge EXCEPT ![t] = 1] /\ nextId' = [nextId EXCEPT ![t] = INVALID]
        /\ \/ /\ status' = [status EXCEPT ![i] = "running"] /\ pc' = [pc EXCEPT ![t] = "run"]
           \/ /\ status' = [status EXCEPT ![i] = "ended"] /\ pc' = [pc EXCEPT ![t] = "consume"]
    BY <1>2 DEF Execute
  <1>4. status[i] = "idle" /\ nextId[t] = INVALID
    BY <1>3 DEF IndInv, OnePlace, Phases
  <1>5. /\ \A u \in Threads : u # t => pc'[u] = pc[u] /\ edge'[u] = edge[u]
        /\ \A u \in Threads : nextId'[u] = nextId[u]
        /\ edge'[t] = 1
        /\ \A k \in Txs : k # i => status'[k] = status[k]
        /\ \/ pc'[t] = "run" /\ status'[i] = "running"
           \/ pc'[t] = "consume" /\ status'[i] = "ended"
    BY <1>1, <1>3, <1>4 DEF TypeOK, ThreadType, ExecType
  <1>6. \A u \in Threads : Held(u)' = Held(u)
    BY <1>3, <1>5 DEF Held
  <1>7. i \in Held(t) /\ \A u \in Threads : u # t => i \notin Held(u)
    BY <1>3, <1>6 DEF Held, IndInv, OnePlace
  <1>8. /\ \A u \in Threads : u # t /\ pc[u] \in {"exec", "run", "consume"} => cur[u] # i
        /\ \A u \in Threads : nextId[u] # i
    BY <1>4, <1>7, TxsFacts DEF Held
  <1>9. Degrees' /\ \A j : Pending(j)' = Pending(j)
    BY <1>1, <1>3, SameGraph DEF IndInv, Degrees
  <1>10. Pending(i) = {}
    BY <1>7 DEF IndInv, Ready
  <1>11. Phases'
    <2>1. \A u \in Threads : u # t /\ pc[u] \in {"exec", "run", "consume"} =>
            status'[cur[u]] = status[cur[u]]
      BY <1>1, <1>5, <1>8 DEF TypeOK, ThreadType, Vertex
    <2> QED
      BY <1>1, <1>3, <1>4, <1>5, <2>1 DEF IndInv, Phases
  <1>12. Ready'
    BY <1>3, <1>5, <1>6, <1>9, <1>10 DEF IndInv, Ready, Queued
  <1>13. FiredEdges'
    <2>1. \A e \in fired : e[1] # i /\ e[1] \in Txs
      BY <1>1, <1>4 DEF IndInv, FiredEdges, TypeOK, ReadyType
    <2> QED
      BY <1>3, <1>5, <2>1 DEF IndInv, FiredEdges
  <1>14. OnePlace'
    <2>1. \A a \in 1 .. Len(topLevel) : topLevel[a] # i /\ topLevel[a] \in Txs
      BY <1>1, <1>7 DEF IndInv, OnePlace, TypeOK, ReadyType
    <2>2. \A u \in Threads : nextId'[u] # INVALID =>
            nextId'[u] # cur'[u] /\ status'[nextId'[u]] = "idle"
      BY <1>1, <1>3, <1>5, <1>8 DEF IndInv, OnePlace, TypeOK, ThreadType, Vertex
    <2>3. \A u \in Threads : pc'[u] = "exec" => status'[cur'[u]] = "idle"
      <3> SUFFICES ASSUME NEW u \in Threads, pc'[u] = "exec" PROVE status'[cur'[u]] = "idle"
        OBVIOUS
      <3>1. u # t /\ pc[u] = "exec"
        BY <1>5
      <3>2. cur[u] \in Txs /\ cur[u] # i
        BY <1>1, <1>8, <3>1 DEF TypeOK, ThreadType, Vertex
      <3> QED
        BY <1>3, <1>5, <3>1, <3>2 DEF IndInv, OnePlace
    <2> QED
      BY <1>3, <1>5, <1>6, <2>1, <2>2, <2>3 DEF IndInv, OnePlace
  <1>15. ConflictOrder'
    <2> SUFFICES ASSUME NEW j \in Txs, status'[j] # "idle",
                        NEW k \in 1 .. j - 1, Uses(k) \cap Uses(j) # {}
                 PROVE  status'[k] = "ended"
      BY <1>1 DEF ConflictOrder
    <2>1. k \in Txs
      BY NAssumption DEF Txs
    <2>2. status[k] = "ended"
      <3>1. CASE j = i
        BY <1>1, <1>10, <3>1, PredecessorsEnded
      <3>2. CASE j # i
        BY <1>5, <3>2 DEF IndInv, ConflictOrder
      <3> QED
        BY <3>1, <3>2
    <2> QED
      BY <1>4, <1>5, <2>1, <2>2
  <1> QED
    BY <1>1, <1>9, <1>11, <1>12, <1>13, <1>14, <1>15 DEF IndInv

\* f_executeTx returns: no successor has been counted down yet.
LEMMA ExecuteEndInv ==
  ASSUME IndInv, NEW t \in Threads, NEW ok \in BOOLEAN, ExecuteEnd(t, ok)
  PROVE  IndInv'
  <1>1. /\ TypeOK /\ TypeOK' /\ phase = "run" /\ phase' = "run"
        /\ \A i : Uses(i)' = Uses(i)
        /\ LatestUser' /\ Covered' /\ UNCHANGED <<criticals, outEdge>>
    BY RunGraph DEF Step
  <1>2. PICK i \in Txs : i = cur[t]
    BY <1>1 DEF ExecuteEnd, TypeOK, ThreadType, Vertex
  <1>3. /\ UNCHANGED <<inDegree, topLevel, cur, edge, nextId, fired>>
        /\ pc[t] = "run" /\ i = cur[t]
        /\ status' = [status EXCEPT ![i] = "ended"] /\ pc' = [pc EXCEPT ![t] = "consume"]
    BY <1>2 DEF ExecuteEnd
  <1>4. status[i] = "running" /\ nextId[t] = INVALID
    BY <1>3 DEF IndInv, Phases
  <1>5. /\ \A u \in Threads : u # t => pc'[u] = pc[u]
        /\ \A k \in Txs : k # i => status'[k] = status[k]
        /\ pc'[t] = "consume" /\ status'[i] = "ended"
    BY <1>1, <1>3 DEF TypeOK, ThreadType, ExecType
  <1>6. \A u \in Threads : Held(u)' = Held(u)
    BY <1>3, <1>5 DEF Held
  <1>7. Degrees' /\ \A j : Pending(j)' = Pending(j)
    BY <1>1, <1>3, SameGraph DEF IndInv, Degrees
  <1>8. \A u \in Threads : pc[u] = "run" => status'[cur[u]] = "running" \/ u = t
    <2>1. \A u \in Threads : u # t /\ pc[u] = "run" => cur[u] # i /\ cur[u] \in Txs
      BY <1>1, <1>3 DEF IndInv, OnePlace, Held, TypeOK, ThreadType, Vertex
    <2> QED
      BY <1>5, <2>1 DEF IndInv, Phases
  <1>9. Phases'
    <2>1. \A u \in Threads : pc'[u] = "consume" => status'[cur[u]] = "ended"
      <3> SUFFICES ASSUME NEW u \in Threads, pc'[u] = "consume", u # t
                   PROVE  status'[cur[u]] = "ended"
        BY <1>3, <1>5
      <3>1. pc[u] = "consume" /\ cur[u] \in Txs
        BY <1>1, <1>5 DEF TypeOK, ThreadType, Vertex
      <3> QED
        BY <1>5, <3>1 DEF IndInv, Phases
    <2> QED
      BY <1>1, <1>3, <1>4, <1>5, <1>8, <2>1 DEF IndInv, Phases
  <1>10. Ready'
    BY <1>3, <1>4, <1>5, <1>6, <1>7 DEF IndInv, Ready, Queued
  <1>11. FiredEdges'
    <2>1. \A e \in fired : e[1] # i /\ e[1] \in Txs
      BY <1>1, <1>4 DEF IndInv, FiredEdges, TypeOK, ReadyType
    <2> QED
      BY <1>3, <1>5, <2>1 DEF IndInv, FiredEdges
  <1>12. OnePlace'
    <2>1. \A a \in 1 .. Len(topLevel) : topLevel[a] # i /\ topLevel[a] \in Txs
      BY <1>1, <1>4 DEF IndInv, OnePlace, TypeOK, ReadyType
    <2>2. \A u \in Threads : nextId'[u] # INVALID =>
            nextId'[u] # cur'[u] /\ status'[nextId'[u]] = "idle"
      BY <1>1, <1>3, <1>4, <1>5 DEF IndInv, OnePlace, TypeOK, ThreadType, Vertex
    <2>3. \A u \in Threads : pc'[u] = "exec" => status'[cur'[u]] = "idle"
      <3> SUFFICES ASSUME NEW u \in Threads, pc'[u] = "exec" PROVE status'[cur'[u]] = "idle"
        OBVIOUS
      <3>1. u # t /\ pc[u] = "exec"
        BY <1>5
      <3>2. cur[u] \in Txs /\ status[cur[u]] = "idle"
        BY <1>1, <3>1 DEF IndInv, OnePlace, TypeOK, ThreadType, Vertex
      <3> QED
        BY <1>3, <1>4, <1>5, <3>2
    <2> QED
      BY <1>3, <1>5, <1>6, <2>1, <2>2, <2>3 DEF IndInv, OnePlace
  <1>13. ConflictOrder'
    <2> SUFFICES ASSUME NEW j \in Txs, status'[j] # "idle",
                        NEW k \in 1 .. j - 1, Uses(k) \cap Uses(j) # {}
                 PROVE  status'[k] = "ended"
      BY <1>1 DEF ConflictOrder
    <2>1. k \in Txs
      BY NAssumption DEF Txs
    <2>2. status[k] = "ended"
      BY <1>4, <1>5 DEF IndInv, ConflictOrder
    <2> QED
      BY <1>5, <2>1, <2>2
  <1> QED
    BY <1>1, <1>7, <1>9, <1>10, <1>11, <1>12, <1>13 DEF IndInv

\* Counting down an edge takes exactly that edge from what its target waits for.
LEMMA EdgeFired ==
  ASSUME IndInv, NEW t \in Threads, CountDown(t)
  PROVE  \E e \in Edges : \E j \in Txs :
           /\ e = <<cur[t], edge[t]>> /\ j = outEdge[e[1]][e[2]]
           /\ e \notin fired /\ fired' = fired \cup {e}
           /\ e \in Pending(j) /\ Pending(j)' = Pending(j) \ {e}
           /\ \A k : k # j => Pending(k)' = Pending(k)
  <1>1. TypeOK /\ pc[t] = "consume" /\ fired' = fired \cup {<<cur[t], edge[t]>>}
    BY DEF IndInv, CountDown
  <1>2. cur[t] \in Txs /\ outEdge[cur[t]] \in Seq(Txs)
    BY <1>1 DEF TypeOK, ThreadType, GraphType, Vertex
  <1>3. edge[t] \in 1 .. Len(outEdge[cur[t]])
    <2>1. edge[t] \in Nat \ {0} /\ edge[t] <= Len(outEdge[cur[t]])
      BY <1>1 DEF CountDown, TypeOK, ThreadType
    <2> QED
      BY <1>2, <2>1
  <1>4. PICK j \in Txs : j = outEdge[cur[t]][edge[t]]
    BY <1>2, <1>3
  <1>5. PICK e : e = <<cur[t], edge[t]>>
    OBVIOUS
  <1>6. e \in Edges /\ e[1] = cur[t] /\ e[2] = edge[t]
    BY <1>2, <1>3, <1>5 DEF Edges
  <1>7. e \notin fired
    <2>1. <<cur[t], edge[t]>> \in fired => edge[t] < edge[t]
      BY <1>1, <1>2, <1>3 DEF IndInv, FiredEdges
    <2> QED
      BY <1>2, <1>3, <1>5, <2>1
  <1>8. Edges' = Edges /\ outEdge' = outEdge
    BY RunGraph DEF Step
  <1>9. /\ e \in Pending(j) /\ Pending(j)' = Pending(j) \ {e}
        /\ \A k : k # j => Pending(k)' = Pending(k)
    BY <1>1, <1>4, <1>5, <1>6, <1>7, <1>8 DEF Pending
  <1> QED
    BY <1>1, <1>4, <1>5, <1>6, <1>7, <1>9

\* DAG::consume counts one edge down: exactly one edge stops pending.
LEMMA CountDownInv ==
  ASSUME IndInv, NEW t \in Threads, CountDown(t)
  PROVE  IndInv'
  <1>1. /\ TypeOK /\ TypeOK' /\ phase = "run" /\ phase' = "run"
        /\ \A i : Uses(i)' = Uses(i)
        /\ LatestUser' /\ Covered' /\ UNCHANGED <<criticals, outEdge>>
    BY RunGraph DEF Step
  <1>2. PICK e \in Edges, j \in Txs :
           /\ e = <<cur[t], edge[t]>> /\ j = outEdge[e[1]][e[2]]
           /\ e \notin fired /\ fired' = fired \cup {e}
           /\ e \in Pending(j) /\ Pending(j)' = Pending(j) \ {e}
           /\ \A k : k # j => Pending(k)' = Pending(k)
    BY EdgeFired
  <1>3. PICK i \in Txs : i = cur[t]
    BY <1>1 DEF CountDown, TypeOK, ThreadType, Vertex
  <1>4. /\ UNCHANGED <<cur, pc, status>> /\ pc[t] = "consume"
        /\ inDegree' = [inDegree EXCEPT ![j] = inDegree[j] - 1]
        /\ edge' = [edge EXCEPT ![t] = edge[t] + 1]
        /\ nextId' = IF inDegree[j] = 1 /\ nextId[t] = INVALID
                     THEN [nextId EXCEPT ![t] = j] ELSE nextId
        /\ topLevel' = IF inDegree[j] = 1 /\ nextId[t] # INVALID
                       THEN Append(topLevel, j) ELSE topLevel
    BY <1>2 DEF CountDown, execVars
  <1>5. /\ status[j] = "idle" /\ ~Queued(j)
        /\ \A u \in Threads : j \notin Held(u)
    BY <1>2 DEF IndInv, Ready
  <1>6. status[i] = "ended" /\ i # j /\ i \in Held(t)
    BY <1>3, <1>4, <1>5 DEF IndInv, Phases, Held
  <1>7. Degrees'
    <2>1. /\ IsFiniteSet(Pending(j)')
          /\ Cardinality(Pending(j)') = Cardinality(Pending(j)) - 1
      <3>1. IsFiniteSet(Pending(j)) /\ e \in Pending(j)
        BY <1>2 DEF IndInv, Degrees
      <3>2. /\ IsFiniteSet(Pending(j) \ {e})
            /\ Cardinality(Pending(j) \ {e}) = Cardinality(Pending(j)) - 1
        BY <3>1, FS_RemoveElement
      <3> QED
        BY <1>2, <3>2
    <2>2. \A k \in Txs : k # j => inDegree'[k] = inDegree[k]
      BY <1>1, <1>4 DEF TypeOK, ReadyType
    <2>3. inDegree'[j] = inDegree[j] - 1
      BY <1>1, <1>4 DEF TypeOK, ReadyType
    <2> QED
      BY <1>2, <2>1, <2>2, <2>3 DEF IndInv, Degrees
  <1>8. inDegree[j] = 1 => Pending(j)' = {}
    <2>1. inDegree[j] = 1 => inDegree'[j] = 0
      BY <1>1, <1>4 DEF TypeOK, ReadyType
    <2> QED
      BY <1>7, <2>1, FS_EmptySet DEF Degrees
  <1>9. /\ topLevel \in Seq(Txs)
        /\ \A a \in 1 .. Len(topLevel') :
             \/ a \in 1 .. Len(topLevel) /\ topLevel'[a] = topLevel[a]
             \/ /\ a = Len(topLevel) + 1 /\ topLevel'[a] = j
                /\ inDegree[j] = 1 /\ nextId[t] # INVALID
    <2>1. topLevel \in Seq(Txs)
      BY <1>1 DEF TypeOK, ReadyType
    <2> QED
      BY <1>4, <2>1
  <1>10. \A k \in Txs : Queued(k)' =>
            Queued(k) \/ (k = j /\ inDegree[j] = 1 /\ nextId[t] # INVALID)
    BY <1>9 DEF Queued
  <1>11. /\ \A u \in Threads : u # t => nextId'[u] = nextId[u] /\ edge'[u] = edge[u]
         /\ edge'[t] = edge[t] + 1 /\ edge[t] \in Nat
         /\ \/ nextId'[t] = nextId[t]
            \/ nextId'[t] = j /\ inDegree[j] = 1 /\ nextId[t] = INVALID
    BY <1>1, <1>4 DEF TypeOK, ThreadType
  <1>12. /\ \A u \in Threads : u # t => Held(u)' = Held(u)
         /\ \/ Held(t)' = Held(t)
            \/ Held(t)' = Held(t) \cup {j} /\ inDegree[j] = 1 /\ nextId[t] = INVALID
    BY <1>4, <1>11, TxsFacts DEF Held
  <1>13. Phases'
    BY <1>1, <1>4, <1>11 DEF IndInv, Phases
  <1>14. Ready'
    <2> SUFFICES ASSUME NEW k \in Txs,
                        \/ Queued(k)'
                        \/ \E u \in Threads : k \in Held(u)'
                        \/ status'[k] # "idle"
                 PROVE  Pending(k)' = {}
      BY DEF Ready
    <2>1. CASE k = j
      BY <1>4, <1>5, <1>8, <1>10, <1>12, <2>1
    <2>2. CASE k # j
      <3>1. Queued(k) \/ (\E u \in Threads : k \in Held(u)) \/ status[k] # "idle"
        BY <1>4, <1>10, <1>12, <2>2
      <3> QED
        BY <1>2, <2>2, <3>1 DEF IndInv, Ready
    <2> QED
      BY <2>1, <2>2
  <1>15. FiredEdges'
    <2>1. \A f \in fired' : status'[f[1]] = "ended"
      BY <1>2, <1>3, <1>4, <1>6 DEF IndInv, FiredEdges
    <2>2. ASSUME NEW u \in Threads, pc'[u] = "consume", NEW k \in Nat,
                 <<cur'[u], k>> \in fired'
          PROVE  k < edge'[u]
      <3>1. CASE u = t
        <4>1. k = edge[t] \/ <<cur[t], k>> \in fired
          BY <1>2, <1>4, <2>2, <3>1
        <4>2. k = edge[t] \/ k < edge[t]
          BY <1>4, <4>1 DEF IndInv, FiredEdges
        <4> QED
          BY <1>11, <3>1, <4>2
      <3>2. CASE u # t
        <4>1. cur[u] # i
          <5>1. cur[u] \in Txs
            BY <1>1, <1>4, <2>2 DEF TypeOK, ThreadType, Vertex
          <5>2. cur[u] \in Held(u)
            BY <1>4, <2>2, <5>1 DEF Held
          <5> QED
            BY <1>6, <3>2, <5>2 DEF IndInv, OnePlace
        <4>2. <<cur[u], k>> \in fired
          BY <1>2, <1>3, <1>4, <2>2, <4>1
        <4> QED
          BY <1>4, <1>11, <2>2, <3>2, <4>2 DEF IndInv, FiredEdges
      <3> QED
        BY <3>1, <3>2
    <2> QED
      BY <2>1, <2>2 DEF FiredEdges
  <1>16. ConflictOrder'
    BY <1>1, <1>4 DEF IndInv, ConflictOrder
  <1>17. OnePlace'
    <2>1. \A a \in 1 .. Len(topLevel) : topLevel[a] # j
      BY <1>5 DEF Queued
    <2>2. \A x, y \in 1 .. Len(topLevel') : topLevel'[x] = topLevel'[y] => x = y
      BY <1>9, <2>1 DEF IndInv, OnePlace
    <2>3. \A a \in 1 .. Len(topLevel') :
            /\ status'[topLevel'[a]] = "idle"
            /\ \A u \in Threads : topLevel'[a] \notin Held(u)'
      <3> TAKE a \in 1 .. Len(topLevel')
      <3>1. CASE topLevel'[a] = j
        <4>1. inDegree[j] = 1 /\ nextId[t] # INVALID
          BY <1>9, <2>1, <3>1
        <4> QED
          BY <1>4, <1>5, <1>12, <3>1, <4>1
      <3>2. CASE topLevel'[a] # j
        <4>1. a \in 1 .. Len(topLevel) /\ topLevel'[a] = topLevel[a]
          BY <1>9, <3>2
        <4> QED
          BY <1>4, <1>12, <3>2, <4>1 DEF IndInv, OnePlace
      <3> QED
        BY <3>1, <3>2
    <2>4. \A u, v \in Threads : u # v => Held(u)' \cap Held(v)' = {}
      BY <1>5, <1>12 DEF IndInv, OnePlace
    <2>5. \A u \in Threads : nextId'[u] # INVALID =>
            nextId'[u] # cur'[u] /\ status'[nextId'[u]] = "idle"
      BY <1>3, <1>4, <1>5, <1>6, <1>11 DEF IndInv, OnePlace
    <2>6. \A u \in Threads : pc'[u] = "exec" => status'[cur'[u]] = "idle"
      BY <1>4 DEF IndInv, OnePlace
    <2> QED
      BY <2>2, <2>3, <2>4, <2>5, <2>6 DEF OnePlace
  <1> QED
    BY <1>1, <1>7, <1>13, <1>14, <1>15, <1>16, <1>17 DEF IndInv

\* The end of DAG::consume: the vertex kept moves from nextId to cur.
LEMMA EndConsumeInv ==
  ASSUME IndInv, NEW t \in Threads, EndConsume(t)
  PROVE  IndInv'
  <1>1. /\ TypeOK /\ TypeOK' /\ phase = "run" /\ phase' = "run"
        /\ \A i : Uses(i)' = Uses(i)
        /\ LatestUser' /\ Covered' /\ UNCHANGED <<criticals, outEdge>>
    BY RunGraph DEF Step
  <1>2. /\ UNCHANGED <<inDegree, topLevel, edge, status, fired>> /\ pc[t] = "consume"
        /\ cur' = [cur EXCEPT ![t] = nextId[t]] /\ nextId' = [nextId EXCEPT ![t] = INVALID]
        /\ pc' = [pc EXCEPT ![t] = IF nextId[t] = INVALID THEN "pop" ELSE "exec"]
    BY DEF EndConsume, execVars
  <1>3. /\ \A u \in Threads : u # t => /\ pc'[u] = pc[u] /\ cur'[u] = cur[u]
                                       /\ nextId'[u] = nextId[u]
        /\ cur'[t] = nextId[t] /\ nextId'[t] = INVALID
        /\ pc'[t] = (IF nextId[t] = INVALID THEN "pop" ELSE "exec")
    BY <1>1, <1>2 DEF TypeOK, ThreadType
  <1>4. /\ \A u \in Threads : u # t => Held(u)' = Held(u)
        /\ Held(t)' \subseteq Held(t)
    BY <1>3, TxsFacts DEF Held
  <1>5. Degrees' /\ \A j : Pending(j)' = Pending(j)
    BY <1>1, <1>2, SameGraph DEF IndInv, Degrees
  <1>6. Phases'
    BY <1>1, <1>2, <1>3 DEF IndInv, Phases
  <1>7. Ready'
    BY <1>2, <1>4, <1>5 DEF IndInv, Ready, Queued
  <1>8. FiredEdges' /\ ConflictOrder'
    BY <1>1, <1>2, <1>3 DEF IndInv, FiredEdges, ConflictOrder
  <1>9. OnePlace'
    BY <1>2, <1>3, <1>4 DEF IndInv, OnePlace
  <1> QED
    BY <1>1, <1>5, <1>6, <1>7, <1>8, <1>9 DEF IndInv

\* Every step of a parallel_for body preserves the invariant.
LEMMA StepInv == IndInv /\ [Next]_vars => IndInv'
  <1> SUFFICES ASSUME IndInv, [Next]_vars PROVE IndInv'
    OBVIOUS
  <1>1. CASE UNCHANGED vars
    <2>1. /\ UNCHANGED <<criticals, phase, buildId, buildPos, latest, outEdge, inDegree,
                         topLevel, pc, cur, edge, nextId, status, fired>>
          /\ TypeOK'
      BY <1>1, StepType DEF vars, buildVars, threadVars, execVars, IndInv
    <2>2. \A u : Held(u)' = Held(u)
      BY <2>1 DEF Held
    <2>3. Phases' /\ LatestUser'
      BY <2>1, SameGraph DEF IndInv, Phases, LatestUser, Queued
    <2>4. Covered'
      <3>1. \A j, c : CoveredBy(j, c)' <=> CoveredBy(j, c)
        BY <2>1, SameGraph
      <3>2. \A j, q : CoveredBy(j, criticals[j][q])' <=> CoveredBy(j, criticals[j][q])
        <4> TAKE j, q
        <4>1. PICK c : c = criticals[j][q]
          OBVIOUS
        <4>2. c = criticals'[j][q]
          BY <2>1, <4>1
        <4> QED
          BY <3>1, <4>1, <4>2
      <3>3. \A q : CoveredBy(buildId, criticals[buildId][q])'
                      <=> CoveredBy(buildId, criticals[buildId][q])
        BY <2>1, <3>2
      <3> QED
        BY <2>1, <3>1, <3>3, SameGraph DEF IndInv, Covered
    <2>5. Degrees' /\ FiredEdges' /\ ConflictOrder'
      BY <2>1, SameGraph DEF IndInv, Degrees, FiredEdges, ConflictOrder
    <2>6. Ready' /\ OnePlace'
      BY <2>1, <2>2, SameGraph DEF IndInv, Ready, OnePlace, Queued
    <2> QED
      BY <2>1, <2>3, <2>4, <2>5, <2>6 DEF IndInv
  <1> QED
    BY <1>1, AddEdgeInv, OtherBuildInv, IdleStepInv, PopInv, ExecuteInv, ExecuteEndInv,
       CountDownInv, EndConsumeInv DEF Next, Build, Step

(* The inductive invariant holds throughout: every step of TxDAG::init,     *)
(* DAG::generate, DAG::waitPop, DAG::consume and executeUnit preserves it.  *)
THEOREM Invariance == Spec => []IndInv
  BY InitInv, StepInv, PTL DEF Spec

(* No transaction of a batch starts before every earlier transaction it    *)
(* conflicts with has ended: for any batch, fields and number of threads   *)
(* (TxDAG::init, DAG::consume).                                            *)
THEOREM ConflictOrderHolds == Spec => []ConflictOrder
  <1>1. IndInv => ConflictOrder
    BY DEF IndInv
  <1> QED
    BY <1>1, Invariance, PTL

(* A ready vertex is in exactly one place, so no transaction is executed   *)
(* or counted twice (DAG::consume, DAG::waitPop).                          *)
THEOREM OnePlaceHolds == Spec => []OnePlace
  <1>1. IndInv => OnePlace
    BY DEF IndInv
  <1> QED
    BY <1>1, Invariance, PTL

(* The unsigned in-degree never wraps below zero in consume's fetch_sub.   *)
THEOREM InDegreeNeverWraps == Spec => [](\A j \in Txs : inDegree[j] \in Nat)
  <1>1. IndInv => \A j \in Txs : inDegree[j] \in Nat
    BY FS_CardinalityType DEF IndInv, Degrees
  <1> QED
    BY <1>1, Invariance, PTL

(* The types of the graph's and the threads' state are kept by every step  *)
(* of TxDAG and DAG.                                                       *)
THEOREM TypeCorrect == Spec => []TypeOK
  BY InitType, StepType, PTL DEF Spec

-----------------------------------------------------------------------------
(* Refinement of SerialOrder.                                               *)

NoRead == [c \in Fields |-> 0]

Snapshot(i) == [c \in Fields |-> IF c \in Uses(i) THEN field[c] ELSE 0]

\* What a running transaction read when it started is still what its fields hold.
ExecState ==
  \A i \in Txs :
    /\ status[i] = "idle" => /\ read[i] = NoRead
                             /\ params[i] => results[i] = "null"
                             /\ ~params[i] => criticals[i] = <<>> /\ results[i] = "sendBack"
    /\ status[i] = "running" => read[i] = Snapshot(i) /\ results[i] = "null"

\* Nothing has been executed at first.
LEMMA InitExecState == Init => ExecState
  BY DEF Init, ExecState, NoRead

\* What parameters, results and status of a transaction say of each other.
LEMMA StepExecState == IndInv /\ ExecState /\ [Next]_vars => ExecState'
  <1> SUFFICES ASSUME IndInv, ExecState, [Next]_vars PROVE ExecState'
    OBVIOUS
  <1>1. TypeOK
    BY DEF IndInv
  <1>2. CASE UNCHANGED <<criticals, execVars>>
    BY <1>2 DEF execVars, ExecState, Snapshot, Uses
  <1>3. ASSUME NEW t \in Threads, Execute(t) PROVE ExecState'
    <2>1. PICK i \in Txs : i = cur[t]
      BY <1>1, <1>3 DEF Execute, TypeOK, ThreadType, Vertex
    <2>2. status[i] = "idle"
      BY <1>3, <2>1 DEF Execute, IndInv, OnePlace
    <2>3. UNCHANGED <<criticals, field, results>> /\ \A k : Snapshot(k)' = Snapshot(k)
      BY <1>3 DEF Execute, Snapshot, Uses
    <2>4. CASE params[i]
      <3>1. /\ params' = [params EXCEPT ![i] = FALSE]
            /\ read' = [read EXCEPT ![i] = Snapshot(i)]
            /\ status' = [status EXCEPT ![i] = "running"]
        BY <1>3, <2>1, <2>4 DEF Execute, Snapshot
      <3> QED
        BY <1>1, <2>2, <2>3, <2>4, <3>1 DEF ExecState, TypeOK, ExecType
    <2>5. CASE ~params[i]
      <3>1. UNCHANGED <<params, read>> /\ status' = [status EXCEPT ![i] = "ended"]
        BY <1>3, <2>1, <2>5 DEF Execute
      <3> QED
        BY <1>1, <2>3, <3>1 DEF ExecState, TypeOK, ExecType
    <2> QED
      BY <2>4, <2>5
  <1>4. ASSUME NEW t \in Threads, NEW ok \in BOOLEAN, ExecuteEnd(t, ok) PROVE ExecState'
    <2>1. PICK i \in Txs : i = cur[t]
      BY <1>1, <1>4 DEF ExecuteEnd, TypeOK, ThreadType, Vertex
    <2>2. status[i] = "running"
      BY <1>4, <2>1 DEF ExecuteEnd, IndInv, Phases
    <2>3. /\ UNCHANGED <<criticals, params, read>>
          /\ status' = [status EXCEPT ![i] = "ended"]
          /\ results' = results \/ results' = [results EXCEPT ![i] = "output"]
          /\ \/ field' = field
             \/ field' = [c \in Fields |-> IF c \in Uses(i) THEN i ELSE field[c]]
      BY <1>4, <2>1 DEF ExecuteEnd
    <2>4. ASSUME NEW k \in Txs, k # i, status[k] = "running"
          PROVE  Snapshot(k)' = Snapshot(k)
      <3>1. Uses(k) \cap Uses(i) = {}
        <4>1. CASE k < i
          <5>1. k \in 1 .. i - 1
            BY <4>1, TxsFacts
          <5> QED
            BY <2>2, <2>4, <5>1 DEF IndInv, ConflictOrder
        <4>2. CASE i < k
          <5>1. i \in 1 .. k - 1
            BY <4>2, TxsFacts
          <5> QED
            BY <2>2, <2>4, <5>1 DEF IndInv, ConflictOrder
        <4> QED
          BY <2>4, <4>1, <4>2, TxsFacts
      <3>2. Uses(k)' = Uses(k)
        BY <2>3 DEF Uses
      <3> QED
        BY <2>3, <3>1, <3>2 DEF Snapshot
    <2> QED
      BY <1>1, <2>2, <2>3, <2>4 DEF ExecState, TypeOK, ExecType
  <1>5. CASE Build
    <2>1. UNCHANGED <<criticals, execVars>>
      BY <1>5 DEF Build, AddEdge, UpdateLatest, EndEdges, Generate, EndGenerate
    <2> QED
      BY <1>2, <2>1
  <1>6. ASSUME NEW t \in Threads,
               \/ Start(t) \/ Check(t) \/ Pop(t) \/ PopNothing(t) \/ AddCount(t)
               \/ CountDown(t) \/ EndConsume(t)
        PROVE  ExecState'
    <2>1. UNCHANGED <<criticals, execVars>>
      BY <1>6 DEF Start, Check, Pop, PopNothing, AddCount, CountDown, EndConsume
    <2> QED
      BY <1>2, <2>1
  <1>7. CASE UNCHANGED vars
    BY <1>2, <1>7 DEF vars
  <1> QED
    BY <1>3, <1>4, <1>5, <1>6, <1>7 DEF Next, Step

\* Initial states of TxDAG map to initial states of SerialOrder.
LEMMA InitRefines == Init => Serial!Init
  <1> SUFFICES ASSUME Init PROVE Serial!Init
    OBVIOUS
  <1>1. Ended = {}
    BY DEF Init, Ended
  <1> QED
    BY <1>1 DEF Init, Serial!Init, Serial!NoRead, Serial!Txs, Txs

\* The mapped variables do not change unless a transaction ends.
LEMMA StutterRefines ==
  ASSUME UNCHANGED <<criticals, field, results>>, Ended' = Ended,
         \A i \in Ended : read'[i] = read[i], TypeOK, TypeOK'
  PROVE  UNCHANGED Serial!vars
  <1>1. \A i \in Txs : status'[i] = "ended" <=> status[i] = "ended"
    BY DEF Ended
  <1>2. [i \in Txs |-> IF status[i] = "ended" THEN read[i] ELSE [c \in Fields |-> 0]]'
        = [i \in Txs |-> IF status[i] = "ended" THEN read[i] ELSE [c \in Fields |-> 0]]
    BY <1>1 DEF Ended
  <1> QED
    BY <1>2 DEF Serial!vars

\* f_executeTx returning is the step that applies the transaction.
LEMMA EndRefines ==
  ASSUME IndInv, ExecState, NEW i \in Txs, NEW ok \in BOOLEAN,
         status[i] # "ended", Pending(i) = {}, phase = "run",
         status' = [status EXCEPT ![i] = "ended"],
         UNCHANGED <<criticals, read>>, read[i] = Snapshot(i),
         field' = IF ok THEN [c \in Fields |-> IF c \in Uses(i) THEN i ELSE field[c]] ELSE field,
         ok <=> results'[i] # "null",
         \A k \in Txs : k # i => results'[k] = results[k]
  PROVE  Serial!Apply(i, ok)
  <1>1. TypeOK
    BY DEF IndInv
  <1>2. Ended' = Ended \cup {i} /\ i \notin Ended
    BY <1>1 DEF Ended, TypeOK, ExecType
  <1>3. \A k \in Txs : k \in Ended' <=> k \in Ended \/ k = i
    BY <1>2
  <1>4. \A k : Serial!Uses(k) = Uses(k)
    BY DEF Serial!Uses, Uses, Range, Serial!Range
  <1>5. \A j \in 1 .. i - 1 : Serial!Conflicts(i, j) => j \in Ended
    <2> SUFFICES ASSUME NEW j \in 1 .. i - 1, Serial!Conflicts(i, j) PROVE j \in Ended
      OBVIOUS
    <2>1. Uses(j) \cap Uses(i) # {}
      BY <1>4 DEF Serial!Conflicts
    <2>2. status[j] = "ended"
      BY <2>1, PredecessorsEnded
    <2>3. j \in Txs
      BY NAssumption DEF Txs
    <2> QED
      BY <2>2, <2>3 DEF Ended
  <1> DEFINE r == [k \in Txs |-> IF status[k] = "ended" THEN read[k] ELSE [c \in Fields |-> 0]]
  <1>6. r' = [r EXCEPT ![i] = Serial!Snapshot(i)]
    <2>1. Serial!Snapshot(i) = Snapshot(i)
      BY <1>4 DEF Serial!Snapshot, Snapshot
    <2>2. \A k \in Txs : k # i => status'[k] = status[k]
      BY <1>1 DEF TypeOK, ExecType
    <2>3. status'[i] = "ended"
      BY <1>1 DEF TypeOK, ExecType
    <2> QED
      BY <2>1, <2>2, <2>3
  <1> DEFINE w == {k \in Ended : results[k] # "null"}
  <1>7. w' = IF ok THEN w \cup {i} ELSE w
    BY <1>2 DEF Ended
  <1>8. field' = IF ok THEN [c \in Fields |-> IF c \in Serial!Uses(i) THEN i ELSE field[c]]
                       ELSE field
    BY <1>4
  <1> QED
    BY <1>2, <1>5, <1>6, <1>7, <1>8 DEF Serial!Apply

\* Every step of TxDAG is a step of SerialOrder or changes nothing there.
LEMMA StepRefines == IndInv /\ ExecState /\ [Next]_vars => [Serial!Next]_(Serial!vars)
  <1> SUFFICES ASSUME IndInv, ExecState, [Next]_vars PROVE [Serial!Next]_(Serial!vars)
    OBVIOUS
  <1>1. TypeOK /\ TypeOK'
    BY StepType DEF IndInv
  <1>2. CASE UNCHANGED <<criticals, execVars>>
    BY <1>1, <1>2, StutterRefines DEF execVars, Ended
  <1>3. ASSUME NEW t \in Threads, Execute(t) PROVE [Serial!Next]_(Serial!vars)
    <2>1. PICK i \in Txs : i = cur[t]
      BY <1>1, <1>3 DEF Execute, TypeOK, ThreadType, Vertex
    <2>2. status[i] = "idle" /\ i \in Held(t) /\ UNCHANGED <<criticals, field, results>>
      BY <1>3, <2>1 DEF Execute, IndInv, OnePlace, Held
    <2>3. CASE params[i]
      <3>1. /\ read' = [read EXCEPT ![i] = Snapshot(i)]
            /\ status' = [status EXCEPT ![i] = "running"]
        BY <1>3, <2>1, <2>3 DEF Execute, Snapshot
      <3>2. Ended' = Ended /\ \A k \in Ended : read'[k] = read[k]
        BY <1>1, <2>2, <3>1 DEF Ended, TypeOK, ExecType
      <3> QED
        BY <1>1, <2>2, <3>2, StutterRefines
    <2>4. CASE ~params[i]
      <3>1. UNCHANGED <<params, read>> /\ status' = [status EXCEPT ![i] = "ended"]
        BY <1>3, <2>1, <2>4 DEF Execute
      <3>2. criticals[i] = <<>> /\ results[i] = "sendBack" /\ read[i] = NoRead
        BY <2>2, <2>4 DEF ExecState
      <3>3. Uses(i) = {}
        BY <3>2 DEF Uses, Range
      <3>4. read[i] = Snapshot(i)
        BY <3>2, <3>3 DEF Snapshot, NoRead
      <3>5. field = [c \in Fields |-> IF c \in Uses(i) THEN i ELSE field[c]]
        BY <1>1, <3>3 DEF TypeOK, ExecType
      <3>6. Pending(i) = {} /\ phase = "run"
        <4>1. pc[t] # "idle"
          BY <1>3 DEF Execute
        <4> QED
          BY <2>2, <4>1 DEF IndInv, Ready, Phases
      <3>7. Serial!Apply(i, TRUE)
        BY <2>2, <3>1, <3>2, <3>4, <3>5, <3>6, EndRefines
      <3> QED
        BY <3>7 DEF Serial!Next, Serial!Txs, Txs
    <2> QED
      BY <2>3, <2>4
  <1>4. ASSUME NEW t \in Threads, NEW ok \in BOOLEAN, ExecuteEnd(t, ok)
        PROVE  [Serial!Next]_(Serial!vars)
    <2>1. PICK i \in Txs : i = cur[t]
      BY <1>1, <1>4 DEF ExecuteEnd, TypeOK, ThreadType, Vertex
    <2>2. status[i] = "running" /\ phase = "run"
      BY <1>4, <2>1 DEF ExecuteEnd, IndInv, Phases
    <2>3. results[i] = "null" /\ read[i] = Snapshot(i) /\ Pending(i) = {}
      BY <2>2 DEF ExecState, IndInv, Ready
    <2>4. /\ UNCHANGED <<criticals, params, read>>
          /\ status' = [status EXCEPT ![i] = "ended"]
          /\ results' = IF ok THEN [results EXCEPT ![i] = "output"] ELSE results
          /\ field' = IF ok THEN [c \in Fields |-> IF c \in Uses(i) THEN i ELSE field[c]]
                            ELSE field
      BY <1>4, <2>1 DEF ExecuteEnd
    <2>5. /\ ok <=> results'[i] # "null"
          /\ \A k \in Txs : k # i => results'[k] = results[k]
      BY <1>1, <2>3, <2>4 DEF TypeOK, ExecType
    <2>6. Serial!Apply(i, ok)
      BY <2>2, <2>3, <2>4, <2>5, EndRefines
    <2> QED
      BY <2>6 DEF Serial!Next, Serial!Txs, Txs
  <1>5. CASE Build
    <2>1. UNCHANGED <<criticals, execVars>>
      BY <1>5 DEF Build, AddEdge, UpdateLatest, EndEdges, Generate, EndGenerate
    <2> QED
      BY <1>2, <2>1
  <1>6. ASSUME NEW t \in Threads,
               \/ Start(t) \/ Check(t) \/ Pop(t) \/ PopNothing(t) \/ AddCount(t)
               \/ CountDown(t) \/ EndConsume(t)
        PROVE  [Serial!Next]_(Serial!vars)
    <2>1. UNCHANGED <<criticals, execVars>>
      BY <1>6 DEF Start, Check, Pop, PopNothing, AddCount, CountDown, EndConsume
    <2> QED
      BY <1>2, <2>1
  <1>7. CASE UNCHANGED vars
    BY <1>2, <1>7 DEF vars
  <1> QED
    BY <1>3, <1>4, <1>5, <1>6, <1>7 DEF Next, Step

(* Executing the graph with any number of threads implements serial        *)
(* execution of the batch, conflict by conflict in block order.            *)
THEOREM Refinement == Spec => ImplementsSerialOrder
  <1>1. Spec => []ExecState
    BY InitExecState, StepExecState, Invariance, PTL DEF Spec
  <1> QED
    BY <1>1, InitRefines, StepRefines, Invariance, PTL DEF Spec, ImplementsSerialOrder, Serial!Spec

-----------------------------------------------------------------------------
(* Why SerialOrder is what its name says: whatever order the transactions   *)
(* are applied in, each reads what a serial execution would show it.        *)

WritersIn(U, W, i, c) == {j \in W : j < i /\ c \in U[j]}

\* Of a state of SerialOrder, transaction |-> its fields being U: what is applied (D) is
\* closed under earlier conflicting transactions, a field holds (F) the last of W that
\* wrote it, and what was read (R) is what the serial order shows.
Serially(U, D, F, R, W) ==
  /\ D \subseteq Txs /\ W \subseteq D
  /\ F \in [Fields -> Nat]
  /\ R \in [Txs -> [Fields -> Nat]]
  /\ \A i \in Txs : U[i] \subseteq Fields
  /\ \A i \in D : \A j \in 1 .. i - 1 : U[i] \cap U[j] # {} => j \in D
  /\ \A c \in Fields : F[c] # 0 => F[c] \in W /\ c \in U[F[c]]
  /\ \A j \in W : \A c \in U[j] : j <= F[c]
  /\ \A i \in D : \A c \in U[i] :
       /\ R[i][c] = 0 => WritersIn(U, W, i, c) = {}
       /\ R[i][c] # 0 => /\ R[i][c] \in WritersIn(U, W, i, c)
                         /\ \A j \in WritersIn(U, W, i, c) : j <= R[i][c]

\* Transaction i is applied: what Serial!Apply does to the five parts of the state.
Applied(U, D, F, R, W, E, G, S, X, i, ok) ==
  /\ i \notin D /\ E = D \cup {i}
  /\ \A j \in 1 .. i - 1 : U[i] \cap U[j] # {} => j \in D
  /\ S = [R EXCEPT ![i] = [c \in Fields |-> IF c \in U[i] THEN F[c] ELSE 0]]
  /\ G = IF ok THEN [c \in Fields |-> IF c \in U[i] THEN i ELSE F[c]] ELSE F
  /\ X = IF ok THEN W \cup {i} ELSE W

\* Applying a transaction after all it conflicts with keeps the reads serial.
LEMMA SerialStep ==
  ASSUME NEW U, NEW D, NEW F, NEW R, NEW W, NEW E, NEW G, NEW S, NEW X,
         NEW i \in Txs, NEW ok \in BOOLEAN,
         Serially(U, D, F, R, W), Applied(U, D, F, R, W, E, G, S, X, i, ok)
  PROVE  Serially(U, E, G, S, X)
  <1>1. /\ i \notin D /\ E = D \cup {i} /\ i \in Nat \ {0}
        /\ \A j \in 1 .. i - 1 : U[i] \cap U[j] # {} => j \in D
        /\ X = IF ok THEN W \cup {i} ELSE W
    BY DEF Applied, Txs
  <1>2. U[i] \subseteq Fields /\ D \subseteq Nat \ {0} /\ i \notin W
    BY <1>1 DEF Serially, Txs
  <1>3. /\ S \in [Txs -> [Fields -> Nat]]
        /\ \A k \in Txs : k # i => S[k] = R[k]
        /\ \A c \in U[i] : S[i][c] = F[c]
    BY <1>2 DEF Serially, Applied
  <1>4. /\ G \in [Fields -> Nat]
        /\ \A c \in Fields : G[c] = IF ok /\ c \in U[i] THEN i ELSE F[c]
    BY <1>1 DEF Applied, Serially
  <1>5. \A k \in E : \A j \in 1 .. k - 1 : U[k] \cap U[j] # {} => j \in E
    BY <1>1 DEF Serially
  \* no later transaction that conflicts with i has been applied
  <1>6. ASSUME NEW k \in D, NEW c \in U[i], c \in U[k] PROVE k < i
    <2>1. CASE i < k
      <3>1. i \in 1 .. k - 1 /\ U[k] \cap U[i] # {}
        BY <1>1, <1>2, <1>6, <2>1
      <3> QED
        BY <1>1, <3>1 DEF Serially
    <2> QED
      BY <1>1, <1>2, <2>1
  <1>7. \A c \in Fields : G[c] # 0 => G[c] \in X /\ c \in U[G[c]]
    BY <1>1, <1>4 DEF Serially
  <1>8. ASSUME NEW j \in X, NEW c \in U[j] PROVE j <= G[c]
    <2>1. CASE j = i
      BY <1>1, <1>2, <1>4, <1>8, <2>1
    <2>2. CASE j # i
      <3>1. j \in W /\ j \in D /\ c \in Fields /\ j <= F[c] /\ j \in Nat
        BY <1>1, <1>2, <2>2 DEF Serially
      <3>2. ok /\ c \in U[i] => j < i
        BY <1>6, <3>1
      <3> QED
        BY <1>1, <1>4, <3>1, <3>2
    <2> QED
      BY <2>1, <2>2
  <1>9. ASSUME NEW k \in E, NEW c \in U[k]
        PROVE  /\ S[k][c] = 0 => WritersIn(U, X, k, c) = {}
               /\ S[k][c] # 0 => /\ S[k][c] \in WritersIn(U, X, k, c)
                                 /\ \A j \in WritersIn(U, X, k, c) : j <= S[k][c]
    <2>1. CASE k = i
      <3>1. S[k][c] = F[c] /\ c \in Fields
        BY <1>2, <1>3, <2>1
      <3>2. \A j : j \in WritersIn(U, X, k, c) <=> j \in W /\ c \in U[j]
        <4>1. \A j \in W : c \in U[j] => j < i
          BY <1>6, <2>1 DEF Serially
        <4>2. WritersIn(U, X, k, c) = {j \in X : j < i /\ c \in U[j]}
          BY <2>1 DEF WritersIn
        <4>3. \A j \in X : j < i => j \in W
          BY <1>1
        <4>4. W \subseteq X
          BY <1>1
        <4> QED
          BY <4>1, <4>2, <4>3, <4>4
      <3>3. \A j \in WritersIn(U, X, k, c) : j <= F[c] /\ j \in Nat \ {0}
        BY <1>2, <3>2 DEF Serially
      <3>4. F[c] = 0 => WritersIn(U, X, k, c) = {}
        BY <3>3
      <3>5. F[c] # 0 => F[c] \in WritersIn(U, X, k, c)
        BY <3>1, <3>2 DEF Serially
      <3> QED
        BY <3>1, <3>3, <3>4, <3>5
    <2>2. CASE k # i
      <3>1. k \in D /\ k \in Txs /\ S[k] = R[k] /\ k \in Nat
        BY <1>1, <1>2, <1>3, <2>2 DEF Serially
      <3>2. ~(i < k /\ c \in U[i])
        BY <1>1, <1>2, <1>6, <3>1
      <3>3. WritersIn(U, X, k, c) = WritersIn(U, W, k, c)
        BY <1>1, <3>2 DEF WritersIn
      <3> QED
        BY <3>1, <3>3 DEF Serially
    <2> QED
      BY <2>1, <2>2
  <1>10. E \subseteq Txs /\ X \subseteq E /\ \A k \in Txs : U[k] \subseteq Fields
    BY <1>1 DEF Serially
  <1> QED
    BY <1>3, <1>4, <1>5, <1>7, <1>8, <1>9, <1>10 DEF Serially

UsesMap == [i \in Txs |-> Uses(i)]

EndedReads == [i \in Txs |-> IF status[i] = "ended" THEN read[i] ELSE [c \in Fields |-> 0]]

Wrote == {i \in Ended : results[i] # "null"}

SerialInv == Serially(UsesMap, Ended, field, EndedReads, Wrote)

\* Before any transaction is applied.
LEMMA InitSerial == Init => SerialInv
  <1> SUFFICES ASSUME Init PROVE SerialInv
    OBVIOUS
  <1>1. Ended = {} /\ Wrote = {}
    BY DEF Init, Ended, Wrote
  <1>2. \A i \in Txs : UsesMap[i] \subseteq Fields
    BY CriticalsAssumption DEF Init, UsesMap, Uses, Range
  <1>3. EndedReads \in [Txs -> [Fields -> Nat]] /\ field \in [Fields -> Nat]
    BY DEF Init, EndedReads
  <1>4. \A c \in Fields : field[c] = 0
    BY DEF Init
  <1> QED
    BY <1>1, <1>2, <1>3, <1>4 DEF SerialInv, Serially

\* A step of the abstract specification keeps the reads serial.
LEMMA StepSerial == SerialInv /\ [Serial!Next]_(Serial!vars) => SerialInv'
  <1> SUFFICES ASSUME SerialInv, [Serial!Next]_(Serial!vars) PROVE SerialInv'
    OBVIOUS
  <1>1. CASE UNCHANGED Serial!vars
    <2>1. UNCHANGED <<criticals, Ended, field, EndedReads, Wrote>>
      BY <1>1 DEF Serial!vars, EndedReads, Wrote
    <2>2. UNCHANGED UsesMap
      BY <2>1 DEF UsesMap, Uses
    <2> QED
      BY <2>1, <2>2 DEF SerialInv
  <1>2. ASSUME NEW i \in Txs, NEW ok \in BOOLEAN, Serial!Apply(i, ok) PROVE SerialInv'
    <2>1. UNCHANGED criticals /\ \A k \in Txs : Serial!Uses(k) = UsesMap[k]
      BY <1>2 DEF Serial!Apply, Serial!Uses, UsesMap, Uses, Range, Serial!Range
    <2>2. UNCHANGED UsesMap
      BY <2>1 DEF UsesMap, Uses
    <2>3. Ended' = Ended \cup {i} /\ i \notin Ended
      BY <1>2 DEF Serial!Apply
    <2>4. \A j \in 1 .. i - 1 : UsesMap[i] \cap UsesMap[j] # {} => j \in Ended
      <3>1. \A j \in 1 .. i - 1 : j \in Txs
        BY NAssumption DEF Txs
      <3> QED
        BY <1>2, <2>1, <3>1 DEF Serial!Apply, Serial!Conflicts
    <2>5. EndedReads' = [EndedReads EXCEPT ![i] =
                           [c \in Fields |-> IF c \in UsesMap[i] THEN field[c] ELSE 0]]
      <3>1. Serial!Snapshot(i) = [c \in Fields |-> IF c \in UsesMap[i] THEN field[c] ELSE 0]
        BY <2>1 DEF Serial!Snapshot
      <3>2. EndedReads' = [EndedReads EXCEPT ![i] = Serial!Snapshot(i)]
        BY <1>2 DEF Serial!Apply, EndedReads
      <3> QED
        BY <3>1, <3>2
    <2>6. field' = IF ok THEN [c \in Fields |-> IF c \in UsesMap[i] THEN i ELSE field[c]]
                         ELSE field
      BY <1>2, <2>1 DEF Serial!Apply
    <2>7. Wrote' = IF ok THEN Wrote \cup {i} ELSE Wrote
      BY <1>2 DEF Serial!Apply, Wrote
    <2>8. Applied(UsesMap, Ended, field, EndedReads, Wrote,
                  Ended', field', EndedReads', Wrote', i, ok)
      BY <2>3, <2>4, <2>5, <2>6, <2>7 DEF Applied
    <2>9. Serially(UsesMap, Ended', field', EndedReads', Wrote')
      BY <2>8, SerialStep DEF SerialInv
    <2> QED
      BY <2>2, <2>9 DEF SerialInv
  <1> QED
    BY <1>1, <1>2 DEF Serial!Next, Serial!Txs, Txs

(* So every transaction reads what serial execution would show it: applying *)
(* the transactions in any order that respects conflicts shows each the     *)
(* same values as executing the batch one by one.                           *)
THEOREM ReadsAsSerialHold == Spec => []ReadsAsSerial
  <1>1. SerialInv => ReadsAsSerial
    <2> SUFFICES ASSUME SerialInv, NEW i \in Ended, NEW c \in Serial!Uses(i)
                 PROVE  /\ EndedReads[i][c] = 0 => Serial!Writers(i, c) = {}
                        /\ EndedReads[i][c] # 0 =>
                             /\ EndedReads[i][c] \in Serial!Writers(i, c)
                             /\ \A j \in Serial!Writers(i, c) : j <= EndedReads[i][c]
      BY DEF ReadsAsSerial, Serial!SerialReads, EndedReads
    <2>1. \A k \in Txs : Serial!Uses(k) = UsesMap[k]
      BY DEF Serial!Uses, UsesMap, Uses, Range, Serial!Range
    <2>2. Ended \subseteq Txs /\ Wrote \subseteq Txs
      BY DEF Ended, Wrote
    <2>3. Serial!Writers(i, c) = WritersIn(UsesMap, Wrote, i, c)
      BY <2>1, <2>2 DEF Serial!Writers, WritersIn, Wrote
    <2> QED
      BY <2>1, <2>2, <2>3 DEF SerialInv, Serially
  <1> QED
    BY <1>1, InitSerial, StepSerial, Refinement, PTL
       DEF Spec, ImplementsSerialOrder, Serial!Spec

-----------------------------------------------------------------------------
(* hasFinished.  m_exeCnt is the size of a set: the transactions whose      *)
(* executeUnit has added its local counter.  The others that have been      *)
(* started are counted in the local counter of exactly one thread.          *)

Active(t) == pc[t] \in {"pop", "exec", "run", "consume", "count"}

\* The transactions C are counted in m_exeCnt, those of own[t] in the exeCnt of thread t.
Tally(C, own) ==
  /\ C \in SUBSET Txs /\ Cardinality(C) = exeCnt
  /\ \A i \in C : status[i] = "ended"
  /\ own \in [Threads -> SUBSET Txs]
  /\ \A t \in Threads :
       /\ own[t] \cap C = {} /\ \A u \in Threads \ {t} : own[t] \cap own[u] = {}
       /\ Cardinality(own[t]) = IF Active(t) THEN cnt[t] ELSE 0
       /\ \A i \in own[t] : status[i] = "ended" \/ (status[i] = "running" /\ pc[t] = "run" /\ cur[t] = i)
       /\ pc[t] \in {"run", "consume"} => cur[t] \in own[t]

Counting == \E C, own : Tally(C, own)

Consumed == {i \in Ended : \A t \in Threads : ~(pc[t] = "consume" /\ cur[t] = i)}

\* m_totalConsume counts the transactions whose consume has returned.
Consuming == totalConsume = Cardinality(Consumed)

\* Transactions are finitely many.
LEMMA TxsFinite ==
  /\ IsFiniteSet(Txs) /\ Cardinality(Txs) = N
  /\ \A S \in SUBSET Txs : IsFiniteSet(S) /\ Cardinality(S) \in Nat
  <1>1. IsFiniteSet(Txs) /\ Cardinality(Txs) = N
    BY NAssumption, FS_Interval DEF Txs
  <1> QED
    BY <1>1, FS_Subset, FS_CardinalityType

\* Nothing has been counted at first.
LEMMA InitTally == Init => Counting /\ Consuming
  <1> SUFFICES ASSUME Init PROVE Counting /\ Consuming
    OBVIOUS
  <1>1. Tally({}, [t \in Threads |-> {}])
    BY FS_EmptySet DEF Init, Tally, Active
  <1>2. Consumed = {}
    BY DEF Init, Consumed, Ended
  <1> QED
    BY <1>1, <1>2, FS_EmptySet DEF Counting, Consuming, Init

\* What a step must do to the counters: t is the only thread that moves, its status
\* changes are those of the vertex it works on, and its set is what its counter counts.
LEMMA TallyKept ==
  ASSUME NEW C, NEW own, Tally(C, own), UNCHANGED <<exeCnt, status>>, NEW t \in Threads,
         \A u \in Threads \ {t} : pc'[u] = pc[u] /\ cur'[u] = cur[u] /\ cnt'[u] = cnt[u],
         pc[t] # "run", pc'[t] # "run", pc'[t] = "consume" => pc[t] = "consume" /\ cur'[t] = cur[t],
         (IF Active(t)' THEN cnt'[t] ELSE 0) = (IF Active(t) THEN cnt[t] ELSE 0)
  PROVE  Tally(C, own)'
  <1>1. \A u \in Threads \ {t} : Active(u)' <=> Active(u)
    BY DEF Active
  <1> QED
    BY <1>1 DEF Tally

\* Every step keeps the count of started transactions.
LEMMA StepCounting == IndInv /\ Counting /\ [Next]_vars => Counting'
  <1> SUFFICES ASSUME IndInv, Counting, [Next]_vars PROVE Counting'
    OBVIOUS
  <1>0. PICK C, own : Tally(C, own)
    BY DEF Counting
  <1>1. TypeOK
    BY DEF IndInv
  <1>2. CASE UNCHANGED <<status, exeCnt, pc, cur, cnt>>
    <2>1. Tally(C, own)'
      BY <1>0, <1>2 DEF Tally, Active
    <2> QED
      BY <2>1 DEF Counting
  <1>3. CASE Build
    BY <1>2, <1>3 DEF Build, AddEdge, UpdateLatest, EndEdges, Generate, EndGenerate, threadVars, execVars
  <1>4. ASSUME NEW t \in Threads,
               Start(t) \/ Check(t) \/ Pop(t) \/ PopNothing(t) \/ CountDown(t) \/ EndConsume(t)
        PROVE  Counting'
    <2>1. /\ UNCHANGED <<exeCnt, status>>
          /\ \A u \in Threads \ {t} : pc'[u] = pc[u] /\ cur'[u] = cur[u] /\ cnt'[u] = cnt[u]
          /\ pc[t] # "run" /\ pc'[t] # "run"
          /\ pc'[t] = "consume" => pc[t] = "consume" /\ cur'[t] = cur[t]
          /\ (IF Active(t)' THEN cnt'[t] ELSE 0) = (IF Active(t) THEN cnt[t] ELSE 0)
      BY <1>1, <1>4 DEF Start, Check, Pop, PopNothing, CountDown, EndConsume, execVars,
                        TypeOK, ThreadType, Active
    <2>2. Tally(C, own)'
      BY <1>0, <2>1, TallyKept
    <2> QED
      BY <2>2 DEF Counting
  <1>5. ASSUME NEW t \in Threads, AddCount(t) PROVE Counting'
    <2> DEFINE D == C \cup own[t]
               mine == [own EXCEPT ![t] = {}]
    <2>1. /\ UNCHANGED <<status, cur, cnt>> /\ exeCnt' = exeCnt + cnt[t] /\ pc[t] = "count"
          /\ pc'[t] = "check" /\ \A u \in Threads \ {t} : pc'[u] = pc[u]
      BY <1>1, <1>5 DEF AddCount, execVars, TypeOK, ThreadType
    <2>2. own[t] \in SUBSET Txs /\ own[t] \cap C = {} /\ C \in SUBSET Txs
          /\ Cardinality(own[t]) = cnt[t] /\ Cardinality(C) = exeCnt
      BY <1>0, <2>1 DEF Tally, Active
    <2>3. Cardinality(D) = exeCnt' /\ D \in SUBSET Txs
      <3>1. Cardinality(D) = Cardinality(C) + Cardinality(own[t]) - Cardinality(C \cap own[t])
        BY <2>2, TxsFinite, FS_Union
      <3>2. C \cap own[t] = {}
        BY <2>2
      <3>3. Cardinality(C \cap own[t]) = 0
        BY <3>2, FS_EmptySet
      <3>4. Cardinality(C) \in Nat /\ Cardinality(own[t]) \in Nat
        BY <2>2, TxsFinite
      <3>5. Cardinality(D) = Cardinality(C) + Cardinality(own[t])
        BY <3>1, <3>3, <3>4
      <3> QED
        BY <2>1, <2>2, <3>5
    <2>4. /\ mine \in [Threads -> SUBSET Txs] /\ mine[t] = {}
          /\ \A u \in Threads \ {t} : mine[u] = own[u]
      BY <1>0 DEF Tally
    <2>5. \A i \in D : status[i] = "ended"
      BY <1>0, <2>1 DEF Tally
    <2> HIDE DEF mine
    <2>6. ~Active(t)' /\ \A u \in Threads \ {t} : Active(u)' <=> Active(u)
      BY <2>1 DEF Active
    <2>7. \A u \in Threads \ {t} : own[u] \cap D = {}
      BY <1>0 DEF Tally
    <2> HIDE DEF D
    <2>8. Tally(D, mine)'
      <3>1. \A u \in Threads : Cardinality(mine[u]) = IF Active(u)' THEN cnt'[u] ELSE 0
        BY <1>0, <2>1, <2>4, <2>6, FS_EmptySet DEF Tally
      <3>2. \A u \in Threads : mine[u] \cap D = {} /\ \A v \in Threads \ {u} : mine[u] \cap mine[v] = {}
        BY <1>0, <2>4, <2>7 DEF Tally
      <3>3. \A u \in Threads :
              /\ \A i \in mine[u] : status'[i] = "ended" \/ (status'[i] = "running" /\ pc'[u] = "run" /\ cur'[u] = i)
              /\ pc'[u] \in {"run", "consume"} => cur'[u] \in mine[u]
        BY <1>0, <2>1, <2>4 DEF Tally
      <3> QED
        BY <2>1, <2>3, <2>4, <2>5, <3>1, <3>2, <3>3 DEF Tally
    <2> QED
      BY <2>8 DEF Counting
  <1>6. ASSUME NEW t \in Threads, Execute(t) PROVE Counting'
    <2>1. PICK i \in Txs : i = cur[t]
      BY <1>1, <1>6 DEF Execute, TypeOK, ThreadType, Vertex
    <2>2. /\ status[i] = "idle" /\ pc[t] = "exec" /\ UNCHANGED <<exeCnt, cur>>
          /\ cnt'[t] = cnt[t] + 1 /\ cnt[t] \in Nat
          /\ \/ pc'[t] = "run" /\ status'[i] = "running"
             \/ pc'[t] = "consume" /\ status'[i] = "ended"
          /\ \A u \in Threads \ {t} : pc'[u] = pc[u] /\ cnt'[u] = cnt[u]
          /\ \A k \in Txs : k # i => status'[k] = status[k]
      <3>1. status[i] = "idle" /\ pc[t] = "exec" /\ UNCHANGED <<exeCnt, cur>>
            /\ cnt' = [cnt EXCEPT ![t] = @ + 1]
        BY <1>6, <2>1 DEF Execute, IndInv, OnePlace
      <3>2. \/ status' = [status EXCEPT ![i] = "running"] /\ pc' = [pc EXCEPT ![t] = "run"]
            \/ status' = [status EXCEPT ![i] = "ended"] /\ pc' = [pc EXCEPT ![t] = "consume"]
        BY <1>6, <2>1 DEF Execute
      <3> QED
        BY <1>1, <3>1, <3>2 DEF TypeOK, ThreadType, ExecType
    <2> DEFINE mine == [own EXCEPT ![t] = @ \cup {i}]
    <2>3. i \notin C /\ \A u \in Threads : i \notin own[u]
      BY <1>0, <2>2 DEF Tally
    <2>4. /\ own[t] \in SUBSET Txs /\ Cardinality(own[t]) = cnt[t]
          /\ Cardinality(own[t] \cup {i}) = cnt[t] + 1
      <3>1. own[t] \in SUBSET Txs /\ Cardinality(own[t]) = cnt[t]
        BY <1>0, <2>2 DEF Tally, Active
      <3> QED
        BY <2>3, <3>1, TxsFinite, FS_AddElement
    <2>5. /\ mine \in [Threads -> SUBSET Txs] /\ mine[t] = own[t] \cup {i}
          /\ \A u \in Threads \ {t} : mine[u] = own[u]
      BY <1>0 DEF Tally
    <2> HIDE DEF mine
    <2>6. Active(t)' /\ \A u \in Threads \ {t} : Active(u)' <=> Active(u)
      BY <2>2 DEF Active
    <2>7. \A u \in Threads : Cardinality(mine[u]) = IF Active(u)' THEN cnt'[u] ELSE 0
      <3>1. Cardinality(mine[t]) = cnt'[t]
        BY <2>2, <2>4, <2>5
      <3>2. \A u \in Threads \ {t} : Cardinality(mine[u]) = IF Active(u)' THEN cnt'[u] ELSE 0
        BY <1>0, <2>2, <2>5, <2>6 DEF Tally
      <3> QED
        BY <2>6, <3>1, <3>2
    <2>8. \A u \in Threads : mine[u] \cap C = {} /\ \A v \in Threads \ {u} : mine[u] \cap mine[v] = {}
      BY <1>0, <2>3, <2>5 DEF Tally
    <2>9. \A u \in Threads :
            /\ \A k \in mine[u] : status'[k] = "ended" \/ (status'[k] = "running" /\ pc'[u] = "run" /\ cur'[u] = k)
            /\ pc'[u] \in {"run", "consume"} => cur'[u] \in mine[u]
      <3>1. \A u \in Threads \ {t} : \A k \in own[u] : k \in Txs /\ k # i
        BY <1>0, <2>3 DEF Tally
      <3>2. \A k \in own[t] : k \in Txs /\ k # i /\ status[k] = "ended"
        BY <1>0, <2>2, <2>3 DEF Tally
      <3> QED
        BY <1>0, <2>1, <2>2, <2>5, <3>1, <3>2 DEF Tally
    <2>10. \A k \in C : status'[k] = "ended"
      BY <1>0, <2>2, <2>3 DEF Tally
    <2>11. Tally(C, mine)'
      BY <1>0, <2>2, <2>5, <2>7, <2>8, <2>9, <2>10 DEF Tally
    <2> QED
      BY <2>11 DEF Counting
  <1>7. ASSUME NEW t \in Threads, NEW ok \in BOOLEAN, ExecuteEnd(t, ok) PROVE Counting'
    <2>1. PICK i \in Txs : i = cur[t]
      BY <1>1, <1>7 DEF ExecuteEnd, TypeOK, ThreadType, Vertex
    <2>2. /\ pc[t] = "run" /\ UNCHANGED <<exeCnt, cur, cnt>>
          /\ pc'[t] = "consume" /\ status'[i] = "ended"
          /\ \A u \in Threads \ {t} : pc'[u] = pc[u]
          /\ \A k \in Txs : k # i => status'[k] = status[k]
      BY <1>1, <1>7, <2>1 DEF ExecuteEnd, TypeOK, ThreadType, ExecType
    <2>3. \A u \in Threads : Active(u)' <=> Active(u)
      BY <2>2 DEF Active
    <2>4. \A u \in Threads :
            /\ \A k \in own[u] : status'[k] = "ended" \/ (status'[k] = "running" /\ pc'[u] = "run" /\ cur'[u] = k)
            /\ pc'[u] \in {"run", "consume"} => cur'[u] \in own[u]
      <3>1. i \in own[t] /\ \A u \in Threads : own[u] \subseteq Txs
        BY <1>0, <2>1, <2>2 DEF Tally
      <3>2. \A u \in Threads \ {t} : i \notin own[u]
        BY <1>0, <3>1 DEF Tally
      <3> QED
        BY <1>0, <2>1, <2>2, <3>1, <3>2 DEF Tally
    <2>5. \A k \in C : status'[k] = "ended"
      BY <1>0, <2>2 DEF Tally
    <2>6. Tally(C, own)'
      BY <1>0, <2>2, <2>3, <2>4, <2>5 DEF Tally
    <2> QED
      BY <2>6 DEF Counting
  <1>8. CASE UNCHANGED vars
    BY <1>2, <1>8 DEF vars, execVars, threadVars
  <1> QED
    BY <1>3, <1>4, <1>5, <1>6, <1>7, <1>8 DEF Next, Step

\* Every step keeps m_totalConsume the number of consumed transactions.
LEMMA StepConsuming == IndInv /\ Consuming /\ [Next]_vars => Consuming'
  <1> SUFFICES ASSUME IndInv, Consuming, [Next]_vars PROVE Consuming'
    OBVIOUS
  <1>1. TypeOK
    BY DEF IndInv
  <1>2. CASE totalConsume' = totalConsume /\ Consumed' = Consumed
    BY <1>2 DEF Consuming
  <1>3. CASE UNCHANGED <<status, totalConsume, pc, cur>>
    BY <1>2, <1>3 DEF Consumed, Ended
  <1>4. CASE Build
    BY <1>3, <1>4 DEF Build, AddEdge, UpdateLatest, EndEdges, Generate, EndGenerate, threadVars, execVars
  <1>5. ASSUME NEW t \in Threads,
               Start(t) \/ Check(t) \/ Pop(t) \/ PopNothing(t) \/ CountDown(t) \/ AddCount(t)
        PROVE  Consuming'
    <2>1. /\ UNCHANGED <<totalConsume, status>>
          /\ \A u \in Threads : (pc'[u] = "consume" <=> pc[u] = "consume")
                                /\ (pc[u] = "consume" => cur'[u] = cur[u])
      BY <1>1, <1>5 DEF Start, Check, Pop, PopNothing, CountDown, AddCount, execVars,
                        TypeOK, ThreadType
    <2>2. Consumed' = Consumed
      BY <2>1 DEF Consumed, Ended
    <2> QED
      BY <1>2, <2>1, <2>2
  <1>6. ASSUME NEW t \in Threads, Execute(t) \/ \E ok \in BOOLEAN : ExecuteEnd(t, ok)
        PROVE  Consuming'
    <2>1. PICK i \in Txs : i = cur[t]
      BY <1>1, <1>6 DEF Execute, ExecuteEnd, TypeOK, ThreadType, Vertex
    <2>2. /\ status[i] # "ended" /\ UNCHANGED <<totalConsume, cur>>
          /\ pc[t] \in {"exec", "run"}
          /\ \/ pc' = [pc EXCEPT ![t] = "run"] /\ status' = [status EXCEPT ![i] = "running"]
             \/ pc' = [pc EXCEPT ![t] = "consume"] /\ status' = [status EXCEPT ![i] = "ended"]
      <3>1. CASE Execute(t)
        BY <3>1, <2>1 DEF Execute, IndInv, OnePlace
      <3>2. ASSUME NEW ok \in BOOLEAN, ExecuteEnd(t, ok)
            PROVE  /\ status[i] # "ended" /\ UNCHANGED <<totalConsume, cur>> /\ pc[t] \in {"exec", "run"}
                   /\ pc' = [pc EXCEPT ![t] = "consume"] /\ status' = [status EXCEPT ![i] = "ended"]
        BY <3>2, <2>1 DEF ExecuteEnd, IndInv, Phases
      <3> QED
        BY <1>6, <3>1, <3>2
    <2>3. /\ \A k \in Txs : k # i => status'[k] = status[k]
          /\ \A u \in Threads \ {t} : pc'[u] = pc[u]
          /\ \/ pc'[t] = "run" /\ status'[i] = "running"
             \/ pc'[t] = "consume" /\ status'[i] = "ended"
      BY <1>1, <2>2 DEF TypeOK, ThreadType, ExecType
    <2>4. Consumed' = Consumed
      BY <2>1, <2>2, <2>3 DEF Consumed, Ended
    <2> QED
      BY <1>2, <2>2, <2>4
  <1>7. ASSUME NEW t \in Threads, EndConsume(t) PROVE Consuming'
    <2>1. PICK i \in Txs : i = cur[t]
      BY <1>1, <1>7 DEF EndConsume, TypeOK, ThreadType, Vertex
    <2>2. /\ pc[t] = "consume" /\ pc'[t] # "consume" /\ status[i] = "ended"
          /\ UNCHANGED status /\ totalConsume' = totalConsume + 1
          /\ \A u \in Threads \ {t} : pc'[u] = pc[u] /\ cur'[u] = cur[u]
      BY <1>1, <1>7, <2>1 DEF EndConsume, execVars, TypeOK, ThreadType, IndInv, Phases
    <2>3. \A u \in Threads \ {t} : ~(pc[u] = "consume" /\ cur[u] = i)
      BY <2>1, <2>2 DEF IndInv, OnePlace, Held
    <2>4. Consumed' = Consumed \cup {i} /\ i \notin Consumed
      BY <2>1, <2>2, <2>3 DEF Consumed, Ended
    <2>5. IsFiniteSet(Consumed)
      BY TxsFinite DEF Consumed, Ended
    <2> QED
      BY <2>2, <2>4, <2>5, FS_AddElement DEF Consuming
  <1>8. CASE UNCHANGED vars
    BY <1>3, <1>8 DEF vars, execVars, threadVars
  <1> QED
    BY <1>4, <1>5, <1>6, <1>7, <1>8 DEF Next, Step

(* hasFinished, which reads m_exeCnt without the lock its writers take, is *)
(* never true too early: when it is, every transaction of the batch has    *)
(* ended and been consumed.                                                *)
THEOREM FinishedMeansAllHolds == Spec => []FinishedMeansAll
  <1>1. Counting /\ Consuming => FinishedMeansAll
    <2> SUFFICES ASSUME Counting, Consuming, exeCnt >= N
                 PROVE  (\A i \in Txs : status[i] = "ended") /\ totalConsume = N
      BY DEF FinishedMeansAll
    <2>1. PICK C, own : Tally(C, own)
      BY DEF Counting
    <2>2. C = Txs
      <3>1. C \in SUBSET Txs /\ Cardinality(C) = exeCnt
        BY <2>1 DEF Tally
      <3>2. Cardinality(C) <= N /\ (Cardinality(C) = N => C = Txs) /\ Cardinality(C) \in Nat
        BY <3>1, TxsFinite, FS_Subset
      <3> QED
        BY <3>1, <3>2, NAssumption
    <2>3. \A i \in Txs : status[i] = "ended"
      BY <2>1, <2>2 DEF Tally
    <2>4. \A t \in Threads : pc[t] # "consume"
      BY <2>1, <2>2 DEF Tally
    <2>5. Consumed = Txs
      BY <2>3, <2>4 DEF Consumed, Ended
    <2> QED
      BY <2>3, <2>5, TxsFinite DEF Consuming
  <1>2. Spec => []Counting
    BY InitTally, StepCounting, Invariance, PTL DEF Spec
  <1>3. Spec => []Consuming
    BY InitTally, StepConsuming, Invariance, PTL DEF Spec
  <1> QED
    BY <1>1, <1>2, <1>3, PTL
============================================================================
