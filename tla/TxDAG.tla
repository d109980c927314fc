------------------------------- MODULE TxDAG -------------------------------
(***************************************************************************)
(* The transaction DAG of the EVM executor: DAG.cpp (vertices, in-degrees, *)
(* the queue of ready vertices), TxDAG.cpp (building the graph from the    *)
(* critical fields, executeUnit) and the loop of                           *)
(* TransactionExecutor::dagExecuteTransactionsForEvm that drives it from   *)
(* several threads.                                                        *)
(*                                                                         *)
(* Every access to an atomic (inDegree, m_totalConsume), to the concurrent *)
(* queue m_topLevel and to m_exeCnt is a step of its own; what a thread    *)
(* does between two of them is invisible to the others.  Vertices are      *)
(* numbered from 1, INVALID_ID is 0.                                       *)
(***************************************************************************)
EXTENDS Integers, Sequences, FiniteSets, Functions

CONSTANTS N,              \* number of transactions (m_totalVtxs, m_totalParaTxs)
          Fields,         \* critical fields
          CriticalLists,  \* the lists getTxCriticals may return
          Threads         \* bodies of the parallel_for (m_DAGThreadNum)

ASSUME NAssumption == N \in Nat
ASSUME CriticalsAssumption == CriticalLists \subseteq Seq(Fields)

Txs == 1 .. N
INVALID == 0

VARIABLES
  criticals,     \* _txsCriticals; an empty list marks a transaction that is sent back
  phase,         \* of the calling thread: "edges", "generate", then "run"
  buildId,       \* its loop variable over the transactions
  buildPos,      \* its loop variable over the fields of buildId
  latest,        \* latestCriticals: field |-> last transaction that uses it
  outEdge,       \* Vertex::outEdge
  inDegree,      \* Vertex::inDegree
  topLevel,      \* m_topLevel
  totalConsume,  \* m_totalConsume
  exeCnt,        \* m_exeCnt
  pc,            \* thread |-> what it does next
  cur,           \* thread |-> id, the vertex it executes or consumes
  edge,          \* thread |-> loop variable of consume over outEdge
  nextId,        \* thread |-> nextId of consume
  cnt,           \* thread |-> exeCnt, the local counter of executeUnit
  params,        \* transaction |-> allCallParameters holds its parameters
  results,       \* executionResults
  field,         \* what the contracts store: field |-> last writer, 0 if none
  read,          \* transaction |-> what it read when it started
  status,        \* history: transaction |-> "idle", "running" or "ended"
  fired          \* history: the edges <<vertex, position>> already counted down

buildVars  == <<phase, buildId, buildPos, latest, outEdge>>
threadVars == <<pc, cur, edge, nextId, cnt>>
execVars   == <<params, results, field, read, status>>
vars == <<criticals, buildVars, inDegree, topLevel, totalConsume, exeCnt,
          threadVars, execVars, fired>>

Uses(i) == Range(criticals[i])

Init ==
  /\ criticals \in [Txs -> CriticalLists]
  /\ phase = "edges" /\ buildId = 1 /\ buildPos = 1
  /\ latest = [c \in Fields |-> INVALID]
  /\ outEdge = [i \in Txs |-> <<>>]
  /\ inDegree = [i \in Txs |-> 0]
  /\ topLevel = <<>> /\ totalConsume = 0 /\ exeCnt = 0
  /\ pc = [t \in Threads |-> "idle"]
  /\ cur = [t \in Threads |-> INVALID]
  /\ edge = [t \in Threads |-> 1]
  /\ nextId = [t \in Threads |-> INVALID]
  /\ cnt = [t \in Threads |-> 0]
  /\ params = [i \in Txs |-> criticals[i] # <<>>]
  /\ results = [i \in Txs |-> IF criticals[i] = <<>> THEN "sendBack" ELSE "null"]
  /\ field = [c \in Fields |-> 0]
  /\ read = [i \in Txs |-> [c \in Fields |-> 0]]
  /\ status = [i \in Txs |-> "idle"]
  /\ fired = {}

-----------------------------------------------------------------------------
(* Building the graph: TxDAG::init, on the calling thread.                  *)

\* One turn of the loop that links buildId to the last user of one of its fields.
AddEdge ==
  /\ phase = "edges" /\ buildId \in Txs
  /\ buildPos <= Len(criticals[buildId])
  /\ LET pId == latest[criticals[buildId][buildPos]] IN
       IF pId # INVALID
       THEN /\ outEdge' = [outEdge EXCEPT ![pId] = Append(@, buildId)]
            /\ inDegree' = [inDegree EXCEPT ![buildId] = @ + 1]
       ELSE UNCHANGED <<outEdge, inDegree>>
  /\ buildPos' = buildPos + 1
  /\ UNCHANGED <<criticals, phase, buildId, latest, topLevel, totalConsume, exeCnt,
                 threadVars, execVars, fired>>

\* BUG variant: only the first field of the transaction is recorded.
UpdateFirstOnly ==
  /\ phase = "edges" /\ buildId \in Txs
  /\ buildPos > Len(criticals[buildId])
  /\ latest' = [c \in Fields |->
       IF criticals[buildId] # <<>> /\ c = Head(criticals[buildId])
       THEN buildId ELSE latest[c]]
  /\ buildId' = buildId + 1 /\ buildPos' = 1
  /\ UNCHANGED <<criticals, phase, outEdge, inDegree, topLevel, totalConsume, exeCnt,
                 threadVars, execVars, fired>>

\* All fields of buildId now have it as their last user; on to the next transaction.
UpdateLatest ==
  /\ phase = "edges" /\ buildId \in Txs
  /\ buildPos > Len(criticals[buildId])
  /\ latest' = [c \in Fields |-> IF c \in Uses(buildId) THEN buildId ELSE latest[c]]
  /\ buildId' = buildId + 1 /\ buildPos' = 1
  /\ UNCHANGED <<criticals, phase, outEdge, inDegree, topLevel, totalConsume, exeCnt,
                 threadVars, execVars, fired>>

EndEdges ==
  /\ phase = "edges" /\ buildId = N + 1
  /\ phase' = "generate" /\ buildId' = 1
  /\ UNCHANGED <<criticals, buildPos, latest, outEdge, inDegree, topLevel,
                 totalConsume, exeCnt, threadVars, execVars, fired>>

\* One turn of DAG::generate.
Generate ==
  /\ phase = "generate" /\ buildId \in Txs
  /\ topLevel' = IF inDegree[buildId] = 0 THEN Append(topLevel, buildId) ELSE topLevel
  /\ buildId' = buildId + 1
  /\ UNCHANGED <<criticals, phase, buildPos, latest, outEdge, inDegree, totalConsume,
                 exeCnt, threadVars, execVars, fired>>

EndGenerate ==
  /\ phase = "generate" /\ buildId = N + 1
  /\ phase' = "run"
  /\ UNCHANGED <<criticals, buildId, buildPos, latest, outEdge, inDegree, topLevel,
                 totalConsume, exeCnt, threadVars, execVars, fired>>

Build == AddEdge \/ UpdateLatest \/ EndEdges \/ Generate \/ EndGenerate

-----------------------------------------------------------------------------
(* Executing it: the bodies of the parallel_for.                            *)

\* TBB starts a body when a worker is free: the bodies need not all run at once.
Start(t) ==
  /\ phase = "run" /\ pc[t] = "idle"
  /\ pc' = [pc EXCEPT ![t] = "check"]
  /\ UNCHANGED <<criticals, buildVars, inDegree, topLevel, totalConsume, exeCnt,
                 cur, edge, nextId, cnt, execVars, fired>>

\* BUG variant: the local counter survives from one executeUnit to the next.
CheckKeepCount(t) ==
  /\ pc[t] = "check"
  /\ pc' = [pc EXCEPT ![t] = IF exeCnt >= N THEN "exit" ELSE "pop"]
  /\ UNCHANGED <<criticals, buildVars, inDegree, topLevel, totalConsume, exeCnt,
                 cur, edge, nextId, cnt, execVars, fired>>

\* while (!txDag->hasFinished()) executeUnit(...): hasFinished reads m_exeCnt without
\* the lock its writers take.
Check(t) ==
  /\ pc[t] = "check"
  /\ pc' = [pc EXCEPT ![t] = IF exeCnt >= N THEN "exit" ELSE "pop"]
  /\ cnt' = [cnt EXCEPT ![t] = 0]
  /\ UNCHANGED <<criticals, buildVars, inDegree, topLevel, totalConsume, exeCnt,
                 cur, edge, nextId, execVars, fired>>

\* waitPop finds a vertex.
Pop(t) ==
  /\ pc[t] = "pop" /\ topLevel # <<>>
  /\ cur' = [cur EXCEPT ![t] = Head(topLevel)]
  /\ topLevel' = Tail(topLevel)
  /\ pc' = [pc EXCEPT ![t] = "exec"]
  /\ UNCHANGED <<criticals, buildVars, inDegree, totalConsume, exeCnt,
                 edge, nextId, cnt, execVars, fired>>

\* waitPop returns INVALID_ID on an empty queue: everything is consumed, or its 10 ms
\* are over (a notify_one sent outside the mutex may be lost, the timeout never is).
PopNothing(t) ==
  /\ pc[t] = "pop" /\ topLevel = <<>>
  /\ pc' = [pc EXCEPT ![t] = "count"]
  /\ UNCHANGED <<criticals, buildVars, inDegree, topLevel, totalConsume, exeCnt,
                 cur, edge, nextId, cnt, execVars, fired>>

\* m_exeCnt += exeCnt under x_exeCnt; executeUnit returns.
AddCount(t) ==
  /\ pc[t] = "count"
  /\ exeCnt' = exeCnt + cnt[t]
  /\ pc' = [pc EXCEPT ![t] = "check"]
  /\ UNCHANGED <<criticals, buildVars, inDegree, topLevel, totalConsume,
                 cur, edge, nextId, cnt, execVars, fired>>

\* exeCnt += 1 and, if the vertex has parameters, f_executeTx moves them out and starts
\* the executive.  Vertices that were sent back have none and are only consumed.
Execute(t) ==
  LET i == cur[t] IN
  /\ pc[t] = "exec"
  /\ cnt' = [cnt EXCEPT ![t] = @ + 1]
  /\ IF params[i]
     THEN /\ params' = [params EXCEPT ![i] = FALSE]
          /\ read' = [read EXCEPT ![i] =
                        [c \in Fields |-> IF c \in Uses(i) THEN field[c] ELSE 0]]
          /\ status' = [status EXCEPT ![i] = "running"]
          /\ pc' = [pc EXCEPT ![t] = "run"]
     ELSE /\ status' = [status EXCEPT ![i] = "ended"]
          /\ pc' = [pc EXCEPT ![t] = "consume"]
          /\ UNCHANGED <<params, read>>
  /\ edge' = [edge EXCEPT ![t] = 1]
  /\ nextId' = [nextId EXCEPT ![t] = INVALID]
  /\ UNCHANGED <<criticals, buildVars, inDegree, topLevel, totalConsume, exeCnt,
                 cur, results, field, fired>>

\* BUG variant: a transaction that throws is not counted down.
ExecuteEndSkip(t, ok) ==
  LET i == cur[t] IN
  /\ pc[t] = "run"
  /\ IF ok
     THEN /\ field' = [c \in Fields |-> IF c \in Uses(i) THEN i ELSE field[c]]
          /\ results' = [results EXCEPT ![i] = "output"]
          /\ pc' = [pc EXCEPT ![t] = "consume"]
     ELSE /\ pc' = [pc EXCEPT ![t] = "pop"]
          /\ UNCHANGED <<field, results>>
  /\ status' = [status EXCEPT ![i] = "ended"]
  /\ UNCHANGED <<criticals, buildVars, inDegree, topLevel, totalConsume, exeCnt,
                 cur, edge, nextId, cnt, params, read, fired>>

\* f_executeTx returns: with the transaction's output, or having swallowed an exception,
\* which leaves the result null and the graph going.
ExecuteEnd(t, ok) ==
  LET i == cur[t] IN
  /\ pc[t] = "run"
  /\ IF ok
     THEN /\ field' = [c \in Fields |-> IF c \in Uses(i) THEN i ELSE field[c]]
          /\ results' = [results EXCEPT ![i] = "output"]
     ELSE UNCHANGED <<field, results>>
  /\ status' = [status EXCEPT ![i] = "ended"]
  /\ pc' = [pc EXCEPT ![t] = "consume"]
  /\ UNCHANGED <<criticals, buildVars, inDegree, topLevel, totalConsume, exeCnt,
                 cur, edge, nextId, cnt, params, read, fired>>

\* BUG variant: a vertex is ready as soon as one of its predecessors is consumed.
CountDownAny(t) ==
  LET i == cur[t]  j == outEdge[i][edge[t]] IN
  /\ pc[t] = "consume" /\ edge[t] <= Len(outEdge[i])
  /\ inDegree' = [inDegree EXCEPT ![j] = 0]
  /\ fired' = fired \cup {<<i, edge[t]>>}
  /\ edge' = [edge EXCEPT ![t] = @ + 1]
  /\ IF inDegree[j] > 0 /\ nextId[t] = INVALID
     THEN /\ nextId' = [nextId EXCEPT ![t] = j]
          /\ UNCHANGED topLevel
     ELSE /\ topLevel' = IF inDegree[j] > 0 THEN Append(topLevel, j) ELSE topLevel
          /\ UNCHANGED nextId
  /\ UNCHANGED <<criticals, buildVars, totalConsume, exeCnt, pc, cur, cnt, execVars>>

\* BUG variant: the vertex the thread goes on with is pushed for the others too.
CountDownPushAll(t) ==
  LET i == cur[t]  j == outEdge[i][edge[t]] IN
  /\ pc[t] = "consume" /\ edge[t] <= Len(outEdge[i])
  /\ inDegree' = [inDegree EXCEPT ![j] = @ - 1]
  /\ fired' = fired \cup {<<i, edge[t]>>}
  /\ edge' = [edge EXCEPT ![t] = @ + 1]
  /\ nextId' = IF inDegree[j] = 1 /\ nextId[t] = INVALID
               THEN [nextId EXCEPT ![t] = j] ELSE nextId
  /\ topLevel' = IF inDegree[j] = 1 THEN Append(topLevel, j) ELSE topLevel
  /\ UNCHANGED <<criticals, buildVars, totalConsume, exeCnt, pc, cur, cnt, execVars>>

\* One turn of the loop of consume: fetch_sub on the successor; the thread keeps the
\* first one that becomes ready and pushes the others.
CountDown(t) ==
  LET i == cur[t]  j == outEdge[i][edge[t]] IN
  /\ pc[t] = "consume" /\ edge[t] <= Len(outEdge[i])
  /\ inDegree' = [inDegree EXCEPT ![j] = @ - 1]
  /\ fired' = fired \cup {<<i, edge[t]>>}
  /\ edge' = [edge EXCEPT ![t] = @ + 1]
  /\ nextId' = IF inDegree[j] = 1 /\ nextId[t] = INVALID
               THEN [nextId EXCEPT ![t] = j] ELSE nextId
  /\ topLevel' = IF inDegree[j] = 1 /\ nextId[t] # INVALID
                 THEN Append(topLevel, j) ELSE topLevel
  /\ UNCHANGED <<criticals, buildVars, totalConsume, exeCnt, pc, cur, cnt, execVars>>

\* BUG variant: the id consume returns is executed without comparing it with INVALID_ID.
EndConsumeNoTest(t) ==
  /\ pc[t] = "consume" /\ edge[t] > Len(outEdge[cur[t]])
  /\ totalConsume' = totalConsume + 1
  /\ cur' = [cur EXCEPT ![t] = nextId[t]]
  /\ nextId' = [nextId EXCEPT ![t] = INVALID]
  /\ pc' = [pc EXCEPT ![t] = "exec"]
  /\ UNCHANGED <<criticals, buildVars, inDegree, topLevel, exeCnt, edge, cnt, execVars,
                 fired>>

\* The end of consume: m_totalConsume is incremented and nextId, if any, is executed
\* next, without going through the queue.
EndConsume(t) ==
  /\ pc[t] = "consume" /\ edge[t] > Len(outEdge[cur[t]])
  /\ totalConsume' = totalConsume + 1
  /\ cur' = [cur EXCEPT ![t] = nextId[t]]
  /\ nextId' = [nextId EXCEPT ![t] = INVALID]
  /\ pc' = [pc EXCEPT ![t] = IF nextId[t] = INVALID THEN "pop" ELSE "exec"]
  /\ UNCHANGED <<criticals, buildVars, inDegree, topLevel, exeCnt, edge, cnt, execVars,
                 fired>>

Step(t) ==
  \/ Check(t) \/ Pop(t) \/ PopNothing(t) \/ AddCount(t) \/ Execute(t)
  \/ \E ok \in BOOLEAN : ExecuteEnd(t, ok)
  \/ CountDown(t) \/ EndConsume(t)

Next == Build \/ \E t \in Threads : Start(t) \/ Step(t)

Spec == Init /\ [][Next]_vars

\* The operating system runs a body that has been started; parallel_for starts another
\* one at the latest when none is running (its caller is a worker too).
NoneActive == \A t \in Threads : pc[t] \in {"idle", "exit"}

Fairness ==
  /\ WF_vars(Build)
  /\ \A t \in Threads : WF_vars(Step(t))
  /\ WF_vars(NoneActive /\ \E t \in Threads : Start(t))

FairSpec == Spec /\ Fairness

-----------------------------------------------------------------------------
(* Properties.                                                              *)

Vertex == Txs \cup {INVALID}

GraphType ==
  /\ criticals \in [Txs -> CriticalLists]
  /\ phase \in {"edges", "generate", "run"}
  /\ buildId \in 1 .. N + 1 /\ buildPos \in Nat \ {0}
  /\ latest \in [Fields -> Vertex]
  /\ outEdge \in [Txs -> Seq(Txs)]

ReadyType ==
  /\ inDegree \in [Txs -> Int]
  /\ topLevel \in Seq(Txs)
  /\ totalConsume \in Nat /\ exeCnt \in Nat
  /\ fired \subseteq Txs \X (Nat \ {0})

ThreadType ==
  /\ pc \in [Threads -> {"idle", "check", "pop", "exec", "run", "consume", "count", "exit"}]
  /\ cur \in [Threads -> Vertex]
  /\ edge \in [Threads -> Nat \ {0}]
  /\ nextId \in [Threads -> Vertex]
  /\ cnt \in [Threads -> Nat]
  /\ \A t \in Threads : pc[t] \in {"exec", "run", "consume"} => cur[t] # INVALID

ExecType ==
  /\ params \in [Txs -> BOOLEAN]
  /\ results \in [Txs -> {"null", "sendBack", "output"}]
  /\ field \in [Fields -> Vertex]
  /\ read \in [Txs -> [Fields -> Vertex]]
  /\ status \in [Txs -> {"idle", "running", "ended"}]

TypeOK == GraphType /\ ReadyType /\ ThreadType /\ ExecType

(* No transaction starts before every earlier transaction of the block     *)
(* that shares a critical field with it has ended, whichever threads pick  *)
(* them up and however consume's counting down interleaves (TxDAG::init,   *)
(* DAG::consume).                                                          *)
ConflictOrder ==
  \A j \in Txs : status[j] # "idle" =>
    \A i \in 1 .. j - 1 : Uses(i) \cap Uses(j) # {} => status[i] = "ended"

\* The vertices a thread has: the one it works on and the one consume kept for it.
Held(t) ==
  {i \in Txs : \/ i = cur[t] /\ pc[t] \in {"exec", "run", "consume"}
               \/ i = nextId[t]}

(* A vertex that is ready is in one place only: once in m_topLevel or with *)
(* one thread; so no transaction is executed, or counted in m_exeCnt,      *)
(* twice although inDegree is counted down by several threads at a time.   *)
OnePlace ==
  /\ \A a, b \in 1 .. Len(topLevel) : topLevel[a] = topLevel[b] => a = b
  /\ \A a \in 1 .. Len(topLevel) : /\ status[topLevel[a]] = "idle"
                                   /\ \A t \in Threads : topLevel[a] \notin Held(t)
  /\ \A t, u \in Threads : t # u => Held(t) \cap Held(u) = {}
  /\ \A t \in Threads : nextId[t] # INVALID => /\ nextId[t] # cur[t]
                                               /\ status[nextId[t]] = "idle"
  /\ \A t \in Threads : pc[t] = "exec" => status[cur[t]] = "idle"

(* hasFinished, which reads m_exeCnt unlocked, is never true too early:    *)
(* once a thread can leave the loop every transaction has ended and been   *)
(* consumed, so the callback's results are final.                          *)
FinishedMeansAll ==
  exeCnt >= N => /\ \A i \in Txs : status[i] = "ended"
                 /\ totalConsume = N

Ended == {i \in Txs : status[i] = "ended"}

Serial == INSTANCE SerialOrder WITH
  done  <- Ended,
  read  <- [i \in Txs |-> IF status[i] = "ended" THEN read[i]
                          ELSE [c \in Fields |-> 0]],
  wrote <- {i \in Ended : results[i] # "null"}

(* Parallel execution of the graph implements serial execution of the      *)
(* transactions: a transaction takes effect when f_executeTx returns, and  *)
(* what it read when it started is what it would read at that moment.      *)
ImplementsSerialOrder == Serial!Spec

(* Of each of its critical fields a transaction that has ended read the    *)
(* write of the nearest earlier transaction that wrote it, as in serial    *)
(* execution: no update between conflicting transactions is lost or missed *)
(* (f_executeTx of dagExecuteTransactionsForEvm).                          *)
ReadsAsSerial == Serial!SerialReads

(* Every transaction is executed and every parallel_for body returns, so   *)
(* dagExecuteTransactionsForEvm calls its callback: no wake-up lost between *)
(* consume and waitPop leaves a ready vertex behind.                       *)
Termination == <>(\A t \in Threads : pc[t] = "exit")
============================================================================
