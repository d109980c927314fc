------------------------------ MODULE WasmDag ------------------------------
(***************************************************************************)
(* Parallel execution of a batch of Wasm transactions:                     *)
(* TransactionExecutor::dagExecuteTransactionsForWasm and                  *)
(* decodeConflictFields.                                                   *)
(*                                                                         *)
(* Workers first look up the ABI of each called method (m_abiCache, then   *)
(* the contract's table under tableMutex) and decode its conflict fields;  *)
(* the calling thread then links one TBB task per transaction into a flow  *)
(* graph; the graph runs.  A continue_node fires at the message that makes *)
(* as many as it has incoming edges, two edges from one task counting      *)
(* twice and an edge from itself counting too.                             *)
(*                                                                         *)
(* Tasks are named by their transaction (the code numbers them densely:    *)
(* the order is the same).  A slot is the pair of contract and slot number *)
(* whose hash the code computes.                                           *)
(***************************************************************************)
EXTENDS Integers, Sequences, FiniteSets, Functions, SequencesExt

CONSTANTS N,          \* transactions of the batch
          Calls,      \* the call parameters a transaction may have
          Abi,        \* <<contract, method>> |-> its conflict fields or Invalid
          Slots,      \* the slots those fields name, with their contract
          Keys,       \* what can follow the slot in a decoded field
          Invalid     \* an ABI that FunctionAbi::deserialize rejects

ASSUME BatchAssumption == N \in Nat /\ IsFiniteSet(Slots) /\ IsFiniteSet(Keys) /\ Keys # {}

Txs == 1 .. N
Methods == DOMAIN Abi

\* The rest of a field that names its whole slot (All, Len): nothing.
Whole == "whole"

VARIABLES
  inputs,        \* transaction |-> its call parameters
  phase,         \* of the calling thread: "collect", "link", "run", "called"
  worker,        \* transaction |-> "start", "miss" or "done": its turn of parallel_for
  abiCache,      \* the methods whose ABI m_abiCache holds
  conflicts,     \* allConflictFields: transaction |-> has_value
  linkId,        \* loop variable of the linking loop
  linkPos,       \* loop variable over the conflict fields of linkId
  noDeps,        \* local of the linking loop
  dependencies,  \* <<slot, key>> |-> the tasks that use it
  slotUsage,     \* slot |-> the last task that uses all of it, 0 if none
  edges,         \* the calls of make_edge: <<from, to, linkPos, key, place>>
  received,      \* task |-> messages its continue_node has received
  fromStart,     \* the tasks the start node has an edge to
  status,        \* task |-> "idle", "running", "ended"
  results,       \* executionResults
  cell,          \* contract storage: <<slot, key>> |-> its last writer, 0 if none
  read           \* transaction |-> what it read when it started

linkVars == <<linkId, linkPos, noDeps, dependencies, slotUsage, edges, fromStart>>
runVars  == <<received, status, cell, read>>
vars == <<inputs, phase, worker, abiCache, conflicts, linkVars, runVars, results>>

Cells == Slots \X Keys

-----------------------------------------------------------------------------
(* decodeConflictFields.                                                    *)

\* Whether the path of a Var field leads to a parameter of the input.
Decodable(call, f) ==
  \/ f.kind \in {"All", "Len", "Caller", "Origin", "Now", "BlockNumber", "Addr"}
  \/ f.kind = "Var" /\ f.path <= Len(call.args)

Key(call, f) ==
  CASE f.kind \in {"All", "Len"} -> Whole
    [] f.kind = "Caller"         -> call.sender
    [] f.kind = "Origin"         -> call.origin
    [] f.kind = "Addr"           -> call.to
    [] f.kind = "Var"            -> call.args[f.path]
    [] OTHER                     -> f.kind      \* Now, BlockNumber: the block's own

Declared(call) == Abi[<<call.to, call.method>>]

\* A method that is called has a row in the contract's table: a list of fields or Invalid.
ASSUME CallsAssumption ==
  \A call \in Calls :
    /\ call.create \in BOOLEAN
    /\ ~call.create => /\ <<call.to, call.method>> \in Methods
                       /\ Declared(call) # Invalid =>
                            Declared(call) \in Seq(Range(Declared(call)))

\* nullopt: nothing declared, or one field that cannot be decoded.
HasConflictFields(call) ==
  /\ Declared(call) # <<>>
  /\ \A n \in DOMAIN Declared(call) : Decodable(call, Declared(call)[n])

decodeConflictFields(call) ==
  [n \in DOMAIN Declared(call) |->
     LET f == Declared(call)[n] IN <<<<call.to, f.slot>>, Key(call, f)>>]

\* The call gets a task: what the worker of its transaction finds out.
Analysable(call) == ~call.create /\ Declared(call) # Invalid /\ HasConflictFields(call)

\* Slots and Keys hold what the calls can name; no key is as short as a whole slot's field.
ASSUME FieldsAssumption ==
  /\ Whole \notin Keys
  /\ \A call \in Calls : Analysable(call) =>
         \A n \in DOMAIN Declared(call) :
           decodeConflictFields(call)[n] \in Slots \X (Keys \cup {Whole})

FieldsOf(i) == decodeConflictFields(inputs[i])

\* What a call may touch, if its declaration is right: a field that names the whole
\* slot stands for every key of it.
TouchedBy ==
  [call \in Calls |->
     IF Analysable(call)
     THEN {c \in Cells : \E n \in DOMAIN Declared(call) :
             decodeConflictFields(call)[n] \in {c, <<c[1], Whole>>}}
     ELSE {}]

Touches(i) == TouchedBy[inputs[i]]

-----------------------------------------------------------------------------
Init ==
  /\ inputs \in [Txs -> Calls]
  /\ phase = "collect"
  /\ worker = [i \in Txs |-> "start"]
  /\ abiCache \in {{}, {m \in Methods : Abi[m] # Invalid}}
  /\ conflicts = [i \in Txs |-> FALSE]
  /\ linkId = 1 /\ linkPos = 1 /\ noDeps = TRUE
  /\ dependencies = [c \in Cells |-> <<>>]
  /\ slotUsage = [s \in Slots |-> 0]
  /\ edges = {}
  /\ fromStart = {}
  /\ received = [i \in Txs |-> 0]
  /\ status = [i \in Txs |-> "idle"]
  /\ results = [i \in Txs |-> "default"]
  /\ cell = [c \in Cells |-> 0]
  /\ read = [i \in Txs |-> [c \in Cells |-> 0]]

\* The end of a turn once the ABI is at hand.
Decode(i) ==
  /\ worker' = [worker EXCEPT ![i] = "done"]
  /\ conflicts' = [conflicts EXCEPT ![i] = HasConflictFields(inputs[i])]
  /\ results' = IF HasConflictFields(inputs[i]) THEN results
                ELSE [results EXCEPT ![i] = "sendBackBlank"]

SendBack(i) ==
  /\ worker' = [worker EXCEPT ![i] = "done"]
  /\ results' = [results EXCEPT ![i] = "sendBack"]
  /\ UNCHANGED conflicts

\* A worker takes up transaction i: a create goes back, a hit is decoded.
Lookup(i) ==
  LET m == <<inputs[i].to, inputs[i].method>> IN
  /\ phase = "collect" /\ worker[i] = "start"
  /\ CASE inputs[i].create -> SendBack(i)
       [] ~inputs[i].create /\ m \in abiCache -> Decode(i)
       [] OTHER -> /\ worker' = [worker EXCEPT ![i] = "miss"]
                   /\ UNCHANGED <<conflicts, results>>
  /\ UNCHANGED <<inputs, phase, abiCache, linkVars, runVars>>

\* After a miss, under tableMutex: another worker may have loaded the ABI meanwhile;
\* if not it is read from the contract's table and put in the cache if the cache has
\* room for it (fits).
Load(i, fits) ==
  LET m == <<inputs[i].to, inputs[i].method>> IN
  /\ phase = "collect" /\ worker[i] = "miss"
  /\ CASE Abi[m] = Invalid -> SendBack(i) /\ UNCHANGED abiCache
       [] m \in abiCache -> Decode(i) /\ UNCHANGED abiCache
       [] OTHER -> /\ Decode(i)
                   /\ abiCache' = IF fits THEN abiCache \cup {m} ELSE abiCache
  /\ UNCHANGED <<inputs, phase, linkVars, runVars>>

\* parallel_for returns when every turn has ended.
EndCollect ==
  /\ phase = "collect" /\ \A i \in Txs : worker[i] = "done"
  /\ phase' = "link"
  /\ UNCHANGED <<inputs, worker, abiCache, conflicts, linkVars, runVars, results>>

-----------------------------------------------------------------------------
(* Linking the tasks, on the calling thread.                                *)

\* make_edge to the task being linked from x[1], for each x of froms: x[2] and x[3] say
\* what led to x[1], so that two edges from one task are two.
MakeEdges(froms) ==
  edges' = edges \cup {<<x[1], linkId, linkPos, x[2], x[3]>> : x \in froms}

Linking == phase = "link" /\ linkId <= N /\ conflicts[linkId]

\* The last user of the whole slot of field f.
BySlot(f) ==
  {<<j, Whole, 0>> : j \in {slotUsage[f[1]]} \ {0, linkId}}

\* The last user of field f.
ByKey(f) ==
  IF dependencies[f] # <<>> /\ Last(dependencies[f]) # linkId
  THEN {<<Last(dependencies[f]), f[2], Len(dependencies[f])>>}
  ELSE {}

\* Every task in the lists of the keys of f's slot, once for each place it has there.
ByKeys(f) ==
  UNION {{<<dependencies[<<f[1], k>>][n], k, n>> : n \in DOMAIN dependencies[<<f[1], k>>]} :
           k \in Keys}

\* BUG variant: a field with a key is not checked against users of the whole slot.
KeyFieldNoSlot ==
  LET f == FieldsOf(linkId)[linkPos] IN
  /\ Linking /\ linkPos <= Len(FieldsOf(linkId)) /\ f[2] # Whole
  /\ MakeEdges(ByKey(f))
  /\ noDeps' = (noDeps /\ ByKey(f) = {})
  /\ dependencies' = [dependencies EXCEPT ![f] = IF ByKey(f) # {} THEN Append(@, linkId)
                                                 ELSE <<linkId>>]
  /\ linkPos' = linkPos + 1
  /\ UNCHANGED <<inputs, phase, worker, abiCache, conflicts, linkId, slotUsage,
                 fromStart, runVars, results>>

\* A field with a key: after the last user of the whole slot and of the key.
KeyField ==
  LET f == FieldsOf(linkId)[linkPos] IN
  /\ Linking /\ linkPos <= Len(FieldsOf(linkId)) /\ f[2] # Whole
  /\ MakeEdges(BySlot(f) \cup ByKey(f))
  /\ noDeps' = (noDeps /\ BySlot(f) \cup ByKey(f) = {})
  /\ dependencies' = [dependencies EXCEPT ![f] = IF ByKey(f) # {} THEN Append(@, linkId)
                                                 ELSE <<linkId>>]
  /\ linkPos' = linkPos + 1
  /\ UNCHANGED <<inputs, phase, worker, abiCache, conflicts, linkId, slotUsage,
                 fromStart, runVars, results>>

\* A field that names the whole slot: after its last user and after every task in the
\* lists of the slot's keys, the task itself included if it has used one of them.
WholeField ==
  LET f == FieldsOf(linkId)[linkPos] IN
  /\ Linking /\ linkPos <= Len(FieldsOf(linkId)) /\ f[2] = Whole
  /\ MakeEdges(BySlot(f) \cup ByKeys(f))
  /\ noDeps' = (noDeps /\ BySlot(f) \cup ByKeys(f) = {})
  /\ slotUsage' = [slotUsage EXCEPT ![f[1]] = linkId]
  /\ linkPos' = linkPos + 1
  /\ UNCHANGED <<inputs, phase, worker, abiCache, conflicts, linkId, dependencies,
                 fromStart, runVars, results>>

\* The task is linked; without dependencies it hangs on the start node.
EndTask ==
  /\ Linking /\ linkPos > Len(FieldsOf(linkId))
  /\ fromStart' = IF noDeps THEN fromStart \cup {linkId} ELSE fromStart
  /\ linkId' = linkId + 1 /\ linkPos' = 1 /\ noDeps' = TRUE
  /\ UNCHANGED <<inputs, phase, worker, abiCache, conflicts, dependencies,
                 slotUsage, edges, runVars, results>>

\* A transaction without conflict fields has been sent back: it gets no task.
SkipTask ==
  /\ phase = "link" /\ linkId <= N /\ ~conflicts[linkId]
  /\ linkId' = linkId + 1
  /\ UNCHANGED <<inputs, phase, worker, abiCache, conflicts, linkPos, noDeps,
                 dependencies, slotUsage, edges, fromStart, runVars, results>>

\* start.try_put: one message to every task of the start node.
Put ==
  /\ phase = "link" /\ linkId > N
  /\ phase' = "run"
  /\ received' = [i \in Txs |-> IF i \in fromStart THEN 1 ELSE 0]
  /\ UNCHANGED <<inputs, worker, abiCache, conflicts, linkVars, status, cell,
                 read, results>>

-----------------------------------------------------------------------------
(* The flow graph.                                                          *)

\* The incoming edges of task i, the one of the start node included.
Predecessors(i) ==
  Cardinality({e \in edges : e[2] = i}) + (IF i \in fromStart THEN 1 ELSE 0)

Fires(i) ==
  /\ phase = "run" /\ conflicts[i] /\ status[i] = "idle"
  /\ received[i] > 0 /\ received[i] = Predecessors(i)

\* What the node of task j has received once task i has sent its messages.
Received(i, j) == received[j] + Cardinality({e \in edges : e[1] = i /\ e[2] = j})

\* executive->start: the call reads what it uses.
Begin(i) ==
  /\ Fires(i)
  /\ status' = [status EXCEPT ![i] = "running"]
  /\ read' = [read EXCEPT ![i] = [c \in Cells |-> IF c \in Touches(i) THEN cell[c] ELSE 0]]
  /\ UNCHANGED <<inputs, phase, worker, abiCache, conflicts, linkVars, received,
                 cell, results>>

\* BUG variant: a task that caught an exception sends no message.
EndSilent(i, ok) ==
  /\ phase = "run" /\ status[i] = "running"
  /\ status' = [status EXCEPT ![i] = "ended"]
  /\ cell' = IF ok THEN [c \in Cells |-> IF c \in Touches(i) THEN i ELSE cell[c]] ELSE cell
  /\ results' = [results EXCEPT ![i] = IF ok THEN "output" ELSE "revert"]
  /\ received' = IF ok THEN [j \in Txs |-> Received(i, j)] ELSE received
  /\ UNCHANGED <<inputs, phase, worker, abiCache, conflicts, linkVars, read>>

\* The task ends, with the output of its transaction or having caught an exception
\* (type REVERT), and sends a message along each of its edges.
End(i, ok) ==
  /\ phase = "run" /\ status[i] = "running"
  /\ status' = [status EXCEPT ![i] = "ended"]
  /\ cell' = IF ok THEN [c \in Cells |-> IF c \in Touches(i) THEN i ELSE cell[c]] ELSE cell
  /\ results' = [results EXCEPT ![i] = IF ok THEN "output" ELSE "revert"]
  /\ received' = [j \in Txs |-> Received(i, j)]
  /\ UNCHANGED <<inputs, phase, worker, abiCache, conflicts, linkVars, read>>

\* BUG variant: the caller waits until every task has run.
CallbackAllRun ==
  /\ phase = "run" /\ \A i \in Txs : conflicts[i] => status[i] = "ended"
  /\ phase' = "called"
  /\ UNCHANGED <<inputs, worker, abiCache, conflicts, linkVars, runVars, results>>

\* wait_for_all returns when no task runs or can fire; then the callback.
Callback ==
  /\ phase = "run" /\ \A i \in Txs : ~Fires(i) /\ status[i] # "running"
  /\ phase' = "called"
  /\ UNCHANGED <<inputs, worker, abiCache, conflicts, linkVars, runVars, results>>

Link == KeyField \/ WholeField \/ EndTask \/ SkipTask \/ Put

Work(i) ==
  \/ Lookup(i) \/ (\E fits \in BOOLEAN : Load(i, fits))
  \/ Begin(i) \/ (\E ok \in BOOLEAN : End(i, ok))

Next == EndCollect \/ Link \/ Callback \/ \E i \in Txs : Work(i)

Spec == Init /\ [][Next]_vars

\* parallel_for and the flow graph run their tasks to the end; the caller goes on.
FairSpec ==
  /\ Spec
  /\ WF_vars(EndCollect \/ Link \/ Callback)
  /\ \A i \in Txs : WF_vars(Work(i))

-----------------------------------------------------------------------------
(* Properties.                                                              *)

Ended == {i \in Txs : status[i] = "ended"}

\* A set of cells as a list.
Lists == {SetToSeq(S) : S \in SUBSET Cells}
ListTouchedBy == [call \in Calls |-> SetToSeq(TouchedBy[call])]

Serial == INSTANCE SerialOrder WITH
  Fields        <- Cells,
  CriticalLists <- Lists,
  criticals     <- [i \in Txs |-> ListTouchedBy[inputs[i]]],
  done          <- Ended,
  field         <- cell,
  read          <- [i \in Txs |-> IF i \in Ended THEN read[i] ELSE [c \in Cells |-> 0]],
  wrote         <- {i \in Ended : results[i] = "output"}

(* The flow graph executes the batch as if serially: a transaction that    *)
(* names a key and one that names the whole slot (All, Len) are in block   *)
(* order too, although their conflict fields are different byte strings    *)
(* (dependencies and slotUsage in dagExecuteTransactionsForWasm).          *)
WasmImplementsSerialOrder == Serial!Spec

\* The transaction names a key of a slot and, later in its list, the whole slot.
NamesKeyThenSlot(i) ==
  \E n \in DOMAIN FieldsOf(i) : \E k \in 1 .. n - 1 :
    FieldsOf(i)[n][2] = Whole /\ FieldsOf(i)[k][1] = FieldsOf(i)[n][1] /\ FieldsOf(i)[k][2] # Whole

\* S holds every task with an edge to itself, and with a task every later one that has
\* to wait for it.
Stuck(S) ==
  \A i \in Txs :
    /\ conflicts[i] /\ NamesKeyThenSlot(i) => i \in S
    /\ \A j \in S : conflicts[i] /\ j < i /\ Touches(i) \cap Touches(j) # {} => i \in S

\* The tasks with an edge to themselves and all that hang behind them, directly or not.
Lost == {i \in Txs : \A S \in SUBSET Txs : Stuck(S) => i \in S}

(* When the callback is called every transaction has been executed or sent *)
(* back, except exactly those that hang behind a task with an edge to      *)
(* itself (made when a transaction names a key of a slot before the whole  *)
(* slot): these are answered with the default message, unexecuted, and the *)
(* callback reports no error.                                              *)
UnansweredOnlyBehindOwnEdge ==
  phase = "called" => \A i \in Txs : (results[i] = "default") <=> i \in Lost

(* wait_for_all always returns and the callback is called, whatever edges  *)
(* the conflict fields make: a task that can never fire is not waited for. *)
CallbackCalled == <>(phase = "called")
============================================================================
