# A TLA+ model of bcos-executor

bcos-executor executes the transactions of the blocks of a FISCO BCOS chain. A
scheduler (outside this repository) sends it block headers, transactions and
the two phases of the commit; the executor runs the transactions in an EVM or
wasm machine or in precompiled contracts, over a stack of in-memory storages
on top of a backend. This directory holds a model of its core as TLA+ modules,
TLC configurations and TLAPS proofs. `PROJECT.json` lists the components, the
runs, the source lines behind every definition, the hazards and the theorems.

## Inventory

| Component | State | Operations | What is hard | What makes it correct |
|---|---|---|---|---|
| Transaction DAG (`src/dag/DAG`, `TxDAG`, `dagExecuteTransactionsForEvm`) | in-degrees, out-edges, ready queue, counters | build the graph, pop, execute, consume | atomic counters and a queue shared by workers; lost wake-ups; exceptions | conflicting transactions in block order, each once, as if serial; the workers stop |
| Block pipeline (`TransactionExecutor`) | list of uncommitted block storages, current block context, last state storage, last number | nextBlockHeader, execute, prepare, commit and its callback, rollback, reset | asynchronous commit beside new blocks; partial failure; restart | the chain of storages stays linked; only the next block is committed, whole |
| LRUStorage | rows, MRU queue, capacity | read, write, merge, evict | cleaner thread beside merges | shows what the backend holds |
| TransactionExecutive, SyncStorageWrapper, BlockContext | coroutine, Recoder, own and foreign key locks, table of executives | start, external call, wait for a lock, resume, revert | interleaving at every call, one Recoder for all, deadlocks | isolation of running transactions; a revert undoes its own writes only |
| `call` of TransactionExecutor | table of called contexts | call, resume, end | errors that leave entries behind; reads during a merge | entries end; reads of one block |
| Wasm conflict analysis (`decodeConflictFields`, `dagExecuteTransactionsForWasm`, `Abi`, `ScaleUtils`) | slot and key tables, flow graph | analyse, link, run | fields of a key against fields of a whole slot | conflicting transactions ordered, every one executed |
| ClockCache (`src/dag/ClockCache`) | handles, flags and reference counts, clock hand | insert, lookup, release, evict | lock-free flags beside eviction | no handle freed while referenced; usage within capacity |
| HostContext, EVM host interface, VM factory | responses, logs | storage access, external request, create | conversion of results | answers reach the machine |
| System contracts: Consensus, SystemConfig, CNS, ParallelConfig | rows of system tables | one per contract method | sequences of calls over several blocks; spellings of one name | a sealer always remains; an error changes nothing; what is settled stays |
| BFS and KVTable | directories, tables, their listings | mkdir, list, createTable, set, get, desc, deploy at a path | paths spelled differently; directories built before an error | listings and tables agree |
| ContractAuth (`ContractAuthPrecompiled`, `checkAuth`) | an auth table per contract, deploy rows of `/apps` | set type, open, close, reset the admin, check | writes in this block, checks against the last | decisions hold from the next block on; one answer per block |
| DagTransfer | balances | add, save, draw, transfer, balance | run in parallel by tags, beside the creation of the table; u256 overflow | money conserved; as if serial; who is reverted |
| Crypto, HelloWorld, TableFactory (not registered), Ethereum contracts | none, or not reachable | | | |
| Gas injection (`vm/gas_meter`) | byte code | inject | control flow; shifted indices | each instruction paid before it runs, once; every run stops |

How they interact: the scheduler calls the executor; the executor keeps one
`BlockContext` per block, which owns the executives of its transactions; an
executive runs a `HostContext` or a precompiled contract, whose reads and writes
go through its `SyncStorageWrapper` to the storage of the block, which reads
through to earlier blocks, the cached storage and the backend. Callbacks come
back from the backend on its own threads; the workers of a DAG share the
storage of the block.

## Modules

| Module | Models | Abstracts |
|---|---|---|
| `SerialOrder` | what the DAG promises: transactions with a common field take effect in block order | a field holds the last transaction that wrote it |
| `TxDAG` | `TxDAG::init`, `DAG::generate`, `waitPop`, `consume`, `executeUnit`, the worker loop | a transaction reads its fields when it starts and writes them when it ends |
| `Ledger` | what the pipeline promises: a chain of executed blocks over durable state, of which only the first can be committed, whole | a state is a function from keys to values |
| `BlockPipeline` | `nextBlockHeader` to `removeCommittedState`, the cache, the backend, a restart | a value is the execution that wrote it |
| `Executive` | `asyncExecute`, the coroutine of `TransactionExecutive`, `SyncStorageWrapper`, `revert` | a value is the executive that wrote it; all work on the rows of one contract |
| `WasmDag` | `dagExecuteTransactionsForWasm`, `decodeConflictFields`, the TBB flow graph (external) | a conflict field is a slot and a key; what the parameters decode to is given |
| `ClockCache` | one shard of the cache of ABIs and the handles its users hold | a value is allocated or deleted |
| `DagTransfer` | `DagTransferPrecompiled` and a block of its calls | the DAG is the order that shared tags impose (shown by `TxDAG`); the storage's table operations are atomic |
| `Consensus`, `SystemConfig`, `CNS`, `ParallelConfig` | one system contract each | strings are members of small sets with the case, length and commas the code looks at |
| `SystemContracts` | composes these four over the blocks of a chain | calls one at a time: none of them declares parallel tags |
| `ContractAuth` | `ContractAuthPrecompiled`, `creatAuthTable`, `checkAuth` | an auth table is a record |
| `BFS` | `FileSystemPrecompiled`, `KVTableFactoryPrecompiled`, the path helpers, `create` for Wasm | a path is the sequence of names between slashes, "" for a doubled or trailing one |
| `GasInjector` | `InjectMeter`, `InjectMeterExprList`, and a small Wasm machine (external) that runs the result | one instruction for the inserted code, one op for instructions of a kind |
| `MC*` | the instances TLC checks | |
| `*Proofs` | the theorems | |

### TxDAG

`criticals` is the list of critical fields of each transaction (`getTxCriticals`;
an empty list means it is sent back and its vertex is only consumed). The graph
is built turn by turn as in `TxDAG::init` and `DAG::generate`. Each worker then
goes through `check` (`hasFinished`), `pop` (`waitPop`), `exec`, `run`,
`consume` (one `fetch_sub` per step) and `count`, one atomic step of the code at a
time. `waitPop` may return with nothing whenever the queue is empty: that is its
timeout, and covers a lost notification. An execution may end with an
exception, which the code swallows. `fired` is history: the edges counted down.

### BlockPipeline

A storage is a number in order of creation; `prevOf` is what lies under it, and
`Read` what a read finds. The commit is split where the code gives up control:
the request, the backend's commit, the callback up to the merge, one step per
row merged, the erasure under the second lock. In between blocks may be begun
and executed, rows be evicted and read through again, and the process restart.
Three things are assumed of the scheduler, because the code does not check them:
it numbers blocks on from the last committed one, it commits what it
has prepared, and it neither commits, prepares, rolls back nor resets while a
commit is under way. The backend commits all staged rows or none.

### Executive

Executives are pairs of transaction and sequence number. One runs at a time
(`active`); it suspends in `ExternalCall` and in an `Access` to a row that the
scheduler said is locked. The scheduler is external and modelled from the
messages: it keeps the locks reported to it, hands every executive those of the
other transactions, grants a free lock, and answers REVERT to a member of a cycle of
waits. The end of an executive is `finished`, `reverted`, or `kept`: a REVERT
that undoes nothing, which the code returns for a precompiled contract that
turns out too expensive and for a created contract whose code is too large.
A Recoder is modelled by what a rollback uses of it: for each row, its value before the
first recorded change. Each executive has its own, and nothing is handed to the caller
when a callee ends, so that a caller's revert leaves the writes of a callee that ended well
(a hazard in `PROJECT.json`: the repository does not say which is meant).
An executive that ends reports no locks (`keyLocks.clear()`), so that isolation
is promised between unfinished executives, not between whole transactions. Rows
that precompiled contracts reach through a `Table` take no lock at all and are
not modelled here.

### WasmDag

`Lookup` and `Load` are the turns of the `parallel_for` that fills
`allConflictFields`: the first looks in `m_abiCache`, the second works under
`tableMutex`. The linking loop is `KeyField`, `WholeField`, `EndTask`,
`SkipTask`, one conflict field at a time: `dependencies` maps a field to the tasks that use
it and `slotUsage` a slot to the last task that names all of it. `edges` holds each call of
`make_edge`, with the place in the code and the key it was made for, so that two edges between the
same tasks are two. A node of the flow graph fires at the message that completes as many as it has
incoming edges. Hence the edge a task gets to itself when it names
a key of a slot and then the whole slot (`WholeField` walks the lists of all keys, its own
entry included) is a message it waits for and never gets: neither it nor what
comes behind it runs, `wait_for_all` returns all the same, and the callback reports
default results without an error. `UnansweredOnlyBehindOwnEdge` says that
these are the only ones: `Lost` is the least set that holds the tasks with an edge to
themselves and every later task that touches a cell of one in the set. The order that `WasmDag` implements is the same
`SerialOrder` as that of `TxDAG`. The declared fields are taken to be
what the call touches.

### ClockCache

Each step is one access to an item's atomic `flags` or to `m_table`; `insert` holds
`m_mutex` from `Insert` to `LinkNew`, lookups and releases take it only to recycle. The table's
key is the hash truncated to 32 bits (`Low`), so that two methods may share an entry:
the check of the full hash after the reference is taken is what keeps a handle
right (`HandleIsValid`). Memory is taken to be sequentially consistent.

### DagTransfer

A call opens (or creates) the table, computes from the rows of its users, and writes
them one at a time. Calls with tags run side by side unless they share one; calls
without (malformed, or not one of the five) are executed afterwards. `AsIfSerial` compares
every answer and the final rows with a serial execution in that order (`SerialRows`, which goes
over the block twice).

In the first block that uses the contract there is no table. A call that finds none creates it;
a call that finds none and then that another one has created it meanwhile is reverted
(`CreateTableThrows`): the storage (external, its calls atomic) reports an error, which
`SyncStorageWrapper::createTable` throws and `callPrecompiled` answers with REVERT, as it happens to a
contract deployed twice. The second `openTable` and `CODE_INVALID_OPENTABLE_FAILED` are thus
out of reach. `AsIfSerial` compares with the serial execution of the block without the reverted calls;
`RevertedBesideCreator` says which calls these may be. A serial execution of the whole block reverts
none, so that in this one block the outcome does depend on the interleaving (see the observations).

### System contracts, ContractAuth, BFS

Each contract method is an action with the checks in the code's order; the answer
is in `ret`. In `SystemContracts` a block ends at any time and `enableNumber` is a number
of blocks. `ContractAuth` has the block's storage and that of the block before
(`last`), which the checks read; `decided` is history, the last open or close of
an account since the method got its type. A change of type and a decision in the same block
meet in the list of the old type; `DecisionsHold` excludes exactly these. In `BFS` a table is opened
by the path as written and listed by the normalised one: `Aliased` names the paths where
these differ, `tampered` those whose row `type` was written through the KV interface.
A KV `set` of the row `sub` of a directory, or of its `type` to the value that marks a directory, is left out.
`BFS` is a chain without auth checking: with it, `create` makes one more table per contract (`creatAuthTable`),
which no directory lists and which is `ContractAuth`'s subject.

### GasInjector

`InjectMeter` rewrites a module: in front of every segment (a run of expressions up to
one where control may leave) goes one instruction that pays for it, calls and
globals are shifted. The machine then executes the result with every choice of conditions
and table indices. `executed` adds up the cost table over what was executed;
`memory.grow` is free, as the code says. The shift of function indices is counted over
imports of all kinds, so contracts here import functions only; with an imported
memory or global the calls would name other functions. An export is a kind and an index: every
exported function is shifted, an imported one too, and no exported global, although
all globals move by one. `SameContract` says exactly which exports name what they
named (`ExportLost`): the defined functions do, exported globals do not, and re-exported imports only
where the contract imported `outOfGas` itself. The contracts of the run export both defined functions, every import
and a global. Contracts with no memory
(`module.memories[0]`) and the start function are left out.

## Runs

| Run | Shows |
|---|---|
| `txdag` | 4 transactions, 2 fields, 2 workers: `ConflictOrder`, `OnePlace`, `FinishedMeansAll` (nobody leaves the loop before everything was executed), `ReadsAsSerial`, the refinement of `SerialOrder`, and `Termination` |
| `block_pipeline_cached` | 3 block executions, 2 rows, with the cache: `ChainLinked`, `CacheAgreesWithBackend`, the refinement of `Ledger`, `CommitFinishes` |
| `block_pipeline_backend` | the same without the cache: `ChainLinked` and the refinement |
| `auth_last_storage` | a violation: the state that authorisation is read from may be that of a dropped execution (see Findings) |
| `executive` | 2 transactions of up to 2 messages, 2 rows, 2 accesses per executive: `Isolation`, `RevertedLeavesNothing`, `RevertsOwnOnly`, `AllEnd` |
| `wasm_dag` | 3 transactions, 2 slots, 2 keys, racing workers: the refinement of `SerialOrder`, `UnansweredOnlyBehindOwnEdge`, `CallbackCalled` |
| `clock_cache` | 3 threads, capacity 2, two hashes with one table key: `HandleIsValid`, `ItemsAccounted` (nothing recycled twice or lost), the capacity (`TypeOK`), `InsertReturns` |
| `dag_transfer` | 3 calls, 2 users, balances from 0 to 3, any initial rows: `FundsConserved`, `AsIfSerial`, `RevertedBesideCreator`, no overflow (`TypeOK`) |
| `system_contracts` | any calls over 2 blocks: `SealerRemains`, `RefusedChangesNothing`, `SettledStays` |
| `contract_auth` | 2 contracts, 2 methods, 2 accounts and the committee, 2 blocks of 2 transactions: `DecisionsHold`, `StableInBlock` |
| `bfs` | trees of 3 levels, competing and badly spelled paths: `TreeConsistent`, `RefusedLeavesTree` |
| `gas_injector` | blocks, loops and conditions with every branch and call inside: `PaidExactly`, `SameContract`, `Stops` |

Each property has a mutant, a variant of an action with a plausible fault (the
operators marked BUG variant), under which TLC finds it violated.

Bounds. Four transactions over two fields give chains, joins, forks, a field
named twice and transactions sent back; two workers race for every counter.
Three executions of blocks give a commit with a later block in the list, a
block executed again after a reset or restart, and two rows a merge that is half
done. Two transactions with a call each and two rows give a deadlock, a wait
inside a callee and a row used again after a callee ended. Three Wasm transactions
give a task behind a task with an edge to itself, and two users of one slot before a
user of all of it. Three threads on two items are enough for an item to be found by one, evicted
and filled again by the second while the third holds the other one. Three calls on two accounts meet
every check of every operation, with an amount that overflows. Two blocks show a change
before and after it is enabled. The gas allows one to two rounds of a loop.

Fairness. `TxDAG`: each started worker goes on, and if no worker is active one
starts (TBB runs the bodies of a `parallel_for` in some worker, not
necessarily all at once). `BlockPipeline`: the backend answers and its callback
runs to the end. `Executive`: some step that is possible is taken; the scheduler
leaves no request unanswered. `WasmDag`: the calling thread and the
TBB tasks go on. `ClockCache`: each thread goes on once inside the shard (nothing is assumed
about who gets the mutex, and no one need ever drop a handle). `GasInjector`: the machine keeps
executing. The systems may stop when all is done, so deadlock
is not checked; that they stop only then is what the liveness properties say.

## Proofs

TLAPS proves the following for every value of the constants: any number of
transactions, workers, fields, slots, keys, declared ABIs, blocks, rows, threads, hashes, users,
accounts, nodes and names, and any capacity and width.

* `TxDAGProofs`: the type invariant, `ConflictOrder`, `OnePlace`, that the
  unsigned in-degree never wraps, that `TxDAG` implements `SerialOrder`, and with
  it `ReadsAsSerial`. The inductive invariant says that the in-degree of a vertex
  is the number of edges into it not yet fired, that edges lead from each
  earlier user of a field to the last one along a chain (so that order along
  edges implies order among all users), that an edge is fired only after its
  source has ended, and that a vertex is started only once its in-degree is
  zero. Conflicting transactions need not be adjacent in the graph, which is why
  `ConflictOrder` alone is not inductive. For `FinishedMeansAll` the invariant gives each
  started transaction to one place where it is counted (`Tally`): `m_exeCnt`, or the local
  counter of exactly one worker, who adds it only after the transaction has ended. The
  worker that reads `m_exeCnt` without the lock may see less than is done, never more.
  `ReadsAsSerial` follows from the refinement: in `SerialOrder` each applied transaction
  has read what the last earlier writer wrote (`Serially`).
* `WasmDagProofs`: the type invariant, that `WasmDag` implements `SerialOrder`, and
  `UnansweredOnlyBehindOwnEdge`. The linking loop makes edges from the last user of a key or a slot
  only; `Chains` says that from every earlier user a path leads to the last one, and so any two
  tasks that touch a common cell are ordered along edges (`Ordered`). Paths are
  spoken of through sets closed under predecessors: what leads to a task is in every such set
  that holds the task, and the tasks that have ended are such a set. `EdgesSound` and `OwnEdges` say which
  edges there are: from earlier to later, between tasks with a common cell, or from a task to itself where it names a
  key and then the whole slot. `Running`: a task has received one message for each edge from a
  task that has ended, and a task that started has no predecessor that has not; hence no two tasks
  that touch a common cell run at once. The tasks left when the graph is idle
  are those of `Lost`, by the least task that is not.
* `BlockPipelineProofs`: the type invariant, `ChainLinked`,
  `CacheAgreesWithBackend`, and that `BlockPipeline` implements
  `Ledger`. The inductive invariant
  adds that storages are numbered in the order of the list, that the
  block committed is the first of the list while its commit is under way, and so the one that is merged
  and erased (`MergesWhatWasCommitted`; it rests on the assumed scheduler guards of `Reset` and `CommitRequest`), that what is
  staged are that block's rows, and that the rows still to be merged are exactly those where the
  cache may differ from the backend.
  The refinement rests on one fact: below the uncommitted blocks a read finds
  the durable rows at every moment of a commit, in the cached storage before and after it, and
  in the storage of the committed block from the backend's commit to the erasure, where
  that block's own rows hide the rows of the cache that are not yet merged (`BelowIsDurable`). So the
  views depend on the backend, the list and the rows of its storages only (`Viewed`), and the
  steps of merging, evicting, reading through and relinking leave them alone. `Read` is recursive; that it ends
  follows from `Layers` (a storage lies on an earlier one).
* `ExecutiveProofs`: the type invariant, `Isolation`, `RevertedLeavesNothing` and
  `RevertsOwnOnly`. The inductive invariant has three parts. `Nesting`: the unfinished
  executives of a transaction are numbered in the order they were called, only the
  latest runs or waits for a lock, and its caller is the latest one before it. `Locks`:
  every row a suspended executive touched is locked by its transaction, and the running
  one knows all foreign locks and will report what it holds unlocked. `Records`: a row
  in an unfinished executive's Recoder holds a value of its transaction, a value of an
  unfinished executive is in its Recoder, and the old values recorded are of callers
  that have recorded the row too, or of executives that ended without being reverted.
  The last part is what makes a rollback safe: it may bring back the value of a caller,
  which can still undo it, but never that of a reverted executive.
* `ClockCacheProofs`: the type invariant with the capacity, `HandleIsValid`,
  `ItemsAccounted`. `HandleIsValid` is about a moment; the inductive invariant says where
  every item is at all times. `Counted`: the reference count of an item is the number of
  threads that hold or examine it. `Bin`, `Alive`: what is in the recycle bin has no
  reference and no value, everything else with a reference or the in-cache bit has one.
  `OnItsWay`: whoever takes the last reference or the in-cache bit is the only thread that
  brings the item to the bin, so that none is recycled twice. `Linked`, `UsageCount`: the
  table and `m_usage` agree with the in-cache bits up to the one item in transit, filled and not yet
  linked or evicted and not yet out of the table.
* `DagTransferProofs`: the type invariant (no balance leaves the u256),
  `FundsConserved`, `AsIfSerial`, `RevertedBesideCreator`. Two calls in progress share no tag (`Order`), so that what a call
  read is still there when it writes (`Pending`), and the sum of balances is right at
  every step if the money of a half-written transfer is counted as under way
  (`Balanced`; `FundsConserved` speaks only of the moments between). For `AsIfSerial` the
  invariant speaks of single rows: a row holds what the serial execution leaves in
  it after any turn that separates the calls on it that have ended from those
  that have not started (`Cut`), a call that is about to read finds the rows of its serial turn
  (`Finds`), and its remaining writes lead to the rows after it (`Leaves`). A revert takes
  a turn out of the serial execution; that this changes no row a started call has seen
  (`RowsKept`) holds because every earlier call on such a row has ended and is thus not the reverted
  one. `Creation` says that whoever is about to create the table, or was reverted, started
  beside its creator. Sums over users and
  the serial execution are recursive functions; what is proved of them is proved through a
  smallest counterexample.
* `ContractAuthProofs`: `DecisionsHold`, `StableInBlock`. The inductive invariant says in which list a
  decision was written: the one of the type that is in force (`MethodDecided`,
  `DeployDecided`), and that there are decisions on deploying only while the type is the one of
  the block before (`TypeSettled`).
* `SystemContractsProofs`: `SealerRemains`, `RefusedChangesNothing`, `SettledStays`. The inductive
  invariant says that stored node IDs are in lower case and distinct and that a sealer has
  a weight and is enabled by the next block (`Listed`): the code looks for the first
  match of an ID and for a sealer by its type alone. `SettledStays` needs that a stored
  `enableNumber` is at most that of the next block.
  The same module proves `TreeConsistent` and `RefusedLeavesTree` of the file system (`BFS`). The
  inductive invariant `Tree` says that every table is listed under its normal path, by a
  directory that lists a name once, and that what is listed has a table of the type listed unless it was
  created under another spelling or tampered with. While a path is built it holds but for the one file
  that is not yet listed. A directory that is missing has nothing below it, so that once
  `recursiveBuildDir` has made a directory it cannot fail any more (`Clean`). What the recursive functions
  over a path compute is proved through a shortest counterexample.

They rest on the named assumptions of the modules only: bounds and the amount modulus are
natural numbers; constants that stand for nothing are not members; threads and users are finite
sets; there is a hash and a row to speak of; auth types and weights are numbers (`uint8`, and a
parsed decimal); `/apps` is no contract; to lower case twice is to lower case once; calls of
`DagTransfer` have the parameters of their ABI; slots and keys of `WasmDag` are finite sets, there
is a key, a called method has an ABI that is a list of fields or invalid, decoded fields name members of
these sets, and no key looks like a field that names a whole slot; paths of `BFS` are sequences of
strings, no contract is deployed at `<<"">>` (which is the root) and no KV key is `sub`; and the genesis block, if it has a node list,
lists each node once in lower case, gives its sealers a weight, enables its nodes at once and has
at least one sealer (it is written outside this repository). TLC evaluates them in the runs.

Only model-checked: liveness; and `GasInjector`, which is recursive over expressions and out of
the prover's reach.

## Findings

`auth_last_storage`: `removeCommittedState` keeps the storage of the last block
of the list as `m_lastStateStorage`; `reset` clears the list and not
this pointer. A block executed again after a reset is then given the
storage of its own discarded execution as "last block state" to read
authorisation from (`src/executor/TransactionExecutor.cpp:159`, `:1539`).

Other observations, without a run of their own:

* `openTable` of `DagTransferPrecompiled` says that if the "table already exists"
  it will "try to openTable and get the table again" (`DagTransferPrecompiled.cpp:148`, `:154`), but
  `createTable` throws in that case (`SyncStorageWrapper.h:138`). Of the parallel calls that find
  no table in the first block that uses the contract, all but one may be reverted, and which ones depends
  on the interleaving; tags name accounts and not the table. `RevertedBesideCreator` bounds which calls these are.
* The wasm graph leaves transactions unexecuted behind a task with an edge to itself
  (`UnansweredOnlyBehindOwnEdge` states exactly which); no line of the repository says what
  such a declaration should mean.
* `GasInjector.cpp:55` says "check if gas < 0"; the code compares with `i64.le_s` 0,
  so a run that has used exactly its gas is out of gas too.
* `GasInjector.cpp:471` shifts the export of an imported function, and no line shifts that of a global:
  a re-exported import and an exported global (`__heap_base`, for one) name
  something else after the injection. No line of the repository speaks of such exports.
* `ContractAuthPrecompiled.cpp:539` dereferences a table of the last block that
  a contract deployed in this block does not have.
* `m_abiCache` is keyed by contract and method, and not cleared by `reset`.

## Plan

1. `CallTable`: `call`, its contexts, and its reads beside a merge.
2. The dispatch of `dagExecuteTransactionsForEvm` (what is sent back, and with which hash),
   and executives that suspend inside the DAG.
3. The MRU queue and the capacity of `LRUStorage`.

## Not modelled

What the EVM and Wasm machines compute and the adapters to them (`EVMHostInterface`,
`VMFactory`, `VMInstance`), which keep no state; the cryptographic precompiled contracts,
pure functions of byte strings; ABI, SCALE and JSON coding; gas tables; logging;
`HelloWorldPrecompiled`, an example; `TableFactoryPrecompiled`, which is not registered;
`inject_meter`, a command line front end.
