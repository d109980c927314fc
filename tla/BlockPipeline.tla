--------------------------- MODULE BlockPipeline ---------------------------
(***************************************************************************)
(* The block pipeline of TransactionExecutor: the list m_stateStorages of  *)
(* uncommitted blocks, each a StateStorage layered over the one before,    *)
(* the two-phase commit of its first block, and the cached storage in      *)
(* front of the backend.                                                   *)
(*                                                                         *)
(* A state storage is named by a number (its creation order); the value it *)
(* writes under a key is that number, so a value tells which execution     *)
(* wrote it.  Base (0) is what the first storage of the list lies on: the  *)
(* cached storage over the backend, or the backend alone.                  *)
(*                                                                         *)
(* The scheduler, outside this repository, keeps to what its calls need:   *)
(* block numbers follow each other, a block is not written once it has     *)
(* been handed to prepare, one commit is in flight at a time, and reset    *)
(* is not called while it is.  Blocks may be begun and executed at any     *)
(* time, in particular between a commit reaching the backend and the       *)
(* executor having merged and erased the block.                            *)
(***************************************************************************)
EXTENDS Naturals, Sequences, SequencesExt

CONSTANTS Keys,
          MaxBlock,    \* bound on block numbers
          MaxStorage,  \* bound on storages created (executions of blocks, over restarts)
          HasCache     \* m_cachedStorage is set

ASSUME BoundsAssumption ==
  MaxBlock \in Nat \ {0} /\ MaxStorage \in Nat \ {0} /\ HasCache \in BOOLEAN

Base    == 0
None    == 0
Sids    == 1 .. MaxStorage
Absent  == MaxStorage + 1       \* no row (of the cache, or staged) under a key
Values  == 0 .. MaxStorage

VARIABLES
  m_stateStorages,   \* list of [number, sid]
  writes,            \* storage |-> keys it has written
  prevOf,            \* storage |-> the storage under it (setPrev)
  readOnly,          \* storages with setReadOnly(true)
  created,           \* number of storages created so far
  m_blockContext,    \* [number, sid, last]: sid is its storage (None: no context)
  m_lastStateStorage,
  m_lastCommittedBlockNumber,
  cache,             \* m_cachedStorage: key |-> value or Absent
  backend,           \* m_backendStorage: key |-> value
  backendNumber,     \* number of the last block committed there
  staged,            \* prepared in the backend: [number, rows]; sid, whose rows, is history
  prepared,          \* storages handed to prepare, which the scheduler writes no more
  commit             \* the commit in flight: [stage, number, sid, left]

storageVars == <<writes, prevOf, readOnly, created>>
memoryVars  == <<m_stateStorages, m_blockContext, m_lastStateStorage,
                 m_lastCommittedBlockNumber>>
vars == <<storageVars, memoryVars, cache, backend, backendNumber, staged, prepared, commit>>

NoContext == [number |-> 0, sid |-> None, last |-> None]
NoRows    == [k \in Keys |-> Absent]
NoStaged  == [number |-> 0, sid |-> None, rows |-> NoRows]
NoCommit  == [stage |-> "none", number |-> 0, sid |-> None, left |-> {}]

Init ==
  /\ m_stateStorages = <<>> /\ m_blockContext = NoContext
  /\ m_lastStateStorage = None /\ m_lastCommittedBlockNumber = 1
  /\ writes = [s \in Sids |-> {}] /\ prevOf = [s \in Sids |-> Base]
  /\ readOnly = {} /\ created = 0
  /\ cache = NoRows /\ backend = [k \in Keys |-> 0] /\ backendNumber = 0
  /\ staged = NoStaged /\ prepared = {} /\ commit = NoCommit

\* A row of the cached storage, which reads through to the backend.
BaseRead(k) == IF HasCache /\ cache[k] # Absent THEN cache[k] ELSE backend[k]

\* storage |-> what a read of each key returns: its own row or the one below.
Read[s \in 0 .. MaxStorage] ==
  [k \in Keys |-> IF s = Base THEN BaseRead(k)
                  ELSE IF k \in writes[s] THEN s
                  ELSE Read[prevOf[s]][k]]

-----------------------------------------------------------------------------
(* Requests of the scheduler.                                               *)

\* BUG variant: the new storage lies on the base although blocks are uncommitted.
NextBlockHeaderOnBase(n) ==
  LET s == created + 1
      empty == m_stateStorages = <<>>
  IN
  /\ created < MaxStorage
  /\ n = IF empty THEN backendNumber + 1 ELSE Last(m_stateStorages).number + 1
  /\ created' = s
  /\ m_stateStorages' = Append(m_stateStorages, [number |-> n, sid |-> s])
  /\ m_blockContext' =
       [number |-> n, sid |-> s,
        last |-> IF empty THEN m_lastStateStorage ELSE Last(m_stateStorages).sid]
  /\ readOnly' = IF empty THEN readOnly ELSE readOnly \cup {Last(m_stateStorages).sid}
  /\ UNCHANGED <<prevOf, writes, m_lastStateStorage, m_lastCommittedBlockNumber, cache,
                 backend, backendNumber, staged, prepared, commit>>

\* nextBlockHeader: any number is accepted on an empty list (the scheduler sends the one
\* after the last committed), otherwise the one after the last block.
NextBlockHeader(n) ==
  LET s == created + 1
      empty == m_stateStorages = <<>>
  IN
  /\ created < MaxStorage
  /\ n = IF empty THEN backendNumber + 1 ELSE Last(m_stateStorages).number + 1
  /\ created' = s
  /\ prevOf' = [prevOf EXCEPT ![s] = IF empty THEN Base ELSE Last(m_stateStorages).sid]
  /\ m_stateStorages' = Append(m_stateStorages, [number |-> n, sid |-> s])
  /\ m_blockContext' =
       [number |-> n, sid |-> s,
        last |-> IF empty THEN m_lastStateStorage ELSE Last(m_stateStorages).sid]
  /\ readOnly' = IF empty THEN readOnly ELSE readOnly \cup {Last(m_stateStorages).sid}
  /\ UNCHANGED <<writes, m_lastStateStorage, m_lastCommittedBlockNumber, cache, backend,
                 backendNumber, staged, prepared, commit>>

\* executeTransaction and dagExecuteTransactions write in the storage of m_blockContext,
\* which reset leaves in place.
Execute(k) ==
  LET s == m_blockContext.sid IN
  /\ s # None /\ s \notin readOnly /\ s \notin prepared
  /\ k \notin writes[s]
  /\ writes' = [writes EXCEPT ![s] = @ \cup {k}]
  /\ UNCHANGED <<prevOf, readOnly, created, memoryVars, cache, backend, backendNumber,
                 staged, prepared, commit>>

\* BUG variant: the last block of the list is handed to the backend.
PrepareLast(n, ok) ==
  LET s == Last(m_stateStorages).sid IN
  /\ m_stateStorages # <<>> /\ Head(m_stateStorages).number = n
  /\ commit.stage = "none"
  /\ prepared' = prepared \cup {s}
  /\ staged' = IF ok THEN [number |-> n, sid |-> Head(m_stateStorages).sid,
                           rows |-> [k \in Keys |-> IF k \in writes[s] THEN s ELSE Absent]]
                     ELSE staged
  /\ UNCHANGED <<storageVars, memoryVars, cache, backend, backendNumber, commit>>

\* prepare: the backend stages the rows of the first block, or reports an error.
Prepare(n, ok) ==
  LET s == Head(m_stateStorages).sid IN
  /\ m_stateStorages # <<>> /\ Head(m_stateStorages).number = n
  /\ commit.stage = "none"
  /\ prepared' = prepared \cup {s}
  /\ staged' = IF ok THEN [number |-> n, sid |-> Head(m_stateStorages).sid,
                           rows |-> [k \in Keys |-> IF k \in writes[s] THEN s ELSE Absent]]
                     ELSE staged
  /\ UNCHANGED <<storageVars, memoryVars, cache, backend, backendNumber, commit>>

\* rollback: the backend forgets what it staged; the block stays in the list.
Rollback(n) ==
  /\ m_stateStorages # <<>> /\ Head(m_stateStorages).number = n
  /\ commit.stage = "none" /\ staged.number = n
  /\ staged' = NoStaged
  /\ UNCHANGED <<storageVars, memoryVars, cache, backend, backendNumber, prepared, commit>>

\* reset: "drop all status" drops the list only.  The code checks nothing; that it is not
\* sent while a commit is under way is assumed of the scheduler.
Reset ==
  /\ commit.stage = "none"
  /\ m_stateStorages # <<>>
  /\ m_stateStorages' = <<>>
  /\ UNCHANGED <<storageVars, m_blockContext, m_lastStateStorage,
                 m_lastCommittedBlockNumber, cache, backend, backendNumber, staged,
                 prepared, commit>>

-----------------------------------------------------------------------------
(* The commit of the first block.                                           *)

\* commit.  The backend finds what it staged by the block number alone: that it stems from
\* this execution of the block is the scheduler's care, who commits what prepare took.
CommitRequest(n) ==
  /\ m_stateStorages # <<>> /\ Head(m_stateStorages).number = n
  /\ commit.stage = "none"
  /\ staged.number = n /\ staged.sid = Head(m_stateStorages).sid
  /\ commit' = [NoCommit EXCEPT !.stage = "sent", !.number = n]
  /\ UNCHANGED <<storageVars, memoryVars, cache, backend, backendNumber, staged, prepared>>

\* asyncCommit in the backend: all staged rows at once, or an error.
BackendCommit(ok) ==
  /\ commit.stage = "sent"
  /\ IF ok
     THEN /\ backend' = [k \in Keys |-> IF staged.rows[k] # Absent THEN staged.rows[k]
                                        ELSE backend[k]]
          /\ backendNumber' = staged.number
          /\ staged' = NoStaged
          /\ commit' = [commit EXCEPT !.stage = "acked"]
     ELSE /\ commit' = NoCommit
          /\ UNCHANGED <<backend, backendNumber, staged>>
  /\ UNCHANGED <<storageVars, memoryVars, cache, prepared>>

\* BUG variant: the number recorded is that of the block to come.
CommitCallbackNextNumber ==
  /\ commit.stage = "acked"
  /\ m_lastCommittedBlockNumber' = commit.number + 1
  /\ commit' = [commit EXCEPT !.stage = IF HasCache THEN "merge" ELSE "erase",
                              !.sid = Head(m_stateStorages).sid,
                              !.left = writes[Head(m_stateStorages).sid]]
  /\ UNCHANGED <<storageVars, m_stateStorages, m_blockContext, m_lastStateStorage, cache,
                 backend, backendNumber, staged, prepared>>

\* The callback of asyncCommit, up to the merge: removeCommittedState looks up the first
\* block under the lock and goes on without it.
CommitCallback ==
  /\ commit.stage = "acked"
  /\ m_lastCommittedBlockNumber' = commit.number
  /\ IF m_stateStorages = <<>>
     THEN commit' = NoCommit
     ELSE LET s == Head(m_stateStorages).sid IN
          commit' = [commit EXCEPT !.stage = IF HasCache THEN "merge" ELSE "erase",
                                   !.sid = s, !.left = writes[s]]
  /\ UNCHANGED <<storageVars, m_stateStorages, m_blockContext, m_lastStateStorage, cache,
                 backend, backendNumber, staged, prepared>>

\* m_cachedStorage->merge, row by row, in no particular order (parallelTraverse).
Merge(k) ==
  /\ commit.stage = "merge" /\ k \in commit.left
  /\ cache' = [cache EXCEPT ![k] = commit.sid]
  /\ commit' = [commit EXCEPT !.left = @ \ {k}]
  /\ UNCHANGED <<storageVars, memoryVars, backend, backendNumber, staged, prepared>>

\* BUG variant: the merge is taken to be complete while rows are still to be copied.
MergeEndEarly ==
  /\ commit.stage = "merge"
  /\ commit' = [commit EXCEPT !.stage = "erase"]
  /\ UNCHANGED <<storageVars, memoryVars, cache, backend, backendNumber, staged, prepared>>

MergeEnd ==
  /\ commit.stage = "merge" /\ commit.left = {}
  /\ commit' = [commit EXCEPT !.stage = "erase"]
  /\ UNCHANGED <<storageVars, memoryVars, cache, backend, backendNumber, staged, prepared>>

\* BUG variant: the new first block keeps lying on the erased one.
EraseKeepPrev ==
  /\ commit.stage = "erase"
  /\ m_lastStateStorage' = Last(m_stateStorages).sid
  /\ m_stateStorages' = Tail(m_stateStorages)
  /\ commit' = NoCommit
  /\ UNCHANGED <<storageVars, m_blockContext, m_lastCommittedBlockNumber, cache, backend,
                 backendNumber, staged, prepared>>

\* BUG variant: the block is erased only once no later block lies on it.
EraseWhenAlone ==
  /\ commit.stage = "erase" /\ Len(m_stateStorages) = 1
  /\ m_lastStateStorage' = Last(m_stateStorages).sid
  /\ m_stateStorages' = Tail(m_stateStorages)
  /\ commit' = NoCommit
  /\ UNCHANGED <<storageVars, m_blockContext, m_lastCommittedBlockNumber, cache, backend,
                 backendNumber, staged, prepared>>

\* The end of removeCommittedState, under the lock: the first block is erased and the
\* next one laid on the base.
Erase ==
  /\ commit.stage = "erase"
  /\ m_lastStateStorage' = Last(m_stateStorages).sid
  /\ m_stateStorages' = Tail(m_stateStorages)
  /\ prevOf' = IF Len(m_stateStorages) > 1
               THEN [prevOf EXCEPT ![m_stateStorages[2].sid] = Base] ELSE prevOf
  /\ commit' = NoCommit
  /\ UNCHANGED <<writes, readOnly, created, m_blockContext, m_lastCommittedBlockNumber,
                 cache, backend, backendNumber, staged, prepared>>

-----------------------------------------------------------------------------
(* The environment.                                                         *)

\* A read through the cached storage leaves the row there (StateStorage, external).
CacheFill(k) ==
  /\ HasCache /\ cache[k] = Absent
  /\ cache' = [cache EXCEPT ![k] = backend[k]]
  /\ UNCHANGED <<storageVars, memoryVars, backend, backendNumber, staged, prepared, commit>>

\* The cleaner thread of LRUStorage purges a row.
CacheEvict(k) ==
  /\ HasCache /\ cache[k] # Absent
  /\ cache' = [cache EXCEPT ![k] = Absent]
  /\ UNCHANGED <<storageVars, memoryVars, backend, backendNumber, staged, prepared, commit>>

\* The process dies and a new executor starts on the same backend.
Restart ==
  /\ m_stateStorages' = <<>> /\ m_blockContext' = NoContext
  /\ m_lastStateStorage' = None /\ m_lastCommittedBlockNumber' = 1
  /\ cache' = NoRows /\ commit' = NoCommit
  /\ prepared' = {}
  /\ UNCHANGED <<storageVars, backend, backendNumber, staged>>

Next ==
  \/ \E n \in 1 .. MaxBlock :
       \/ NextBlockHeader(n)
       \/ \E ok \in BOOLEAN : Prepare(n, ok)
       \/ Rollback(n) \/ CommitRequest(n)
  \/ \E k \in Keys : Execute(k) \/ Merge(k) \/ CacheFill(k) \/ CacheEvict(k)
  \/ \E ok \in BOOLEAN : BackendCommit(ok)
  \/ CommitCallback \/ MergeEnd \/ Erase \/ Reset \/ Restart

Spec == Init /\ [][Next]_vars

\* A commit in flight is answered by the backend and then finished by its callback.
Fairness == WF_vars(\/ \E ok \in BOOLEAN : BackendCommit(ok)
                    \/ CommitCallback \/ MergeEnd \/ Erase
                    \/ \E k \in Keys : Merge(k))

FairSpec == Spec /\ Fairness

-----------------------------------------------------------------------------
(* Properties.                                                              *)

Blocks == [number : 1 .. MaxBlock, sid : Sids]

TypeOK ==
  /\ m_stateStorages \in Seq(Blocks)
  /\ writes \in [Sids -> SUBSET Keys] /\ prevOf \in [Sids -> Sids \cup {Base}]
  /\ readOnly \subseteq Sids /\ created \in 0 .. MaxStorage
  /\ m_blockContext \in [number : 0 .. MaxBlock, sid : Sids \cup {None},
                         last : Sids \cup {None}]
  /\ m_lastStateStorage \in Sids \cup {None}
  /\ m_lastCommittedBlockNumber \in 1 .. MaxBlock
  /\ cache \in [Keys -> Values \cup {Absent}] /\ backend \in [Keys -> Values]
  /\ backendNumber \in 0 .. MaxBlock
  /\ staged \in [number : 0 .. MaxBlock, sid : Sids \cup {None},
                 rows : [Keys -> Values \cup {Absent}]]
  /\ prepared \subseteq Sids
  /\ commit \in [stage : {"none", "sent", "acked", "merge", "erase"},
                 number : 0 .. MaxBlock, sid : Sids \cup {None}, left : SUBSET Keys]

(* The list is one chain: consecutive numbers, each storage laid on the    *)
(* one before and the first on the base, and only the last one writable,   *)
(* whatever commits, resets and new blocks come between (nextBlockHeader,  *)
(* removeCommittedState).                                                  *)
ChainLinked ==
  \A i \in 1 .. Len(m_stateStorages) :
    LET b == m_stateStorages[i] IN
    /\ prevOf[b.sid] = IF i = 1 THEN Base ELSE m_stateStorages[i - 1].sid
    /\ i > 1 => b.number = m_stateStorages[i - 1].number + 1
    /\ i < Len(m_stateStorages) => b.sid \in readOnly
    /\ \A j \in 1 .. i - 1 : m_stateStorages[j].sid < b.sid

(* Outside a commit the cached storage shows the committed state: getCode  *)
(* and call read what the backend holds, after failed commits, evictions,  *)
(* read-throughs and restarts too.                                         *)
CacheAgreesWithBackend ==
  commit.stage = "none" => \A k \in Keys : BaseRead(k) = backend[k]

(* A context's last storage, from which contract authorisation is read,    *)
(* holds the state of the parent block ("set last commit state storage to  *)
(* blockContext, to auth read last block state", nextBlockHeader).         *)
AuthReadsParentState ==
  LET s == m_blockContext.sid IN
  (\E i \in 1 .. Len(m_stateStorages) : m_stateStorages[i].sid = s) /\ s \notin prepared
    => \/ m_blockContext.last = None
       \/ Read[m_blockContext.last] = Read[prevOf[s]]

\* The blocks the backend has not committed.
Uncommitted ==
  IF commit.stage \in {"acked", "merge", "erase"} THEN Tail(m_stateStorages)
                                                  ELSE m_stateStorages

L == INSTANCE Ledger WITH
  durable <- backend,
  number  <- backendNumber,
  chain   <- [i \in 1 .. Len(Uncommitted) |->
                [number |-> Uncommitted[i].number, view |-> Read[Uncommitted[i].sid]]]

(* The pipeline implements Ledger: every block is executed on the state    *)
(* its parent left, a commit makes exactly the first block's state         *)
(* durable, and no step of committing it (backend, merge row by row,       *)
(* erase, relinking), no eviction and no read-through changes what a later *)
(* block reads.                                                            *)
ImplementsLedger == L!Spec

(* A commit that reached the backend is finished: the block is erased from *)
(* the list, or the executor restarts or the backend refuses.              *)
CommitFinishes == (commit.stage # "none") ~> (commit.stage = "none")
=============================================================================
