----------------------------- MODULE Executive -----------------------------
(***************************************************************************)
(* Transactions of one block interleaved at their calls: TransactionExecu- *)
(* tive (a coroutine that suspends to call another contract or to wait for *)
(* a key lock), SyncStorageWrapper (which rows it has touched, and whose   *)
(* rows it must wait for), and asyncExecute, which starts and resumes      *)
(* executives by context and sequence number.                              *)
(*                                                                         *)
(* An executive is <<c, s>>: transaction c, s-th message of it.  A value   *)
(* in the storage is the executive that wrote it.  All executives work on  *)
(* the rows of one contract, so that every pair of them may conflict.      *)
(*                                                                         *)
(* The scheduler, outside this repository, is modelled from the messages   *)
(* it is sent: it remembers for each context the key locks its executives  *)
(* report when they suspend, tells every executive it starts or resumes    *)
(* the locks of the other contexts, grants a lock when it is free, answers *)
(* REVERT when a wait is part of a deadlock, and forgets a context's locks *)
(* when it ends.  It hands one message of a contract to the executor at a  *)
(* time, so one executive runs at a time.                                  *)
(***************************************************************************)
EXTENDS Naturals

CONSTANTS Contexts,
          Keys,
          MaxSeq,    \* bound on the messages of a context
          MaxOps     \* bound on the storage accesses of an executive

ASSUME BoundsAssumption == MaxSeq \in Nat /\ MaxOps \in Nat

NoContext == "no context"
Nobody    == <<NoContext, 0>>
NoRecord  == <<NoContext, 1>>
ASSUME ContextsAssumption == NoContext \notin Contexts
ASSUME KeysAssumption == Keys # {}

Executives == Contexts \X (0 .. MaxSeq)

Outcomes   == {"finished", "reverted", "kept"}

NoRecords == [k \in Keys |-> NoRecord]

\* The wait of an executive that does not wait.
NoWant == [key |-> CHOOSE k \in Keys : TRUE, write |-> FALSE]

VARIABLES
  storage,         \* key |-> the executive whose write it holds
  recoder,         \* the executive whose Recoder the storage writes to (setRecoder)
  log,             \* executive |-> m_recoder: row |-> its value before the first recorded
                   \* change, to which rollback returns it, or NoRecord
  m_myKeyLocks,    \* executive |-> rows it touched since it last suspended
  m_existsKeyLocks,\* executive |-> rows locked by other contexts, as it was told
  pc,              \* executive |-> "none", "run", "call", "lock" or an outcome
  want,            \* executive |-> the access that waits for a lock: [key, write]
  ops,             \* executive |-> storage accesses so far
  parent,          \* executive |-> the one that called it
  active,          \* the executive that runs
  top,             \* scheduler: context |-> its current executive
  seqs,            \* scheduler: context |-> the last sequence number given out
  keyLocks,        \* scheduler: key |-> the context that holds its lock
  touched          \* history: executive |-> every row it has read or written until it ended

wrapperVars   == <<m_myKeyLocks, m_existsKeyLocks>>
schedulerVars == <<top, seqs, parent>>
vars == <<storage, recoder, log, wrapperVars, pc, want, ops, active, schedulerVars,
          keyLocks, touched>>

Init ==
  /\ storage = [k \in Keys |-> Nobody] /\ recoder = Nobody
  /\ log = [e \in Executives |-> NoRecords]
  /\ m_myKeyLocks = [e \in Executives |-> {}]
  /\ m_existsKeyLocks = [e \in Executives |-> {}]
  /\ pc = [e \in Executives |-> "none"]
  /\ want = [e \in Executives |-> NoWant]
  /\ ops = [e \in Executives |-> 0]
  /\ parent = [e \in Executives |-> Nobody]
  /\ active = Nobody
  /\ top = [c \in Contexts |-> Nobody] /\ seqs = [c \in Contexts |-> 0]
  /\ keyLocks = [k \in Keys |-> NoContext]
  /\ touched = [e \in Executives |-> {}]

Context(e) == e[1]

\* What the scheduler tells context c when it starts or resumes one of its executives.
OthersLocks(c) == {k \in Keys : keyLocks[k] \notin {NoContext, c}}

\* importExistsKeyLocks: e learns which rows it has to wait for.
ImportExistsKeyLocks(e) ==
  m_existsKeyLocks' = [m_existsKeyLocks EXCEPT ![e] = OthersLocks(Context(e))]

\* exportKeyLocks: what e touched since its last export is now locked by its context.
ExportKeyLocks(e) ==
  /\ keyLocks' = [k \in Keys |-> IF k \in m_myKeyLocks[e] THEN Context(e) ELSE keyLocks[k]]
  /\ m_myKeyLocks' = [m_myKeyLocks EXCEPT ![e] = {}]

\* asyncGetRow or asyncSetRow, once acquireKeyLock let it through: a write is recorded
\* with the old value by the Recoder r that is set in the storage.
AccessStorage(e, r, k, write) ==
  /\ touched' = [touched EXCEPT ![e] = @ \cup {k}]
  /\ IF write
     THEN /\ storage' = [storage EXCEPT ![k] = e]
          /\ log' = [log EXCEPT ![r][k] = IF @ = NoRecord THEN storage[k] ELSE @]
     ELSE UNCHANGED <<storage, log>>

\* StateStorage::rollback undoes the recorded changes, the latest first.
Rollback(e) == [k \in Keys |-> IF log[e][k] = NoRecord THEN storage[k] ELSE log[e][k]]

-----------------------------------------------------------------------------
(* Messages of the scheduler: asyncExecute.                                 *)

\* asyncExecute hands the message to the executive of its context and sequence number and
\* runs its coroutine, which sets its own Recoder in the storage.
SwitchTo(e) ==
  /\ pc' = [pc EXCEPT ![e] = "run"]
  /\ active' = e /\ recoder' = e

\* TXHASH, or MESSAGE without an executive: a new one is inserted and started.  start
\* imports the key locks; execute sets the Recoder.
Start(e) ==
  LET c == Context(e) IN
  /\ active = Nobody /\ pc[e] = "none"
  /\ \/ e[2] = 0 /\ top[c] = Nobody
     \/ top[c] = e
  /\ SwitchTo(e)
  /\ top' = [top EXCEPT ![c] = e]
  /\ ImportExistsKeyLocks(e)
  /\ UNCHANGED <<storage, log, m_myKeyLocks, want, ops, seqs, parent, keyLocks, touched>>

\* BUG variant: the Recoder of the executive that ran last stays set.
ResumeNoRecoder(e) ==
  LET c == Context(e) IN
  /\ active = Nobody /\ pc[e] = "call" /\ top[c] = e
  /\ pc' = [pc EXCEPT ![e] = "run"]
  /\ active' = e
  /\ ImportExistsKeyLocks(e)
  /\ UNCHANGED <<storage, recoder, log, m_myKeyLocks, want, ops, schedulerVars, keyLocks,
                 touched>>

\* BUG variant: the key locks that come with the answer are not imported.
ResumeNoImport(e) ==
  LET c == Context(e) IN
  /\ active = Nobody /\ pc[e] = "call" /\ top[c] = e
  /\ SwitchTo(e)
  /\ UNCHANGED <<storage, log, wrapperVars, want, ops, schedulerVars, keyLocks, touched>>

\* FINISHED or REVERT for a caller: its callee has ended, externalCall returns.
Resume(e) ==
  LET c == Context(e) IN
  /\ active = Nobody /\ pc[e] = "call" /\ top[c] = e
  /\ SwitchTo(e)
  /\ ImportExistsKeyLocks(e)
  /\ UNCHANGED <<storage, log, m_myKeyLocks, want, ops, schedulerVars, keyLocks, touched>>

\* KEY_LOCK for a waiting executive: the lock is granted, externalAcquireKeyLocks returns
\* and the access goes on.
Grant(e) ==
  LET c == Context(e)  k == want[e].key IN
  /\ active = Nobody /\ pc[e] = "lock" /\ keyLocks[k] \in {NoContext, c}
  /\ keyLocks' = [keyLocks EXCEPT ![k] = c]
  /\ SwitchTo(e)
  /\ ImportExistsKeyLocks(e)
  /\ m_myKeyLocks' = [m_myKeyLocks EXCEPT ![e] = @ \cup {k}]
  /\ AccessStorage(e, e, k, want[e].write)
  /\ want' = [want EXCEPT ![e] = NoWant]
  /\ UNCHANGED <<ops, schedulerVars>>

\* The context that context c waits for.
WaitsFor(c) == keyLocks[want[top[c]].key]

Waiting(c) == top[c] # Nobody /\ pc[top[c]] = "lock" /\ WaitsFor(c) \notin {NoContext, c}

\* c is in a set of contexts that all wait for one another.
Deadlocked(c) ==
  \E S \in SUBSET Contexts : c \in S /\ \A d \in S : Waiting(d) /\ WaitsFor(d) \in S

-----------------------------------------------------------------------------
(* What the executive that runs does next.                                  *)

\* The executive ends: its caller is next, or the context is over and the scheduler
\* forgets its locks.  The rows it touched since it last suspended are not reported
\* (m_exchangeMessage->keyLocks.clear()).  "kept" is a REVERT without revert().  The fields
\* of an executive that has ended are never read again, and cleared here.
End(e, outcome) ==
  LET c == Context(e) IN
  /\ pc' = [pc EXCEPT ![e] = outcome]
  /\ storage' = IF outcome = "reverted" THEN Rollback(e) ELSE storage
  /\ log' = [log EXCEPT ![e] = NoRecords]
  /\ top' = [top EXCEPT ![c] = parent[e]]
  /\ active' = Nobody
  /\ keyLocks' = IF parent[e] = Nobody
                 THEN [k \in Keys |-> IF keyLocks[k] = c THEN NoContext ELSE keyLocks[k]]
                 ELSE keyLocks
  /\ m_myKeyLocks' = [m_myKeyLocks EXCEPT ![e] = {}]
  /\ m_existsKeyLocks' = [m_existsKeyLocks EXCEPT ![e] = {}]
  /\ want' = [want EXCEPT ![e] = NoWant]
  /\ ops' = [ops EXCEPT ![e] = 0]
  /\ touched' = [touched EXCEPT ![e] = {}]
  /\ UNCHANGED <<seqs, parent>>

\* How execute may end.  A status of the VM other than EVMC_SUCCESS reverts.
EVMCOutcomes == {"finished", "reverted"}

\* A precompiled contract that throws is reverted; if it ends but used more gas than there
\* is, callPrecompiled returns REVERT and reverts nothing.
CallPrecompiledOutcomes == {"finished", "reverted", "kept"}

\* So does go for a created contract whose code is too large or cannot be paid for.
CreateOutcomes == EVMCOutcomes \cup {"kept"}

\* A call ends as the VM does; an exception out of the VM reverts as well.
CallOutcomes == EVMCOutcomes

Finish(e) ==
  /\ active = e /\ pc[e] = "run"
  /\ \E outcome \in CallPrecompiledOutcomes \cup CreateOutcomes \cup CallOutcomes :
       End(e, outcome)
  /\ UNCHANGED recoder

\* BUG variant: a row another context holds is accessed without waiting.
AccessNoWait(e, k, write) ==
  /\ active = e /\ pc[e] = "run" /\ ops[e] < MaxOps
  /\ ops' = [ops EXCEPT ![e] = @ + 1]
  /\ m_myKeyLocks' = [m_myKeyLocks EXCEPT ![e] = @ \cup {k}]
  /\ AccessStorage(e, recoder, k, write)
  /\ UNCHANGED <<recoder, m_existsKeyLocks, pc, want, active, schedulerVars, keyLocks>>

\* getRow or setRow: acquireKeyLock suspends the coroutine if another context holds the
\* row, otherwise the row is noted and accessed.
Access(e, k, write) ==
  /\ active = e /\ pc[e] = "run" /\ ops[e] < MaxOps
  /\ ops' = [ops EXCEPT ![e] = @ + 1]
  /\ IF k \in m_existsKeyLocks[e]
     THEN /\ ExportKeyLocks(e)
          /\ pc' = [pc EXCEPT ![e] = "lock"]
          /\ want' = [want EXCEPT ![e] = [key |-> k, write |-> write]]
          /\ active' = Nobody
          /\ UNCHANGED <<storage, log, touched>>
     ELSE /\ m_myKeyLocks' = [m_myKeyLocks EXCEPT ![e] = @ \cup {k}]
          /\ AccessStorage(e, recoder, k, write)
          /\ UNCHANGED <<pc, want, active, keyLocks>>
  /\ UNCHANGED <<recoder, m_existsKeyLocks, schedulerVars>>

\* BUG variant: the coroutine goes on running after it sent its request.
ExternalCallGoesOn(e) ==
  LET c == Context(e)  callee == <<c, seqs[c] + 1>> IN
  /\ active = e /\ pc[e] = "run" /\ seqs[c] < MaxSeq
  /\ ExportKeyLocks(e)
  /\ pc' = [pc EXCEPT ![e] = "call"]
  /\ seqs' = [seqs EXCEPT ![c] = @ + 1]
  /\ parent' = [parent EXCEPT ![callee] = e]
  /\ top' = [top EXCEPT ![c] = callee]
  /\ UNCHANGED <<storage, recoder, log, m_existsKeyLocks, want, ops, active, touched>>

\* externalCall: the locks go with the request and the coroutine suspends.
ExternalCall(e) ==
  LET c == Context(e)  callee == <<c, seqs[c] + 1>> IN
  /\ active = e /\ pc[e] = "run" /\ seqs[c] < MaxSeq
  /\ ExportKeyLocks(e)
  /\ pc' = [pc EXCEPT ![e] = "call"]
  /\ seqs' = [seqs EXCEPT ![c] = @ + 1]
  /\ parent' = [parent EXCEPT ![callee] = e]
  /\ top' = [top EXCEPT ![c] = callee]
  /\ active' = Nobody
  /\ UNCHANGED <<storage, recoder, log, m_existsKeyLocks, want, ops, touched>>

\* BUG variant: the REVERT answer is taken for no answer, and the wait goes on.
DeadLockIgnored(e) ==
  /\ active = Nobody /\ pc[e] = "lock" /\ Deadlocked(Context(e))
  /\ recoder' = e
  /\ UNCHANGED <<storage, log, wrapperVars, pc, want, ops, active, schedulerVars, keyLocks,
                 touched>>

\* REVERT for a waiting executive: externalAcquireKeyLocks throws, and go,
\* create or callPrecompiled, whichever made the access, reverts the executive.
DeadLock(e) ==
  /\ active = Nobody /\ pc[e] = "lock" /\ Deadlocked(Context(e))
  /\ recoder' = e
  /\ End(e, "reverted")

Next ==
  \E e \in Executives :
    \/ Start(e) \/ Resume(e) \/ Grant(e) \/ DeadLock(e) \/ Finish(e) \/ ExternalCall(e)
    \/ \E k \in Keys, write \in BOOLEAN : Access(e, k, write)

Spec == Init /\ [][Next]_vars

\* As long as an executive runs or can be given an answer, one of them makes a step: the
\* scheduler leaves no message unanswered, in particular not one that waits in a deadlock.
FairSpec == Spec /\ WF_vars(Next)

-----------------------------------------------------------------------------
(* Properties.                                                              *)

StorageType ==
  /\ storage \in [Keys -> Executives \cup {Nobody}]
  /\ recoder \in Executives \cup {Nobody}
  /\ log \in [Executives -> [Keys -> Executives \cup {Nobody, NoRecord}]]
  /\ touched \in [Executives -> SUBSET Keys]

ExecutiveType ==
  /\ m_myKeyLocks \in [Executives -> SUBSET Keys]
  /\ m_existsKeyLocks \in [Executives -> SUBSET Keys]
  /\ pc \in [Executives -> {"none", "run", "call", "lock"} \cup Outcomes]
  /\ want \in [Executives -> [key : Keys, write : BOOLEAN]]
  /\ ops \in [Executives -> 0 .. MaxOps]
  /\ active \in Executives \cup {Nobody}
  /\ \A e \in Executives : pc[e] = "run" <=> active = e

SchedulerType ==
  /\ parent \in [Executives -> Executives \cup {Nobody}]
  /\ top \in [Contexts -> Executives \cup {Nobody}]
  /\ seqs \in [Contexts -> 0 .. MaxSeq]
  /\ keyLocks \in [Keys -> Contexts \cup {NoContext}]

TypeOK == StorageType /\ ExecutiveType /\ SchedulerType

Unfinished(e) == pc[e] \in {"run", "call", "lock"}

(* Two unfinished executives of different transactions have touched no row *)
(* in common, wherever they suspended: what an executive reports when it   *)
(* suspends and what it is told when it resumes keep it from reading or    *)
(* overwriting a row another one is in the middle of using                 *)
(* (SyncStorageWrapper::acquireKeyLock, exportKeyLocks).                   *)
Isolation ==
  \A e, f \in Executives :
    Context(e) # Context(f) /\ Unfinished(e) /\ Unfinished(f) => touched[e] \cap touched[f] = {}

(* A reverted executive leaves no value behind, although executives share  *)
(* one storage whose Recoder is switched with every coroutine switch       *)
(* (TransactionExecutive::revert, setRecoder).                             *)
RevertedLeavesNothing ==
  \A k \in Keys : storage[k] # Nobody => pc[storage[k]] # "reverted"

(* A revert undoes writes of its own transaction only: a value another     *)
(* transaction wrote meanwhile is never rolled back with it.               *)
RevertsOwnOnly ==
  [][\A e \in Executives : pc[e] # "reverted" /\ pc'[e] = "reverted" =>
       \A k \in Keys : storage'[k] # storage[k] => Context(storage[k]) = Context(e)]_vars

(* Every transaction ends: executives that wait for each other's key locks *)
(* are told so, and one of them reverts (externalAcquireKeyLocks).         *)
AllEnd == <>(\A c \in Contexts : pc[<<c, 0>>] \in Outcomes)
=============================================================================
