-------------------------- MODULE ExecutiveProofs --------------------------
(***************************************************************************)
(* Proofs about Executive, for any transactions, rows, numbers of messages *)
(* and of accesses: the type invariant, Isolation, RevertsOwnOnly and      *)
(* RevertedLeavesNothing.                                                  *)
(*                                                                         *)
(* None of them is inductive.  The invariant says how the executives of a  *)
(* transaction nest (Nesting), that the rows of a suspended executive are  *)
(* locked and those of the running one are not locked by others (Locks),   *)
(* and what the Recoders of unfinished executives hold (Records).          *)
(***************************************************************************)
EXTENDS Executive, TLAPS

\* The unfinished executives of a transaction are numbered in the order they were called,
\* only the latest runs or waits, and the others wait for the next one to end.
NestingTop ==
  \A c \in Contexts : top[c] # Nobody =>
    /\ top[c] \in Executives /\ Context(top[c]) = c /\ top[c][2] <= seqs[c]
    /\ pc[top[c]] \in {"none", "run", "call", "lock"}

NestingBelow ==
  \A e \in Executives :
    /\ Unfinished(e) => /\ top[Context(e)] # Nobody /\ e[2] <= top[Context(e)][2]
                        /\ pc[e] # "call" => top[Context(e)] = e
    /\ pc[e] # "none" => e[2] <= seqs[Context(e)]
    /\ e[2] = 0 => parent[e] = Nobody

\* The caller of an executive is the latest unfinished one before it.
NestingParent ==
  \A e \in Executives : Unfinished(e) \/ top[Context(e)] = e =>
    /\ parent[e] = Nobody =>
         \A f \in Executives : Context(f) = Context(e) /\ Unfinished(f) => e[2] <= f[2]
    /\ parent[e] # Nobody =>
         /\ parent[e] \in Executives /\ Context(parent[e]) = Context(e)
         /\ parent[e][2] < e[2] /\ pc[parent[e]] = "call"
         /\ \A f \in Executives :
              Context(f) = Context(e) /\ Unfinished(f) /\ f[2] < e[2] => f[2] <= parent[e][2]

Nesting == NestingTop /\ NestingBelow /\ NestingParent

\* What a suspended executive touched is locked by its transaction.
LocksSuspended ==
  \A e \in Executives :
    /\ Unfinished(e) /\ e # active =>
         m_myKeyLocks[e] = {} /\ \A k \in touched[e] : keyLocks[k] = Context(e)
    /\ pc[e] = "none" => m_myKeyLocks[e] = {} /\ touched[e] = {} /\ log[e] = NoRecords

\* The running one knows the locks of the others, has touched none of their rows, and
\* will report every row it touched that is not locked for it already.
LocksActive ==
  active # Nobody =>
    /\ recoder = active
    /\ m_existsKeyLocks[active] = OthersLocks(Context(active))
    /\ m_myKeyLocks[active] \subseteq touched[active]
    /\ \A k \in touched[active] :
         \/ keyLocks[k] = Context(active)
         \/ keyLocks[k] = NoContext /\ k \in m_myKeyLocks[active]

Locks == LocksSuspended /\ LocksActive

\* A row an unfinished executive recorded holds a value of its transaction; a value of an
\* unfinished executive has been recorded by it; no value is of a reverted one.
RecordsStorage ==
  /\ \A e \in Executives, k \in Keys :
       Unfinished(e) /\ log[e][k] # NoRecord =>
         k \in touched[e] /\ Context(storage[k]) = Context(e)
  /\ \A k \in Keys : storage[k] # Nobody =>
       /\ pc[storage[k]] \notin {"none", "reverted"}
       /\ Unfinished(storage[k]) => log[storage[k]][k] # NoRecord

\* An old value is not of a reverted executive; if it is of an unfinished one, that is a
\* caller of the one that recorded it, and has recorded the row too.
RecordsOld ==
  \A e \in Executives, k \in Keys :
    Unfinished(e) /\ log[e][k] \notin {Nobody, NoRecord} =>
      LET v == log[e][k] IN
      /\ pc[v] \notin {"none", "reverted"}
      /\ Unfinished(v) => Context(v) = Context(e) /\ v[2] < e[2] /\ log[v][k] # NoRecord

\* A row that a caller recorded too was of the transaction before its callee wrote it.
RecordsNested ==
  \A e, f \in Executives, k \in Keys :
    /\ Unfinished(e) /\ Unfinished(f) /\ Context(e) = Context(f) /\ e[2] < f[2]
    /\ log[e][k] # NoRecord /\ log[f][k] # NoRecord
    => Context(log[f][k]) = Context(e)

Records == RecordsStorage /\ RecordsOld /\ RecordsNested

IInv == TypeOK /\ Nesting /\ Locks /\ Records

-----------------------------------------------------------------------------
(* Executives are pairs.                                                    *)

\* An executive is determined by its transaction and its number, and is not Nobody.
LEMMA Pairs ==
  /\ \A e \in Executives : /\ Context(e) \in Contexts /\ e[2] \in Nat /\ e[2] <= MaxSeq
                            /\ e # Nobody /\ Context(e) # NoContext
  /\ \A e, f \in Executives : Context(e) = Context(f) /\ e[2] = f[2] => e = f
  /\ \A c \in Contexts, n \in 0 .. MaxSeq :
       <<c, n>> \in Executives /\ Context(<<c, n>>) = c /\ <<c, n>>[2] = n
  /\ Context(Nobody) = NoContext /\ NoContext \notin Contexts
  /\ NoRecord # Nobody /\ NoRecord \notin Executives
  BY BoundsAssumption, ContextsAssumption DEF Executives, Nobody, NoRecord, Context

\* The wait of an executive that does not wait has the type of one that does.
LEMMA NoWantType == NoWant \in [key : Keys, write : BOOLEAN]
  BY KeysAssumption DEF NoWant

-----------------------------------------------------------------------------
(* The type invariant.                                                      *)

\* What rolling back the records of an executive leaves has the type of the storage.
LEMMA RollbackType ==
  ASSUME TypeOK, NEW e \in Executives
  PROVE  Rollback(e) \in [Keys -> Executives \cup {Nobody}]
  BY DEF Rollback, TypeOK, StorageType

\* The initial states have the type.
LEMMA InitType == Init => TypeOK
  BY Pairs, NoWantType, BoundsAssumption
  DEF Init, TypeOK, StorageType, ExecutiveType, SchedulerType, Outcomes, NoRecords

\* An access to the storage keeps its type.
LEMMA AccessType ==
  ASSUME StorageType, NEW e \in Executives, NEW r \in Executives, NEW k \in Keys,
         NEW write \in BOOLEAN, AccessStorage(e, r, k, write),
         recoder' \in Executives \cup {Nobody}
  PROVE  StorageType'
<1>1. touched' \in [Executives -> SUBSET Keys]
  BY DEF StorageType, AccessStorage
<1>2. CASE write
  <2>1. storage' \in [Keys -> Executives \cup {Nobody}]
    BY <1>2 DEF StorageType, AccessStorage
  <2>2. storage[k] \in Executives \cup {Nobody} /\ log[r] \in [Keys -> Executives \cup {Nobody, NoRecord}]
    BY DEF StorageType
  <2> DEFINE new == IF log[r][k] = NoRecord THEN storage[k] ELSE log[r][k]
  <2>3. [log[r] EXCEPT ![k] = new] \in [Keys -> Executives \cup {Nobody, NoRecord}]
    BY <2>2
  <2>4. log' = [log EXCEPT ![r] = [log[r] EXCEPT ![k] = new]]
    BY <1>2 DEF AccessStorage
  <2>5. log' \in [Executives -> [Keys -> Executives \cup {Nobody, NoRecord}]]
    <3> HIDE DEF new
    <3> QED BY <2>3, <2>4 DEF StorageType
  <2> QED BY <1>1, <2>1, <2>5 DEF StorageType
<1>3. CASE ~write
  BY <1>1, <1>3 DEF StorageType, AccessStorage
<1> QED BY <1>2, <1>3

\* The end of an executive keeps the types.
LEMMA EndType ==
  ASSUME TypeOK, NEW e \in Executives, NEW outcome \in Outcomes, End(e, outcome),
         active \in {e, Nobody}, recoder' \in Executives \cup {Nobody}
  PROVE  TypeOK'
<1> USE Pairs
<1>1. StorageType'
  BY RollbackType DEF End, TypeOK, StorageType, NoRecords
<1>2. ExecutiveType'
  BY NoWantType, BoundsAssumption DEF End, TypeOK, ExecutiveType, Outcomes
<1>3. SchedulerType'
  BY DEF End, TypeOK, SchedulerType
<1> QED BY <1>1, <1>2, <1>3 DEF TypeOK

\* Every step keeps the types, given that the Recoder in force is an executive's.
LEMMA StepType ==
  ASSUME TypeOK, LocksActive, [Next]_vars
  PROVE  TypeOK'
<1> USE Pairs, NoWantType, BoundsAssumption
<1>1. ASSUME NEW e \in Executives, Start(e)
      PROVE  TypeOK'
  BY <1>1 DEF Start, SwitchTo, ImportExistsKeyLocks, OthersLocks, TypeOK, StorageType,
              ExecutiveType, SchedulerType, Outcomes
<1>2. ASSUME NEW e \in Executives, Resume(e)
      PROVE  TypeOK'
  BY <1>2 DEF Resume, SwitchTo, ImportExistsKeyLocks, OthersLocks, schedulerVars, TypeOK,
              StorageType, ExecutiveType, SchedulerType, Outcomes
<1>3. ASSUME NEW e \in Executives, Grant(e)
      PROVE  TypeOK'
  <2>1. want[e].key \in Keys /\ want[e].write \in BOOLEAN
    BY DEF TypeOK, ExecutiveType
  <2>2. StorageType'
    BY <1>3, <2>1, AccessType DEF Grant, SwitchTo, TypeOK
  <2>3. ExecutiveType'
    BY <1>3, <2>1 DEF Grant, SwitchTo, ImportExistsKeyLocks, OthersLocks, TypeOK,
                      ExecutiveType, Outcomes
  <2>4. SchedulerType'
    BY <1>3, <2>1 DEF Grant, schedulerVars, TypeOK, SchedulerType
  <2> QED BY <2>2, <2>3, <2>4 DEF TypeOK
<1>4. ASSUME NEW e \in Executives, DeadLock(e)
      PROVE  TypeOK'
  BY <1>4, EndType DEF DeadLock, Outcomes
<1>5. ASSUME NEW e \in Executives, Finish(e)
      PROVE  TypeOK'
  <2>1. PICK outcome \in Outcomes : End(e, outcome)
    BY <1>5 DEF Finish, CallPrecompiledOutcomes, CreateOutcomes, CallOutcomes, EVMCOutcomes,
                Outcomes
  <2> QED BY <1>5, <2>1, EndType DEF Finish, TypeOK, StorageType
<1>6. ASSUME NEW e \in Executives, ExternalCall(e)
      PROVE  TypeOK'
  <2>1. seqs[Context(e)] + 1 \in 0 .. MaxSeq /\ Context(e) \in Contexts
    BY <1>6 DEF ExternalCall, TypeOK, SchedulerType
  <2>2. <<Context(e), seqs[Context(e)] + 1>> \in Executives
    BY <2>1
  <2>3. StorageType'
    BY <1>6 DEF ExternalCall, TypeOK, StorageType
  <2>4. ExecutiveType'
    BY <1>6 DEF ExternalCall, ExportKeyLocks, TypeOK, ExecutiveType, Outcomes
  <2>5. SchedulerType'
    BY <1>6, <2>1, <2>2 DEF ExternalCall, ExportKeyLocks, TypeOK, SchedulerType
  <2> QED BY <2>3, <2>4, <2>5 DEF TypeOK
<1>7. ASSUME NEW e \in Executives, NEW k \in Keys, NEW write \in BOOLEAN,
             Access(e, k, write)
      PROVE  TypeOK'
  <2>1. recoder = e
    BY <1>7 DEF Access, LocksActive
  <2>2. CASE k \in m_existsKeyLocks[e]
    <3>1. StorageType'
      BY <1>7, <2>2 DEF Access, TypeOK, StorageType
    <3> DEFINE wait == [key |-> k, write |-> write]
    <3>2. wait \in [key : Keys, write : BOOLEAN]
      OBVIOUS
    <3>3. want' = [want EXCEPT ![e] = wait]
      BY <1>7, <2>2 DEF Access
    <3> HIDE DEF wait
    <3>4. want' \in [Executives -> [key : Keys, write : BOOLEAN]]
      BY <3>2, <3>3 DEF TypeOK, ExecutiveType
    <3>5. /\ active = e /\ active' = Nobody /\ ops[e] < MaxOps
          /\ pc' = [pc EXCEPT ![e] = "lock"] /\ ops' = [ops EXCEPT ![e] = @ + 1]
          /\ m_myKeyLocks' = [m_myKeyLocks EXCEPT ![e] = {}]
          /\ UNCHANGED m_existsKeyLocks
      BY <1>7, <2>2 DEF Access, ExportKeyLocks
    <3>6. ExecutiveType'
      BY <3>4, <3>5 DEF TypeOK, ExecutiveType, Outcomes
    <3>7. SchedulerType'
      BY <1>7, <2>2 DEF Access, ExportKeyLocks, schedulerVars, TypeOK, SchedulerType
    <3> QED BY <3>1, <3>6, <3>7 DEF TypeOK
  <2>3. CASE k \notin m_existsKeyLocks[e]
    <3>1. StorageType'
      BY <1>7, <2>1, <2>3, AccessType DEF Access, TypeOK
    <3>2. /\ ops[e] < MaxOps /\ ops' = [ops EXCEPT ![e] = @ + 1]
          /\ m_myKeyLocks' = [m_myKeyLocks EXCEPT ![e] = @ \cup {k}]
          /\ UNCHANGED <<m_existsKeyLocks, pc, want, active, top, seqs, parent, keyLocks>>
      BY <1>7, <2>3 DEF Access, schedulerVars
    <3>3. ExecutiveType'
      BY <3>2 DEF TypeOK, ExecutiveType
    <3>4. SchedulerType'
      BY <3>2 DEF TypeOK, SchedulerType
    <3> QED BY <3>1, <3>3, <3>4 DEF TypeOK
  <2> QED BY <2>2, <2>3
<1>8. CASE UNCHANGED vars
  BY <1>8 DEF vars, wrapperVars, schedulerVars, TypeOK, StorageType, ExecutiveType,
              SchedulerType
<1> QED BY <1>1, <1>2, <1>3, <1>4, <1>5, <1>6, <1>7, <1>8 DEF Next

-----------------------------------------------------------------------------
(* The executives of a transaction nest.                                    *)

\* An executive that runs or waits for a lock is the current one of its transaction, and
\* the other unfinished ones of the transaction were called before it.
LEMMA Latest ==
  ASSUME TypeOK, Nesting, NEW e \in Executives, pc[e] \in {"run", "lock"}
  PROVE  /\ top[Context(e)] = e /\ Unfinished(e)
         /\ \A f \in Executives : Context(f) = Context(e) /\ Unfinished(f) /\ f # e =>
                                  f[2] < e[2] /\ pc[f] = "call"
<1>1. top[Context(e)] = e /\ Unfinished(e)
  BY DEF Nesting, NestingBelow, Unfinished
<1>2. ASSUME NEW f \in Executives, Context(f) = Context(e), Unfinished(f), f # e
      PROVE  f[2] < e[2] /\ pc[f] = "call"
  <2>1. f[2] <= e[2] /\ pc[f] = "call"
    BY <1>1, <1>2 DEF Nesting, NestingBelow
  <2> QED BY <1>2, <2>1, Pairs
<1> QED BY <1>1, <1>2

\* The current executive of a transaction suspends or goes on.
LEMMA NestingSwitch ==
  ASSUME TypeOK, Nesting, NEW e \in Executives, NEW s \in {"run", "lock"},
         Unfinished(e), top[Context(e)] = e, pc' = [pc EXCEPT ![e] = s],
         UNCHANGED schedulerVars
  PROVE  Nesting'
<1> USE Pairs
<1>1. /\ \A f \in Executives : Unfinished(f)' <=> Unfinished(f)
      /\ pc'[e] = s /\ \A f \in Executives : f # e => pc'[f] = pc[f]
      /\ top' = top /\ seqs' = seqs /\ parent' = parent
  BY DEF Unfinished, TypeOK, ExecutiveType, schedulerVars
<1>2. NestingTop'
  BY <1>1 DEF Nesting, NestingTop
<1>3. NestingBelow'
  BY <1>1 DEF Nesting, NestingBelow, Unfinished
<1>4. ASSUME NEW f \in Executives, Unfinished(f) \/ top[Context(f)] = f, parent[f] # Nobody
      PROVE  parent[f] # e
  <2>1. parent[f] \in Executives /\ Context(parent[f]) = Context(f) /\ parent[f][2] < f[2]
    BY <1>4 DEF Nesting, NestingParent
  <2>2. ASSUME parent[f] = e PROVE FALSE
    <3>1. f[2] <= e[2]
      BY <1>4, <2>1, <2>2 DEF Nesting, NestingBelow
    <3> QED BY <2>1, <2>2, <3>1
  <2> QED BY <2>2
<1>5. NestingParent'
  BY <1>1, <1>4 DEF Nesting, NestingParent
<1> QED BY <1>2, <1>3, <1>5 DEF Nesting

\* A new executive: the first of its transaction, or the callee the scheduler was asked for.
LEMMA NestingStart ==
  ASSUME TypeOK, Nesting, NEW e \in Executives, Start(e)
  PROVE  Nesting'
<1> USE Pairs
<1>1. /\ \A f \in Executives : Unfinished(f)' <=> f = e \/ Unfinished(f)
      /\ pc[e] = "none" /\ pc'[e] = "run" /\ \A f \in Executives : f # e => pc'[f] = pc[f]
      /\ top' = [top EXCEPT ![Context(e)] = e] /\ seqs' = seqs /\ parent' = parent
  BY DEF Start, SwitchTo, Unfinished, TypeOK, ExecutiveType
<1>2. top'[Context(e)] = e /\ \A c \in Contexts : c # Context(e) => top'[c] = top[c]
  BY <1>1 DEF TypeOK, SchedulerType
<1>3. /\ e[2] <= seqs[Context(e)]
      /\ \A f \in Executives : Context(f) = Context(e) /\ Unfinished(f) =>
                               f[2] < e[2] /\ pc[f] = "call"
  <2>1. CASE e[2] = 0 /\ top[Context(e)] = Nobody
    BY <2>1 DEF Nesting, NestingBelow, TypeOK, SchedulerType
  <2>2. CASE top[Context(e)] = e
    <3>1. e[2] <= seqs[Context(e)]
      BY <2>2 DEF Nesting, NestingTop
    <3>2. \A f \in Executives : Context(f) = Context(e) /\ Unfinished(f) =>
                                f # e /\ f[2] <= e[2] /\ pc[f] = "call"
      BY <1>1, <2>2 DEF Nesting, NestingBelow, Unfinished
    <3> QED BY <3>1, <3>2
  <2> QED BY <2>1, <2>2 DEF Start
<1>4. NestingTop'
  BY <1>1, <1>2, <1>3 DEF Nesting, NestingTop
<1>5. NestingBelow'
  BY <1>1, <1>2, <1>3 DEF Nesting, NestingBelow
<1>6. ASSUME NEW f \in Executives, Unfinished(f)' \/ top'[Context(f)] = f
      PROVE  /\ parent[f] = Nobody =>
                  \A g \in Executives : Context(g) = Context(f) /\ Unfinished(g)' => f[2] <= g[2]
             /\ parent[f] # Nobody =>
                  /\ parent[f] \in Executives /\ Context(parent[f]) = Context(f)
                  /\ parent[f][2] < f[2] /\ pc'[parent[f]] = "call"
                  /\ \A g \in Executives :
                       Context(g) = Context(f) /\ Unfinished(g)' /\ g[2] < f[2] =>
                         g[2] <= parent[f][2]
  <2>1. CASE f # e
    <3>1. Unfinished(f) \/ top[Context(f)] = f
      BY <1>1, <1>2, <1>6, <2>1
    <3>2. Context(f) = Context(e) => f[2] < e[2]
      BY <1>1, <1>2, <1>3, <1>6, <2>1
    <3> QED BY <1>1, <3>1, <3>2 DEF Nesting, NestingParent
  <2>2. CASE f = e /\ top[Context(e)] = e
    BY <1>1, <1>3, <2>2 DEF Nesting, NestingParent
  <2>3. CASE f = e /\ e[2] = 0 /\ top[Context(e)] = Nobody
    BY <1>1, <2>3 DEF Nesting, NestingBelow
  <2> QED BY <2>1, <2>2, <2>3 DEF Start
<1>7. NestingParent'
  BY <1>1, <1>6 DEF NestingParent
<1> QED BY <1>4, <1>5, <1>7 DEF Nesting

\* A call: the callee becomes the current executive of the transaction.
LEMMA NestingCall ==
  ASSUME TypeOK, Nesting, NEW e \in Executives, ExternalCall(e)
  PROVE  Nesting'
<1> USE Pairs
<1> DEFINE c == Context(e)
           callee == <<c, seqs[c] + 1>>
<1>1. c \in Contexts /\ seqs[c] \in Nat /\ seqs[c] + 1 \in 0 .. MaxSeq
  BY BoundsAssumption DEF ExternalCall, TypeOK, SchedulerType
<1>2. callee \in Executives /\ Context(callee) = c /\ callee[2] = seqs[c] + 1
  BY <1>1
<1>3. pc[e] = "run" /\ e[2] <= seqs[c]
  BY <1>1 DEF ExternalCall, Nesting, NestingBelow
<1>4. pc[callee] = "none" /\ callee # e
  <2>1. ~(callee[2] <= seqs[c])
    BY <1>1, <1>2
  <2> QED BY <1>2, <1>3, <2>1 DEF Nesting, NestingBelow
<1>5. /\ top[c] = e /\ Unfinished(e)
      /\ \A f \in Executives : Context(f) = c /\ Unfinished(f) /\ f # e =>
                               f[2] < e[2] /\ pc[f] = "call"
  BY <1>3, Latest
<1>6. /\ \A f \in Executives : Unfinished(f)' <=> Unfinished(f)
      /\ pc'[e] = "call" /\ \A f \in Executives : f # e => pc'[f] = pc[f]
      /\ top'[c] = callee /\ \A d \in Contexts : d # c => top'[d] = top[d]
      /\ seqs'[c] = seqs[c] + 1 /\ \A d \in Contexts : d # c => seqs'[d] = seqs[d]
      /\ parent'[callee] = e /\ \A f \in Executives : f # callee => parent'[f] = parent[f]
  BY <1>1, <1>2, <1>3 DEF ExternalCall, Unfinished, TypeOK, ExecutiveType, SchedulerType
<1> HIDE DEF callee, c
<1>7. NestingTop'
  BY <1>1, <1>2, <1>4, <1>6 DEF Nesting, NestingTop, TypeOK, SchedulerType
<1>8. \A f \in Executives : Context(f) = c /\ Unfinished(f) => f[2] <= seqs[c] /\ (f # e => pc[f] = "call")
  BY <1>1, <1>3, <1>5
<1>9. NestingBelow'
  BY <1>1, <1>2, <1>3, <1>4, <1>6, <1>8 DEF Nesting, NestingBelow, TypeOK, SchedulerType, c
<1>10. ASSUME NEW f \in Executives, Unfinished(f)' \/ top'[Context(f)] = f
       PROVE  /\ parent'[f] = Nobody =>
                   \A g \in Executives : Context(g) = Context(f) /\ Unfinished(g)' => f[2] <= g[2]
              /\ parent'[f] # Nobody =>
                   /\ parent'[f] \in Executives /\ Context(parent'[f]) = Context(f)
                   /\ parent'[f][2] < f[2] /\ pc'[parent'[f]] = "call"
                   /\ \A g \in Executives :
                        Context(g) = Context(f) /\ Unfinished(g)' /\ g[2] < f[2] =>
                          g[2] <= parent'[f][2]
  <2>1. CASE f = callee
    <3>1. Context(e) = c /\ e[2] < callee[2]
      BY <1>1, <1>2, <1>3 DEF c
    <3>2. \A g \in Executives : Context(g) = c /\ Unfinished(g) => g[2] <= e[2]
      BY <1>5
    <3> QED BY <1>2, <1>6, <2>1, <3>1, <3>2
  <2>2. CASE f # callee
    <3>1. Unfinished(f) \/ top[Context(f)] = f
      BY <1>2, <1>6, <1>10, <2>2
    <3> QED BY <1>3, <1>6, <2>2, <3>1 DEF Nesting, NestingParent
  <2> QED BY <2>1, <2>2
<1>11. NestingParent'
  BY <1>10 DEF NestingParent
<1> QED BY <1>7, <1>9, <1>11 DEF Nesting

\* The end of an executive: its caller becomes the current one.
LEMMA NestingEnd ==
  ASSUME TypeOK, Nesting, NEW e \in Executives, pc[e] \in {"run", "lock"},
         NEW outcome \in Outcomes, End(e, outcome)
  PROVE  Nesting'
<1> USE Pairs
<1>1. /\ top[Context(e)] = e /\ Unfinished(e)
      /\ \A f \in Executives : Context(f) = Context(e) /\ Unfinished(f) /\ f # e =>
                               f[2] < e[2] /\ pc[f] = "call"
  BY Latest
<1>2. /\ \A f \in Executives : Unfinished(f)' <=> f # e /\ Unfinished(f)
      /\ pc'[e] = outcome /\ \A f \in Executives : f # e => pc'[f] = pc[f]
      /\ seqs' = seqs /\ parent' = parent
      /\ top'[Context(e)] = parent[e]
      /\ \A c \in Contexts : c # Context(e) => top'[c] = top[c]
  BY DEF End, Unfinished, Outcomes, TypeOK, ExecutiveType, SchedulerType
<1>3. parent[e] # Nobody =>
         /\ parent[e] \in Executives /\ Context(parent[e]) = Context(e)
         /\ parent[e][2] < e[2] /\ pc[parent[e]] = "call" /\ parent[e] # e
  BY <1>1 DEF Nesting, NestingParent
<1>4. \A f \in Executives : Context(f) = Context(e) /\ Unfinished(f) /\ f # e =>
         parent[e] # Nobody /\ f[2] <= parent[e][2]
  <2>1. ASSUME NEW f \in Executives, Context(f) = Context(e), Unfinished(f), f # e
        PROVE  parent[e] # Nobody /\ f[2] <= parent[e][2]
    <3>1. f[2] < e[2] /\ ~(e[2] <= f[2])
      BY <1>1, <2>1
    <3> QED BY <1>1, <2>1, <3>1 DEF Nesting, NestingParent
  <2> QED BY <2>1
<1>5. NestingTop'
  <2>1. e[2] <= seqs[Context(e)] /\ seqs[Context(e)] \in Nat
    BY BoundsAssumption DEF Nesting, NestingBelow, TypeOK, SchedulerType
  <2> QED BY <1>2, <1>3, <2>1 DEF Nesting, NestingTop
<1>6. NestingBelow'
  BY <1>1, <1>2, <1>4 DEF Nesting, NestingBelow, Unfinished, Outcomes
<1>7. ASSUME NEW f \in Executives, Unfinished(f)' \/ top'[Context(f)] = f
      PROVE  Unfinished(f) \/ top[Context(f)] = f
  <2>1. CASE Unfinished(f)'
    BY <1>2, <2>1
  <2>2. CASE top'[Context(f)] = f /\ Context(f) = Context(e)
    BY <1>2, <1>3, <2>2 DEF Unfinished
  <2>3. CASE top'[Context(f)] = f /\ Context(f) # Context(e)
    BY <1>2, <2>3
  <2> QED BY <1>7, <2>1, <2>2, <2>3
<1>8. NestingParent'
  <2> SUFFICES ASSUME NEW f \in Executives, Unfinished(f)' \/ top'[Context(f)] = f
               PROVE  /\ parent[f] = Nobody =>
                         \A g \in Executives :
                           Context(g) = Context(f) /\ Unfinished(g)' => f[2] <= g[2]
                      /\ parent[f] # Nobody =>
                         /\ parent[f] \in Executives /\ Context(parent[f]) = Context(f)
                         /\ parent[f][2] < f[2] /\ pc'[parent[f]] = "call"
                         /\ \A g \in Executives :
                              Context(g) = Context(f) /\ Unfinished(g)' /\ g[2] < f[2] =>
                                g[2] <= parent[f][2]
    BY <1>2 DEF NestingParent
  <2>1. Unfinished(f) \/ top[Context(f)] = f
    BY <1>7
  <2> QED BY <1>2, <2>1 DEF Nesting, NestingParent
<1> QED BY <1>5, <1>6, <1>8 DEF Nesting

-----------------------------------------------------------------------------
(* Rows in use are locked.                                                  *)

\* A start and a resumption: the executive learns the locks of the others.
LEMMA LocksSwitch ==
  ASSUME TypeOK, Locks, NEW e \in Executives, active = Nobody,
         pc[e] \in {"none", "call"}, SwitchTo(e), ImportExistsKeyLocks(e),
         UNCHANGED <<log, m_myKeyLocks, keyLocks, touched>>
  PROVE  Locks'
<1> USE Pairs
<1>1. /\ active' = e /\ recoder' = e /\ pc'[e] = "run"
      /\ \A f \in Executives : f # e => pc'[f] = pc[f]
      /\ m_existsKeyLocks'[e] = OthersLocks(Context(e))
      /\ log' = log /\ m_myKeyLocks' = m_myKeyLocks /\ keyLocks' = keyLocks /\ touched' = touched
  BY DEF SwitchTo, ImportExistsKeyLocks, TypeOK, ExecutiveType
<1>2. m_myKeyLocks[e] = {} /\ \A k \in touched[e] : keyLocks[k] = Context(e)
  BY DEF Locks, LocksSuspended, Unfinished
<1>3. LocksActive'
  BY <1>1, <1>2 DEF LocksActive, OthersLocks
<1>4. LocksSuspended'
  BY <1>1 DEF Locks, LocksSuspended, Unfinished
<1> QED BY <1>3, <1>4 DEF Locks

\* A granted lock was free or the transaction's own.
LEMMA LocksGrant ==
  ASSUME TypeOK, Locks, NEW e \in Executives, Grant(e)
  PROVE  Locks'
<1> USE Pairs
<1> DEFINE k == want[e].key
<1>1. k \in Keys /\ keyLocks[k] \in {NoContext, Context(e)}
  BY DEF Grant, TypeOK, ExecutiveType
<1>2. /\ active = Nobody /\ pc[e] = "lock"
      /\ active' = e /\ recoder' = e /\ pc'[e] = "run"
      /\ \A f \in Executives : f # e => pc'[f] = pc[f]
  BY DEF Grant, SwitchTo, TypeOK, ExecutiveType
<1>3. /\ keyLocks'[k] = Context(e) /\ \A l \in Keys : l # k => keyLocks'[l] = keyLocks[l]
      /\ m_existsKeyLocks'[e] = OthersLocks(Context(e))
      /\ m_myKeyLocks'[e] = m_myKeyLocks[e] \cup {k}
      /\ \A f \in Executives : f # e => m_myKeyLocks'[f] = m_myKeyLocks[f]
  BY <1>1 DEF Grant, ImportExistsKeyLocks, TypeOK, ExecutiveType, SchedulerType
<1>4. /\ touched'[e] = touched[e] \cup {k}
      /\ \A f \in Executives : f # e => touched'[f] = touched[f]
      /\ \A f \in Executives : f # e => log'[f] = log[f]
  BY DEF Grant, AccessStorage, TypeOK, StorageType
<1>5. /\ m_myKeyLocks[e] = {} /\ \A l \in touched[e] : keyLocks[l] = Context(e)
      /\ touched \in [Executives -> SUBSET Keys]
  BY <1>2 DEF Locks, LocksSuspended, Unfinished, TypeOK, StorageType
<1> HIDE DEF k
<1>6. OthersLocks(Context(e))' = OthersLocks(Context(e))
  BY <1>1, <1>3 DEF OthersLocks
<1>7. LocksActive'
  <2>1. m_existsKeyLocks'[e] = OthersLocks(Context(e))'
    BY <1>3, <1>6
  <2>2. \A l \in touched'[e] : keyLocks'[l] = Context(e)
    BY <1>3, <1>4, <1>5
  <2>3. m_myKeyLocks'[e] \subseteq touched'[e]
    BY <1>3, <1>4, <1>5
  <2>4. OthersLocks(Context(active))' = OthersLocks(Context(e))'
    BY <1>2 DEF OthersLocks
  <2> QED BY <1>2, <2>1, <2>2, <2>3, <2>4 DEF LocksActive
<1>8. ASSUME NEW f \in Executives, f # e
      PROVE  /\ Unfinished(f)' => m_myKeyLocks'[f] = {} /\
                                   \A l \in touched'[f] : keyLocks'[l] = Context(f)
             /\ pc'[f] = "none" => m_myKeyLocks'[f] = {} /\ touched'[f] = {} /\ log'[f] = NoRecords
  <2>1. Unfinished(f) => m_myKeyLocks[f] = {} /\ \A l \in touched[f] : keyLocks[l] = Context(f)
    BY <1>2 DEF Locks, LocksSuspended
  <2>2. pc[f] = "none" => m_myKeyLocks[f] = {} /\ touched[f] = {} /\ log[f] = NoRecords
    BY DEF Locks, LocksSuspended
  <2>3. Unfinished(f)' => Unfinished(f)
    BY <1>2, <1>8 DEF Unfinished
  <2>4. ASSUME Unfinished(f), NEW l \in touched[f]
        PROVE  keyLocks'[l] = Context(f)
    BY <1>1, <1>3, <1>5, <2>1, <2>4
  <2> QED BY <1>2, <1>3, <1>4, <1>8, <2>1, <2>2, <2>3, <2>4
<1>9. LocksSuspended'
  BY <1>2, <1>8 DEF LocksSuspended
<1> QED BY <1>7, <1>9 DEF Locks

\* An executive that suspends reports its rows.
LEMMA LocksExport ==
  ASSUME TypeOK, Locks, NEW e \in Executives, active = e, pc[e] = "run",
         ExportKeyLocks(e), NEW s \in {"call", "lock"}, pc' = [pc EXCEPT ![e] = s],
         active' = Nobody, UNCHANGED <<touched, log>>
  PROVE  Locks'
<1> USE Pairs
<1>1. /\ pc'[e] = s /\ \A f \in Executives : f # e => pc'[f] = pc[f]
      /\ \A k \in Keys : keyLocks'[k] = IF k \in m_myKeyLocks[e] THEN Context(e) ELSE keyLocks[k]
      /\ m_myKeyLocks'[e] = {} /\ \A f \in Executives : f # e => m_myKeyLocks'[f] = m_myKeyLocks[f]
      /\ touched' = touched /\ log' = log /\ touched \in [Executives -> SUBSET Keys]
  BY DEF ExportKeyLocks, TypeOK, StorageType, ExecutiveType
<1>2. LocksActive'
  BY DEF LocksActive
<1>3. /\ m_myKeyLocks[e] \subseteq touched[e]
      /\ \A k \in touched[e] : \/ keyLocks[k] = Context(e)
                               \/ keyLocks[k] = NoContext /\ k \in m_myKeyLocks[e]
  BY DEF Locks, LocksActive
<1>4. \A k \in touched[e] : keyLocks'[k] = Context(e)
  BY <1>1, <1>3
<1>5. ASSUME NEW f \in Executives, f # e
      PROVE  /\ Unfinished(f)' => m_myKeyLocks'[f] = {} /\
                                   \A k \in touched[f] : keyLocks'[k] = Context(f)
             /\ pc'[f] = "none" => m_myKeyLocks'[f] = {} /\ touched[f] = {} /\ log[f] = NoRecords
  <2>1. Unfinished(f) => m_myKeyLocks[f] = {} /\ \A k \in touched[f] : keyLocks[k] = Context(f)
    BY <1>5 DEF Locks, LocksSuspended
  <2>2. pc[f] = "none" => m_myKeyLocks[f] = {} /\ touched[f] = {} /\ log[f] = NoRecords
    BY DEF Locks, LocksSuspended
  <2>3. Unfinished(f)' => Unfinished(f)
    BY <1>1, <1>5 DEF Unfinished
  <2>4. ASSUME Unfinished(f), NEW k \in touched[f]
        PROVE  keyLocks'[k] = Context(f)
    <3>1. keyLocks[k] = Context(f) /\ k \in Keys
      BY <1>1, <2>1, <2>4
    <3>2. k \in m_myKeyLocks[e] => keyLocks[k] = Context(e)
      BY <1>3, <3>1
    <3> QED BY <1>1, <3>1, <3>2
  <2> QED BY <1>1, <1>5, <2>1, <2>2, <2>3, <2>4
<1>6. LocksSuspended'
  BY <1>1, <1>4, <1>5 DEF LocksSuspended
<1> QED BY <1>2, <1>6 DEF Locks

\* An access to a row no other transaction has locked.
LEMMA LocksAccess ==
  ASSUME TypeOK, Locks, NEW e \in Executives, NEW k \in Keys, NEW write \in BOOLEAN,
         Access(e, k, write), k \notin m_existsKeyLocks[e]
  PROVE  Locks'
<1> USE Pairs
<1>1. /\ active = e /\ pc[e] = "run" /\ active' = e /\ pc' = pc /\ recoder' = recoder
      /\ m_existsKeyLocks' = m_existsKeyLocks /\ keyLocks' = keyLocks
      /\ m_myKeyLocks'[e] = m_myKeyLocks[e] \cup {k}
      /\ \A f \in Executives : f # e => m_myKeyLocks'[f] = m_myKeyLocks[f]
  BY DEF Access, TypeOK, ExecutiveType
<1>2. recoder = e /\ m_existsKeyLocks[e] = OthersLocks(Context(e))
  BY <1>1 DEF Locks, LocksActive
<1>3. /\ touched'[e] = touched[e] \cup {k}
      /\ \A f \in Executives : f # e => touched'[f] = touched[f]
      /\ \A f \in Executives : f # e => log'[f] = log[f]
  BY <1>2 DEF Access, AccessStorage, TypeOK, StorageType
<1>4. keyLocks[k] \in {NoContext, Context(e)}
  BY <1>2 DEF OthersLocks
<1>5. LocksActive'
  BY <1>1, <1>2, <1>3, <1>4 DEF Locks, LocksActive, OthersLocks
<1>6. LocksSuspended'
  BY <1>1, <1>3 DEF Locks, LocksSuspended, Unfinished
<1> QED BY <1>5, <1>6 DEF Locks

\* The locks of a transaction are forgotten when its last executive ends.
LEMMA LocksEnd ==
  ASSUME TypeOK, Nesting, Locks, NEW e \in Executives, pc[e] \in {"run", "lock"},
         active \in {e, Nobody}, NEW outcome \in Outcomes, End(e, outcome)
  PROVE  Locks'
<1> USE Pairs
<1>1. /\ active' = Nobody /\ pc'[e] = outcome
      /\ \A f \in Executives : f # e => /\ pc'[f] = pc[f] /\ touched'[f] = touched[f]
                                       /\ m_myKeyLocks'[f] = m_myKeyLocks[f] /\ log'[f] = log[f]
  BY DEF End, TypeOK, StorageType, ExecutiveType
<1>2. LocksActive'
  BY <1>1 DEF LocksActive
<1>3. ASSUME NEW f \in Executives, f # e, Unfinished(f), NEW k \in touched[f]
      PROVE  keyLocks'[k] = Context(f)
  <2>1. k \in Keys
    BY <1>3 DEF TypeOK, StorageType
  <2>2. keyLocks[k] = Context(f)
    BY <1>3 DEF Locks, LocksSuspended
  <2>3. CASE parent[e] # Nobody
    BY <2>2, <2>3 DEF End
  <2>4. CASE parent[e] = Nobody
    <3>1. Context(f) = Context(e) => f[2] < e[2] /\ e[2] <= f[2]
      BY <1>3, <2>4, Latest DEF Nesting, NestingParent
    <3>2. Context(f) # Context(e)
      BY <3>1
    <3> QED BY <2>1, <2>2, <2>4, <3>2 DEF End
  <2> QED BY <2>3, <2>4
<1>4. LocksSuspended'
  <2>1. ASSUME NEW f \in Executives, Unfinished(f)'
        PROVE  m_myKeyLocks'[f] = {} /\ \A k \in touched'[f] : keyLocks'[k] = Context(f)
    <3>1. f # e /\ Unfinished(f)
      BY <1>1, <2>1 DEF Unfinished, Outcomes
    <3> QED BY <1>1, <1>3, <3>1 DEF Locks, LocksSuspended
  <2>2. ASSUME NEW f \in Executives, pc'[f] = "none"
        PROVE  m_myKeyLocks'[f] = {} /\ touched'[f] = {} /\ log'[f] = NoRecords
    BY <1>1, <2>2 DEF Locks, LocksSuspended, Outcomes
  <2> QED BY <2>1, <2>2 DEF LocksSuspended
<1> QED BY <1>2, <1>4 DEF Locks

-----------------------------------------------------------------------------
(* What the Recoders hold.                                                  *)

\* An executive starts, suspends, goes on or reads: no row and no record changes.
LEMMA RecordsKept ==
  ASSUME TypeOK, Records, NEW e \in Executives,
         \A f \in Executives : f # e => pc'[f] = pc[f],
         Unfinished(e)', Unfinished(e) \/ (pc[e] = "none" /\ log[e] = NoRecords),
         UNCHANGED <<storage, log>>,
         \A f \in Executives : touched[f] \subseteq touched'[f]
  PROVE  Records'
<1> USE Pairs
<1>1. /\ storage' = storage /\ log' = log
      /\ pc'[e] \notin {"none", "reverted"}
      /\ \A f \in Executives : f # e => pc'[f] = pc[f]
      /\ \A f \in Executives : Unfinished(f)' => Unfinished(f) \/ \A k \in Keys : log[f][k] = NoRecord
      /\ \A f \in Executives : pc[f] # "none" => (Unfinished(f)' <=> Unfinished(f))
      /\ \A f \in Executives : pc[f] \notin {"none", "reverted"} => pc'[f] \notin {"none", "reverted"}
      /\ storage \in [Keys -> Executives \cup {Nobody}]
      /\ log \in [Executives -> [Keys -> Executives \cup {Nobody, NoRecord}]]
  BY DEF Unfinished, TypeOK, StorageType, ExecutiveType, NoRecords
<1>2. RecordsStorage'
  BY <1>1 DEF Records, RecordsStorage
<1>3. RecordsOld'
  BY <1>1 DEF Records, RecordsOld
<1>4. RecordsNested'
  BY <1>1 DEF Records, RecordsNested
<1> QED BY <1>2, <1>3, <1>4 DEF Records

\* The latest executive of a transaction writes a row that no other transaction uses.
LEMMA RecordsWrite ==
  ASSUME TypeOK, Nesting, Records, NEW e \in Executives, NEW k \in Keys,
         pc[e] \in {"run", "lock"}, pc'[e] = "run",
         \A f \in Executives : f # e => pc'[f] = pc[f],
         \A f \in Executives : Unfinished(f) /\ k \in touched[f] => Context(f) = Context(e),
         AccessStorage(e, e, k, TRUE)
  PROVE  Records'
<1> USE Pairs
<1>1. \A f \in Executives : Context(f) = Context(e) /\ Unfinished(f) /\ f # e => f[2] < e[2]
  BY Latest
<1>2. /\ storage \in [Keys -> Executives \cup {Nobody}]
      /\ log \in [Executives -> [Keys -> Executives \cup {Nobody, NoRecord}]]
      /\ touched \in [Executives -> SUBSET Keys]
  BY DEF TypeOK, StorageType
<1>3. /\ storage'[k] = e /\ \A l \in Keys : l # k => storage'[l] = storage[l]
      /\ \A f \in Executives : touched[f] \subseteq touched'[f]
      /\ k \in touched'[e]
  BY <1>2 DEF AccessStorage
<1>4. /\ \A f \in Executives, l \in Keys : f # e \/ l # k => log'[f][l] = log[f][l]
      /\ log'[e][k] = IF log[e][k] = NoRecord THEN storage[k] ELSE log[e][k]
  BY <1>2 DEF AccessStorage
<1>5. log'[e][k] # NoRecord
  BY <1>2, <1>4
<1>6. /\ \A f \in Executives : Unfinished(f)' <=> Unfinished(f)
      /\ Unfinished(e)
      /\ \A f \in Executives : pc[f] \notin {"none", "reverted"} => pc'[f] \notin {"none", "reverted"}
      /\ pc'[e] \notin {"none", "reverted"}
  BY DEF Unfinished
<1>7. /\ \A f \in Executives, l \in Keys : Unfinished(f) /\ log[f][l] # NoRecord =>
           l \in touched[f] /\ Context(storage[l]) = Context(f)
      /\ \A l \in Keys : storage[l] # Nobody =>
           /\ pc[storage[l]] \notin {"none", "reverted"}
           /\ Unfinished(storage[l]) => log[storage[l]][l] # NoRecord
  BY DEF Records, RecordsStorage
<1>8. RecordsStorage'
  <2>1. ASSUME NEW f \in Executives, NEW l \in Keys, Unfinished(f)', log'[f][l] # NoRecord
        PROVE  l \in touched'[f] /\ Context(storage'[l]) = Context(f)
    <3>1. CASE f = e /\ l = k
      BY <1>3, <3>1
    <3>2. CASE f # e /\ l = k
      BY <1>3, <1>4, <1>6, <1>7, <2>1, <3>2
    <3>3. CASE l # k
      BY <1>3, <1>4, <1>6, <1>7, <2>1, <3>3
    <3> QED BY <3>1, <3>2, <3>3
  <2>2. ASSUME NEW l \in Keys, storage'[l] # Nobody
        PROVE  /\ pc'[storage'[l]] \notin {"none", "reverted"}
               /\ Unfinished(storage[l])' => log'[storage'[l]][l] # NoRecord
    <3>1. CASE l = k
      BY <1>3, <1>5, <1>6, <3>1
    <3>2. CASE l # k
      BY <1>2, <1>3, <1>4, <1>6, <1>7, <2>2, <3>2
    <3> QED BY <3>1, <3>2
  <2> QED BY <2>1, <2>2 DEF RecordsStorage
<1>9. RecordsOld'
  <2> SUFFICES ASSUME NEW f \in Executives, NEW l \in Keys, Unfinished(f)',
                      log'[f][l] \notin {Nobody, NoRecord}
               PROVE  /\ pc'[log'[f][l]] \notin {"none", "reverted"}
                      /\ Unfinished(log[f][l])' =>
                           /\ Context(log'[f][l]) = Context(f) /\ log'[f][l][2] < f[2]
                           /\ log'[log'[f][l]][l] # NoRecord
    BY DEF RecordsOld
  <2> DEFINE v == log'[f][l]
  <2>1. CASE log[f][l] # NoRecord
    <3>1. v = log[f][l] /\ v \in Executives
      BY <1>2, <1>4, <2>1
    <3>2. /\ pc[v] \notin {"none", "reverted"}
          /\ Unfinished(v) => Context(v) = Context(f) /\ v[2] < f[2] /\ log[v][l] # NoRecord
      BY <1>6, <2>1, <3>1 DEF Records, RecordsOld
    <3>3. log[v][l] # NoRecord => log'[v][l] # NoRecord
      BY <1>4, <1>5, <3>1
    <3>4. Unfinished(log[f][l])' <=> Unfinished(v)
      BY <1>6, <3>1 DEF Unfinished
    <3> QED BY <1>6, <3>1, <3>2, <3>3, <3>4
  <2>2. CASE log[f][l] = NoRecord
    <3>1. f = e /\ l = k /\ v = storage[k] /\ v \in Executives
      BY <1>2, <1>4, <2>2
    <3>2. pc[v] \notin {"none", "reverted"} /\ (Unfinished(v) => log[v][k] # NoRecord)
      BY <1>7, <3>1
    <3>3. Unfinished(v) => Context(v) = Context(e) /\ v # e
      BY <1>7, <2>2, <3>1, <3>2
    <3>4. Unfinished(v) => v[2] < e[2] /\ log'[v][k] # NoRecord
      BY <1>1, <1>4, <3>1, <3>2, <3>3
    <3>5. Unfinished(log[f][l])' <=> Unfinished(v)
      BY <1>6, <3>1 DEF Unfinished
    <3> QED BY <1>6, <3>1, <3>2, <3>3, <3>4, <3>5
  <2> QED BY <2>1, <2>2
<1>10. RecordsNested'
  <2> SUFFICES ASSUME NEW f \in Executives, NEW g \in Executives, NEW l \in Keys,
                      Unfinished(f), Unfinished(g), Context(f) = Context(g), f[2] < g[2],
                      log'[f][l] # NoRecord, log'[g][l] # NoRecord
               PROVE  Context(log'[g][l]) = Context(f)
    BY <1>6 DEF RecordsNested
  <2>1. f # e \/ Context(g) # Context(e)
    <3>1. ASSUME f = e, Context(g) = Context(e) PROVE FALSE
      <4>1. g # e /\ g[2] < e[2]
        BY <1>1, <3>1
      <4> QED BY <3>1, <4>1
    <3> QED BY <3>1
  <2>2. f # e /\ log[f][l] # NoRecord
    BY <1>4, <2>1
  <2>3. CASE log[g][l] # NoRecord
    <3>1. log'[g][l] = log[g][l]
      BY <1>4, <2>3
    <3> QED BY <2>2, <2>3, <3>1 DEF Records, RecordsNested
  <2>4. CASE log[g][l] = NoRecord
    BY <1>4, <1>7, <2>2, <2>4
  <2> QED BY <2>3, <2>4
<1> QED BY <1>8, <1>9, <1>10 DEF Records

\* The end of an executive, and the rollback of its records when it is reverted.
LEMMA RecordsEnd ==
  ASSUME TypeOK, Nesting, Records, NEW e \in Executives, pc[e] \in {"run", "lock"},
         NEW outcome \in Outcomes, End(e, outcome)
  PROVE  Records'
<1> USE Pairs
<1>1. /\ \A f \in Executives : Context(f) = Context(e) /\ Unfinished(f) /\ f # e => f[2] < e[2]
      /\ Unfinished(e)
  BY Latest
<1>2. /\ storage \in [Keys -> Executives \cup {Nobody}]
      /\ log \in [Executives -> [Keys -> Executives \cup {Nobody, NoRecord}]]
      /\ touched \in [Executives -> SUBSET Keys]
  BY DEF TypeOK, StorageType
<1>3. /\ pc'[e] = outcome /\ outcome # "none"
      /\ \A f \in Executives : f # e => /\ pc'[f] = pc[f] /\ touched'[f] = touched[f]
                                       /\ log'[f] = log[f]
      /\ \A f \in Executives : Unfinished(f)' <=> f # e /\ Unfinished(f)
  BY <1>2 DEF End, Unfinished, Outcomes, TypeOK, ExecutiveType
<1>4. \A k \in Keys : \/ storage'[k] = storage[k] /\ (outcome = "reverted" => log[e][k] = NoRecord)
                     \/ /\ outcome = "reverted" /\ log[e][k] # NoRecord
                        /\ storage'[k] = log[e][k]
  BY <1>2 DEF End, Rollback
<1>5. /\ \A f \in Executives, k \in Keys : Unfinished(f) /\ log[f][k] # NoRecord =>
           k \in touched[f] /\ Context(storage[k]) = Context(f)
      /\ \A k \in Keys : storage[k] # Nobody =>
           /\ pc[storage[k]] \notin {"none", "reverted"}
           /\ Unfinished(storage[k]) => log[storage[k]][k] # NoRecord
  BY DEF Records, RecordsStorage
<1>6. \A f \in Executives, k \in Keys :
         Unfinished(f) /\ log[f][k] \notin {Nobody, NoRecord} =>
           /\ pc[log[f][k]] \notin {"none", "reverted"}
           /\ Unfinished(log[f][k]) =>
                /\ Context(log[f][k]) = Context(f) /\ log[f][k][2] < f[2]
                /\ log[log[f][k]][k] # NoRecord
  BY DEF Records, RecordsOld
<1>7. \A f \in Executives, k \in Keys : Unfinished(f) => log[f][k] # e
  <2> SUFFICES ASSUME NEW f \in Executives, NEW k \in Keys, Unfinished(f), log[f][k] = e
               PROVE  FALSE
    OBVIOUS
  <2>1. Context(e) = Context(f) /\ e[2] < f[2]
    BY <1>1, <1>6
  <2>2. f # e /\ f[2] < e[2]
    BY <1>1, <2>1
  <2> QED BY <2>1, <2>2
<1>8. RecordsStorage'
  <2>1. ASSUME NEW f \in Executives, NEW k \in Keys, Unfinished(f)', log'[f][k] # NoRecord
        PROVE  k \in touched'[f] /\ Context(storage'[k]) = Context(f)
    <3>1. f # e /\ Unfinished(f) /\ log[f][k] # NoRecord
      BY <1>3, <2>1
    <3>2. k \in touched'[f] /\ Context(storage[k]) = Context(f)
      BY <1>3, <1>5, <3>1
    <3>3. CASE storage'[k] = storage[k]
      BY <3>2, <3>3
    <3>4. CASE log[e][k] # NoRecord /\ storage'[k] = log[e][k]
      <4>1. Context(f) = Context(e)
        BY <1>1, <1>5, <3>2, <3>4
      <4>2. f[2] < e[2]
        BY <1>1, <3>1, <4>1
      <4> QED BY <1>1, <3>1, <3>2, <3>4, <4>1, <4>2 DEF Records, RecordsNested
    <3> QED BY <1>4, <3>3, <3>4
  <2>2. ASSUME NEW k \in Keys, storage'[k] # Nobody
        PROVE  /\ pc'[storage'[k]] \notin {"none", "reverted"}
               /\ Unfinished(storage[k])' => log'[storage'[k]][k] # NoRecord
    <3> DEFINE v == storage'[k]
    <3>1. CASE v = storage[k] /\ (outcome = "reverted" => log[e][k] = NoRecord)
      <4>1. v \in Executives /\ pc[v] \notin {"none", "reverted"}
        BY <1>2, <1>5, <2>2, <3>1
      <4>2. CASE v = e
        <5>1. outcome # "reverted"
          BY <1>1, <1>5, <2>2, <3>1, <4>2
        <5>2. ~Unfinished(storage[k])'
          BY <1>3, <4>2 DEF Unfinished, Outcomes
        <5> QED BY <1>3, <4>2, <5>1, <5>2
      <4>3. CASE v # e
        <5>1. Unfinished(storage[k])' <=> Unfinished(v)
          BY <1>3, <4>1, <4>3 DEF Unfinished
        <5> QED BY <1>3, <1>5, <2>2, <3>1, <4>1, <4>3, <5>1
      <4> QED BY <4>2, <4>3
    <3>2. CASE log[e][k] # NoRecord /\ v = log[e][k]
      <4>1. v \in Executives /\ v # e
        BY <1>1, <1>2, <1>7, <2>2, <3>2
      <4>2. Unfinished(storage[k])' <=> Unfinished(v)
        BY <1>3, <4>1 DEF Unfinished
      <4> QED BY <1>1, <1>3, <1>6, <2>2, <3>2, <4>1, <4>2
    <3> QED BY <1>4, <3>1, <3>2
  <2> QED BY <2>1, <2>2 DEF RecordsStorage
<1>9. RecordsOld'
  <2> SUFFICES ASSUME NEW f \in Executives, NEW k \in Keys, f # e, Unfinished(f),
                      log[f][k] \notin {Nobody, NoRecord}
               PROVE  /\ pc'[log[f][k]] \notin {"none", "reverted"}
                      /\ Unfinished(log[f][k])' =>
                           /\ Context(log[f][k]) = Context(f) /\ log[f][k][2] < f[2]
                           /\ log'[log[f][k]][k] # NoRecord
    BY <1>3 DEF RecordsOld
  <2>1. log[f][k] \in Executives /\ log[f][k] # e
    BY <1>2, <1>7
  <2>2. Unfinished(log[f][k])' <=> Unfinished(log[f][k])
    BY <1>3, <2>1 DEF Unfinished
  <2> QED BY <1>3, <1>6, <2>1, <2>2
<1>10. RecordsNested'
  BY <1>3 DEF Records, RecordsNested
<1> QED BY <1>8, <1>9, <1>10 DEF Records

\* An access, by an executive that runs or has just been granted the lock of the row.
LEMMA RecordsAccess ==
  ASSUME TypeOK, Nesting, Records, NEW e \in Executives, NEW k \in Keys, NEW write \in BOOLEAN,
         pc[e] \in {"run", "lock"}, pc'[e] = "run",
         \A f \in Executives : f # e => pc'[f] = pc[f],
         \A f \in Executives : Unfinished(f) /\ k \in touched[f] => Context(f) = Context(e),
         AccessStorage(e, e, k, write)
  PROVE  Records'
<1>1. CASE write
  <2>1. AccessStorage(e, e, k, TRUE)
    BY <1>1 DEF AccessStorage
  <2> QED BY <2>1, RecordsWrite
<1>2. CASE ~write
  <2>1. UNCHANGED <<storage, log>> /\ \A f \in Executives : touched[f] \subseteq touched'[f]
    BY <1>2 DEF AccessStorage, TypeOK, StorageType
  <2>2. Unfinished(e) /\ Unfinished(e)'
    BY DEF Unfinished
  <2> QED BY <2>1, <2>2, RecordsKept
<1> QED BY <1>1, <1>2

-----------------------------------------------------------------------------
(* The inductive invariant, and the theorems.                               *)

\* The invariant holds initially.
LEMMA InitInv == Init => IInv
<1> SUFFICES ASSUME Init PROVE IInv
  OBVIOUS
<1> USE Pairs
<1>1. TypeOK
  BY InitType
<1>2. Nesting
  BY DEF Init, Nesting, NestingTop, NestingBelow, NestingParent, Unfinished
<1>3. Locks
  BY DEF Init, Locks, LocksSuspended, LocksActive, Unfinished
<1>4. Records
  BY DEF Init, Records, RecordsStorage, RecordsOld, RecordsNested, Unfinished, NoRecords
<1> QED BY <1>1, <1>2, <1>3, <1>4 DEF IInv

\* Every step keeps the invariant.
LEMMA StepInv ==
  ASSUME IInv, [Next]_vars
  PROVE  IInv'
<1> USE Pairs
<1>0. TypeOK /\ Nesting /\ Locks /\ Records /\ LocksActive
  BY DEF IInv, Locks
<1>1. TypeOK'
  BY <1>0, StepType
<1>2. ASSUME NEW e \in Executives, Start(e)
      PROVE  Nesting' /\ Locks' /\ Records'
  <2>1. Nesting'
    BY <1>0, <1>2, NestingStart
  <2>2. Locks'
    BY <1>0, <1>2, LocksSwitch DEF Start
  <2>3. /\ \A f \in Executives : f # e => pc'[f] = pc[f]
        /\ Unfinished(e)' /\ pc[e] = "none" /\ log[e] = NoRecords
    BY <1>0, <1>2 DEF Start, SwitchTo, Unfinished, TypeOK, ExecutiveType, Locks, LocksSuspended
  <2>4. UNCHANGED <<storage, log>> /\ \A f \in Executives : touched[f] \subseteq touched'[f]
    BY <1>2 DEF Start
  <2> QED BY <1>0, <2>1, <2>2, <2>3, <2>4, RecordsKept
<1>3. ASSUME NEW e \in Executives, Resume(e)
      PROVE  Nesting' /\ Locks' /\ Records'
  <2>1. /\ Unfinished(e) /\ top[Context(e)] = e /\ pc' = [pc EXCEPT ![e] = "run"]
        /\ UNCHANGED schedulerVars
    BY <1>3 DEF Resume, SwitchTo, Unfinished
  <2>2. Nesting'
    BY <1>0, <2>1, NestingSwitch
  <2>3. Locks'
    BY <1>0, <1>3, LocksSwitch DEF Resume
  <2>4. /\ \A f \in Executives : f # e => pc'[f] = pc[f]
        /\ Unfinished(e)'
    BY <1>0, <2>1 DEF Unfinished, TypeOK, ExecutiveType
  <2>5. UNCHANGED <<storage, log>> /\ \A f \in Executives : touched[f] \subseteq touched'[f]
    BY <1>3 DEF Resume
  <2> QED BY <1>0, <2>1, <2>2, <2>3, <2>4, <2>5, RecordsKept
<1>4. ASSUME NEW e \in Executives, Grant(e)
      PROVE  Nesting' /\ Locks' /\ Records'
  <2>1. pc[e] = "lock" /\ pc' = [pc EXCEPT ![e] = "run"] /\ UNCHANGED schedulerVars /\ active = Nobody
    BY <1>4 DEF Grant, SwitchTo
  <2>2. Unfinished(e) /\ top[Context(e)] = e
    BY <1>0, <2>1, Latest
  <2>3. Nesting'
    BY <1>0, <2>1, <2>2, NestingSwitch
  <2>4. Locks'
    BY <1>0, <1>4, LocksGrant
  <2>5. pc'[e] = "run" /\ \A f \in Executives : f # e => pc'[f] = pc[f]
    BY <1>0, <2>1 DEF TypeOK, ExecutiveType
  <2>6. /\ want[e].key \in Keys /\ want[e].write \in BOOLEAN
        /\ keyLocks[want[e].key] \in {NoContext, Context(e)}
        /\ AccessStorage(e, e, want[e].key, want[e].write)
    BY <1>0, <1>4 DEF Grant, TypeOK, ExecutiveType
  <2>7. \A f \in Executives : Unfinished(f) /\ want[e].key \in touched[f] => Context(f) = Context(e)
    BY <1>0, <2>1, <2>6 DEF Locks, LocksSuspended
  <2> QED BY <1>0, <2>1, <2>3, <2>4, <2>5, <2>6, <2>7, RecordsAccess
<1>5. ASSUME NEW e \in Executives, NEW outcome \in Outcomes, End(e, outcome),
             pc[e] \in {"run", "lock"}, active \in {e, Nobody}
      PROVE  Nesting' /\ Locks' /\ Records'
  BY <1>0, <1>5, NestingEnd, LocksEnd, RecordsEnd
<1>6. ASSUME NEW e \in Executives, DeadLock(e)
      PROVE  Nesting' /\ Locks' /\ Records'
  BY <1>5, <1>6 DEF DeadLock, Outcomes
<1>7. ASSUME NEW e \in Executives, Finish(e)
      PROVE  Nesting' /\ Locks' /\ Records'
  <2>1. PICK outcome \in Outcomes : End(e, outcome)
    BY <1>7 DEF Finish, CallPrecompiledOutcomes, CreateOutcomes, CallOutcomes, EVMCOutcomes,
                Outcomes
  <2> QED BY <1>5, <1>7, <2>1 DEF Finish
<1>8. ASSUME NEW e \in Executives, ExternalCall(e)
      PROVE  Nesting' /\ Locks' /\ Records'
  <2>1. /\ active = e /\ pc[e] = "run" /\ ExportKeyLocks(e) /\ pc' = [pc EXCEPT ![e] = "call"]
        /\ active' = Nobody /\ UNCHANGED <<storage, touched, log>>
    BY <1>8 DEF ExternalCall
  <2>2. Nesting'
    BY <1>0, <1>8, NestingCall
  <2>3. Locks'
    BY <1>0, <2>1, LocksExport
  <2>4. /\ \A f \in Executives : f # e => pc'[f] = pc[f]
        /\ Unfinished(e) /\ Unfinished(e)'
    BY <1>0, <2>1 DEF Unfinished, TypeOK, ExecutiveType
  <2>5. \A f \in Executives : touched[f] \subseteq touched'[f]
    BY <2>1
  <2> QED BY <1>0, <2>1, <2>2, <2>3, <2>4, <2>5, RecordsKept
<1>9. ASSUME NEW e \in Executives, NEW k \in Keys, NEW write \in BOOLEAN, Access(e, k, write)
      PROVE  Nesting' /\ Locks' /\ Records'
  <2>1. active = e /\ pc[e] = "run" /\ recoder = e /\ UNCHANGED schedulerVars
    BY <1>0, <1>9 DEF Access, LocksActive
  <2>2. Unfinished(e) /\ top[Context(e)] = e
    BY <1>0, <2>1, Latest
  <2>3. CASE k \in m_existsKeyLocks[e]
    <3>1. /\ ExportKeyLocks(e) /\ pc' = [pc EXCEPT ![e] = "lock"] /\ active' = Nobody
          /\ UNCHANGED <<storage, touched, log>>
      BY <1>9, <2>3 DEF Access
    <3>2. Nesting'
      BY <1>0, <2>1, <2>2, <3>1, NestingSwitch
    <3>3. Locks'
      BY <1>0, <2>1, <3>1, LocksExport
    <3>4. (\A f \in Executives : f # e => pc'[f] = pc[f]) /\ Unfinished(e)'
      BY <1>0, <3>1 DEF Unfinished, TypeOK, ExecutiveType
    <3>5. \A f \in Executives : touched[f] \subseteq touched'[f]
      BY <3>1
    <3> QED BY <1>0, <2>2, <3>1, <3>2, <3>3, <3>4, <3>5, RecordsKept
  <2>4. CASE k \notin m_existsKeyLocks[e]
    <3>1. pc' = pc /\ AccessStorage(e, e, k, write)
      BY <1>9, <2>1, <2>4 DEF Access
    <3>2. pc' = [pc EXCEPT ![e] = "run"]
      BY <1>0, <2>1, <3>1 DEF TypeOK, ExecutiveType
    <3>3. Nesting'
      BY <1>0, <2>1, <2>2, <3>2, NestingSwitch
    <3>4. Locks'
      BY <1>0, <1>9, <2>4, LocksAccess
    <3>5. keyLocks[k] \in {NoContext, Context(e)}
      BY <1>0, <2>1, <2>4 DEF LocksActive, OthersLocks
    <3>6. \A f \in Executives : Unfinished(f) /\ k \in touched[f] => Context(f) = Context(e)
      BY <1>0, <2>1, <3>5 DEF Locks, LocksSuspended
    <3> QED BY <1>0, <2>1, <3>1, <3>3, <3>4, <3>6, RecordsAccess
  <2> QED BY <2>3, <2>4
<1>10. ASSUME UNCHANGED vars
       PROVE  Nesting' /\ Locks' /\ Records'
  <2>1. Nesting'
    BY <1>0, <1>10 DEF vars, schedulerVars, Nesting, NestingTop, NestingBelow, NestingParent,
                       Unfinished
  <2>2. Locks'
    BY <1>0, <1>10 DEF vars, wrapperVars, Locks, LocksSuspended, LocksActive, OthersLocks,
                       Unfinished
  <2>3. Records'
    BY <1>0, <1>10 DEF vars, Records, RecordsStorage, RecordsOld, RecordsNested, Unfinished
  <2> QED BY <2>1, <2>2, <2>3
<1>11. Nesting' /\ Locks' /\ Records'
  BY <1>2, <1>3, <1>4, <1>6, <1>7, <1>8, <1>9, <1>10 DEF Next
<1> QED BY <1>1, <1>11 DEF IInv

\* The invariant holds in every reachable state.
THEOREM Invariance == Spec => []IInv
  BY InitInv, StepInv, PTL DEF Spec

\* The type invariant, which includes that one executive runs at a time.
THEOREM TypeCorrect == Spec => []TypeOK
<1>1. IInv => TypeOK
  BY DEF IInv
<1> QED BY <1>1, Invariance, PTL

\* However transactions are interleaved at their calls and waits, the key locks they
\* export and import keep any two of them from using a row at the same time.
THEOREM IsolationHolds == Spec => []Isolation
<1>1. IInv => Isolation
  <2> SUFFICES ASSUME IInv, NEW e \in Executives, NEW f \in Executives,
                      Context(e) # Context(f), Unfinished(e), Unfinished(f),
                      NEW k \in touched[e], k \in touched[f]
               PROVE  FALSE
    BY DEF Isolation
  <2>1. keyLocks[k] = Context(e) \/ (e = active /\ keyLocks[k] = NoContext)
    BY Pairs DEF IInv, Locks, LocksSuspended, LocksActive, TypeOK, ExecutiveType
  <2>2. keyLocks[k] = Context(f) \/ (f = active /\ keyLocks[k] = NoContext)
    BY Pairs DEF IInv, Locks, LocksSuspended, LocksActive, TypeOK, ExecutiveType
  <2> QED BY <2>1, <2>2, Pairs
<1> QED BY <1>1, Invariance, PTL

\* The storage holds no value of an executive that was reverted.
THEOREM RevertedLeavesNothingHolds == Spec => []RevertedLeavesNothing
<1>1. IInv => RevertedLeavesNothing
  BY DEF IInv, Records, RecordsStorage, RevertedLeavesNothing
<1> QED BY <1>1, Invariance, PTL

\* A revert changes only rows that hold values of its own transaction.
THEOREM RevertsOwnOnlyHolds == Spec => RevertsOwnOnly
<1>1. IInv /\ [Next]_vars =>
        [\A e \in Executives : pc[e] # "reverted" /\ pc'[e] = "reverted" =>
           \A k \in Keys : storage'[k] # storage[k] => Context(storage[k]) = Context(e)]_vars
  <2> SUFFICES ASSUME IInv, Next, NEW e \in Executives, pc[e] # "reverted",
                      pc'[e] = "reverted", NEW k \in Keys, storage'[k] # storage[k]
               PROVE  Context(storage[k]) = Context(e)
    OBVIOUS
  <2>1. pc \in [Executives -> {"none", "run", "call", "lock"} \cup Outcomes]
    BY DEF IInv, TypeOK, ExecutiveType
  <2>2. pc[e] \in {"run", "lock"} /\ \E outcome \in Outcomes : End(e, outcome)
    <3>1. PICK f \in Executives :
            \/ Start(f) \/ Resume(f) \/ Grant(f) \/ DeadLock(f) \/ Finish(f) \/ ExternalCall(f)
            \/ \E l \in Keys, write \in BOOLEAN : Access(f, l, write)
      BY DEF Next
    <3>2. CASE Start(f) \/ Resume(f) \/ Grant(f)
      BY <2>1, <3>2 DEF Start, Resume, Grant, SwitchTo
    <3>3. CASE ExternalCall(f)
      BY <2>1, <3>3 DEF ExternalCall
    <3>4. CASE \E l \in Keys, write \in BOOLEAN : Access(f, l, write)
      BY <2>1, <3>4 DEF Access
    <3>5. ASSUME NEW outcome \in Outcomes, End(f, outcome), pc[f] \in {"run", "lock"}
          PROVE  pc[e] \in {"run", "lock"} /\ \E o \in Outcomes : End(e, o)
      <4>1. f = e
        BY <2>1, <3>5 DEF End
      <4> QED BY <3>5, <4>1
    <3>6. CASE DeadLock(f)
      BY <3>5, <3>6 DEF DeadLock, Outcomes
    <3>7. CASE Finish(f)
      BY <3>5, <3>7 DEF Finish, CallPrecompiledOutcomes, CreateOutcomes, CallOutcomes,
                        EVMCOutcomes, Outcomes
    <3> QED BY <3>1, <3>2, <3>3, <3>4, <3>6, <3>7
  <2>3. log[e][k] # NoRecord
    BY <2>2 DEF End, Rollback
  <2> QED BY <2>2, <2>3 DEF IInv, Records, RecordsStorage, Unfinished
<1> QED BY <1>1, Invariance, PTL DEF Spec, RevertsOwnOnly
=============================================================================
