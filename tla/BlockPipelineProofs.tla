------------------------ MODULE BlockPipelineProofs ------------------------
(***************************************************************************)
(* Proofs about BlockPipeline, for any rows, bounds, with and without the  *)
(* cached storage.                                                         *)
(*                                                                         *)
(* That the cached storage agrees with the backend outside a commit is not *)
(* inductive: what the backend commits is what it staged, so the staged    *)
(* rows must be those of the first block (StagedRows), which is so because *)
(* a prepared storage is written no more and storages are fresh            *)
(* (FreshStorages); and during the commit a row of the cache may be stale  *)
(* only if it is still to be merged (CacheDuring).                         *)
(*                                                                         *)
(* That the pipeline implements Ledger needs what the blocks show.  Below  *)
(* the uncommitted blocks a read finds the durable rows at every moment of *)
(* a commit, in the cached storage or in the storage of the committed      *)
(* block (BelowIsDurable).  So the views are determined by the backend,    *)
(* the list and the rows of its storages (Viewed), and they change as in   *)
(* Ledger.                                                                 *)
(***************************************************************************)
EXTENDS BlockPipeline, SequenceTheorems, WellFoundedInduction, TLAPS

Listed(s) == \E i \in 1 .. Len(m_stateStorages) : m_stateStorages[i].sid = s

Acknowledged == commit.stage \in {"acked", "merge", "erase"}

FreshStorages ==
  /\ \A s \in Sids : Listed(s) => s <= created
  /\ staged.sid <= created
  /\ Listed(staged.sid) => staged.sid \in prepared

StagedRows ==
  staged.sid \in prepared =>
    staged.rows = [k \in Keys |-> IF k \in writes[staged.sid] THEN staged.sid ELSE Absent]

\* removeCommittedState takes the first block of the list three times, twice under separate
\* locks: the block it merges and the one it erases are the one that was committed.
MergesWhatWasCommitted ==
  commit.stage # "none" =>
    /\ m_stateStorages # <<>>
    /\ Head(m_stateStorages).number = commit.number
    /\ commit.stage \in {"merge", "erase"} => Head(m_stateStorages).sid = commit.sid

CommitInFlight ==
  /\ commit.stage = "sent" => /\ staged.sid = Head(m_stateStorages).sid
                              /\ staged.number = commit.number
  /\ Acknowledged =>
       /\ Head(m_stateStorages).sid \in prepared
       /\ \A k \in writes[Head(m_stateStorages).sid] : backend[k] = Head(m_stateStorages).sid
  /\ commit.stage = "merge" => HasCache /\ commit.left \subseteq writes[commit.sid]

CacheDuring ==
  \A k \in Keys : cache[k] # Absent =>
    \/ cache[k] = backend[k]
    \/ commit.stage = "acked" /\ k \in writes[Head(m_stateStorages).sid]
    \/ commit.stage = "merge" /\ k \in commit.left

NoCache == ~HasCache => cache = NoRows

IInv ==
  /\ TypeOK /\ ChainLinked /\ MergesWhatWasCommitted
  /\ FreshStorages /\ StagedRows /\ CommitInFlight /\ CacheDuring /\ NoCache

USE BoundsAssumption DEF Sids, Base, None, Absent, Values, Blocks

\* A fresh executor on an empty chain satisfies the invariant.
LEMMA Initially == Init => IInv
  BY DEF Init, IInv, TypeOK, ChainLinked, MergesWhatWasCommitted, FreshStorages, StagedRows,
         CommitInFlight, CacheDuring, NoCache, NoContext, NoCommit, NoStaged, NoRows, Listed,
         Acknowledged

\* The ends of a list of blocks that is not empty.
LEMMA ListEnds ==
  ASSUME NEW q \in Seq(Blocks), q # <<>>
  PROVE  /\ Len(q) \in Nat \ {0} /\ Head(q) = q[1] /\ Last(q) = q[Len(q)]
         /\ \A i \in 1 .. Len(q) : q[i] \in Blocks
         /\ Tail(q) \in Seq(Blocks) /\ Len(Tail(q)) = Len(q) - 1
         /\ \A i \in 1 .. Len(q) - 1 : Tail(q)[i] = q[i + 1]
<1> HIDE DEF Blocks
<1>1. Len(q) \in Nat \ {0} /\ \A i \in 1 .. Len(q) : q[i] \in Blocks
  BY EmptySeq, LenProperties
<1>2. Head(q) = q[1] /\ Tail(q) \in Seq(Blocks) /\ Len(Tail(q)) = Len(q) - 1
      /\ \A i \in 1 .. Len(Tail(q)) : Tail(q)[i] = q[i + 1]
  BY HeadTailProperties
<1> QED  BY <1>1, <1>2 DEF Last

\* What nextBlockHeader's emplace_back makes of the list.
LEMMA ListAppend ==
  ASSUME NEW q \in Seq(Blocks), NEW b \in Blocks
  PROVE  /\ Append(q, b) \in Seq(Blocks) /\ Append(q, b) # <<>>
         /\ Len(q) \in Nat /\ Len(Append(q, b)) = Len(q) + 1
         /\ Append(q, b)[Len(q) + 1] = b
         /\ \A i \in 1 .. Len(q) : Append(q, b)[i] = q[i]
         /\ q = <<>> <=> Len(q) = 0
<1> HIDE DEF Blocks
<1> QED  BY AppendProperties, EmptySeq, LenProperties

\* The fields of a block of the list.
LEMMA Fields == \A b \in Blocks : b.sid \in Sids /\ b.number \in 1 .. MaxBlock
  OBVIOUS

\* ListEnds for m_stateStorages.
LEMMA Ends ==
  ASSUME TypeOK, m_stateStorages # <<>>
  PROVE  /\ Len(m_stateStorages) \in Nat \ {0}
         /\ Head(m_stateStorages) = m_stateStorages[1]
         /\ Last(m_stateStorages) = m_stateStorages[Len(m_stateStorages)]
         /\ \A i \in 1 .. Len(m_stateStorages) :
              /\ m_stateStorages[i].sid \in Sids
              /\ m_stateStorages[i].number \in 1 .. MaxBlock
         /\ Tail(m_stateStorages) \in Seq(Blocks)
         /\ Len(Tail(m_stateStorages)) = Len(m_stateStorages) - 1
         /\ \A i \in 1 .. Len(m_stateStorages) - 1 :
              Tail(m_stateStorages)[i] = m_stateStorages[i + 1]
<1>1. m_stateStorages \in Seq(Blocks)
  BY DEF TypeOK
<1> HIDE DEF Blocks, Sids
<1> QED  BY <1>1, ListEnds, Fields

\* No storage of the list is None.
LEMMA NoneNotListed ==
  ASSUME TypeOK
  PROVE  ~Listed(None)
<1>1. m_stateStorages = <<>> => Len(m_stateStorages) = 0
  OBVIOUS
<1> QED  BY <1>1, Ends DEF Listed

\* ChainLinked, of any list.
Linked(q, p, ro) ==
  \A i \in 1 .. Len(q) :
    /\ p[q[i].sid] = IF i = 1 THEN Base ELSE q[i - 1].sid
    /\ i > 1 => q[i].number = q[i - 1].number + 1
    /\ i < Len(q) => q[i].sid \in ro
    /\ \A j \in 1 .. i - 1 : q[j].sid < q[i].sid

\* A block laid on the last one keeps the list one chain.
LEMMA LinkedAppend ==
  ASSUME NEW q \in Seq(Blocks), NEW p \in [Sids -> Sids \cup {Base}], NEW ro, NEW b \in Blocks,
         NEW p2, NEW ro2, Linked(q, p, ro),
         \A i \in 1 .. Len(q) : q[i].sid < b.sid,
         q # <<>> => b.number = Last(q).number + 1,
         p2 = [p EXCEPT ![b.sid] = IF q = <<>> THEN Base ELSE Last(q).sid],
         ro2 = IF q = <<>> THEN ro ELSE ro \cup {Last(q).sid}
  PROVE  Linked(Append(q, b), p2, ro2)
<1> DEFINE r == Append(q, b)
           m == Len(q)
<1>1. /\ m \in Nat /\ Len(r) = m + 1 /\ r[m + 1] = b
      /\ \A i \in 1 .. m : r[i] = q[i] /\ q[i] \in Blocks
      /\ q = <<>> <=> m = 0
      /\ m # 0 => Last(q) = q[m]
  <2> HIDE DEF Blocks
  <2> QED  BY ListAppend, ListEnds
<1>2. /\ b.sid \in Sids
      /\ \A i \in 1 .. m : q[i].sid \in Sids /\ q[i].sid # b.sid
  <2>1. \A i \in 1 .. m : q[i].sid \in Sids /\ b.sid \in Sids
    BY <1>1, Fields
  <2> QED  BY <2>1, Fields
<1> HIDE DEF r, m, Blocks, Sids
<1> SUFFICES ASSUME NEW i \in 1 .. m + 1
             PROVE  /\ p2[r[i].sid] = IF i = 1 THEN Base ELSE r[i - 1].sid
                    /\ i > 1 => r[i].number = r[i - 1].number + 1
                    /\ i < m + 1 => r[i].sid \in ro2
                    /\ \A j \in 1 .. i - 1 : r[j].sid < r[i].sid
  BY <1>1 DEF Linked, r
<1>3. CASE i = m + 1
  <2>1. r[i] = b /\ (i > 1 => m # 0 /\ r[i - 1] = q[m]) /\ (i = 1 => m = 0)
    BY <1>1, <1>3
  <2>2. \A j \in 1 .. i - 1 : r[j].sid < b.sid
    BY <1>1, <1>3 DEF m
  <2> QED  BY <1>1, <1>2, <1>3, <2>1, <2>2
<1>4. CASE i \in 1 .. m
  <2>1. /\ r[i] = q[i] /\ (i > 1 => r[i - 1] = q[i - 1])
        /\ \A j \in 1 .. i - 1 : r[j] = q[j]
    BY <1>1, <1>4
  <2>2. /\ p[q[i].sid] = IF i = 1 THEN Base ELSE q[i - 1].sid
        /\ i > 1 => q[i].number = q[i - 1].number + 1
        /\ i < m => q[i].sid \in ro
        /\ \A j \in 1 .. i - 1 : q[j].sid < q[i].sid
    BY <1>4 DEF Linked, m
  <2>3. p2[q[i].sid] = p[q[i].sid]
    BY <1>2, <1>4
  <2>4. q[i].sid \in ro2
    BY <1>1, <1>4, <2>2
  <2> QED  BY <2>1, <2>2, <2>3, <2>4
<1> QED  BY <1>1, <1>3, <1>4

\* Erasing the first block and laying the next on the base keeps the list one chain.
LEMMA LinkedTail ==
  ASSUME NEW q \in Seq(Blocks), q # <<>>, NEW p \in [Sids -> Sids \cup {Base}], NEW ro,
         NEW p2, Linked(q, p, ro),
         p2 = IF Len(q) > 1 THEN [p EXCEPT ![q[2].sid] = Base] ELSE p
  PROVE  Linked(Tail(q), p2, ro)
<1> DEFINE r == Tail(q)
           m == Len(q)
<1>1. /\ m \in Nat \ {0} /\ Len(r) = m - 1
      /\ \A i \in 1 .. m - 1 : r[i] = q[i + 1]
      /\ \A i \in 1 .. m : q[i] \in Blocks
  <2> HIDE DEF Blocks
  <2> QED  BY ListEnds
<1>2. \A i \in 1 .. m : q[i].sid \in Sids
  BY <1>1, Fields
<1>3. \A i \in 1 .. m : \A j \in 1 .. i - 1 : q[j].sid < q[i].sid
  BY DEF Linked
<1>4. \A i \in 3 .. m : q[2].sid # q[i].sid
  BY <1>1, <1>2, <1>3
<1> HIDE DEF r, m, Blocks, Sids
<1> SUFFICES ASSUME NEW i \in 1 .. m - 1
             PROVE  /\ p2[r[i].sid] = IF i = 1 THEN Base ELSE r[i - 1].sid
                    /\ i > 1 => r[i].number = r[i - 1].number + 1
                    /\ i < m - 1 => r[i].sid \in ro
                    /\ \A j \in 1 .. i - 1 : r[j].sid < r[i].sid
  BY <1>1 DEF Linked, r
<1>5. /\ r[i] = q[i + 1] /\ i + 1 \in 1 .. m /\ m > 1
      /\ i > 1 => r[i - 1] = q[i] /\ i + 1 \in 3 .. m
  BY <1>1
<1>6. \A j \in 1 .. i - 1 : r[j] = q[j + 1] /\ j + 1 \in 1 .. i
  BY <1>1
<1>7. /\ p[q[i + 1].sid] = q[i].sid
      /\ q[i + 1].number = q[i].number + 1
      /\ i + 1 < m => q[i + 1].sid \in ro
  BY <1>1, <1>5 DEF Linked, m
<1>8. p2[q[i + 1].sid] = IF i = 1 THEN Base ELSE q[i].sid
  <2>1. p2 = [p EXCEPT ![q[2].sid] = Base]
    BY <1>5 DEF m
  <2>2. CASE i = 1
    BY <2>1, <2>2, <1>2, <1>5
  <2>3. CASE i > 1
    BY <2>1, <2>3, <1>2, <1>4, <1>5, <1>7
  <2> QED  BY <2>2, <2>3, <1>1
<1>9. \A j \in 1 .. i - 1 : r[j].sid < r[i].sid
  BY <1>1, <1>3, <1>5, <1>6
<1> QED  BY <1>1, <1>5, <1>7, <1>8, <1>9

-----------------------------------------------------------------------------
(* One lemma per action: it preserves IInv.                                 *)

\* nextBlockHeader: the new storage is fresh and laid on the last block.
LEMMA NextBlockHeaderKeeps ==
  ASSUME IInv, NEW n \in 1 .. MaxBlock, NextBlockHeader(n)
  PROVE  IInv'
<1> DEFINE q == m_stateStorages
           s == created + 1
           b == [number |-> n, sid |-> s]
<1> USE DEF NextBlockHeader
<1>0. TypeOK
  BY DEF IInv
<1>1. q \in Seq(Blocks) /\ b \in Blocks /\ s \in Sids /\ s > created /\ b.sid = s /\ b.number = n
  BY <1>0 DEF TypeOK
<1>2. /\ q' = Append(q, b)
      /\ prevOf' = [prevOf EXCEPT ![s] = IF q = <<>> THEN Base ELSE Last(q).sid]
      /\ readOnly' = IF q = <<>> THEN readOnly ELSE readOnly \cup {Last(q).sid}
      /\ q # <<>> => n = Last(q).number + 1
  OBVIOUS
<1>3. /\ q' \in Seq(Blocks) /\ q' # <<>> /\ Len(q) \in Nat /\ Len(q') = Len(q) + 1
      /\ q'[Len(q) + 1] = b /\ \A i \in 1 .. Len(q) : q'[i] = q[i]
  <2> HIDE DEF Blocks, b, NextBlockHeader
  <2> QED  BY <1>1, <1>2, ListAppend
<1>4. q # <<>> => Head(q') = Head(q) /\ Last(q).sid \in Sids
  <2> HIDE DEF Blocks, b, NextBlockHeader
  <2>1. Head(q') = IF q = <<>> THEN b ELSE Head(q)
    BY <1>1, <1>2, HeadTailAppend
  <2> QED  BY <2>1, <1>0, Ends
<1>5. TypeOK'
  <2>1. prevOf' \in [Sids -> Sids \cup {Base}] /\ readOnly' \subseteq Sids
    BY <1>0, <1>1, <1>2, <1>4 DEF TypeOK
  <2>2. m_blockContext' \in [number : 0 .. MaxBlock, sid : Sids \cup {None},
                             last : Sids \cup {None}]
    <3>1. m_blockContext' = [number |-> n, sid |-> s,
            last |-> IF q = <<>> THEN m_lastStateStorage ELSE Last(q).sid]
      OBVIOUS
    <3>2. (IF q = <<>> THEN m_lastStateStorage ELSE Last(q).sid) \in Sids \cup {None}
      BY <1>0, <1>4 DEF TypeOK
    <3> HIDE DEF NextBlockHeader, s, Sids
    <3> QED  BY <3>1, <3>2, <1>1
  <2>3. created' \in 0 .. MaxStorage
    BY <1>0 DEF TypeOK
  <2> QED  BY <1>0, <1>3, <2>1, <2>2, <2>3 DEF TypeOK
<1>6. \A i \in 1 .. Len(q) : q[i].sid < s
  <2>1. \A i \in 1 .. Len(q) : q[i].sid \in Sids /\ Listed(q[i].sid)
    BY <1>0, <1>3, Ends DEF Listed
  <2>2. \A i \in 1 .. Len(q) : q[i].sid <= created
    BY <2>1 DEF IInv, FreshStorages
  <2>3. created \in Nat /\ \A x \in Sids : x \in Nat
    BY <1>0 DEF TypeOK
  <2> HIDE DEF NextBlockHeader, Sids
  <2> QED  BY <2>1, <2>2, <2>3
<1>7. ChainLinked'
  <2>1. Linked(q, prevOf, readOnly) /\ prevOf \in [Sids -> Sids \cup {Base}]
    BY DEF IInv, ChainLinked, Linked, TypeOK
  <2>2. Linked(q', prevOf', readOnly')
    <3> HIDE DEF NextBlockHeader, Blocks, b, s, Sids
    <3> QED  BY <1>1, <1>2, <1>6, <2>1, LinkedAppend
  <2> QED  BY <2>2 DEF ChainLinked, Linked
<1>8. MergesWhatWasCommitted'
  BY <1>3, <1>4 DEF IInv, MergesWhatWasCommitted
<1>9. FreshStorages'
  <2>1. \A x : Listed(x)' => x = s \/ Listed(x)
    <3> SUFFICES ASSUME NEW x, NEW i \in 1 .. Len(q) + 1, q'[i].sid = x
                 PROVE  x = s \/ \E j \in 1 .. Len(q) : q[j].sid = x
      BY <1>3 DEF Listed
    <3> HIDE DEF NextBlockHeader, b, s
    <3>1. CASE i = Len(q) + 1
      BY <3>1, <1>1, <1>3
    <3>2. CASE i \in 1 .. Len(q)
      BY <3>2, <1>3
    <3> QED  BY <3>1, <3>2, <1>3
  <2>2. staged.sid <= created /\ staged' = staged /\ created' = s
    BY DEF IInv, FreshStorages
  <2>3. staged.sid \in Nat /\ created \in Nat
    BY <1>0 DEF TypeOK
  <2>4. staged.sid # s
    BY <2>2, <2>3, <1>1
  <2>5. \A x \in Sids : Listed(x)' => x <= s
    BY <2>1, <2>3 DEF IInv, FreshStorages
  <2> HIDE DEF s
  <2> QED  BY <2>1, <2>2, <2>3, <2>4, <2>5, <1>1 DEF IInv, FreshStorages
<1>10. StagedRows'
  BY DEF IInv, StagedRows
<1>11. CommitInFlight' /\ CacheDuring' /\ NoCache'
  BY <1>4 DEF IInv, MergesWhatWasCommitted, CommitInFlight, Acknowledged, CacheDuring, NoCache
<1> QED  BY <1>5, <1>7, <1>8, <1>9, <1>10, <1>11 DEF IInv

\* executeTransaction: a storage handed to prepare is not written.
LEMMA ExecuteKeeps ==
  ASSUME IInv, NEW key \in Keys, Execute(key)
  PROVE  IInv'
<1> USE DEF Execute, memoryVars
<1>1. TypeOK'
  BY DEF IInv, TypeOK
<1>2. /\ \A x \in Sids : x \in prepared => writes'[x] = writes[x]
      /\ \A x \in Sids : writes[x] \subseteq writes'[x]
  BY DEF IInv, TypeOK
<1>3. ChainLinked' /\ MergesWhatWasCommitted' /\ FreshStorages' /\ NoCache'
  BY DEF IInv, ChainLinked, MergesWhatWasCommitted, FreshStorages, Listed, NoCache
<1>4. StagedRows'
  BY <1>2 DEF IInv, TypeOK, StagedRows
<1>5. Acknowledged => writes'[Head(m_stateStorages).sid] = writes[Head(m_stateStorages).sid]
  BY <1>2 DEF IInv, CommitInFlight, Acknowledged, TypeOK
<1>6. CommitInFlight'
  BY <1>2, <1>5 DEF IInv, TypeOK, MergesWhatWasCommitted, CommitInFlight, Acknowledged
<1>7. CacheDuring'
  BY <1>5 DEF IInv, CacheDuring, Acknowledged
<1> QED  BY <1>1, <1>3, <1>4, <1>6, <1>7 DEF IInv

\* prepare: what is staged are the rows of the first block.
LEMMA PrepareKeeps ==
  ASSUME IInv, NEW n \in 1 .. MaxBlock, NEW ok \in BOOLEAN, Prepare(n, ok)
  PROVE  IInv'
<1> DEFINE s == Head(m_stateStorages).sid
           own == [k \in Keys |-> IF k \in writes[s] THEN s ELSE Absent]
<1> USE DEF Prepare, storageVars, memoryVars
<1>1. s \in Sids /\ s <= created /\ Listed(s) /\ commit.stage = "none"
  BY Ends DEF IInv, FreshStorages, Listed
<1>2. /\ prepared' = prepared \cup {s}
      /\ \/ staged' = staged
         \/ staged' = [number |-> n, sid |-> s, rows |-> own]
  BY DEF Prepare
<1>3. own \in [Keys -> Values \cup {Absent}]
  BY <1>1
<1> HIDE DEF s, own
<1>4. TypeOK'
  <2>1. staged' \in [number : 0 .. MaxBlock, sid : Sids \cup {None},
                     rows : [Keys -> Values \cup {Absent}]]
    <3>1. staged \in [number : 0 .. MaxBlock, sid : Sids \cup {None},
                      rows : [Keys -> Values \cup {Absent}]]
      BY DEF IInv, TypeOK
    <3> HIDE DEF Prepare
    <3> QED  BY <3>1, <1>1, <1>2, <1>3
  <2> QED  BY <2>1, <1>1, <1>2 DEF IInv, TypeOK
<1>5. ChainLinked' /\ MergesWhatWasCommitted' /\ CommitInFlight' /\ CacheDuring' /\ NoCache'
  BY <1>1 DEF IInv, ChainLinked, MergesWhatWasCommitted, CommitInFlight, Acknowledged,
              CacheDuring, NoCache
<1>6. FreshStorages'
  <2>1. CASE staged' = staged
    BY <2>1, <1>2 DEF IInv, FreshStorages, Listed
  <2>2. CASE staged' = [number |-> n, sid |-> s, rows |-> own]
    BY <2>2, <1>1, <1>2 DEF IInv, FreshStorages, Listed
  <2> QED  BY <1>2, <2>1, <2>2
<1>7. StagedRows'
  <2>1. CASE staged' = staged
    BY <2>1, <1>1, <1>2 DEF IInv, FreshStorages, StagedRows
  <2>2. CASE staged' = [number |-> n, sid |-> s, rows |-> own]
    BY <2>2 DEF own, StagedRows
  <2> QED  BY <1>2, <2>1, <2>2
<1> QED  BY <1>4, <1>5, <1>6, <1>7 DEF IInv

\* rollback: nothing is staged any more.
LEMMA RollbackKeeps ==
  ASSUME IInv, NEW n \in 1 .. MaxBlock, Rollback(n)
  PROVE  IInv'
<1> USE DEF Rollback, storageVars, memoryVars
<1>1. staged'.sid = None /\ ~Listed(None)
  BY NoneNotListed DEF IInv, NoStaged
<1>2. TypeOK'
  BY DEF IInv, TypeOK, NoStaged, NoRows
<1>3. ChainLinked' /\ MergesWhatWasCommitted' /\ CommitInFlight' /\ CacheDuring' /\ NoCache'
  BY DEF IInv, ChainLinked, MergesWhatWasCommitted, CommitInFlight, Acknowledged,
         CacheDuring, NoCache
<1>4. FreshStorages'
  BY <1>1, <1>2 DEF IInv, FreshStorages, Listed, TypeOK
<1>5. StagedRows'
  BY <1>1, <1>2 DEF StagedRows, TypeOK
<1> QED  BY <1>2, <1>3, <1>4, <1>5 DEF IInv

\* reset: the list is empty, and no commit is in flight.
LEMMA ResetKeeps ==
  ASSUME IInv, Reset
  PROVE  IInv'
<1> USE DEF Reset, storageVars, IInv
<1>1. TypeOK'
  BY DEF TypeOK
<1>2. ChainLinked' /\ MergesWhatWasCommitted' /\ FreshStorages' /\ StagedRows'
  BY DEF ChainLinked, MergesWhatWasCommitted, FreshStorages, Listed, StagedRows
<1>3. CommitInFlight' /\ CacheDuring' /\ NoCache'
  BY DEF CommitInFlight, Acknowledged, CacheDuring, NoCache
<1> QED  BY <1>1, <1>2, <1>3

\* commit: the first block is the one that is staged.
LEMMA CommitRequestKeeps ==
  ASSUME IInv, NEW n \in 1 .. MaxBlock, CommitRequest(n)
  PROVE  IInv'
<1> USE DEF CommitRequest, storageVars, memoryVars, IInv, NoCommit
<1>1. TypeOK'
  BY DEF TypeOK
<1>2. ChainLinked' /\ MergesWhatWasCommitted' /\ FreshStorages' /\ StagedRows'
  BY DEF ChainLinked, MergesWhatWasCommitted, FreshStorages, Listed, StagedRows
<1>3. CommitInFlight' /\ CacheDuring' /\ NoCache'
  BY DEF CommitInFlight, Acknowledged, CacheDuring, NoCache
<1> QED  BY <1>1, <1>2, <1>3

\* asyncCommit: the backend holds the rows of the first block, the cache not yet.
LEMMA BackendCommitKeeps ==
  ASSUME IInv, NEW ok \in BOOLEAN, BackendCommit(ok)
  PROVE  IInv'
<1> DEFINE s == Head(m_stateStorages).sid
<1> USE DEF BackendCommit, storageVars, memoryVars
<1>0. /\ commit.stage = "sent" /\ m_stateStorages # <<>> /\ TypeOK
      /\ Head(m_stateStorages).number = commit.number
  BY DEF IInv, MergesWhatWasCommitted
<1>1. ChainLinked' /\ NoCache'
  BY DEF IInv, ChainLinked, NoCache
<1>2. CASE ~ok
  <2>0. /\ commit' = NoCommit
        /\ UNCHANGED <<writes, prevOf, readOnly, created, m_stateStorages, m_blockContext,
                       m_lastStateStorage, m_lastCommittedBlockNumber, cache, backend,
                       backendNumber, staged, prepared>>
    BY <1>2
  <2>1. TypeOK'
    <3>1. commit' \in [stage : {"none", "sent", "acked", "merge", "erase"},
                       number : 0 .. MaxBlock, sid : Sids \cup {None}, left : SUBSET Keys]
      BY <2>0 DEF NoCommit
    <3> HIDE DEF BackendCommit, Blocks, Sids, Values, Absent
    <3> QED  BY <1>0, <2>0, <3>1 DEF TypeOK
  <2>2. MergesWhatWasCommitted' /\ FreshStorages' /\ StagedRows'
    BY <1>2 DEF IInv, MergesWhatWasCommitted, FreshStorages, Listed, StagedRows, NoCommit
  <2>3. CommitInFlight' /\ CacheDuring'
    BY <1>0, <1>2 DEF IInv, CommitInFlight, Acknowledged, CacheDuring, NoCommit
  <2> QED  BY <1>1, <2>1, <2>2, <2>3 DEF IInv
<1>3. CASE ok
  <2>0. /\ backend' = [k \in Keys |-> IF staged.rows[k] # Absent THEN staged.rows[k]
                                     ELSE backend[k]]
        /\ backendNumber' = staged.number /\ staged' = NoStaged
        /\ commit' = [commit EXCEPT !.stage = "acked"]
        /\ UNCHANGED <<writes, prevOf, readOnly, created, m_stateStorages, m_blockContext,
                       m_lastStateStorage, m_lastCommittedBlockNumber, cache, prepared>>
    BY <1>3
  <2>1. /\ s \in Sids /\ s \in prepared /\ staged.sid = s
        /\ staged.rows = [k \in Keys |-> IF k \in writes[s] THEN s ELSE Absent]
    <3>1. s \in Sids /\ staged.sid = s /\ Listed(s)
      <4>1. Listed(s) /\ s \in Sids
        BY <1>0, Ends DEF Listed
      <4> QED  BY <4>1, <1>0 DEF IInv, CommitInFlight
    <3> QED  BY <3>1 DEF IInv, FreshStorages, StagedRows
  <2> HIDE DEF s
  <2>2. \A k \in Keys : backend'[k] = IF k \in writes[s] THEN s ELSE backend[k]
    BY <1>3, <2>1 DEF IInv, TypeOK
  <2>3. commit'.stage = "acked" /\ commit'.number = commit.number /\ commit'.sid = commit.sid
    BY <1>0, <1>3 DEF TypeOK
  <2>4. TypeOK'
    <3>1. backend' \in [Keys -> Values]
      <4>1. backend \in [Keys -> Values]
        BY <1>0 DEF TypeOK
      <4>2. s \in Values
        BY <2>1
      <4> HIDE DEF Values, BackendCommit
      <4> QED  BY <4>1, <4>2, <2>0, <2>2
    <3>2. commit' \in [stage : {"none", "sent", "acked", "merge", "erase"},
                       number : 0 .. MaxBlock, sid : Sids \cup {None}, left : SUBSET Keys]
      <4>1. commit \in [stage : {"none", "sent", "acked", "merge", "erase"},
                        number : 0 .. MaxBlock, sid : Sids \cup {None}, left : SUBSET Keys]
        BY <1>0 DEF TypeOK
      <4> HIDE DEF BackendCommit, Sids
      <4> QED  BY <4>1, <2>0
    <3>3. staged' \in [number : 0 .. MaxBlock, sid : Sids \cup {None},
                       rows : [Keys -> Values \cup {Absent}]]
      <4> HIDE DEF BackendCommit
      <4> QED  BY <2>0 DEF NoStaged, NoRows
    <3>4. backendNumber' \in 0 .. MaxBlock
      <4>1. staged.number \in 0 .. MaxBlock
        BY <1>0 DEF TypeOK
      <4> QED  BY <4>1, <2>0
    <3> HIDE DEF BackendCommit, Blocks, Sids, Values, Absent
    <3> QED  BY <3>1, <3>2, <3>3, <3>4, <1>0, <2>0 DEF TypeOK
  <2>5. MergesWhatWasCommitted'
    BY <1>0, <2>3 DEF MergesWhatWasCommitted
  <2>6. FreshStorages' /\ StagedRows'
    <3>1. staged'.sid = None /\ ~Listed(None)' /\ None \notin prepared'
      <4>1. staged'.sid = None /\ None \notin prepared'
        BY <1>0, <1>3 DEF NoStaged, TypeOK
      <4> QED  BY <4>1, <1>0, NoneNotListed DEF Listed
    <3>2. created' = created /\ created \in Nat /\ m_stateStorages' = m_stateStorages
      BY <1>0 DEF TypeOK
    <3> QED  BY <3>1, <3>2 DEF IInv, FreshStorages, StagedRows, Listed
  <2>7. CommitInFlight'
    BY <1>0, <2>1, <2>2, <2>3 DEF CommitInFlight, Acknowledged, s, TypeOK
  <2>8. CacheDuring'
    BY <1>0, <2>2, <2>3 DEF IInv, CacheDuring, s
  <2> QED  BY <1>1, <2>4, <2>5, <2>6, <2>7, <2>8 DEF IInv
<1> QED  BY <1>2, <1>3

\* The callback of asyncCommit finds the committed block still first in the list.
LEMMA CommitCallbackKeeps ==
  ASSUME IInv, CommitCallback
  PROVE  IInv'
<1> DEFINE s == Head(m_stateStorages).sid
<1> USE DEF CommitCallback, storageVars
<1>0. /\ commit.stage = "acked" /\ m_stateStorages # <<>> /\ TypeOK
      /\ Head(m_stateStorages).number = commit.number /\ s \in Sids
      /\ commit.number \in 1 .. MaxBlock
  BY Ends DEF IInv, MergesWhatWasCommitted
<1>1. commit' = [commit EXCEPT !.stage = IF HasCache THEN "merge" ELSE "erase",
                               !.sid = s, !.left = writes[s]]
  BY <1>0
<1>2. /\ commit'.stage = IF HasCache THEN "merge" ELSE "erase"
      /\ commit'.sid = s /\ commit'.left = writes[s] /\ commit'.number = commit.number
  BY <1>0, <1>1 DEF TypeOK
<1>3. TypeOK'
  <2>1. commit' \in [stage : {"none", "sent", "acked", "merge", "erase"},
                     number : 0 .. MaxBlock, sid : Sids \cup {None}, left : SUBSET Keys]
    BY <1>0, <1>1 DEF TypeOK
  <2> QED  BY <2>1, <1>0 DEF TypeOK
<1>4. ChainLinked' /\ FreshStorages' /\ StagedRows' /\ NoCache'
  BY DEF IInv, ChainLinked, FreshStorages, Listed, StagedRows, NoCache
<1>5. MergesWhatWasCommitted'
  BY <1>0, <1>2 DEF MergesWhatWasCommitted
<1>6. CommitInFlight'
  BY <1>0, <1>2 DEF IInv, CommitInFlight, Acknowledged
<1>7. CacheDuring'
  <2>1. CASE HasCache
    BY <2>1, <1>0, <1>2 DEF IInv, CacheDuring
  <2>2. CASE ~HasCache
    BY <2>2, <1>0 DEF IInv, CacheDuring, NoCache, NoRows
  <2> QED  BY <2>1, <2>2
<1> QED  BY <1>3, <1>4, <1>5, <1>6, <1>7 DEF IInv

\* One row is merged: the cache has what the backend has.
LEMMA MergeKeeps ==
  ASSUME IInv, NEW key \in Keys, Merge(key)
  PROVE  IInv'
<1> USE DEF Merge, storageVars, memoryVars
<1>0. /\ commit.stage = "merge" /\ m_stateStorages # <<>> /\ TypeOK /\ HasCache
      /\ Head(m_stateStorages).sid = commit.sid /\ commit.sid \in Sids
      /\ key \in commit.left /\ commit.left \subseteq writes[commit.sid]
  BY Ends DEF IInv, MergesWhatWasCommitted, CommitInFlight
<1>1. /\ commit'.stage = "merge" /\ commit'.sid = commit.sid
      /\ commit'.number = commit.number /\ commit'.left = commit.left \ {key}
  BY <1>0 DEF TypeOK
<1>2. TypeOK'
  <2>1. commit' \in [stage : {"none", "sent", "acked", "merge", "erase"},
                     number : 0 .. MaxBlock, sid : Sids \cup {None}, left : SUBSET Keys]
    BY <1>0 DEF TypeOK
  <2>2. cache' \in [Keys -> Values \cup {Absent}]
    <3>1. cache \in [Keys -> Values \cup {Absent}] /\ cache' = [cache EXCEPT ![key] = commit.sid]
      BY <1>0 DEF TypeOK
    <3>2. Sids \subseteq Values
      OBVIOUS
    <3> HIDE DEF Values, Absent, Sids, Merge
    <3> QED  BY <1>0, <3>1, <3>2
  <2> QED  BY <2>1, <2>2, <1>0 DEF TypeOK
<1>3. ChainLinked' /\ FreshStorages' /\ StagedRows' /\ NoCache'
  BY <1>0 DEF IInv, ChainLinked, FreshStorages, Listed, StagedRows, NoCache
<1>4. MergesWhatWasCommitted' /\ CommitInFlight'
  BY <1>0, <1>1 DEF IInv, MergesWhatWasCommitted, CommitInFlight, Acknowledged
<1>5. CacheDuring'
  <2>1. backend[key] = commit.sid
    BY <1>0 DEF IInv, CommitInFlight, Acknowledged
  <2>2. \A k \in Keys : cache'[k] = IF k = key THEN commit.sid ELSE cache[k]
    BY <1>0 DEF TypeOK
  <2> QED  BY <2>1, <2>2, <1>0, <1>1 DEF IInv, CacheDuring
<1> QED  BY <1>2, <1>3, <1>4, <1>5 DEF IInv

\* When the merge ends no row of the cache is stale.
LEMMA MergeEndKeeps ==
  ASSUME IInv, MergeEnd
  PROVE  IInv'
<1> USE DEF MergeEnd, storageVars, memoryVars, IInv
<1>1. TypeOK'
  BY DEF TypeOK
<1>2. ChainLinked' /\ FreshStorages' /\ StagedRows' /\ NoCache'
  BY DEF ChainLinked, FreshStorages, Listed, StagedRows, NoCache
<1>3. MergesWhatWasCommitted' /\ CommitInFlight' /\ CacheDuring'
  BY DEF TypeOK, MergesWhatWasCommitted, CommitInFlight, Acknowledged, CacheDuring
<1> QED  BY <1>1, <1>2, <1>3

\* removeCommittedState erases the block that was merged.
LEMMA EraseKeeps ==
  ASSUME IInv, Erase
  PROVE  IInv'
<1> DEFINE q == m_stateStorages
<1> USE DEF Erase
<1>0. commit.stage = "erase" /\ q # <<>> /\ TypeOK /\ q \in Seq(Blocks)
  BY DEF IInv, MergesWhatWasCommitted, TypeOK
<1>1. /\ Len(q) \in Nat \ {0} /\ q' = Tail(q) /\ q' \in Seq(Blocks)
      /\ Last(q).sid \in Sids /\ Len(q') = Len(q) - 1
      /\ \A i \in 1 .. Len(q) - 1 : q'[i] = q[i + 1]
      /\ \A i \in 1 .. Len(q) : q[i].sid \in Sids
  BY <1>0, Ends
<1>2. TypeOK'
  <2>1. prevOf' \in [Sids -> Sids \cup {Base}] /\ m_lastStateStorage' \in Sids \cup {None}
    BY <1>0, <1>1 DEF TypeOK
  <2>2. commit' \in [stage : {"none", "sent", "acked", "merge", "erase"},
                     number : 0 .. MaxBlock, sid : Sids \cup {None}, left : SUBSET Keys]
    BY DEF NoCommit
  <2> HIDE DEF Blocks
  <2> QED  BY <2>1, <2>2, <1>0, <1>1 DEF TypeOK
<1>3. ChainLinked'
  <2>1. Linked(q, prevOf, readOnly) /\ prevOf \in [Sids -> Sids \cup {Base}]
    BY <1>0 DEF IInv, ChainLinked, Linked, TypeOK
  <2>2. Linked(q', prevOf', readOnly')
    <3>1. prevOf' = IF Len(q) > 1 THEN [prevOf EXCEPT ![q[2].sid] = Base] ELSE prevOf
      OBVIOUS
    <3>2. readOnly' = readOnly
      OBVIOUS
    <3> HIDE DEF Erase, Blocks, Sids
    <3> QED  BY <1>0, <1>1, <2>1, <3>1, <3>2, LinkedTail
  <2> QED  BY <2>2 DEF ChainLinked, Linked
<1>4. MergesWhatWasCommitted' /\ CommitInFlight' /\ StagedRows' /\ NoCache'
  BY DEF IInv, MergesWhatWasCommitted, CommitInFlight, Acknowledged, StagedRows, NoCommit, NoCache
<1>5. FreshStorages'
  <2>1. \A x : Listed(x)' => Listed(x)
    <3> SUFFICES ASSUME NEW x, NEW i \in 1 .. Len(q) - 1, q'[i].sid = x
                 PROVE  \E j \in 1 .. Len(q) : q[j].sid = x
      BY <1>1 DEF Listed
    <3>1. i + 1 \in 1 .. Len(q) /\ q[i + 1].sid = x
      BY <1>1
    <3> QED  BY <3>1
  <2> QED  BY <2>1 DEF IInv, FreshStorages
<1>6. CacheDuring'
  BY <1>0 DEF IInv, CacheDuring, NoCommit
<1> QED  BY <1>2, <1>3, <1>4, <1>5, <1>6 DEF IInv

\* A read-through copies a row of the backend.
LEMMA CacheFillKeeps ==
  ASSUME IInv, NEW key \in Keys, CacheFill(key)
  PROVE  IInv'
<1> USE DEF CacheFill, storageVars, memoryVars, IInv
<1>1. TypeOK'
  BY DEF TypeOK
<1>2. ChainLinked' /\ MergesWhatWasCommitted' /\ FreshStorages' /\ StagedRows' /\ NoCache'
  BY DEF ChainLinked, MergesWhatWasCommitted, FreshStorages, Listed, StagedRows, NoCache
<1>3. CommitInFlight' /\ CacheDuring'
  BY DEF TypeOK, CommitInFlight, Acknowledged, CacheDuring
<1> QED  BY <1>1, <1>2, <1>3

\* Evicting a row makes nothing stale.
LEMMA CacheEvictKeeps ==
  ASSUME IInv, NEW key \in Keys, CacheEvict(key)
  PROVE  IInv'
<1> USE DEF CacheEvict, storageVars, memoryVars, IInv
<1>1. TypeOK'
  BY DEF TypeOK
<1>2. ChainLinked' /\ MergesWhatWasCommitted' /\ FreshStorages' /\ StagedRows' /\ NoCache'
  BY DEF ChainLinked, MergesWhatWasCommitted, FreshStorages, Listed, StagedRows, NoCache
<1>3. CommitInFlight' /\ CacheDuring'
  BY DEF TypeOK, CommitInFlight, Acknowledged, CacheDuring
<1> QED  BY <1>1, <1>2, <1>3

\* A restart forgets the list, the cache and the commit in flight.
LEMMA RestartKeeps ==
  ASSUME IInv, Restart
  PROVE  IInv'
<1> USE DEF Restart, storageVars, NoCommit
<1>1. TypeOK'
  BY DEF IInv, TypeOK, NoContext, NoRows
<1>2. ChainLinked' /\ MergesWhatWasCommitted' /\ FreshStorages' /\ StagedRows'
  BY DEF IInv, ChainLinked, MergesWhatWasCommitted, FreshStorages, Listed, StagedRows
<1>3. CommitInFlight' /\ CacheDuring' /\ NoCache'
  BY DEF IInv, CommitInFlight, Acknowledged, CacheDuring, NoCache, NoRows
<1> QED  BY <1>1, <1>2, <1>3 DEF IInv

\* A step that changes nothing.
LEMMA StutterKeeps ==
  ASSUME IInv, UNCHANGED vars
  PROVE  IInv'
  BY DEF IInv, vars, storageVars, memoryVars, TypeOK, ChainLinked, MergesWhatWasCommitted,
         FreshStorages, Listed, StagedRows, CommitInFlight, Acknowledged, CacheDuring, NoCache

-----------------------------------------------------------------------------

(* IInv holds throughout: every request, callback, eviction and restart     *)
(* preserves it.                                                            *)
THEOREM Invariance == Spec => []IInv
<1>1. IInv /\ [Next]_vars => IInv'
  BY NextBlockHeaderKeeps, ExecuteKeeps, PrepareKeeps, RollbackKeeps, ResetKeeps,
     CommitRequestKeeps, BackendCommitKeeps, CommitCallbackKeeps, MergeKeeps, MergeEndKeeps,
     EraseKeeps, CacheFillKeeps, CacheEvictKeeps, RestartKeeps, StutterKeeps
     DEF Next
<1> QED  BY Initially, <1>1, PTL DEF Spec

(* The variables of the executor keep their types; in particular            *)
(* m_lastCommittedBlockNumber, which commit's callback sets, is the number  *)
(* of a block.                                                              *)
THEOREM TypeCorrect == Spec => []TypeOK
  BY Invariance, PTL DEF IInv

(* nextBlockHeader and removeCommittedState keep m_stateStorages one chain  *)
(* of consecutive blocks, each laid on the one before, the first on the     *)
(* base, for any number of blocks, resets and restarts.                     *)
THEOREM ChainLinkedHolds == Spec => []ChainLinked
  BY Invariance, PTL DEF IInv

(* Outside a commit, getCode and call, which read the cached storage, see   *)
(* exactly what the backend has committed.                                  *)
THEOREM CacheAgreesWithBackendHolds == Spec => []CacheAgreesWithBackend
<1>1. IInv => CacheAgreesWithBackend
  BY DEF IInv, CacheDuring, CacheAgreesWithBackend, BaseRead
<1> QED  BY <1>1, Invariance, PTL

-----------------------------------------------------------------------------
(* The refinement of Ledger.                                                *)

\* What the views of the blocks need beyond IInv: a storage lies on an earlier one, so that
\* a read ends; one that has not been created is empty; and the first block of the list is
\* the last one of the backend while its commit is being finished.
Layers ==
  /\ \A s \in Sids : prevOf[s] < s
  /\ \A s \in Sids : s > created => writes[s] = {}
  /\ m_blockContext.sid <= created
  /\ Acknowledged => Head(m_stateStorages).number = backendNumber

\* It holds of a fresh executor.
LEMMA InitLayers == Init => Layers
  BY DEF Init, Layers, NoContext, Acknowledged, NoCommit

\* The steps that neither touch the list nor the backend nor create or write a storage.
LEMMA LayersFrame ==
  ASSUME Layers, prevOf' = prevOf, writes' = writes, created' = created,
         m_blockContext' = m_blockContext,
         Acknowledged' => Acknowledged /\ m_stateStorages' = m_stateStorages
                          /\ backendNumber' = backendNumber
  PROVE  Layers'
  BY DEF Layers

\* Every step preserves it.
LEMMA StepLayers ==
  ASSUME IInv, Layers, [Next]_vars
  PROVE  Layers'
  <1>0. TypeOK /\ MergesWhatWasCommitted /\ CommitInFlight /\ FreshStorages
    BY DEF IInv
  <1>1. ASSUME NEW n \in 1 .. MaxBlock, NextBlockHeader(n) PROVE Layers'
    <2>1. m_stateStorages # <<>> => /\ Last(m_stateStorages).sid \in Sids
                                    /\ Last(m_stateStorages).sid <= created
                                    /\ Len(m_stateStorages) \in Nat \ {0}
      <3> SUFFICES ASSUME m_stateStorages # <<>>
                   PROVE  /\ Last(m_stateStorages).sid \in Sids
                          /\ Last(m_stateStorages).sid <= created
                          /\ Len(m_stateStorages) \in Nat \ {0}
        OBVIOUS
      <3>1. Listed(Last(m_stateStorages).sid) /\ Last(m_stateStorages).sid \in Sids
            /\ Len(m_stateStorages) \in Nat \ {0}
        BY <1>0, Ends DEF Listed
      <3> QED  BY <1>0, <3>1 DEF FreshStorages
    <2>2. created' = created + 1 /\ created + 1 \in Sids /\ created \in Nat
      BY <1>0, <1>1 DEF NextBlockHeader, TypeOK
    <2>3. \A s \in Sids : prevOf'[s] < s
      <3>1. \A s \in Sids : prevOf'[s] = IF s = created + 1
               THEN IF m_stateStorages = <<>> THEN Base ELSE Last(m_stateStorages).sid
               ELSE prevOf[s]
        BY <1>0, <1>1, <2>2 DEF NextBlockHeader, TypeOK
      <3> QED  BY <2>1, <2>2, <3>1 DEF Layers
    <2>4. \A s \in Sids : s > created' => writes'[s] = {}
      BY <1>1, <2>2 DEF NextBlockHeader, Layers
    <2>5. m_blockContext'.sid <= created'
      BY <1>1, <2>2 DEF NextBlockHeader
    <2>6. Acknowledged' => Head(m_stateStorages').number = backendNumber'
      <3> SUFFICES ASSUME Acknowledged PROVE Head(m_stateStorages').number = backendNumber
        BY <1>1 DEF NextBlockHeader, Acknowledged
      <3>1. m_stateStorages # <<>>
        BY <1>0 DEF Acknowledged, MergesWhatWasCommitted
      <3> DEFINE b == [number |-> n, sid |-> created + 1]
      <3>2. b \in Blocks /\ m_stateStorages \in Seq(Blocks)
        BY <1>0, <2>2 DEF TypeOK
      <3>3. m_stateStorages' = Append(m_stateStorages, b)
        BY <1>1 DEF NextBlockHeader
      <3>4. Head(m_stateStorages') = Head(m_stateStorages)
        <4> HIDE DEF b, Blocks
        <4>1. /\ m_stateStorages' \in Seq(Blocks) /\ m_stateStorages' # <<>>
              /\ m_stateStorages'[1] = m_stateStorages[1]
          BY <2>1, <3>1, <3>2, <3>3, ListAppend
        <4> QED  BY <3>1, <3>2, <4>1, ListEnds
      <3> QED  BY <3>4 DEF Layers
    <2> QED  BY <2>3, <2>4, <2>5, <2>6 DEF Layers
  <1>2. ASSUME NEW k \in Keys, Execute(k) PROVE Layers'
    <2> DEFINE t == m_blockContext.sid
    <2>1. t \in Sids /\ t <= created /\ created \in Nat
      BY <1>0, <1>2 DEF Execute, TypeOK, Layers
    <2>2. \A s \in Sids : s > created => writes'[s] = writes[s]
      BY <1>0, <1>2, <2>1 DEF Execute, TypeOK
    <2>3. /\ prevOf' = prevOf /\ created' = created /\ m_blockContext' = m_blockContext
          /\ m_stateStorages' = m_stateStorages /\ backendNumber' = backendNumber
          /\ commit' = commit
      BY <1>2 DEF Execute, memoryVars
    <2> QED  BY <2>2, <2>3 DEF Layers, Acknowledged
  <1>3. ASSUME BackendCommit(TRUE) PROVE Layers'
    <2>1. /\ prevOf' = prevOf /\ writes' = writes /\ created' = created
          /\ m_blockContext' = m_blockContext /\ m_stateStorages' = m_stateStorages
          /\ backendNumber' = staged.number
      BY <1>3 DEF BackendCommit, memoryVars, storageVars
    <2>2. Head(m_stateStorages).number = staged.number
      BY <1>0, <1>3 DEF BackendCommit, MergesWhatWasCommitted, CommitInFlight
    <2> QED  BY <2>1, <2>2 DEF Layers
  <1>4. ASSUME Erase PROVE Layers'
    <2>1. m_stateStorages # <<>>
      BY <1>0, <1>4 DEF Erase, MergesWhatWasCommitted
    <2>2. \A s \in Sids : prevOf'[s] \in {Base, prevOf[s]}
      <3>1. prevOf' = prevOf \/ \E t : prevOf' = [prevOf EXCEPT ![t] = Base]
        BY <1>4 DEF Erase
      <3> QED  BY <1>0, <3>1 DEF TypeOK
    <2>3. ~Acknowledged'
      BY <1>4 DEF Erase, Acknowledged, NoCommit
    <2>4. writes' = writes /\ created' = created /\ m_blockContext' = m_blockContext
      BY <1>4 DEF Erase
    <2> QED  BY <2>2, <2>3, <2>4 DEF Layers
  <1>5. ASSUME Restart PROVE Layers'
    <2>1. created \in Nat
      BY <1>0 DEF TypeOK
    <2> QED  BY <1>5, <2>1 DEF Restart, Layers, Acknowledged, NoCommit, NoContext, storageVars
  <1>6. ASSUME \/ \E n \in 1 .. MaxBlock :
                    (\E ok \in BOOLEAN : Prepare(n, ok)) \/ Rollback(n) \/ CommitRequest(n)
               \/ \E k \in Keys : Merge(k) \/ CacheFill(k) \/ CacheEvict(k)
               \/ BackendCommit(FALSE) \/ CommitCallback \/ MergeEnd \/ Reset
               \/ UNCHANGED vars
        PROVE  Layers'
    <2>1. prevOf' = prevOf /\ writes' = writes /\ created' = created
          /\ m_blockContext' = m_blockContext
      BY <1>6 DEF Prepare, Rollback, CommitRequest, Merge, CacheFill, CacheEvict,
                  BackendCommit, CommitCallback, MergeEnd, Reset, vars, storageVars, memoryVars
    <2>2. Acknowledged' => Acknowledged /\ m_stateStorages' = m_stateStorages
                           /\ backendNumber' = backendNumber
      <3>1. CASE \E n \in 1 .. MaxBlock : CommitRequest(n)
        <4>1. commit'.stage = "sent"
          BY <3>1 DEF CommitRequest, NoCommit
        <4> QED  BY <4>1 DEF Acknowledged
      <3>4. CASE BackendCommit(FALSE)
        <4>1. commit' = NoCommit
          BY <3>4 DEF BackendCommit
        <4> QED  BY <4>1 DEF Acknowledged, NoCommit
      <3>2. CASE CommitCallback \/ MergeEnd \/ \E k \in Keys : Merge(k)
        BY <1>0, <3>2 DEF CommitCallback, MergeEnd, Merge, Acknowledged, memoryVars, TypeOK
      <3>3. CASE \/ \E n \in 1 .. MaxBlock : (\E ok \in BOOLEAN : Prepare(n, ok)) \/ Rollback(n)
                 \/ \E k \in Keys : CacheFill(k) \/ CacheEvict(k)
                 \/ Reset \/ UNCHANGED vars
        BY <3>3 DEF Prepare, Rollback, CacheFill, CacheEvict, Reset, vars, memoryVars,
                    Acknowledged
      <3> QED  BY <1>6, <3>1, <3>2, <3>3, <3>4
    <2> QED  BY <2>1, <2>2, LayersFrame
  <1> QED  BY <1>1, <1>2, <1>3, <1>4, <1>5, <1>6 DEF Next

\* A set of natural numbers has a least member.
LEMMA Least ==
  ASSUME NEW B, B \subseteq Nat, B # {}
  PROVE  \E n \in B : \A m \in B : n <= m
  <1> DEFINE R == OpToRel(<, Nat)
  <1>1. \A m, n \in Nat : m < n => <<m, n>> \in R
    BY DEF OpToRel
  <1>2. IsWellFoundedOn(R, Nat)
    BY NatLessThanWellFounded
  <1> HIDE DEF R
  <1>3. PICK n \in B : \A m \in B : ~ (<<m, n>> \in R)
    BY <1>2, WFMin
  <1>4. ASSUME NEW m \in B PROVE n <= m
    <2>1. m \in Nat /\ n \in Nat
      OBVIOUS
    <2>2. ~ (m < n)
      BY <1>1, <1>3, <2>1
    <2> QED  BY <2>1, <2>2
  <1> QED  BY <1>4

\* g is what reads of the storages up to m return.
Reads(g, m) ==
  g = [s \in 0 .. m |-> [k \in Keys |-> IF s = Base THEN BaseRead(k)
                                        ELSE IF k \in writes[s] THEN s
                                        ELSE g[prevOf[s]][k]]]

\* Reads end, because a storage lies on an earlier one.
LEMMA ReadsExist ==
  ASSUME NEW K \in Nat, \A s \in 1 .. K : prevOf[s] \in 0 .. s - 1
  PROVE  \E g : Reads(g, K)
  <1> DEFINE E(g, s) == [k \in Keys |-> IF s = Base THEN BaseRead(k)
                                        ELSE IF k \in writes[s] THEN s
                                        ELSE g[prevOf[s]][k]]
             B == {m \in 0 .. K : ~ \E g : Reads(g, m)}
  <1> SUFFICES ASSUME B # {} PROVE FALSE
    OBVIOUS
  <1>1. PICK m \in B : \A n \in B : m <= n
    <2>1. B \subseteq Nat
      OBVIOUS
    <2> HIDE DEF B
    <2> QED  BY <2>1, Least
  <1>2. m \in 0 .. K /\ ~ \E g : Reads(g, m)
    BY <1>1
  <1>3. m # 0
    <2>1. Reads([s \in 0 .. 0 |-> [k \in Keys |-> BaseRead(k)]], 0)
      BY DEF Reads
    <2> QED  BY <1>2, <2>1
  <1>4. m - 1 \in 0 .. K /\ ~ (m <= m - 1) /\ m \in Nat /\ m > 0
    BY <1>2, <1>3
  <1>5. PICK g : Reads(g, m - 1)
    <2>1. m - 1 \notin B
      BY <1>1, <1>4
    <2> QED  BY <1>4, <2>1
  <1> DEFINE h == [s \in 0 .. m |-> IF s = m THEN E(g, m) ELSE g[s]]
  <1>6. ASSUME NEW s \in 0 .. m PROVE h[s] = E(h, s)
    <2>1. s # 0 => prevOf[s] \in 0 .. m /\ prevOf[s] # m
      BY <1>2, <1>4
    <2>2. s # 0 => h[prevOf[s]] = g[prevOf[s]]
      BY <2>1
    <2>3. E(h, s) = E(g, s)
      <3> HIDE DEF h
      <3> QED  BY <2>2
    <2>4. s # m => g[s] = E(g, s)
      <3>1. s # m => s \in 0 .. m - 1
        BY <1>4
      <3> QED  BY <1>5, <3>1 DEF Reads
    <2>5. h[s] = E(g, s)
      <3> HIDE DEF E
      <3> QED  BY <2>4
    <2> QED  BY <2>3, <2>5
  <1>7. h = [s \in 0 .. m |-> h[s]]
    OBVIOUS
  <1>8. Reads(h, m)
    <2>1. h = [s \in 0 .. m |-> E(h, s)]
      <3> HIDE DEF h, E
      <3> QED  BY <1>6, <1>7
    <2> HIDE DEF h
    <2> QED  BY <2>1 DEF Reads
  <1> QED  BY <1>2, <1>8

\* Read, storage by storage.
LEMMA ReadAt ==
  ASSUME TypeOK, Layers, NEW s \in 0 .. MaxStorage
  PROVE  /\ Read[s] = [k \in Keys |-> Read[s][k]]
         /\ \A k \in Keys : Read[s][k] = IF s = Base THEN BaseRead(k)
                                         ELSE IF k \in writes[s] THEN s
                                         ELSE Read[prevOf[s]][k]
  <1>1. Read = CHOOSE g : Reads(g, MaxStorage)
    BY DEF Read, Reads
  <1>2. \A t \in 1 .. MaxStorage : prevOf[t] \in 0 .. t - 1
    BY DEF TypeOK, Layers
  <1> HIDE DEF Read
  <1>3. Reads(Read, MaxStorage)
    <2>1. \E g : Reads(g, MaxStorage)
      BY <1>2, ReadsExist
    <2> QED  BY <1>1, <2>1
  <1>4. Read[s] = [k \in Keys |-> IF s = Base THEN BaseRead(k)
                                  ELSE IF k \in writes[s] THEN s
                                  ELSE Read[prevOf[s]][k]]
    BY <1>3 DEF Reads
  <1> QED  BY <1>4

\* The views of a chain u of blocks over the durable rows b: each block shows its own rows,
\* then those of the block before, and the first one those of b.
Views(f, b, w, u) ==
  \A i \in 1 .. Len(u) :
    f[u[i].sid] = [k \in Keys |-> IF k \in w[u[i].sid] THEN u[i].sid
                                  ELSE IF i = 1 THEN b[k] ELSE f[u[i - 1].sid][k]]

Viewed == Uncommitted \in Seq(Blocks) /\ Views(Read, backend, writes, Uncommitted)

\* The uncommitted blocks, in terms of the list.
LEMMA UncommittedAt ==
  ASSUME IInv
  PROVE  LET d == IF Acknowledged THEN 1 ELSE 0 IN
         /\ Uncommitted \in Seq(Blocks) /\ Len(Uncommitted) = Len(m_stateStorages) - d
         /\ Len(m_stateStorages) \in Nat /\ Len(m_stateStorages) >= d
         /\ \A i \in 1 .. Len(Uncommitted) : Uncommitted[i] = m_stateStorages[i + d]
  <1>0. TypeOK /\ MergesWhatWasCommitted
    BY DEF IInv
  <1>1. m_stateStorages \in Seq(Blocks) /\ Len(m_stateStorages) \in Nat
    <2>1. m_stateStorages \in Seq(Blocks)
      BY <1>0 DEF TypeOK
    <2> HIDE DEF Blocks
    <2> QED  BY <2>1, LenProperties
  <1>2. CASE ~Acknowledged
    <2>1. Uncommitted = m_stateStorages
      BY <1>2 DEF Uncommitted, Acknowledged
    <2> HIDE DEF Blocks
    <2> QED  BY <1>1, <1>2, <2>1
  <1>3. CASE Acknowledged
    <2>1. Uncommitted = Tail(m_stateStorages)
      BY <1>3 DEF Uncommitted, Acknowledged
    <2>2. m_stateStorages # <<>>
      BY <1>0, <1>3 DEF Acknowledged, MergesWhatWasCommitted
    <2> HIDE DEF Blocks
    <2> QED  BY <1>0, <1>1, <1>3, <2>1, <2>2, Ends
  <1> QED  BY <1>2, <1>3

\* Below the uncommitted blocks a read finds the durable rows: in the cached storage, or in
\* the storage of the committed block until it is erased.
LEMMA BelowIsDurable ==
  ASSUME IInv, Layers, NEW k \in Keys
  PROVE  IF Acknowledged THEN /\ Head(m_stateStorages).sid \in Sids
                              /\ Read[Head(m_stateStorages).sid][k] = backend[k]
         ELSE Read[Base][k] = backend[k]
  <1>0. /\ TypeOK /\ MergesWhatWasCommitted /\ CommitInFlight /\ CacheDuring /\ NoCache
        /\ ChainLinked
    BY DEF IInv
  <1>1. Read[Base][k] = BaseRead(k)
    <2>1. Base \in 0 .. MaxStorage
      OBVIOUS
    <2> HIDE DEF Base
    <2> QED  BY <1>0, <2>1, ReadAt
  <1>2. CASE ~Acknowledged
    <2>1. BaseRead(k) = backend[k]
      BY <1>0, <1>2 DEF BaseRead, CacheDuring, Acknowledged
    <2> QED  BY <1>1, <1>2, <2>1
  <1>3. CASE Acknowledged
    <2> DEFINE h == Head(m_stateStorages).sid
    <2>1. m_stateStorages # <<>>
      BY <1>0, <1>3 DEF Acknowledged, MergesWhatWasCommitted
    <2>2. h \in Sids /\ prevOf[h] = Base
      BY <1>0, <2>1, Ends DEF ChainLinked
    <2>3. Read[h][k] = IF k \in writes[h] THEN h ELSE Read[Base][k]
      <3>1. h \in 0 .. MaxStorage /\ h # Base
        BY <2>2
      <3> HIDE DEF h, Base
      <3> QED  BY <1>0, <2>2, <3>1, ReadAt
    <2>4. k \in writes[h] => backend[k] = h
      BY <1>0, <1>3 DEF CommitInFlight
    <2>5. k \notin writes[h] => BaseRead(k) = backend[k]
      <3>1. commit.stage = "merge" => commit.left \subseteq writes[h]
        BY <1>0 DEF CommitInFlight, MergesWhatWasCommitted
      <3> QED  BY <1>0, <3>1 DEF BaseRead, CacheDuring
    <2> HIDE DEF h
    <2>6. Read[h][k] = backend[k]
      BY <1>1, <2>3, <2>4, <2>5
    <2> QED  BY <1>3, <2>2, <2>6 DEF h
  <1> QED  BY <1>2, <1>3

\* The views are those of a chain over the durable rows.
LEMMA ViewedHolds == IInv /\ Layers => Viewed
  <1> SUFFICES ASSUME IInv, Layers PROVE Viewed
    OBVIOUS
  <1> DEFINE d == IF Acknowledged THEN 1 ELSE 0
             u == Uncommitted
             q == m_stateStorages
  <1>0. TypeOK /\ ChainLinked /\ MergesWhatWasCommitted
    BY DEF IInv
  <1>1. /\ u \in Seq(Blocks) /\ Len(u) = Len(q) - d /\ Len(q) \in Nat
        /\ \A i \in 1 .. Len(u) : u[i] = q[i + d]
    BY UncommittedAt
  <1>2. d \in {0, 1} /\ (Acknowledged <=> d = 1)
    OBVIOUS
  <1>3. ASSUME NEW i \in 1 .. Len(u)
        PROVE  Read[u[i].sid] = [k \in Keys |-> IF k \in writes[u[i].sid] THEN u[i].sid
                                  ELSE IF i = 1 THEN backend[k] ELSE Read[u[i - 1].sid][k]]
    <2> DEFINE s == u[i].sid
    <2>1. i + d \in 1 .. Len(q) /\ u[i] = q[i + d]
      BY <1>1, <1>2
    <2>2. q # <<>>
      <3>1. Len(q) # 0
        BY <1>1, <2>1
      <3> QED  BY <3>1
    <2>3. s \in Sids /\ Head(q) = q[1]
      BY <1>0, <2>1, <2>2, Ends
    <2>4. prevOf[s] = IF i + d = 1 THEN Base ELSE q[(i + d) - 1].sid
      BY <1>0, <2>1 DEF ChainLinked
    <2>5. i # 1 => u[i - 1] = q[(i + d) - 1] /\ i + d # 1
      <3>1. i # 1 => i - 1 \in 1 .. Len(u) /\ (i - 1) + d = (i + d) - 1 /\ i + d # 1
        BY <1>1, <1>2
      <3> QED  BY <1>1, <3>1
    <2>6. ASSUME NEW k \in Keys
          PROVE  Read[prevOf[s]][k] = IF i = 1 THEN backend[k] ELSE Read[u[i - 1].sid][k]
      <3>1. CASE i # 1
        BY <2>4, <2>5, <3>1
      <3>2. CASE i = 1 /\ d = 0
        <4>1. prevOf[s] = Base /\ ~Acknowledged
          BY <1>2, <2>4, <3>2
        <4> HIDE DEF Base, d, u, q, s
        <4> QED  BY <3>2, <4>1, BelowIsDurable
      <3>3. CASE i = 1 /\ d = 1
        <4>1. prevOf[s] = Head(q).sid /\ Acknowledged
          BY <1>2, <2>3, <2>4, <3>3
        <4>2. Read[Head(q).sid][k] = backend[k]
          BY <4>1, BelowIsDurable
        <4> HIDE DEF d, u, q, s
        <4> QED  BY <3>3, <4>1, <4>2
      <3> QED  BY <1>2, <3>1, <3>2, <3>3
    <2>7. s \in 0 .. MaxStorage /\ s # Base
      BY <2>3
    <2>8. /\ Read[s] = [k \in Keys |-> Read[s][k]]
          /\ \A k \in Keys : Read[s][k] = IF k \in writes[s] THEN s ELSE Read[prevOf[s]][k]
      <3> HIDE DEF s, Base
      <3> QED  BY <1>0, <2>7, ReadAt
    <2> HIDE DEF u, q, d
    <2> QED  BY <2>6, <2>8
  <1> HIDE DEF Blocks
  <1> QED  BY <1>1, <1>3 DEF Viewed, Views

\* Two chains have the first n blocks, and the rows of these, in common.
Alike(f, w, u, g, v, t, b, n) ==
  /\ u \in Seq(Blocks) /\ t \in Seq(Blocks) /\ n \in Nat /\ n <= Len(u) /\ n <= Len(t)
  /\ Views(f, b, w, u) /\ Views(g, b, v, t)
  /\ \A i \in 1 .. n : u[i].sid = t[i].sid /\ w[u[i].sid] = v[t[i].sid]

\* Then they have the first n views in common.
LEMMA ViewsAgree ==
  ASSUME NEW f, NEW w, NEW u, NEW g, NEW v, NEW t, NEW b, NEW n,
         Alike(f, w, u, g, v, t, b, n)
  PROVE  \A i \in 1 .. n : f[u[i].sid] = g[t[i].sid]
  <1> USE DEF Alike
  <1> DEFINE B == {i \in 1 .. n : f[u[i].sid] # g[t[i].sid]}
  <1> SUFFICES ASSUME B # {} PROVE FALSE
    OBVIOUS
  <1>1. PICK m \in B : \A i \in B : m <= i
    <2>1. B \subseteq Nat
      OBVIOUS
    <2> HIDE DEF B
    <2> QED  BY <2>1, Least
  <1>2. m \in 1 .. n /\ f[u[m].sid] # g[t[m].sid]
    BY <1>1
  <1>3. m # 1 => m - 1 \in 1 .. n /\ m - 1 \notin B
    <2>1. m # 1 => m - 1 \in 1 .. n /\ ~ (m <= m - 1)
      BY <1>2
    <2> HIDE DEF B
    <2> QED  BY <1>1, <2>1
  <1>4. m # 1 => f[u[m - 1].sid] = g[t[m - 1].sid]
    BY <1>3
  <1>5. m \in 1 .. Len(u) /\ m \in 1 .. Len(t)
    <2> HIDE DEF Blocks, B
    <2>1. Len(u) \in Nat /\ Len(t) \in Nat
      BY LenProperties
    <2> QED  BY <1>2, <2>1
  <1>6. f[u[m].sid] = [k \in Keys |-> IF k \in w[u[m].sid] THEN u[m].sid
                                      ELSE IF m = 1 THEN b[k] ELSE f[u[m - 1].sid][k]]
    BY <1>5 DEF Views
  <1>7. g[t[m].sid] = [k \in Keys |-> IF k \in v[t[m].sid] THEN t[m].sid
                                      ELSE IF m = 1 THEN b[k] ELSE g[t[m - 1].sid][k]]
    BY <1>5 DEF Views
  <1>8. u[m].sid = t[m].sid /\ w[u[m].sid] = v[t[m].sid]
    BY <1>2
  <1> HIDE DEF B
  <1> QED  BY <1>2, <1>4, <1>6, <1>7, <1>8

\* The chain of Ledger, as a function of this state.
chain ==
  [i \in 1 .. Len(Uncommitted) |->
     [number |-> Uncommitted[i].number, view |-> Read[Uncommitted[i].sid]]]

\* A function on 1 .. m is a sequence.
LEMMA FunSeq ==
  ASSUME NEW m \in Nat, NEW c, c = [i \in 1 .. m |-> c[i]]
  PROVE  /\ \A S : (\A i \in 1 .. m : c[i] \in S) => c \in Seq(S)
         /\ Len(c) = m /\ (c = <<>> <=> m = 0)
         /\ m # 0 => Head(c) = c[1] /\ Last(c) = c[m]
  <1>1. ASSUME NEW S, \A i \in 1 .. m : c[i] \in S PROVE c \in Seq(S)
    <2>1. c \in [1 .. m -> S]
      BY <1>1
    <2> QED  BY <2>1
  <1> DEFINE S == {c[i] : i \in 1 .. m}
  <1>2. c \in Seq(S)
    BY <1>1
  <1>3. Len(c) = m
    <2>1. DOMAIN c = 1 .. m
      OBVIOUS
    <2> HIDE DEF S
    <2>2. Len(c) \in Nat /\ DOMAIN c = 1 .. Len(c)
      BY <1>2, LenProperties
    <2> QED  BY <2>1, <2>2
  <1>4. c = <<>> <=> m = 0
    <2> HIDE DEF S
    <2> QED  BY <1>2, <1>3, EmptySeq
  <1>5. m # 0 => Head(c) = c[1] /\ Last(c) = c[m]
    <2> HIDE DEF S
    <2> QED  BY <1>2, <1>3, <1>4, HeadTailProperties DEF Last
  <1> QED  BY <1>1, <1>3, <1>4, <1>5

\* d is c with one more element at the end.
OneMore(c, d, m) ==
  /\ m \in Nat /\ c = [i \in 1 .. m |-> c[i]] /\ d = [i \in 1 .. m + 1 |-> d[i]]
  /\ \A i \in 1 .. m : d[i] = c[i]

\* Then it is what Append makes of c.
LEMMA FunAppend ==
  ASSUME NEW c, NEW d, NEW m, OneMore(c, d, m)
  PROVE  d = Append(c, d[m + 1])
  <1> USE DEF OneMore
  <1> DEFINE S == {d[i] : i \in 1 .. m + 1}
             e == Append(c, d[m + 1])
  <1>1. /\ \A i \in 1 .. m : c[i] \in S
        /\ d[m + 1] \in S /\ \A i \in 1 .. m + 1 : d[i] \in S
    <2>1. \A i \in 1 .. m : i \in 1 .. m + 1
      OBVIOUS
    <2> QED  BY <2>1
  <1> HIDE DEF S
  <1>2. c \in Seq(S) /\ d \in Seq(S) /\ Len(c) = m /\ Len(d) = m + 1
    BY <1>1, FunSeq
  <1>3. /\ e \in Seq(S) /\ Len(e) = m + 1 /\ e[m + 1] = d[m + 1]
        /\ \A i \in 1 .. m : e[i] = c[i]
    BY <1>1, <1>2, AppendProperties
  <1> HIDE DEF e
  <1>4. ASSUME NEW i \in 1 .. m + 1 PROVE d[i] = e[i]
    <2>1. i = m + 1 \/ i \in 1 .. m
      OBVIOUS
    <2> QED  BY <1>3, <2>1
  <1>5. d = e
    BY <1>2, <1>3, <1>4, SeqEqual
  <1> QED  BY <1>5 DEF e

\* d is c without its first element.
OneLess(c, d, m) ==
  /\ m \in Nat /\ c = [i \in 1 .. m + 1 |-> c[i]] /\ d = [i \in 1 .. m |-> d[i]]
  /\ \A i \in 1 .. m : d[i] = c[i + 1]

\* Then it is the tail of c.
LEMMA FunTail ==
  ASSUME NEW c, NEW d, NEW m, OneLess(c, d, m)
  PROVE  d = Tail(c) /\ Head(c) = c[1] /\ c # <<>>
  <1> USE DEF OneLess
  <1> DEFINE S == {c[i] : i \in 1 .. m + 1}
             e == Tail(c)
  <1>1. (\A i \in 1 .. m : d[i] \in S) /\ \A i \in 1 .. m + 1 : c[i] \in S
    <2>1. \A i \in 1 .. m : i + 1 \in 1 .. m + 1
      OBVIOUS
    <2> QED  BY <2>1
  <1> HIDE DEF S
  <1>2. /\ c \in Seq(S) /\ d \in Seq(S) /\ Len(c) = m + 1 /\ Len(d) = m
        /\ c # <<>> /\ Head(c) = c[1]
    BY <1>1, FunSeq
  <1>3. e \in Seq(S) /\ Len(e) = m /\ \A i \in 1 .. m : e[i] = c[i + 1]
    BY <1>2, HeadTailProperties
  <1> HIDE DEF e
  <1>4. d = e
    BY <1>2, <1>3, SeqEqual
  <1> QED  BY <1>2, <1>4 DEF e

\* A step that changes none of what the views depend on leaves the chain alone.
LEMMA ChainSame ==
  ASSUME Viewed, Viewed', Uncommitted' = Uncommitted, backend' = backend,
         \A i \in 1 .. Len(Uncommitted) :
           writes'[Uncommitted[i].sid] = writes[Uncommitted[i].sid]
  PROVE  chain' = chain
  <1> DEFINE n == Len(Uncommitted)
  <1>1. /\ Uncommitted \in Seq(Blocks) /\ Views(Read, backend, writes, Uncommitted)
        /\ Views(Read', backend, writes', Uncommitted)
    BY DEF Viewed
  <1>2. n \in Nat /\ n <= n
    <2> HIDE DEF Blocks
    <2>1. n \in Nat
      BY <1>1, LenProperties
    <2> QED  BY <2>1
  <1>3. \A i \in 1 .. n : Read[Uncommitted[i].sid] = Read'[Uncommitted[i].sid]
    <2> HIDE DEF Blocks
    <2>1. Alike(Read, writes, Uncommitted, Read', writes', Uncommitted, backend, n)
      BY <1>1, <1>2 DEF Alike
    <2> QED  BY <2>1, ViewsAgree
  <1> QED  BY <1>3 DEF chain

\* nextBlockHeader appends to the uncommitted blocks.
LEMMA UncommittedAppend ==
  ASSUME IInv, NEW b \in Blocks, m_stateStorages' = Append(m_stateStorages, b), commit' = commit
  PROVE  Uncommitted' = Append(Uncommitted, b)
  <1>0. TypeOK /\ MergesWhatWasCommitted
    BY DEF IInv
  <1>1. m_stateStorages \in Seq(Blocks)
    BY <1>0 DEF TypeOK
  <1>2. CASE ~Acknowledged
    BY <1>2 DEF Uncommitted, Acknowledged
  <1>3. CASE Acknowledged
    <2>1. m_stateStorages # <<>>
      BY <1>0, <1>3 DEF Acknowledged, MergesWhatWasCommitted
    <2> DEFINE q == m_stateStorages
               l == Tail(Append(q, b))
               r == Append(Tail(q), b)
    <2>2. Uncommitted' = l /\ Append(Uncommitted, b) = r
      BY <1>3 DEF Uncommitted, Acknowledged
    <2> HIDE DEF Blocks
    <2>3. /\ Len(q) \in Nat \ {0} /\ Tail(q) \in Seq(Blocks) /\ Len(Tail(q)) = Len(q) - 1
          /\ \A i \in 1 .. Len(q) - 1 : Tail(q)[i] = q[i + 1]
      BY <1>1, <2>1, ListEnds
    <2>4. /\ Append(q, b) \in Seq(Blocks) /\ Append(q, b) # <<>>
          /\ Len(Append(q, b)) = Len(q) + 1 /\ Append(q, b)[Len(q) + 1] = b
          /\ \A i \in 1 .. Len(q) : Append(q, b)[i] = q[i]
      BY <1>1, ListAppend
    <2>5. /\ l \in Seq(Blocks) /\ Len(l) = Len(q)
          /\ \A i \in 1 .. Len(q) : l[i] = Append(q, b)[i + 1]
      BY <2>3, <2>4, ListEnds
    <2>6. /\ r \in Seq(Blocks) /\ Len(r) = Len(q) /\ r[Len(q)] = b
          /\ \A i \in 1 .. Len(q) - 1 : r[i] = Tail(q)[i]
      <3>1. /\ r \in Seq(Blocks) /\ Len(r) = Len(Tail(q)) + 1 /\ r[Len(Tail(q)) + 1] = b
            /\ \A i \in 1 .. Len(Tail(q)) : r[i] = Tail(q)[i]
        BY <2>3, ListAppend
      <3>2. Len(Tail(q)) + 1 = Len(q)
        BY <2>3
      <3> QED  BY <2>3, <3>1, <3>2
    <2>7. ASSUME NEW i \in 1 .. Len(q) PROVE l[i] = r[i]
      <3> HIDE DEF l, r
      <3>1. CASE i = Len(q)
        BY <2>4, <2>5, <2>6, <3>1
      <3>2. CASE i # Len(q)
        <4>1. i \in 1 .. Len(q) - 1 /\ i + 1 \in 1 .. Len(q)
          <5> DEFINE m == Len(q)
          <5>1. m \in Nat /\ i \in 1 .. m /\ i # m
            BY <2>3, <3>2
          <5> HIDE DEF m
          <5>2. i \in 1 .. m - 1 /\ i + 1 \in 1 .. m
            BY <5>1
          <5> QED  BY <5>2 DEF m
        <4> QED  BY <2>3, <2>4, <2>5, <2>6, <4>1
      <3> QED  BY <3>1, <3>2
    <2> HIDE DEF l, r
    <2>8. l = r
      BY <2>5, <2>6, <2>7, SeqEqual
    <2> QED  BY <2>2, <2>8
  <1> QED  BY <1>2, <1>3

\* The number a new block gets is the one after the last uncommitted or the last committed
\* block.
LEMMA NextNumber ==
  ASSUME IInv, Layers, NEW n \in 1 .. MaxBlock, NextBlockHeader(n)
  PROVE  LET m == Len(Uncommitted) IN
         n = IF m = 0 THEN backendNumber + 1 ELSE Uncommitted[m].number + 1
  <1> DEFINE d == IF Acknowledged THEN 1 ELSE 0
             u == Uncommitted
             q == m_stateStorages
             m == Len(u)
  <1>0. TypeOK /\ MergesWhatWasCommitted
    BY DEF IInv
  <1>1. /\ m = Len(q) - d /\ Len(q) \in Nat /\ Len(q) >= d
        /\ \A i \in 1 .. m : u[i] = q[i + d]
    BY UncommittedAt
  <1>2. d \in {0, 1} /\ (Acknowledged <=> d = 1)
    OBVIOUS
  <1>3. n = IF q = <<>> THEN backendNumber + 1 ELSE Last(q).number + 1
    BY DEF NextBlockHeader
  <1>4. q = <<>> <=> Len(q) = 0
    <2>1. q \in Seq(Blocks)
      BY <1>0 DEF TypeOK
    <2> HIDE DEF Blocks
    <2> QED  BY <2>1, EmptySeq
  <1>5. q # <<>> => Last(q) = q[Len(q)] /\ Head(q) = q[1]
    BY <1>0, Ends
  <1>6. Acknowledged => Head(q).number = backendNumber
    BY DEF Layers
  <1>7. CASE m # 0
    <2>1. m \in 1 .. m /\ m + d = Len(q) /\ Len(q) # 0
      <3> HIDE DEF m, q, d
      <3> QED  BY <1>1, <1>2, <1>7
    <2>2. u[m] = q[Len(q)]
      BY <1>1, <2>1
    <2> HIDE DEF u, q, d
    <2> QED  BY <1>3, <1>4, <1>5, <1>7, <2>1, <2>2 DEF u
  <1>8. CASE m = 0 /\ d = 0
    BY <1>1, <1>3, <1>4, <1>8
  <1>9. CASE m = 0 /\ d = 1
    <2>1. Len(q) = 1
      BY <1>1, <1>9
    <2>2. Last(q).number = backendNumber /\ q # <<>>
      BY <1>2, <1>4, <1>5, <1>6, <1>9, <2>1
    <2> QED  BY <1>3, <1>9, <2>2
  <1> QED  BY <1>2, <1>7, <1>8, <1>9

\* nextBlockHeader begins a block on the view of the last one.
LEMMA BeginRefines ==
  ASSUME IInv, Layers, Viewed, Viewed', NEW n \in 1 .. MaxBlock, NextBlockHeader(n)
  PROVE  L!Begin
  <1> DEFINE s == created + 1
             b == [number |-> n, sid |-> s]
             u == Uncommitted
             m == Len(u)
  <1>0. TypeOK
    BY DEF IInv
  <1>1. /\ s \in Sids /\ b \in Blocks /\ writes' = writes /\ writes[s] = {} /\ backend' = backend
        /\ backendNumber' = backendNumber
        /\ m_stateStorages' = Append(m_stateStorages, b) /\ commit' = commit
    <2>1. s \in Sids /\ s > created
      BY <1>0 DEF NextBlockHeader, TypeOK
    <2> QED  BY <2>1 DEF NextBlockHeader, Layers
  <1>2. /\ u \in Seq(Blocks) /\ Views(Read, backend, writes, u)
        /\ Views(Read', backend, writes, Uncommitted')
    BY <1>1 DEF Viewed
  <1> HIDE DEF b, s
  <1>3. Uncommitted' = Append(u, b)
    BY <1>1, UncommittedAppend
  <1>4. /\ m \in Nat /\ Uncommitted' \in Seq(Blocks) /\ Len(Uncommitted') = m + 1
        /\ Uncommitted'[m + 1] = b /\ \A i \in 1 .. m : Uncommitted'[i] = u[i]
    <2> HIDE DEF Blocks
    <2> QED  BY <1>1, <1>2, <1>3, ListAppend
  <1> DEFINE t == Uncommitted'
             f == Read
             g == Read'
             c == chain
             e == chain'
             w == writes
  <1>5. /\ m <= Len(u) /\ m <= Len(t) /\ w[s] = {} /\ b.sid = s /\ b.number = n
        /\ Views(f, backend, w, u) /\ Views(g, backend, w, t)
        /\ t \in Seq(Blocks) /\ Len(t) = m + 1 /\ t[m + 1] = b /\ \A i \in 1 .. m : t[i] = u[i]
        /\ backend = [k \in Keys |-> backend[k]]
    <2>1. backend = [k \in Keys |-> backend[k]]
      BY <1>0 DEF TypeOK
    <2>2. m <= m /\ m <= m + 1
      BY <1>4
    <2> QED  BY <1>1, <1>2, <1>4, <2>1, <2>2 DEF b
  <1>6. n = IF m = 0 THEN backendNumber + 1 ELSE u[m].number + 1
    BY NextNumber
  <1>7. /\ c = [i \in 1 .. m |-> c[i]]
        /\ \A i \in 1 .. m : c[i] = [number |-> u[i].number, view |-> f[u[i].sid]]
    BY DEF chain
  <1>8. /\ e = [i \in 1 .. m + 1 |-> e[i]]
        /\ \A i \in 1 .. m + 1 : e[i] = [number |-> t[i].number, view |-> g[t[i].sid]]
    BY <1>4 DEF chain
  <1>9. m \in Nat /\ u \in Seq(Blocks)
    BY <1>2, <1>4
  <1> HIDE DEF Blocks, u, t, f, g, c, e, w, m, s
  <1>10. \A i \in 1 .. m : f[u[i].sid] = g[t[i].sid]
    <2>1. \A i \in 1 .. m : u[i].sid = t[i].sid /\ w[u[i].sid] = w[t[i].sid]
      BY <1>5
    <2>2. Alike(f, w, u, g, w, t, backend, m)
      BY <1>5, <1>9, <2>1 DEF Alike
    <2> QED  BY <2>2, ViewsAgree
  <1>11. g[s] = IF m = 0 THEN backend ELSE f[u[m].sid]
    <2>1. m + 1 \in 1 .. m + 1 /\ (m + 1 = 1 <=> m = 0) /\ (m + 1) - 1 = m
      BY <1>9
    <2>2. g[s] = [k \in Keys |-> IF m = 0 THEN backend[k] ELSE g[t[m].sid][k]]
      <3> DEFINE j == m + 1
      <3>1. j \in 1 .. Len(t) /\ t[j].sid = s /\ w[s] = {} /\ (j = 1 <=> m = 0) /\ j - 1 = m
        BY <1>5, <2>1
      <3> HIDE DEF j
      <3>2. g[t[j].sid] = [k \in Keys |-> IF k \in w[t[j].sid] THEN t[j].sid
                                          ELSE IF j = 1 THEN backend[k] ELSE g[t[j - 1].sid][k]]
        BY <1>5, <3>1 DEF Views
      <3> QED  BY <3>1, <3>2
    <2>3. CASE m = 0
      BY <1>5, <2>2, <2>3
    <2>4. CASE m # 0
      <3>1. m \in 1 .. m
        BY <1>9, <2>4
      <3>2. g[t[m].sid] = f[u[m].sid]
        BY <1>10, <3>1
      <3>3. m \in 1 .. Len(u)
        BY <1>9, <2>4 DEF m
      <3>4. f[u[m].sid] = [k \in Keys |-> f[u[m].sid][k]]
        BY <1>5, <3>3 DEF Views
      <3> QED  BY <2>2, <2>4, <3>2, <3>4
    <2> QED  BY <2>3, <2>4
  <1>12. \A i \in 1 .. m : e[i] = c[i]
    <2>1. \A i \in 1 .. m : i \in 1 .. m + 1
      BY <1>9
    <2> QED  BY <1>5, <1>7, <1>8, <1>10, <2>1
  <1>13. e[m + 1] = [number |-> n, view |-> g[s]]
    <2>1. m + 1 \in 1 .. m + 1
      BY <1>9
    <2> QED  BY <1>5, <1>8, <2>1
  <1>14. e[m + 1] = IF c = <<>> THEN [number |-> backendNumber + 1, view |-> backend]
                    ELSE [number |-> Last(c).number + 1, view |-> Last(c).view]
    <2>1. (c = <<>> <=> m = 0) /\ (m # 0 => Last(c) = c[m] /\ m \in 1 .. m)
      BY <1>7, <1>9, FunSeq
    <2>2. CASE m = 0
      BY <1>6, <1>11, <1>13, <2>1, <2>2
    <2>3. CASE m # 0
      <3>1. Last(c) = [number |-> u[m].number, view |-> f[u[m].sid]]
        BY <1>7, <2>1, <2>3
      <3> QED  BY <1>6, <1>11, <1>13, <2>1, <2>3, <3>1
    <2> QED  BY <2>2, <2>3
  <1>15. e = Append(c, e[m + 1])
    <2>1. OneMore(c, e, m)
      BY <1>7, <1>8, <1>9, <1>12 DEF OneMore
    <2> QED  BY <2>1, FunAppend
  <1>16. chain' = Append(chain, IF chain = <<>> THEN [number |-> backendNumber + 1, view |-> backend]
                    ELSE [number |-> Last(chain).number + 1, view |-> Last(chain).view])
    BY <1>14, <1>15 DEF c, e
  <1> QED  BY <1>1, <1>16 DEF L!Begin, L!Last, Last, chain

\* The storage that executeTransaction writes is the last uncommitted one, or it is none of
\* them (after a reset).
LEMMA WritesLast ==
  ASSUME IInv, NEW k \in Keys, Execute(k), NEW i \in 1 .. Len(Uncommitted),
         Uncommitted[i].sid = m_blockContext.sid
  PROVE  /\ i = Len(Uncommitted)
         /\ \A j \in 1 .. i - 1 : Uncommitted[j].sid # m_blockContext.sid
  <1> DEFINE d == IF Acknowledged THEN 1 ELSE 0
             u == Uncommitted
             q == m_stateStorages
             m == Len(u)
             n == Len(q)
  <1>0. TypeOK /\ ChainLinked
    BY DEF IInv
  <1>1. /\ m = n - d /\ n \in Nat /\ n >= d
        /\ \A j \in 1 .. m : u[j] = q[j + d]
    BY UncommittedAt
  <1>2. d \in {0, 1}
    OBVIOUS
  <1>3. m_blockContext.sid \notin readOnly
    BY DEF Execute
  <1>4. \A j \in 1 .. n : /\ j < n => q[j].sid \in readOnly
                          /\ \A l \in 1 .. j - 1 : q[l].sid < q[j].sid
    BY <1>0 DEF ChainLinked
  <1>5. \A j \in 1 .. n : q[j].sid \in Nat
    <2>1. q \in Seq(Blocks)
      BY <1>0 DEF TypeOK
    <2>2. \A j \in 1 .. n : q[j] \in Blocks
      <3> HIDE DEF Blocks
      <3> QED  BY <2>1, ElementOfSeq
    <2> QED  BY <2>2, Fields
  <1>6. i \in 1 .. m /\ u[i].sid = m_blockContext.sid
    OBVIOUS
  <1> HIDE DEF d, u, q, m, n
  <1>7. i = m
    <2> SUFFICES ASSUME i # m PROVE FALSE
      OBVIOUS
    <2>1. i + d \in 1 .. n /\ i + d < n
      BY <1>1, <1>2, <1>6
    <2> QED  BY <1>1, <1>3, <1>4, <1>6, <2>1
  <1>8. ASSUME NEW j \in 1 .. i - 1 PROVE u[j].sid # m_blockContext.sid
    <2>1. j \in 1 .. m /\ j + d \in 1 .. (i + d) - 1 /\ i + d \in 1 .. n /\ j + d \in 1 .. n
      BY <1>1, <1>2, <1>6
    <2>2. q[j + d].sid < q[i + d].sid
      BY <1>4, <2>1
    <2>3. q[j + d].sid \in Nat /\ q[i + d].sid \in Nat
      BY <1>5, <2>1
    <2>4. q[j + d].sid # q[i + d].sid
      BY <2>2, <2>3
    <2> QED  BY <1>1, <1>6, <2>1, <2>4
  <1> QED  BY <1>7, <1>8 DEF u, m

\* executeTransaction writes the view of the last block.
LEMMA WriteRefines ==
  ASSUME IInv, Viewed, Viewed', NEW k \in Keys, Execute(k),
         NEW m \in 1 .. Len(Uncommitted), Uncommitted[m].sid = m_blockContext.sid,
         NEW x, x = m_blockContext.sid
  PROVE  L!Write(k, x) /\ x \in Values
  <1> DEFINE s == m_blockContext.sid
             u == Uncommitted
             f == Read
             g == Read'
             w == writes
             v == writes'
             c == chain
             e == chain'
  <1>0. TypeOK
    BY DEF IInv
  <1>1. /\ s \in Sids /\ Uncommitted' = u /\ backend' = backend /\ backendNumber' = backendNumber
        /\ v = [w EXCEPT ![s] = @ \cup {k}] /\ w \in [Sids -> SUBSET Keys]
    BY <1>0 DEF Execute, TypeOK, Uncommitted, memoryVars
  <1>2. m = Len(u) /\ \A j \in 1 .. m - 1 : u[j].sid # s
    BY WritesLast
  <1>3. u \in Seq(Blocks) /\ Views(f, backend, w, u) /\ Views(g, backend, v, u)
    BY <1>1 DEF Viewed
  <1>4. /\ c = [i \in 1 .. m |-> c[i]]
        /\ \A i \in 1 .. m : c[i] = [number |-> u[i].number, view |-> f[u[i].sid]]
    BY <1>2 DEF chain
  <1>5. /\ e = [i \in 1 .. m |-> e[i]]
        /\ \A i \in 1 .. m : e[i] = [number |-> u[i].number, view |-> g[u[i].sid]]
    BY <1>1, <1>2 DEF chain
  <1>6. m \in Nat /\ m >= 1 /\ m - 1 \in Nat /\ m \in 1 .. m /\ u[m].sid = s
    <2>1. Len(u) \in Nat
      <3> HIDE DEF Blocks, u
      <3> QED  BY <1>3, LenProperties
    <2> QED  BY <2>1
  <1>7. \A j \in 1 .. m - 1 : u[j].sid \in Sids
    <2>1. \A j \in 1 .. m - 1 : j \in 1 .. Len(u)
      BY <1>2, <1>6
    <2>2. \A j \in 1 .. m - 1 : u[j] \in Blocks
      <3> HIDE DEF Blocks, u
      <3> QED  BY <1>3, <2>1, ElementOfSeq
    <2> QED  BY <2>2, Fields
  <1>8. v[s] = w[s] \cup {k} /\ \A j \in 1 .. m - 1 : v[u[j].sid] = w[u[j].sid]
    BY <1>1, <1>2, <1>7
  <1> HIDE DEF Blocks, s, u, f, g, w, v, c, e
  <1>9. \A j \in 1 .. m - 1 : f[u[j].sid] = g[u[j].sid]
    <2>1. m - 1 <= Len(u)
      BY <1>2, <1>6
    <2>2. Alike(f, w, u, g, v, u, backend, m - 1)
      BY <1>3, <1>6, <1>8, <2>1 DEF Alike
    <2> QED  BY <2>2, ViewsAgree
  <1>10. g[s] = [f[s] EXCEPT ![k] = s]
    <2>0. m \in 1 .. Len(u)
      BY <1>2, <1>6
    <2>1. f[s] = [y \in Keys |-> IF y \in w[s] THEN s
                                 ELSE IF m = 1 THEN backend[y] ELSE f[u[m - 1].sid][y]]
      <3>1. f[u[m].sid] = [y \in Keys |-> IF y \in w[u[m].sid] THEN u[m].sid
                             ELSE IF m = 1 THEN backend[y] ELSE f[u[m - 1].sid][y]]
        BY <1>3, <2>0 DEF Views
      <3> QED  BY <1>6, <3>1
    <2>2. g[s] = [y \in Keys |-> IF y \in v[s] THEN s
                                 ELSE IF m = 1 THEN backend[y] ELSE g[u[m - 1].sid][y]]
      <3>1. g[u[m].sid] = [y \in Keys |-> IF y \in v[u[m].sid] THEN u[m].sid
                             ELSE IF m = 1 THEN backend[y] ELSE g[u[m - 1].sid][y]]
        BY <1>3, <2>0 DEF Views
      <3> QED  BY <1>6, <3>1
    <2>3. m # 1 => f[u[m - 1].sid] = g[u[m - 1].sid]
      <3>1. m # 1 => m - 1 \in 1 .. m - 1
        BY <1>6
      <3> QED  BY <1>9, <3>1
    <2> QED  BY <1>8, <2>1, <2>2, <2>3
  <1>11. e = [c EXCEPT ![m] = [number |-> u[m].number, view |-> g[s]]]
    <2>1. ASSUME NEW i \in 1 .. m
          PROVE  e[i] = IF i = m THEN [number |-> u[m].number, view |-> g[s]] ELSE c[i]
      <3>1. i # m => i \in 1 .. m - 1
        BY <1>6
      <3> QED  BY <1>4, <1>5, <1>6, <1>9, <3>1
    <2> QED  BY <1>4, <1>5, <2>1
  <1>12. e = [c EXCEPT ![m].view[k] = s]
    <2>1. c[m] = [number |-> u[m].number, view |-> f[s]]
      BY <1>4, <1>6
    <2>2. [c[m] EXCEPT !.view[k] = s] = [number |-> u[m].number, view |-> g[s]]
      BY <1>10, <2>1
    <2>3. [c EXCEPT ![m].view[k] = s] = [c EXCEPT ![m] = [c[m] EXCEPT !.view[k] = s]]
      OBVIOUS
    <2> QED  BY <1>11, <2>2, <2>3
  <1>13. c # <<>> /\ Len(c) = m
    BY <1>4, <1>6, FunSeq
  <1>14. chain # <<>> /\ chain' = [chain EXCEPT ![Len(chain)].view[k] = s]
    BY <1>12, <1>13 DEF c, e
  <1>15. s \in Values
    BY <1>1
  <1> QED  BY <1>1, <1>14, <1>15 DEF L!Write, chain, s

\* What the backend commits is the view of the first block.
LEMMA CommitsFirst ==
  ASSUME IInv, Viewed, BackendCommit(TRUE)
  PROVE  /\ m_stateStorages # <<>> /\ Uncommitted = m_stateStorages
         /\ Uncommitted' = Tail(m_stateStorages) /\ writes' = writes
         /\ backend' = Read[m_stateStorages[1].sid]
         /\ backendNumber' = m_stateStorages[1].number
  <1> DEFINE q == m_stateStorages
             h == q[1].sid
  <1>0. TypeOK /\ MergesWhatWasCommitted /\ CommitInFlight /\ StagedRows /\ FreshStorages
    BY DEF IInv
  <1>1. /\ commit.stage = "sent" /\ commit'.stage = "acked"
        /\ backend' = [k \in Keys |-> IF staged.rows[k] # Absent THEN staged.rows[k] ELSE backend[k]]
        /\ backendNumber' = staged.number /\ writes' = writes /\ m_stateStorages' = q
    BY <1>0 DEF BackendCommit, storageVars, memoryVars, TypeOK
  <1>2. q # <<>> /\ Head(q).number = commit.number /\ staged.sid = Head(q).sid
        /\ staged.number = commit.number
    BY <1>0, <1>1 DEF MergesWhatWasCommitted, CommitInFlight
  <1>3. Head(q) = q[1] /\ h \in Sids /\ 1 \in 1 .. Len(q)
    BY <1>0, <1>2, Ends
  <1>4. Uncommitted = q /\ Uncommitted' = Tail(q)
    BY <1>1 DEF Uncommitted
  <1>5. staged.rows = [k \in Keys |-> IF k \in writes[h] THEN h ELSE Absent]
    <2>1. Listed(staged.sid) /\ staged.sid = h
      BY <1>2, <1>3 DEF Listed
    <2>2. staged.sid \in prepared
      BY <1>0, <2>1 DEF FreshStorages
    <2> QED  BY <1>0, <2>1, <2>2 DEF StagedRows
  <1>6. Read[h] = [k \in Keys |-> IF k \in writes[h] THEN h ELSE backend[k]]
    <2>1. Views(Read, backend, writes, q)
      BY <1>4 DEF Viewed
    <2> HIDE DEF Read
    <2> QED  BY <1>3, <2>1 DEF Views
  <1>7. h # Absent
    BY <1>3
  <1>8. backend' = Read[h]
    <2> HIDE DEF h, Absent, Read
    <2> QED  BY <1>1, <1>5, <1>6, <1>7
  <1> QED  BY <1>1, <1>2, <1>3, <1>4, <1>8

\* The backend's commit takes the first block off the chain and leaves the other views.
LEMMA CommitRefines ==
  ASSUME IInv, Viewed, Viewed', BackendCommit(TRUE)
  PROVE  L!Commit
  <1> DEFINE q == m_stateStorages
             t == Tail(q)
             m == Len(t)
             f == Read
             g == Read'
             w == writes
             b == backend'
             c == chain
             e == chain'
  <1>0. TypeOK
    BY DEF IInv
  <1>1. /\ q # <<>> /\ Uncommitted = q /\ Uncommitted' = t /\ writes' = w
        /\ b = f[q[1].sid] /\ backendNumber' = q[1].number
    BY CommitsFirst
  <1>2. /\ t \in Seq(Blocks) /\ m \in Nat /\ Len(q) = m + 1
        /\ \A i \in 1 .. m : t[i] = q[i + 1]
    <2>1. /\ t \in Seq(Blocks) /\ Len(q) \in Nat \ {0} /\ m = Len(q) - 1
          /\ \A i \in 1 .. Len(q) - 1 : t[i] = q[i + 1]
      BY <1>0, <1>1, Ends
    <2>2. m \in Nat /\ Len(q) = m + 1
      BY <2>1
    <2> HIDE DEF Blocks, t
    <2> QED  BY <2>1, <2>2
  <1>3. Views(f, backend, w, q) /\ Views(g, b, w, t)
    BY <1>1 DEF Viewed
  <1>4. /\ c = [i \in 1 .. m + 1 |-> c[i]]
        /\ \A i \in 1 .. m + 1 : c[i] = [number |-> q[i].number, view |-> f[q[i].sid]]
    BY <1>1, <1>2 DEF chain
  <1>5. /\ e = [i \in 1 .. m |-> e[i]]
        /\ \A i \in 1 .. m : e[i] = [number |-> t[i].number, view |-> g[t[i].sid]]
    BY <1>1 DEF chain
  <1> HIDE DEF Blocks, q, t, m, f, g, w, b, c, e
  <1>6. Views(f, b, w, t)
    <2> SUFFICES ASSUME NEW i \in 1 .. m
                 PROVE  f[t[i].sid] = [k \in Keys |-> IF k \in w[t[i].sid] THEN t[i].sid
                                         ELSE IF i = 1 THEN b[k] ELSE f[t[i - 1].sid][k]]
      BY DEF Views, m
    <2> DEFINE j == i + 1
    <2>1. j \in 1 .. Len(q) /\ j # 1 /\ j - 1 = i /\ t[i] = q[j]
      BY <1>2
    <2>2. i # 1 => t[i - 1] = q[i]
      <3>1. i # 1 => i - 1 \in 1 .. m /\ (i - 1) + 1 = i
        BY <1>2
      <3> QED  BY <1>2, <3>1
    <2> HIDE DEF j
    <2>3. f[q[j].sid] = [k \in Keys |-> IF k \in w[q[j].sid] THEN q[j].sid
                           ELSE IF j = 1 THEN backend[k] ELSE f[q[j - 1].sid][k]]
      BY <1>3, <2>1 DEF Views
    <2>4. f[q[j].sid] = [k \in Keys |-> IF k \in w[q[j].sid] THEN q[j].sid ELSE f[q[i].sid][k]]
      BY <2>1, <2>3
    <2>5. f[q[i].sid] = IF i = 1 THEN b ELSE f[t[i - 1].sid]
      BY <1>1, <2>2
    <2> QED  BY <2>1, <2>4, <2>5
  <1>7. \A i \in 1 .. m : f[t[i].sid] = g[t[i].sid]
    <2>1. m <= Len(t)
      BY <1>2 DEF m
    <2>2. Alike(f, w, t, g, w, t, b, m)
      BY <1>2, <1>3, <1>6, <2>1 DEF Alike
    <2> QED  BY <2>2, ViewsAgree
  <1>8. ASSUME NEW i \in 1 .. m PROVE e[i] = c[i + 1]
    <2> DEFINE j == i + 1
    <2>1. j \in 1 .. m + 1 /\ t[i] = q[j]
      BY <1>2
    <2> HIDE DEF j
    <2>2. c[j] = [number |-> q[j].number, view |-> f[q[j].sid]]
      BY <1>4, <2>1
    <2>3. e[i] = [number |-> t[i].number, view |-> f[t[i].sid]]
      BY <1>5, <1>7
    <2>4. e[i] = c[j]
      BY <2>1, <2>2, <2>3
    <2> QED  BY <2>4 DEF j
  <1>9. e = Tail(c) /\ Head(c) = c[1] /\ c # <<>>
    <2>1. OneLess(c, e, m)
      BY <1>2, <1>4, <1>5, <1>8 DEF OneLess
    <2> QED  BY <2>1, FunTail
  <1>10. Head(c) = [number |-> q[1].number, view |-> f[q[1].sid]]
    <2>1. 1 \in 1 .. m + 1
      BY <1>2
    <2> QED  BY <1>4, <1>9, <2>1
  <1>11. /\ chain # <<>> /\ chain' = Tail(chain) /\ backend' = Head(chain).view
         /\ backendNumber' = Head(chain).number
    <2>1. b = Head(c).view /\ backendNumber' = Head(c).number
      BY <1>1, <1>10
    <2> QED  BY <1>9, <2>1 DEF b, c, e
  <1> QED  BY <1>11 DEF L!Commit, chain

\* An empty list is an empty chain.
LEMMA DropRefines ==
  ASSUME Uncommitted' = <<>>, backend' = backend, backendNumber' = backendNumber
  PROVE  L!Drop
  <1>1. Len(Uncommitted') = 0
    OBVIOUS
  <1>2. chain' = <<>>
    <2> DEFINE c == chain'
    <2>1. c = [i \in 1 .. 0 |-> c[i]]
      BY <1>1 DEF chain
    <2> HIDE DEF c
    <2>2. c = <<>>
      BY <2>1, FunSeq
    <2> QED  BY <2>2 DEF c
  <1> QED  BY <1>2 DEF L!Drop, chain

\* A fresh executor has an empty chain.
LEMMA InitRefines == Init => L!Init
  <1> SUFFICES ASSUME Init PROVE L!Init
    OBVIOUS
  <1>1. Uncommitted = <<>>
    BY DEF Init, Uncommitted, NoCommit
  <1>2. Len(Uncommitted) = 0
    BY <1>1
  <1>3. chain = <<>>
    <2>1. chain = [i \in 1 .. 0 |-> chain[i]]
      BY <1>2 DEF chain
    <2> HIDE DEF chain
    <2> QED  BY <2>1, FunSeq
  <1>4. backend \in [Keys -> Values] /\ backendNumber = 0
    BY DEF Init
  <1> QED  BY <1>3, <1>4 DEF L!Init, chain

\* Every step is one of Ledger, or leaves the durable rows and all views as they are.
LEMMA StepRefines ==
  ASSUME IInv, Layers, Viewed, Viewed', [Next]_vars
  PROVE  [L!Next]_(L!vars)
  <1>0. TypeOK /\ MergesWhatWasCommitted
    BY DEF IInv
  <1>1. ASSUME NEW n \in 1 .. MaxBlock, NextBlockHeader(n) PROVE L!Next
    BY <1>1, BeginRefines DEF L!Next
  <1>2. ASSUME BackendCommit(TRUE) PROVE L!Next
    BY <1>2, CommitRefines DEF L!Next
  <1>3. ASSUME Reset \/ Restart PROVE L!Next
    <2>1. Uncommitted' = <<>> /\ backend' = backend /\ backendNumber' = backendNumber
      BY <1>3 DEF Reset, Restart, Uncommitted, NoCommit
    <2> QED  BY <2>1, DropRefines DEF L!Next
  <1>4. ASSUME NEW k \in Keys, Execute(k),
               NEW m \in 1 .. Len(Uncommitted), Uncommitted[m].sid = m_blockContext.sid
        PROVE  L!Next
    <2>1. PICK x : x = m_blockContext.sid
      OBVIOUS
    <2>2. L!Write(k, x) /\ x \in Values
      BY <1>4, <2>1, WriteRefines
    <2> HIDE DEF Values
    <2> QED  BY <2>2 DEF L!Next
  <1>5. ASSUME backend' = backend, backendNumber' = backendNumber, Uncommitted' = Uncommitted,
               \A i \in 1 .. Len(Uncommitted) :
                 writes'[Uncommitted[i].sid] = writes[Uncommitted[i].sid]
        PROVE  UNCHANGED L!vars
    <2>1. chain' = chain
      BY <1>5, ChainSame
    <2> QED  BY <1>5, <2>1 DEF L!vars, chain
  <1>6. ASSUME NEW k \in Keys, Execute(k),
               \A m \in 1 .. Len(Uncommitted) : Uncommitted[m].sid # m_blockContext.sid
        PROVE  UNCHANGED L!vars
    <2>1. /\ backend' = backend /\ backendNumber' = backendNumber /\ Uncommitted' = Uncommitted
          /\ \E x : writes' = [writes EXCEPT ![m_blockContext.sid] = x]
      BY <1>6 DEF Execute, Uncommitted, memoryVars
    <2>2. ASSUME NEW i \in 1 .. Len(Uncommitted)
          PROVE  writes'[Uncommitted[i].sid] = writes[Uncommitted[i].sid]
      <3>1. Uncommitted[i].sid # m_blockContext.sid /\ Uncommitted[i].sid \in Sids
        <4>1. Uncommitted \in Seq(Blocks)
          BY DEF Viewed
        <4>2. Uncommitted[i] \in Blocks
          <5> HIDE DEF Blocks
          <5> QED  BY <4>1, ElementOfSeq
        <4> QED  BY <1>6, <4>2, Fields
      <3> QED  BY <1>0, <2>1, <3>1 DEF TypeOK
    <2> QED  BY <1>5, <2>1, <2>2
  <1>7. ASSUME \/ \E n \in 1 .. MaxBlock :
                    (\E ok \in BOOLEAN : Prepare(n, ok)) \/ Rollback(n) \/ CommitRequest(n)
               \/ \E k \in Keys : Merge(k) \/ CacheFill(k) \/ CacheEvict(k)
               \/ BackendCommit(FALSE) \/ CommitCallback \/ MergeEnd \/ Erase
               \/ UNCHANGED vars
        PROVE  UNCHANGED L!vars
    <2>1. backend' = backend /\ backendNumber' = backendNumber /\ writes' = writes
      BY <1>7 DEF Prepare, Rollback, CommitRequest, Merge, CacheFill, CacheEvict,
                  BackendCommit, CommitCallback, MergeEnd, Erase, vars, storageVars
    <2>2. Uncommitted' = Uncommitted
      <3>1. CASE \E n \in 1 .. MaxBlock : CommitRequest(n)
        <4>1. commit'.stage = "sent" /\ commit.stage = "none" /\ m_stateStorages' = m_stateStorages
          BY <3>1 DEF CommitRequest, NoCommit, memoryVars
        <4> QED  BY <4>1 DEF Uncommitted
      <3>2. CASE BackendCommit(FALSE)
        <4>1. commit' = NoCommit /\ commit.stage = "sent" /\ m_stateStorages' = m_stateStorages
          BY <3>2 DEF BackendCommit, memoryVars
        <4> QED  BY <4>1 DEF Uncommitted, NoCommit
      <3>3. CASE CommitCallback
        <4>1. m_stateStorages # <<>> /\ commit.stage = "acked" /\ m_stateStorages' = m_stateStorages
          BY <1>0, <3>3 DEF CommitCallback, MergesWhatWasCommitted
        <4>2. commit'.stage \in {"merge", "erase"}
          BY <1>0, <3>3, <4>1 DEF CommitCallback, TypeOK
        <4> QED  BY <4>1, <4>2 DEF Uncommitted
      <3>4. CASE MergeEnd \/ \E k \in Keys : Merge(k)
        <4>1. commit.stage = "merge" /\ m_stateStorages' = m_stateStorages
          BY <3>4 DEF MergeEnd, Merge, memoryVars
        <4>2. commit'.stage \in {"merge", "erase"}
          BY <1>0, <3>4 DEF MergeEnd, Merge, TypeOK
        <4> QED  BY <4>1, <4>2 DEF Uncommitted
      <3>5. CASE Erase
        BY <3>5 DEF Erase, Uncommitted, NoCommit
      <3>6. CASE \/ \E n \in 1 .. MaxBlock : (\E ok \in BOOLEAN : Prepare(n, ok)) \/ Rollback(n)
                 \/ \E k \in Keys : CacheFill(k) \/ CacheEvict(k)
                 \/ UNCHANGED vars
        BY <3>6 DEF Prepare, Rollback, CacheFill, CacheEvict, vars, memoryVars, Uncommitted
      <3> QED  BY <1>7, <3>1, <3>2, <3>3, <3>4, <3>5, <3>6
    <2> QED  BY <1>5, <2>1, <2>2
  <1> QED  BY <1>1, <1>2, <1>3, <1>4, <1>6, <1>7 DEF Next

(* The pipeline implements Ledger, for any number of blocks and rows, with  *)
(* or without the cached storage: every block is executed on what its       *)
(* parent left, a commit makes exactly the first block's state durable, and *)
(* neither its callback, which merges, erases and relinks step by step, nor *)
(* an eviction or a read-through changes what a later block reads.          *)
THEOREM LedgerRefinement == Spec => ImplementsLedger
  <1>1. Spec => []Layers
    BY InitLayers, StepLayers, Invariance, PTL DEF Spec
  <1>2. Spec => []Viewed
    BY <1>1, ViewedHolds, Invariance, PTL
  <1> QED
    BY <1>1, <1>2, InitRefines, StepRefines, Invariance, PTL DEF Spec, ImplementsLedger, L!Spec
=============================================================================
