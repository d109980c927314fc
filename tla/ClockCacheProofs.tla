-------------------------- MODULE ClockCacheProofs --------------------------
(***************************************************************************)
(* Proofs about ClockCache, for any number of threads, hashes and any      *)
(* capacity.                                                               *)
(*                                                                         *)
(* That a handle is valid needs to know where every item is: an item is    *)
(* filled again only out of the recycle bin, it comes there only when      *)
(* nobody refers to it (Counted, Bin), and whoever takes the last          *)
(* reference or the in-cache bit is the only one to bring it there         *)
(* (OnItsWay).  That m_usage and the table agree with the items needs the  *)
(* item in transit: filled and not yet linked, or evicted and not yet out  *)
(* of the table (Linked, UsageCount).                                      *)
(***************************************************************************)
EXTENDS ClockCache, FiniteSetTheorems, SequenceTheorems, TLAPS

\* The steps a thread takes with m_mutex held.
Inside == {"evict", "evicted", "fill", "unlink", "link"}

\* The item a thread has taken out of the cache and not yet recycled.
Leaving(t) == pc[t] \in {"recycle", "evicted"}

\* The item insert has filled is not yet in the table.
Filling(t) == pc[t] \in {"unlink", "link"}

\* m_mutex protects insert.
Exclusion == \A t \in Threads : pc[t] \in Inside <=> mutex = t

\* What a thread works on exists.
Working ==
  \A t \in Threads :
    /\ pc[t] \in {"idle", "evict", "fill"} => item[t] = None
    /\ pc[t] \notin {"idle", "evict", "fill"} => item[t] \in 1 .. size
    /\ pc[t] \in Inside \cup {"ref", "verify"} => key[t] \in Hashes
    /\ pc[t] \in {"held", "unlink", "link"} => hashOf[item[t]] = key[t]

\* The reference count is the number of references.
Counted == \A p \in Items : flags[p].refs = Cardinality(Holders(p))

\* The recycle bin holds each item once, and only dead ones.
Bin ==
  /\ \A a, b \in DOMAIN recycle : recycle[a] = recycle[b] => a = b
  /\ \A a \in DOMAIN recycle : /\ recycle[a] \in 1 .. size
                               /\ ~flags[recycle[a]].in /\ flags[recycle[a]].refs = 0

\* Values are deleted exactly when their item is in the bin.
Alive == \A p \in 1 .. size : live[p] <=> p \notin Range(recycle)

\* An item on its way to the bin is out of the cache, out of the bin, and nobody else's.
OnItsWay ==
  \A t \in Threads : Leaving(t) =>
    /\ ~flags[item[t]].in /\ flags[item[t]].refs = 0 /\ item[t] \notin Range(recycle)
    /\ \A u \in Threads : Leaving(u) /\ item[u] = item[t] => u = t

\* Every item is somewhere; beyond the list there is none.
NoneLost ==
  \A p \in Items :
    IF p > size THEN ~flags[p].in
    ELSE \/ p \in Range(recycle) \/ flags[p].in \/ flags[p].refs > 0
         \/ \E t \in Threads : Leaving(t) /\ item[t] = p

\* The table names the items in the cache, each under the key of its hash, and an item
\* that is being evicted.
Linked ==
  /\ \A l \in Lows : table[l] # None =>
       /\ table[l] \in 1 .. size /\ Low(hashOf[table[l]]) = l
       /\ flags[table[l]].in \/ \E t \in Threads : pc[t] = "evicted" /\ item[t] = table[l]
  /\ \A p \in Items : flags[p].in =>
       table[Low(hashOf[p])] = p \/ \E t \in Threads : Filling(t) /\ item[t] = p
  /\ \A t \in Threads :
       /\ Filling(t) => flags[item[t]].in /\ \A l \in Lows : table[l] # item[t]
       /\ pc[t] = "link" => table[Low(key[t])] = None
       /\ pc[t] = "evicted" => table[Low(hashOf[item[t]])] = item[t]

\* m_usage counts the items that are neither in the bin nor just being filled.
UsageCount ==
  /\ usage + Len(recycle) + (IF \E t \in Threads : Filling(t) THEN 1 ELSE 0) = size
  /\ \A t \in Threads : pc[t] \in {"fill", "unlink", "link"} => usage < Capacity

IndInv == /\ TypeOK /\ Exclusion /\ Working /\ Counted /\ Bin /\ Alive /\ OnItsWay
          /\ NoneLost /\ Linked /\ UsageCount

-----------------------------------------------------------------------------
(* Frames.                                                                  *)

\* The steps of a thread leave the other threads where they are.
Local(t) ==
  \A u \in Threads \ {t} : pc'[u] = pc[u] /\ item'[u] = item[u] /\ key'[u] = key[u]

\* Items are positive integers, and the list is part of them.
LEMMA ItemsFacts ==
  /\ Items \subseteq Nat \ {0} /\ None \notin Items
  /\ 1 \in Items /\ \A n \in 0 .. Capacity : n + 1 \in Items /\ 1 .. n \subseteq Items
  BY CapacityAssumption DEF Items, None

\* If only thread t moves, a reference count that follows it stays right.
LEMMA CountedStep ==
  ASSUME NEW t \in Threads, TypeOK, Counted, Local(t),
         \A q \in Items : flags'[q].refs =
           flags[q].refs + (IF t \in Holders(q)' THEN 1 ELSE 0) - (IF t \in Holders(q) THEN 1 ELSE 0)
  PROVE  Counted'
  <1> SUFFICES ASSUME NEW q \in Items
               PROVE  flags'[q].refs = Cardinality(Holders(q)')
    BY DEF Counted
  <1> DEFINE rest == Holders(q) \ {t}
  <1>1. IsFiniteSet(Holders(q)) /\ IsFiniteSet(rest)
    BY ThreadsAssumption, FS_Subset DEF Holders
  <1>2. /\ Holders(q) = IF t \in Holders(q) THEN rest \cup {t} ELSE rest
        /\ Holders(q)' = IF t \in Holders(q)' THEN rest \cup {t} ELSE rest
    BY DEF Local, Holders
  <1>3. t \notin rest /\ Cardinality(rest) \in Nat /\ Cardinality(rest \cup {t}) = Cardinality(rest) + 1
    BY <1>1, FS_AddElement, FS_CardinalityType
  <1>4. flags[q].refs = Cardinality(Holders(q))
    BY DEF Counted
  <1> DEFINE old == Holders(q)
             new == Holders(q)'
  <1>5. /\ flags'[q].refs = Cardinality(old) + (IF t \in new THEN 1 ELSE 0) - (IF t \in old THEN 1 ELSE 0)
        /\ old = IF t \in old THEN rest \cup {t} ELSE rest
        /\ new = IF t \in new THEN rest \cup {t} ELSE rest
    BY <1>2, <1>4
  <1> HIDE DEF rest, old, new
  <1>6. CASE t \in new
    <2>1. Cardinality(new) = Cardinality(rest) + 1
      BY <1>3, <1>5, <1>6
    <2>2. CASE t \in old
      <3>1. Cardinality(old) = Cardinality(rest) + 1 /\ flags'[q].refs = Cardinality(old) + 1 - 1
        BY <1>3, <1>5, <1>6, <2>2
      <3> QED  BY <3>1, <2>1, <1>3 DEF new
    <2>3. CASE t \notin old
      <3>1. Cardinality(old) = Cardinality(rest) /\ flags'[q].refs = Cardinality(old) + 1 - 0
        BY <1>3, <1>5, <1>6, <2>3
      <3> QED  BY <3>1, <2>1, <1>3 DEF new
    <2> QED  BY <2>2, <2>3
  <1>7. CASE t \notin new
    <2>1. Cardinality(new) = Cardinality(rest)
      BY <1>3, <1>5, <1>7
    <2>2. CASE t \in old
      <3>1. Cardinality(old) = Cardinality(rest) + 1 /\ flags'[q].refs = Cardinality(old) + 0 - 1
        BY <1>3, <1>5, <1>7, <2>2
      <3> QED  BY <3>1, <2>1, <1>3 DEF new
    <2>3. CASE t \notin old
      <3>1. Cardinality(old) = Cardinality(rest) /\ flags'[q].refs = Cardinality(old) + 0 - 0
        BY <1>3, <1>5, <1>7, <2>3
      <3> QED  BY <3>1, <2>1, <1>3 DEF new
    <2> QED  BY <2>2, <2>3
  <1> QED
    BY <1>6, <1>7

\* If thread t neither takes nor gives back a reference, the counts stay right.
LEMMA CountedSame ==
  ASSUME NEW t \in Threads, Counted, Local(t),
         \A q \in Items : flags'[q].refs = flags[q].refs /\ (t \in Holders(q)' <=> t \in Holders(q))
  PROVE  Counted'
  <1> SUFFICES ASSUME NEW q \in Items
               PROVE  flags'[q].refs = Cardinality(Holders(q)')
    BY DEF Counted
  <1>1. Holders(q)' = Holders(q)
    BY DEF Local, Holders
  <1> QED  BY <1>1 DEF Counted

\* CacheItem::flags.
Flags == [in : BOOLEAN, usage : BOOLEAN, refs : Nat]

\* What ref, unref, unsetInCache and tryEvict make of an item's flags are flags.
LEMMA FlagsUpdates ==
  ASSUME NEW f \in Flags
  PROVE  /\ [f EXCEPT !.refs = @ + 1] \in Flags
         /\ f.refs > 0 => [f EXCEPT !.refs = @ - 1] \in Flags
         /\ [f EXCEPT !.in = FALSE] \in Flags
         /\ \A b \in BOOLEAN : [f EXCEPT !.usage = b] \in Flags
  <1>1. \A n \in Nat : [f EXCEPT !.refs = n] \in Flags
    BY DEF Flags
  <1>2. f.refs \in Nat
    BY DEF Flags
  <1>3. [f EXCEPT !.refs = @ + 1] \in Flags
    <2>1. f.refs + 1 \in Nat
      BY <1>2
    <2> QED  BY <1>1, <2>1
  <1>4. f.refs > 0 => [f EXCEPT !.refs = @ - 1] \in Flags
    <2>1. f.refs > 0 => f.refs - 1 \in Nat
      BY <1>2
    <2> QED  BY <1>1, <2>1
  <1>5. [f EXCEPT !.in = FALSE] \in Flags
    BY DEF Flags
  <1>6. \A b \in BOOLEAN : [f EXCEPT !.usage = b] \in Flags
    BY DEF Flags
  <1> QED  BY <1>3, <1>4, <1>5, <1>6

\* One item's flags change.
LEMMA FlagsTyped ==
  ASSUME NEW p \in Items, NEW f \in Flags, flags \in [Items -> Flags],
         flags' = [flags EXCEPT ![p] = f]
  PROVE  flags' \in [Items -> Flags]
  OBVIOUS

\* Whoever holds an item is counted.
LEMMA HolderCounts ==
  ASSUME NEW p \in Items, NEW t \in Holders(p), Counted, TypeOK
  PROVE  flags[p].refs \in Nat /\ flags[p].refs > 0
  <1>1. flags[p].refs = Cardinality(Holders(p)) /\ flags[p].refs \in Nat
    BY DEF Counted, TypeOK
  <1>2. IsFiniteSet(Holders(p))
    BY ThreadsAssumption, FS_Subset DEF Holders
  <1>3. Cardinality(Holders(p)) # 0
    BY <1>2, FS_EmptySet
  <1> QED  BY <1>1, <1>3

\* recycleItem puts one item in the bin.
LEMMA BinGrows ==
  ASSUME NEW p \in Items, recycle \in Seq(Items), recycle' = Append(recycle, p)
  PROVE  /\ recycle' \in Seq(Items) /\ Len(recycle)' = Len(recycle) + 1
         /\ DOMAIN recycle' = DOMAIN recycle \cup {Len(recycle) + 1}
         /\ Len(recycle) + 1 \notin DOMAIN recycle
         /\ recycle'[Len(recycle) + 1] = p
         /\ \A a \in DOMAIN recycle : recycle'[a] = recycle[a]
         /\ Range(recycle)' = Range(recycle) \cup {p}
  <1>1. /\ recycle' \in Seq(Items) /\ Len(recycle') = Len(recycle) + 1
        /\ DOMAIN recycle' = DOMAIN recycle \cup {Len(recycle) + 1}
        /\ Len(recycle) + 1 \notin DOMAIN recycle
        /\ recycle'[Len(recycle) + 1] = p
        /\ \A a \in DOMAIN recycle : recycle'[a] = recycle[a]
    OBVIOUS
  <1>2. Range(recycle)' = Range(recycle) \cup {p}
    BY <1>1 DEF Range
  <1> QED  BY <1>1, <1>2

\* The bin has as many items as its length.
LEMMA BinSize ==
  ASSUME TypeOK, Bin
  PROVE  /\ Range(recycle) \subseteq 1 .. size /\ IsFiniteSet(Range(recycle))
         /\ Cardinality(Range(recycle)) = Len(recycle) /\ Len(recycle) \in Nat
  <1>1. recycle \in Seq(Items) /\ Len(recycle) \in Nat /\ DOMAIN recycle = 1 .. Len(recycle)
    BY DEF TypeOK
  <1>2. recycle \in Bijection(1 .. Len(recycle), Range(recycle))
    <2>1. recycle \in [1 .. Len(recycle) -> Range(recycle)]
      BY <1>1 DEF Range
    <2>2. IsInjective(recycle)
      BY DEF IsInjective, Bin
    <2>3. \A x \in Range(recycle) : \E a \in 1 .. Len(recycle) : recycle[a] = x
      BY <1>1 DEF Range
    <2> QED  BY <2>1, <2>2, <2>3 DEF Bijection, Injection, Surjection
  <1>3. IsFiniteSet(1 .. Len(recycle)) /\ Cardinality(1 .. Len(recycle)) = Len(recycle)
    BY <1>1, FS_Interval
  <1>4. IsFiniteSet(Range(recycle)) /\ Cardinality(Range(recycle)) = Len(recycle)
    BY <1>2, <1>3, FS_Bijection DEF ExistsBijection
  <1>5. Range(recycle) \subseteq 1 .. size
    BY DEF Range, Bin
  <1> QED  BY <1>1, <1>4, <1>5

\* Items outside the bin leave room in it.
LEMMA BinHasRoom ==
  ASSUME TypeOK, Bin, NEW p \in 1 .. size, p \notin Range(recycle)
  PROVE  /\ Len(recycle) < size
         /\ \A q \in 1 .. size : q \notin Range(recycle) /\ q # p => Len(recycle) + 1 < size
  <1>0. size \in Nat
    BY CapacityAssumption DEF TypeOK
  <1>1. size \in Nat /\ IsFiniteSet(1 .. size) /\ Cardinality(1 .. size) = size
    BY <1>0, FS_Interval
  <1>2. IsFiniteSet((1 .. size) \ {p}) /\ Cardinality((1 .. size) \ {p}) = size - 1
    BY <1>1, FS_RemoveElement
  <1>3. Cardinality(Range(recycle)) <= size - 1
    <2>1. Range(recycle) \in SUBSET ((1 .. size) \ {p})
      BY BinSize
    <2> QED  BY <1>2, <2>1, FS_Subset
  <1>4. ASSUME NEW q \in 1 .. size, q \notin Range(recycle), q # p
        PROVE  Cardinality(Range(recycle)) <= size - 2
    <2>1. /\ IsFiniteSet(((1 .. size) \ {p}) \ {q})
          /\ Cardinality(((1 .. size) \ {p}) \ {q}) = size - 1 - 1
      BY <1>2, <1>4, FS_RemoveElement
    <2>2. Range(recycle) \in SUBSET (((1 .. size) \ {p}) \ {q})
      BY <1>4, BinSize
    <2>3. Cardinality(Range(recycle)) <= size - 1 - 1
      BY <2>1, <2>2, FS_Subset
    <2> QED  BY <1>1, <2>3, BinSize
  <1> QED  BY <1>1, <1>3, <1>4, BinSize

\* The items threads work on are items.
LEMMA WorkItems ==
  ASSUME TypeOK, Working
  PROVE  /\ \A u \in Threads : Leaving(u) \/ Filling(u) => item[u] \in Items
         /\ \A l \in Lows : table[l] # None => table[l] \in Items
         /\ \A a \in DOMAIN recycle : recycle[a] \in Items
         /\ \A q \in Items : flags[q].refs \in Nat
         /\ usage \in Nat /\ size \in Nat /\ Len(recycle) \in Nat
         /\ 1 .. size \subseteq Items
  <1>1. size \in 0 .. Capacity /\ 1 .. size \subseteq Items /\ size \in Nat /\ usage \in Nat
    <2>1. size \in 0 .. Capacity /\ usage \in 0 .. Capacity
      BY DEF TypeOK
    <2> QED  BY <2>1, ItemsFacts, CapacityAssumption
  <1>2. \A u \in Threads : Leaving(u) \/ Filling(u) => item[u] \in Items
    BY <1>1 DEF Working, Leaving, Filling
  <1>3. \A l \in Lows : table[l] # None => table[l] \in Items
    BY DEF TypeOK
  <1>4. /\ \A a \in DOMAIN recycle : recycle[a] \in Items
        /\ Len(recycle) \in Nat
    BY DEF TypeOK
  <1>5. \A q \in Items : flags[q].refs \in Nat
    BY DEF TypeOK
  <1> QED  BY <1>1, <1>2, <1>3, <1>4, <1>5

\* A thread inside insert has m_mutex, and no other thread is inside.
LEMMA Alone ==
  ASSUME NEW t \in Threads, Exclusion, pc[t] \in Inside
  PROVE  mutex = t /\ \A u \in Threads \ {t} : pc[u] \notin Inside
  BY DEF Exclusion

\* The scan of evictFromCache stays within the items.
LEMMA AfterType ==
  ASSUME TypeOK, NEW p \in Items
  PROVE  After(p) \in Items
  <1>1. size \in 0 .. Capacity /\ size \in Nat
    BY CapacityAssumption DEF TypeOK
  <1> QED  BY <1>1, CapacityAssumption DEF After, Items

\* Fill takes the last item of the bin.
LEMMA BinShrinks ==
  ASSUME recycle \in Seq(Items), recycle # <<>>, Bin,
         recycle' = SubSeq(recycle, 1, Len(recycle) - 1)
  PROVE  LET p == recycle[Len(recycle)] IN
         /\ p \in Items /\ p \in Range(recycle)
         /\ recycle' \in Seq(Items) /\ Len(recycle)' = Len(recycle) - 1
         /\ DOMAIN recycle' \subseteq DOMAIN recycle
         /\ \A a \in DOMAIN recycle' : recycle'[a] = recycle[a]
         /\ Range(recycle)' = Range(recycle) \ {p}
  <1> DEFINE n == Len(recycle)
             p == recycle[n]
  <1>1. n \in Nat \ {0} /\ DOMAIN recycle = 1 .. n /\ p \in Items
    BY EmptySeq, LenProperties
  <1>2. /\ recycle' \in Seq(Items) /\ Len(recycle') = n - 1
        /\ \A a \in 1 .. n - 1 : recycle'[a] = recycle[a]
        /\ DOMAIN recycle' = 1 .. n - 1
    BY <1>1
  <1>3. DOMAIN recycle' \subseteq DOMAIN recycle
    BY <1>1, <1>2
  <1>4. Range(recycle)' = Range(recycle) \ {p}
    <2>1. ASSUME NEW x \in Range(recycle') PROVE x \in Range(recycle) \ {p}
      <3>1. PICK a \in DOMAIN recycle' : x = recycle'[a]
        BY DEF Range
      <3>2. a \in DOMAIN recycle /\ n \in DOMAIN recycle /\ a # n /\ x = recycle[a]
        BY <1>1, <1>2, <3>1
      <3> QED  BY <3>2 DEF Range, Bin
    <2>2. ASSUME NEW x \in Range(recycle) \ {p} PROVE x \in Range(recycle')
      <3>1. PICK a \in DOMAIN recycle : x = recycle[a]
        BY DEF Range
      <3>2. a \in 1 .. n - 1
        BY <1>1, <3>1
      <3> QED  BY <1>2, <3>1, <3>2 DEF Range
    <2> QED  BY <2>1, <2>2
  <1>5. p \in Range(recycle)
    BY <1>1 DEF Range
  <1> QED  BY <1>1, <1>2, <1>3, <1>4, <1>5

-----------------------------------------------------------------------------
(* The inductive invariant holds at first.                                  *)

\* An empty shard satisfies the invariant.
LEMMA InitInv == Init => IndInv
  <1> SUFFICES ASSUME Init PROVE IndInv
    OBVIOUS
  <1>1. hashOf \in [Items -> Hashes]
    <2>1. (CHOOSE h \in Hashes : TRUE) \in Hashes
      BY HashesAssumption
    <2> QED  BY <2>1 DEF Init
  <1>2. TypeOK
    BY <1>1, CapacityAssumption, ItemsFacts DEF Init, TypeOK, Unused
  <1>3. Exclusion /\ Working /\ Bin /\ OnItsWay
    BY ThreadsAssumption DEF Init, Exclusion, Working, Bin, OnItsWay, Inside, Leaving, None
  <1>4. Counted
    <2>1. \A p \in Items : Holders(p) = {}
      BY DEF Init, Holders
    <2> QED  BY <2>1, FS_EmptySet DEF Init, Counted, Unused
  <1>5. Alive /\ NoneLost
    BY ItemsFacts, CapacityAssumption DEF Init, Alive, NoneLost, Unused, Items
  <1>6. Linked
    BY DEF Init, Linked, Filling, Unused
  <1>7. UsageCount
    BY DEF Init, UsageCount, Filling
  <1> QED  BY <1>2, <1>3, <1>4, <1>5, <1>6, <1>7 DEF IndInv

-----------------------------------------------------------------------------
(* lookup.                                                                  *)

\* find: the item may be stale by now, and nothing depends on it.
LEMMA FindInv ==
  ASSUME NEW t \in Threads, NEW h \in Hashes, IndInv, Find(t, h)
  PROVE  IndInv'
  <1> USE DEF IndInv
  <1>1. /\ pc[t] = "idle" /\ pc'[t] = "ref" /\ key'[t] = h /\ item'[t] = table[Low(h)] /\ Local(t)
        /\ UNCHANGED <<flags, hashOf, live, size, head, recycle, usage, table, mutex>>
        /\ table[Low(h)] \in 1 .. size
    BY DEF Find, Local, TypeOK, shardVars, Linked, Lows
  <1>2. TypeOK'
    BY DEF TypeOK, Find, Lows, shardVars
  <1>3. Exclusion' /\ Working'
    BY <1>1 DEF Exclusion, Working, Local, Inside
  <1>4. Counted'
    <2>1. \A q \in Items : t \notin Holders(q) /\ t \notin Holders(q)'
      BY <1>1 DEF Holders
    <2> QED  BY <1>1, <2>1, CountedSame
  <1>5. Bin' /\ Alive'
    BY <1>1 DEF Bin, Alive
  <1>6. OnItsWay'
    BY <1>1 DEF OnItsWay, Leaving, Local
  <1>7. NoneLost'
    BY <1>1 DEF NoneLost, Leaving, Local
  <1>8. Linked'
    BY <1>1 DEF Linked, Filling, Local
  <1>9. UsageCount'
    BY <1>1 DEF UsageCount, Filling, Local
  <1> QED  BY <1>2, <1>3, <1>4, <1>5, <1>6, <1>7, <1>8, <1>9

\* ref: an item in the cache gets one more reference, and is therefore neither in the
\* bin nor on its way to it.
LEMMA RefInv ==
  ASSUME NEW t \in Threads, IndInv, Ref(t)
  PROVE  IndInv'
  <1> USE DEF IndInv
  <1> DEFINE p == item[t]
  <1>0. p \in Items /\ p \in 1 .. size /\ pc[t] = "ref" /\ key[t] \in Hashes
    BY ItemsFacts DEF Ref, Working, TypeOK
  <1>1. CASE ~flags[p].in
    <2>0. Return(t) /\ UNCHANGED <<shardVars, newHead, second>>
      BY <1>1 DEF Ref, shardVars
    <2>1. /\ pc'[t] = "idle" /\ item'[t] = None /\ Local(t)
          /\ UNCHANGED <<flags, hashOf, live, size, head, recycle, usage, table, mutex>>
      BY <2>0 DEF Local, TypeOK, Return, shardVars
    <2>2. TypeOK'
      BY <2>0 DEF TypeOK, Return, shardVars
    <2>3. Exclusion' /\ Working'
      BY <1>0, <2>1 DEF Exclusion, Working, Local, Inside
    <2>4. Counted'
      <3>1. \A q \in Items : t \notin Holders(q) /\ t \notin Holders(q)'
        BY <1>0, <2>1 DEF Holders
      <3> QED  BY <2>1, <3>1, CountedSame
    <2>5. Bin' /\ Alive'
      BY <2>1 DEF Bin, Alive
    <2>6. OnItsWay'
      BY <1>0, <2>1 DEF OnItsWay, Leaving, Local
    <2>7. NoneLost'
      BY <1>0, <2>1 DEF NoneLost, Leaving, Local
    <2>8. Linked'
      BY <1>0, <2>1 DEF Linked, Filling, Local
    <2>9. UsageCount'
      BY <1>0, <2>1 DEF UsageCount, Filling, Local
    <2> QED  BY <2>2, <2>3, <2>4, <2>5, <2>6, <2>7, <2>8, <2>9
  <1>2. CASE flags[p].in
    <2>0. /\ flags' = [flags EXCEPT ![p].refs = @ + 1]
          /\ pc' = [pc EXCEPT ![t] = "verify"]
          /\ UNCHANGED <<hashOf, live, size, head, recycle, usage, table, mutex, key, item,
                         newHead, second>>
      BY <1>2 DEF Ref, Goto
    <2>1. /\ pc'[t] = "verify" /\ item'[t] = p /\ key'[t] = key[t] /\ Local(t)
          /\ UNCHANGED <<hashOf, live, size, head, recycle, usage, table, mutex>>
          /\ \A q \in Items : flags'[q].in <=> flags[q].in
          /\ \A q \in Items : q # p => flags'[q].refs = flags[q].refs
          /\ flags'[p].refs = flags[p].refs + 1
      BY <1>0, <2>0 DEF Local, TypeOK
    <2>2. TypeOK'
      <3>1. flags' \in [Items -> Flags]
        <4>1. flags \in [Items -> Flags] /\ flags[p] \in Flags
          BY <1>0 DEF TypeOK, Flags
        <4> QED  BY <1>0, <2>0, <4>1, FlagsUpdates, FlagsTyped
      <3> QED  BY <2>0, <3>1 DEF TypeOK, Flags
    <2>3. Exclusion' /\ Working'
      BY <1>0, <2>1 DEF Exclusion, Working, Local, Inside
    <2>4. Counted'
      <3>1. \A q \in Items : t \notin Holders(q) /\ (t \in Holders(q)' <=> q = p)
        BY <1>0, <2>1 DEF Holders
      <3>2. \A q \in Items : flags[q].refs \in Nat
        BY DEF TypeOK
      <3> QED  BY <1>0, <2>1, <3>1, <3>2, CountedStep
    <2>5. \A q \in Items : flags[q].refs \in Nat
      BY DEF TypeOK
    <2>6. Bin'
      <3>1. \A a \in DOMAIN recycle : recycle[a] \in Items /\ recycle[a] # p
        BY <1>2 DEF Bin, TypeOK
      <3> QED  BY <2>1, <3>1 DEF Bin
    <2>7. Alive'
      BY <2>1 DEF Alive
    <2>8. OnItsWay'
      <3>1. \A u \in Threads : Leaving(u) => item[u] \in Items /\ item[u] # p
        BY <1>2, ItemsFacts DEF OnItsWay, Leaving, Working, TypeOK
      <3> QED  BY <1>0, <2>1, <3>1 DEF OnItsWay, Leaving, Local
    <2>9. NoneLost'
      BY <1>0, <2>1, <2>5 DEF NoneLost, Leaving, Local
    <2>10. Linked'
      <3>1. \A u \in Threads : Filling(u) => item[u] \in Items
        BY ItemsFacts DEF Filling, Working, TypeOK
      <3>2. \A l \in Lows : table[l] # None => table[l] \in Items
        BY DEF TypeOK
      <3> QED  BY <1>0, <2>1, <3>1, <3>2 DEF Linked, Filling, Local
    <2>11. UsageCount'
      BY <1>0, <2>1 DEF UsageCount, Filling, Local
    <2> QED  BY <2>2, <2>3, <2>4, <2>6, <2>7, <2>8, <2>9, <2>10, <2>11
  <1> QED  BY <1>1, <1>2

\* The second check of the hash: it does not change until the reference is given back.
LEMMA VerifyInv ==
  ASSUME NEW t \in Threads, IndInv, Verify(t)
  PROVE  IndInv'
  <1> USE DEF IndInv
  <1>1. /\ pc[t] = "verify" /\ pc'[t] \in {"held", "unref"}
        /\ pc'[t] = "held" => hashOf[item[t]] = key[t]
        /\ key'[t] = key[t] /\ item'[t] = item[t] /\ Local(t)
        /\ UNCHANGED <<flags, hashOf, live, size, head, recycle, usage, table, mutex>>
    BY DEF Verify, Local, TypeOK, shardVars, Goto
  <1>2. TypeOK'
    BY DEF TypeOK, Verify, Goto, shardVars
  <1>3. Exclusion' /\ Working'
    BY <1>1 DEF Exclusion, Working, Local, Inside
  <1>4. Counted'
    <2>1. \A q \in Items : t \in Holders(q)' <=> t \in Holders(q)
      BY <1>1 DEF Holders
    <2> QED  BY <1>1, <2>1, CountedSame
  <1>5. Bin' /\ Alive'
    BY <1>1 DEF Bin, Alive
  <1>6. OnItsWay'
    BY <1>1 DEF OnItsWay, Leaving, Local
  <1>7. NoneLost'
    BY <1>1 DEF NoneLost, Leaving, Local
  <1>8. Linked'
    BY <1>1 DEF Linked, Filling, Local
  <1>9. UsageCount'
    BY <1>1 DEF UsageCount, Filling, Local
  <1> QED  BY <1>2, <1>3, <1>4, <1>5, <1>6, <1>7, <1>8, <1>9

-----------------------------------------------------------------------------
(* unref.                                                                   *)

\* A handle is released: the usage bit matters to the scan only.
LEMMA SetUsageInv ==
  ASSUME NEW t \in Threads, IndInv, SetUsage(t)
  PROVE  IndInv'
  <1> USE DEF IndInv
  <1> DEFINE p == item[t]
  <1>0. /\ p \in Items /\ p \in 1 .. size /\ pc[t] = "held"
        /\ flags' = [flags EXCEPT ![p].usage = TRUE]
        /\ pc' = [pc EXCEPT ![t] = "unref"]
        /\ UNCHANGED <<hashOf, live, size, head, recycle, usage, table, mutex, key, item,
                       newHead, second>>
    BY ItemsFacts DEF SetUsage, Goto, Working, TypeOK
  <1>1. /\ pc'[t] = "unref" /\ item'[t] = p /\ key'[t] = key[t] /\ Local(t)
        /\ \A q \in Items : (flags'[q].in <=> flags[q].in) /\ flags'[q].refs = flags[q].refs
    BY <1>0 DEF Local, TypeOK
  <1>2. TypeOK'
    <2>1. flags' \in [Items -> Flags]
      <3>1. flags \in [Items -> Flags] /\ flags[p] \in Flags
        BY <1>0 DEF TypeOK, Flags
      <3> QED  BY <1>0, <3>1, FlagsUpdates, FlagsTyped
    <2> QED  BY <1>0, <2>1 DEF TypeOK, Flags
  <1>3. Exclusion' /\ Working'
    BY <1>0, <1>1 DEF Exclusion, Working, Local, Inside
  <1>4. Counted'
    <2>1. \A q \in Items : t \in Holders(q)' <=> t \in Holders(q)
      BY <1>0, <1>1 DEF Holders
    <2> QED  BY <1>1, <2>1, CountedSame
  <1>5. Bin'
    <2>1. \A a \in DOMAIN recycle : recycle[a] \in Items
      BY DEF TypeOK
    <2> QED  BY <1>0, <1>1, <2>1 DEF Bin
  <1>6. Alive'
    BY <1>0 DEF Alive
  <1>7. OnItsWay'
    <2>1. \A u \in Threads : Leaving(u) => item[u] \in Items
      BY ItemsFacts DEF Leaving, Working, TypeOK
    <2> QED  BY <1>0, <1>1, <2>1 DEF OnItsWay, Leaving, Local
  <1>8. NoneLost'
    BY <1>0, <1>1 DEF NoneLost, Leaving, Local
  <1>9. Linked'
    <2>1. \A u \in Threads : Filling(u) => item[u] \in Items
      BY ItemsFacts DEF Filling, Working, TypeOK
    <2>2. \A l \in Lows : table[l] # None => table[l] \in Items
      BY DEF TypeOK
    <2> QED  BY <1>0, <1>1, <2>1, <2>2 DEF Linked, Filling, Local
  <1>10. UsageCount'
    BY <1>0, <1>1 DEF UsageCount, Filling, Local
  <1> QED  BY <1>2, <1>3, <1>4, <1>5, <1>6, <1>7, <1>8, <1>9, <1>10

\* fetch_sub: whoever takes the last reference to an item out of the cache is the only
\* one to bring it to the bin.
LEMMA UnrefInv ==
  ASSUME NEW t \in Threads, IndInv, Unref(t)
  PROVE  IndInv'
  <1> USE DEF IndInv
  <1> DEFINE p == item[t]
             last == flags[p].refs = 1 /\ ~flags[p].in
  <1>0. /\ p \in Items /\ p \in 1 .. size /\ pc[t] = "unref" /\ t \in Holders(p)
        /\ flags' = [flags EXCEPT ![p].refs = @ - 1]
        /\ UNCHANGED <<hashOf, live, size, head, recycle, usage, table, mutex, newHead, second>>
    BY ItemsFacts DEF Unref, Working, TypeOK, Holders
  <1>1. /\ \A q \in Items : flags[q].refs \in Nat
        /\ flags[p].refs > 0
        /\ \A q \in Items : flags'[q].in <=> flags[q].in
        /\ \A q \in Items : q # p => flags'[q].refs = flags[q].refs
        /\ flags'[p].refs = flags[p].refs - 1
    BY <1>0, HolderCounts DEF TypeOK
  <1>2. \/ last /\ pc' = [pc EXCEPT ![t] = "recycle"] /\ UNCHANGED <<key, item>>
        \/ ~last /\ Return(t)
    BY DEF Unref, Goto
  <1> HIDE DEF last
  <1>3. /\ Local(t)
        /\ \/ last /\ pc'[t] = "recycle" /\ item'[t] = p
           \/ ~last /\ pc'[t] = "idle" /\ item'[t] = None
    BY <1>2 DEF Local, TypeOK, Return
  <1>4. TypeOK'
    <2>1. flags' \in [Items -> Flags]
      <3>1. flags \in [Items -> Flags] /\ flags[p] \in Flags
        BY <1>0 DEF TypeOK, Flags
      <3> QED  BY <1>0, <1>1, <3>1, FlagsUpdates, FlagsTyped
    <2>2. /\ pc' \in [Threads -> {"idle", "ref", "verify", "held", "unref", "recycle", "evict",
                                  "evicted", "fill", "unlink", "link"}]
          /\ key' \in [Threads -> Hashes \cup {None}]
          /\ item' \in [Threads -> Items \cup {None}]
      BY <1>2 DEF TypeOK, Return
    <2> QED  BY <1>0, <2>1, <2>2 DEF TypeOK, Flags
  <1>5. Exclusion' /\ Working'
    BY <1>0, <1>3 DEF Exclusion, Working, Local, Inside
  <1>6. Counted'
    <2>1. \A q \in Items : t \notin Holders(q)' /\ (t \in Holders(q) <=> q = p)
      BY <1>0, <1>3 DEF Holders
    <2> QED  BY <1>0, <1>1, <1>3, <2>1, CountedStep
  <1>7. Bin'
    <2>1. \A a \in DOMAIN recycle : recycle[a] \in Items /\ recycle[a] # p
      BY <1>1 DEF Bin, TypeOK
    <2> QED  BY <1>0, <1>1, <2>1 DEF Bin
  <1>8. Alive'
    BY <1>0 DEF Alive
  <1>9. OnItsWay'
    <2>1. \A u \in Threads : Leaving(u) => item[u] \in Items /\ item[u] # p
      BY <1>1, WorkItems DEF OnItsWay
    <2>2. p \notin Range(recycle)
      BY <1>1 DEF Bin, Range
    <2>3. last => ~flags'[p].in /\ flags'[p].refs = 0
      BY <1>0, <1>1 DEF last
    <2> QED  BY <1>0, <1>1, <1>3, <2>1, <2>2, <2>3 DEF OnItsWay, Leaving, Local
  <1>10. NoneLost'
    <2>1. ~last => flags[p].in \/ flags'[p].refs > 0
      BY <1>0, <1>1 DEF last
    <2> QED  BY <1>0, <1>1, <1>3, <2>1 DEF NoneLost, Leaving, Local
  <1>11. Linked'
    <2>1. \A u \in Threads : Filling(u) => item[u] \in Items
      BY ItemsFacts DEF Filling, Working, TypeOK
    <2>2. \A l \in Lows : table[l] # None => table[l] \in Items
      BY DEF TypeOK
    <2> QED  BY <1>0, <1>1, <1>3, <2>1, <2>2 DEF Linked, Filling, Local
  <1>12. UsageCount'
    BY <1>0, <1>3 DEF UsageCount, Filling, Local
  <1> QED  BY <1>4, <1>5, <1>6, <1>7, <1>8, <1>9, <1>10, <1>11, <1>12

\* recycleItem by unref: the item is not in the bin yet, so that m_usage is positive.
LEMMA RecycleInv ==
  ASSUME NEW t \in Threads, IndInv, Recycle(t)
  PROVE  IndInv'
  <1> USE DEF IndInv
  <1> DEFINE p == item[t]
  <1>0. /\ p \in Items /\ p \in 1 .. size /\ pc[t] = "recycle" /\ Leaving(t) /\ mutex = None
        /\ live' = [live EXCEPT ![p] = FALSE] /\ recycle' = Append(recycle, p)
        /\ usage' = usage - 1 /\ Return(t)
        /\ UNCHANGED <<flags, hashOf, size, head, table, mutex, newHead, second>>
    BY ItemsFacts DEF Recycle, recycleItem, Working, TypeOK, Leaving
  <1>1. pc'[t] = "idle" /\ item'[t] = None /\ Local(t)
    BY <1>0 DEF Local, TypeOK, Return
  <1>2. /\ recycle' \in Seq(Items) /\ Len(recycle)' = Len(recycle) + 1
        /\ DOMAIN recycle' = DOMAIN recycle \cup {Len(recycle) + 1}
        /\ Len(recycle) + 1 \notin DOMAIN recycle
        /\ recycle'[Len(recycle) + 1] = p
        /\ \A a \in DOMAIN recycle : recycle'[a] = recycle[a]
        /\ Range(recycle)' = Range(recycle) \cup {p}
    BY <1>0, BinGrows DEF TypeOK
  <1>3. \A u \in Threads : pc[u] \notin Inside
    BY <1>0, ThreadsAssumption DEF Exclusion
  <1>4. /\ ~\E u \in Threads : Filling(u)
        /\ ~\E u \in Threads : Filling(u)'
    BY <1>1, <1>3 DEF Filling, Inside, Local
  <1>5. usage > 0 /\ usage' \in 0 .. Capacity
    <2>1. Len(recycle) < size /\ Len(recycle) \in Nat
      BY <1>0, BinHasRoom, BinSize DEF OnItsWay
    <2>2. usage + Len(recycle) + 0 = size /\ usage \in 0 .. Capacity
      BY <1>4 DEF UsageCount, TypeOK
    <2> QED  BY <1>0, <2>1, <2>2, CapacityAssumption
  <1>6. TypeOK'
    <2>1. /\ pc' \in [Threads -> {"idle", "ref", "verify", "held", "unref", "recycle", "evict",
                                  "evicted", "fill", "unlink", "link"}]
          /\ key' \in [Threads -> Hashes \cup {None}]
          /\ item' \in [Threads -> Items \cup {None}]
      BY <1>0 DEF TypeOK, Return
    <2> QED  BY <1>0, <1>2, <1>5, <2>1 DEF TypeOK
  <1>7. Exclusion' /\ Working'
    BY <1>0, <1>1 DEF Exclusion, Working, Local, Inside
  <1>8. Counted'
    <2>1. \A q \in Items : t \notin Holders(q)' /\ t \notin Holders(q)
      BY <1>0, <1>1 DEF Holders
    <2> QED  BY <1>0, <1>1, <2>1, CountedSame
  <1>9. Bin'
    <2>1. \A a \in DOMAIN recycle : recycle[a] # p
      BY <1>0 DEF OnItsWay, Range
    <2>2. ~flags[p].in /\ flags[p].refs = 0
      BY <1>0 DEF OnItsWay
    <2> QED  BY <1>0, <1>2, <2>1, <2>2 DEF Bin
  <1>10. Alive'
    BY <1>0, <1>2, ItemsFacts DEF Alive, TypeOK
  <1>11. OnItsWay'
    BY <1>0, <1>1, <1>2 DEF OnItsWay, Leaving, Local
  <1>12. NoneLost'
    BY <1>0, <1>1, <1>2 DEF NoneLost, Leaving, Local
  <1>13. Linked'
    BY <1>0, <1>1 DEF Linked, Filling, Local
  <1>14. UsageCount'
    <2>1. usage + Len(recycle) + 0 = size /\ usage \in Nat /\ Len(recycle) \in Nat
      BY <1>4, BinSize, CapacityAssumption DEF UsageCount, TypeOK
    <2>2. usage' + Len(recycle)' + 0 = size'
      BY <1>0, <1>2, <2>1
    <2>3. \A u \in Threads : pc'[u] \notin {"fill", "unlink", "link"}
      BY <1>1, <1>3 DEF Inside, Local
    <2> QED  BY <1>4, <2>2, <2>3 DEF UsageCount
  <1> QED  BY <1>6, <1>7, <1>8, <1>9, <1>10, <1>11, <1>12, <1>13, <1>14

-----------------------------------------------------------------------------
(* insert.                                                                  *)

\* insert takes m_mutex.
LEMMA InsertInv ==
  ASSUME NEW t \in Threads, NEW h \in Hashes, IndInv, Insert(t, h)
  PROVE  IndInv'
  <1> USE DEF IndInv
  <1>1. /\ pc[t] = "idle" /\ pc'[t] = "evict" /\ key'[t] = h /\ item'[t] = item[t] /\ Local(t)
        /\ mutex = None /\ mutex' = t
        /\ UNCHANGED <<flags, hashOf, live, size, head, recycle, usage, table>>
    BY DEF Insert, Local, TypeOK
  <1>2. TypeOK'
    BY DEF TypeOK, Insert
  <1>3. Exclusion' /\ Working'
    BY <1>1, ThreadsAssumption DEF Exclusion, Working, Local, Inside
  <1>4. Counted'
    <2>1. \A q \in Items : t \notin Holders(q) /\ t \notin Holders(q)'
      BY <1>1 DEF Holders
    <2> QED  BY <1>1, <2>1, CountedSame
  <1>5. Bin' /\ Alive'
    BY <1>1 DEF Bin, Alive
  <1>6. OnItsWay'
    BY <1>1 DEF OnItsWay, Leaving, Local
  <1>7. NoneLost'
    BY <1>1 DEF NoneLost, Leaving, Local
  <1>8. Linked'
    BY <1>1 DEF Linked, Filling, Local
  <1>9. UsageCount'
    BY <1>1 DEF UsageCount, Filling, Local
  <1> QED  BY <1>2, <1>3, <1>4, <1>5, <1>6, <1>7, <1>8, <1>9

\* The scan ends with room for one more item.
LEMMA EvictDoneInv ==
  ASSUME NEW t \in Threads, IndInv, EvictDone(t)
  PROVE  IndInv'
  <1> USE DEF IndInv
  <1>1. /\ pc[t] = "evict" /\ pc'[t] = "fill" /\ key'[t] = key[t] /\ item'[t] = item[t] /\ Local(t)
        /\ usage < Capacity
        /\ UNCHANGED <<flags, hashOf, live, size, recycle, usage, table, mutex>>
    BY CapacityAssumption DEF EvictDone, Goto, Local, TypeOK
  <1>2. TypeOK'
    BY ItemsFacts DEF TypeOK, EvictDone, Goto
  <1>3. Exclusion' /\ Working'
    BY <1>1 DEF Exclusion, Working, Local, Inside
  <1>4. Counted'
    <2>1. \A q \in Items : t \notin Holders(q) /\ t \notin Holders(q)'
      BY <1>1 DEF Holders
    <2> QED  BY <1>1, <2>1, CountedSame
  <1>5. Bin' /\ Alive'
    BY <1>1 DEF Bin, Alive
  <1>6. OnItsWay'
    BY <1>1 DEF OnItsWay, Leaving, Local
  <1>7. NoneLost'
    BY <1>1 DEF NoneLost, Leaving, Local
  <1>8. Linked'
    BY <1>1 DEF Linked, Filling, Local
  <1>9. UsageCount'
    BY <1>1 DEF UsageCount, Filling, Local
  <1> QED  BY <1>2, <1>3, <1>4, <1>5, <1>6, <1>7, <1>8, <1>9

\* tryEvict: nobody refers to the item, and it is still in the table.
LEMMA TryEvictInv ==
  ASSUME NEW t \in Threads, IndInv, TryEvict(t)
  PROVE  IndInv'
  <1> USE DEF IndInv
  <1> DEFINE p == newHead[t]
  <1>0. /\ p \in Items /\ pc[t] = "evict" /\ pc[t] \in Inside
        /\ flags[p] = [in |-> TRUE, usage |-> FALSE, refs |-> 0]
        /\ flags' = [flags EXCEPT ![p] = Unused]
        /\ item' = [item EXCEPT ![t] = p]
        /\ newHead' = [newHead EXCEPT ![t] = After(p)]
        /\ pc' = [pc EXCEPT ![t] = "evicted"]
        /\ UNCHANGED <<hashOf, live, size, head, recycle, usage, table, mutex, key, second>>
    BY DEF TryEvict, TypeOK, Inside, Unused
  <1>1. /\ pc'[t] = "evicted" /\ item'[t] = p /\ key'[t] = key[t] /\ Local(t)
        /\ \A q \in Items : q # p => flags'[q] = flags[q]
        /\ flags'[p] = Unused
        /\ flags[p].in /\ flags[p].refs = 0 /\ ~flags'[p].in /\ flags'[p].refs = 0
    BY <1>0 DEF Local, TypeOK, Unused
  <1>2. /\ p \in 1 .. size
        /\ \A u \in Threads \ {t} : pc[u] \notin Inside
        /\ table[Low(hashOf[p])] = p
        /\ \A u \in Threads : ~Filling(u)
        /\ p \notin Range(recycle)
        /\ \A u \in Threads : Leaving(u) => item[u] # p
    <2>1. \A u \in Threads \ {t} : pc[u] \notin Inside
      BY <1>0, Alone
    <2>2. p \in 1 .. size
      <3>1. ~(p > size)
        BY <1>0, <1>1 DEF NoneLost
      <3>2. p \in Nat \ {0} /\ size \in Nat
        BY <1>0, ItemsFacts, WorkItems
      <3> QED  BY <3>1, <3>2
    <2>3. \A u \in Threads : ~Filling(u)
      BY <1>0, <2>1 DEF Filling, Inside
    <2>4. table[Low(hashOf[p])] = p
      BY <1>0, <1>1, <2>3 DEF Linked
    <2>5. p \notin Range(recycle)
      BY <1>1 DEF Bin, Range
    <2>6. \A u \in Threads : Leaving(u) => item[u] # p
      BY <1>1 DEF OnItsWay
    <2> QED  BY <2>1, <2>2, <2>3, <2>4, <2>5, <2>6
  <1>3. TypeOK'
    <2>1. flags' \in [Items -> Flags]
      <3>1. flags \in [Items -> Flags] /\ Unused \in Flags
        BY DEF TypeOK, Flags, Unused
      <3> QED  BY <1>0, <3>1, FlagsTyped
    <2>2. newHead' \in [Threads -> Items]
      BY <1>0, AfterType DEF TypeOK
    <2> QED  BY <1>0, <2>1, <2>2 DEF TypeOK, Flags
  <1>4. Exclusion' /\ Working'
    BY <1>0, <1>1, <1>2 DEF Exclusion, Working, Local, Inside
  <1>5. Counted'
    <2>1. \A q \in Items : t \notin Holders(q)' /\ t \notin Holders(q)
      BY <1>0, <1>1 DEF Holders
    <2>2. \A q \in Items : flags'[q].refs = flags[q].refs
      BY <1>1
    <2> QED  BY <1>1, <2>1, <2>2, CountedSame
  <1>6. Bin'
    <2>1. \A a \in DOMAIN recycle : recycle[a] # p /\ recycle[a] \in Items
      BY <1>2, WorkItems DEF Range
    <2> QED  BY <1>0, <1>1, <2>1 DEF Bin
  <1>7. Alive'
    BY <1>0 DEF Alive
  <1>8. OnItsWay'
    <2>1. \A u \in Threads : Leaving(u) => item[u] \in Items
      BY WorkItems
    <2> QED  BY <1>0, <1>1, <1>2, <2>1 DEF OnItsWay, Leaving, Local
  <1>9. NoneLost'
    BY <1>0, <1>1, <1>2 DEF NoneLost, Leaving, Local
  <1>10. Linked'
    <2>1. \A u \in Threads : ~Filling(u)'
      BY <1>1, <1>2 DEF Filling, Local
    <2>2. \A q \in Items : flags'[q].in => table'[Low(hashOf'[q])] = q
      BY <1>0, <1>1, <1>2 DEF Linked
    <2>3. \A l \in Lows : table'[l] # None =>
            /\ table'[l] \in 1 .. size' /\ Low(hashOf'[table'[l]]) = l
            /\ flags'[table'[l]].in \/ \E u \in Threads : pc'[u] = "evicted" /\ item'[u] = table'[l]
      BY <1>0, <1>1, <1>2, WorkItems DEF Linked, Inside
    <2>4. \A u \in Threads : /\ pc'[u] # "link"
                             /\ pc'[u] = "evicted" => u = t
      BY <1>1, <1>2 DEF Inside, Local
    <2> QED  BY <1>0, <1>1, <1>2, <2>1, <2>2, <2>3, <2>4 DEF Linked
  <1>11. UsageCount'
    BY <1>0, <1>1 DEF UsageCount, Filling, Local
  <1> QED  BY <1>3, <1>4, <1>5, <1>6, <1>7, <1>8, <1>9, <1>10, <1>11

\* The evicted item leaves the table and goes to the bin.
LEMMA EvictedInv ==
  ASSUME NEW t \in Threads, IndInv, Evicted(t)
  PROVE  IndInv'
  <1> USE DEF IndInv
  <1> DEFINE p == item[t]
             k == Low(hashOf[p])
  <1>0. /\ pc[t] = "evicted" /\ pc[t] \in Inside /\ Leaving(t)
        /\ live' = [live EXCEPT ![p] = FALSE] /\ recycle' = Append(recycle, p)
        /\ usage' = usage - 1 /\ table' = [table EXCEPT ![k] = None]
        /\ item' = [item EXCEPT ![t] = None] /\ pc' = [pc EXCEPT ![t] = "evict"]
        /\ UNCHANGED <<flags, hashOf, size, head, mutex, key, newHead, second>>
    BY DEF Evicted, recycleItem, Leaving, Inside
  <1>1. /\ p \in Items /\ p \in 1 .. size /\ k \in Lows
        /\ ~flags[p].in /\ flags[p].refs = 0 /\ p \notin Range(recycle)
        /\ table[k] = p
    <2>1. p \in Items /\ p \in 1 .. size
      BY <1>0, WorkItems DEF Working
    <2> QED  BY <1>0, <2>1 DEF OnItsWay, Linked, TypeOK, Lows
  <1> HIDE DEF k
  <1>2. /\ pc'[t] = "evict" /\ item'[t] = None /\ key'[t] = key[t] /\ Local(t)
        /\ table'[k] = None /\ \A l \in Lows : l # k => table'[l] = table[l]
    BY <1>0, <1>1 DEF Local, TypeOK
  <1>3. /\ recycle' \in Seq(Items) /\ Len(recycle)' = Len(recycle) + 1
        /\ DOMAIN recycle' = DOMAIN recycle \cup {Len(recycle) + 1}
        /\ Len(recycle) + 1 \notin DOMAIN recycle
        /\ recycle'[Len(recycle) + 1] = p
        /\ \A a \in DOMAIN recycle : recycle'[a] = recycle[a]
        /\ Range(recycle)' = Range(recycle) \cup {p}
    BY <1>0, <1>1, BinGrows DEF TypeOK
  <1>4. /\ \A u \in Threads \ {t} : pc[u] \notin Inside
        /\ \A u \in Threads : pc'[u] \notin {"evicted", "fill", "unlink", "link"}
        /\ ~\E u \in Threads : Filling(u)
        /\ ~\E u \in Threads : Filling(u)'
    BY <1>0, <1>2, Alone DEF Filling, Inside, Local
  <1>5. /\ usage + Len(recycle) + 0 = size /\ usage \in Nat /\ Len(recycle) \in Nat
        /\ Len(recycle) < size /\ usage \in 0 .. Capacity
    BY <1>1, <1>4, BinHasRoom, WorkItems DEF UsageCount, TypeOK
  <1>6. usage' \in 0 .. Capacity /\ usage' + Len(recycle)' + 0 = size'
    BY <1>0, <1>3, <1>5, WorkItems, CapacityAssumption
  <1>7. TypeOK'
    BY <1>0, <1>1, <1>3, <1>6 DEF TypeOK
  <1>8. Exclusion' /\ Working'
    BY <1>0, <1>2 DEF Exclusion, Working, Local, Inside
  <1>9. Counted'
    <2>1. \A q \in Items : t \notin Holders(q)' /\ t \notin Holders(q)
      BY <1>0, <1>2 DEF Holders
    <2> QED  BY <1>0, <1>2, <2>1, CountedSame
  <1>10. Bin'
    <2>1. \A a \in DOMAIN recycle : recycle[a] # p
      BY <1>1 DEF Range
    <2> QED  BY <1>0, <1>1, <1>3, <2>1 DEF Bin
  <1>11. Alive'
    BY <1>0, <1>3, WorkItems DEF Alive, TypeOK
  <1>12. OnItsWay'
    BY <1>0, <1>2, <1>3 DEF OnItsWay, Leaving, Local
  <1>13. NoneLost'
    BY <1>0, <1>2, <1>3 DEF NoneLost, Leaving, Local
  <1>14. Linked'
    <2>1. \A q \in Items : flags'[q].in => table'[Low(hashOf'[q])] = q
      <3> SUFFICES ASSUME NEW q \in Items, flags[q].in
                   PROVE  table'[Low(hashOf[q])] = q
        BY <1>0
      <3>1. table[Low(hashOf[q])] = q /\ q # p /\ Low(hashOf[q]) \in Lows
        <4>1. table[Low(hashOf[q])] = q /\ q # p
          BY <1>1, <1>4 DEF Linked
        <4> QED  BY <4>1 DEF TypeOK, Lows
      <3> QED  BY <1>1, <1>2, <3>1
    <2>2. \A l \in Lows : table'[l] # None =>
            /\ table'[l] \in 1 .. size' /\ Low(hashOf'[table'[l]]) = l
            /\ flags'[table'[l]].in
      <3> SUFFICES ASSUME NEW l \in Lows, table'[l] # None
                   PROVE  /\ table'[l] \in 1 .. size /\ Low(hashOf[table'[l]]) = l
                          /\ flags[table'[l]].in
        BY <1>0
      <3>1. l # k /\ table'[l] = table[l]
        BY <1>2
      <3>2. table[l] \in 1 .. size /\ Low(hashOf[table[l]]) = l
        BY <3>1 DEF Linked
      <3>3. ~\E u \in Threads : pc[u] = "evicted" /\ item[u] = table[l]
        BY <1>4, <3>1, <3>2 DEF Inside, k
      <3> QED  BY <3>1, <3>2, <3>3 DEF Linked
    <2> QED  BY <1>4, <2>1, <2>2 DEF Linked
  <1>15. UsageCount'
    BY <1>4, <1>6 DEF UsageCount
  <1> QED  BY <1>7, <1>8, <1>9, <1>10, <1>11, <1>12, <1>13, <1>14, <1>15

\* tryEvict fails: the usage bit is cleared, and the scan goes on or gives up.
LEMMA PassOverInv ==
  ASSUME NEW t \in Threads, IndInv, PassOver(t)
  PROVE  IndInv'
  <1> USE DEF IndInv
  <1> DEFINE p == newHead[t]
  <1>0. /\ p \in Items /\ pc[t] = "evict" /\ pc[t] \in Inside /\ item[t] = None
        /\ flags' = [flags EXCEPT ![p].usage = FALSE]
        /\ UNCHANGED <<hashOf, live, size, head, recycle, usage, table>>
    BY DEF PassOver, TypeOK, Inside, Working
  <1>1. \/ /\ Return(t) /\ mutex' = None
           /\ newHead' = [newHead EXCEPT ![t] = 1] /\ second' = [second EXCEPT ![t] = FALSE]
        \/ /\ newHead' = [newHead EXCEPT ![t] = After(p)]
           /\ second' = [second EXCEPT ![t] = @ \/ After(p) = head]
           /\ UNCHANGED <<pc, key, item, mutex>>
    BY DEF PassOver
  <1>2. /\ \/ pc'[t] = "idle" /\ mutex' = None
           \/ pc'[t] = "evict" /\ mutex' = mutex /\ key'[t] = key[t]
        /\ item'[t] = None /\ Local(t)
        /\ \A q \in Items : (flags'[q].in <=> flags[q].in) /\ flags'[q].refs = flags[q].refs
    BY <1>0, <1>1 DEF Local, TypeOK, Return
  <1>3. TypeOK'
    <2>1. flags' \in [Items -> Flags]
      <3>1. flags \in [Items -> Flags] /\ flags[p] \in Flags
        BY <1>0 DEF TypeOK, Flags
      <3> QED  BY <1>0, <3>1, FlagsUpdates, FlagsTyped
    <2>2. /\ pc' \in [Threads -> {"idle", "ref", "verify", "held", "unref", "recycle", "evict",
                                  "evicted", "fill", "unlink", "link"}]
          /\ key' \in [Threads -> Hashes \cup {None}]
          /\ item' \in [Threads -> Items \cup {None}]
          /\ mutex' \in Threads \cup {None}
      BY <1>1 DEF TypeOK, Return
    <2>3. newHead' \in [Threads -> Items]
      <3>1. newHead \in [Threads -> Items] /\ TypeOK
        BY DEF TypeOK
      <3>2. After(p) \in Items /\ 1 \in Items
        BY <1>0, <3>1, AfterType, ItemsFacts
      <3>3. newHead' = [newHead EXCEPT ![t] = 1] \/ newHead' = [newHead EXCEPT ![t] = After(p)]
        BY <1>1
      <3> HIDE DEF p, IndInv
      <3> QED  BY <3>1, <3>2, <3>3
    <2>4. second' \in [Threads -> BOOLEAN]
      BY <1>1 DEF TypeOK
    <2> QED  BY <1>0, <2>1, <2>2, <2>3, <2>4 DEF TypeOK, Flags
  <1>4. Exclusion' /\ Working'
    <2>1. mutex = t /\ \A u \in Threads \ {t} : pc[u] \notin Inside
      BY <1>0, Alone
    <2> QED  BY <1>0, <1>2, <2>1, ThreadsAssumption DEF Exclusion, Working, Local, Inside
  <1>5. Counted'
    <2>1. \A q \in Items : t \notin Holders(q) /\ t \notin Holders(q)'
      BY <1>0, <1>2 DEF Holders
    <2> QED  BY <1>2, <2>1, CountedSame
  <1>6. Bin'
    BY <1>0, <1>2, WorkItems DEF Bin
  <1>7. Alive'
    BY <1>0 DEF Alive
  <1>8. OnItsWay'
    <2>1. \A u \in Threads : Leaving(u) => item[u] \in Items
      BY WorkItems
    <2> QED  BY <1>0, <1>2, <2>1 DEF OnItsWay, Leaving, Local
  <1>9. NoneLost'
    BY <1>0, <1>2 DEF NoneLost, Leaving, Local
  <1>10. Linked'
    <2>1. \A u \in Threads : Filling(u) => item[u] \in Items
      BY WorkItems
    <2>2. \A l \in Lows : table[l] # None => table[l] \in Items
      BY WorkItems
    <2> QED  BY <1>0, <1>2, <2>1, <2>2 DEF Linked, Filling, Local
  <1>11. UsageCount'
    BY <1>0, <1>2 DEF UsageCount, Filling, Local
  <1> QED  BY <1>3, <1>4, <1>5, <1>6, <1>7, <1>8, <1>9, <1>10, <1>11

\* An item from the bin, or a new one, is filled: no handle and no table entry is left
\* of what it was before.
LEMMA FillInv ==
  ASSUME NEW t \in Threads, IndInv, Fill(t)
  PROVE  IndInv'
  <1> USE DEF IndInv
  <1> DEFINE p == IF recycle # <<>> THEN recycle[Len(recycle)] ELSE size + 1
  <1>0. /\ pc[t] = "fill" /\ pc[t] \in Inside /\ item[t] = None /\ key[t] \in Hashes
        /\ recycle' = IF recycle # <<>> THEN SubSeq(recycle, 1, Len(recycle) - 1) ELSE recycle
        /\ size' = IF recycle # <<>> THEN size ELSE size + 1
        /\ hashOf' = [hashOf EXCEPT ![p] = key[t]]
        /\ live' = [live EXCEPT ![p] = TRUE]
        /\ flags' = [flags EXCEPT ![p] = [in |-> TRUE, usage |-> FALSE, refs |-> 1]]
        /\ item' = [item EXCEPT ![t] = p]
        /\ pc' = [pc EXCEPT ![t] = "unlink"]
        /\ UNCHANGED <<head, usage, table, mutex, key, newHead, second>>
    BY DEF Fill, Inside, Working
  <1>1. /\ mutex = t /\ \A u \in Threads \ {t} : pc[u] \notin Inside
        /\ \A u \in Threads : ~Filling(u) /\ pc[u] # "evicted"
    BY <1>0, Alone DEF Filling, Inside
  <1>2. usage + Len(recycle) = size /\ usage < Capacity
    <2>1. usage + Len(recycle) + 0 = size /\ usage < Capacity
      BY <1>0, <1>1 DEF UsageCount
    <2> QED  BY <2>1, WorkItems
  <1>3. /\ p \in Items /\ p \in 1 .. size' /\ size' \in 0 .. Capacity
        /\ recycle' \in Seq(Items)
        /\ DOMAIN recycle' \subseteq DOMAIN recycle
        /\ \A a \in DOMAIN recycle' : recycle'[a] = recycle[a]
        /\ Range(recycle)' = Range(recycle) \ {p}
        /\ usage + Len(recycle)' + 1 = size'
        /\ p \in Range(recycle) \/ p > size
        /\ 1 .. size' = (1 .. size) \cup {p}
    <2>1. CASE recycle # <<>>
      <3>1. /\ recycle' = SubSeq(recycle, 1, Len(recycle) - 1) /\ size' = size
            /\ p = recycle[Len(recycle)] /\ recycle \in Seq(Items)
        BY <1>0, <2>1 DEF TypeOK
      <3> HIDE DEF p
      <3>2. /\ p \in Items /\ p \in Range(recycle)
            /\ recycle' \in Seq(Items) /\ Len(recycle)' = Len(recycle) - 1
            /\ DOMAIN recycle' \subseteq DOMAIN recycle
            /\ \A a \in DOMAIN recycle' : recycle'[a] = recycle[a]
            /\ Range(recycle)' = Range(recycle) \ {p}
        BY <2>1, <3>1, BinShrinks
      <3>3. p \in 1 .. size
        BY <3>2 DEF Bin, Range
      <3>4. usage + (Len(recycle) - 1) + 1 = size /\ size \in 0 .. Capacity
        BY <1>2, WorkItems DEF TypeOK
      <3> QED  BY <3>1, <3>2, <3>3, <3>4
    <2>2. CASE recycle = <<>>
      <3>1. p = size + 1 /\ size' = size + 1 /\ recycle' = recycle /\ Len(recycle) = 0
            /\ Len(recycle') = 0
        BY <1>0, <2>2
      <3> HIDE DEF p
      <3>2. size = usage /\ size \in Nat /\ size < Capacity /\ usage \in Nat
        BY <1>2, <3>1, WorkItems
      <3>3. /\ size' \in 0 .. Capacity /\ p \in Items /\ p \in 1 .. size' /\ p > size
            /\ 1 .. size' = (1 .. size) \cup {p}
            /\ usage + Len(recycle') + 1 = size'
        BY <3>1, <3>2, CapacityAssumption DEF Items
      <3>4. p \notin Range(recycle)
        BY <3>1, <3>3, <2>2 DEF Range
      <3> QED  BY <3>1, <3>3, <3>4 DEF TypeOK
    <2> QED  BY <2>1, <2>2
  <1> HIDE DEF p
  <1>4. ~flags[p].in /\ flags[p].refs = 0 /\ \A u \in Threads : u \notin Holders(p)
    <2>1. CASE p \in Range(recycle)
      <3>1. ~flags[p].in /\ flags[p].refs = 0
        BY <2>1 DEF Bin, Range
      <3> QED  BY <1>3, <3>1, HolderCounts
    <2>2. CASE p > size
      <3>1. \A u \in Threads : u \notin Holders(p)
        BY <1>3, <2>2, WorkItems, ItemsFacts DEF Holders, Working
      <3>2. Holders(p) = {}
        BY <3>1 DEF Holders
      <3>3. flags[p].refs = 0
        BY <1>3, <3>2, FS_EmptySet DEF Counted
      <3> QED  BY <1>3, <2>2, <3>1, <3>3 DEF NoneLost
    <2> QED  BY <1>3, <2>1, <2>2
  <1>5. /\ pc'[t] = "unlink" /\ item'[t] = p /\ key'[t] = key[t] /\ Local(t)
        /\ \A q \in Items : q # p => flags'[q] = flags[q] /\ hashOf'[q] = hashOf[q] /\ live'[q] = live[q]
        /\ flags'[p].in /\ flags'[p].refs = 1 /\ hashOf'[p] = key[t] /\ live'[p]
    BY <1>0, <1>3 DEF Local, TypeOK
  <1>6. TypeOK'
    <2>1. flags' \in [Items -> Flags]
      <3>1. flags \in [Items -> Flags] /\ [in |-> TRUE, usage |-> FALSE, refs |-> 1] \in Flags
        BY DEF TypeOK, Flags
      <3> QED  BY <1>0, <1>3, <3>1, FlagsTyped
    <2> QED  BY <1>0, <1>3, <2>1 DEF TypeOK, Flags
  <1>7. Exclusion'
    BY <1>0, <1>5 DEF Exclusion, Local, Inside
  <1>8. Working'
    <2>1. \A u \in Threads : pc[u] = "held" => item[u] # p
      BY <1>4 DEF Holders
    <2>2. \A u \in Threads : pc[u] \notin {"idle", "evict", "fill"} => item[u] \in Items
      BY WorkItems DEF Working
    <2> QED  BY <1>0, <1>1, <1>3, <1>5, <2>1, <2>2 DEF Working, Local, Inside
  <1>9. Counted'
    <2>1. \A q \in Items : t \notin Holders(q) /\ (t \in Holders(q)' <=> q = p)
      BY <1>0, <1>5 DEF Holders
    <2>2. \A q \in Items : flags[q].refs \in Nat
      BY WorkItems
    <2> QED  BY <1>3, <1>4, <1>5, <2>1, <2>2, CountedStep
  <1>10. \A a \in DOMAIN recycle' : recycle'[a] # p /\ recycle'[a] \in Items
    <2> SUFFICES ASSUME NEW a \in DOMAIN recycle' PROVE recycle'[a] # p /\ recycle'[a] \in Items
      OBVIOUS
    <2>1. recycle'[a] \in Range(recycle')
      BY DEF Range
    <2>2. recycle'[a] # p
      BY <1>3, <2>1
    <2> QED  BY <1>3, <2>2, WorkItems
  <1>11. Bin'
    BY <1>3, <1>5, <1>10 DEF Bin
  <1>12. Alive'
    BY <1>3, <1>5, WorkItems DEF Alive
  <1>13. OnItsWay'
    <2>1. \A u \in Threads : Leaving(u) => item[u] \in Items /\ item[u] # p
      BY <1>3, <1>5, WorkItems DEF OnItsWay, Working, Leaving
    <2> QED  BY <1>0, <1>3, <1>5, <2>1 DEF OnItsWay, Leaving, Local
  <1>14. NoneLost'
    <2> SUFFICES ASSUME NEW q \in Items
                 PROVE  IF q > size' THEN ~flags'[q].in
                        ELSE \/ q \in Range(recycle') \/ flags'[q].in \/ flags'[q].refs > 0
                             \/ \E u \in Threads : Leaving(u)' /\ item'[u] = q
      BY DEF NoneLost
    <2>1. CASE q = p
      BY <1>3, <1>5, <2>1, ItemsFacts
    <2>2. CASE q # p
      <3>1. q > size' <=> q > size
        <4>1. q \in Nat \ {0} /\ size \in Nat /\ size' \in Nat
          BY <1>3, WorkItems, ItemsFacts, CapacityAssumption
        <4>2. q \in 1 .. size' <=> q \in 1 .. size
          BY <1>3, <2>2
        <4> QED  BY <4>1, <4>2
      <3>2. \A u \in Threads : Leaving(u) => Leaving(u)' /\ item'[u] = item[u]
        BY <1>0, <1>5 DEF Leaving, Local
      <3>3. flags'[q] = flags[q] /\ (q \in Range(recycle) => q \in Range(recycle'))
        BY <1>3, <1>5, <2>2
      <3> QED  BY <3>1, <3>2, <3>3 DEF NoneLost
    <2> QED  BY <2>1, <2>2
  <1>15. \A l \in Lows : table[l] # p
    <2>1. ~(p \in 1 .. size /\ flags[p].in)
      BY <1>4
    <2> QED  BY <1>1, <1>3, <2>1, ItemsFacts, WorkItems DEF Linked
  <1>16. Linked'
    <2>1. \A u \in Threads : Filling(u)' <=> u = t
      BY <1>1, <1>5 DEF Filling, Local
    <2>2. \A u \in Threads : pc'[u] # "link" /\ pc'[u] # "evicted"
      BY <1>1, <1>5 DEF Inside, Local
    <2>3. \A l \in Lows : table'[l] # None =>
            table'[l] \in 1 .. size' /\ Low(hashOf'[table'[l]]) = l /\ flags'[table'[l]].in
      BY <1>0, <1>1, <1>3, <1>5, <1>15, WorkItems DEF Linked
    <2>4. \A q \in Items : flags'[q].in => table'[Low(hashOf'[q])] = q \/ q = p
      BY <1>0, <1>1, <1>5 DEF Linked
    <2> QED  BY <1>0, <1>5, <1>15, <2>1, <2>2, <2>3, <2>4 DEF Linked
  <1>17. UsageCount'
    <2>1. \E u \in Threads : Filling(u)'
      BY <1>5 DEF Filling
    <2> QED  BY <1>0, <1>2, <1>3, <2>1 DEF UsageCount
  <1> QED  BY <1>6, <1>7, <1>8, <1>9, <1>11, <1>12, <1>13, <1>14, <1>16, <1>17

\* An entry with the same key is in the table: it leaves the cache, to the bin if nobody
\* refers to it.
LEMMA UnlinkInv ==
  ASSUME NEW t \in Threads, IndInv, Unlink(t)
  PROVE  IndInv'
  <1> USE DEF IndInv
  <1> DEFINE k == Low(key[t])
             old == table[k]
             p == item[t]
  <1>0. /\ pc[t] = "unlink" /\ pc[t] \in Inside /\ Filling(t)
        /\ table' = [table EXCEPT ![k] = None]
        /\ pc' = [pc EXCEPT ![t] = "link"]
        /\ UNCHANGED <<hashOf, size, head, mutex, key, item, newHead, second>>
    BY DEF Unlink, Goto, Inside, Filling
  <1>1. /\ mutex = t /\ \A u \in Threads \ {t} : pc[u] \notin Inside
        /\ \A u \in Threads : pc[u] # "evicted" /\ (Filling(u) <=> u = t)
    BY <1>0, Alone DEF Filling, Inside
  <1>2. /\ p \in Items /\ p \in 1 .. size /\ key[t] \in Hashes /\ k \in Lows
        /\ hashOf[p] = key[t] /\ flags[p].in /\ \A l \in Lows : table[l] # p
    <2>1. p \in 1 .. size /\ key[t] \in Hashes /\ hashOf[p] = key[t]
      BY <1>0 DEF Working, Inside
    <2> QED  BY <1>0, <2>1, WorkItems DEF Lows, Linked
  <1>3. old # None =>
          /\ old \in Items /\ old \in 1 .. size /\ Low(hashOf[old]) = k /\ flags[old].in
          /\ old # p /\ old \notin Range(recycle)
    <2> SUFFICES ASSUME old # None PROVE
          /\ old \in Items /\ old \in 1 .. size /\ Low(hashOf[old]) = k /\ flags[old].in
          /\ old # p /\ old \notin Range(recycle)
      OBVIOUS
    <2>1. old \in Items /\ old \in 1 .. size /\ Low(hashOf[old]) = k /\ flags[old].in /\ old # p
      BY <1>1, <1>2, WorkItems DEF Linked
    <2> QED  BY <2>1 DEF Bin, Range
  <1>4. p \notin Range(recycle)
    BY <1>2 DEF Bin, Range
  <1>5. usage + Len(recycle) + 1 = size /\ usage < Capacity
    BY <1>0 DEF UsageCount
  <1>6. \/ old = None /\ UNCHANGED <<flags, live, recycle, usage>>
        \/ /\ old # None /\ flags' = [flags EXCEPT ![old].in = FALSE]
           /\ \/ flags[old].refs = 0 /\ recycleItem(old)
              \/ flags[old].refs # 0 /\ UNCHANGED <<live, recycle, usage>>
    BY <1>3 DEF Unlink
  <1> HIDE DEF old, k
  <1>7. /\ pc'[t] = "link" /\ item'[t] = p /\ key'[t] = key[t] /\ Local(t)
        /\ table'[k] = None /\ \A l \in Lows : l # k => table'[l] = table[l]
        /\ \A q \in Items : q # old => flags'[q] = flags[q]
        /\ \A q \in Items : flags'[q].refs = flags[q].refs
        /\ old # None => ~flags'[old].in
    <2>1. /\ pc'[t] = "link" /\ item'[t] = p /\ key'[t] = key[t] /\ Local(t)
          /\ table'[k] = None /\ \A l \in Lows : l # k => table'[l] = table[l]
      BY <1>0, <1>2 DEF Local, TypeOK
    <2>2. CASE old = None
      BY <1>6, <2>1, <2>2
    <2>3. CASE old # None
      <3>1. flags' = [flags EXCEPT ![old].in = FALSE] /\ old \in Items
        BY <1>3, <1>6, <2>3
      <3>2. /\ \A q \in Items : q # old => flags'[q] = flags[q]
            /\ flags'[old] = [flags[old] EXCEPT !.in = FALSE]
        BY <3>1 DEF TypeOK
      <3>3. ~flags'[old].in /\ flags'[old].refs = flags[old].refs
        BY <3>1, <3>2 DEF TypeOK
      <3> QED  BY <2>1, <3>2, <3>3
    <2> QED  BY <2>2, <2>3
  \* What becomes of the old item.
  <1> DEFINE gone == old # None /\ flags[old].refs = 0
  <1>8. \/ gone /\ recycleItem(old)
        \/ ~gone /\ UNCHANGED <<live, recycle, usage>>
    BY <1>6
  <1>9. /\ recycle' \in Seq(Items) /\ usage' \in 0 .. Capacity /\ usage' < Capacity
        /\ usage' + Len(recycle)' + 1 = size'
        /\ Range(recycle)' = IF gone THEN Range(recycle) \cup {old} ELSE Range(recycle)
        /\ live' \in [Items -> BOOLEAN]
        /\ \A q \in Items : live'[q] <=> live[q] /\ ~(gone /\ q = old)
    <2>1. CASE gone
      <3>1. Len(recycle) + 1 < size
        BY <1>2, <1>3, <1>4, <2>1, BinHasRoom
      <3>2. recycle' = Append(recycle, old) /\ usage' = usage - 1 /\ live' = [live EXCEPT ![old] = FALSE]
        BY <1>8, <2>1 DEF recycleItem
      <3>3. /\ recycle' \in Seq(Items) /\ Len(recycle)' = Len(recycle) + 1
            /\ Range(recycle)' = Range(recycle) \cup {old}
        BY <1>3, <2>1, <3>2, BinGrows DEF TypeOK
      <3>4. /\ usage' \in 0 .. Capacity /\ usage' < Capacity /\ usage' + Len(recycle)' + 1 = size'
        BY <1>0, <1>5, <3>1, <3>2, <3>3, WorkItems, CapacityAssumption
      <3>5. /\ live' \in [Items -> BOOLEAN]
            /\ \A q \in Items : live'[q] <=> live[q] /\ ~(gone /\ q = old)
        BY <1>3, <2>1, <3>2 DEF TypeOK
      <3> QED  BY <2>1, <3>3, <3>4, <3>5
    <2>2. CASE ~gone
      BY <1>0, <1>5, <1>8, <2>2 DEF TypeOK
    <2> QED  BY <2>1, <2>2
  <1>10. \A a \in DOMAIN recycle' : \A b \in DOMAIN recycle' : recycle'[a] = recycle'[b] => a = b
    <2>1. CASE gone
      <3>1. recycle' = Append(recycle, old)
        BY <1>8, <2>1 DEF recycleItem
      <3>2. /\ DOMAIN recycle' = DOMAIN recycle \cup {Len(recycle) + 1}
            /\ recycle'[Len(recycle) + 1] = old
            /\ \A a \in DOMAIN recycle : recycle'[a] = recycle[a]
        BY <1>3, <2>1, <3>1, BinGrows DEF TypeOK
      <3>3. \A a \in DOMAIN recycle : recycle[a] # old
        BY <1>3, <2>1 DEF Range
      <3> QED  BY <3>2, <3>3 DEF Bin
    <2>2. CASE ~gone
      BY <1>8, <2>2 DEF Bin
    <2> QED  BY <2>1, <2>2
  <1>11. TypeOK'
    <2>1. flags' \in [Items -> Flags]
      <3>1. flags \in [Items -> Flags] /\ (old # None => flags[old] \in Flags)
        BY <1>3 DEF TypeOK, Flags
      <3>2. CASE old = None
        BY <1>6, <3>1, <3>2
      <3>3. CASE old # None
        BY <1>3, <1>6, <3>1, <3>3, FlagsUpdates, FlagsTyped
      <3> QED  BY <3>2, <3>3
    <2> QED  BY <1>0, <1>2, <1>9, <2>1 DEF TypeOK, Flags
  <1>12. Exclusion' /\ Working'
    BY <1>0, <1>7 DEF Exclusion, Working, Local, Inside
  <1>13. Counted'
    <2>1. \A q \in Items : t \in Holders(q)' <=> t \in Holders(q)
      BY <1>0, <1>7 DEF Holders
    <2> QED  BY <1>7, <2>1, CountedSame
  <1>14. Bin'
    <2>1. \A x \in Range(recycle') : x \in 1 .. size /\ ~flags'[x].in /\ flags'[x].refs = 0
      <3> SUFFICES ASSUME NEW x \in Range(recycle')
                   PROVE  x \in 1 .. size /\ ~flags'[x].in /\ flags'[x].refs = 0
        OBVIOUS
      <3>1. CASE x \in Range(recycle)
        <4>1. x \in 1 .. size /\ ~flags[x].in /\ flags[x].refs = 0
          BY <3>1 DEF Bin, Range
        <4>2. x \in Items
          BY <4>1, WorkItems
        <4> QED  BY <1>3, <1>7, <3>1, <4>1, <4>2, ItemsFacts
      <3>2. CASE x \notin Range(recycle)
        <4>1. gone /\ x = old
          BY <1>9, <3>2
        <4> QED  BY <1>3, <1>7, <4>1
      <3> QED  BY <3>1, <3>2
    <2>2. \A a \in DOMAIN recycle' : recycle'[a] \in Range(recycle')
      BY DEF Range
    <2> QED  BY <1>0, <1>10, <2>1, <2>2 DEF Bin
  <1>15. Alive'
    BY <1>0, <1>3, <1>9, WorkItems DEF Alive
  <1>16. OnItsWay'
    <2>1. \A u \in Threads : Leaving(u) => item[u] \in Items /\ item[u] # old /\ u # t
      BY <1>0, <1>3, WorkItems, ItemsFacts DEF OnItsWay, Leaving
    <2>2. \A u \in Threads : Leaving(u)' => Leaving(u) /\ item'[u] = item[u]
      BY <1>0, <1>7 DEF Leaving, Local
    <2>3. \A u \in Threads : Leaving(u) => item[u] \notin Range(recycle')
      BY <1>9, <2>1 DEF OnItsWay
    <2> QED  BY <1>7, <2>1, <2>2, <2>3 DEF OnItsWay
  <1>17. NoneLost'
    <2> SUFFICES ASSUME NEW q \in Items
                 PROVE  IF q > size' THEN ~flags'[q].in
                        ELSE \/ q \in Range(recycle') \/ flags'[q].in \/ flags'[q].refs > 0
                             \/ \E u \in Threads : Leaving(u)' /\ item'[u] = q
      BY DEF NoneLost
    <2>1. CASE q = old
      <3>1. old # None /\ ~(q > size) /\ flags'[q].refs = flags[q].refs /\ flags[q].refs \in Nat
        BY <1>3, <1>7, <2>1, ItemsFacts, WorkItems
      <3>2. flags[q].refs = 0 => q \in Range(recycle')
        BY <1>9, <2>1, <3>1
      <3> QED  BY <1>0, <3>1, <3>2
    <2>2. CASE q # old
      <3>1. \A u \in Threads : Leaving(u) => Leaving(u)' /\ item'[u] = item[u]
        BY <1>0, <1>7 DEF Leaving, Local
      <3>2. flags'[q] = flags[q] /\ (q \in Range(recycle) => q \in Range(recycle'))
        BY <1>7, <1>9, <2>2
      <3> QED  BY <1>0, <3>1, <3>2 DEF NoneLost
    <2> QED  BY <2>1, <2>2
  <1>18. Linked'
    <2>1. \A u \in Threads : (Filling(u)' <=> u = t) /\ (pc'[u] = "link" => u = t) /\ pc'[u] # "evicted"
      BY <1>1, <1>7 DEF Filling, Local
    <2>2. \A l \in Lows : table'[l] # None =>
            table'[l] \in 1 .. size' /\ Low(hashOf'[table'[l]]) = l /\ flags'[table'[l]].in
      <3> SUFFICES ASSUME NEW l \in Lows, table'[l] # None
                   PROVE  table'[l] \in 1 .. size /\ Low(hashOf[table'[l]]) = l /\ flags'[table'[l]].in
        BY <1>0
      <3>1. l # k /\ table'[l] = table[l]
        BY <1>7
      <3>2. table[l] \in 1 .. size /\ Low(hashOf[table[l]]) = l /\ flags[table[l]].in
        BY <1>1, <3>1 DEF Linked
      <3>3. table[l] # old /\ table[l] \in Items
        BY <1>3, <3>1, <3>2, WorkItems, ItemsFacts
      <3> QED  BY <1>7, <3>1, <3>2, <3>3
    <2>3. \A q \in Items : flags'[q].in => table'[Low(hashOf'[q])] = q \/ q = p
      <3> SUFFICES ASSUME NEW q \in Items, flags'[q].in, q # p
                   PROVE  table'[Low(hashOf[q])] = q
        BY <1>0
      <3>1. q # old /\ flags[q].in
        BY <1>7, ItemsFacts
      <3>2. table[Low(hashOf[q])] = q
        BY <1>1, <3>1 DEF Linked
      <3>3. Low(hashOf[q]) \in Lows
        BY DEF TypeOK, Lows
      <3> QED  BY <1>7, <3>1, <3>2, <3>3 DEF old
    <2>4. \A l \in Lows : table'[l] # p
      BY <1>2, <1>7, ItemsFacts
    <2>5. flags'[p].in
      BY <1>2, <1>3, <1>7, ItemsFacts
    <2> QED  BY <1>7, <2>1, <2>2, <2>3, <2>4, <2>5 DEF Linked, k
  <1>19. UsageCount'
    <2>1. \E u \in Threads : Filling(u)'
      BY <1>7 DEF Filling
    <2> QED  BY <1>0, <1>9, <2>1 DEF UsageCount
  <1> QED  BY <1>11, <1>12, <1>13, <1>14, <1>15, <1>16, <1>17, <1>18, <1>19

\* The filled item enters the table, whose slot is free.
LEMMA LinkNewInv ==
  ASSUME NEW t \in Threads, IndInv, LinkNew(t)
  PROVE  IndInv'
  <1> USE DEF IndInv
  <1> DEFINE k == Low(key[t])
             p == item[t]
  <1>0. /\ pc[t] = "link" /\ pc[t] \in Inside /\ Filling(t)
        /\ table' = [table EXCEPT ![k] = p] /\ usage' = usage + 1 /\ mutex' = None
        /\ pc' = [pc EXCEPT ![t] = "held"]
        /\ UNCHANGED <<flags, hashOf, live, size, head, recycle, key, item, newHead, second>>
    BY DEF LinkNew, Goto, Inside, Filling
  <1>1. /\ mutex = t /\ \A u \in Threads \ {t} : pc[u] \notin Inside
        /\ \A u \in Threads : pc[u] # "evicted" /\ (Filling(u) <=> u = t)
    BY <1>0, Alone DEF Filling, Inside
  <1>2. /\ p \in Items /\ p \in 1 .. size /\ key[t] \in Hashes /\ k \in Lows
        /\ hashOf[p] = key[t] /\ flags[p].in /\ table[k] = None
    <2>1. p \in 1 .. size /\ key[t] \in Hashes /\ hashOf[p] = key[t]
      BY <1>0 DEF Working, Inside
    <2> QED  BY <1>0, <2>1, WorkItems DEF Lows, Linked
  <1>3. /\ pc'[t] = "held" /\ item'[t] = p /\ key'[t] = key[t] /\ Local(t)
        /\ table'[k] = p /\ \A l \in Lows : l # k => table'[l] = table[l]
    BY <1>0, <1>2 DEF Local, TypeOK
  <1>4. usage + Len(recycle) + 1 = size /\ usage < Capacity
    BY <1>0 DEF UsageCount
  <1>5. \A u \in Threads : pc'[u] \notin Inside
    BY <1>1, <1>3 DEF Local, Inside
  <1>6. usage' \in 0 .. Capacity /\ usage' + Len(recycle)' + 0 = size'
    <2>1. Len(recycle)' = Len(recycle) /\ size' = size /\ usage' = usage + 1
      BY <1>0
    <2>2. usage \in Nat /\ size \in Nat /\ Len(recycle) \in Nat
      BY WorkItems
    <2> QED  BY <1>4, <2>1, <2>2, CapacityAssumption
  <1>7. TypeOK'
    BY <1>0, <1>2, <1>6 DEF TypeOK
  <1>8. Exclusion' /\ Working'
    BY <1>0, <1>2, <1>3, <1>5, ThreadsAssumption DEF Exclusion, Working, Local, Inside
  <1>9. Counted'
    <2>1. \A q \in Items : t \in Holders(q)' <=> t \in Holders(q)
      BY <1>0, <1>3 DEF Holders
    <2> QED  BY <1>0, <1>3, <2>1, CountedSame
  <1>10. Bin' /\ Alive'
    BY <1>0 DEF Bin, Alive
  <1>11. OnItsWay'
    BY <1>0, <1>3 DEF OnItsWay, Leaving, Local
  <1>12. NoneLost'
    BY <1>0, <1>3 DEF NoneLost, Leaving, Local
  <1>13. Linked'
    <2>1. \A u \in Threads : ~Filling(u)' /\ pc'[u] # "link" /\ pc'[u] # "evicted"
      BY <1>5 DEF Filling, Inside
    <2>2. \A l \in Lows : table'[l] # None =>
            table'[l] \in 1 .. size' /\ Low(hashOf'[table'[l]]) = l /\ flags'[table'[l]].in
      BY <1>0, <1>1, <1>2, <1>3 DEF Linked
    <2>3. \A q \in Items : flags'[q].in => table'[Low(hashOf'[q])] = q
      <3> SUFFICES ASSUME NEW q \in Items, flags[q].in
                   PROVE  table'[Low(hashOf[q])] = q
        BY <1>0
      <3>1. table[Low(hashOf[q])] = q \/ q = p
        BY <1>1 DEF Linked
      <3>2. Low(hashOf[q]) \in Lows /\ q # None
        BY ItemsFacts DEF TypeOK, Lows
      <3> QED  BY <1>2, <1>3, <3>1, <3>2
    <2> QED  BY <2>1, <2>2, <2>3 DEF Linked
  <1>14. UsageCount'
    <2>1. ~\E u \in Threads : Filling(u)'
      BY <1>5 DEF Filling, Inside
    <2>2. \A u \in Threads : pc'[u] \notin {"fill", "unlink", "link"}
      BY <1>5 DEF Inside
    <2> QED  BY <1>6, <2>1, <2>2 DEF UsageCount
  <1> QED  BY <1>7, <1>8, <1>9, <1>10, <1>11, <1>12, <1>13, <1>14

-----------------------------------------------------------------------------
(* The theorems.                                                            *)

\* Every step preserves the invariant.
LEMMA StepInv == IndInv /\ [Next]_vars => IndInv'
  <1> SUFFICES ASSUME IndInv, [Next]_vars PROVE IndInv'
    OBVIOUS
  <1>1. CASE UNCHANGED vars
    <2>1. UNCHANGED <<flags, hashOf, live, size, head, recycle, usage, table, mutex, pc, key,
                      item, newHead, second>>
      BY <1>1 DEF vars, shardVars, threadVars
    <2>2. TypeOK' /\ Exclusion' /\ Working' /\ Bin' /\ Alive'
      BY <2>1 DEF IndInv, TypeOK, Exclusion, Working, Bin, Alive
    <2>3. Counted'
      <3>1. \A p \in Items : Holders(p)' = Holders(p)
        BY <2>1 DEF Holders
      <3> QED  BY <2>1, <3>1 DEF IndInv, Counted
    <2>4. OnItsWay' /\ NoneLost'
      BY <2>1 DEF IndInv, OnItsWay, NoneLost, Leaving
    <2>5. Linked'
      BY <2>1 DEF IndInv, Linked, Filling
    <2>6. UsageCount'
      BY <2>1 DEF IndInv, UsageCount, Filling
    <2> QED  BY <2>2, <2>3, <2>4, <2>5, <2>6 DEF IndInv
  <1>2. CASE Next
    <2>1. PICK t \in Threads : Step(t) \/ Call(t)
      BY <1>2 DEF Next
    <2>2. CASE Call(t)
      BY <2>2, SetUsageInv, FindInv, InsertInv DEF Call
    <2>3. CASE Step(t)
      BY <2>3, RefInv, VerifyInv, UnrefInv, RecycleInv, EvictDoneInv, TryEvictInv, EvictedInv,
         PassOverInv, FillInv, UnlinkInv, LinkNewInv DEF Step
    <2> QED  BY <2>1, <2>2, <2>3
  <1> QED  BY <1>1, <1>2

\* The inductive invariant holds in every reachable state.
THEOREM Invariance == Spec => []IndInv
  BY InitInv, StepInv, PTL DEF Spec

(* m_usage and the list stay within the capacity of the shard and every    *)
(* variable keeps its type, whatever handles are held or dropped while     *)
(* insert scans for room.                                                  *)
THEOREM TypeCorrect == Spec => []TypeOK
  <1>1. IndInv => TypeOK
    BY DEF IndInv
  <1> QED  BY <1>1, Invariance, PTL

(* A handle's value has not been deleted and is the one of the key its     *)
(* holder asked for: who holds it is counted, so that the item is not in   *)
(* the bin, and no item outside the bin is deleted or filled.              *)
THEOREM HandlesStayValid == Spec => []HandleIsValid
  <1>1. IndInv => HandleIsValid
    <2> SUFFICES ASSUME IndInv, NEW t \in Threads, pc[t] = "held"
                 PROVE  live[item[t]] /\ hashOf[item[t]] = key[t]
      BY DEF HandleIsValid
    <2> USE DEF IndInv
    <2>1. item[t] \in 1 .. size /\ item[t] \in Items /\ hashOf[item[t]] = key[t]
      BY WorkItems DEF Working
    <2>2. t \in Holders(item[t])
      BY DEF Holders
    <2>3. flags[item[t]].refs # 0
      BY <2>1, <2>2, HolderCounts
    <2>4. item[t] \notin Range(recycle)
      BY <2>3 DEF Bin, Range
    <2> QED  BY <2>1, <2>4 DEF Alive
  <1> QED  BY <1>1, Invariance, PTL

(* No item is lost or recycled twice, the reference counts are the numbers *)
(* of references, and whenever no thread is inside the shard m_usage, the  *)
(* table, the in-cache bits and the recycle bin agree.                     *)
THEOREM NoItemIsLost == Spec => []ItemsAccounted
  <1>1. IndInv => ItemsAccounted
    <2> SUFFICES ASSUME IndInv PROVE ItemsAccounted
      OBVIOUS
    <2> USE DEF IndInv
    <2>1. \A p \in Items : flags[p].refs = Cardinality(Holders(p))
      BY DEF Counted
    <2>2. \A a, b \in DOMAIN recycle : recycle[a] = recycle[b] => a = b
      BY DEF Bin
    <2>3. \A p \in Range(recycle) : ~flags[p].in /\ flags[p].refs = 0 /\ ~live[p]
      BY DEF Bin, Range, Alive
    <2>4. ASSUME \A t \in Threads : pc[t] = "idle"
          PROVE  /\ usage = Cardinality({p \in 1 .. size : flags[p].in})
                 /\ usage + Len(recycle) = size
                 /\ \A p \in 1 .. size : flags[p].in <=> table[Low(hashOf[p])] = p
      <3>1. \A t \in Threads : ~Leaving(t) /\ ~Filling(t)
        BY <2>4 DEF Leaving, Filling
      <3>2. usage + Len(recycle) = size
        <4>1. usage + Len(recycle) + 0 = size
          BY <3>1 DEF UsageCount
        <4> QED  BY <4>1, WorkItems
      <3>3. \A p \in 1 .. size : flags[p].refs = 0 /\ p \in Items /\ ~(p > size)
        <4>1. \A p \in Items : Holders(p) = {}
          BY <2>4 DEF Holders
        <4>2. \A p \in Items : flags[p].refs = 0
          BY <4>1, <2>1, FS_EmptySet
        <4>3. 1 .. size \subseteq Items /\ size \in Nat
          BY WorkItems
        <4> QED  BY <4>2, <4>3
      <3>4. {p \in 1 .. size : flags[p].in} = (1 .. size) \ Range(recycle)
        BY <2>3, <3>1, <3>3 DEF NoneLost
      <3>5. Cardinality((1 .. size) \ Range(recycle)) = size - Len(recycle)
        <4>1. IsFiniteSet(1 .. size) /\ Cardinality(1 .. size) = size
          BY FS_Interval, WorkItems
        <4>2. (1 .. size) \cap Range(recycle) = Range(recycle)
          BY BinSize
        <4>3. Cardinality((1 .. size) \ Range(recycle)) =
                Cardinality(1 .. size) - Cardinality((1 .. size) \cap Range(recycle))
          BY <4>1, FS_Difference
        <4> QED  BY <4>1, <4>2, <4>3, BinSize
      <3>6. \A p \in 1 .. size : flags[p].in <=> table[Low(hashOf[p])] = p
        <4> SUFFICES ASSUME NEW p \in 1 .. size
                     PROVE  flags[p].in <=> table[Low(hashOf[p])] = p
          OBVIOUS
        <4>1. p \in Items /\ p # None /\ Low(hashOf[p]) \in Lows
          BY WorkItems, ItemsFacts DEF TypeOK, Lows
        <4> QED  BY <2>4, <3>1, <4>1 DEF Linked
      <3>7. usage = size - Len(recycle)
        BY <3>2, WorkItems
      <3> QED  BY <3>2, <3>4, <3>5, <3>6, <3>7
    <2> QED  BY <2>1, <2>2, <2>3, <2>4 DEF ItemsAccounted
  <1> QED  BY <1>1, Invariance, PTL

=============================================================================
