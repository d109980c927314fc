----------------------------- MODULE ClockCache -----------------------------
(***************************************************************************)
(* One shard of the clock cache that keeps the decoded ABIs of Wasm        *)
(* methods (ClockCache.h, ClockCache.cpp) and the handles its users hold.  *)
(*                                                                         *)
(* insert works under m_mutex; lookup and unref do not take it, except to  *)
(* recycle.  Every access to an item's flags or to m_table is a step of    *)
(* its own.  The flags are three fields here; the code packs them in one   *)
(* atomic, so each step reads or writes them together.  Memory is          *)
(* sequentially consistent: the relaxed store of the flags in insert is    *)
(* taken to be visible after the writes before it, as it is on x86.        *)
(*                                                                         *)
(* The table's key is the hash truncated to 32 bits: Low.                  *)
(***************************************************************************)
EXTENDS Integers, Sequences, FiniteSets, Functions

CONSTANTS Threads, Hashes,
          Low(_),       \* the truncation of a hash to the table's key
          Capacity      \* m_capacity; setCapacity is called by the constructor only

ASSUME CapacityAssumption == Capacity \in Nat \ {0}

\* There is never a need for more items than this (invariant TypeOK).
Items == 1 .. Capacity + 1
Lows == {Low(h) : h \in Hashes}
None == 0

ASSUME ThreadsAssumption == IsFiniteSet(Threads) /\ None \notin Threads
ASSUME HashesAssumption == Hashes # {}

VARIABLES
  flags,      \* item |-> [in: in-cache bit, usage: usage bit, refs: reference count]
  hashOf,     \* item |-> CacheItem::hash
  live,       \* item |-> its value is allocated (insert), not deleted (m_deleter)
  size,       \* m_list.size()
  head,       \* m_head
  recycle,    \* m_recycle
  usage,      \* m_usage
  table,      \* m_table: Low(hash) |-> item, None if absent
  mutex,      \* the thread that holds m_mutex, or None
  pc,         \* thread |-> what it does next
  key,        \* thread |-> the hash it looks up or inserts
  item,       \* thread |-> the item it works on, or its handle's
  newHead,    \* thread |-> local of evictFromCache
  second      \* thread |-> is2ndIteration

shardVars  == <<flags, hashOf, live, size, head, recycle, usage, table, mutex>>
threadVars == <<pc, key, item, newHead, second>>
vars == <<shardVars, threadVars>>

Unused == [in |-> FALSE, usage |-> FALSE, refs |-> 0]

Init ==
  /\ flags = [p \in Items |-> Unused]
  /\ hashOf \in [Items -> {CHOOSE h \in Hashes : TRUE}]
  /\ live = [p \in Items |-> FALSE]
  /\ size = 0 /\ head = 1 /\ recycle = <<>> /\ usage = 0
  /\ table = [l \in Lows |-> None]
  /\ mutex = None
  /\ pc = [t \in Threads |-> "idle"]
  /\ key = [t \in Threads |-> None]
  /\ item = [t \in Threads |-> None]
  /\ newHead = [t \in Threads |-> 1]
  /\ second = [t \in Threads |-> FALSE]

Goto(t, where) == pc' = [pc EXCEPT ![t] = where] /\ UNCHANGED <<key, item>>

\* The call returns without a handle, or the handle is gone.
Return(t) ==
  /\ pc' = [pc EXCEPT ![t] = "idle"]
  /\ key' = [key EXCEPT ![t] = None]
  /\ item' = [item EXCEPT ![t] = None]

-----------------------------------------------------------------------------
(* CacheShard::lookup, without m_mutex.                                     *)

\* m_table.find, then the accessor is released.
Find(t, h) ==
  /\ pc[t] = "idle" /\ table[Low(h)] # None
  /\ key' = [key EXCEPT ![t] = h]
  /\ item' = [item EXCEPT ![t] = table[Low(h)]]
  /\ pc' = [pc EXCEPT ![t] = "ref"]
  /\ UNCHANGED <<shardVars, newHead, second>>

\* ref: the compare-exchange that adds a reference, if the item is in the cache.
Ref(t) ==
  LET p == item[t] IN
  /\ pc[t] = "ref"
  /\ IF flags[p].in
     THEN /\ flags' = [flags EXCEPT ![p].refs = @ + 1]
          /\ Goto(t, "verify")
     ELSE Return(t) /\ UNCHANGED flags
  /\ UNCHANGED <<hashOf, live, size, head, recycle, usage, table, mutex, newHead, second>>

\* BUG variant: the key is not checked again.
VerifyNothing(t) ==
  /\ pc[t] = "verify"
  /\ Goto(t, "held")
  /\ UNCHANGED <<shardVars, newHead, second>>

\* The item may stand for another key by now; then the reference is given back.
Verify(t) ==
  /\ pc[t] = "verify"
  /\ Goto(t, IF hashOf[item[t]] = key[t] THEN "held" ELSE "unref")
  /\ UNCHANGED <<shardVars, newHead, second>>

-----------------------------------------------------------------------------
(* CacheShard::unref; a handle that is destroyed or released sets the usage *)
(* bit first.                                                               *)

SetUsage(t) ==
  /\ pc[t] = "held"
  /\ flags' = [flags EXCEPT ![item[t]].usage = TRUE]
  /\ Goto(t, "unref")
  /\ UNCHANGED <<hashOf, live, size, head, recycle, usage, table, mutex, newHead,
                 second>>

\* fetch_sub: the last reference to an item that has left the cache recycles it.
Unref(t) ==
  LET p == item[t]  last == flags[p].refs = 1 /\ ~flags[p].in IN
  /\ pc[t] = "unref"
  /\ flags' = [flags EXCEPT ![p].refs = @ - 1]
  /\ IF last THEN Goto(t, "recycle") ELSE Return(t)
  /\ UNCHANGED <<hashOf, live, size, head, recycle, usage, table, mutex, newHead, second>>

\* recycleItem: the value is deleted, the item goes to the recycle bin.
recycleItem(p) ==
  /\ live' = [live EXCEPT ![p] = FALSE]
  /\ recycle' = Append(recycle, p)
  /\ usage' = usage - 1

\* The rest of unref, under m_mutex.
Recycle(t) ==
  /\ pc[t] = "recycle" /\ mutex = None
  /\ recycleItem(item[t])
  /\ Return(t)
  /\ UNCHANGED <<flags, hashOf, size, head, table, mutex, newHead, second>>

-----------------------------------------------------------------------------
(* CacheShard::insert with holdReference, under m_mutex throughout.         *)

Insert(t, h) ==
  /\ pc[t] = "idle" /\ mutex = None
  /\ mutex' = t
  /\ key' = [key EXCEPT ![t] = h]
  /\ newHead' = [newHead EXCEPT ![t] = head]
  /\ second' = [second EXCEPT ![t] = FALSE]
  /\ pc' = [pc EXCEPT ![t] = "evict"]
  /\ UNCHANGED <<flags, hashOf, live, size, head, recycle, usage, table, item>>

After(p) == IF p + 1 > size THEN 1 ELSE p + 1

\* BUG variant: one entry too many is let in.
EvictDoneLate(t) ==
  /\ pc[t] = "evict" /\ (usage = 0 \/ usage <= Capacity)
  /\ head' = IF usage = 0 THEN head ELSE newHead[t]
  /\ Goto(t, "fill")
  /\ newHead' = [newHead EXCEPT ![t] = 1] /\ second' = [second EXCEPT ![t] = FALSE]
  /\ UNCHANGED <<flags, hashOf, live, size, recycle, usage, table, mutex>>

\* evictFromCache finds room: nothing in use, or less than the capacity.
EvictDone(t) ==
  /\ pc[t] = "evict" /\ (usage = 0 \/ usage < Capacity)
  /\ head' = IF usage = 0 THEN head ELSE newHead[t]
  /\ Goto(t, "fill")
  /\ newHead' = [newHead EXCEPT ![t] = 1] /\ second' = [second EXCEPT ![t] = FALSE]
  /\ UNCHANGED <<flags, hashOf, live, size, recycle, usage, table, mutex>>

\* tryEvict succeeds: the item is in the cache, unused and unreferenced.
TryEvict(t) ==
  LET p == newHead[t] IN
  /\ pc[t] = "evict" /\ usage >= Capacity
  /\ flags[p] = [Unused EXCEPT !.in = TRUE]
  /\ flags' = [flags EXCEPT ![p] = Unused]
  /\ item' = [item EXCEPT ![t] = p]
  /\ newHead' = [newHead EXCEPT ![t] = After(p)]
  /\ pc' = [pc EXCEPT ![t] = "evicted"]
  /\ UNCHANGED <<hashOf, live, size, head, recycle, usage, table, mutex, key, second>>

\* Its table entry is erased and the item recycled.
Evicted(t) ==
  /\ pc[t] = "evicted"
  /\ table' = [table EXCEPT ![Low(hashOf[item[t]])] = None]
  /\ recycleItem(item[t])
  /\ item' = [item EXCEPT ![t] = None]
  /\ pc' = [pc EXCEPT ![t] = "evict"]
  /\ UNCHANGED <<flags, hashOf, size, head, mutex, key, newHead, second>>

\* BUG variant: the scan goes round until something can be evicted.
PassOverForever(t) ==
  LET p == newHead[t] IN
  /\ pc[t] = "evict" /\ usage >= Capacity
  /\ flags[p] # [Unused EXCEPT !.in = TRUE]
  /\ flags' = [flags EXCEPT ![p].usage = FALSE]
  /\ newHead' = [newHead EXCEPT ![t] = After(p)]
  /\ UNCHANGED <<hashOf, live, size, head, recycle, usage, table, mutex, key, item, second, pc>>

\* tryEvict fails and clears the usage bit; back at m_head for the second time insert
\* gives up and leaves m_head as it was.
PassOver(t) ==
  LET p == newHead[t]  round == After(p) = head IN
  /\ pc[t] = "evict" /\ usage >= Capacity
  /\ flags[p] # [Unused EXCEPT !.in = TRUE]
  /\ flags' = [flags EXCEPT ![p].usage = FALSE]
  /\ IF round /\ second[t]
     THEN /\ Return(t) /\ mutex' = None
          /\ newHead' = [newHead EXCEPT ![t] = 1] /\ second' = [second EXCEPT ![t] = FALSE]
     ELSE /\ newHead' = [newHead EXCEPT ![t] = After(p)]
          /\ second' = [second EXCEPT ![t] = @ \/ round]
          /\ UNCHANGED <<pc, key, item, mutex>>
  /\ UNCHANGED <<hashOf, live, size, head, recycle, usage, table>>

\* An item is taken from the bin or appended, and filled; the store of the flags puts
\* it in the cache with one reference.
Fill(t) ==
  LET p == IF recycle # <<>> THEN recycle[Len(recycle)] ELSE size + 1 IN
  /\ pc[t] = "fill"
  /\ recycle' = IF recycle # <<>> THEN SubSeq(recycle, 1, Len(recycle) - 1) ELSE recycle
  /\ size' = IF recycle # <<>> THEN size ELSE size + 1
  /\ hashOf' = [hashOf EXCEPT ![p] = key[t]]
  /\ live' = [live EXCEPT ![p] = TRUE]
  /\ flags' = [flags EXCEPT ![p] = [in |-> TRUE, usage |-> FALSE, refs |-> 1]]
  /\ item' = [item EXCEPT ![t] = p]
  /\ pc' = [pc EXCEPT ![t] = "unlink"]
  /\ UNCHANGED <<head, usage, table, mutex, key, newHead, second>>

\* BUG variant: the old entry leaves the table but keeps its in-cache bit.
UnlinkOnly(t) ==
  LET l == Low(key[t]) IN
  /\ pc[t] = "unlink"
  /\ table' = [table EXCEPT ![l] = None]
  /\ Goto(t, "link")
  /\ UNCHANGED <<flags, hashOf, live, size, head, recycle, usage, mutex, newHead,
                 second>>

\* An entry with the same table key is erased and loses its in-cache bit
\* (unsetInCache), which recycles it if nobody refers to it.
Unlink(t) ==
  LET l == Low(key[t])  old == table[l] IN
  /\ pc[t] = "unlink"
  /\ table' = [table EXCEPT ![l] = None]
  /\ IF old = None
     THEN UNCHANGED <<flags, live, recycle, usage>>
     ELSE /\ flags' = [flags EXCEPT ![old].in = FALSE]
          /\ IF flags[old].in /\ flags[old].refs = 0
             THEN recycleItem(old) ELSE UNCHANGED <<live, recycle, usage>>
  /\ Goto(t, "link")
  /\ UNCHANGED <<hashOf, size, head, mutex, newHead, second>>

\* m_table.insert and m_usage; the caller gets a handle to the item.
LinkNew(t) ==
  /\ pc[t] = "link"
  /\ table' = [table EXCEPT ![Low(key[t])] = item[t]]
  /\ usage' = usage + 1
  /\ mutex' = None
  /\ Goto(t, "held")
  /\ UNCHANGED <<flags, hashOf, live, size, head, recycle, newHead, second>>

-----------------------------------------------------------------------------
\* What a thread does once it has begun; using the cache at all, and dropping a handle,
\* is the caller's choice.
Step(t) ==
  \/ Ref(t) \/ Verify(t) \/ Unref(t) \/ Recycle(t)
  \/ EvictDone(t) \/ TryEvict(t) \/ Evicted(t) \/ PassOver(t)
  \/ Fill(t) \/ Unlink(t) \/ LinkNew(t)

Call(t) == SetUsage(t) \/ \E h \in Hashes : Find(t, h) \/ Insert(t, h)

Next == \E t \in Threads : Step(t) \/ Call(t)

Spec == Init /\ [][Next]_vars

\* The operating system runs every thread; nothing is assumed of the mutex.
FairSpec == Spec /\ \A t \in Threads : WF_vars(Step(t))

-----------------------------------------------------------------------------
(* Properties.                                                              *)

(* Types; m_usage and the list stay within the capacity of the shard,      *)
(* whatever handles are held or dropped while insert scans for room.       *)
TypeOK ==
  /\ flags \in [Items -> [in : BOOLEAN, usage : BOOLEAN, refs : Nat]]
  /\ hashOf \in [Items -> Hashes]
  /\ live \in [Items -> BOOLEAN]
  /\ size \in 0 .. Capacity /\ head \in Items /\ recycle \in Seq(Items)
  /\ usage \in 0 .. Capacity
  /\ table \in [Lows -> Items \cup {None}]
  /\ mutex \in Threads \cup {None}
  /\ pc \in [Threads -> {"idle", "ref", "verify", "held", "unref", "recycle", "evict",
                         "evicted", "fill", "unlink", "link"}]
  /\ key \in [Threads -> Hashes \cup {None}]
  /\ item \in [Threads -> Items \cup {None}]
  /\ newHead \in [Threads -> Items] /\ second \in [Threads -> BOOLEAN]

(* A handle's value has not been deleted and is the one of the key its     *)
(* holder asked for, although lookup takes no lock: the item may have been *)
(* evicted and filled for another key between find and ref, and evicted or *)
(* replaced while the handle is held (lookup's second check of the hash,   *)
(* refCounts in tryEvict and unsetInCache).                                *)
HandleIsValid ==
  \A t \in Threads : pc[t] = "held" =>
    /\ live[item[t]]
    /\ hashOf[item[t]] = key[t]

\* The threads that own a reference to p.
Holders(p) == {t \in Threads : /\ item[t] = p
                               /\ pc[t] \in {"verify", "held", "unref", "unlink", "link"}}

(* No item is lost or recycled twice.  The reference count of every item   *)
(* is the number of threads that hold it; an item is in the recycle bin at *)
(* most once and only when nobody holds it and it is out of the cache: two *)
(* threads never both take the last reference for theirs (fetch_sub in     *)
(* unref, fetch_and in unsetInCache).  When no thread is inside the shard  *)
(* m_usage, the table's entries and the items with the in-cache bit agree, *)
(* and every other item of the list is in the recycle bin.                 *)
ItemsAccounted ==
  /\ \A p \in Items : flags[p].refs = Cardinality(Holders(p))
  /\ \A a, b \in DOMAIN recycle : recycle[a] = recycle[b] => a = b
  /\ \A p \in Range(recycle) : ~flags[p].in /\ flags[p].refs = 0 /\ ~live[p]
  /\ (\A t \in Threads : pc[t] = "idle") =>
       /\ usage = Cardinality({p \in 1 .. size : flags[p].in})
       /\ usage + Len(recycle) = size
       /\ \A p \in 1 .. size : flags[p].in <=> table[Low(hashOf[p])] = p

(* insert returns and m_mutex is free again, even when every entry is      *)
(* referenced: evictFromCache passes m_head at most twice.                 *)
InsertReturns == (mutex # None) ~> (mutex = None)
=============================================================================
