---------------------------- MODULE WasmDagProofs ----------------------------
(***************************************************************************)
(* The flow graph of dagExecuteTransactionsForWasm executes the batch as   *)
(* if serially, and leaves unanswered exactly the tasks behind an edge     *)
(* from a task to itself: for every batch, every ABI and any number of     *)
(* slots and keys.                                                         *)
(*                                                                         *)
(* The linking loop does not make an edge for every conflict: it makes one *)
(* from the last user of a key or a slot, and relies on the chain of       *)
(* earlier users.  The proof speaks of that chain without paths: task j    *)
(* reaches task i when every set that contains i and is closed under       *)
(* predecessors contains j.  The tasks that have ended are such a set.     *)
(***************************************************************************)
EXTENDS WasmDag, FiniteSetTheorems, WellFoundedInduction, TLAPS

FieldSet == Slots \X (Keys \cup {Whole})

\* With a task, the set D has all its predecessors.
Closed(E, D) == \A e \in E : e[2] \in D => e[1] \in D

Reaches(E, j, i) == \A D \in SUBSET Txs : Closed(E, D) /\ i \in D => j \in D

\* Field n of task i has been linked.
Done(i, n) ==
  /\ conflicts[i] /\ n \in DOMAIN Declared(inputs[i])
  /\ i < linkId \/ (i = linkId /\ n < linkPos)

Names(i, f) == \E n \in Nat : Done(i, n) /\ FieldsOf(i)[n] = f

\* Two fields that stand for a common cell.
Overlap(f, g) == f[1] = g[1] /\ (f[2] = g[2] \/ f[2] = Whole \/ g[2] = Whole)

\* Among the linked fields of i is a key before its whole slot.
OwnEdge(i) ==
  \E n \in Nat : /\ Done(i, n) /\ FieldsOf(i)[n][2] = Whole
                 /\ \E k \in 1 .. n - 1 : /\ FieldsOf(i)[k][1] = FieldsOf(i)[n][1]
                                          /\ FieldsOf(i)[k][2] # Whole

Snapshot(i) == [c \in Cells |-> IF c \in Touches(i) THEN cell[c] ELSE 0]

-----------------------------------------------------------------------------
(* The inductive invariant.                                                 *)

CollectType ==
  /\ inputs \in [Txs -> Calls]
  /\ phase \in {"collect", "link", "run", "called"}
  /\ worker \in [Txs -> {"start", "miss", "done"}]
  /\ abiCache \subseteq {m \in Methods : Abi[m] # Invalid}
  /\ conflicts \in [Txs -> BOOLEAN]

LinkType ==
  /\ linkId \in 1 .. N + 1 /\ linkPos \in Nat \ {0} /\ noDeps \in BOOLEAN
  /\ dependencies \in [Cells -> Seq(Txs)]
  /\ slotUsage \in [Slots -> 0 .. N]
  /\ IsFiniteSet(edges) /\ \A e \in edges : e[1] \in Txs /\ e[2] \in Txs
  /\ fromStart \subseteq Txs

RunType ==
  /\ received \in [Txs -> Nat]
  /\ status \in [Txs -> {"idle", "running", "ended"}]
  /\ results \in [Txs -> {"default", "sendBack", "sendBackBlank", "output", "revert"}]
  /\ cell \in [Cells -> 0 .. N]
  /\ read \in [Txs -> [Cells -> 0 .. N]]

TypeOK == CollectType /\ LinkType /\ RunType

\* A transaction whose turn is over has a task or has been sent back.
Collected ==
  \A i \in Txs :
    /\ worker[i] # "done" => phase = "collect" /\ ~conflicts[i] /\ results[i] = "default"
    /\ worker[i] = "miss" => ~inputs[i].create
    /\ worker[i] = "done" => (conflicts[i] <=> Analysable(inputs[i]))
    /\ worker[i] = "done" /\ ~conflicts[i] => results[i] \in {"sendBack", "sendBackBlank"}
    /\ conflicts[i] => /\ status[i] = "ended" => results[i] \in {"output", "revert"}
                       /\ status[i] # "ended" => results[i] = "default"

Phases ==
  /\ phase = "collect" => linkId = 1 /\ linkPos = 1
  /\ phase \in {"collect", "link"} => \A i \in Txs : status[i] = "idle"
  /\ phase \in {"run", "called"} => linkId = N + 1

\* dependencies and slotUsage hold tasks that use the field, and every task that does
\* reaches the last of them.
Chains ==
  /\ \A c \in Cells, t \in Txs :
       (\E n \in DOMAIN dependencies[c] : dependencies[c][n] = t) => Names(t, c)
  /\ \A c \in Cells : \A j \in Txs : Names(j, c) =>
       /\ dependencies[c] # <<>>
       /\ Reaches(edges, j, Last(dependencies[c]))
       /\ j = linkId => Last(dependencies[c]) = linkId
  /\ \A s \in Slots, t \in Txs : slotUsage[s] = t => Names(t, <<s, Whole>>)
  /\ \A s \in Slots : \A j \in Txs : Names(j, <<s, Whole>>) =>
       /\ slotUsage[s] # 0
       /\ Reaches(edges, j, slotUsage[s])

\* Two tasks that use a common cell are in block order.
Ordered ==
  \A i, j \in Txs : \A f, g \in FieldSet :
    j < i /\ Names(j, f) /\ Names(i, g) /\ Overlap(f, g) => Reaches(edges, j, i)

\* There is no other edge than from an earlier task that uses a common cell, and from a
\* task to itself as NamesKeyThenSlot says.
EdgesSound ==
  \A e \in edges :
    /\ e[1] # e[2] => /\ e[1] < e[2]
                      /\ \E f, g \in FieldSet :
                           Names(e[1], f) /\ Names(e[2], g) /\ Overlap(f, g)
    /\ e[1] = e[2] => OwnEdge(e[1])

OwnEdges == \A i \in Txs : OwnEdge(i) => \E e \in edges : e[1] = i /\ e[2] = i

\* A task without predecessors hangs on the start node.
Started ==
  /\ \A i \in Txs : i < linkId /\ conflicts[i] => i \in fromStart \/ \E e \in edges : e[2] = i
  /\ noDeps \/ \E e \in edges : e[2] = linkId
  /\ linkPos = 1 => noDeps
  /\ linkPos # 1 => linkId <= N /\ conflicts[linkId]

\* What a task has received; a task that has started has no predecessor left, not even
\* itself, and has read what its cells still hold.
Running ==
  \A i \in Txs :
    /\ phase \in {"run", "called"} =>
         received[i] = Cardinality({e \in edges : e[2] = i /\ status[e[1]] = "ended"})
                       + (IF i \in fromStart THEN 1 ELSE 0)
    /\ status[i] # "idle" =>
         conflicts[i] /\ \A e \in edges : e[2] = i => e[1] # i /\ status[e[1]] = "ended"
    /\ status[i] = "running" => read[i] = Snapshot(i)

Graph == Chains /\ Ordered /\ EdgesSound /\ OwnEdges /\ Started

IndInv == TypeOK /\ Collected /\ Phases /\ Graph /\ Running

-----------------------------------------------------------------------------
(* Sets, sequences and fields.                                              *)

\* The range of a function on a finite set is finite.
LEMMA FiniteRange ==
  ASSUME NEW S, IsFiniteSet(S), NEW h, DOMAIN h = S
  PROVE  IsFiniteSet({h[x] : x \in S})
  <1> DEFINE T == {h[x] : x \in S}
             g == [x \in S |-> h[x]]
  <1>1. g \in [S -> T] /\ \A t \in T : \E x \in S : g[x] = t
    OBVIOUS
  <1>2. g \in Surjection(S, T)
    BY <1>1 DEF Surjection
  <1> QED
    BY <1>2, FS_Surjection

\* A union of finitely many finite sets is finite.
LEMMA FiniteUnion ==
  ASSUME NEW S, IsFiniteSet(S), NEW h, DOMAIN h = S, \A x \in S : IsFiniteSet(h[x])
  PROVE  IsFiniteSet(UNION {h[x] : x \in S})
  <1>1. IsFiniteSet({h[x] : x \in S})
    BY FiniteRange
  <1> QED
    BY <1>1, FS_UNION

\* SetToSeq lists the members of a finite set.
LEMMA SetToSeqRange ==
  ASSUME NEW S, IsFiniteSet(S)
  PROVE  Range(SetToSeq(S)) = S
  <1> DEFINE n == Cardinality(S)
             s == SetToSeq(S)
  <1>1. n \in Nat /\ ExistsBijection(1 .. n, S)
    BY FS_CardinalityType
  <1>2. PICK b \in Bijection(1 .. n, S) : TRUE
    BY <1>1 DEF ExistsBijection
  <1>3. b \in [1 .. n -> S] /\ IsInjective(b)
    BY <1>2 DEF Bijection, Injection, IsInjective
  <1>4. s \in [1 .. n -> S] /\ IsInjective(s)
    BY <1>3 DEF SetToSeq
  <1> HIDE DEF s
  <1>5. s \in Injection(1 .. n, S)
    BY <1>4 DEF Injection, IsInjective
  <1>6. Cardinality(1 .. n) = n
    BY <1>1, FS_Interval
  <1>7. s \in Surjection(1 .. n, S)
    BY <1>5, <1>6, FS_Injection
  <1>8. \A x \in S : \E k \in 1 .. n : s[k] = x
    BY <1>7 DEF Surjection
  <1>9. Range(s) = S
    BY <1>4, <1>8 DEF Range
  <1> QED
    BY <1>9 DEF s

\* A set of natural numbers has a least member.
LEMMA LeastOf ==
  ASSUME NEW B, B \subseteq Nat, B # {}
  PROVE  \E n \in B : \A m \in B : n <= m
  <1> DEFINE R == OpToRel(<, Nat)
  <1>1. \A m, n \in Nat : m < n => <<m, n>> \in R
    BY DEF OpToRel
  <1>2. IsWellFoundedOn(R, Nat)
    BY NatLessThanWellFounded
  <1> HIDE DEF R
  <1>3. PICK n \in B : \A m \in B : ~ (<<m, n>> \in R)
    BY <1>2, WFMin
  <1>4. ASSUME NEW m \in B PROVE n <= m
    <2>1. ~ (m < n) /\ m \in Nat /\ n \in Nat
      BY <1>1, <1>3
    <2> QED
      BY <2>1
  <1> QED
    BY <1>4

\* The cells of a batch are finitely many.
LEMMA CellsFinite == IsFiniteSet(Cells)
  BY BatchAssumption, FS_Product DEF Cells

\* The decoded conflict fields of a call that has some.
LEMMA DecodedFields ==
  ASSUME NEW call \in Calls, Analysable(call)
  PROVE  /\ Len(Declared(call)) \in Nat
         /\ DOMAIN Declared(call) = 1 .. Len(Declared(call))
         /\ Len(decodeConflictFields(call)) = Len(Declared(call))
         /\ \A n \in DOMAIN Declared(call) : decodeConflictFields(call)[n] \in FieldSet
  <1> DEFINE d == Declared(call)
             t == decodeConflictFields(call)
  <1>1. d \in Seq(Range(d))
    BY CallsAssumption DEF Analysable
  <1>2. \A n \in DOMAIN d : t[n] \in FieldSet
    BY FieldsAssumption DEF FieldSet
  <1>3. DOMAIN t = DOMAIN d
    BY DEF decodeConflictFields
  <1>4. t = [n \in DOMAIN d |-> t[n]]
    BY DEF decodeConflictFields
  <1> HIDE DEF d, t
  <1>5. Len(d) \in Nat /\ DOMAIN d = 1 .. Len(d)
    BY <1>1
  <1>6. t \in [1 .. Len(d) -> FieldSet]
    BY <1>2, <1>4, <1>5
  <1>7. t \in Seq(FieldSet) /\ Len(t) = Len(d)
    BY <1>5, <1>6
  <1> QED
    BY <1>2, <1>5, <1>7 DEF d, t

\* A task reaches itself, and more edges only help.
LEMMA ReachesFacts ==
  ASSUME NEW E, NEW F, E \subseteq F, NEW i, NEW j
  PROVE  /\ Reaches(E, i, i)
         /\ Reaches(E, j, i) => Reaches(F, j, i)
  BY DEF Reaches, Closed

\* What reaches a predecessor of i reaches i.
LEMMA ReachesThrough ==
  ASSUME NEW E, NEW e \in E, NEW i, NEW j, e[2] = i, Reaches(E, j, e[1])
  PROVE  Reaches(E, j, i)
  BY DEF Reaches, Closed

\* A cell that two transactions touch is one that two of their fields stand for.
LEMMA CommonCell ==
  ASSUME NEW a \in Calls, NEW b \in Calls
  PROVE  TouchedBy[a] \cap TouchedBy[b] # {} <=>
           /\ Analysable(a) /\ Analysable(b)
           /\ \E m \in DOMAIN Declared(a) : \E n \in DOMAIN Declared(b) :
                Overlap(decodeConflictFields(a)[m], decodeConflictFields(b)[n])
  <1> DEFINE t(x) == decodeConflictFields(x)
  <1>1. \A x \in Calls : TouchedBy[x] =
          IF Analysable(x)
          THEN {c \in Cells : \E n \in DOMAIN Declared(x) : t(x)[n] \in {c, <<c[1], Whole>>}}
          ELSE {}
    BY DEF TouchedBy
  <1>2. \A n \in DOMAIN Declared(a) : Analysable(a) => t(a)[n] \in FieldSet
    BY DecodedFields
  <1>3. \A n \in DOMAIN Declared(b) : Analysable(b) => t(b)[n] \in FieldSet
    BY DecodedFields
  <1> HIDE DEF t
  <1>4. ASSUME NEW c, c \in TouchedBy[a], c \in TouchedBy[b]
        PROVE  /\ Analysable(a) /\ Analysable(b)
               /\ \E m \in DOMAIN Declared(a) : \E n \in DOMAIN Declared(b) :
                    Overlap(t(a)[m], t(b)[n])
    <2>1. Analysable(a) /\ Analysable(b) /\ c \in Cells
      BY <1>1, <1>4
    <2>2. PICK m \in DOMAIN Declared(a) : t(a)[m] \in {c, <<c[1], Whole>>}
      BY <1>1, <1>4, <2>1
    <2>3. PICK n \in DOMAIN Declared(b) : t(b)[n] \in {c, <<c[1], Whole>>}
      BY <1>1, <1>4, <2>1
    <2>4. Overlap(t(a)[m], t(b)[n])
      BY <2>1, <2>2, <2>3 DEF Overlap, Cells
    <2> QED
      BY <2>1, <2>4
  <1>5. ASSUME Analysable(a), Analysable(b),
               NEW m \in DOMAIN Declared(a), NEW n \in DOMAIN Declared(b),
               Overlap(t(a)[m], t(b)[n])
        PROVE  TouchedBy[a] \cap TouchedBy[b] # {}
    <2>1. PICK k \in Keys : TRUE
      BY BatchAssumption
    <2>2. PICK f \in FieldSet : f = t(a)[m]
      BY <1>2, <1>5
    <2>3. PICK g \in FieldSet : g = t(b)[n]
      BY <1>3, <1>5
    <2> DEFINE key == IF f[2] # Whole THEN f[2] ELSE IF g[2] # Whole THEN g[2] ELSE k
               c == <<f[1], key>>
    <2>4. c \in Cells /\ f \in {c, <<c[1], Whole>>} /\ g \in {c, <<c[1], Whole>>}
      BY <1>5, <2>2, <2>3 DEF Overlap, FieldSet, Cells
    <2>5. c \in TouchedBy[a] /\ c \in TouchedBy[b]
      BY <1>1, <1>5, <2>2, <2>3, <2>4
    <2> QED
      BY <2>5
  <1> QED
    BY <1>4, <1>5 DEF t

-----------------------------------------------------------------------------
(* Initial states, types, and the workers that look up the ABIs.            *)

\* Transactions are positive numbers.
LEMMA TxsFacts ==
  /\ Txs \subseteq Nat \ {0}
  /\ \A i \in Txs : i <= N /\ \A j \in 1 .. i - 1 : j \in Txs
  BY BatchAssumption DEF Txs

\* Nothing has happened at first.
LEMMA InitInv == Init => IndInv
  <1> SUFFICES ASSUME Init PROVE IndInv
    OBVIOUS
  <1>1. CollectType
    BY DEF Init, CollectType
  <1>2. LinkType
    <2>1. \A c \in Cells : dependencies[c] \in Seq(Txs)
      BY DEF Init
    <2> QED
      BY <2>1, BatchAssumption, FS_EmptySet DEF Init, LinkType
  <1>3. RunType
    BY BatchAssumption DEF Init, RunType
  <1>4. Collected /\ Phases
    BY DEF Init, Collected, Phases
  <1>5. \A i \in Txs : ~OwnEdge(i) /\ \A f : ~Names(i, f)
    BY DEF Init, OwnEdge, Names, Done
  <1>6. Graph
    BY <1>5 DEF Init, Graph, Chains, Ordered, EdgesSound, OwnEdges, Started, Txs
  <1>7. Running
    BY DEF Init, Running
  <1> QED
    BY <1>1, <1>2, <1>3, <1>4, <1>6, <1>7 DEF IndInv, TypeOK

\* The graph is as sound as it was when no step of linking or collecting is taken.
LEMMA SameGraph ==
  ASSUME Graph, UNCHANGED <<inputs, conflicts, linkVars>>
  PROVE  Graph'
  <1>1. \A i, n : Done(i, n)' <=> Done(i, n)
    BY DEF Done, linkVars
  <1>2. \A i : FieldsOf(i)' = FieldsOf(i)
    BY DEF FieldsOf
  <1>3. \A i : OwnEdge(i)' <=> OwnEdge(i)
    BY <1>1, <1>2 DEF OwnEdge
  <1>4. \A i, f : Names(i, f)' <=> Names(i, f)
    BY <1>1, <1>2 DEF Names
  <1>5. UNCHANGED <<linkId, linkPos, noDeps, dependencies, slotUsage, edges, fromStart>>
    BY DEF linkVars
  <1>6. Chains'
    BY <1>4, <1>5 DEF Graph, Chains
  <1>7. Ordered'
    BY <1>4, <1>5 DEF Graph, Ordered
  <1>8. EdgesSound'
    BY <1>3, <1>4, <1>5 DEF Graph, EdgesSound
  <1>9. OwnEdges'
    BY <1>3, <1>5 DEF Graph, OwnEdges
  <1>10. Started'
    BY <1>5 DEF Graph, Started
  <1> QED
    BY <1>6, <1>7, <1>8, <1>9, <1>10 DEF Graph

\* What the running tasks know does not change when no task begins or ends.
LEMMA SameRun ==
  ASSUME Running, Phases, \A i \in Txs : conflicts[i] => conflicts'[i],
         UNCHANGED <<inputs, edges, fromStart, runVars>>,
         phase \in {"run", "called"} \/ phase' \in {"collect", "link"}
  PROVE  Running'
  <1>1. \A i \in Txs : Snapshot(i)' = Snapshot(i)
    BY DEF Snapshot, Touches, runVars
  <1>2. UNCHANGED <<received, status, read>>
    BY DEF runVars
  <1> QED
    BY <1>1, <1>2 DEF Running, Phases

\* A worker's turn ends with the ABI at hand: what Decode finds is what Analysable says.
LEMMA CollectStep ==
  ASSUME IndInv, NEW i \in Txs, NEW fits \in BOOLEAN, Lookup(i) \/ Load(i, fits)
  PROVE  IndInv'
  <1> DEFINE m == <<inputs[i].to, inputs[i].method>>
  <1>1. /\ TypeOK /\ Collected /\ Phases /\ Graph /\ Running
        /\ phase = "collect" /\ worker[i] # "done" /\ UNCHANGED <<inputs, phase, linkVars, runVars>>
    BY DEF IndInv, Lookup, Load
  <1>2. inputs[i] \in Calls /\ inputs[i].create \in BOOLEAN
    BY <1>1, CallsAssumption DEF TypeOK, CollectType
  <1>3. HasConflictFields(inputs[i]) \in BOOLEAN
    BY DEF HasConflictFields
  <1>4. ~inputs[i].create => m \in Methods
    BY <1>2, CallsAssumption
  \* the three ways a turn can go on
  <1>5. \/ /\ worker' = [worker EXCEPT ![i] = "miss"] /\ ~inputs[i].create
           /\ UNCHANGED <<conflicts, results, abiCache>>
        \/ /\ SendBack(i) /\ UNCHANGED abiCache
           /\ inputs[i].create \/ Abi[m] = Invalid
        \/ /\ Decode(i) /\ ~inputs[i].create /\ Abi[m] # Invalid
           /\ abiCache' \subseteq abiCache \cup {m}
    <2>1. CASE Lookup(i)
      <3>1. CASE inputs[i].create
        BY <2>1, <3>1 DEF Lookup
      <3>2. CASE ~inputs[i].create /\ m \in abiCache
        BY <1>1, <2>1, <3>2 DEF Lookup, TypeOK, CollectType
      <3>3. CASE ~inputs[i].create /\ m \notin abiCache
        BY <2>1, <3>3 DEF Lookup
      <3> QED
        BY <1>2, <3>1, <3>2, <3>3
    <2>2. CASE Load(i, fits)
      <3>1. ~inputs[i].create
        BY <1>1, <2>2 DEF Load, Collected
      <3>2. CASE Abi[m] = Invalid
        <4>1. m \notin abiCache
          BY <1>1, <3>2 DEF TypeOK, CollectType
        <4> QED
          BY <2>2, <3>1, <3>2, <4>1 DEF Load
      <3>3. CASE Abi[m] # Invalid /\ m \in abiCache
        BY <2>2, <3>1, <3>3 DEF Load
      <3>4. CASE Abi[m] # Invalid /\ m \notin abiCache
        BY <2>2, <3>1, <3>4 DEF Load
      <3> QED
        BY <3>2, <3>3, <3>4
    <2> QED
      BY <2>1, <2>2
  <1>6. /\ \A k \in Txs : k # i => /\ worker'[k] = worker[k] /\ conflicts'[k] = conflicts[k]
                                  /\ results'[k] = results[k]
        /\ worker' \in [Txs -> {"start", "miss", "done"}]
        /\ conflicts' \in [Txs -> BOOLEAN]
        /\ results' \in [Txs -> {"default", "sendBack", "sendBackBlank", "output", "revert"}]
    BY <1>1, <1>3, <1>5 DEF SendBack, Decode, TypeOK, CollectType, RunType
  <1>7. abiCache' \subseteq {x \in Methods : Abi[x] # Invalid}
    BY <1>1, <1>4, <1>5 DEF TypeOK, CollectType
  <1>8. TypeOK'
    BY <1>1, <1>6, <1>7 DEF TypeOK, CollectType, LinkType, RunType, linkVars, runVars
  <1>9. ~conflicts[i] /\ results[i] = "default"
    BY <1>1 DEF Collected
  <1>10. /\ worker'[i] # "done" => ~conflicts'[i] /\ results'[i] = "default"
         /\ worker'[i] = "miss" => ~inputs[i].create
         /\ worker'[i] = "done" => (conflicts'[i] <=> Analysable(inputs[i]))
         /\ worker'[i] = "done" /\ ~conflicts'[i] => results'[i] \in {"sendBack", "sendBackBlank"}
         /\ conflicts'[i] => results'[i] = "default"
    <2>1. CASE worker' = [worker EXCEPT ![i] = "miss"]
      BY <1>1, <1>5, <1>9, <2>1 DEF TypeOK, CollectType, SendBack, Decode
    <2>2. CASE SendBack(i) /\ (inputs[i].create \/ Abi[m] = Invalid)
      BY <1>1, <1>9, <2>2 DEF TypeOK, CollectType, RunType, SendBack, Analysable, Declared
    <2>3. CASE Decode(i) /\ ~inputs[i].create /\ Abi[m] # Invalid
      BY <1>1, <1>3, <1>9, <2>3 DEF TypeOK, CollectType, RunType, Decode, Analysable, Declared
    <2> QED
      BY <1>5, <2>1, <2>2, <2>3
  <1>11. \A k \in Txs : status[k] = "idle" /\ status'[k] = "idle"
    BY <1>1 DEF Phases, runVars
  <1>12. Collected'
    BY <1>1, <1>6, <1>10, <1>11 DEF Collected
  <1>13. Phases'
    BY <1>1, <1>11 DEF Phases, linkVars
  <1>14. /\ linkId = 1 /\ linkPos = 1
         /\ UNCHANGED <<linkId, linkPos, noDeps, dependencies, slotUsage, edges, fromStart>>
    BY <1>1 DEF Phases, linkVars
  <1>15. \A k \in Txs, n \in Nat : ~Done(k, n) /\ ~Done(k, n)'
    <2> SUFFICES ASSUME NEW k \in Txs, NEW n \in Nat PROVE ~Done(k, n) /\ ~Done(k, n)'
      OBVIOUS
    <2>1. inputs[k] \in Calls /\ (conflicts[k] \/ conflicts'[k] => Analysable(inputs[k]))
      BY <1>1, <1>12 DEF TypeOK, CollectType, Collected
    <2>2. (conflicts[k] \/ conflicts'[k]) /\ n \in DOMAIN Declared(inputs[k]) => n >= 1
      BY <2>1, DecodedFields
    <2> QED
      BY <1>1, <1>14, <2>2, TxsFacts DEF Done
  <1>16. \A k \in Txs : /\ ~OwnEdge(k) /\ ~OwnEdge(k)'
                        /\ \A f : ~Names(k, f) /\ ~Names(k, f)'
    BY <1>15 DEF OwnEdge, Names
  <1>17. Chains' /\ Ordered' /\ OwnEdges'
    <2>1. \A c \in Cells : \A n \in DOMAIN dependencies[c] : dependencies[c][n] \in Txs
      BY <1>1 DEF TypeOK, LinkType
    <2>2. \A s \in Slots : slotUsage[s] # 0 => slotUsage[s] \in Txs
      BY <1>1, BatchAssumption DEF TypeOK, LinkType, Txs
    <2> QED
      BY <1>1, <1>14, <1>16, <2>1, <2>2 DEF Graph, Chains, Ordered, OwnEdges
  <1>18. edges = {}
    BY <1>1, <1>16 DEF Graph, EdgesSound, TypeOK, LinkType
  <1>19. EdgesSound' /\ Started'
    BY <1>1, <1>14, <1>18, TxsFacts DEF Graph, EdgesSound, Started
  <1>20. Running'
    BY <1>1, <1>6, <1>9, <1>14, SameRun
  <1> QED
    BY <1>8, <1>12, <1>13, <1>17, <1>19, <1>20 DEF IndInv, Graph

\* parallel_for returns.
LEMMA EndCollectStep ==
  ASSUME IndInv, EndCollect
  PROVE  IndInv'
  <1>1. /\ TypeOK /\ Collected /\ Phases /\ Graph /\ Running
        /\ phase = "collect" /\ phase' = "link" /\ \A i \in Txs : worker[i] = "done"
        /\ UNCHANGED <<inputs, worker, abiCache, conflicts, linkVars, runVars, results>>
    BY DEF IndInv, EndCollect
  <1>2. TypeOK'
    BY <1>1 DEF TypeOK, CollectType, LinkType, RunType, linkVars, runVars
  <1>3. Collected' /\ Phases'
    BY <1>1 DEF Collected, Phases, linkVars, runVars
  <1>4. Graph'
    BY <1>1, SameGraph
  <1>5. Running'
    BY <1>1, SameRun DEF linkVars
  <1> QED
    BY <1>2, <1>3, <1>4, <1>5 DEF IndInv

-----------------------------------------------------------------------------
(* The linking loop.                                                        *)

\* Only linked fields are named, and linked tasks come before the one being linked.
LEMMA NamesFacts ==
  ASSUME TypeOK, Collected, NEW j \in Txs
  PROVE  /\ conflicts[j] => Analysable(inputs[j]) /\ inputs[j] \in Calls
         /\ \A n : Done(j, n) => n \in 1 .. Len(Declared(inputs[j])) /\ j <= linkId
         /\ \A n : Done(j, n) => FieldsOf(j)[n] \in FieldSet
         /\ \A f : Names(j, f) => j <= linkId /\ f \in FieldSet
  <1>1. inputs[j] \in Calls /\ (conflicts[j] => Analysable(inputs[j]))
    BY DEF TypeOK, CollectType, Collected
  <1>2. linkId \in Int /\ j \in Int
    BY TxsFacts, BatchAssumption DEF TypeOK, LinkType
  <1>3. \A n : Done(j, n) => n \in 1 .. Len(Declared(inputs[j])) /\ j <= linkId
    BY <1>1, <1>2, DecodedFields DEF Done
  <1>4. \A n : Done(j, n) => FieldsOf(j)[n] \in FieldSet
    BY <1>1, DecodedFields DEF Done, FieldsOf
  <1> QED
    BY <1>1, <1>3, <1>4 DEF Names

\* The next task: what has been linked stays, and nothing of the next task is.
LEMMA NextTaskStep ==
  ASSUME IndInv, EndTask \/ SkipTask
  PROVE  IndInv'
  <1>1. /\ TypeOK /\ Collected /\ Phases /\ Graph /\ Running /\ phase = "link" /\ linkId <= N
        /\ linkId' = linkId + 1 /\ linkPos' = 1 /\ noDeps' = TRUE
        /\ UNCHANGED <<inputs, phase, worker, abiCache, conflicts, dependencies,
                       slotUsage, edges, runVars, results>>
        /\ conflicts[linkId] => linkPos > Len(FieldsOf(linkId))
        /\ fromStart \subseteq fromStart' /\ fromStart' \subseteq fromStart \cup {linkId}
        /\ conflicts[linkId] /\ noDeps => linkId \in fromStart'
    <2>1. CASE EndTask
      BY <2>1 DEF IndInv, EndTask, Linking
    <2>2. CASE SkipTask
      <3>1. linkPos = 1 /\ noDeps
        BY <2>2 DEF IndInv, Graph, Started, SkipTask
      <3> QED
        BY <2>2, <3>1 DEF IndInv, SkipTask
    <2> QED
      BY <2>1, <2>2
  <1>2. linkId \in Txs /\ linkId \in Nat /\ linkPos \in Nat \ {0}
    BY <1>1, BatchAssumption DEF TypeOK, LinkType, Txs
  <1>3. TypeOK'
    <2>1. linkId' \in 1 .. N + 1 /\ linkPos' \in Nat \ {0} /\ fromStart' \subseteq Txs
      BY <1>1, <1>2, BatchAssumption DEF TypeOK, LinkType
    <2> QED
      BY <1>1, <2>1 DEF TypeOK, CollectType, LinkType, RunType, runVars
  <1>4. Collected' /\ Phases'
    BY <1>1 DEF Collected, Phases, runVars
  <1>5. \A j \in Txs, n \in Nat : Done(j, n)' <=> Done(j, n)
    <2> SUFFICES ASSUME NEW j \in Txs, NEW n \in Nat PROVE Done(j, n)' <=> Done(j, n)
      OBVIOUS
    <2>1. j \in Nat
      BY TxsFacts
    <2>2. conflicts[j] /\ n \in DOMAIN Declared(inputs[j]) => n >= 1 /\ n <= Len(FieldsOf(j))
      <3>1. conflicts[j] => Analysable(inputs[j]) /\ inputs[j] \in Calls
        BY <1>1, NamesFacts
      <3> QED
        BY <3>1, DecodedFields DEF FieldsOf
    <2>3. j = linkId /\ conflicts[j] /\ n \in DOMAIN Declared(inputs[j]) => n < linkPos
      <3>1. conflicts[linkId] => Len(FieldsOf(linkId)) \in Nat
        <4>1. conflicts[linkId] => Analysable(inputs[linkId]) /\ inputs[linkId] \in Calls
          BY <1>1, <1>2, NamesFacts
        <4> QED
          BY <4>1, DecodedFields DEF FieldsOf
      <3> QED
        BY <1>1, <1>2, <2>2, <3>1
    <2> QED
      BY <1>1, <1>2, <2>1, <2>2, <2>3 DEF Done
  <1>6. \A j : FieldsOf(j)' = FieldsOf(j)
    BY <1>1 DEF FieldsOf
  <1>7. \A j \in Txs : /\ OwnEdge(j)' <=> OwnEdge(j)
                       /\ \A f : Names(j, f)' <=> Names(j, f)
    BY <1>5, <1>6 DEF OwnEdge, Names
  <1>8. \A j \in Txs : \A f : Names(j, f) => j # linkId'
    BY <1>1, <1>2, TxsFacts, NamesFacts
  <1>9. Chains'
    <2>1. \A c \in Cells : \A n \in DOMAIN dependencies[c] : dependencies[c][n] \in Txs
      BY <1>1 DEF TypeOK, LinkType
    <2>2. \A s \in Slots : slotUsage[s] # 0 => slotUsage[s] \in Txs
      BY <1>1, BatchAssumption DEF TypeOK, LinkType, Txs
    <2> QED
      BY <1>1, <1>7, <1>8, <2>1, <2>2 DEF Graph, Chains
  <1>10. Ordered'
    BY <1>1, <1>7 DEF Graph, Ordered
  <1>11. EdgesSound' /\ OwnEdges'
    BY <1>1, <1>7 DEF Graph, EdgesSound, OwnEdges, TypeOK, LinkType
  <1>12. Started'
    <2>1. ASSUME NEW j \in Txs, j < linkId', conflicts[j]
          PROVE  j \in fromStart' \/ \E e \in edges : e[2] = j
      <3>1. j < linkId \/ j = linkId
        BY <1>1, <1>2, <2>1, TxsFacts
      <3> QED
        BY <1>1, <2>1, <3>1 DEF Graph, Started
    <2> QED
      BY <1>1, <2>1 DEF Started
  <1>13. Running'
    <2>1. \A j \in Txs : Snapshot(j)' = Snapshot(j)
      BY <1>1 DEF Snapshot, Touches, runVars
    <2>2. UNCHANGED <<received, status, read>> /\ phase' = "link"
      BY <1>1 DEF runVars
    <2> QED
      BY <1>1, <2>1, <2>2 DEF Running
  <1> QED
    BY <1>3, <1>4, <1>9, <1>10, <1>11, <1>12, <1>13 DEF IndInv, Graph

\* Linking one field of the task linkId: what is named afterwards.
LEMMA FieldFrame ==
  ASSUME IndInv, Linking, linkPos <= Len(FieldsOf(linkId)), linkPos' = linkPos + 1,
         UNCHANGED <<inputs, conflicts, linkId>>,
         NEW f, f = FieldsOf(linkId)[linkPos]
  PROVE  /\ linkId \in Txs /\ conflicts[linkId] /\ f \in FieldSet
         /\ \A j \in Txs : \A g : Names(j, g)' <=> Names(j, g) \/ (j = linkId /\ g = f)
         /\ \A j \in Txs : OwnEdge(j)' <=>
              \/ OwnEdge(j)
              \/ j = linkId /\ f[2] = Whole /\ \E k \in Keys : Names(j, <<f[1], k>>)
  <1> DEFINE i == linkId
             p == linkPos
  <1>1. TypeOK /\ Collected /\ i \in Txs /\ i \in Nat /\ p \in Nat \ {0} /\ conflicts[i]
    BY BatchAssumption DEF IndInv, TypeOK, LinkType, Linking, Txs
  <1>2. inputs[i] \in Calls /\ Analysable(inputs[i])
    BY <1>1, NamesFacts
  <1>3. p \in DOMAIN Declared(inputs[i])
    BY <1>1, <1>2, DecodedFields DEF FieldsOf
  <1>4. f \in FieldSet
    BY <1>2, <1>3, DecodedFields DEF FieldsOf
  <1>5. \A j \in Txs, n \in Nat : Done(j, n)' <=> Done(j, n) \/ (j = i /\ n = p)
    <2> SUFFICES ASSUME NEW j \in Txs, NEW n \in Nat
                 PROVE  Done(j, n)' <=> Done(j, n) \/ (j = i /\ n = p)
      OBVIOUS
    <2> QED
      BY <1>1, <1>3 DEF Done
  <1>6. \A j : FieldsOf(j)' = FieldsOf(j)
    BY DEF FieldsOf
  <1> HIDE DEF i, p
  <1>7. ASSUME NEW j \in Txs, NEW g
        PROVE  Names(j, g)' <=> Names(j, g) \/ (j = i /\ g = f)
    BY <1>1, <1>5, <1>6 DEF Names, i, p
  <1>8. \A n \in 1 .. p - 1 : Done(i, n)
    <2>1. \A n \in 1 .. p - 1 : n \in DOMAIN Declared(inputs[i])
      BY <1>1, <1>2, <1>3, DecodedFields
    <2> QED
      BY <1>1, <2>1 DEF Done, i, p
  <1>9. \A n \in Nat : Done(i, n) => n \in 1 .. p - 1
    <2> SUFFICES ASSUME NEW n \in Nat, Done(i, n) PROVE n \in 1 .. p - 1
      OBVIOUS
    <2>1. n < p
      BY <1>1 DEF Done, i, p
    <2>2. n >= 1
      BY <1>1, <1>2, NamesFacts, DecodedFields
    <2> QED
      BY <1>1, <2>1, <2>2
  <1>10. (\E k \in 1 .. p - 1 : FieldsOf(i)[k][1] = f[1] /\ FieldsOf(i)[k][2] # Whole)
         <=> \E k \in Keys : Names(i, <<f[1], k>>)
    <2>1. ASSUME NEW k \in 1 .. p - 1, FieldsOf(i)[k][1] = f[1], FieldsOf(i)[k][2] # Whole
          PROVE  \E key \in Keys : Names(i, <<f[1], key>>)
      <3>1. Done(i, k) /\ k \in Nat
        BY <1>1, <1>8
      <3>2. PICK g \in FieldSet : g = FieldsOf(i)[k]
        BY <1>1, <3>1, NamesFacts
      <3>3. g[2] \in Keys /\ g = <<f[1], g[2]>>
        BY <2>1, <3>2 DEF FieldSet
      <3>4. Names(i, g)
        BY <3>1, <3>2 DEF Names
      <3> QED
        BY <3>3, <3>4
    <2>2. ASSUME NEW key \in Keys, Names(i, <<f[1], key>>)
          PROVE  \E k \in 1 .. p - 1 : FieldsOf(i)[k][1] = f[1] /\ FieldsOf(i)[k][2] # Whole
      <3>1. PICK n \in Nat : Done(i, n) /\ FieldsOf(i)[n] = <<f[1], key>>
        BY <2>2 DEF Names
      <3>2. n \in 1 .. p - 1
        BY <1>9, <3>1
      <3> QED
        BY <3>1, <3>2, FieldsAssumption
    <2> QED
      BY <2>1, <2>2
  <1>11. ASSUME NEW j \in Txs
         PROVE  OwnEdge(j)' <=>
                  \/ OwnEdge(j)
                  \/ j = i /\ f[2] = Whole /\ \E k \in Keys : Names(j, <<f[1], k>>)
    <2> DEFINE Own(n) == /\ FieldsOf(j)[n][2] = Whole
                         /\ \E k \in 1 .. n - 1 : /\ FieldsOf(j)[k][1] = FieldsOf(j)[n][1]
                                                  /\ FieldsOf(j)[k][2] # Whole
    <2>1. OwnEdge(j) <=> \E n \in Nat : Done(j, n) /\ Own(n)
      BY DEF OwnEdge
    <2>2. OwnEdge(j)' <=> \E n \in Nat : Done(j, n)' /\ Own(n)
      BY <1>6 DEF OwnEdge
    <2>3. j = i => (Own(p) <=> f[2] = Whole /\ \E k \in Keys : Names(j, <<f[1], k>>))
      BY <1>10 DEF i, p
    <2> HIDE DEF Own
    <2> QED
      BY <1>1, <1>5, <2>1, <2>2, <2>3
  <1> QED
    BY <1>1, <1>4, <1>7, <1>11 DEF i

\* What linking a field does not touch.
LEMMA FieldRest ==
  ASSUME IndInv, Linking, LinkType',
         UNCHANGED <<inputs, phase, worker, abiCache, conflicts, linkId, fromStart, runVars, results>>
  PROVE  TypeOK' /\ Collected' /\ Phases' /\ Running'
  <1>1. TypeOK /\ Collected /\ Phases /\ Running /\ phase = "link"
    BY DEF IndInv, Linking
  <1>2. TypeOK'
    BY <1>1 DEF TypeOK, CollectType, RunType, runVars
  <1>3. Collected' /\ Phases'
    BY <1>1 DEF Collected, Phases, runVars
  <1>4. \A j \in Txs : status'[j] = "idle" /\ phase' = "link"
    BY <1>1 DEF Phases, runVars
  <1> QED
    BY <1>2, <1>3, <1>4 DEF Running

\* The edge from the last user of the whole slot, and the set of such edges.
LEMMA BySlotFacts ==
  ASSUME IndInv, NEW f \in FieldSet
  PROVE  /\ IsFiniteSet(BySlot(f))
         /\ slotUsage[f[1]] # 0 => /\ slotUsage[f[1]] \in Txs
                                   /\ slotUsage[f[1]] # linkId =>
                                        \E x \in BySlot(f) : x[1] = slotUsage[f[1]]
         /\ \A x \in BySlot(f) : /\ x[1] \in Txs /\ x[1] # linkId
                                 /\ x[1] = slotUsage[f[1]] /\ slotUsage[f[1]] # 0
  <1>1. f[1] \in Slots /\ slotUsage[f[1]] \in 0 .. N
    BY DEF FieldSet, IndInv, TypeOK, LinkType
  <1>2. slotUsage[f[1]] # 0 => slotUsage[f[1]] \in Txs
    BY <1>1, BatchAssumption DEF Txs
  <1>3. BySlot(f) = IF slotUsage[f[1]] \in {0, linkId} THEN {} ELSE {<<slotUsage[f[1]], Whole, 0>>}
    BY DEF BySlot
  <1>4. IsFiniteSet(BySlot(f))
    BY <1>3, FS_EmptySet, FS_Singleton
  <1>5. slotUsage[f[1]] \notin {0, linkId} => \E x \in BySlot(f) : x[1] = slotUsage[f[1]]
    <2> SUFFICES ASSUME slotUsage[f[1]] \notin {0, linkId}
                 PROVE  \E x \in BySlot(f) : x[1] = slotUsage[f[1]]
      OBVIOUS
    <2>1. <<slotUsage[f[1]], Whole, 0>> \in BySlot(f)
      BY <1>3
    <2> QED
      BY <2>1
  <1>6. \A x \in BySlot(f) : x[1] = slotUsage[f[1]] /\ slotUsage[f[1]] \notin {0, linkId}
    BY <1>3
  <1> QED
    BY <1>2, <1>4, <1>5, <1>6

\* New edges to the task being linked.
LEMMA NewEdges ==
  ASSUME IndInv, NEW froms, IsFiniteSet(froms), \A x \in froms : x[1] \in Txs,
         linkId \in Txs, MakeEdges(froms)
  PROVE  /\ edges \subseteq edges'
         /\ IsFiniteSet(edges') /\ \A e \in edges' : e[1] \in Txs /\ e[2] \in Txs
         /\ \A x \in froms : \E e \in edges' : e[1] = x[1] /\ e[2] = linkId
         /\ \A e \in edges' : e \in edges \/ (e[2] = linkId /\ \E x \in froms : e[1] = x[1])
  <1> DEFINE h == [x \in froms |-> <<x[1], linkId, linkPos, x[2], x[3]>>]
             new == {h[x] : x \in froms}
  <1>1. edges' = edges \cup new
    BY DEF MakeEdges
  <1>2. IsFiniteSet(new)
    BY FiniteRange
  <1>3. \A x \in froms : h[x] \in new /\ h[x][1] = x[1] /\ h[x][2] = linkId
    OBVIOUS
  <1>4. \A e \in new : \E x \in froms : e = h[x]
    OBVIOUS
  <1> HIDE DEF h, new
  <1>5. IsFiniteSet(edges')
    BY <1>1, <1>2, FS_Union DEF IndInv, TypeOK, LinkType
  <1>6. \A e \in edges : e[1] \in Txs /\ e[2] \in Txs
    BY DEF IndInv, TypeOK, LinkType
  <1> QED
    BY <1>1, <1>3, <1>4, <1>5, <1>6

\* A field with a key: it comes after the earlier users of the key and of its whole slot.
LEMMA KeyFieldStep ==
  ASSUME IndInv, KeyField, NEW i, i = linkId, NEW f, f = FieldsOf(linkId)[linkPos]
  PROVE  IndInv'
  <1>1. /\ Linking /\ linkPos <= Len(FieldsOf(linkId)) /\ f[2] # Whole
        /\ MakeEdges(BySlot(f) \cup ByKey(f))
        /\ noDeps' = (noDeps /\ BySlot(f) \cup ByKey(f) = {})
        /\ dependencies' = [dependencies EXCEPT ![f] = IF ByKey(f) # {}
                              THEN Append(dependencies[f], linkId) ELSE <<linkId>>]
        /\ linkPos' = linkPos + 1
        /\ UNCHANGED <<inputs, phase, worker, abiCache, conflicts, linkId, slotUsage,
                       fromStart, runVars, results>>
    BY DEF KeyField
  <1>2. /\ i \in Txs /\ i \in Nat /\ conflicts[i] /\ f \in FieldSet
        /\ \A j \in Txs : \A g : Names(j, g)' <=> Names(j, g) \/ (j = i /\ g = f)
        /\ \A j \in Txs : OwnEdge(j)' <=> OwnEdge(j)
    BY <1>1, FieldFrame, TxsFacts
  <1>3. f \in Cells /\ f[1] \in Slots /\ f = <<f[1], f[2]>> /\ f[2] \in Keys
    BY <1>1, <1>2 DEF FieldSet, Cells
  <1>4. PICK users \in Seq(Txs) : users = dependencies[f]
    BY <1>3 DEF IndInv, TypeOK, LinkType
  <1>5. users # <<>> => /\ Len(users) \in DOMAIN users /\ Last(users) = users[Len(users)]
                        /\ Last(users) \in Txs
    BY <1>4 DEF Last
  <1>6. ByKey(f) = IF users # <<>> /\ Last(users) # i
                   THEN {<<Last(users), f[2], Len(users)>>} ELSE {}
    BY <1>4 DEF ByKey
  <1>7. IsFiniteSet(ByKey(f))
    BY <1>6, FS_EmptySet, FS_Singleton
  <1> DEFINE froms == BySlot(f) \cup ByKey(f)
  <1>8. IsFiniteSet(froms) /\ \A x \in froms : x[1] \in Txs
    <2>1. IsFiniteSet(BySlot(f)) /\ \A x \in BySlot(f) : x[1] \in Txs
      BY <1>2, BySlotFacts
    <2>2. \A x \in ByKey(f) : x[1] \in Txs
      BY <1>5, <1>6
    <2>3. IsFiniteSet(froms)
      BY <1>7, <2>1, FS_Union
    <2> QED
      BY <2>1, <2>2, <2>3
  <1>9. /\ edges \subseteq edges'
        /\ IsFiniteSet(edges') /\ \A e \in edges' : e[1] \in Txs /\ e[2] \in Txs
        /\ \A x \in froms : \E e \in edges' : e[1] = x[1] /\ e[2] = i
        /\ \A e \in edges' : e \in edges \/ (e[2] = i /\ \E x \in froms : e[1] = x[1])
    BY <1>1, <1>2, <1>8, NewEdges
  \* the edges that are new
  <1>10. \A x \in froms : x[1] \in Txs /\ x[1] # i
           /\ \/ slotUsage[f[1]] # 0 /\ x[1] = slotUsage[f[1]]
              \/ users # <<>> /\ x[1] = Last(users)
    BY <1>2, <1>5, <1>6, BySlotFacts
  <1>11. slotUsage[f[1]] # 0 => slotUsage[f[1]] \in Txs /\
           (slotUsage[f[1]] = i \/ \E e \in edges' : e[1] = slotUsage[f[1]] /\ e[2] = i)
    BY <1>2, <1>9, BySlotFacts
  <1>12. users # <<>> =>
           (Last(users) = i \/ \E e \in edges' : e[1] = Last(users) /\ e[2] = i)
    <2>1. users # <<>> /\ Last(users) # i => \E x \in froms : x[1] = Last(users)
      <3>1. users # <<>> /\ Last(users) # i => <<Last(users), f[2], Len(users)>> \in froms
        BY <1>6
      <3> HIDE DEF froms
      <3> QED
        BY <3>1
    <2> HIDE DEF froms
    <2> QED
      BY <1>9, <2>1
  <1>13. noDeps' \/ \E e \in edges' : e[2] = i
    <2>1. CASE noDeps /\ froms = {}
      BY <1>1, <2>1
    <2>2. CASE ~noDeps
      BY <1>9, <2>2 DEF IndInv, Graph, Started
    <2>3. CASE froms # {}
      BY <1>9, <2>3
    <2> QED
      BY <2>1, <2>2, <2>3
  <1> HIDE DEF froms
  \* the lists
  <1>14. /\ dependencies'[f] \in Seq(Txs) /\ dependencies'[f] # <<>>
         /\ Last(dependencies'[f]) = i
         /\ \A n \in DOMAIN dependencies'[f] :
              dependencies'[f][n] = i \/ \E m \in DOMAIN users : dependencies'[f][n] = users[m]
         /\ dependencies' \in [Cells -> Seq(Txs)]
         /\ \A c \in Cells : c # f => dependencies'[c] = dependencies[c]
    <2>1. dependencies \in [Cells -> Seq(Txs)]
      BY DEF IndInv, TypeOK, LinkType
    <2>2. dependencies'[f] = Append(users, i) \/ dependencies'[f] = <<i>>
      BY <1>1, <1>3, <1>4, <2>1
    <2>3. /\ Append(users, i) \in Seq(Txs) /\ Append(users, i) # <<>>
          /\ Last(Append(users, i)) = i
          /\ \A n \in DOMAIN Append(users, i) :
               \/ Append(users, i)[n] = i
               \/ n \in DOMAIN users /\ Append(users, i)[n] = users[n]
      BY <1>2, <1>4 DEF Last
    <2>4. /\ <<i>> \in Seq(Txs) /\ <<i>> # <<>> /\ Last(<<i>>) = i
          /\ \A n \in DOMAIN <<i>> : <<i>>[n] = i
      BY <1>2 DEF Last
    <2>5. \A c \in Cells : c # f => dependencies'[c] = dependencies[c]
      BY <1>1, <2>1
    <2>6. dependencies'[f] \in Seq(Txs)
      BY <2>2, <2>3, <2>4
    <2>7. dependencies' \in [Cells -> Seq(Txs)]
      BY <1>1, <2>1, <2>2, <2>3, <2>4
    <2> QED
      BY <2>2, <2>3, <2>4, <2>5, <2>6, <2>7
  <1>15. LinkType'
    BY <1>1, <1>9, <1>14 DEF IndInv, TypeOK, LinkType
  \* whoever used the key or the whole slot reaches the task
  <1>16. ASSUME NEW j \in Txs, Names(j, f) \/ Names(j, <<f[1], Whole>>)
         PROVE  Reaches(edges', j, i)
    <2>1. CASE Names(j, f)
      <3>1. users # <<>> /\ Reaches(edges', j, Last(users))
        BY <1>3, <1>4, <1>9, <2>1, ReachesFacts DEF IndInv, Graph, Chains
      <3> QED
        BY <1>12, <3>1, ReachesThrough
    <2>2. CASE Names(j, <<f[1], Whole>>)
      <3>1. slotUsage[f[1]] # 0 /\ Reaches(edges', j, slotUsage[f[1]])
        BY <1>3, <1>9, <2>2, ReachesFacts DEF IndInv, Graph, Chains
      <3> QED
        BY <1>11, <3>1, ReachesThrough
    <2> QED
      BY <1>16, <2>1, <2>2
  <1>17. \A k, j \in Txs : Reaches(edges, j, k) => Reaches(edges', j, k)
    BY <1>9, ReachesFacts
  <1>18. Chains'
    <2>1. ASSUME NEW c \in Cells, NEW t \in Txs, NEW n \in DOMAIN dependencies'[c],
                 dependencies'[c][n] = t
          PROVE  Names(t, c)'
      <3>2. c # f => Names(t, c)
        BY <1>14, <2>1 DEF IndInv, Graph, Chains
      <3>3. c = f => t = i \/ Names(t, c)
        BY <1>3, <1>4, <1>14, <2>1 DEF IndInv, Graph, Chains
      <3> QED
        BY <1>2, <3>2, <3>3
    <2>2. ASSUME NEW c \in Cells, NEW j \in Txs, Names(j, c)'
          PROVE  /\ dependencies'[c] # <<>>
                 /\ Reaches(edges', j, Last(dependencies'[c]))
                 /\ j = linkId' => Last(dependencies'[c]) = linkId'
      <3>1. CASE c = f
        <4>1. j = i => Reaches(edges', j, i)
          BY ReachesFacts
        <4> QED
          BY <1>1, <1>2, <1>14, <1>16, <2>2, <3>1, <4>1
      <3>2. CASE c # f
        <4>1. Names(j, c)
          BY <1>2, <2>2, <3>2
        <4>2. /\ dependencies[c] # <<>> /\ Reaches(edges, j, Last(dependencies[c]))
              /\ j = i => Last(dependencies[c]) = i
          BY <4>1 DEF IndInv, Graph, Chains
        <4> QED
          BY <1>1, <1>9, <1>14, <3>2, <4>2, ReachesFacts
      <3> QED
        BY <3>1, <3>2
    <2>3. ASSUME NEW s \in Slots
          PROVE  /\ \A t \in Txs : slotUsage'[s] = t => Names(t, <<s, Whole>>)'
                 /\ \A j \in Txs : Names(j, <<s, Whole>>)' =>
                      slotUsage'[s] # 0 /\ Reaches(edges', j, slotUsage'[s])
      <3>1. <<s, Whole>> # f
        BY <1>1, <1>3
      <3>2. \A j \in Txs : Names(j, <<s, Whole>>)' <=> Names(j, <<s, Whole>>)
        BY <1>2, <3>1
      <3>3. \A j \in Txs : Names(j, <<s, Whole>>) =>
                            slotUsage[s] # 0 /\ Reaches(edges', j, slotUsage[s])
        BY <1>9, ReachesFacts DEF IndInv, Graph, Chains
      <3>4. \A t \in Txs : slotUsage[s] = t => Names(t, <<s, Whole>>)
        BY DEF IndInv, Graph, Chains
      <3> QED
        BY <1>1, <3>2, <3>3, <3>4
    <2> QED
      BY <2>1, <2>2, <2>3 DEF Chains
  <1>19. Ordered'
    <2> SUFFICES ASSUME NEW k \in Txs, NEW j \in Txs, NEW g \in FieldSet, NEW h \in FieldSet,
                        j < k, Names(j, g)', Names(k, h)', Overlap(g, h)
                 PROVE  Reaches(edges', j, k)
      BY DEF Ordered
    <2>1. k <= i
      BY <1>2, NamesFacts, TxsFacts DEF IndInv
    <2>2. j # i /\ Names(j, g)
      BY <1>2, <2>1, TxsFacts
    <2>3. CASE Names(k, h)
      BY <1>17, <2>2, <2>3 DEF IndInv, Graph, Ordered
    <2>4. CASE k = i /\ h = f
      <3>1. g = f \/ g = <<f[1], Whole>>
        BY <1>1, <1>3, <2>4 DEF Overlap, FieldSet
      <3> QED
        BY <1>16, <2>2, <2>4, <3>1
    <2> QED
      BY <1>2, <2>3, <2>4
  <1>20. EdgesSound' /\ OwnEdges'
    <2>1. ASSUME NEW e \in edges', e \notin edges
          PROVE  e[1] < e[2] /\ \E g, h \in FieldSet : Names(e[1], g)' /\ Names(e[2], h)' /\ Overlap(g, h)
      <3>1. PICK t \in Txs : t = e[1] /\ t # i /\ e[2] = i
                  /\ \/ slotUsage[f[1]] # 0 /\ t = slotUsage[f[1]]
                     \/ users # <<>> /\ t = Last(users)
        BY <1>9, <1>10, <2>1
      <3>2. Names(t, f) \/ Names(t, <<f[1], Whole>>)
        BY <1>3, <1>4, <1>5, <3>1 DEF IndInv, Graph, Chains
      <3>3. t < i
        BY <1>2, <3>1, <3>2, NamesFacts, TxsFacts DEF IndInv
      <3>4. Names(i, f)' /\ (Names(t, f)' \/ Names(t, <<f[1], Whole>>)')
        BY <1>2, <3>2
      <3>5. Overlap(f, f) /\ Overlap(<<f[1], Whole>>, f) /\ <<f[1], Whole>> \in FieldSet
        BY <1>3 DEF Overlap, FieldSet
      <3> QED
        BY <1>2, <3>1, <3>3, <3>4, <3>5
    <2>2. ASSUME NEW e \in edges
          PROVE  /\ e[1] # e[2] => /\ e[1] < e[2]
                                   /\ \E g, h \in FieldSet :
                                        Names(e[1], g)' /\ Names(e[2], h)' /\ Overlap(g, h)
                 /\ e[1] = e[2] => OwnEdge(e[1])'
      <3>1. e[1] \in Txs /\ e[2] \in Txs
        BY DEF IndInv, TypeOK, LinkType
      <3> QED
        BY <1>2, <3>1 DEF IndInv, Graph, EdgesSound
    <2>3. \A e \in edges' : e[1] < e[2] => e[1] # e[2]
      <3>1. \A x, y \in Nat : x < y => x # y
        OBVIOUS
      <3> QED
        BY <1>9, <3>1, TxsFacts
    <2>4. EdgesSound'
      BY <2>1, <2>2, <2>3 DEF EdgesSound
    <2>5. OwnEdges'
      BY <1>2, <1>9 DEF IndInv, Graph, OwnEdges
    <2> QED
      BY <2>4, <2>5
  <1>21. Started'
    <2>1. linkPos' # 1 /\ linkId' <= N /\ conflicts'[linkId']
      BY <1>1 DEF IndInv, TypeOK, LinkType, Linking
    <2> QED
      BY <1>1, <1>9, <1>13, <2>1 DEF IndInv, Graph, Started
  <1> QED
    BY <1>1, <1>15, <1>18, <1>19, <1>20, <1>21, FieldRest DEF IndInv, Graph

\* The edges from the users of the keys of a slot.
LEMMA ByKeysFacts ==
  ASSUME IndInv, NEW f \in FieldSet
  PROVE  /\ IsFiniteSet(ByKeys(f))
         /\ \A k \in Keys : \A n \in DOMAIN dependencies[<<f[1], k>>] :
              \E x \in ByKeys(f) : x[1] = dependencies[<<f[1], k>>][n]
         /\ \A x \in ByKeys(f) : \E k \in Keys : \E n \in DOMAIN dependencies[<<f[1], k>>] :
              x[1] = dependencies[<<f[1], k>>][n]
  <1> DEFINE D(k) == dependencies[<<f[1], k>>]
             Of(k) == {<<D(k)[n], k, n>> : n \in DOMAIN D(k)}
             h == [k \in Keys |-> Of(k)]
  <1>1. ByKeys(f) = UNION {h[k] : k \in Keys}
    BY DEF ByKeys
  <1>2. \A k \in Keys : D(k) \in Seq(Txs)
    BY DEF FieldSet, Cells, IndInv, TypeOK, LinkType
  <1>3. ASSUME NEW k \in Keys PROVE IsFiniteSet(Of(k))
    <2> DEFINE g == [n \in DOMAIN D(k) |-> <<D(k)[n], k, n>>]
    <2>1. DOMAIN D(k) = 1 .. Len(D(k)) /\ Len(D(k)) \in Nat
      BY <1>2
    <2>2. IsFiniteSet(DOMAIN D(k))
      BY <2>1, FS_Interval
    <2>3. DOMAIN g = DOMAIN D(k) /\ Of(k) = {g[n] : n \in DOMAIN D(k)}
      OBVIOUS
    <2> HIDE DEF g, Of, D
    <2> QED
      BY <2>2, <2>3, FiniteRange
  <1>4. IsFiniteSet(ByKeys(f))
    <2>1. DOMAIN h = Keys /\ \A k \in Keys : IsFiniteSet(h[k])
      BY <1>3
    <2> HIDE DEF h
    <2> QED
      BY <1>1, <2>1, BatchAssumption, FiniteUnion
  <1>5. ASSUME NEW k \in Keys, NEW n \in DOMAIN D(k)
        PROVE  \E x \in ByKeys(f) : x[1] = D(k)[n]
    <2>1. <<D(k)[n], k, n>> \in Of(k)
      OBVIOUS
    <2>2. <<D(k)[n], k, n>> \in ByKeys(f)
      BY <1>1, <2>1
    <2> QED
      BY <2>2
  <1>6. ASSUME NEW x \in ByKeys(f)
        PROVE  \E k \in Keys : \E n \in DOMAIN D(k) : x[1] = D(k)[n]
    <2>1. PICK k \in Keys : x \in Of(k)
      BY <1>1, <1>6
    <2>2. PICK n \in DOMAIN D(k) : x = <<D(k)[n], k, n>>
      BY <2>1
    <2> QED
      BY <2>2
  <1> QED
    BY <1>4, <1>5, <1>6

\* A field that names the whole slot: it comes after every earlier user of the slot, and
\* after the task itself if that has named one of its keys.
LEMMA WholeFieldStep ==
  ASSUME IndInv, WholeField, NEW i, i = linkId, NEW f, f = FieldsOf(linkId)[linkPos]
  PROVE  IndInv'
  <1>1. /\ Linking /\ linkPos <= Len(FieldsOf(linkId)) /\ f[2] = Whole
        /\ MakeEdges(BySlot(f) \cup ByKeys(f))
        /\ noDeps' = (noDeps /\ BySlot(f) \cup ByKeys(f) = {})
        /\ slotUsage' = [slotUsage EXCEPT ![f[1]] = i]
        /\ linkPos' = linkPos + 1
        /\ UNCHANGED <<inputs, phase, worker, abiCache, conflicts, linkId, dependencies,
                       fromStart, runVars, results>>
    BY DEF WholeField
  <1>2. /\ i \in Txs /\ i \in Nat \ {0} /\ i <= N /\ conflicts[i] /\ f \in FieldSet
        /\ \A j \in Txs : \A g : Names(j, g)' <=> Names(j, g) \/ (j = i /\ g = f)
        /\ \A j \in Txs : OwnEdge(j)' <=>
             OwnEdge(j) \/ (j = i /\ \E k \in Keys : Names(j, <<f[1], k>>))
    BY <1>1, FieldFrame, TxsFacts
  <1>3. f[1] \in Slots /\ f = <<f[1], Whole>> /\ \A k \in Keys : <<f[1], k>> \in Cells
    BY <1>1, <1>2 DEF FieldSet, Cells
  <1>4. \A k \in Keys : dependencies[<<f[1], k>>] \in Seq(Txs)
    BY <1>3 DEF IndInv, TypeOK, LinkType
  <1>5. \A c \in Cells : c # f
    BY <1>1, FieldsAssumption DEF Cells
  <1> DEFINE froms == BySlot(f) \cup ByKeys(f)
  \* the edges that are new
  <1>6. \A x \in froms : x[1] \in Txs
           /\ \/ x[1] # i /\ Names(x[1], f)
              \/ \E k \in Keys : Names(x[1], <<f[1], k>>)
    <2>1. ASSUME NEW x \in BySlot(f) PROVE x[1] \in Txs /\ x[1] # i /\ Names(x[1], f)
      <3>1. x[1] \in Txs /\ x[1] # i /\ x[1] = slotUsage[f[1]]
        BY <1>2, <2>1, BySlotFacts
      <3> QED
        BY <1>3, <3>1 DEF IndInv, Graph, Chains
    <2>2. ASSUME NEW x \in ByKeys(f)
          PROVE  x[1] \in Txs /\ \E k \in Keys : Names(x[1], <<f[1], k>>)
      <3>1. PICK k \in Keys : \E n \in DOMAIN dependencies[<<f[1], k>>] :
                                x[1] = dependencies[<<f[1], k>>][n]
        BY <1>2, <2>2, ByKeysFacts
      <3>2. x[1] \in Txs
        BY <1>4, <3>1
      <3>3. Names(x[1], <<f[1], k>>)
        BY <1>3, <3>1, <3>2 DEF IndInv, Graph, Chains
      <3> QED
        BY <3>2, <3>3
    <2> QED
      BY <2>1, <2>2
  <1>7. IsFiniteSet(froms)
    BY <1>2, BySlotFacts, ByKeysFacts, FS_Union
  <1>8. /\ edges \subseteq edges'
        /\ IsFiniteSet(edges') /\ \A e \in edges' : e[1] \in Txs /\ e[2] \in Txs
        /\ \A x \in froms : \E e \in edges' : e[1] = x[1] /\ e[2] = i
        /\ \A e \in edges' : e \in edges \/ (e[2] = i /\ \E x \in froms : e[1] = x[1])
    BY <1>1, <1>2, <1>6, <1>7, NewEdges
  <1>9. slotUsage[f[1]] # 0 => slotUsage[f[1]] \in Txs /\
          (slotUsage[f[1]] = i \/ \E e \in edges' : e[1] = slotUsage[f[1]] /\ e[2] = i)
    BY <1>2, <1>8, BySlotFacts
  <1>10. ASSUME NEW k \in Keys, dependencies[<<f[1], k>>] # <<>>
         PROVE  \E e \in edges' : e[1] = Last(dependencies[<<f[1], k>>]) /\ e[2] = i
    <2> DEFINE d == dependencies[<<f[1], k>>]
    <2>1. Len(d) \in DOMAIN d /\ Last(d) = d[Len(d)]
      BY <1>4, <1>10 DEF Last
    <2>2. \E x \in froms : x[1] = d[Len(d)]
      BY <1>2, <2>1, ByKeysFacts
    <2> HIDE DEF froms, d
    <2>3. \E e \in edges' : e[1] = Last(d) /\ e[2] = i
      BY <1>8, <2>1, <2>2
    <2> QED
      BY <2>3 DEF d
  <1>11. noDeps' \/ \E e \in edges' : e[2] = linkId
    <2>1. CASE noDeps /\ froms = {}
      BY <1>1, <2>1
    <2>2. CASE ~noDeps
      BY <1>8, <2>2 DEF IndInv, Graph, Started
    <2>3. CASE froms # {}
      BY <1>8, <2>3
    <2> QED
      BY <2>1, <2>2, <2>3
  <1> HIDE DEF froms
  <1>12. /\ slotUsage' \in [Slots -> 0 .. N] /\ slotUsage'[f[1]] = i
         /\ \A s \in Slots : s # f[1] => slotUsage'[s] = slotUsage[s]
    BY <1>1, <1>2, <1>3, BatchAssumption DEF IndInv, TypeOK, LinkType
  <1>13. LinkType'
    BY <1>1, <1>8, <1>12 DEF IndInv, TypeOK, LinkType
  \* whoever used the slot, or a key of it, reaches the task
  <1>14. ASSUME NEW j \in Txs, Names(j, f) \/ \E k \in Keys : Names(j, <<f[1], k>>)
         PROVE  Reaches(edges', j, i)
    <2>1. CASE Names(j, f)
      <3>1. slotUsage[f[1]] # 0 /\ Reaches(edges', j, slotUsage[f[1]])
        <4>1. Names(j, <<f[1], Whole>>)
          BY <1>3, <2>1
        <4>2. slotUsage[f[1]] # 0 /\ Reaches(edges, j, slotUsage[f[1]])
          BY <1>3, <4>1 DEF IndInv, Graph, Chains
        <4> QED
          BY <1>8, <4>2, ReachesFacts
      <3> QED
        BY <1>9, <3>1, ReachesThrough
    <2>2. ASSUME NEW k \in Keys, Names(j, <<f[1], k>>) PROVE Reaches(edges', j, i)
      <3> DEFINE d == dependencies[<<f[1], k>>]
      <3>1. d # <<>> /\ Reaches(edges', j, Last(d))
        BY <1>3, <1>8, <2>2, ReachesFacts DEF IndInv, Graph, Chains
      <3>2. PICK e \in edges' : e[1] = Last(d) /\ e[2] = i
        BY <1>10, <3>1
      <3> QED
        BY <3>1, <3>2, ReachesThrough
    <2> QED
      BY <1>14, <2>1, <2>2
  <1>15. \A k, j \in Txs : Reaches(edges, j, k) => Reaches(edges', j, k)
    BY <1>8, ReachesFacts
  <1>16. Chains'
    <2>1. ASSUME NEW c \in Cells
          PROVE  /\ \A t \in Txs : (\E n \in DOMAIN dependencies'[c] : dependencies'[c][n] = t)
                                     => Names(t, c)'
                 /\ \A j \in Txs : Names(j, c)' =>
                      /\ dependencies'[c] # <<>>
                      /\ Reaches(edges', j, Last(dependencies'[c]))
                      /\ j = linkId' => Last(dependencies'[c]) = linkId'
      <3>1. \A j \in Txs : Names(j, c)' <=> Names(j, c)
        BY <1>2, <1>5, <2>1
      <3>2. \A j \in Txs : Names(j, c) => Reaches(edges', j, Last(dependencies[c]))
        BY <1>8, <2>1, ReachesFacts DEF IndInv, Graph, Chains
      <3> QED
        BY <1>1, <2>1, <3>1, <3>2 DEF IndInv, Graph, Chains
    <2>2. ASSUME NEW s \in Slots
          PROVE  /\ \A t \in Txs : slotUsage'[s] = t => Names(t, <<s, Whole>>)'
                 /\ \A j \in Txs : Names(j, <<s, Whole>>)' =>
                      slotUsage'[s] # 0 /\ Reaches(edges', j, slotUsage'[s])
      <3>1. CASE s = f[1]
        <4>1. <<s, Whole>> = f
          BY <1>3, <3>1
        <4>2. Reaches(edges', i, i)
          BY ReachesFacts
        <4>3. Names(i, <<s, Whole>>)'
          BY <1>2, <4>1
        <4>4. \A j \in Txs : Names(j, <<s, Whole>>)' => j = i \/ Names(j, f)
          BY <1>2, <4>1
        <4>5. slotUsage'[s] = i /\ i # 0
          BY <1>2, <1>12, <3>1
        <4> QED
          BY <1>14, <4>2, <4>3, <4>4, <4>5
      <3>2. CASE s # f[1]
        <4>1. <<s, Whole>> # f
          BY <1>3, <3>2
        <4>2. \A j \in Txs : Names(j, <<s, Whole>>)' <=> Names(j, <<s, Whole>>)
          BY <1>2, <4>1
        <4>3. \A j \in Txs : Names(j, <<s, Whole>>) =>
                              slotUsage[s] # 0 /\ Reaches(edges', j, slotUsage[s])
          BY <1>8, ReachesFacts DEF IndInv, Graph, Chains
        <4>4. \A t \in Txs : slotUsage[s] = t => Names(t, <<s, Whole>>)
          BY DEF IndInv, Graph, Chains
        <4> QED
          BY <1>12, <3>2, <4>2, <4>3, <4>4
      <3> QED
        BY <3>1, <3>2
    <2> QED
      BY <2>1, <2>2 DEF Chains
  <1>17. Ordered'
    <2> SUFFICES ASSUME NEW k \in Txs, NEW j \in Txs, NEW g \in FieldSet, NEW h \in FieldSet,
                        j < k, Names(j, g)', Names(k, h)', Overlap(g, h)
                 PROVE  Reaches(edges', j, k)
      BY DEF Ordered
    <2>1. k <= i
      BY <1>2, NamesFacts, TxsFacts DEF IndInv
    <2>2. j # i /\ Names(j, g)
      <3>1. j \in Nat /\ k \in Nat
        BY TxsFacts
      <3>2. j # i
        BY <1>2, <2>1, <3>1
      <3> QED
        BY <1>2, <3>2
    <2>3. CASE Names(k, h)
      BY <1>15, <2>2, <2>3 DEF IndInv, Graph, Ordered
    <2>4. CASE k = i /\ h = f
      <3>1. g = f \/ \E key \in Keys : g = <<f[1], key>>
        BY <1>1, <1>3, <2>4 DEF Overlap, FieldSet
      <3> QED
        BY <1>14, <2>2, <2>4, <3>1
    <2> QED
      BY <1>2, <2>3, <2>4
  <1>18. EdgesSound'
    <2>1. ASSUME NEW e \in edges', e \notin edges
          PROVE  /\ e[1] # e[2] => /\ e[1] < e[2]
                                   /\ \E g, h \in FieldSet :
                                        Names(e[1], g)' /\ Names(e[2], h)' /\ Overlap(g, h)
                 /\ e[1] = e[2] => OwnEdge(e[1])'
      <3>1. PICK t \in Txs : t = e[1] /\ e[2] = i
                  /\ \/ t # i /\ Names(t, f)
                     \/ \E k \in Keys : Names(t, <<f[1], k>>)
        BY <1>6, <1>8, <2>1
      <3>2. t = i => OwnEdge(t)'
        BY <1>2, <3>1
      <3>3. PICK g \in FieldSet : Names(t, g) /\ Overlap(g, f)
        <4>1. \A k \in Keys : Overlap(<<f[1], k>>, f) /\ <<f[1], k>> \in FieldSet
          BY <1>1, <1>3 DEF Overlap, FieldSet
        <4>2. Overlap(f, f)
          BY DEF Overlap
        <4>3. CASE Names(t, f)
          BY <1>2, <4>2, <4>3
        <4>4. CASE \E k \in Keys : Names(t, <<f[1], k>>)
          BY <4>1, <4>4
        <4> QED
          BY <3>1, <4>3, <4>4
      <3>4. t # i => t < i
        BY <1>2, <3>3, NamesFacts, TxsFacts DEF IndInv
      <3>5. Names(t, g)' /\ Names(i, f)'
        BY <1>2, <3>3
      <3> QED
        BY <1>2, <3>1, <3>2, <3>3, <3>4, <3>5
    <2>2. ASSUME NEW e \in edges
          PROVE  /\ e[1] # e[2] => /\ e[1] < e[2]
                                   /\ \E g, h \in FieldSet :
                                        Names(e[1], g)' /\ Names(e[2], h)' /\ Overlap(g, h)
                 /\ e[1] = e[2] => OwnEdge(e[1])'
      <3>1. e[1] \in Txs /\ e[2] \in Txs
        BY DEF IndInv, TypeOK, LinkType
      <3> QED
        BY <1>2, <3>1 DEF IndInv, Graph, EdgesSound
    <2> QED
      BY <2>1, <2>2 DEF EdgesSound
  <1>19. OwnEdges'
    <2> SUFFICES ASSUME NEW j \in Txs, OwnEdge(j)' PROVE \E e \in edges' : e[1] = j /\ e[2] = j
      BY DEF OwnEdges
    <2>1. CASE OwnEdge(j)
      BY <1>8, <2>1 DEF IndInv, Graph, OwnEdges
    <2>2. CASE ~OwnEdge(j)
      <3>1. PICK k \in Keys : j = i /\ Names(i, <<f[1], k>>)
        BY <1>2, <2>2
      <3>2. dependencies[<<f[1], k>>] # <<>> /\ Last(dependencies[<<f[1], k>>]) = i
        BY <1>2, <1>3, <3>1 DEF IndInv, Graph, Chains
      <3> QED
        BY <1>10, <3>1, <3>2
    <2> QED
      BY <2>1, <2>2
  <1>20. Started'
    <2>1. linkPos' # 1 /\ linkId' <= N /\ conflicts'[linkId']
      BY <1>1 DEF IndInv, TypeOK, LinkType, Linking
    <2> QED
      BY <1>1, <1>8, <1>11, <2>1 DEF IndInv, Graph, Started
  <1> QED
    BY <1>1, <1>13, <1>16, <1>17, <1>18, <1>19, <1>20, FieldRest DEF IndInv, Graph

-----------------------------------------------------------------------------
(* The flow graph.                                                          *)

\* Once the graph runs every field of every task has been linked.
LEMMA AllLinked ==
  ASSUME IndInv, phase \in {"run", "called"}, NEW i \in Txs
  PROVE  /\ conflicts[i] <=> Analysable(inputs[i])
         /\ inputs[i] \in Calls
         /\ conflicts[i] => \A n \in DOMAIN Declared(inputs[i]) :
                              Names(i, decodeConflictFields(inputs[i])[n])
         /\ conflicts[i] => (OwnEdge(i) <=> NamesKeyThenSlot(i))
         /\ conflicts[i] => i \in fromStart \/ \E e \in edges : e[2] = i
  <1>1. /\ TypeOK /\ Collected /\ linkId = N + 1 /\ worker[i] = "done" /\ i < linkId
        /\ inputs[i] \in Calls
    BY BatchAssumption, TxsFacts DEF IndInv, Phases, Collected, TypeOK, CollectType
  <1>2. conflicts[i] <=> Analysable(inputs[i])
    BY <1>1 DEF Collected
  <1>3. conflicts[i] => \A n \in DOMAIN Declared(inputs[i]) : n \in Nat /\ Done(i, n)
    BY <1>1, <1>2, DecodedFields DEF Done
  <1>4. conflicts[i] => \A n \in DOMAIN Declared(inputs[i]) :
                          Names(i, decodeConflictFields(inputs[i])[n])
    BY <1>3 DEF Names, FieldsOf
  <1>5. DOMAIN FieldsOf(i) = DOMAIN Declared(inputs[i])
    BY DEF FieldsOf, decodeConflictFields
  <1>6. \A n : Done(i, n) => n \in DOMAIN Declared(inputs[i])
    BY DEF Done
  <1>7. conflicts[i] => (OwnEdge(i) <=> NamesKeyThenSlot(i))
    BY <1>3, <1>5, <1>6 DEF OwnEdge, NamesKeyThenSlot
  <1>8. conflicts[i] => i \in fromStart \/ \E e \in edges : e[2] = i
    BY <1>1 DEF IndInv, Graph, Started
  <1> QED
    BY <1>1, <1>2, <1>4, <1>7, <1>8

\* Transactions that touch a common cell are in block order, by a chain of edges.
LEMMA ConflictReaches ==
  ASSUME IndInv, phase \in {"run", "called"}, NEW i \in Txs, NEW j \in Txs, j < i,
         Touches(i) \cap Touches(j) # {}
  PROVE  conflicts[i] /\ conflicts[j] /\ Reaches(edges, j, i)
  <1>1. inputs[i] \in Calls /\ inputs[j] \in Calls
    BY AllLinked
  <1>2. Analysable(inputs[j]) /\ Analysable(inputs[i])
    BY <1>1, CommonCell DEF Touches
  <1>3. PICK n \in DOMAIN Declared(inputs[i]), m \in DOMAIN Declared(inputs[j]) :
          Overlap(decodeConflictFields(inputs[i])[n], decodeConflictFields(inputs[j])[m])
    BY <1>1, CommonCell DEF Touches
  <1>4. PICK f \in FieldSet : f = decodeConflictFields(inputs[i])[n]
    BY <1>1, <1>2, DecodedFields
  <1>5. PICK g \in FieldSet : g = decodeConflictFields(inputs[j])[m]
    BY <1>1, <1>2, DecodedFields
  <1>6. conflicts[i] /\ conflicts[j]
    BY <1>2, AllLinked
  <1>7. Names(i, f) /\ Names(j, g)
    BY <1>4, <1>5, <1>6, AllLinked
  <1>8. Overlap(g, f)
    BY <1>3, <1>4, <1>5 DEF Overlap
  <1> QED
    BY <1>6, <1>7, <1>8 DEF IndInv, Graph, Ordered

\* The tasks that have ended contain all their predecessors, so a task starts only when
\* every earlier task it conflicts with has ended.
LEMMA EndedFirst ==
  ASSUME IndInv, NEW i \in Txs, status[i] # "idle", NEW j \in Txs, j < i,
         Touches(i) \cap Touches(j) # {}
  PROVE  status[j] = "ended"
  <1> DEFINE D == {k \in Txs : status[k] = "ended"} \cup {i}
  <1>1. phase \in {"run", "called"}
    BY DEF IndInv, Phases, TypeOK, CollectType
  <1>2. Reaches(edges, j, i)
    BY <1>1, ConflictReaches
  <1>3. Closed(edges, D)
    <2> SUFFICES ASSUME NEW e \in edges, e[2] \in D PROVE e[1] \in D
      BY DEF Closed
    <2>1. e[1] \in Txs /\ e[2] \in Txs /\ status[e[2]] # "idle"
      BY DEF IndInv, TypeOK, LinkType
    <2> QED
      BY <2>1 DEF IndInv, Running
  <1>4. j \in D
    BY <1>2, <1>3 DEF Reaches
  <1>5. j # i
    BY TxsFacts
  <1> QED
    BY <1>4, <1>5

\* start.try_put.
LEMMA PutStep ==
  ASSUME IndInv, Put
  PROVE  IndInv'
  <1>1. /\ TypeOK /\ Collected /\ Phases /\ Graph /\ Running
        /\ phase = "link" /\ linkId > N /\ phase' = "run"
        /\ received' = [i \in Txs |-> IF i \in fromStart THEN 1 ELSE 0]
        /\ UNCHANGED <<inputs, worker, abiCache, conflicts, linkVars, status, cell,
                       read, results>>
    BY DEF IndInv, Put
  <1>2. TypeOK'
    BY <1>1 DEF TypeOK, CollectType, LinkType, RunType, linkVars
  <1>3. Collected'
    BY <1>1 DEF Collected
  <1>4. Phases'
    BY <1>1, BatchAssumption DEF Phases, linkVars, TypeOK, LinkType
  <1>5. Graph'
    BY <1>1, SameGraph
  <1>6. \A i \in Txs : status'[i] = "idle"
    BY <1>1 DEF Phases
  <1>7. ASSUME NEW i \in Txs
        PROVE  received'[i] = Cardinality({e \in edges' : e[2] = i /\ status'[e[1]] = "ended"})
                              + (IF i \in fromStart' THEN 1 ELSE 0)
    <2>1. \A e \in edges' : e[1] \in Txs
      BY <1>2 DEF TypeOK, LinkType
    <2>2. {e \in edges' : e[2] = i /\ status'[e[1]] = "ended"} = {}
      BY <1>6, <2>1
    <2>3. fromStart' = fromStart
      BY <1>1 DEF linkVars
    <2> QED
      BY <1>1, <2>2, <2>3, FS_EmptySet
  <1>8. Running'
    BY <1>6, <1>7 DEF Running
  <1> QED
    BY <1>2, <1>3, <1>4, <1>5, <1>8 DEF IndInv

\* A task fires when the messages of all its predecessors have come.
LEMMA BeginStep ==
  ASSUME IndInv, NEW i \in Txs, Begin(i)
  PROVE  IndInv'
  <1>1. /\ TypeOK /\ Collected /\ Phases /\ Graph /\ Running
        /\ phase = "run" /\ conflicts[i] /\ status[i] = "idle" /\ received[i] = Predecessors(i)
        /\ status' = [status EXCEPT ![i] = "running"]
        /\ read' = [read EXCEPT ![i] = Snapshot(i)]
        /\ UNCHANGED <<inputs, phase, worker, abiCache, conflicts, linkVars, received,
                       cell, results>>
    BY DEF IndInv, Begin, Fires, Snapshot
  <1>2. Snapshot(i) \in [Cells -> 0 .. N]
    BY <1>1, BatchAssumption DEF Snapshot, TypeOK, RunType
  <1>3. /\ status' \in [Txs -> {"idle", "running", "ended"}] /\ status'[i] = "running"
        /\ \A k \in Txs : k # i => status'[k] = status[k]
        /\ \A k \in Txs : status'[k] = "ended" <=> status[k] = "ended"
    BY <1>1 DEF TypeOK, RunType
  <1>4. /\ read' \in [Txs -> [Cells -> 0 .. N]] /\ read'[i] = Snapshot(i)
        /\ \A k \in Txs : k # i => read'[k] = read[k]
    BY <1>1, <1>2 DEF TypeOK, RunType
  <1>5. TypeOK'
    BY <1>1, <1>3, <1>4 DEF TypeOK, CollectType, LinkType, RunType, linkVars
  <1>6. Collected' /\ Phases'
    BY <1>1, <1>3 DEF Collected, Phases, linkVars
  <1>7. Graph'
    BY <1>1, SameGraph
  <1>8. edges' = edges /\ fromStart' = fromStart /\ \A e \in edges : e[1] \in Txs /\ e[2] \in Txs
    BY <1>1 DEF linkVars, TypeOK, LinkType
  <1>9. \A e \in edges : e[2] = i => status[e[1]] = "ended"
    <2> DEFINE A == {e \in edges : e[2] = i}
               B == {e \in edges : e[2] = i /\ status[e[1]] = "ended"}
    <2>1. IsFiniteSet(edges)
      BY <1>1 DEF TypeOK, LinkType
    <2>2. IsFiniteSet(A) /\ IsFiniteSet(B) /\ B \in SUBSET A
      BY <2>1, FS_Subset
    <2>3. Cardinality(A) \in Nat /\ Cardinality(B) \in Nat
      BY <2>2, FS_CardinalityType
    <2>4. Cardinality(A) + (IF i \in fromStart THEN 1 ELSE 0)
          = Cardinality(B) + (IF i \in fromStart THEN 1 ELSE 0)
      BY <1>1 DEF Running, Predecessors
    <2>5. Cardinality(A) = Cardinality(B)
      <3> HIDE DEF A, B
      <3> QED
        BY <2>3, <2>4
    <2>6. A = B
      <3> HIDE DEF A, B
      <3> QED
        BY <2>2, <2>5, FS_Subset
    <2> QED
      BY <2>6
  <1>10. \A k \in Txs : Snapshot(k)' = Snapshot(k)
    BY <1>1 DEF Snapshot, Touches
  <1>11. Running'
    <2> SUFFICES ASSUME NEW k \in Txs
                 PROVE  /\ received'[k] = Cardinality({e \in edges' : e[2] = k /\ status'[e[1]] = "ended"})
                                          + (IF k \in fromStart' THEN 1 ELSE 0)
                        /\ status'[k] # "idle" => conflicts'[k] /\ \A e \in edges' : e[2] = k =>
                                                    e[1] # k /\ status'[e[1]] = "ended"
                        /\ status'[k] = "running" => read'[k] = Snapshot(k)'
      BY DEF Running
    <2>1. {e \in edges' : e[2] = k /\ status'[e[1]] = "ended"}
          = {e \in edges : e[2] = k /\ status[e[1]] = "ended"}
      BY <1>3, <1>8
    <2>2. received'[k] = Cardinality({e \in edges' : e[2] = k /\ status'[e[1]] = "ended"})
                         + (IF k \in fromStart' THEN 1 ELSE 0)
      BY <1>1, <1>8, <2>1 DEF Running
    <2>3. status'[k] # "idle" => conflicts'[k] /\ \A e \in edges' : e[2] = k =>
                                   e[1] # k /\ status'[e[1]] = "ended"
      <3>1. CASE k = i
        BY <1>1, <1>3, <1>8, <1>9, <3>1
      <3>2. CASE k # i
        BY <1>1, <1>3, <1>8, <3>2 DEF Running
      <3> QED
        BY <3>1, <3>2
    <2>4. status'[k] = "running" => read'[k] = Snapshot(k)'
      <3>1. CASE k = i
        BY <1>4, <1>10, <3>1
      <3>2. CASE k # i
        <4>1. status[k] = "running" => read[k] = Snapshot(k)
          BY <1>1 DEF Running
        <4>2. status'[k] = status[k] /\ read'[k] = read[k]
          BY <1>3, <1>4, <3>2
        <4> QED
          BY <1>10, <4>1, <4>2
      <3> QED
        BY <3>1, <3>2
    <2> QED
      BY <2>2, <2>3, <2>4
  <1> QED
    BY <1>5, <1>6, <1>7, <1>11 DEF IndInv

\* A task ends: no task that runs beside it touches a cell it wrote.
LEMMA EndStep ==
  ASSUME IndInv, NEW i \in Txs, NEW ok \in BOOLEAN, End(i, ok)
  PROVE  IndInv'
  <1>1. /\ TypeOK /\ Collected /\ Phases /\ Graph /\ Running
        /\ phase = "run" /\ status[i] = "running"
        /\ status' = [status EXCEPT ![i] = "ended"]
        /\ cell' = IF ok THEN [c \in Cells |-> IF c \in Touches(i) THEN i ELSE cell[c]] ELSE cell
        /\ results' = [results EXCEPT ![i] = IF ok THEN "output" ELSE "revert"]
        /\ received' = [j \in Txs |-> Received(i, j)]
        /\ UNCHANGED <<inputs, phase, worker, abiCache, conflicts, linkVars, read>>
    BY DEF IndInv, End
  <1>2. conflicts[i] /\ i \in 0 .. N
    <2>1. conflicts[i]
      BY <1>1 DEF Running
    <2> QED
      BY <2>1, BatchAssumption DEF Txs
  <1>3. /\ status' \in [Txs -> {"idle", "running", "ended"}] /\ status'[i] = "ended"
        /\ \A k \in Txs : k # i => status'[k] = status[k]
    BY <1>1 DEF TypeOK, RunType
  <1>4. cell' \in [Cells -> 0 .. N] /\ \A c \in Cells : c \notin Touches(i) => cell'[c] = cell[c]
    BY <1>1, <1>2 DEF TypeOK, RunType
  <1>5. edges' = edges /\ fromStart' = fromStart /\ IsFiniteSet(edges)
        /\ \A e \in edges : e[1] \in Txs /\ e[2] \in Txs
    BY <1>1 DEF linkVars, TypeOK, LinkType
  <1>6. ASSUME NEW k \in Txs
        PROVE  /\ received'[k] \in Nat
               /\ received'[k] = Cardinality({e \in edges' : e[2] = k /\ status'[e[1]] = "ended"})
                                 + (IF k \in fromStart' THEN 1 ELSE 0)
    <2> DEFINE A == {e \in edges : e[2] = k /\ status[e[1]] = "ended"}
               B == {e \in edges : e[1] = i /\ e[2] = k}
               C == {e \in edges' : e[2] = k /\ status'[e[1]] = "ended"}
               st == IF k \in fromStart THEN 1 ELSE 0
    <2>1. C = A \cup B /\ A \cap B = {}
      BY <1>1, <1>3, <1>5
    <2>2. IsFiniteSet(A) /\ IsFiniteSet(B)
      BY <1>5, FS_Subset
    <2>3. received[k] = Cardinality(A) + st
      BY <1>1 DEF Running
    <2>4. received'[k] = received[k] + Cardinality(B)
      BY <1>1 DEF Received
    <2>5. st \in Nat /\ fromStart' = fromStart
      BY <1>5
    <2> HIDE DEF A, B, C, st
    <2>6. Cardinality(C) = Cardinality(A) + Cardinality(B)
          /\ Cardinality(A) \in Nat /\ Cardinality(B) \in Nat
      <3>1. Cardinality(A) \in Nat /\ Cardinality(B) \in Nat
        BY <2>2, FS_CardinalityType
      <3>2. Cardinality(A \cup B) = Cardinality(A) + Cardinality(B) - Cardinality(A \cap B)
        BY <2>2, FS_Union
      <3>3. Cardinality(A \cap B) = 0
        BY <2>1, FS_EmptySet
      <3> QED
        BY <2>1, <3>1, <3>2, <3>3
    <2>7. received'[k] = Cardinality(C) + st /\ received'[k] \in Nat
      BY <2>3, <2>4, <2>5, <2>6
    <2> QED
      BY <2>5, <2>7 DEF C, st
  <1>7. received' \in [Txs -> Nat]
    BY <1>1, <1>6
  <1>8. TypeOK'
    BY <1>1, <1>3, <1>4, <1>7 DEF TypeOK, CollectType, LinkType, RunType, linkVars
  <1>9. Collected'
    <2>1. worker[i] = "done"
      BY <1>1 DEF Collected
    <2>2. results'[i] \in {"output", "revert"} /\ \A k \in Txs : k # i => results'[k] = results[k]
      BY <1>1 DEF TypeOK, RunType
    <2> QED
      BY <1>1, <1>2, <1>3, <2>1, <2>2 DEF Collected
  <1>10. Phases'
    BY <1>1 DEF Phases, linkVars
  <1>11. Graph'
    BY <1>1, SameGraph
  <1>12. ASSUME NEW k \in Txs, status[k] = "running", k # i
         PROVE  Snapshot(k)' = Snapshot(k)
    <2>1. k \in Nat /\ i \in Nat
      BY TxsFacts
    <2>2. Touches(k) \cap Touches(i) = {}
      <3>1. CASE k < i
        BY <1>1, <1>12, <3>1, EndedFirst
      <3>2. CASE i < k
        BY <1>1, <1>12, <3>2, EndedFirst
      <3> QED
        BY <1>12, <2>1, <3>1, <3>2
    <2>3. Touches(k)' = Touches(k)
      BY <1>1 DEF Touches
    <2> QED
      BY <1>4, <2>2, <2>3 DEF Snapshot
  <1>13. Running'
    <2> SUFFICES ASSUME NEW k \in Txs
                 PROVE  /\ status'[k] # "idle" => conflicts'[k] /\ \A e \in edges' : e[2] = k =>
                                                    e[1] # k /\ status'[e[1]] = "ended"
                        /\ status'[k] = "running" => read'[k] = Snapshot(k)'
      BY <1>6 DEF Running
    <2>1. status'[k] # "idle" => conflicts'[k] /\ \A e \in edges' : e[2] = k =>
                                   e[1] # k /\ status'[e[1]] = "ended"
      BY <1>1, <1>3, <1>5 DEF Running
    <2>2. status'[k] = "running" => read'[k] = Snapshot(k)'
      BY <1>1, <1>3, <1>12 DEF Running
    <2> QED
      BY <2>1, <2>2
  <1> QED
    BY <1>8, <1>9, <1>10, <1>11, <1>13 DEF IndInv

\* wait_for_all returns, or nothing happens.
LEMMA QuietStep ==
  ASSUME IndInv, Callback \/ UNCHANGED vars
  PROVE  IndInv'
  <1>1. /\ TypeOK /\ Collected /\ Phases /\ Graph /\ Running
        /\ \/ phase' = phase
           \/ phase = "run" /\ phase' = "called"
        /\ UNCHANGED <<inputs, worker, abiCache, conflicts, linkVars, runVars, results>>
    BY DEF IndInv, Callback, vars
  <1>2. TypeOK'
    BY <1>1 DEF TypeOK, CollectType, LinkType, RunType, linkVars, runVars
  <1>3. Collected'
    <2>1. status' = status
      BY <1>1 DEF runVars
    <2> QED
      BY <1>1, <2>1 DEF Collected
  <1>4. Phases'
    <2>1. status' = status /\ linkId' = linkId /\ linkPos' = linkPos
      BY <1>1 DEF runVars, linkVars
    <2> QED
      BY <1>1, <2>1 DEF Phases
  <1>5. Graph'
    BY <1>1, SameGraph
  <1>6. phase \in {"run", "called"} \/ phase' \in {"collect", "link"}
    BY <1>1 DEF TypeOK, CollectType
  <1>7. Running'
    BY <1>1, <1>6, SameRun DEF linkVars
  <1> QED
    BY <1>2, <1>3, <1>4, <1>5, <1>7 DEF IndInv

\* Every step keeps the invariant.
LEMMA StepInv == IndInv /\ [Next]_vars => IndInv'
  <1> SUFFICES ASSUME IndInv, [Next]_vars PROVE IndInv'
    OBVIOUS
  <1>1. CASE EndCollect
    BY <1>1, EndCollectStep
  <1>2. CASE KeyField
    <2>1. PICK i, f : i = linkId /\ f = FieldsOf(linkId)[linkPos]
      OBVIOUS
    <2> QED
      BY <1>2, <2>1, KeyFieldStep
  <1>3. CASE WholeField
    <2>1. PICK i, f : i = linkId /\ f = FieldsOf(linkId)[linkPos]
      OBVIOUS
    <2> QED
      BY <1>3, <2>1, WholeFieldStep
  <1>4. CASE EndTask \/ SkipTask
    BY <1>4, NextTaskStep
  <1>5. CASE Put
    BY <1>5, PutStep
  <1>6. CASE Callback \/ UNCHANGED vars
    BY <1>6, QuietStep
  <1>7. ASSUME NEW i \in Txs, Work(i) PROVE IndInv'
    <2>1. CASE Lookup(i)
      BY <2>1, CollectStep
    <2>2. ASSUME NEW fits \in BOOLEAN, Load(i, fits) PROVE IndInv'
      BY <2>2, CollectStep
    <2>3. CASE Begin(i)
      BY <2>3, BeginStep
    <2>4. ASSUME NEW ok \in BOOLEAN, End(i, ok) PROVE IndInv'
      BY <2>4, EndStep
    <2> QED
      BY <1>7, <2>1, <2>2, <2>3, <2>4 DEF Work
  <1> QED
    BY <1>1, <1>2, <1>3, <1>4, <1>5, <1>6, <1>7 DEF Next, Link

(* The linking loop and the flow graph keep the invariant: two tasks that  *)
(* touch a common cell are in block order through edges, and a task that   *)
(* has started has no predecessor left.                                    *)
THEOREM Invariance == Spec => []IndInv
  BY InitInv, StepInv, PTL DEF Spec

-----------------------------------------------------------------------------
(* Who is left unanswered.                                                  *)

\* When wait_for_all has returned no task runs and none can fire.
Quiet ==
  phase = "called" =>
    \A i \in Txs : /\ status[i] # "running"
                   /\ conflicts[i] /\ status[i] = "idle" =>
                        received[i] = 0 \/ received[i] # Predecessors(i)

\* The callback is called only when nothing can happen any more.
LEMMA StepQuiet == IndInv /\ Quiet /\ [Next]_vars => Quiet'
  <1> SUFFICES ASSUME IndInv, Quiet, [Next]_vars PROVE Quiet'
    OBVIOUS
  <1>1. CASE Callback
    <2>1. /\ phase = "run" /\ \A i \in Txs : ~Fires(i) /\ status[i] # "running"
          /\ UNCHANGED <<conflicts, status, received>>
      BY <1>1 DEF Callback, runVars
    <2>2. \A i : Predecessors(i)' = Predecessors(i)
      BY <1>1 DEF Callback, linkVars, Predecessors
    <2>3. \A i \in Txs : received[i] \in Nat
      BY DEF IndInv, TypeOK, RunType
    <2> QED
      BY <2>1, <2>2, <2>3 DEF Quiet, Fires
  <1>2. CASE UNCHANGED vars
    <2>1. \A i : Predecessors(i)' = Predecessors(i)
      BY <1>2 DEF vars, linkVars, Predecessors
    <2> QED
      BY <1>2, <2>1 DEF vars, runVars, Quiet
  <1>3. CASE EndCollect \/ Link \/ \E i \in Txs : Work(i)
    <2>1. phase' # "called"
      <3>1. CASE EndCollect
        BY <3>1 DEF EndCollect
      <3>2. CASE Link
        BY <3>2 DEF Link, KeyField, WholeField, EndTask, SkipTask, Put, Linking
      <3>3. ASSUME NEW i \in Txs, Work(i) PROVE phase' # "called"
        BY <3>3 DEF Work, Lookup, Load, Begin, End, Fires
      <3> QED
        BY <1>3, <3>1, <3>2, <3>3
    <2> QED
      BY <2>1 DEF Quiet
  <1> QED
    BY <1>1, <1>2, <1>3 DEF Next

\* A task that has not ended waits for a predecessor that has not.
LEMMA WaitsForOne ==
  ASSUME IndInv, Quiet, phase = "called", NEW i \in Txs, conflicts[i], status[i] # "ended"
  PROVE  \E e \in edges : e[2] = i /\ status[e[1]] # "ended"
  <1> DEFINE A == {e \in edges : e[2] = i}
             B == {e \in edges : e[2] = i /\ status[e[1]] = "ended"}
             st == IF i \in fromStart THEN 1 ELSE 0
  <1> SUFFICES ASSUME A = B PROVE FALSE
    OBVIOUS
  <1>1. status[i] = "idle" /\ (received[i] = 0 \/ received[i] # Predecessors(i))
    BY DEF Quiet, IndInv, TypeOK, RunType
  <1>2. received[i] = Cardinality(B) + st /\ Predecessors(i) = Cardinality(A) + st
    BY DEF IndInv, Running, Predecessors
  <1>3. i \in fromStart \/ A # {}
    BY AllLinked
  <1>4. IsFiniteSet(A)
    BY FS_Subset DEF IndInv, TypeOK, LinkType
  <1> HIDE DEF A, B
  <1>5. Cardinality(A) \in Nat /\ (A # {} => Cardinality(A) # 0)
    BY <1>4, FS_CardinalityType, FS_EmptySet
  <1> QED
    BY <1>1, <1>2, <1>3, <1>5

\* Predecessors of a task other than itself touch one of its cells.
LEMMA EdgeTouches ==
  ASSUME IndInv, phase \in {"run", "called"}, NEW e \in edges, e[1] # e[2]
  PROVE  /\ e[1] \in Txs /\ e[2] \in Txs /\ e[1] < e[2] /\ conflicts[e[1]]
         /\ Touches(e[2]) \cap Touches(e[1]) # {}
  <1>1. e[1] \in Txs /\ e[2] \in Txs
    BY DEF IndInv, TypeOK, LinkType
  <1>2. PICK j \in Txs, i \in Txs : j = e[1] /\ i = e[2]
    BY <1>1
  <1>3. PICK f \in FieldSet, g \in FieldSet :
          j < i /\ Names(j, f) /\ Names(i, g) /\ Overlap(f, g)
    BY <1>2 DEF IndInv, Graph, EdgesSound
  <1>4. /\ conflicts[j] /\ \E m \in DOMAIN Declared(inputs[j]) : decodeConflictFields(inputs[j])[m] = f
        /\ conflicts[i] /\ \E n \in DOMAIN Declared(inputs[i]) : decodeConflictFields(inputs[i])[n] = g
    BY <1>3 DEF Names, Done, FieldsOf
  <1>5. /\ inputs[i] \in Calls /\ inputs[j] \in Calls
        /\ Analysable(inputs[i]) /\ Analysable(inputs[j])
    BY <1>4, AllLinked
  <1>6. Overlap(g, f)
    BY <1>3 DEF Overlap
  <1>7. TouchedBy[inputs[i]] \cap TouchedBy[inputs[j]] # {}
    BY <1>4, <1>5, <1>6, CommonCell
  <1> QED
    BY <1>2, <1>3, <1>4, <1>7 DEF Touches

\* The tasks that have not ended are exactly those behind a task with an edge to itself.
LEMMA UnansweredAreLost == IndInv /\ Quiet => UnansweredOnlyBehindOwnEdge
  <1> SUFFICES ASSUME IndInv, Quiet, phase = "called", NEW i \in Txs
               PROVE  results[i] = "default" <=> i \in Lost
    BY DEF UnansweredOnlyBehindOwnEdge
  <1> DEFINE U == {k \in Txs : conflicts[k] /\ status[k] # "ended"}
  <1>1. results[i] = "default" <=> i \in U
    BY DEF IndInv, Collected
  <1>2. Stuck(U)
    <2> SUFFICES ASSUME NEW k \in Txs, conflicts[k]
                 PROVE  /\ NamesKeyThenSlot(k) => k \in U
                        /\ \A j \in U : j < k /\ Touches(k) \cap Touches(j) # {} => k \in U
      BY DEF Stuck
    <2>1. ASSUME NamesKeyThenSlot(k) PROVE k \in U
      <3>1. PICK e \in edges : e[1] = k /\ e[2] = k
        BY <2>1, AllLinked DEF IndInv, Graph, OwnEdges
      <3> QED
        BY <3>1 DEF IndInv, Running
    <2>2. ASSUME NEW j \in U, j < k, Touches(k) \cap Touches(j) # {} PROVE k \in U
      <3>1. status[k] = "idle"
        BY <2>2, EndedFirst
      <3> QED
        BY <3>1
    <2> QED
      BY <2>1, <2>2
  <1>3. i \in Lost => i \in U
    BY <1>2 DEF Lost
  <1>4. ASSUME NEW S \in SUBSET Txs, Stuck(S) PROVE U \subseteq S
    <2> DEFINE B == U \ S
    <2> SUFFICES ASSUME B # {} PROVE FALSE
      OBVIOUS
    <2>1. B \subseteq Nat
      BY TxsFacts
    <2>2. PICK k \in B : \A m \in B : k <= m
      <3> HIDE DEF B
      <3> QED
        BY <2>1, LeastOf
    <2>3. k \in Txs /\ conflicts[k] /\ status[k] # "ended" /\ k \notin S
      BY <2>2
    <2>4. PICK e \in edges : e[2] = k /\ status[e[1]] # "ended"
      BY <2>3, WaitsForOne
    <2>5. CASE e[1] = k
      <3>1. NamesKeyThenSlot(k)
        BY <2>3, <2>4, <2>5, AllLinked DEF IndInv, Graph, EdgesSound
      <3> QED
        BY <1>4, <2>3, <3>1 DEF Stuck
    <2>6. CASE e[1] # k
      <3>1. PICK j \in Txs : j = e[1] /\ j < k /\ conflicts[j] /\ Touches(k) \cap Touches(j) # {}
        BY <2>4, <2>6, EdgeTouches
      <3>2. j \in U /\ j \notin B
        <4>1. j \in U
          BY <2>4, <3>1
        <4>2. ~(k <= j)
          BY <2>3, <3>1, TxsFacts
        <4> QED
          BY <2>2, <4>1, <4>2
      <3>3. j \in S
        BY <3>2
      <3> QED
        BY <1>4, <2>3, <3>1, <3>3 DEF Stuck
    <2> QED
      BY <2>5, <2>6
  <1>5. i \in U => i \in Lost
    BY <1>4 DEF Lost
  <1> QED
    BY <1>1, <1>3, <1>5

(* A transaction is left with the default message exactly when it hangs    *)
(* behind a task with an edge to itself, for every batch and every ABI.    *)
THEOREM UnansweredHolds == Spec => []UnansweredOnlyBehindOwnEdge
  <1>1. Init => Quiet
    BY DEF Init, Quiet
  <1> QED
    BY <1>1, StepQuiet, UnansweredAreLost, Invariance, PTL DEF Spec

-----------------------------------------------------------------------------
(* Refinement of SerialOrder.                                               *)

\* The critical fields that SerialOrder sees are the cells of the transaction.
LEMMA SerialUses ==
  ASSUME TypeOK, NEW i \in Txs
  PROVE  Serial!Uses(i) = Touches(i)
  <1>1. inputs[i] \in Calls
    BY DEF TypeOK, CollectType
  <1>2. TouchedBy[inputs[i]] \subseteq Cells
    BY <1>1 DEF TouchedBy
  <1>3. Range(SetToSeq(TouchedBy[inputs[i]])) = TouchedBy[inputs[i]]
    BY <1>2, CellsFinite, FS_Subset, SetToSeqRange
  <1>4. Serial!Uses(i) = Range(SetToSeq(TouchedBy[inputs[i]]))
    BY <1>1 DEF Serial!Uses, ListTouchedBy, Serial!Range, Range
  <1> QED
    BY <1>3, <1>4 DEF Touches

\* Initial states of WasmDag map to initial states of SerialOrder.
LEMMA InitRefines == Init => Serial!Init
  <1> SUFFICES ASSUME Init PROVE Serial!Init
    OBVIOUS
  <1>1. Ended = {}
    BY DEF Init, Ended
  <1>2. \A call \in Calls : TouchedBy[call] \in SUBSET Cells
    BY DEF TouchedBy
  <1>3. \A call \in Calls : ListTouchedBy[call] \in Lists
    BY <1>2 DEF ListTouchedBy, Lists
  <1>4. [i \in Txs |-> ListTouchedBy[inputs[i]]] \in [Txs -> Lists]
    BY <1>3 DEF Init
  <1> QED
    BY <1>1, <1>4 DEF Init, Serial!Init, Serial!NoRead, Serial!Txs, Txs

\* The mapped variables do not change unless a task ends.
LEMMA StutterRefines ==
  ASSUME UNCHANGED <<inputs, cell>>, Ended' = Ended,
         \A k \in Ended : read'[k] = read[k] /\ results'[k] = results[k]
  PROVE  UNCHANGED Serial!vars
  <1>1. {i \in Ended : results[i] = "output"}' = {i \in Ended : results[i] = "output"}
    OBVIOUS
  <1>2. [i \in Txs |-> IF i \in Ended THEN read[i] ELSE [c \in Cells |-> 0]]'
        = [i \in Txs |-> IF i \in Ended THEN read[i] ELSE [c \in Cells |-> 0]]
    OBVIOUS
  <1> QED
    BY <1>1, <1>2 DEF Serial!vars

\* A task ending is the step that applies its transaction.
LEMMA EndRefines ==
  ASSUME IndInv, NEW i \in Txs, NEW ok \in BOOLEAN, End(i, ok)
  PROVE  Serial!Apply(i, ok)
  <1> DEFINE r == [k \in Txs |-> IF k \in Ended THEN read[k] ELSE [c \in Cells |-> 0]]
             w == {k \in Ended : results[k] = "output"}
  <1>1. /\ TypeOK /\ status[i] = "running" /\ read[i] = Snapshot(i)
        /\ status' = [status EXCEPT ![i] = "ended"]
        /\ cell' = IF ok THEN [c \in Cells |-> IF c \in Touches(i) THEN i ELSE cell[c]] ELSE cell
        /\ results' = [results EXCEPT ![i] = IF ok THEN "output" ELSE "revert"]
        /\ UNCHANGED <<inputs, read>>
    BY DEF IndInv, Running, End
  <1>2. Ended' = Ended \cup {i} /\ i \notin Ended /\ Ended \subseteq Txs
    BY <1>1 DEF Ended, TypeOK, RunType
  <1>3. \A k \in Txs : Serial!Uses(k) = Touches(k)
    BY <1>1, SerialUses
  <1>4. \A j \in 1 .. i - 1 : Serial!Conflicts(i, j) => j \in Ended
    <2> SUFFICES ASSUME NEW j \in 1 .. i - 1, Serial!Conflicts(i, j) PROVE j \in Ended
      OBVIOUS
    <2>1. j \in Txs /\ j < i
      BY TxsFacts
    <2>2. Touches(i) \cap Touches(j) # {}
      BY <1>3, <2>1 DEF Serial!Conflicts
    <2>3. status[j] = "ended"
      BY <1>1, <2>1, <2>2, EndedFirst
    <2> QED
      BY <2>1, <2>3 DEF Ended
  <1>5. r' = [r EXCEPT ![i] = Serial!Snapshot(i)]
    <2>1. Serial!Snapshot(i) = Snapshot(i)
      BY <1>3 DEF Serial!Snapshot, Snapshot
    <2>2. \A k \in Txs : r'[k] = IF k = i THEN Snapshot(i) ELSE r[k]
      BY <1>1, <1>2
    <2>3. DOMAIN r' = Txs /\ r' = [k \in Txs |-> r'[k]]
      OBVIOUS
    <2> QED
      BY <2>1, <2>2, <2>3
  <1>6. w' = IF ok THEN w \cup {i} ELSE w
    <2>1. results'[i] = "output" <=> ok
      BY <1>1 DEF TypeOK, RunType
    <2>2. \A k \in Ended : results'[k] = results[k]
      BY <1>1, <1>2 DEF TypeOK, RunType
    <2> QED
      BY <1>2, <2>1, <2>2
  <1>7. cell' = IF ok THEN [c \in Cells |-> IF c \in Serial!Uses(i) THEN i ELSE cell[c]]
                      ELSE cell
    BY <1>1, <1>3
  <1>8. UNCHANGED [k \in Txs |-> ListTouchedBy[inputs[k]]]
    BY <1>1
  <1> QED
    BY <1>2, <1>4, <1>5, <1>6, <1>7, <1>8 DEF Serial!Apply

\* Every step of WasmDag is a step of SerialOrder or changes nothing there.
LEMMA StepRefines == IndInv /\ [Next]_vars => [Serial!Next]_(Serial!vars)
  <1> SUFFICES ASSUME IndInv, [Next]_vars PROVE [Serial!Next]_(Serial!vars)
    OBVIOUS
  <1>1. ASSUME NEW i \in Txs, NEW ok \in BOOLEAN, End(i, ok) PROVE [Serial!Next]_(Serial!vars)
    BY <1>1, EndRefines DEF Serial!Next, Serial!Txs, Txs
  <1>2. ASSUME NEW i \in Txs, Begin(i) PROVE [Serial!Next]_(Serial!vars)
    <2>1. /\ UNCHANGED <<inputs, cell, results>> /\ status[i] = "idle"
          /\ status' = [status EXCEPT ![i] = "running"]
          /\ \A k \in Txs : k # i => read'[k] = read[k]
      BY <1>2 DEF Begin, Fires, IndInv, TypeOK, RunType
    <2>2. Ended' = Ended /\ i \notin Ended /\ Ended \subseteq Txs
      BY <2>1 DEF Ended, IndInv, TypeOK, RunType
    <2> QED
      BY <2>1, <2>2, StutterRefines
  <1>3. ASSUME NEW i \in Txs, NEW fits \in BOOLEAN, Lookup(i) \/ Load(i, fits)
        PROVE  [Serial!Next]_(Serial!vars)
    <2>1. UNCHANGED <<inputs, cell, status, read>> /\ phase = "collect"
      BY <1>3 DEF Lookup, Load, runVars
    <2>2. Ended' = Ended /\ Ended = {}
      BY <2>1 DEF Ended, IndInv, Phases
    <2> QED
      BY <2>1, <2>2, StutterRefines
  <1>4. CASE EndCollect \/ Link \/ Callback \/ UNCHANGED vars
    <2>1. UNCHANGED <<inputs, cell, status, read, results>>
      <3>1. CASE EndCollect \/ Callback \/ UNCHANGED vars
        BY <3>1 DEF EndCollect, Callback, vars, runVars
      <3>2. CASE Link
        BY <3>2 DEF Link, KeyField, WholeField, EndTask, SkipTask, Put, runVars
      <3> QED
        BY <1>4, <3>1, <3>2
    <2>2. Ended' = Ended
      BY <2>1 DEF Ended
    <2> QED
      BY <2>1, <2>2, StutterRefines
  <1> QED
    BY <1>1, <1>2, <1>3, <1>4 DEF Next, Work

(* The flow graph executes the batch as if serially: a transaction that    *)
(* names a key and one that names its whole slot are in block order too.   *)
THEOREM Refinement == Spec => WasmImplementsSerialOrder
  BY InitRefines, StepRefines, Invariance, PTL
     DEF Spec, WasmImplementsSerialOrder, Serial!Spec
=============================================================================
