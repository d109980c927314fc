-------------------------- MODULE DagTransferProofs --------------------------
(***************************************************************************)
(* Proofs about DagTransfer, for any number of transactions and users and  *)
(* any width of the amounts.                                               *)
(*                                                                         *)
(* Two calls in progress share no account (Order).  So what a call has     *)
(* read is still in the rows when it writes (Pending), each of its writes  *)
(* moves the sum of the balances by a known amount, and the sum is right   *)
(* at every step if the money of a half-written transfer is counted as     *)
(* under way (Balanced).                                                   *)
(*                                                                         *)
(* The same separation gives the answers.  The calls that are over form a  *)
(* prefix of the serial turns for every account (Cut), so the row a call   *)
(* finds is the one its serial turn finds, and it answers and leaves what  *)
(* the turn does (SerialInv).                                              *)
(***************************************************************************)
EXTENDS DagTransfer, FiniteSetTheorems, SequenceTheorems, TLAPS

-----------------------------------------------------------------------------
(* Sums.  FoldFunction is a recursive function on the subsets of its       *)
(* domain; what it computes is found by taking a smallest subset where a   *)
(* claim fails.                                                            *)

Pick(s) == CHOOSE x \in s : TRUE

\* g is the recursive function FoldFunction defines to add up w over S.
Adds(w, S, g) ==
  g = [s \in SUBSET S |-> IF s = {} THEN 0 ELSE g[s \ {Pick(s)}] + w[Pick(s)]]

Total(w) == FoldFunction(LAMBDA b, acc : acc + b, 0, w)

\* A set of subsets of a finite set has a smallest member.
LEMMA Smallest ==
  ASSUME NEW U, IsFiniteSet(U), NEW B, B \subseteq SUBSET U, B # {}
  PROVE  \E s \in B : \A t \in B : t \subseteq s => t = s
  <1>1. IsWellFoundedOn(StrictSubsetOrdering(U), SUBSET U)
    BY FS_FiniteSubsetsOfFinite, FS_StrictSubsetOrderingWellFounded
  <1>2. PICK s \in B : \A t \in B : ~ (<<t, s>> \in StrictSubsetOrdering(U))
    BY <1>1, WFMin
  <1> QED  BY <1>2 DEF StrictSubsetOrdering

\* The one picked from a set is in it.
LEMMA Picked == ASSUME NEW s, s # {} PROVE Pick(s) \in s
  BY DEF Pick

\* The equation of a sum, point by point.
LEMMA AddsAt ==
  ASSUME NEW S, NEW w, NEW g, Adds(w, S, g)
  PROVE  /\ g[{}] = 0
         /\ \A s \in SUBSET S : s # {} => g[s] = g[s \ {Pick(s)}] + w[Pick(s)]
  BY DEF Adds

\* Two solutions agree where both are defined.
LEMMA AddsAgree ==
  ASSUME NEW U, IsFiniteSet(U), NEW w, NEW S \in SUBSET U, NEW T \in SUBSET U,
         NEW g, Adds(w, S, g), NEW h, Adds(w, T, h)
  PROVE  \A s \in SUBSET (S \cap T) : g[s] = h[s]
  <1> DEFINE B == {s \in SUBSET (S \cap T) : g[s] # h[s]}
  <1> SUFFICES ASSUME B # {} PROVE FALSE
    OBVIOUS
  <1>0. B \subseteq SUBSET U
    OBVIOUS
  <1>1. PICK s \in B : \A t \in B : t \subseteq s => t = s
    <2> HIDE DEF B
    <2> QED  BY <1>0, Smallest
  <1>2. s # {}
    BY <1>1, AddsAt
  <1>3. Pick(s) \in s
    BY <1>2, Picked
  <1>4. s \ {Pick(s)} \notin B
    BY <1>1, <1>3
  <1>5. g[s \ {Pick(s)}] = h[s \ {Pick(s)}]
    BY <1>1, <1>4
  <1> QED  BY <1>1, <1>2, <1>5, AddsAt

\* There is a solution.
LEMMA AddsExists ==
  ASSUME NEW U, IsFiniteSet(U), NEW w
  PROVE  \E g : Adds(w, U, g)
  <1> DEFINE B == {T \in SUBSET U : ~ \E g : Adds(w, T, g)}
  <1> SUFFICES ASSUME B # {} PROVE FALSE
    OBVIOUS
  <1>0. B \subseteq SUBSET U
    OBVIOUS
  <1>1. PICK T \in B : \A t \in B : t \subseteq T => t = T
    <2> HIDE DEF B
    <2> QED  BY <1>0, Smallest
  <1> DEFINE G(t) == CHOOSE g : Adds(w, t, g)
  <1>2. \A t \in SUBSET T : t # T => Adds(w, t, G(t))
    BY <1>1
  <1> HIDE DEF G
  <1> DEFINE x == Pick(T)
             g == [s \in SUBSET T |->
                     IF s # T THEN G(s)[s]
                     ELSE IF T = {} THEN 0 ELSE G(T \ {x})[T \ {x}] + w[x]]
  <1>3. ASSUME NEW s \in SUBSET T
        PROVE  g[s] = IF s = {} THEN 0 ELSE g[s \ {Pick(s)}] + w[Pick(s)]
    <2>1. CASE s = T
      <3>1. T # {} => T \ {x} \in SUBSET T /\ T \ {x} # T
        BY Picked
      <3> QED  BY <2>1, <3>1
    <2>2. CASE s # T /\ s = {}
      BY <1>2, <2>2, AddsAt
    <2>3. CASE s # T /\ s # {}
      <3> DEFINE r == s \ {Pick(s)}
      <3>1. r \in SUBSET T /\ r # T /\ r \in SUBSET (s \cap r)
        BY <2>3, Picked
      <3>2. g[s] = G(s)[s] /\ g[r] = G(r)[r]
        BY <2>3, <3>1
      <3>3. G(s)[s] = G(s)[r] + w[Pick(s)]
        <4>1. Adds(w, s, G(s)) /\ s \in SUBSET s
          BY <1>2, <2>3
        <4> QED  BY <2>3, <4>1, AddsAt
      <3>4. G(s)[r] = G(r)[r]
        <4>1. Adds(w, s, G(s)) /\ Adds(w, r, G(r))
          BY <1>2, <2>3, <3>1
        <4> HIDE DEF r
        <4>2. s \in SUBSET U /\ r \in SUBSET U
          BY <1>1, <3>1
        <4> QED  BY <3>1, <4>1, <4>2, AddsAgree
      <3> QED  BY <2>3, <3>2, <3>3, <3>4
    <2> QED  BY <2>1, <2>2, <2>3
  <1>4. Adds(w, T, g)
    <2>1. g = [s \in SUBSET T |-> g[s]]
      OBVIOUS
    <2> HIDE DEF g
    <2> QED  BY <1>3, <2>1 DEF Adds
  <1> QED  BY <1>1, <1>4

\* So the fold is the value of a solution.
LEMMA TotalAdds ==
  ASSUME NEW S, IsFiniteSet(S), NEW w, DOMAIN w = S
  PROVE  \E g : Adds(w, S, g) /\ Total(w) = g[S]
  <1>1. Total(w) = (CHOOSE g : Adds(w, DOMAIN w, g))[DOMAIN w]
    BY DEF Total, FoldFunction, FoldFunctionOnSet, MapThenFoldSet, Adds, Pick
  <1>2. \E g : Adds(w, S, g)
    BY AddsExists
  <1> QED  BY <1>1, <1>2

\* A sum of integers is an integer.
LEMMA TotalInt ==
  ASSUME NEW S, IsFiniteSet(S), NEW w \in [S -> Int]
  PROVE  Total(w) \in Int
  <1>1. PICK g : Adds(w, S, g) /\ Total(w) = g[S]
    BY TotalAdds
  <1> DEFINE B == {s \in SUBSET S : g[s] \notin Int}
  <1>2. ASSUME B # {} PROVE FALSE
    <2>0. B \subseteq SUBSET S
      OBVIOUS
    <2>1. PICK s \in B : \A t \in B : t \subseteq s => t = s
      <3> HIDE DEF B
      <3> QED  BY <1>2, <2>0, Smallest
    <2>2. s # {}
      <3>1. g[{}] \in Int
        BY <1>1, AddsAt
      <3>2. g[s] \notin Int
        BY <2>1
      <3> HIDE DEF B
      <3> QED  BY <3>1, <3>2
    <2>4. Pick(s) \in s /\ s \ {Pick(s)} \notin B
      BY <2>1, <2>2, Picked
    <2>3. g[s \ {Pick(s)}] \in Int /\ w[Pick(s)] \in Int
      BY <2>1, <2>4
    <2>5. g[s] = g[s \ {Pick(s)}] + w[Pick(s)]
      BY <1>1, <2>1, <2>2, AddsAt
    <2> QED  BY <2>1, <2>3, <2>5
  <1> QED  BY <1>1, <1>2

\* A sum of zeros is zero.
LEMMA TotalZero ==
  ASSUME NEW S, IsFiniteSet(S), NEW w, DOMAIN w = S, \A x \in S : w[x] = 0
  PROVE  Total(w) = 0
  <1>1. PICK g : Adds(w, S, g) /\ Total(w) = g[S]
    BY TotalAdds
  <1> DEFINE B == {s \in SUBSET S : g[s] # 0}
  <1>2. ASSUME B # {} PROVE FALSE
    <2>0. B \subseteq SUBSET S
      OBVIOUS
    <2>1. PICK s \in B : \A t \in B : t \subseteq s => t = s
      <3> HIDE DEF B
      <3> QED  BY <1>2, <2>0, Smallest
    <2>2. s # {} /\ Pick(s) \in s /\ s \ {Pick(s)} \notin B
      BY <1>1, <2>1, AddsAt, Picked
    <2>3. g[s \ {Pick(s)}] = 0 /\ w[Pick(s)] = 0
      BY <2>1, <2>2
    <2> QED  BY <1>1, <2>1, <2>2, <2>3, AddsAt
  <1> QED  BY <1>1, <1>2

\* A sum moves as much as its one term that changes.
LEMMA TotalUpdate ==
  ASSUME NEW S, IsFiniteSet(S), NEW w \in [S -> Int], NEW v \in [S -> Int], NEW x \in S,
         \A y \in S : y # x => v[y] = w[y]
  PROVE  Total(v) = Total(w) + (v[x] - w[x])
  <1>1. PICK g : Adds(w, S, g) /\ Total(w) = g[S]
    BY TotalAdds
  <1>2. PICK h : Adds(v, S, h) /\ Total(v) = h[S]
    BY TotalAdds
  <1> DEFINE d(s) == IF x \in s THEN v[x] - w[x] ELSE 0
             B == {s \in SUBSET S : ~ (g[s] \in Int /\ h[s] = g[s] + d(s))}
  <1>3. ASSUME B # {} PROVE FALSE
    <2>0. B \subseteq SUBSET S
      OBVIOUS
    <2>1. PICK s \in B : \A t \in B : t \subseteq s => t = s
      <3> HIDE DEF B
      <3> QED  BY <1>3, <2>0, Smallest
    <2>2. s # {}
      <3>1. g[{}] = 0 /\ h[{}] = 0
        BY <1>1, <1>2, AddsAt
      <3>2. d({}) = 0
        OBVIOUS
      <3>3. ~ (g[s] \in Int /\ h[s] = g[s] + d(s))
        BY <2>1
      <3> HIDE DEF d, B
      <3>4. g[{}] \in Int /\ h[{}] = g[{}] + d({})
        BY <3>1, <3>2
      <3> QED  BY <3>3, <3>4
    <2> DEFINE y == Pick(s)
               r == s \ {y}
    <2>3. y \in s /\ r \in SUBSET S /\ r # s
      BY <2>1, <2>2, Picked
    <2>4. r \notin B
      BY <2>1, <2>3
    <2>5. g[r] \in Int /\ h[r] = g[r] + d(r)
      BY <2>3, <2>4
    <2>6. g[s] = g[r] + w[y] /\ h[s] = h[r] + v[y]
      BY <1>1, <1>2, <2>1, <2>2, AddsAt
    <2>7. w[y] \in Int /\ v[y] \in Int /\ w[x] \in Int /\ v[x] \in Int
      BY <2>1, <2>3
    <2>8. CASE y = x
      <3>1. d(r) = 0 /\ d(s) = v[x] - w[x]
        BY <2>3, <2>8
      <3> HIDE DEF d, r, y
      <3>2. g[s] \in Int /\ h[s] = g[s] + d(s)
        BY <2>5, <2>6, <2>7, <2>8, <3>1
      <3> QED  BY <2>1, <3>2
    <2>9. CASE y # x
      <3>1. d(r) = d(s) /\ d(s) \in Int /\ v[y] = w[y]
        BY <2>1, <2>3, <2>7, <2>9
      <3> HIDE DEF d, r, y
      <3>2. g[s] \in Int /\ h[s] = g[s] + d(s)
        BY <2>5, <2>6, <2>7, <3>1
      <3> QED  BY <2>1, <3>2
    <2> QED  BY <2>8, <2>9
  <1> QED  BY <1>1, <1>2, <1>3

-----------------------------------------------------------------------------
(* The invariant.                                                           *)

\* What a user has; nothing without a row.
Balance(u) == IF bal[u] = NoRow THEN 0 ELSE bal[u]

\* A transaction has started only when those before it in its order had ended.
Order ==
  \A i \in Txs : pc[i] # "start" =>
    \A j \in Txs \ {i} :
      IF Tags(i) # {} THEN j < i /\ Tags(j) \cap Tags(i) # {} => Ended(j)
      ELSE Tags(j) # {} \/ j < i => Ended(j)

\* A transaction that goes on to the table has passed the checks.
Opened == \A i \in Txs : pc[i] \in {"create", "open", "write"} => Check(inputs[i]) = "open"

\* The writes a transaction still has to make, in terms of the rows they go to.
AddPends(i) ==
  /\ inputs[i].op \in {"userAdd", "userSave"} /\ ret[i] = <<"ok", 0>>
  /\ writes[i] = <<<<inputs[i].user, Balance(inputs[i].user) + inputs[i].amount>>>>
DrawPends(i) ==
  /\ inputs[i].op = "userDraw" /\ ret[i] = <<"ok", 0>>
  /\ writes[i] = <<<<inputs[i].user, Balance(inputs[i].user) - inputs[i].amount>>>>
RowPends(i) ==
  /\ inputs[i].op = "userTransfer" /\ ret[i] = <<"CODE_INVALID_BALANCE_OVERFLOW", 0>>
  /\ bal[inputs[i].to] = NoRow
  /\ writes[i] = <<<<inputs[i].to, 0>>>>
TransferPends(i) ==
  /\ inputs[i].op = "userTransfer" /\ ret[i] = <<"ok", 0>>
  /\ LET pay == <<inputs[i].user, Balance(inputs[i].user) - inputs[i].amount>>
         get == <<inputs[i].to, Balance(inputs[i].to) + inputs[i].amount>>
     IN \/ bal[inputs[i].to] = NoRow /\ writes[i] = <<<<inputs[i].to, 0>>, pay, get>>
        \/ writes[i] = <<pay, get>>
        \/ writes[i] = <<get>>
Pending ==
  \A i \in Txs : pc[i] = "write" =>
    AddPends(i) \/ DrawPends(i) \/ RowPends(i) \/ TransferPends(i)

\* What a transaction has done to the sum so far: the payer of a half-written transfer
\* has paid and the receiver has not been paid yet.
Net(i) ==
  IF pc[i] # "write" THEN Deposit(i)
  ELSE IF inputs[i].op = "userTransfer" /\ ret[i][1] = "ok" /\ Len(writes[i]) = 1
       THEN 0 - inputs[i].amount ELSE 0

Balanced == Funds(bal) = Funds(bal0) + Total([i \in Txs |-> Net(i)])

IndInv == TypeOK /\ Order /\ Opened /\ Pending /\ Balanced

-----------------------------------------------------------------------------
(* The calls.                                                               *)

\* Addition of u256: in range, and exact unless it is smaller than its first term.
LEMMA Sum2Facts ==
  ASSUME NEW x \in Amounts, NEW y \in Amounts
  PROVE  Sum2(x, y) \in Amounts /\ (~ (Sum2(x, y) < x) => Sum2(x, y) = x + y)
  <1>1. Modulus \in Nat /\ Modulus > 0 /\ x \in Nat /\ y \in Nat /\ x < Modulus /\ y < Modulus
    BY DagTransferAssumption DEF Amounts
  <1>2. CASE x + y < Modulus
    <2>1. (x + y) % Modulus = x + y
      BY <1>1, <1>2
    <2> QED  BY <1>1, <1>2, <2>1 DEF Sum2, Amounts
  <1>3. CASE ~ (x + y < Modulus)
    <2>1. (x + y) % Modulus = x + y - Modulus
      BY <1>1, <1>3
    <2> QED  BY <1>1, <1>3, <2>1 DEF Sum2, Amounts
  <1> QED  BY <1>2, <1>3

\* The parts of a call that has passed the checks.
LEMMA CheckFacts ==
  ASSUME NEW c \in Calls, Check(c) = "open"
  PROVE  /\ c.op \in {"userAdd", "userSave", "userDraw", "userBalance", "userTransfer"}
         /\ c.user \in Users /\ c.to \in Users /\ c.amount \in Amounts
         /\ c.op = "userTransfer" => c.user # c.to
         /\ c.op \in {"userAdd", "userSave", "userDraw"} => getParallelTag(c) = {c.user}
         /\ c.op = "userTransfer" => getParallelTag(c) = {c.user, c.to}
  <1>1. c \in CallType
    BY CallsAssumption
  <1>2. /\ c.op \in {"userAdd", "userSave", "userDraw", "userBalance", "userTransfer", "unknown"}
        /\ c.user \in Users \cup {Empty} /\ c.to \in Users \cup {Empty} /\ c.amount \in Amounts
    BY <1>1 DEF CallType
  <1>3. c.op # "unknown" /\ Empty \notin {c.user, c.to}
    BY DEF Check
  <1>4. c.op = "userTransfer" => c.amount # 0 /\ c.user # c.to
    BY DEF Check
  <1> QED  BY <1>2, <1>3, <1>4, DagTransferAssumption DEF getParallelTag

\* Sequences of one, two and three writes.
LEMMA Tuples ==
  ASSUME NEW x, NEW y, NEW z
  PROVE  /\ Head(<<x>>) = x /\ Len(<<x>>) = 1 /\ <<x>> # <<>>
         /\ Head(<<x, y>>) = x /\ Len(<<x, y>>) = 2 /\ Tail(<<x, y>>) = <<y>> /\ <<x, y>> # <<>>
         /\ Head(<<x, y, z>>) = x /\ Len(<<x, y, z>>) = 3 /\ Tail(<<x, y, z>>) = <<y, z>>
         /\ <<x, y, z>> # <<>>
  OBVIOUS

\* A receiver's new row comes first.
LEMMA Joined ==
  ASSUME NEW x, NEW y, NEW z
  PROVE  <<x>> \o <<y, z>> = <<x, y, z>> /\ <<>> \o <<y, z>> = <<y, z>>
  <1> DEFINE S == {x, y, z}
             a == <<x>>
             b == <<y, z>>
             l == a \o b
             r == <<x, y, z>>
  <1>1. /\ a \in Seq(S) /\ Len(a) = 1 /\ a[1] = x
        /\ b \in Seq(S) /\ Len(b) = 2 /\ b[1] = y /\ b[2] = z
        /\ r \in Seq(S) /\ Len(r) = 3 /\ r[1] = x /\ r[2] = y /\ r[3] = z
    OBVIOUS
  <1> HIDE DEF a, b, r, S
  <1>2. l \in Seq(S) /\ Len(l) = 3 /\ l[1] = x /\ l[2] = y /\ l[3] = z
    <2>0. a \in Seq(S) /\ b \in Seq(S)
      BY <1>1
    <2>1. /\ l \in Seq(S) /\ Len(l) = Len(a) + Len(b)
          /\ \A n \in 1 .. Len(a) + Len(b) : l[n] = IF n <= Len(a) THEN a[n] ELSE b[n - Len(a)]
      BY <2>0, ConcatProperties
    <2> HIDE DEF l
    <2> QED  BY <1>1, <2>1
  <1> HIDE DEF l
  <1>3. \A n \in 1 .. 3 : n = 1 \/ n = 2 \/ n = 3
    OBVIOUS
  <1>4. \A n \in 1 .. 3 : l[n] = r[n]
    BY <1>1, <1>2, <1>3
  <1>5. l = r
    BY <1>1, <1>2, <1>4, SeqEqual
  <1>6. <<>> \o b = b
    BY <1>1, ConcatEmptySeq
  <1> QED  BY <1>5, <1>6 DEF l, a, b, r

\* They are sequences.
LEMMA TupleTypes ==
  ASSUME NEW S, NEW x \in S, NEW y \in S, NEW z \in S
  PROVE  <<x>> \in Seq(S) /\ <<x, y>> \in Seq(S) /\ <<x, y, z>> \in Seq(S)
  OBVIOUS

\* What a user has is an amount.
LEMMA BalanceType ==
  ASSUME bal \in Rows, NEW u \in Users
  PROVE  /\ Balance(u) \in Amounts /\ Balance(u) \in Int
         /\ bal[u] # NoRow => Balance(u) = bal[u]
         /\ bal[u] = NoRow => Balance(u) = 0
  <1>1. bal[u] \in Amounts \cup {NoRow}
    BY DEF Rows
  <1>2. 0 \in Amounts /\ \A x \in Amounts : x \in Int
    BY DagTransferAssumption DEF Amounts
  <1> QED  BY <1>1, <1>2 DEF Balance

\* The call of transaction i as it would be decided on the current rows.
Decided(i, r) ==
  LET c == inputs[i]
      pay == <<c.user, Balance(c.user) - c.amount>>
      get == <<c.to, Balance(c.to) + c.amount>>
  IN
  \/ r.writes = <<>> /\ (c.op \in {"userAdd", "userSave", "userDraw"} => r.ret[1] # "ok")
  \/ /\ c.op \in {"userAdd", "userSave"} /\ r.ret = <<"ok", 0>>
     /\ r.writes = <<<<c.user, Balance(c.user) + c.amount>>>>
  \/ c.op = "userDraw" /\ r.ret = <<"ok", 0>> /\ r.writes = <<pay>>
  \/ /\ c.op = "userTransfer" /\ r.ret = <<"CODE_INVALID_BALANCE_OVERFLOW", 0>>
     /\ bal[c.to] = NoRow /\ r.writes = <<<<c.to, 0>>>>
  \/ /\ c.op = "userTransfer" /\ r.ret = <<"ok", 0>>
     /\ \/ bal[c.to] = NoRow /\ r.writes = <<<<c.to, 0>>, pay, get>>
        \/ r.writes = <<pay, get>>

\* What a call decides, case by case.
LEMMA CallFacts ==
  ASSUME bal \in Rows, NEW i \in Txs, inputs[i] \in Calls, Check(inputs[i]) = "open"
  PROVE  LET r == call(inputs[i], bal) IN
         /\ Decided(i, r)
         /\ r.ret \in Codes \X Amounts /\ r.writes \in Seq(Users \X Amounts)
  <1> DEFINE c == inputs[i]
             r == call(c, bal)
             u == Balance(c.user)
             t == Balance(c.to)
             Fine == /\ Decided(i, r)
                     /\ r.ret \in Codes \X Amounts /\ r.writes \in Seq(Users \X Amounts)
  <1> SUFFICES Fine
    OBVIOUS
  <1>1. /\ c.op \in {"userAdd", "userSave", "userDraw", "userBalance", "userTransfer"}
        /\ c.user \in Users /\ c.to \in Users /\ c.amount \in Amounts
    BY CheckFacts
  <1>2. /\ u \in Amounts /\ t \in Amounts /\ 0 \in Amounts /\ \A x \in Amounts : x \in Nat
        /\ bal[c.user] # NoRow => u = bal[c.user]
        /\ bal[c.user] = NoRow => u = 0
        /\ bal[c.to] # NoRow => t = bal[c.to]
        /\ bal[c.to] = NoRow => t = 0
    BY <1>1, BalanceType, DagTransferAssumption DEF Amounts
  <1>3. ~ (u < c.amount) => u - c.amount \in Amounts
    BY <1>1, <1>2, DagTransferAssumption DEF Amounts
  <1>4. ASSUME NEW code \in Codes, r = Fails(code), code # "ok" PROVE Fine
    <2>1. r.ret = <<code, 0>> /\ r.writes = <<>>
      BY <1>4 DEF Fails
    <2> HIDE DEF r
    <2>2. Decided(i, r)
      BY <1>4, <2>1 DEF Decided
    <2> QED  BY <1>2, <2>1, <2>2
  <1> HIDE DEF r, Fine, u, t
  <1>10. ASSUME NEW code \in Codes, r.ret = <<code, 0>>, r.writes \in Seq(Users \X Amounts),
                Decided(i, r)
         PROVE  Fine
    BY <1>2, <1>10 DEF Fine
  <1>5. CASE c.op = "userAdd"
    <2>1. r = userAdd(c, bal)
      BY <1>5 DEF call, r
    <2>2. CASE bal[c.user] # NoRow
      <3>1. r = Fails("CODE_INVALID_USER_ALREADY_EXIST")
        BY <2>1, <2>2 DEF userAdd
      <3> QED  BY <1>4, <3>1 DEF Codes
    <2>3. CASE bal[c.user] = NoRow
      <3>1. r = [ret |-> <<"ok", 0>>, writes |-> <<<<c.user, c.amount>>>>]
        BY <2>1, <2>3 DEF userAdd, Writes
      <3>2. u + c.amount = c.amount
        BY <1>1, <1>2, <2>3
      <3>3. r.ret = <<"ok", 0>> /\ r.writes = <<<<c.user, c.amount>>>>
        BY <3>1
      <3>4. r.writes \in Seq(Users \X Amounts)
        BY <1>1, <3>3, TupleTypes
      <3>5. Decided(i, r)
        BY <1>5, <3>2, <3>3 DEF Decided, u
      <3> QED  BY <1>10, <3>3, <3>4, <3>5 DEF Codes
    <2> QED  BY <2>2, <2>3
  <1>6. CASE c.op = "userSave"
    <2>1. r = userSave(c, bal)
      BY <1>6 DEF call, r
    <2>2. CASE bal[c.user] = NoRow
      <3>1. r = [ret |-> <<"ok", 0>>, writes |-> <<<<c.user, c.amount>>>>]
        BY <2>1, <2>2 DEF userSave, Writes
      <3>2. u + c.amount = c.amount
        BY <1>1, <1>2, <2>2
      <3>3. r.ret = <<"ok", 0>> /\ r.writes = <<<<c.user, c.amount>>>>
        BY <3>1
      <3>4. r.writes \in Seq(Users \X Amounts)
        BY <1>1, <3>3, TupleTypes
      <3>5. Decided(i, r)
        BY <1>6, <3>2, <3>3 DEF Decided, u
      <3> QED  BY <1>10, <3>3, <3>4, <3>5 DEF Codes
    <2>3. CASE bal[c.user] # NoRow /\ Sum2(u, c.amount) < u
      <3>1. r = Fails("CODE_INVALID_BALANCE_OVERFLOW")
        BY <1>2, <2>1, <2>3 DEF userSave
      <3> QED  BY <1>4, <3>1 DEF Codes
    <2>4. CASE bal[c.user] # NoRow /\ ~ (Sum2(u, c.amount) < u)
      <3>1. r = [ret |-> <<"ok", 0>>, writes |-> <<<<c.user, Sum2(u, c.amount)>>>>]
        BY <1>2, <2>1, <2>4 DEF userSave, Writes
      <3>2. Sum2(u, c.amount) \in Amounts /\ Sum2(u, c.amount) = u + c.amount
        BY <1>1, <1>2, <2>4, Sum2Facts
      <3>3. r.ret = <<"ok", 0>> /\ r.writes = <<<<c.user, Sum2(u, c.amount)>>>>
        BY <3>1
      <3>4. r.writes \in Seq(Users \X Amounts)
        BY <1>1, <3>2, <3>3, TupleTypes
      <3>5. Decided(i, r)
        BY <1>6, <3>2, <3>3 DEF Decided, u
      <3> QED  BY <1>10, <3>3, <3>4, <3>5 DEF Codes
    <2> QED  BY <2>2, <2>3, <2>4
  <1>7. CASE c.op = "userDraw"
    <2>1. r = userDraw(c, bal)
      BY <1>7 DEF call, r
    <2>2. CASE bal[c.user] = NoRow
      <3>1. r = Fails("CODE_INVALID_USER_NOT_EXIST")
        BY <2>1, <2>2 DEF userDraw
      <3> QED  BY <1>4, <3>1 DEF Codes
    <2>3. CASE bal[c.user] # NoRow /\ u < c.amount
      <3>1. r = Fails("CODE_INVALID_INSUFFICIENT_BALANCE")
        BY <1>2, <2>1, <2>3 DEF userDraw
      <3> QED  BY <1>4, <3>1 DEF Codes
    <2>4. CASE bal[c.user] # NoRow /\ ~ (u < c.amount)
      <3>1. r = [ret |-> <<"ok", 0>>, writes |-> <<<<c.user, u - c.amount>>>>]
        BY <1>2, <2>1, <2>4 DEF userDraw, Writes
      <3>3. r.ret = <<"ok", 0>> /\ r.writes = <<<<c.user, u - c.amount>>>>
        BY <3>1
      <3>4. r.writes \in Seq(Users \X Amounts)
        BY <1>1, <1>3, <2>4, <3>3, TupleTypes
      <3>5. Decided(i, r)
        BY <1>7, <3>3 DEF Decided, u
      <3> QED  BY <1>10, <3>3, <3>4, <3>5 DEF Codes
    <2> QED  BY <2>2, <2>3, <2>4
  <1>8. CASE c.op = "userBalance"
    <2>1. r = userBalance(c, bal)
      BY <1>8 DEF call, r
    <2>2. CASE bal[c.user] = NoRow
      <3>1. r = Fails("CODE_INVALID_USER_NOT_EXIST")
        BY <2>1, <2>2 DEF userBalance
      <3> QED  BY <1>4, <3>1 DEF Codes
    <2>3. CASE bal[c.user] # NoRow
      <3>1. r = [ret |-> <<"ok", u>>, writes |-> <<>>]
        BY <1>2, <2>1, <2>3 DEF userBalance
      <3>2. r.ret = <<"ok", u>> /\ r.writes = <<>>
        BY <3>1
      <3>3. Decided(i, r)
        BY <1>8, <3>2 DEF Decided
      <3>4. r.ret \in Codes \X Amounts
        <4>1. u \in Amounts /\ "ok" \in Codes
          BY <1>2 DEF Codes
        <4> QED  BY <3>2, <4>1
      <3> QED  BY <3>2, <3>3, <3>4 DEF Fine
    <2> QED  BY <2>2, <2>3
  <1>9. CASE c.op = "userTransfer"
    <2> DEFINE new == IF bal[c.to] = NoRow THEN <<<<c.to, 0>>>> ELSE <<>>
               pays == <<<<c.user, u - c.amount>>, <<c.to, Sum2(t, c.amount)>>>>
    <2>0. t = IF bal[c.to] = NoRow THEN 0 ELSE bal[c.to]
      BY DEF Balance, t
    <2>1. r = userTransfer(c, bal)
      BY <1>9 DEF call, r
    <2>2. CASE bal[c.user] = NoRow
      <3>1. r = Fails("CODE_INVALID_USER_NOT_EXIST")
        <4>1. ~ (NoRow >= c.amount)
          BY <1>1, <1>2 DEF NoRow
        <4> QED  BY <2>1, <2>2, <4>1 DEF userTransfer
      <3> QED  BY <1>4, <3>1 DEF Codes
    <2>3. CASE bal[c.user] # NoRow /\ u < c.amount
      <3>1. r = Fails("CODE_INVALID_INSUFFICIENT_BALANCE")
        <4>1. bal[c.user] = u /\ ~ (u >= c.amount)
          BY <1>1, <1>2, <2>3
        <4> QED  BY <2>1, <2>3, <4>1 DEF userTransfer
      <3> QED  BY <1>4, <3>1 DEF Codes
    <2>4. CASE bal[c.user] # NoRow /\ ~ (u < c.amount) /\ Sum2(t, c.amount) < t
      <3>1. u >= c.amount
        BY <1>1, <1>2, <2>4
      <3>2. r = [ret |-> <<"CODE_INVALID_BALANCE_OVERFLOW", 0>>, writes |-> new]
        BY <1>2, <2>0, <2>1, <2>4, <3>1 DEF userTransfer
      <3>3. CASE bal[c.to] = NoRow
        <4>1. r = [ret |-> <<"CODE_INVALID_BALANCE_OVERFLOW", 0>>, writes |-> <<<<c.to, 0>>>>]
          BY <3>2, <3>3
        <4>2. r.ret = <<"CODE_INVALID_BALANCE_OVERFLOW", 0>> /\ r.writes = <<<<c.to, 0>>>>
          BY <4>1
        <4>3. r.writes \in Seq(Users \X Amounts)
          BY <1>1, <1>2, <4>2, TupleTypes
        <4>4. Decided(i, r)
          BY <1>9, <3>3, <4>2 DEF Decided
        <4> QED  BY <1>10, <4>2, <4>3, <4>4 DEF Codes
      <3>4. CASE bal[c.to] # NoRow
        <4>1. r = [ret |-> <<"CODE_INVALID_BALANCE_OVERFLOW", 0>>, writes |-> <<>>]
          BY <3>2, <3>4
        <4>2. r.ret = <<"CODE_INVALID_BALANCE_OVERFLOW", 0>> /\ r.writes = <<>>
          BY <4>1
        <4>3. Decided(i, r)
          BY <1>9, <4>2 DEF Decided
        <4> QED  BY <1>10, <4>2, <4>3 DEF Codes
      <3> QED  BY <3>3, <3>4
    <2>5. CASE bal[c.user] # NoRow /\ ~ (u < c.amount) /\ ~ (Sum2(t, c.amount) < t)
      <3>1. r = [ret |-> <<"ok", 0>>, writes |-> new \o pays]
        BY <1>2, <2>0, <2>1, <2>5 DEF userTransfer, Writes
      <3>2. Sum2(t, c.amount) \in Amounts /\ Sum2(t, c.amount) = t + c.amount
        BY <1>1, <1>2, <2>5, Sum2Facts
      <3>3. CASE bal[c.to] = NoRow
        <4>1. new \o pays = <<<<c.to, 0>>, <<c.user, u - c.amount>>, <<c.to, Sum2(t, c.amount)>>>>
          BY <3>3, Joined
        <4>2. /\ r.ret = <<"ok", 0>>
              /\ r.writes = <<<<c.to, 0>>, <<c.user, u - c.amount>>, <<c.to, Sum2(t, c.amount)>>>>
          BY <3>1, <4>1
        <4>3. r.writes \in Seq(Users \X Amounts)
          BY <1>1, <1>2, <1>3, <2>5, <3>2, <4>2, TupleTypes
        <4>4. Decided(i, r)
          BY <1>9, <3>2, <3>3, <4>2 DEF Decided, u, t
        <4> QED  BY <1>10, <4>2, <4>3, <4>4 DEF Codes
      <3>4. CASE bal[c.to] # NoRow
        <4>1. new \o pays = pays
          BY <3>4, Joined
        <4>2. /\ r.ret = <<"ok", 0>>
              /\ r.writes = <<<<c.user, u - c.amount>>, <<c.to, Sum2(t, c.amount)>>>>
          BY <3>1, <4>1
        <4>3. r.writes \in Seq(Users \X Amounts)
          BY <1>1, <1>3, <2>5, <3>2, <4>2, TupleTypes
        <4>4. Decided(i, r)
          BY <1>9, <3>2, <4>2 DEF Decided, u, t
        <4> QED  BY <1>10, <4>2, <4>3, <4>4 DEF Codes
      <3> QED  BY <3>3, <3>4
    <2> QED  BY <2>2, <2>3, <2>4, <2>5
  <1> QED  BY <1>1, <1>5, <1>6, <1>7, <1>8, <1>9

-----------------------------------------------------------------------------
(* Interference.                                                            *)

\* Two transactions in progress have no tag in common, and one without a tag is alone
\* with others without a tag.
LEMMA Apart ==
  ASSUME Order, NEW i \in Txs, NEW j \in Txs \ {i},
         pc[i] \notin {"start", "ended"}, pc[j] \notin {"start", "ended"}
  PROVE  Tags(i) \cap Tags(j) = {}
  <1>1. i \in Int /\ j \in Int /\ (i < j \/ j < i) /\ j \in Txs /\ i \in Txs \ {j}
    BY DagTransferAssumption DEF Txs
  <1> QED  BY <1>1 DEF Order, Ended

\* The writes a transaction still has to make.
Pends(i) == AddPends(i) \/ DrawPends(i) \/ RowPends(i) \/ TransferPends(i)

\* There is one.
LEMMA PendsSome == ASSUME NEW i \in Txs, Pends(i) PROVE writes[i] # <<>>
  <1>1. CASE AddPends(i) \/ DrawPends(i) \/ RowPends(i)
    BY <1>1, Tuples DEF AddPends, DrawPends, RowPends
  <1>2. CASE TransferPends(i)
    <2>1. \E x, y, z : writes[i] = <<x, y, z>> \/ writes[i] = <<y, z>> \/ writes[i] = <<z>>
      BY <1>2 DEF TransferPends
    <2>2. \A x, y, z : <<x, y, z>> # <<>> /\ <<y, z>> # <<>> /\ <<z>> # <<>>
      BY Tuples
    <2> QED  BY <2>1, <2>2, Zenon
  <1> QED  BY <1>1, <1>2 DEF Pends

\* They depend on its own rows only.
LEMMA PendsKept ==
  ASSUME TypeOK, Opened, NEW i \in Txs, pc[i] = "write", Pends(i),
         inputs' = inputs, writes'[i] = writes[i], ret'[i] = ret[i],
         \A u \in Tags(i) : bal'[u] = bal[u]
  PROVE  Pends(i)'
  <1>1. inputs[i] \in Calls /\ Check(inputs[i]) = "open"
    BY DEF TypeOK, Opened
  <1>2. /\ inputs[i].op \in {"userAdd", "userSave", "userDraw"} => Tags(i) = {inputs[i].user}
        /\ inputs[i].op = "userTransfer" => Tags(i) = {inputs[i].user, inputs[i].to}
    BY <1>1, CheckFacts DEF Tags
  <1>3. ASSUME NEW u \in Tags(i) PROVE Balance(u)' = Balance(u)
    BY <1>3 DEF Balance
  <1>4. CASE AddPends(i)
    <2>1. Balance(inputs[i].user)' = Balance(inputs[i].user)
      BY <1>2, <1>3, <1>4 DEF AddPends, Balance
    <2> QED  BY <1>4, <2>1 DEF Pends, AddPends
  <1>5. CASE DrawPends(i)
    <2>1. Balance(inputs[i].user)' = Balance(inputs[i].user)
      BY <1>2, <1>3, <1>5 DEF DrawPends, Balance
    <2> QED  BY <1>5, <2>1 DEF Pends, DrawPends
  <1>6. CASE RowPends(i)
    BY <1>2, <1>6 DEF Pends, RowPends
  <1>7. CASE TransferPends(i)
    <2>1. Balance(inputs[i].user)' = Balance(inputs[i].user)
      BY <1>2, <1>3, <1>7 DEF TransferPends, Balance
    <2>2. Balance(inputs[i].to)' = Balance(inputs[i].to)
      BY <1>2, <1>3, <1>7 DEF TransferPends, Balance
    <2>3. bal'[inputs[i].to] = bal[inputs[i].to]
      BY <1>2, <1>7 DEF TransferPends
    <2> QED  BY <1>7, <2>1, <2>2, <2>3 DEF Pends, TransferPends
  <1> QED  BY <1>4, <1>5, <1>6, <1>7 DEF Pends

\* One write: it goes to a row of the transaction, moves the sum as much as the share of
\* the transaction in it, and leaves the writes after it still pending.
LEMMA WriteFacts ==
  ASSUME TypeOK, Opened, NEW i \in Txs, Pends(i), Write(i)
  PROVE  \E u \in Users, v \in Amounts :
           /\ u \in Tags(i) /\ bal' = [bal EXCEPT ![u] = v]
           /\ Net(i)' = Net(i) + (v - Balance(u))
           /\ pc'[i] = "write" => Pends(i)'
  <1> DEFINE c == inputs[i]
             w == Head(writes[i])
  <1>1. /\ pc[i] = "write" /\ bal' = [bal EXCEPT ![w[1]] = w[2]]
        /\ writes' = [writes EXCEPT ![i] = Tail(writes[i])]
        /\ pc' = [pc EXCEPT ![i] = IF Len(writes[i]) = 1 THEN "ended" ELSE "write"]
        /\ inputs' = inputs /\ ret' = ret
    BY DEF Write
  <1>2. c \in Calls /\ Check(c) = "open" /\ bal \in Rows
    BY <1>1 DEF TypeOK, Opened
  <1>3. /\ c.user \in Users /\ c.to \in Users /\ c.amount \in Amounts /\ c.amount \in Int
        /\ c.op = "userTransfer" => c.user # c.to
        /\ c.op \in {"userAdd", "userSave", "userDraw"} => Tags(i) = {c.user}
        /\ c.op = "userTransfer" => Tags(i) = {c.user, c.to}
    BY <1>2, CheckFacts, DagTransferAssumption DEF Tags, Amounts
  <1>4. /\ Balance(c.user) \in Int /\ Balance(c.to) \in Int
        /\ bal[c.to] = NoRow => Balance(c.to) = 0
    BY <1>2, <1>3, BalanceType
  <1>5. /\ writes[i] \in Seq(Users \X Amounts) /\ writes'[i] = Tail(writes[i])
        /\ pc'[i] = IF Len(writes[i]) = 1 THEN "ended" ELSE "write"
    BY <1>1 DEF TypeOK
  <1>6. writes[i] # <<>>
    BY PendsSome
  <1>7. w \in Users \X Amounts /\ w[1] \in Users /\ w[2] \in Amounts
    BY <1>5, <1>6
  <1> HIDE DEF w
  <1> SUFFICES /\ w[1] \in Tags(i)
               /\ Net(i)' = Net(i) + (w[2] - Balance(w[1]))
               /\ pc'[i] = "write" => Pends(i)'
    BY <1>1, <1>7
  <1>8. ASSUME NEW x, writes[i] = <<x>>
        PROVE  w = x /\ Len(writes[i]) = 1 /\ pc'[i] = "ended"
    BY <1>5, <1>8, Tuples DEF w
  <1>9. CASE AddPends(i)
    <2>1. w = <<c.user, Balance(c.user) + c.amount>> /\ pc'[i] = "ended"
      BY <1>8, <1>9 DEF AddPends
    <2>2. Net(i) = 0 /\ Net(i)' = c.amount
      BY <1>1, <1>9, <2>1 DEF Net, Deposit, Ended, AddPends
    <2>3. w[1] = c.user /\ w[2] = Balance(c.user) + c.amount
      BY <2>1
    <2> QED  BY <1>3, <1>4, <1>9, <2>1, <2>2, <2>3 DEF AddPends
  <1>10. CASE DrawPends(i)
    <2>1. w = <<c.user, Balance(c.user) - c.amount>> /\ pc'[i] = "ended"
      BY <1>8, <1>10 DEF DrawPends
    <2>2. Net(i) = 0 /\ Net(i)' = 0 - c.amount
      BY <1>1, <1>10, <2>1 DEF Net, Deposit, Ended, DrawPends
    <2>3. w[1] = c.user /\ w[2] = Balance(c.user) - c.amount
      BY <2>1
    <2> QED  BY <1>3, <1>4, <1>10, <2>1, <2>2, <2>3 DEF DrawPends
  <1>11. CASE RowPends(i)
    <2>1. w = <<c.to, 0>> /\ pc'[i] = "ended"
      BY <1>8, <1>11 DEF RowPends
    <2>2. Net(i) = 0 /\ Net(i)' = 0
      BY <1>1, <1>11, <2>1 DEF Net, Deposit, Ended, RowPends
    <2>3. w[1] = c.to /\ w[2] = 0
      BY <2>1
    <2> QED  BY <1>3, <1>4, <1>11, <2>1, <2>2, <2>3 DEF RowPends
  <1>12. CASE TransferPends(i)
    <2> DEFINE pay == <<c.user, Balance(c.user) - c.amount>>
               get == <<c.to, Balance(c.to) + c.amount>>
    <2>0. /\ c.op = "userTransfer" /\ ret[i] = <<"ok", 0>> /\ ret'[i] = <<"ok", 0>>
          /\ inputs'[i] = c
          /\ bal' = [bal EXCEPT ![w[1]] = w[2]]
      BY <1>1, <1>12 DEF TransferPends
    <2>1. CASE bal[c.to] = NoRow /\ writes[i] = <<<<c.to, 0>>, pay, get>>
      <3>1. w = <<c.to, 0>> /\ Len(writes[i]) = 3 /\ writes'[i] = <<pay, get>> /\ pc'[i] = "write"
        BY <1>5, <2>1, Tuples DEF w
      <3>2. w[1] = c.to /\ w[2] = 0 /\ Len(writes'[i]) = 2
        BY <3>1, Tuples
      <3>3. Net(i) = 0 /\ Net(i)' = 0
        <4>1. Len(writes[i]) # 1 /\ Len(writes'[i]) # 1
          BY <3>1, <3>2
        <4> QED  BY <1>1, <3>1, <4>1 DEF Net
      <3>4. bal'[c.user] = bal[c.user] /\ bal'[c.to] = 0
        BY <1>2, <1>3, <2>0, <3>2 DEF Rows
      <3>5. Balance(c.user)' = Balance(c.user) /\ Balance(c.to)' = Balance(c.to)
        BY <1>1, <1>4, <2>1, <3>4 DEF Balance
      <3>6. TransferPends(i)'
        BY <1>1, <2>0, <3>1, <3>5 DEF TransferPends
      <3> QED  BY <1>3, <1>4, <2>0, <2>1, <3>2, <3>3, <3>6 DEF Pends
    <2>2. CASE writes[i] = <<pay, get>>
      <3>1. w = pay /\ Len(writes[i]) = 2 /\ writes'[i] = <<get>> /\ pc'[i] = "write"
        BY <1>5, <2>2, Tuples DEF w
      <3>2. w[1] = c.user /\ w[2] = Balance(c.user) - c.amount /\ Len(writes'[i]) = 1
        BY <3>1, Tuples
      <3>3. Net(i) = 0 /\ Net(i)' = 0 - c.amount
        BY <1>1, <2>0, <3>1, <3>2 DEF Net
      <3>4. bal'[c.to] = bal[c.to]
        BY <1>2, <1>3, <2>0, <3>2 DEF Rows
      <3>5. Balance(c.to)' = Balance(c.to)
        BY <1>1, <3>4 DEF Balance
      <3>6. TransferPends(i)'
        BY <1>1, <2>0, <3>1, <3>5 DEF TransferPends
      <3> QED  BY <1>3, <1>4, <2>0, <3>2, <3>3, <3>6 DEF Pends
    <2>3. CASE writes[i] = <<get>>
      <3>1. w = get /\ Len(writes[i]) = 1 /\ pc'[i] = "ended"
        BY <1>8, <2>3
      <3>2. w[1] = c.to /\ w[2] = Balance(c.to) + c.amount
        BY <3>1
      <3>3. Net(i) = 0 - c.amount /\ Net(i)' = 0
        BY <1>1, <2>0, <3>1 DEF Net, Deposit
      <3> QED  BY <1>3, <1>4, <2>0, <3>1, <3>2, <3>3
    <2> QED  BY <1>12, <2>1, <2>2, <2>3 DEF TransferPends
  <1> QED  BY <1>9, <1>10, <1>11, <1>12 DEF Pends

-----------------------------------------------------------------------------
(* The sums.                                                                *)

\* The sum of the balances, as a sum.
LEMMA FundsTotal ==
  ASSUME NEW rows
  PROVE  Funds(rows) = Total([u \in Users |-> IF rows[u] = NoRow THEN 0 ELSE rows[u]])
  BY DEF Funds, Total

\* What a transaction adds to the sum is an integer.
LEMMA NetType == ASSUME TypeOK, NEW i \in Txs PROVE Net(i) \in Int
  <1>1. inputs[i] \in CallType
    BY CallsAssumption DEF TypeOK
  <1>2. inputs[i].amount \in Int
    BY <1>1, DagTransferAssumption DEF CallType, Amounts
  <1> DEFINE a == inputs[i].amount
  <1>3. 0 - a \in Int /\ 0 \in Int /\ 0 - 0 \in Int
    BY <1>2
  <1>4. Deposit(i) \in {a, 0 - a, 0, 0 - 0}
    BY DEF Deposit
  <1>5. Net(i) \in {Deposit(i), 0 - a, 0}
    BY DEF Net
  <1> HIDE DEF a
  <1> QED  BY <1>2, <1>3, <1>4, <1>5 DEF a

\* It is nothing before the transaction has read its rows, and where it failed.
LEMMA NetIdle ==
  ASSUME NEW i \in Txs, pc[i] # "write",
         Ended(i) /\ ret[i][1] = "ok" => inputs[i].op \notin {"userAdd", "userSave", "userDraw"}
  PROVE  Net(i) = 0
  <1>1. Net(i) = Deposit(i)
    BY DEF Net
  <1>2. CASE inputs[i].op \in {"userAdd", "userSave"}
    BY <1>1, <1>2 DEF Deposit
  <1>3. CASE inputs[i].op = "userDraw"
    <2>1. Deposit(i) = 0 - 0
      BY <1>3 DEF Deposit
    <2> QED  BY <1>1, <2>1
  <1>4. CASE inputs[i].op \notin {"userAdd", "userSave", "userDraw"}
    BY <1>1, <1>4 DEF Deposit
  <1> QED  BY <1>2, <1>3, <1>4

\* The same of the next state.
LEMMA NetIdleNext ==
  ASSUME NEW i \in Txs, pc'[i] # "write",
         Ended(i)' /\ ret'[i][1] = "ok" => inputs'[i].op \notin {"userAdd", "userSave", "userDraw"}
  PROVE  Net(i)' = 0
  <1>1. Net(i)' = Deposit(i)'
    BY DEF Net
  <1>2. CASE inputs'[i].op \in {"userAdd", "userSave"}
    BY <1>1, <1>2 DEF Deposit, Ended
  <1>3. CASE inputs'[i].op = "userDraw"
    <2>1. Deposit(i)' = 0 - 0
      BY <1>3 DEF Deposit, Ended
    <2> QED  BY <1>1, <2>1
  <1>4. CASE inputs'[i].op \notin {"userAdd", "userSave", "userDraw"}
    BY <1>1, <1>4 DEF Deposit, Ended
  <1> QED  BY <1>2, <1>3, <1>4

\* A step that moves the balance of one user as much as the share of one transaction.
LEMMA BalancedMoves ==
  ASSUME TypeOK, TypeOK', Balanced, bal0' = bal0, NEW i \in Txs,
         \A j \in Txs \ {i} : Net(j)' = Net(j),
         NEW u \in Users, NEW v \in Amounts, bal' = [bal EXCEPT ![u] = v],
         Net(i)' = Net(i) + (v - Balance(u))
  PROVE  Balanced'
  <1> DEFINE F(rows) == [x \in Users |-> IF rows[x] = NoRow THEN 0 ELSE rows[x]]
             f == F(bal)
             g == F(bal')
             m == [j \in Txs |-> Net(j)]
             n == [j \in Txs |-> Net(j)']
  <1>1. IsFiniteSet(Users) /\ IsFiniteSet(Txs) /\ v \in Int
    BY CallsAssumption, DagTransferAssumption, FS_Interval DEF Txs, Amounts
  <1>2. bal \in Rows /\ bal' \in Rows /\ bal0 \in Rows /\ 0 \in Int
        /\ \A x \in Amounts : x \in Int
    BY DEF TypeOK, Amounts
  <1>3. ASSUME NEW rows \in Rows PROVE F(rows) \in [Users -> Int]
    BY <1>2, <1>3 DEF Rows
  <1>4. f \in [Users -> Int] /\ g \in [Users -> Int] /\ F(bal0) \in [Users -> Int]
    BY <1>2, <1>3
  <1>5. m \in [Txs -> Int]
    BY NetType
  <1>6. n \in [Txs -> Int]
    <2>1. \A j \in Txs : Net(j)' \in Int
      <3> TAKE j \in Txs
      <3>1. Net(j) \in Int /\ Net(i) \in Int /\ Balance(u) \in Int
        BY <1>2, NetType, BalanceType
      <3> QED  BY <1>1, <3>1
    <2> QED  BY <2>1
  <1>7. /\ \A x \in Users : x # u => g[x] = f[x]
        /\ f[u] = Balance(u) /\ g[u] = v
    BY <1>2 DEF Balance, Rows, NoRow, Amounts
  <1>8. \A j \in Txs : j # i => n[j] = m[j]
    OBVIOUS
  <1>9. n[i] = m[i] + (v - Balance(u))
    OBVIOUS
  <1>10. Funds(bal) = Total(f) /\ Funds(bal') = Total(g) /\ Funds(bal0) = Total(F(bal0))
    BY FundsTotal
  <1>11. Total(f) = Funds(bal0) + Total(m)
    BY <1>10 DEF Balanced
  <1> SUFFICES Total(g) = Funds(bal0) + Total(n)
    BY <1>10 DEF Balanced
  <1>14. Total(F(bal0)) \in Int
    BY <1>1, <1>4, TotalInt
  <1> HIDE DEF f, g, m, n, F
  <1>12. Total(g) = Total(f) + (g[u] - f[u]) /\ Total(f) \in Int
    BY <1>1, <1>4, <1>7, TotalUpdate, TotalInt
  <1>13. Total(n) = Total(m) + (n[i] - m[i]) /\ Total(m) \in Int
    BY <1>1, <1>5, <1>6, <1>8, TotalUpdate, TotalInt
  <1>15. m[i] \in Int /\ f[u] \in Int /\ Funds(bal0) \in Int
    BY <1>4, <1>5, <1>10, <1>14
  <1> QED  BY <1>1, <1>7, <1>9, <1>11, <1>12, <1>13, <1>15

\* A step that moves neither.
LEMMA BalancedStays ==
  ASSUME Balanced, bal' = bal, bal0' = bal0, \A j \in Txs : Net(j)' = Net(j)
  PROVE  Balanced'
  <1>1. [j \in Txs |-> Net(j)'] = [j \in Txs |-> Net(j)]
    OBVIOUS
  <1> QED  BY <1>1 DEF Balanced

-----------------------------------------------------------------------------
(* The steps.                                                               *)

\* The order is kept by a step of one transaction that starts only when it is ready.
LEMMA OrderKept ==
  ASSUME Order, NEW i \in Txs, inputs' = inputs, pc[i] # "ended",
         \A j \in Txs \ {i} : pc'[j] = pc[j], pc[i] = "start" => Ready(i)
  PROVE  Order'
  <1>1. \A j \in Txs : Tags(j)' = Tags(j)
    BY DEF Tags
  <1>2. \A j \in Txs : Ended(j) => Ended(j)'
    BY DEF Ended
  <1>3. ASSUME NEW k \in Txs, pc'[k] # "start", NEW j \in Txs \ {k}
        PROVE  IF Tags(k) # {} THEN j < k /\ Tags(j) \cap Tags(k) # {} => Ended(j)
               ELSE Tags(j) # {} \/ j < k => Ended(j)
    <2>1. CASE k = i /\ pc[i] = "start"
      BY <1>3, <2>1 DEF Ready
    <2>2. CASE k # i \/ pc[i] # "start"
      <3>1. pc[k] # "start"
        BY <1>3, <2>2
      <3> QED  BY <1>3, <3>1 DEF Order
    <2> QED  BY <2>1, <2>2
  <1> QED  BY <1>1, <1>2, <1>3 DEF Order

\* What a step of transaction i leaves alone in the others.
Others(i) ==
  \A j \in Txs \ {i} : pc'[j] = pc[j] /\ writes'[j] = writes[j] /\ ret'[j] = ret[j]

\* The share of a transaction that does not move.
LEMMA NetKept ==
  ASSUME NEW j \in Txs, inputs' = inputs, pc'[j] = pc[j], writes'[j] = writes[j], ret'[j] = ret[j]
  PROVE  Net(j)' = Net(j)
  BY DEF Net, Deposit, Ended

\* The first states.
LEMMA InitInv == Init => IndInv
  <1> SUFFICES ASSUME Init PROVE IndInv
    OBVIOUS
  <1>1. TypeOK
    <2>1. 0 \in Amounts /\ "none" \in Codes
      BY DagTransferAssumption DEF Amounts, Codes
    <2>2. bal \in Rows
      BY DEF Init, Rows
    <2>3. <<>> \in Seq(Users \X Amounts)
      OBVIOUS
    <2>4. <<"none", 0>> \in Codes \X Amounts
      BY <2>1
    <2> QED  BY <2>2, <2>3, <2>4 DEF Init, TypeOK
  <1>2. \A i \in Txs : pc[i] = "start"
    BY DEF Init
  <1>3. Order /\ Opened /\ Pending
    BY <1>2 DEF Order, Opened, Pending
  <1>4. Balanced
    <2> DEFINE m == [i \in Txs |-> Net(i)]
               f == [x \in Users |-> IF bal[x] = NoRow THEN 0 ELSE bal[x]]
    <2>1. \A i \in Txs : Net(i) = 0
      BY <1>2, NetIdle DEF Ended
    <2>2. DOMAIN m = Txs /\ \A i \in Txs : m[i] = 0
      BY <2>1
    <2>3. IsFiniteSet(Txs) /\ IsFiniteSet(Users)
      BY DagTransferAssumption, CallsAssumption, FS_Interval DEF Txs
    <2> HIDE DEF m
    <2>4. Total(m) = 0
      BY <2>2, <2>3, TotalZero
    <2>5. f \in [Users -> Int]
      BY <1>1 DEF TypeOK, Rows, Amounts
    <2>6. Funds(bal) = Total(f) /\ bal0 = bal
      BY FundsTotal DEF Init
    <2> HIDE DEF f
    <2>7. Funds(bal) \in Int
      BY <2>3, <2>5, <2>6, TotalInt
    <2> QED  BY <2>4, <2>6, <2>7 DEF Balanced, m
  <1> QED  BY <1>1, <1>3, <1>4 DEF IndInv

\* The checks and the first attempt to open the table.
LEMMA StartInv == ASSUME IndInv, NEW i \in Txs, Start(i) PROVE IndInv'
  <1> DEFINE code == Check(inputs[i])
  <1>0. TypeOK /\ Order /\ Opened /\ Pending /\ Balanced
    BY DEF IndInv
  <1>1. /\ Ready(i) /\ pc[i] = "start"
        /\ inputs' = inputs /\ table' = table /\ bal' = bal /\ writes' = writes /\ bal0' = bal0
        /\ reverted' = reverted /\ creator' = creator
    BY DEF Start, Ready
  <1>2. /\ pc' = [pc EXCEPT ![i] = pc'[i]]
        /\ pc'[i] \in {"open", "create", "ended"}
        /\ pc'[i] # "ended" => code = "open"
        /\ pc'[i] = "ended" => code # "open"
        /\ ret' = [ret EXCEPT ![i] = ret'[i]]
        /\ code = "open" => ret'[i] = ret[i]
        /\ code # "open" => ret'[i] = <<code, 0>>
    BY <1>0 DEF Start, TypeOK
  <1>3. Others(i)
    BY <1>0, <1>1, <1>2 DEF Others, TypeOK
  <1>4. TypeOK'
    <2>1. code # "open" => code \in Codes
      BY DEF Check, Codes
    <2>2. 0 \in Amounts
      BY DagTransferAssumption DEF Amounts
    <2>3. ret'[i] \in Codes \X Amounts
      BY <1>0, <1>2, <2>1, <2>2 DEF TypeOK
    <2>4. ret' \in [Txs -> Codes \X Amounts]
      BY <1>0, <1>2, <2>3 DEF TypeOK
    <2>5. pc' \in [Txs -> {"start", "create", "open", "write", "ended"}]
      BY <1>0, <1>2 DEF TypeOK
    <2> QED  BY <1>0, <1>1, <2>4, <2>5 DEF TypeOK
  <1>5. Order'
    BY <1>0, <1>1, <1>3, OrderKept DEF Others
  <1>6. Opened'
    BY <1>0, <1>1, <1>2, <1>3 DEF Opened, Others
  <1>7. Pending'
    <2>1. ASSUME NEW j \in Txs, pc'[j] = "write" PROVE Pends(j)'
      <3>1. j # i /\ pc[j] = "write" /\ writes'[j] = writes[j] /\ ret'[j] = ret[j]
        BY <1>2, <1>3, <2>1 DEF Others
      <3>2. Pends(j)
        BY <1>0, <3>1 DEF Pending, Pends
      <3> QED  BY <1>0, <1>1, <3>1, <3>2, PendsKept
    <2> QED  BY <2>1 DEF Pending, Pends
  <1>8. Balanced'
    <2>1. Net(i) = 0
      BY <1>1, NetIdle DEF Ended
    <2>2. Net(i)' = 0
      <3>1. code = "ok" => inputs[i].op \notin {"userAdd", "userSave", "userDraw"}
        BY DEF Check
      <3>2. Ended(i)' /\ ret'[i][1] = "ok" => inputs'[i].op \notin {"userAdd", "userSave", "userDraw"}
        BY <1>1, <1>2, <3>1 DEF Ended
      <3>3. pc'[i] # "write"
        BY <1>2
      <3> QED  BY <3>2, <3>3, NetIdleNext
    <2>3. \A j \in Txs : Net(j)' = Net(j)
      BY <1>1, <1>3, <2>1, <2>2, NetKept DEF Others
    <2> QED  BY <1>0, <1>1, <2>3, BalancedStays
  <1> QED  BY <1>4, <1>5, <1>6, <1>7, <1>8 DEF IndInv

\* The table is made.
LEMMA CreateInv == ASSUME IndInv, NEW i \in Txs, CreateTable(i) PROVE IndInv'
  <1>0. TypeOK /\ Order /\ Opened /\ Pending /\ Balanced
    BY DEF IndInv
  <1>1. /\ pc[i] = "create" /\ pc' = [pc EXCEPT ![i] = "open"] /\ table' = TRUE
        /\ inputs' = inputs /\ bal' = bal /\ writes' = writes /\ ret' = ret /\ bal0' = bal0
        /\ reverted' = reverted /\ creator' = i
    BY DEF CreateTable
  <1>2. pc'[i] = "open" /\ Others(i)
    BY <1>0, <1>1 DEF Others, TypeOK
  <1>3. TypeOK'
    BY <1>0, <1>1 DEF TypeOK
  <1>4. Order'
    BY <1>0, <1>1, <1>2, OrderKept DEF Others
  <1>5. Opened'
    BY <1>0, <1>1, <1>2 DEF Opened, Others
  <1>6. Pending'
    <2>1. ASSUME NEW j \in Txs, pc'[j] = "write" PROVE Pends(j)'
      <3>1. pc[j] = "write" /\ Pends(j)
        BY <1>0, <1>2, <2>1 DEF Others, Pending, Pends
      <3> QED  BY <1>0, <1>1, <3>1, PendsKept
    <2> QED  BY <2>1 DEF Pending, Pends
  <1>7. Balanced'
    <2>1. Net(i) = 0
      BY <1>1, NetIdle DEF Ended
    <2>2. Net(i)' = 0
      <3>1. pc'[i] # "write" /\ ~ Ended(i)'
        BY <1>2 DEF Ended
      <3> QED  BY <3>1, NetIdleNext
    <2>3. \A j \in Txs : Net(j)' = Net(j)
      BY <1>1, <1>2, <2>1, <2>2, NetKept DEF Others
    <2> QED  BY <1>0, <1>1, <2>3, BalancedStays
  <1> QED  BY <1>3, <1>4, <1>5, <1>6, <1>7 DEF IndInv

\* The table is there already.
LEMMA ThrowsInv == ASSUME IndInv, NEW i \in Txs, CreateTableThrows(i) PROVE IndInv'
  <1>0. TypeOK /\ Order /\ Opened /\ Pending /\ Balanced
    BY DEF IndInv
  <1>1. /\ pc[i] = "create" /\ pc' = [pc EXCEPT ![i] = "ended"] /\ table' = table
        /\ inputs' = inputs /\ bal' = bal /\ writes' = writes /\ bal0' = bal0
        /\ reverted' = reverted \cup {i} /\ creator' = creator
        /\ ret' = [ret EXCEPT ![i] = <<"error info", 0>>]
    BY DEF CreateTableThrows
  <1>2. pc'[i] = "ended" /\ Others(i)
    BY <1>0, <1>1 DEF Others, TypeOK
  <1>3. TypeOK'
    <2>1. "error info" \in Codes /\ 0 \in Amounts
      BY DagTransferAssumption DEF Codes, Amounts
    <2>2. <<"error info", 0>> \in Codes \X Amounts
      BY <2>1
    <2> QED  BY <1>0, <1>1, <2>2 DEF TypeOK
  <1>4. Order'
    BY <1>0, <1>1, <1>2, OrderKept DEF Others
  <1>5. Opened'
    BY <1>0, <1>1, <1>2 DEF Opened, Others
  <1>6. Pending'
    <2>1. ASSUME NEW j \in Txs, pc'[j] = "write" PROVE Pends(j)'
      <3>1. pc[j] = "write" /\ Pends(j) /\ writes'[j] = writes[j] /\ ret'[j] = ret[j]
        BY <1>0, <1>2, <2>1 DEF Others, Pending, Pends
      <3> QED  BY <1>0, <1>1, <3>1, PendsKept
    <2> QED  BY <2>1 DEF Pending, Pends
  <1>7. Balanced'
    <2>1. Net(i) = 0
      BY <1>1, NetIdle DEF Ended
    <2>2. Net(i)' = 0
      <3>1. pc'[i] # "write" /\ ret'[i][1] # "ok"
        BY <1>0, <1>1, <1>2 DEF TypeOK
      <3> QED  BY <3>1, NetIdleNext
    <2>3. \A j \in Txs : Net(j)' = Net(j)
      BY <1>1, <1>2, <2>1, <2>2, NetKept DEF Others
    <2> QED  BY <1>0, <1>1, <2>3, BalancedStays
  <1> QED  BY <1>3, <1>4, <1>5, <1>6, <1>7 DEF IndInv

\* The call is decided.
LEMMA ReadInv == ASSUME IndInv, NEW i \in Txs, Read(i) PROVE IndInv'
  <1> DEFINE r == call(inputs[i], bal)
  <1>0. TypeOK /\ Order /\ Opened /\ Pending /\ Balanced
    BY DEF IndInv
  <1>1. /\ pc[i] = "open"
        /\ ret' = [ret EXCEPT ![i] = r.ret] /\ writes' = [writes EXCEPT ![i] = r.writes]
        /\ pc' = [pc EXCEPT ![i] = IF r.writes = <<>> THEN "ended" ELSE "write"]
        /\ inputs' = inputs /\ table' = table /\ bal' = bal /\ bal0' = bal0
        /\ reverted' = reverted /\ creator' = creator
    BY DEF Read
  <1>2. bal \in Rows /\ inputs[i] \in Calls /\ Check(inputs[i]) = "open"
    BY <1>0, <1>1 DEF TypeOK, Opened
  <1>3. /\ Decided(i, r)
        /\ r.ret \in Codes \X Amounts /\ r.writes \in Seq(Users \X Amounts)
    BY <1>2, CallFacts
  <1> HIDE DEF r
  <1>4. /\ ret'[i] = r.ret /\ writes'[i] = r.writes
        /\ pc'[i] = IF r.writes = <<>> THEN "ended" ELSE "write"
        /\ Others(i)
    BY <1>0, <1>1 DEF Others, TypeOK
  <1>5. TypeOK'
    BY <1>0, <1>1, <1>3 DEF TypeOK
  <1>6. Order'
    BY <1>0, <1>1, <1>4, OrderKept DEF Others
  <1>7. Opened'
    BY <1>0, <1>1, <1>2, <1>4 DEF Opened, Others
  <1>8. r.writes # <<>> => Pends(i)' /\ Net(i)' = 0
    <2> SUFFICES ASSUME r.writes # <<>> PROVE Pends(i)' /\ Net(i)' = 0
      OBVIOUS
    <2> DEFINE c == inputs[i]
    <2>0. /\ inputs'[i] = c /\ pc'[i] = "write" /\ bal'[c.to] = bal[c.to]
          /\ Balance(c.user)' = Balance(c.user) /\ Balance(c.to)' = Balance(c.to)
      BY <1>1, <1>4 DEF Balance
    <2>1. CASE /\ c.op \in {"userAdd", "userSave"} /\ r.ret = <<"ok", 0>>
               /\ r.writes = <<<<c.user, Balance(c.user) + c.amount>>>>
      <3>1. AddPends(i)'
        BY <1>1, <1>4, <2>0, <2>1 DEF AddPends
      <3>2. Net(i)' = 0
        BY <2>0, <2>1 DEF Net
      <3> QED  BY <3>1, <3>2 DEF Pends
    <2>2. CASE /\ c.op = "userDraw" /\ r.ret = <<"ok", 0>>
               /\ r.writes = <<<<c.user, Balance(c.user) - c.amount>>>>
      <3>1. DrawPends(i)'
        BY <1>1, <1>4, <2>0, <2>2 DEF DrawPends
      <3>2. Net(i)' = 0
        BY <2>0, <2>2 DEF Net
      <3> QED  BY <3>1, <3>2 DEF Pends
    <2>3. CASE /\ c.op = "userTransfer" /\ r.ret = <<"CODE_INVALID_BALANCE_OVERFLOW", 0>>
               /\ bal[c.to] = NoRow /\ r.writes = <<<<c.to, 0>>>>
      <3>1. RowPends(i)'
        BY <1>1, <1>4, <2>0, <2>3 DEF RowPends
      <3>2. Net(i)' = 0
        BY <1>4, <2>0, <2>3 DEF Net
      <3> QED  BY <3>1, <3>2 DEF Pends
    <2>4. CASE /\ c.op = "userTransfer" /\ r.ret = <<"ok", 0>>
               /\ LET pay == <<c.user, Balance(c.user) - c.amount>>
                      get == <<c.to, Balance(c.to) + c.amount>>
                  IN \/ bal[c.to] = NoRow /\ r.writes = <<<<c.to, 0>>, pay, get>>
                     \/ r.writes = <<pay, get>>
      <3>1. TransferPends(i)'
        BY <1>1, <1>4, <2>0, <2>4 DEF TransferPends
      <3>2. Len(r.writes) \in {2, 3}
        BY <2>4, Tuples
      <3>3. Len(writes'[i]) # 1
        <4>1. writes'[i] = r.writes
          BY <1>4
        <4> QED  BY <3>2, <4>1
      <3>4. Net(i)' = 0
        BY <2>0, <3>3 DEF Net
      <3> QED  BY <3>1, <3>4 DEF Pends
    <2> QED  BY <1>3, <2>1, <2>2, <2>3, <2>4 DEF Decided
  <1>9. r.writes = <<>> => Net(i)' = 0
    <2> SUFFICES ASSUME r.writes = <<>> PROVE Net(i)' = 0
      OBVIOUS
    <2>1. inputs[i].op \in {"userAdd", "userSave", "userDraw"} => r.ret[1] # "ok"
      BY <1>3, Tuples DEF Decided
    <2>2. /\ pc'[i] # "write"
          /\ ret'[i][1] = "ok" => inputs'[i].op \notin {"userAdd", "userSave", "userDraw"}
      BY <1>1, <1>4, <2>1
    <2> QED  BY <2>2, NetIdleNext
  <1>10. Pending'
    <2>1. ASSUME NEW j \in Txs, j # i, pc'[j] = "write" PROVE Pends(j)'
      <3>1. pc[j] = "write" /\ writes'[j] = writes[j] /\ ret'[j] = ret[j]
        BY <1>4, <2>1 DEF Others
      <3>2. Pends(j)
        BY <1>0, <3>1 DEF Pending, Pends
      <3> QED  BY <1>0, <1>1, <3>1, <3>2, PendsKept
    <2>2. pc'[i] = "write" => Pends(i)'
      BY <1>4, <1>8
    <2> QED  BY <2>1, <2>2 DEF Pending, Pends
  <1>11. Balanced'
    <2>1. Net(i) = 0
      BY <1>1, NetIdle DEF Ended
    <2>2. \A j \in Txs : Net(j)' = Net(j)
      BY <1>1, <1>4, <1>8, <1>9, <2>1, NetKept DEF Others
    <2> QED  BY <1>0, <1>1, <2>2, BalancedStays
  <1> QED  BY <1>5, <1>6, <1>7, <1>10, <1>11 DEF IndInv

\* A row is written.
LEMMA WriteInv == ASSUME IndInv, NEW i \in Txs, Write(i) PROVE IndInv'
  <1>0. TypeOK /\ Order /\ Opened /\ Pending /\ Balanced
    BY DEF IndInv
  <1>1. /\ pc[i] = "write"
        /\ writes' = [writes EXCEPT ![i] = Tail(writes[i])]
        /\ pc' = [pc EXCEPT ![i] = IF Len(writes[i]) = 1 THEN "ended" ELSE "write"]
        /\ inputs' = inputs /\ table' = table /\ ret' = ret /\ bal0' = bal0
        /\ reverted' = reverted /\ creator' = creator
    BY DEF Write
  <1>2. Pends(i)
    BY <1>0, <1>1 DEF Pending, Pends
  <1>3. PICK u \in Users, v \in Amounts :
          /\ u \in Tags(i) /\ bal' = [bal EXCEPT ![u] = v]
          /\ Net(i)' = Net(i) + (v - Balance(u))
          /\ pc'[i] = "write" => Pends(i)'
    BY <1>0, <1>2, WriteFacts
  <1>4. Others(i)
    BY <1>0, <1>1 DEF Others, TypeOK
  <1>5. TypeOK'
    <2>0. writes[i] # <<>>
      BY <1>2, PendsSome
    <2>1. writes[i] \in Seq(Users \X Amounts) /\ writes[i] # <<>>
      BY <1>0, <2>0 DEF TypeOK
    <2>2. Tail(writes[i]) \in Seq(Users \X Amounts)
      BY <2>1
    <2>3. writes' \in [Txs -> Seq(Users \X Amounts)]
      BY <1>0, <1>1, <2>2 DEF TypeOK
    <2>4. bal' \in Rows
      BY <1>0, <1>3 DEF TypeOK, Rows
    <2>5. pc' \in [Txs -> {"start", "create", "open", "write", "ended"}]
      BY <1>0, <1>1 DEF TypeOK
    <2> QED  BY <1>0, <1>1, <2>3, <2>4, <2>5 DEF TypeOK
  <1>6. Order'
    BY <1>0, <1>1, <1>4, OrderKept DEF Others
  <1>7. Opened'
    BY <1>0, <1>1, <1>4 DEF Opened, Others
  <1>8. Pending'
    <2>1. ASSUME NEW j \in Txs, j # i, pc'[j] = "write" PROVE Pends(j)'
      <3>1. pc[j] = "write" /\ writes'[j] = writes[j] /\ ret'[j] = ret[j]
        BY <1>4, <2>1 DEF Others
      <3>2. Pends(j)
        BY <1>0, <3>1 DEF Pending, Pends
      <3>3. Tags(i) \cap Tags(j) = {}
        BY <1>0, <1>1, <2>1, <3>1, Apart
      <3>4. \A x \in Tags(j) : bal'[x] = bal[x]
        BY <1>0, <1>3, <3>3 DEF TypeOK, Rows
      <3> QED  BY <1>0, <1>1, <3>1, <3>2, <3>4, PendsKept
    <2> QED  BY <1>3, <2>1 DEF Pending, Pends
  <1>9. Balanced'
    <2>1. \A j \in Txs \ {i} : Net(j)' = Net(j)
      BY <1>1, <1>4, NetKept DEF Others
    <2> QED  BY <1>0, <1>1, <1>3, <1>5, <2>1, BalancedMoves
  <1> QED  BY <1>5, <1>6, <1>7, <1>8, <1>9 DEF IndInv

\* Nothing happens.
LEMMA StutterInv == ASSUME IndInv, UNCHANGED vars PROVE IndInv'
  <1>1. /\ inputs' = inputs /\ table' = table /\ bal' = bal /\ pc' = pc /\ writes' = writes
        /\ ret' = ret /\ bal0' = bal0 /\ reverted' = reverted /\ creator' = creator
    BY DEF vars
  <1>2. TypeOK' /\ Order' /\ Opened'
    BY <1>1 DEF IndInv, TypeOK, Order, Opened, Tags, Ended
  <1>3. Pending'
    <2>1. ASSUME NEW j \in Txs, pc'[j] = "write" PROVE Pends(j)'
      <3>1. TypeOK /\ Opened /\ pc[j] = "write" /\ Pends(j)
        BY <1>1, <2>1 DEF IndInv, Pending, Pends
      <3> QED  BY <1>1, <3>1, PendsKept
    <2> QED  BY <2>1 DEF Pending, Pends
  <1>4. Balanced'
    <2>1. \A j \in Txs : Net(j)' = Net(j)
      BY <1>1, NetKept
    <2> QED  BY <1>1, <2>1, BalancedStays DEF IndInv
  <1> QED  BY <1>2, <1>3, <1>4 DEF IndInv

-----------------------------------------------------------------------------
(* The theorems.                                                            *)

\* The invariant: calls in progress are apart, what they still write is what their rows
\* call for, and the balances and the money under way add up.
THEOREM Invariance == Spec => []IndInv
  <1>1. IndInv /\ [Next]_vars => IndInv'
    <2> SUFFICES ASSUME IndInv, [Next]_vars PROVE IndInv'
      OBVIOUS
    <2>1. CASE \E i \in Txs :
               Start(i) \/ CreateTable(i) \/ CreateTableThrows(i) \/ Read(i) \/ Write(i)
      BY <2>1, StartInv, CreateInv, ThrowsInv, ReadInv, WriteInv
    <2>2. CASE Done \/ UNCHANGED vars
      BY <2>2, StutterInv DEF Done
    <2> QED  BY <2>1, <2>2 DEF Next
  <1> QED  BY <1>1, InitInv, PTL DEF Spec

\* No balance leaves the range of a u256, however the calls of the block are scheduled.
THEOREM TypeCorrect == Spec => []TypeOK
  <1>1. IndInv => TypeOK
    BY DEF IndInv
  <1> QED  BY <1>1, Invariance, PTL

\* A block of parallel calls makes and loses no money.
THEOREM FundsAreConserved == Spec => []FundsConserved
  <1>1. IndInv => FundsConserved
    <2> SUFFICES ASSUME IndInv, \A i \in Txs : pc[i] # "write"
                 PROVE  Funds(bal) = Funds(bal0) + Total([i \in Txs |-> Deposit(i)])
      BY DEF FundsConserved, Total
    <2>1. \A i \in Txs : Net(i) = Deposit(i)
      BY DEF Net
    <2>2. [i \in Txs |-> Net(i)] = [i \in Txs |-> Deposit(i)]
      BY <2>1
    <2> QED  BY <2>2 DEF IndInv, Balanced
  <1> QED  BY <1>1, Invariance, PTL

-----------------------------------------------------------------------------
(* The table.  Two calls that both look for it in vain are in progress at  *)
(* the same time, so that they share no tag, and the one that comes second *)
(* to create it is the one that is reverted.                               *)

\* The table was created by a transaction of the DAG that shares no tag with i.
Beside(i) ==
  /\ creator \in Txs
  /\ Tags(i) # {} /\ Tags(creator) # {} /\ Tags(i) \cap Tags(creator) = {}

Creation ==
  /\ creator # 0 => table /\ pc[creator] \notin {"start", "create"} /\ creator \notin reverted
  /\ \A i \in Txs : (pc[i] = "create" /\ table) \/ i \in reverted => Beside(i)
  /\ \A i \in reverted : Ended(i)

\* Two transactions in progress are both of the DAG.
LEMMA BothTagged ==
  ASSUME Order, NEW i \in Txs, NEW j \in Txs \ {i},
         pc[i] \notin {"start", "ended"}, pc[j] \notin {"start", "ended"}
  PROVE  Tags(i) # {}
  <1> SUFFICES ASSUME Tags(i) = {} PROVE FALSE
    OBVIOUS
  <1>1. i \in Int /\ j \in Int /\ (i < j \/ j < i) /\ j \in Txs /\ i \in Txs \ {j}
    BY DagTransferAssumption DEF Txs
  <1>2. ~ Ended(i) /\ ~ Ended(j)
    BY DEF Ended
  <1>3. Tags(j) = {} /\ ~ (j < i)
    BY <1>1, <1>2 DEF Order
  <1> QED  BY <1>1, <1>2, <1>3 DEF Order

\* Each step.
LEMMA CreationStep ==
  ASSUME IndInv, Creation, NEW i \in Txs,
         Start(i) \/ CreateTable(i) \/ CreateTableThrows(i) \/ Read(i) \/ Write(i)
  PROVE  Creation'
  <1>0. TypeOK /\ Order /\ 0 \notin Txs /\ reverted \subseteq Txs
    BY DEF IndInv, TypeOK, Txs
  <1>1. inputs' = inputs /\ ~ Ended(i) /\ (\A j \in Txs \ {i} : pc'[j] = pc[j]) /\ i \notin reverted
    BY <1>0 DEF Start, Ready, CreateTable, CreateTableThrows, Read, Write, TypeOK, Creation, Ended
  <1>2. \A j \in Txs : Tags(j)' = Tags(j)
    BY <1>1 DEF Tags
  <1>3. creator # 0 => creator \in Txs
    BY <1>0 DEF TypeOK
  <1>4. CASE Start(i) \/ Read(i) \/ Write(i)
    <2>1. /\ table' = table /\ reverted' = reverted /\ creator' = creator
          /\ pc'[i] \notin {"start"} /\ (pc'[i] = "create" => pc[i] = "start" /\ ~ table)
          /\ pc[i] # "create"
      BY <1>0, <1>4 DEF Start, Ready, Read, Write, TypeOK
    <2>2. \A j \in Txs : Beside(j) => Beside(j)'
      BY <1>2, <2>1 DEF Beside
    <2>3. creator # 0 => table /\ pc'[creator] \notin {"start", "create"} /\ creator \notin reverted
      BY <1>1, <1>3, <2>1 DEF Creation
    <2>4. ASSUME NEW j \in Txs, (pc'[j] = "create" /\ table) \/ j \in reverted PROVE Beside(j)
      BY <1>1, <2>1, <2>4 DEF Creation
    <2>5. ASSUME NEW j \in reverted PROVE Ended(j)'
      BY <1>0, <1>1 DEF Creation, Ended
    <2> QED  BY <2>1, <2>2, <2>3, <2>4, <2>5 DEF Creation
  <1>5. CASE CreateTable(i)
    <2>1. /\ pc[i] = "create" /\ ~ table /\ table' = TRUE /\ creator' = i /\ reverted' = reverted
          /\ pc'[i] = "open"
      BY <1>0, <1>5 DEF CreateTable, TypeOK
    <2>2. creator = 0
      BY <2>1 DEF Creation
    <2>3. reverted = {}
      BY <1>0, <2>2 DEF Creation, Beside
    <2>4. ASSUME NEW j \in Txs, pc'[j] = "create" PROVE Beside(j)'
      <3>1. j \in Txs \ {i} /\ i \in Txs \ {j} /\ pc[j] = "create"
        BY <1>1, <2>1, <2>4
      <3>2. Tags(i) # {} /\ Tags(j) # {} /\ Tags(j) \cap Tags(i) = {}
        BY <1>0, <2>1, <3>1, Apart, BothTagged
      <3>3. Tags(creator)' = Tags(i)
        BY <1>1, <2>1 DEF Tags
      <3> QED  BY <1>2, <2>1, <3>2, <3>3 DEF Beside
    <2> QED  BY <2>1, <2>3, <2>4 DEF Creation
  <1>6. CASE CreateTableThrows(i)
    <2>1. /\ pc[i] = "create" /\ table /\ table' = table /\ creator' = creator
          /\ reverted' = reverted \cup {i} /\ pc'[i] = "ended"
      BY <1>0, <1>6 DEF CreateTableThrows, TypeOK
    <2>2. \A j \in Txs : Beside(j) => Beside(j)'
      BY <1>2, <2>1 DEF Beside
    <2>3. creator # 0 => table /\ pc'[creator] \notin {"start", "create"} /\ creator \notin reverted'
      BY <1>1, <1>3, <2>1 DEF Creation
    <2>4. ASSUME NEW j \in Txs, (pc'[j] = "create" /\ table) \/ j \in reverted' PROVE Beside(j)
      BY <1>1, <2>1, <2>4 DEF Creation
    <2>5. ASSUME NEW j \in reverted' PROVE Ended(j)'
      BY <1>0, <1>1, <2>1 DEF Creation, Ended
    <2> QED  BY <2>1, <2>2, <2>3, <2>4, <2>5 DEF Creation
  <1> QED  BY <1>4, <1>5, <1>6

\* The table is created once, before anybody is reverted for it.
LEMMA CreationHolds == Spec => []Creation
  <1>1. Init => Creation
    BY DEF Init, Creation
  <1>2. IndInv /\ Creation /\ [Next]_vars => Creation'
    <2> SUFFICES ASSUME IndInv, Creation, [Next]_vars PROVE Creation'
      OBVIOUS
    <2>1. CASE \E i \in Txs :
               Start(i) \/ CreateTable(i) \/ CreateTableThrows(i) \/ Read(i) \/ Write(i)
      BY <2>1, CreationStep
    <2>2. CASE Done \/ UNCHANGED vars
      <3>1. UNCHANGED vars
        BY <2>2 DEF Done
      <3> QED  BY <3>1 DEF vars, Creation, Beside, Tags, Ended
    <2> QED  BY <2>1, <2>2 DEF Next
  <1> QED  BY <1>1, <1>2, Invariance, PTL DEF Spec

\* A call is reverted only beside the call of the DAG, on other accounts, that created the
\* table; that one never is.
THEOREM RevertedBesideCreatorHolds == Spec => []RevertedBesideCreator
  <1>1. IndInv /\ Creation => RevertedBesideCreator
    <2>1. IndInv => reverted \subseteq Txs /\ 0 \notin Txs
      BY DEF IndInv, TypeOK, Txs
    <2> QED  BY <2>1 DEF Creation, Beside, RevertedBesideCreator
  <1> QED  BY <1>1, CreationHolds, Invariance, PTL

-----------------------------------------------------------------------------
(* As if serial.  The tags of a transaction name the rows it reads and     *)
(* writes, so that a row holds what the serial execution leaves in it      *)
(* after any turn that separates the transactions with its tag that have   *)
(* ended from those that have not started (Cut).                           *)

\* A row between two transactions that name it holds what it holds in the serial order.
Cut ==
  \A u \in Users, n \in 0 .. N :
    (\A j \in Txs : u \in Tags(j) => IF j <= n THEN Ended(j) ELSE pc[j] = "start")
      => bal[u] = SerialRows(reverted)[n][u]

\* A transaction that is about to read finds its rows as in the serial order.
Finds ==
  \A i \in Txs : pc[i] \in {"create", "open"} =>
    \A u \in Tags(i) : bal[u] = SerialRows(reverted)[i - 1][u]

\* One that writes will leave them as in the serial order.
Leaves ==
  \A i \in Txs : pc[i] = "write" =>
    \A u \in Tags(i) : Written(bal, writes[i])[u] = SerialRows(reverted)[i][u]

\* It answers what it answers in the serial order.
Answers ==
  \A i \in Txs : pc[i] \in {"write", "ended"} /\ i \notin reverted =>
    ret[i] = Serially(inputs[i], SerialRows(reverted)[Turn(i) - 1]).ret

SerialInv == Cut /\ Finds /\ Leaves /\ Answers

\* A set of numbers up to M has a least and a greatest member.
LEMMA Least ==
  ASSUME NEW M \in Nat, NEW B, B \subseteq 0 .. M, B # {}
  PROVE  \E n \in B : \A m \in B : n <= m
  <1> DEFINE U == 0 .. M
             C == {0 .. n : n \in B}
  <1>0. IsFiniteSet(U)
    BY FS_Interval
  <1>1. C \subseteq SUBSET U /\ C # {}
    <2>1. \A n \in B : 0 .. n \subseteq U
      OBVIOUS
    <2> HIDE DEF U
    <2> QED  BY <2>1
  <1>2. PICK s \in C : \A t \in C : t \subseteq s => t = s
    <2> HIDE DEF C, U
    <2> QED  BY <1>0, <1>1, Smallest
  <1>3. PICK n \in B : s = 0 .. n
    BY <1>2
  <1>4. ASSUME NEW m \in B, ~ (n <= m) PROVE FALSE
    <2>1. 0 .. m \subseteq 0 .. n /\ n \in 0 .. n /\ n \notin 0 .. m
      BY <1>4
    <2>2. 0 .. m = 0 .. n
      BY <1>2, <1>3, <2>1
    <2> QED  BY <2>1, <2>2
  <1> QED  BY <1>4

LEMMA Greatest ==
  ASSUME NEW M \in Nat, NEW B, B \subseteq 0 .. M, B # {}
  PROVE  Max(B) \in B /\ \A m \in B : Max(B) >= m
  <1> DEFINE C == {M - n : n \in B}
  <1>1. C \subseteq 0 .. M /\ C # {}
    <2>1. \A n \in B : M - n \in 0 .. M
      OBVIOUS
    <2> QED  BY <2>1
  <1>2. PICK k \in C : \A m \in C : k <= m
    <2> HIDE DEF C
    <2> QED  BY <1>1, Least
  <1>3. PICK n \in B : k = M - n
    BY <1>2
  <1>4. \A m \in B : n >= m
    <2> TAKE m \in B
    <2>1. M - n <= M - m /\ n \in Int /\ m \in Int
      BY <1>2, <1>3
    <2> QED  BY <2>1
  <1> QED  BY <1>4 DEF Max

-----------------------------------------------------------------------------
(* Writes and calls on their own rows.                                      *)

\* The writes to row u.
Mine(ws, u) == {k \in DOMAIN ws : ws[k][1] = u}

\* A row after some writes.
LEMMA WrittenAt ==
  ASSUME NEW rows, NEW ws, NEW u \in Users
  PROVE  /\ Mine(ws, u) = {} => Written(rows, ws)[u] = rows[u]
         /\ Mine(ws, u) # {} => Written(rows, ws)[u] = ws[Max(Mine(ws, u))][2]
  BY DEF Written, Mine

\* No writes.
LEMMA WrittenNone ==
  ASSUME NEW rows, NEW u \in Users
  PROVE  Written(rows, <<>>)[u] = rows[u]
  <1>1. Mine(<<>>, u) = {}
    BY DEF Mine
  <1> QED  BY <1>1, WrittenAt

\* A row after some writes depends on what it held before alone.
LEMMA WrittenLocal ==
  ASSUME NEW rows, NEW others, NEW ws, NEW u \in Users, rows[u] = others[u]
  PROVE  Written(rows, ws)[u] = Written(others, ws)[u]
  BY WrittenAt

\* One write, and then the rest.
LEMMA WrittenStep ==
  ASSUME NEW rows \in Rows, NEW ws \in Seq(Users \X Amounts), ws # <<>>, NEW u \in Users,
         NEW next, next = [rows EXCEPT ![Head(ws)[1]] = Head(ws)[2]]
  PROVE  Written(next, Tail(ws))[u] = Written(rows, ws)[u]
  <1> DEFINE t == Tail(ws)
             a == Mine(ws, u)
             b == Mine(t, u)
  <1>1. /\ Len(ws) \in Nat /\ Len(ws) > 0 /\ DOMAIN ws = 1 .. Len(ws) /\ Head(ws) = ws[1]
        /\ DOMAIN t = 1 .. Len(ws) - 1 /\ \A k \in 1 .. Len(ws) - 1 : t[k] = ws[k + 1]
    OBVIOUS
  <1>2. next[u] = IF ws[1][1] = u THEN ws[1][2] ELSE rows[u]
    BY <1>1 DEF Rows
  <1> HIDE DEF t
  <1>3. \A k \in Nat : k \in b <=> k + 1 \in a /\ k >= 1
    BY <1>1 DEF Mine
  <1>4. a \subseteq 0 .. Len(ws) /\ b \subseteq 0 .. Len(ws) /\ 0 \notin a /\ 0 \notin b
    BY <1>1 DEF Mine
  <1>5. 1 \in a <=> ws[1][1] = u
    BY <1>1 DEF Mine
  <1> HIDE DEF a, b
  <1>6. CASE b # {}
    <2>1. Max(b) \in b /\ \A m \in b : Max(b) >= m
      BY <1>1, <1>4, <1>6, Greatest
    <2>2. Max(b) \in Nat /\ Max(b) >= 1 /\ Max(b) + 1 \in a
      <3>1. Max(b) \in Nat
        <4>1. Max(b) \in 0 .. Len(ws)
          BY <1>4, <2>1
        <4> QED  BY <1>1, <4>1
      <3> QED  BY <1>3, <2>1, <3>1
    <2>3. a # {}
      BY <2>2
    <2>4. Max(a) \in a /\ \A m \in a : Max(a) >= m
      BY <1>1, <1>4, <2>3, Greatest
    <2>5. Max(a) = Max(b) + 1
      <3>1. Max(a) \in Nat /\ Max(a) >= Max(b) + 1
        <4>1. Max(a) \in 0 .. Len(ws)
          BY <1>4, <2>4
        <4> QED  BY <1>1, <2>2, <2>4, <4>1
      <3>2. Max(a) - 1 \in Nat /\ (Max(a) - 1) + 1 = Max(a) /\ Max(a) - 1 >= 1
        BY <2>2, <3>1
      <3>3. Max(a) - 1 \in b
        BY <1>3, <2>4, <3>2
      <3>4. Max(b) >= Max(a) - 1
        BY <2>1, <3>3
      <3> QED  BY <2>2, <3>1, <3>4
    <2>6. t[Max(b)] = ws[Max(a)]
      <3>1. Max(b) \in 1 .. Len(ws) - 1
        BY <1>1, <2>1 DEF b, Mine
      <3> QED  BY <1>1, <2>5, <3>1
    <2>7. Written(next, t)[u] = t[Max(b)][2]
      BY <1>6, WrittenAt DEF b
    <2>8. Written(rows, ws)[u] = ws[Max(a)][2]
      BY <2>3, WrittenAt DEF a
    <2> QED  BY <2>6, <2>7, <2>8 DEF t
  <1>7. CASE b = {}
    <2>1. \A k \in a : k = 1
      <3> SUFFICES ASSUME NEW k \in a, k # 1 PROVE FALSE
        OBVIOUS
      <3>1. k \in Nat /\ k > 1
        BY <1>4
      <3>2. k - 1 \in Nat /\ (k - 1) + 1 = k /\ k - 1 >= 1
        BY <3>1
      <3> QED  BY <1>3, <1>7, <3>2
    <2>2. Written(next, t)[u] = next[u]
      <3>1. Mine(t, u) = {}
        BY <1>7 DEF b
      <3>2. Mine(t, u) = {} => Written(next, t)[u] = next[u]
        BY ONLY WrittenAt, u \in Users, Zenon
      <3> QED  BY <3>1, <3>2, Zenon
    <2>3. CASE ws[1][1] = u
      <3>1. a # {} /\ a \subseteq 0 .. Len(ws)
        BY <1>4, <1>5, <2>3
      <3>2. Max(a) = 1
        BY <1>1, <2>1, <3>1, Greatest
      <3> QED  BY <1>2, <2>2, <2>3, <3>1, <3>2, WrittenAt DEF a, t
    <2>4. CASE ws[1][1] # u
      <3>1. a = {}
        BY <1>5, <2>1, <2>4
      <3> QED  BY <1>2, <2>2, <2>4, <3>1, WrittenAt DEF a, t
    <2> QED  BY <2>3, <2>4
  <1> QED  BY <1>6, <1>7

\* The rows a call reads.
Reads(c) == IF c.op = "userTransfer" THEN {c.user, c.to} ELSE {c.user}

\* A call depends on them alone.
LEMMA CallLocal ==
  ASSUME NEW c \in Calls, Check(c) = "open", NEW rows, NEW others,
         \A u \in Reads(c) : rows[u] = others[u]
  PROVE  call(c, rows) = call(c, others)
  <1>1. /\ c.op \in {"userAdd", "userSave", "userDraw", "userBalance", "userTransfer"}
        /\ rows[c.user] = others[c.user]
        /\ c.op = "userTransfer" => rows[c.to] = others[c.to]
    BY CheckFacts DEF Reads
  <1>2. CASE c.op = "userAdd"
    BY <1>1, <1>2 DEF call, userAdd
  <1>3. CASE c.op = "userSave"
    BY <1>1, <1>3 DEF call, userSave
  <1>4. CASE c.op = "userDraw"
    BY <1>1, <1>4 DEF call, userDraw
  <1>5. CASE c.op = "userBalance"
    BY <1>1, <1>5 DEF call, userBalance
  <1>6. CASE c.op = "userTransfer"
    <2>1. userTransfer(c, rows) = userTransfer(c, others)
      BY <1>1, <1>6 DEF userTransfer
    <2> QED  BY <1>6, <2>1 DEF call
  <1> QED  BY <1>1, <1>2, <1>3, <1>4, <1>5, <1>6

\* It writes to its tags alone, and does not write at all without one.
LEMMA CallTags ==
  ASSUME NEW c \in Calls, Check(c) = "open", NEW rows, NEW u, u \notin getParallelTag(c)
  PROVE  Mine(call(c, rows).writes, u) = {}
  <1> DEFINE ws == call(c, rows).writes
  <1>1. /\ c.op \in {"userAdd", "userSave", "userDraw", "userBalance", "userTransfer"}
        /\ c.op \in {"userAdd", "userSave", "userDraw"} => u # c.user
        /\ c.op = "userTransfer" => u # c.user /\ u # c.to
    BY CheckFacts
  <1>2. ASSUME NEW x, NEW y, NEW z PROVE
          /\ Mine(<<>>, u) = {}
          /\ x[1] # u => Mine(<<x>>, u) = {}
          /\ x[1] # u /\ y[1] # u => Mine(<<x, y>>, u) = {}
          /\ x[1] # u /\ y[1] # u /\ z[1] # u => Mine(<<x, y, z>>, u) = {}
    BY DEF Mine
  <1> HIDE DEF ws
  <1>3. CASE c.op = "userBalance"
    <2>1. ws = <<>>
      BY <1>3 DEF call, userBalance, Fails, ws
    <2> QED  BY <1>2, <2>1 DEF ws
  <1>4. CASE c.op \in {"userAdd", "userSave", "userDraw"}
    <2>1. ws = <<>> \/ \E v : ws = <<<<c.user, v>>>>
      BY <1>4 DEF call, userAdd, userSave, userDraw, Fails, Writes, ws
    <2> QED  BY <1>1, <1>2, <1>4, <2>1 DEF ws
  <1>5. CASE c.op = "userTransfer"
    <2>1. call(c, rows) = userTransfer(c, rows)
      BY <1>5 DEF call
    <2>2. \E f, t :
            \/ ws = <<>> \/ ws = <<<<c.to, 0>>>>
            \/ ws = <<>> \o <<<<c.user, f>>, <<c.to, t>>>>
            \/ ws = <<<<c.to, 0>>>> \o <<<<c.user, f>>, <<c.to, t>>>>
      <3> DEFINE from == rows[c.user]
                 to == IF rows[c.to] = NoRow THEN 0 ELSE rows[c.to]
                 new == IF rows[c.to] = NoRow THEN <<<<c.to, 0>>>> ELSE <<>>
                 f == from - c.amount
                 t == Sum2(to, c.amount)
      <3>1. ws = <<>> \/ ws = new \/ ws = new \o <<<<c.user, f>>, <<c.to, t>>>>
        BY <2>1 DEF userTransfer, Fails, Writes, ws
      <3>2. new = <<>> \/ new = <<<<c.to, 0>>>>
        OBVIOUS
      <3> HIDE DEF new, f, t
      <3> QED  BY <3>1, <3>2
    <2>3. \E f, t :
            \/ ws = <<>> \/ ws = <<<<c.to, 0>>>>
            \/ ws = <<<<c.user, f>>, <<c.to, t>>>>
            \/ ws = <<<<c.to, 0>>, <<c.user, f>>, <<c.to, t>>>>
      BY <2>2, Joined
    <2>4. PICK f, t :
            \/ ws = <<>> \/ ws = <<<<c.to, 0>>>>
            \/ ws = <<<<c.user, f>>, <<c.to, t>>>>
            \/ ws = <<<<c.to, 0>>, <<c.user, f>>, <<c.to, t>>>>
      BY <2>3
    <2> DEFINE x == <<c.to, 0>>
               y == <<c.user, f>>
               z == <<c.to, t>>
    <2>5. x[1] # u /\ y[1] # u /\ z[1] # u
      BY <1>1, <1>5
    <2>6. ws = <<>> \/ ws = <<x>> \/ ws = <<y, z>> \/ ws = <<x, y, z>>
      BY <2>4
    <2> HIDE DEF x, y, z
    <2> QED  BY <1>2, <2>5, <2>6 DEF ws
  <1> QED  BY <1>1, <1>3, <1>4, <1>5

-----------------------------------------------------------------------------
(* The serial execution.                                                    *)

\* What turn n does to the rows.
Step(R, n, rows) ==
  LET i == IF n <= N THEN n ELSE n - N IN
  IF Turn(i) # n \/ i \in R THEN rows ELSE Written(rows, Serially(inputs[i], rows).writes)

\* g holds the rows after each of the first M turns.
Runs(R, g, M) == g = [n \in 0 .. M |-> IF n = 0 THEN bal0 ELSE Step(R, n, g[n - 1])]

\* There is such a g.
LEMMA RunsExist ==
  ASSUME NEW R, NEW K \in Nat
  PROVE  \E g : Runs(R, g, K)
  <1> DEFINE B == {M \in 0 .. K : ~ \E g : Runs(R, g, M)}
  <1> SUFFICES ASSUME B # {} PROVE FALSE
    OBVIOUS
  <1>0. B \subseteq 0 .. K
    OBVIOUS
  <1>1. PICK M \in B : \A m \in B : M <= m
    <2> HIDE DEF B
    <2> QED  BY <1>0, Least
  <1>2. M # 0
    <2>1. Runs(R, [n \in 0 .. 0 |-> bal0], 0)
      BY DEF Runs
    <2> SUFFICES ASSUME M = 0 PROVE FALSE
      OBVIOUS
    <2>2. ~ \E g : Runs(R, g, M)
      BY <1>1
    <2> HIDE DEF B
    <2> QED  BY <2>1, <2>2
  <1>3. M - 1 \in 0 .. K /\ ~ (M <= M - 1) /\ M \in Nat /\ M > 0
    BY <1>1, <1>2
  <1>4. M - 1 \notin B
    BY <1>1, <1>3
  <1>5. PICK g : Runs(R, g, M - 1)
    BY <1>3, <1>4
  <1> DEFINE h == [n \in 0 .. M |-> IF n = M THEN Step(R, M, g[M - 1]) ELSE g[n]]
  <1>6. ASSUME NEW n \in 0 .. M
        PROVE  h[n] = IF n = 0 THEN bal0 ELSE Step(R, n, h[n - 1])
    <2>1. CASE n = M
      <3>1. M - 1 \in 0 .. M /\ M - 1 # M
        BY <1>3
      <3> QED  BY <1>3, <2>1, <3>1
    <2>2. CASE n # M
      <3>1. n \in 0 .. M - 1
        BY <1>3, <2>2
      <3>2. g[n] = IF n = 0 THEN bal0 ELSE Step(R, n, g[n - 1])
        BY <1>5, <3>1 DEF Runs
      <3>3. n # 0 => n - 1 \in 0 .. M /\ n - 1 # M
        BY <1>3, <3>1
      <3> QED  BY <2>2, <3>2, <3>3
    <2> QED  BY <2>1, <2>2
  <1>7. Runs(R, h, M)
    <2>1. h = [n \in 0 .. M |-> h[n]]
      OBVIOUS
    <2> HIDE DEF h
    <2> QED  BY <1>6, <2>1 DEF Runs
  <1> QED  BY <1>1, <1>7

\* The rows of the serial execution, turn by turn.
LEMMA SerialTurns ==
  ASSUME NEW R
  PROVE  /\ SerialRows(R)[0] = bal0
         /\ \A n \in 1 .. 2 * N : SerialRows(R)[n] = Step(R, n, SerialRows(R)[n - 1])
  <1>1. SerialRows(R) = CHOOSE g : Runs(R, g, 2 * N)
    BY DEF SerialRows, Runs, Step
  <1>2. 2 * N \in Nat
    BY DagTransferAssumption
  <1>3. Runs(R, SerialRows(R), 2 * N)
    BY <1>1, <1>2, RunsExist
  <1>4. 0 \in 0 .. 2 * N /\ \A n \in 1 .. 2 * N : n \in 0 .. 2 * N /\ n # 0
    BY <1>2
  <1> HIDE DEF SerialRows
  <1> QED  BY <1>3, <1>4 DEF Runs

\* A transaction that fails its checks writes nothing in the serial execution either, and
\* neither does one without a tag.
LEMMA SerialWrites ==
  ASSUME inputs \in [Txs -> Calls], NEW i \in Txs, NEW rows, NEW u \in Users, u \notin Tags(i)
  PROVE  Written(rows, Serially(inputs[i], rows).writes)[u] = rows[u]
  <1>1. inputs[i] \in Calls
    OBVIOUS
  <1>2. CASE Check(inputs[i]) # "open"
    <2>1. Serially(inputs[i], rows).writes = <<>>
      BY <1>2 DEF Serially, Fails
    <2> QED  BY <2>1, WrittenNone
  <1>3. CASE Check(inputs[i]) = "open"
    <2>1. Serially(inputs[i], rows) = call(inputs[i], rows)
      BY <1>3 DEF Serially
    <2>2. Mine(call(inputs[i], rows).writes, u) = {}
      BY <1>1, <1>3, CallTags DEF Tags
    <2> QED  BY <2>1, <2>2, WrittenAt
  <1> QED  BY <1>2, <1>3

\* The turn of a tagged transaction, and a turn that leaves a row alone.
LEMMA FirstPass ==
  ASSUME NEW R, inputs \in [Txs -> Calls], NEW i \in Txs
  PROVE  /\ Tags(i) # {} /\ i \notin R =>
              SerialRows(R)[i] =
                Written(SerialRows(R)[i - 1], Serially(inputs[i], SerialRows(R)[i - 1]).writes)
         /\ i \in R => SerialRows(R)[i] = SerialRows(R)[i - 1]
         /\ \A u \in Users : u \notin Tags(i) => SerialRows(R)[i][u] = SerialRows(R)[i - 1][u]
  <1> DEFINE rows == SerialRows(R)[i - 1]
  <1>1. i \in 1 .. 2 * N /\ i <= N /\ N + i # i /\ i \in Int
    BY DagTransferAssumption DEF Txs
  <1>2. SerialRows(R)[i] = Step(R, i, rows)
    BY <1>1, SerialTurns
  <1> HIDE DEF rows
  <1>3. Tags(i) # {} /\ i \notin R => SerialRows(R)[i] = Written(rows, Serially(inputs[i], rows).writes)
    BY <1>1, <1>2 DEF Step, Turn
  <1>4. Tags(i) = {} \/ i \in R => SerialRows(R)[i] = rows
    BY <1>1, <1>2 DEF Step, Turn
  <1>5. ASSUME NEW u \in Users, u \notin Tags(i) PROVE SerialRows(R)[i][u] = rows[u]
    BY <1>3, <1>4, <1>5, SerialWrites
  <1> QED  BY <1>3, <1>4, <1>5 DEF rows

\* A turn of the second pass changes no row.
LEMMA SecondPass ==
  ASSUME NEW R, inputs \in [Txs -> Calls], NEW i \in Txs, NEW u \in Users
  PROVE  SerialRows(R)[N + i][u] = SerialRows(R)[N + i - 1][u]
  <1> DEFINE n == N + i
             rows == SerialRows(R)[n - 1]
  <1>1. n \in 1 .. 2 * N /\ ~ (n <= N) /\ n - N = i /\ n # i /\ N + i - 1 = n - 1
    BY DagTransferAssumption DEF Txs
  <1>2. SerialRows(R)[n] = Step(R, n, rows)
    BY <1>1, SerialTurns
  <1> HIDE DEF rows
  <1>3. CASE Tags(i) = {} /\ i \notin R
    <2>1. SerialRows(R)[n] = Written(rows, Serially(inputs[i], rows).writes)
      BY <1>1, <1>2, <1>3 DEF Step, Turn
    <2>2. u \notin Tags(i)
      BY <1>3
    <2>3. Written(rows, Serially(inputs[i], rows).writes)[u] = rows[u]
      BY <2>2, SerialWrites
    <2> QED  BY <1>1, <2>1, <2>3 DEF rows
  <1>4. CASE Tags(i) # {} \/ i \in R
    <2>1. SerialRows(R)[n] = rows
      BY <1>1, <1>2, <1>4 DEF Step, Turn
    <2> QED  BY <1>1, <2>1 DEF rows
  <1> QED  BY <1>3, <1>4

\* A row holds what it held at an earlier turn if nobody with its tag came in between.
LEMMA Between ==
  ASSUME NEW R, inputs \in [Txs -> Calls], NEW u \in Users, NEW m \in 0 .. N, NEW n \in 0 .. N, m <= n,
         \A j \in Txs : u \in Tags(j) => j <= m \/ j > n
  PROVE  SerialRows(R)[n][u] = SerialRows(R)[m][u]
  <1> DEFINE Row(k) == SerialRows(R)[k][u]
             B == {k \in m .. n : Row(k) # Row(m)}
  <1> HIDE DEF Row
  <1> SUFFICES ASSUME B # {} PROVE FALSE
    <2>1. n \in m .. n
      OBVIOUS
    <2>2. Row(n) = Row(m)
      BY <2>1
    <2> QED  BY <2>2 DEF Row
  <1>0. N \in Nat /\ B \subseteq 0 .. N
    BY DagTransferAssumption
  <1>1. PICK k \in B : \A l \in B : k <= l
    <2> HIDE DEF B
    <2> QED  BY <1>0, Least
  <1>2. k \in m .. n /\ Row(k) # Row(m)
    BY <1>1
  <1>3. k # m /\ k \in Txs /\ k - 1 \in m .. n /\ ~ (k <= k - 1) /\ ~ (k <= m) /\ ~ (k > n)
    BY <1>0, <1>2 DEF Txs
  <1>4. Row(k - 1) = Row(m)
    BY <1>1, <1>3
  <1>5. u \notin Tags(k)
    BY <1>3
  <1>6. SerialRows(R)[k][u] = SerialRows(R)[k - 1][u]
    BY <1>3, <1>5, FirstPass
  <1> QED  BY <1>2, <1>4, <1>6 DEF Row

\* After the first pass nothing changes any more.
LEMMA AfterFirstPass ==
  ASSUME NEW R, inputs \in [Txs -> Calls], NEW u \in Users, NEW n \in N .. 2 * N
  PROVE  SerialRows(R)[n][u] = SerialRows(R)[N][u]
  <1> DEFINE Row(k) == SerialRows(R)[k][u]
             B == {k \in N .. 2 * N : Row(k) # Row(N)}
  <1> HIDE DEF Row
  <1> SUFFICES ASSUME B # {} PROVE FALSE
    <2>1. Row(n) = Row(N)
      OBVIOUS
    <2> QED  BY <2>1 DEF Row
  <1>0. N \in Nat /\ 2 * N \in Nat /\ B \subseteq 0 .. 2 * N
    BY DagTransferAssumption
  <1>1. PICK k \in B : \A l \in B : k <= l
    <2> HIDE DEF B
    <2> QED  BY <1>0, Least
  <1>2. k \in N .. 2 * N /\ Row(k) # Row(N)
    BY <1>1
  <1>3. /\ k - N \in Txs /\ N + (k - N) = k /\ N + (k - N) - 1 = k - 1
        /\ k - 1 \in N .. 2 * N /\ ~ (k <= k - 1)
    BY <1>0, <1>2 DEF Txs
  <1>4. Row(k - 1) = Row(N)
    BY <1>1, <1>3
  <1>5. SerialRows(R)[N + (k - N)][u] = SerialRows(R)[N + (k - N) - 1][u]
    BY <1>3, SecondPass
  <1>6. SerialRows(R)[k][u] = SerialRows(R)[k - 1][u]
    BY <1>3, <1>5
  <1> QED  BY <1>2, <1>4, <1>6 DEF Row

\* What a turn leaves is a table of all users.
LEMMA SerialDomain ==
  ASSUME NEW R, bal0 \in Rows, NEW n \in 0 .. 2 * N
  PROVE  SerialRows(R)[n] = [u \in Users |-> SerialRows(R)[n][u]]
  <1> DEFINE B == {k \in 0 .. 2 * N : SerialRows(R)[k] # [u \in Users |-> SerialRows(R)[k][u]]}
  <1> SUFFICES ASSUME B # {} PROVE FALSE
    OBVIOUS
  <1>0. 2 * N \in Nat /\ B \subseteq 0 .. 2 * N
    BY DagTransferAssumption
  <1>1. PICK k \in B : \A l \in B : k <= l
    <2> HIDE DEF B
    <2> QED  BY <1>0, Least
  <1>2. k # 0
    <2>1. SerialRows(R)[0] = [u \in Users |-> SerialRows(R)[0][u]]
      BY SerialTurns DEF Rows
    <2> QED  BY <1>1, <2>1
  <1>3. k \in 1 .. 2 * N /\ k - 1 \in 0 .. 2 * N /\ ~ (k <= k - 1)
    BY <1>0, <1>1, <1>2
  <1> DEFINE rows == SerialRows(R)[k - 1]
  <1>4. rows = [u \in Users |-> rows[u]]
    BY <1>1, <1>3
  <1>5. SerialRows(R)[k] = Step(R, k, rows)
    BY <1>3, SerialTurns
  <1> HIDE DEF rows
  <1>6. Step(R, k, rows) = [u \in Users |-> Step(R, k, rows)[u]]
    <2>1. CASE Step(R, k, rows) = rows
      BY <1>4, <2>1
    <2>2. ASSUME NEW ws, Step(R, k, rows) = Written(rows, ws)
          PROVE  Step(R, k, rows) = [u \in Users |-> Step(R, k, rows)[u]]
      <3>1. Written(rows, ws) = [u \in Users |-> Written(rows, ws)[u]]
        BY DEF Written
      <3> QED  BY <2>2, <3>1
    <2> QED  BY <2>1, <2>2 DEF Step
  <1>7. SerialRows(R)[k] = [u \in Users |-> SerialRows(R)[k][u]]
    BY <1>5, <1>6
  <1> QED  BY <1>1, <1>7

\* The serial execution of a block changes, while the block runs, by what is reverted alone.
LEMMA SerialKept ==
  ASSUME inputs' = inputs, bal0' = bal0
  PROVE  SerialRows(reverted)' = SerialRows(reverted') /\ \A i \in Txs : Tags(i)' = Tags(i) /\ Turn(i)' = Turn(i)
  <1>1. \A i \in Txs : Tags(i)' = Tags(i) /\ Turn(i)' = Turn(i)
    BY DEF Tags, Turn
  <1>2. SerialRows(reverted)' = SerialRows(reverted')
    BY DEF SerialRows, Turn, Tags
  <1> QED  BY <1>1, <1>2

-----------------------------------------------------------------------------
(* The steps, again.                                                        *)

\* Tags are users, and whoever goes on to write has some.
LEMMA TagFacts ==
  ASSUME TypeOK, NEW i \in Txs
  PROVE  /\ Tags(i) \subseteq Users
         /\ Check(inputs[i]) = "open" /\ Tags(i) # {} => Reads(inputs[i]) = Tags(i)
         /\ Check(inputs[i]) = "open" => Reads(inputs[i]) \subseteq Users
  <1>1. inputs[i] \in Calls /\ inputs[i] \in CallType
    BY CallsAssumption DEF TypeOK
  <1>2. inputs[i].user \in Users \cup {Empty} /\ inputs[i].to \in Users \cup {Empty}
    BY <1>1 DEF CallType
  <1>3. Tags(i) \subseteq Users
    BY <1>2 DEF Tags, getParallelTag
  <1>4. ASSUME Check(inputs[i]) = "open"
        PROVE  Reads(inputs[i]) \subseteq Users /\ (Tags(i) # {} => Reads(inputs[i]) = Tags(i))
    <2>1. /\ inputs[i].user \in Users /\ inputs[i].to \in Users
          /\ inputs[i].op \in {"userAdd", "userSave", "userDraw"} => Tags(i) = {inputs[i].user}
          /\ inputs[i].op = "userTransfer" => Tags(i) = {inputs[i].user, inputs[i].to}
          /\ inputs[i].op \in {"userAdd", "userSave", "userDraw", "userBalance", "userTransfer"}
      BY <1>1, <1>4, CheckFacts DEF Tags
    <2>2. inputs[i].op = "userBalance" => Tags(i) = {}
      BY DEF Tags, getParallelTag
    <2> QED  BY <2>1, <2>2 DEF Reads
  <1> QED  BY <1>3, <1>4

\* The turn of a tagged transaction depends on the rows of its tags alone.
LEMMA SeriallyLocal ==
  ASSUME TypeOK, NEW i \in Txs, Tags(i) # {}, NEW rows, NEW others,
         \A u \in Tags(i) : rows[u] = others[u]
  PROVE  Serially(inputs[i], rows) = Serially(inputs[i], others)
  <1>1. inputs[i] \in Calls
    BY DEF TypeOK
  <1>2. CASE Check(inputs[i]) # "open"
    BY <1>2 DEF Serially
  <1>3. CASE Check(inputs[i]) = "open"
    <2>1. \A u \in Reads(inputs[i]) : rows[u] = others[u]
      BY <1>3, TagFacts
    <2>2. call(inputs[i], rows) = call(inputs[i], others)
      BY <1>1, <1>3, <2>1, CallLocal
    <2> QED  BY <1>3, <2>2 DEF Serially
  <1> QED  BY <1>2, <1>3

\* When the rows of a user are at a cut.
AtCut(u, n) == \A j \in Txs : u \in Tags(j) => IF j <= n THEN Ended(j) ELSE pc[j] = "start"

\* A row that transaction i has a tag for is at the cut before i until i starts.
LEMMA CutBefore ==
  ASSUME Order, NEW i \in Txs, pc[i] = "start", Ready(i), NEW u \in Tags(i)
  PROVE  i - 1 \in 0 .. N /\ AtCut(u, i - 1)
  <1>1. i - 1 \in 0 .. N /\ i \in Int
    BY DagTransferAssumption DEF Txs
  <1>2. ASSUME NEW j \in Txs, u \in Tags(j)
        PROVE  IF j <= i - 1 THEN Ended(j) ELSE pc[j] = "start"
    <2>1. CASE j = i
      BY <1>1, <2>1
    <2>2. CASE j < i
      BY <1>1, <1>2, <2>2 DEF Ready, Txs
    <2>3. CASE j > i
      <3>1. pc[j] # "start" => Ended(i)
        BY <1>1, <1>2, <2>3 DEF Order, Txs
      <3>2. ~ (j <= i - 1) /\ ~ Ended(i)
        BY <1>1, <2>3 DEF Ended, Txs
      <3> QED  BY <3>1, <3>2
    <2> QED  BY <1>1, <2>1, <2>2, <2>3 DEF Txs
  <1> QED  BY <1>1, <1>2 DEF AtCut

\* Once i has ended, a cut of one of its rows is one where the serial execution has left the
\* row as after the turn of i, if no later transaction with that tag has started yet.
LEMMA CutAfter ==
  ASSUME NEW R, TypeOK, Order, NEW i \in Txs, ~ Ended(i), NEW u \in Tags(i), NEW n \in 0 .. N,
         \A j \in Txs \ {i} : u \in Tags(j) => IF j <= n THEN Ended(j) ELSE pc[j] = "start",
         i <= n
  PROVE  SerialRows(R)[n][u] = SerialRows(R)[i][u]
  <1>1. i \in 0 .. N /\ i \in Int /\ n \in Int /\ u \in Users /\ inputs \in [Txs -> Calls]
    BY DagTransferAssumption, TagFacts DEF Txs, TypeOK
  <1>2. ASSUME NEW j \in Txs, u \in Tags(j) PROVE j <= i \/ j > n
    <2> SUFFICES ASSUME ~ (j <= i), ~ (j > n) PROVE FALSE
      OBVIOUS
    <2>1. j \in Txs \ {i} /\ j <= n /\ i < j /\ j \in Int
      BY <1>1 DEF Txs
    <2>2. Ended(j)
      BY <1>2, <2>1
    <2>3. pc[j] # "start" /\ Tags(j) # {} /\ Tags(i) \cap Tags(j) # {}
      BY <1>2, <2>2 DEF Ended
    <2>4. Ended(i)
      BY <1>1, <2>1, <2>3 DEF Order
    <2> QED  BY <2>4
  <1> QED  BY <1>1, <1>2, Between

\* A step of transaction i that leaves the rows of others alone, and leaves its own as its
\* turn does if it ends.
LEMMA CutKept ==
  ASSUME TypeOK, Order, Cut, NEW i \in Txs, inputs' = inputs, bal0' = bal0, reverted' = reverted, ~ Ended(i),
         pc'[i] # "start", \A j \in Txs \ {i} : pc'[j] = pc[j],
         \A u \in Users : u \notin Tags(i) => bal'[u] = bal[u],
         pc'[i] = "ended" => \A u \in Tags(i) : bal'[u] = SerialRows(reverted)[i][u]
  PROVE  Cut'
  <1>1. SerialRows(reverted)' = SerialRows(reverted) /\ \A j \in Txs : Tags(j)' = Tags(j)
    BY SerialKept
  <1>2. ASSUME NEW u \in Users, NEW n \in 0 .. N,
               \A j \in Txs : u \in Tags(j) => IF j <= n THEN pc'[j] = "ended" ELSE pc'[j] = "start"
        PROVE  bal'[u] = SerialRows(reverted)[n][u]
    <2>1. CASE u \notin Tags(i)
      <3>1. \A j \in Txs : u \in Tags(j) => IF j <= n THEN Ended(j) ELSE pc[j] = "start"
        BY <1>2, <2>1 DEF Ended
      <3> QED  BY <2>1, <3>1 DEF Cut
    <2>2. CASE u \in Tags(i)
      <3>1. i <= n /\ pc'[i] = "ended"
        BY <1>2, <2>2
      <3>2. \A j \in Txs \ {i} : u \in Tags(j) => IF j <= n THEN Ended(j) ELSE pc[j] = "start"
        BY <1>2 DEF Ended
      <3>3. SerialRows(reverted)[n][u] = SerialRows(reverted)[i][u]
        BY <2>2, <3>1, <3>2, CutAfter
      <3> QED  BY <2>2, <3>1, <3>3
    <2> QED  BY <2>1, <2>2
  <1> QED  BY <1>1, <1>2 DEF Cut, Ended

\* The other transactions find, leave and answer what they did.
LEMMA RestKept ==
  ASSUME SerialInv, NEW i \in Txs, inputs' = inputs, bal0' = bal0, reverted' = reverted,
         Others(i),
         \A j \in Txs \ {i} : pc[j] \notin {"start", "ended"} => \A u \in Tags(j) : bal'[u] = bal[u],
         \A j \in Txs : Tags(j) \subseteq Users,
         pc'[i] \in {"create", "open"} => \A u \in Tags(i) : bal'[u] = SerialRows(reverted)[i - 1][u],
         pc'[i] = "write" => \A u \in Tags(i) : Written(bal', writes'[i])[u] = SerialRows(reverted)[i][u],
         pc'[i] \in {"write", "ended"} => ret'[i] = Serially(inputs[i], SerialRows(reverted)[Turn(i) - 1]).ret
  PROVE  Finds' /\ Leaves' /\ Answers'
  <1>1. SerialRows(reverted)' = SerialRows(reverted) /\ \A j \in Txs : Tags(j)' = Tags(j) /\ Turn(j)' = Turn(j)
    BY SerialKept
  <1>2. ASSUME NEW j \in Txs, pc'[j] \in {"create", "open"}, NEW u \in Tags(j)
        PROVE  bal'[u] = SerialRows(reverted)[j - 1][u]
    <2>1. CASE j = i
      BY <1>2, <2>1
    <2>2. CASE j # i
      <3>1. pc[j] = pc'[j]
        BY <2>2 DEF Others
      <3> QED  BY <1>2, <2>2, <3>1 DEF SerialInv, Finds
    <2> QED  BY <2>1, <2>2
  <1>3. ASSUME NEW j \in Txs, pc'[j] = "write", NEW u \in Tags(j)
        PROVE  Written(bal', writes'[j])[u] = SerialRows(reverted)[j][u]
    <2>1. CASE j = i
      BY <1>3, <2>1
    <2>2. CASE j # i
      <3>1. pc[j] = "write" /\ writes'[j] = writes[j]
        BY <1>3, <2>2 DEF Others
      <3>2. bal'[u] = bal[u] /\ u \in Users
        BY <1>3, <2>2, <3>1
      <3>3. Written(bal', writes[j])[u] = Written(bal, writes[j])[u]
        BY <3>2, WrittenLocal
      <3> QED  BY <1>3, <3>1, <3>3 DEF SerialInv, Leaves
    <2> QED  BY <2>1, <2>2
  <1>4. ASSUME NEW j \in Txs, pc'[j] \in {"write", "ended"}, j \notin reverted
        PROVE  ret'[j] = Serially(inputs[j], SerialRows(reverted)[Turn(j) - 1]).ret
    <2>1. CASE j = i
      BY <1>4, <2>1
    <2>2. CASE j # i
      BY <1>4, <2>2 DEF Others, SerialInv, Answers
    <2> QED  BY <2>1, <2>2
  <1> QED  BY <1>1, <1>2, <1>3, <1>4 DEF Finds, Leaves, Answers

\* A transaction that fails its checks leaves its rows alone in the serial execution too.
LEMMA FailedTurn ==
  ASSUME TypeOK, NEW i \in Txs, Check(inputs[i]) # "open", NEW u \in Tags(i)
  PROVE  SerialRows(reverted)[i][u] = SerialRows(reverted)[i - 1][u]
  <1>1. inputs \in [Txs -> Calls] /\ u \in Users /\ Tags(i) # {}
    BY TagFacts DEF TypeOK
  <1> DEFINE rows == SerialRows(reverted)[i - 1]
  <1>2. i \in reverted \/ SerialRows(reverted)[i] = Written(rows, Serially(inputs[i], rows).writes)
    BY <1>1, FirstPass
  <1>3. i \in reverted => SerialRows(reverted)[i] = rows
    BY <1>1, FirstPass
  <1>4. Serially(inputs[i], rows).writes = <<>>
    BY DEF Serially, Fails
  <1> HIDE DEF rows
  <1>5. SerialRows(reverted)[i][u] = rows[u]
    BY <1>1, <1>2, <1>3, <1>4, WrittenNone
  <1> QED  BY <1>5 DEF rows

\* The checks.
LEMMA StartSerial == ASSUME IndInv, SerialInv, NEW i \in Txs, Start(i) PROVE SerialInv'
  <1> DEFINE code == Check(inputs[i])
  <1>0. TypeOK /\ Order /\ Cut
    BY DEF IndInv, SerialInv
  <1>1. /\ Ready(i) /\ pc[i] = "start" /\ ~ Ended(i)
        /\ inputs' = inputs /\ bal' = bal /\ writes' = writes /\ bal0' = bal0
        /\ reverted' = reverted
    BY DEF Start, Ready, Ended
  <1>2. /\ pc'[i] \in {"open", "create", "ended"}
        /\ pc'[i] = "ended" => code # "open" /\ ret'[i] = <<code, 0>>
        /\ \A j \in Txs \ {i} : pc'[j] = pc[j] /\ ret'[j] = ret[j]
    BY <1>0 DEF Start, TypeOK
  <1>3. Others(i) /\ \A j \in Txs : Tags(j) \subseteq Users
    BY <1>0, <1>1, <1>2, TagFacts DEF Others
  <1>4. ASSUME NEW u \in Tags(i) PROVE bal[u] = SerialRows(reverted)[i - 1][u]
    <2>1. i - 1 \in 0 .. N /\ AtCut(u, i - 1) /\ u \in Users
      BY <1>0, <1>1, <1>3, CutBefore
    <2> QED  BY <1>0, <2>1 DEF Cut, AtCut
  <1>5. pc'[i] = "ended" => \A u \in Tags(i) : bal'[u] = SerialRows(reverted)[i][u]
    BY <1>0, <1>1, <1>2, <1>4, FailedTurn
  <1>6. pc'[i] = "ended" => ret'[i] = Serially(inputs[i], SerialRows(reverted)[Turn(i) - 1]).ret
    BY <1>2 DEF Serially, Fails
  <1>7. Cut'
    BY <1>0, <1>1, <1>2, <1>5, CutKept
  <1>8. Finds' /\ Leaves' /\ Answers'
    BY <1>1, <1>2, <1>3, <1>4, <1>6, RestKept
  <1> QED  BY <1>7, <1>8 DEF SerialInv

\* The table is made.
LEMMA CreateSerial == ASSUME IndInv, SerialInv, NEW i \in Txs, CreateTable(i) PROVE SerialInv'
  <1>0. TypeOK /\ Order /\ Cut
    BY DEF IndInv, SerialInv
  <1>1. /\ pc[i] = "create" /\ ~ Ended(i)
        /\ inputs' = inputs /\ bal' = bal /\ writes' = writes /\ ret' = ret /\ bal0' = bal0
        /\ reverted' = reverted
    BY DEF CreateTable, Ended
  <1>2. pc'[i] = "open" /\ \A j \in Txs \ {i} : pc'[j] = pc[j]
    BY <1>0 DEF CreateTable, TypeOK
  <1>3. Others(i) /\ \A j \in Txs : Tags(j) \subseteq Users
    BY <1>0, <1>1, <1>2, TagFacts DEF Others
  <1>4. \A u \in Tags(i) : bal[u] = SerialRows(reverted)[i - 1][u]
    BY <1>1 DEF SerialInv, Finds
  <1>5. Cut'
    BY <1>0, <1>1, <1>2, CutKept
  <1>6. Finds' /\ Leaves' /\ Answers'
    BY <1>1, <1>2, <1>3, <1>4, RestKept
  <1> QED  BY <1>5, <1>6 DEF SerialInv

\* Reverting i changes the serial execution only for transactions that come after i on one
\* of its rows, and those have not started: the row of u after n turns stays as it was if
\* the transactions on u up to n have started.
LEMMA RowsKept ==
  ASSUME NEW R, NEW Q, TypeOK, Order, NEW i \in Txs, ~ Ended(i),
         \A k \in Txs \ {i} : k \in R <=> k \in Q,
         NEW u \in Users, NEW n \in 0 .. N,
         \A k \in Txs : u \in Tags(k) /\ k <= n => pc[k] # "start" /\ k # i
  PROVE  SerialRows(Q)[n][u] = SerialRows(R)[n][u]
  <1> DEFINE Started(m, v) == \A k \in Txs : v \in Tags(k) /\ k <= m => pc[k] # "start" /\ k # i
             Same(m, v) == SerialRows(Q)[m][v] = SerialRows(R)[m][v]
             B == {m \in 0 .. N : \E v \in Users : Started(m, v) /\ ~ Same(m, v)}
  <1>0. N \in Nat /\ B \subseteq 0 .. N /\ inputs \in [Txs -> Calls]
    BY DagTransferAssumption DEF TypeOK
  <1> SUFFICES ASSUME B # {} PROVE FALSE
    OBVIOUS
  <1>1. PICK m \in B : \A l \in B : m <= l
    <2> HIDE DEF B
    <2> QED  BY <1>0, Least
  <1>2. PICK v \in Users : Started(m, v) /\ ~ Same(m, v)
    BY <1>1
  <1>3. m # 0
    BY <1>2, SerialTurns
  <1>4. m \in Txs /\ m - 1 \in 0 .. N /\ ~ (m <= m - 1) /\ m \in Int /\ m <= m
    BY <1>0, <1>1, <1>3 DEF Txs
  <1>5. ASSUME NEW x \in Users, Started(m - 1, x) PROVE Same(m - 1, x)
    <2>1. m - 1 \notin B
      BY <1>1, <1>4
    <2> QED  BY <1>4, <1>5, <2>1
  <1>6. Started(m - 1, v)
    <2> TAKE k \in Txs
    <2>1. k <= m - 1 => k <= m
      BY <1>4 DEF Txs
    <2> QED  BY <1>2, <2>1
  <1> DEFINE p == SerialRows(R)[m - 1]
             q == SerialRows(Q)[m - 1]
  <1>7. CASE v \notin Tags(m)
    <2>1. SerialRows(Q)[m][v] = q[v] /\ SerialRows(R)[m][v] = p[v]
      BY <1>0, <1>4, <1>7, FirstPass
    <2> QED  BY <1>2, <1>5, <1>6, <2>1
  <1>8. CASE v \in Tags(m)
    <2>1. pc[m] # "start" /\ m # i /\ Tags(m) # {} /\ (m \in R <=> m \in Q)
      BY <1>2, <1>4, <1>8
    <2>2. CASE m \in R
      <3>1. SerialRows(Q)[m] = q /\ SerialRows(R)[m] = p
        BY <1>0, <1>4, <2>1, <2>2, FirstPass
      <3> QED  BY <1>2, <1>5, <1>6, <3>1
    <2>3. CASE m \notin R
      <3>1. ASSUME NEW x \in Tags(m) PROVE q[x] = p[x]
        <4>1. Started(m - 1, x)
          <5> TAKE k \in Txs
          <5> HAVE x \in Tags(k) /\ k <= m - 1
          <5>1. k < m /\ k \in Txs \ {m} /\ Tags(k) \cap Tags(m) # {}
            BY <1>4, <3>1 DEF Txs
          <5>2. Ended(k)
            BY <1>4, <2>1, <5>1 DEF Order
          <5> QED  BY <5>2 DEF Ended
        <4>2. x \in Users
          BY <1>4, <3>1, TagFacts
        <4> QED  BY <1>5, <4>1, <4>2
      <3>2. /\ SerialRows(Q)[m] = Written(q, Serially(inputs[m], q).writes)
            /\ SerialRows(R)[m] = Written(p, Serially(inputs[m], p).writes)
        BY <1>0, <1>4, <2>1, <2>3, FirstPass
      <3>3. q[v] = p[v]
        BY <1>8, <3>1
      <3>4. Serially(inputs[m], q) = Serially(inputs[m], p)
        <4> HIDE DEF p, q
        <4> QED  BY <1>4, <2>1, <3>1, SeriallyLocal
      <3> HIDE DEF p, q
      <3>5. SerialRows(Q)[m][v] = SerialRows(R)[m][v]
        BY <3>2, <3>3, <3>4, WrittenLocal
      <3> QED  BY <1>2, <3>5
    <2> QED  BY <2>2, <2>3
  <1> QED  BY <1>7, <1>8

\* The table is there already: the call is reverted, and its turn is skipped.
LEMMA ThrowsSerial ==
  ASSUME IndInv, Creation, SerialInv, NEW i \in Txs, CreateTableThrows(i)
  PROVE  SerialInv'
  <1> DEFINE Q == reverted \cup {i}
  <1>0. TypeOK /\ Order /\ Cut /\ inputs \in [Txs -> Calls]
    BY DEF IndInv, SerialInv, TypeOK
  <1>1. /\ pc[i] = "create" /\ table /\ ~ Ended(i) /\ reverted' = Q
        /\ inputs' = inputs /\ bal' = bal /\ writes' = writes /\ bal0' = bal0
    BY DEF CreateTableThrows, Ended
  <1>2. pc'[i] = "ended" /\ Others(i)
    BY <1>0 DEF CreateTableThrows, Others, TypeOK
  <1>3. Tags(i) # {} /\ \A j \in Txs : Tags(j) \subseteq Users
    BY <1>0, <1>1, TagFacts DEF Creation, Beside
  <1>4. SerialRows(reverted)' = SerialRows(Q) /\ \A j \in Txs : Tags(j)' = Tags(j) /\ Turn(j)' = Turn(j)
    BY <1>1, SerialKept
  <1>5. \A k \in Txs \ {i} : k \in reverted <=> k \in Q
    OBVIOUS
  <1> HIDE DEF Q
  <1>6. ASSUME NEW j \in Txs, pc[j] # "start", Tags(j) # {}, NEW u \in Tags(j)
        PROVE  /\ SerialRows(Q)[j - 1][u] = SerialRows(reverted)[j - 1][u]
               /\ j # i => SerialRows(Q)[j][u] = SerialRows(reverted)[j][u]
    <2>1. u \in Users /\ j \in 0 .. N /\ j - 1 \in 0 .. N /\ j \in Int
      BY <1>3, DagTransferAssumption DEF Txs
    <2>2. ASSUME NEW k \in Txs, u \in Tags(k), k < j PROVE pc[k] # "start" /\ k # i
      <3>1. k \in Txs \ {j} /\ Tags(k) \cap Tags(j) # {}
        BY <2>1, <2>2 DEF Txs
      <3>2. Ended(k)
        BY <1>0, <1>6, <2>2, <3>1 DEF Order
      <3> QED  BY <1>1, <3>2 DEF Ended
    <2>3. \A k \in Txs : k \in Int /\ (k <= j - 1 => k < j) /\ (k <= j => k < j \/ k = j)
      BY <2>1 DEF Txs
    <2>4. SerialRows(Q)[j - 1][u] = SerialRows(reverted)[j - 1][u]
      <3>1. \A k \in Txs : u \in Tags(k) /\ k <= j - 1 => pc[k] # "start" /\ k # i
        BY <2>2, <2>3
      <3> QED  BY <1>0, <1>1, <1>5, <2>1, <3>1, RowsKept
    <2>5. ASSUME j # i PROVE SerialRows(Q)[j][u] = SerialRows(reverted)[j][u]
      <3>1. \A k \in Txs : u \in Tags(k) /\ k <= j => pc[k] # "start" /\ k # i
        BY <1>6, <2>2, <2>3, <2>5
      <3> QED  BY <1>0, <1>1, <1>5, <2>1, <3>1, RowsKept
    <2> QED  BY <2>4, <2>5
  <1>7. ASSUME NEW u \in Users, NEW n \in 0 .. N,
               \A j \in Txs : u \in Tags(j) => IF j <= n THEN pc'[j] = "ended" ELSE pc'[j] = "start"
        PROVE  bal[u] = SerialRows(Q)[n][u]
    <2>0. \A j \in Txs \ {i} : pc'[j] = pc[j]
      BY <1>2 DEF Others
    <2>1. CASE u \notin Tags(i)
      <3>1. \A j \in Txs : u \in Tags(j) => IF j <= n THEN Ended(j) ELSE pc[j] = "start"
        BY <1>7, <2>0, <2>1 DEF Ended
      <3>2. bal[u] = SerialRows(reverted)[n][u]
        BY <1>0, <3>1 DEF Cut
      <3>3. \A k \in Txs : u \in Tags(k) /\ k <= n => pc[k] # "start" /\ k # i
        BY <2>1, <3>1 DEF Ended
      <3>4. SerialRows(Q)[n][u] = SerialRows(reverted)[n][u]
        BY <1>0, <1>1, <1>5, <3>3, RowsKept
      <3> QED  BY <3>2, <3>4
    <2>2. CASE u \in Tags(i)
      <3>1. i <= n
        BY <1>2, <1>7, <2>2
      <3>2. \A j \in Txs \ {i} : u \in Tags(j) => IF j <= n THEN Ended(j) ELSE pc[j] = "start"
        BY <1>7, <2>0 DEF Ended
      <3>3. SerialRows(Q)[n][u] = SerialRows(Q)[i][u]
        BY <1>0, <1>1, <2>2, <3>1, <3>2, CutAfter
      <3>4. SerialRows(Q)[i] = SerialRows(Q)[i - 1]
        BY <1>0, FirstPass DEF Q
      <3>5. SerialRows(Q)[i - 1][u] = SerialRows(reverted)[i - 1][u]
        BY <1>1, <1>3, <1>6, <2>2
      <3>6. bal[u] = SerialRows(reverted)[i - 1][u]
        BY <1>1, <2>2 DEF SerialInv, Finds
      <3> QED  BY <3>3, <3>4, <3>5, <3>6
    <2> QED  BY <2>1, <2>2
  <1>8. Cut'
    BY <1>1, <1>4, <1>7 DEF Cut, Ended
  <1>9. ASSUME NEW j \in Txs, pc'[j] # "ended" PROVE j # i /\ pc'[j] = pc[j] /\ writes'[j] = writes[j]
    BY <1>2, <1>9 DEF Others
  <1>10. Finds'
    <2>1. ASSUME NEW j \in Txs, pc'[j] \in {"create", "open"}, NEW u \in Tags(j)
          PROVE  bal[u] = SerialRows(Q)[j - 1][u]
      <3>1. pc[j] \in {"create", "open"}
        BY <1>9, <2>1
      <3>2. bal[u] = SerialRows(reverted)[j - 1][u]
        BY <2>1, <3>1 DEF SerialInv, Finds
      <3> QED  BY <1>6, <2>1, <3>1, <3>2
    <2> QED  BY <1>1, <1>4, <2>1 DEF Finds
  <1>11. Leaves'
    <2>1. ASSUME NEW j \in Txs, pc'[j] = "write", NEW u \in Tags(j)
          PROVE  Written(bal, writes[j])[u] = SerialRows(Q)[j][u]
      <3>1. pc[j] = "write" /\ j # i
        BY <1>9, <2>1
      <3>2. Written(bal, writes[j])[u] = SerialRows(reverted)[j][u]
        BY <2>1, <3>1 DEF SerialInv, Leaves
      <3> QED  BY <1>6, <2>1, <3>1, <3>2
    <2> QED  BY <1>1, <1>4, <2>1 DEF Leaves
  <1>12. Answers'
    <2>1. ASSUME NEW j \in Txs, pc'[j] \in {"write", "ended"}, j \notin Q
          PROVE  ret'[j] = Serially(inputs[j], SerialRows(Q)[Turn(j) - 1]).ret
      <3>1. j # i /\ j \notin reverted
        BY <2>1 DEF Q
      <3>2. pc[j] \in {"write", "ended"} /\ ret'[j] = ret[j]
        BY <1>2, <2>1, <3>1 DEF Others
      <3>3. Tags(j) # {} /\ Turn(j) = j
        BY <1>1, <1>3, <3>1, <3>2, <1>0 DEF Order, Turn
      <3>4. ret[j] = Serially(inputs[j], SerialRows(reverted)[j - 1]).ret
        BY <3>1, <3>2, <3>3 DEF SerialInv, Answers
      <3> DEFINE p == SerialRows(reverted)[j - 1]
                 q == SerialRows(Q)[j - 1]
      <3>5. \A u \in Tags(j) : q[u] = p[u]
        BY <1>6, <3>2, <3>3
      <3> HIDE DEF p, q
      <3>6. Serially(inputs[j], q) = Serially(inputs[j], p)
        BY <1>0, <3>3, <3>5, SeriallyLocal
      <3> QED  BY <3>2, <3>3, <3>4, <3>6 DEF p, q
    <2> QED  BY <1>1, <1>4, <2>1 DEF Answers
  <1> QED  BY <1>8, <1>10, <1>11, <1>12 DEF SerialInv

\* A transaction reads what it reads in the serial execution.
LEMMA ReadsSerial ==
  ASSUME IndInv, SerialInv, NEW i \in Txs, pc[i] = "open"
  PROVE  \A u \in Reads(inputs[i]) : bal[u] = SerialRows(reverted)[Turn(i) - 1][u]
  <1>1. TypeOK /\ Order /\ Check(inputs[i]) = "open" /\ inputs \in [Txs -> Calls]
    BY DEF IndInv, Opened, TypeOK
  <1>2. CASE Tags(i) # {}
    <2>1. Reads(inputs[i]) = Tags(i) /\ Turn(i) = i
      BY <1>1, <1>2, TagFacts DEF Turn
    <2> QED  BY <2>1 DEF SerialInv, Finds
  <1>3. CASE Tags(i) = {}
    <2>1. Turn(i) - 1 \in N .. 2 * N /\ N \in 0 .. N /\ \A j \in Txs : j <= N
      BY <1>3, DagTransferAssumption DEF Turn, Txs
    <2>2. \A j \in Txs : Tags(j) # {} => Ended(j)
      BY <1>1, <1>3 DEF Order
    <2>3. ASSUME NEW u \in Users PROVE bal[u] = SerialRows(reverted)[N][u]
      <3>1. \A j \in Txs : u \in Tags(j) => IF j <= N THEN Ended(j) ELSE pc[j] = "start"
        BY <2>1, <2>2
      <3> QED  BY <2>1, <3>1 DEF SerialInv, Cut
    <2>4. \A u \in Users : SerialRows(reverted)[Turn(i) - 1][u] = SerialRows(reverted)[N][u]
      BY <1>1, <2>1, AfterFirstPass
    <2> QED  BY <1>1, <2>3, <2>4, TagFacts
  <1> QED  BY <1>2, <1>3

\* The call is decided.
LEMMA ReadSerial == ASSUME IndInv, Creation, SerialInv, NEW i \in Txs, Read(i) PROVE SerialInv'
  <1> DEFINE r == call(inputs[i], bal)
             rows == SerialRows(reverted)[Turn(i) - 1]
  <1>0. TypeOK /\ Order /\ Cut
    BY DEF IndInv, SerialInv
  <1>1. /\ pc[i] = "open" /\ ~ Ended(i)
        /\ inputs' = inputs /\ bal' = bal /\ bal0' = bal0 /\ reverted' = reverted
    BY DEF Read, Ended
  <1>2. /\ inputs[i] \in Calls /\ Check(inputs[i]) = "open" /\ inputs \in [Txs -> Calls]
        /\ i \notin reverted
    BY <1>1 DEF IndInv, TypeOK, Opened, Creation
  <1>3. Serially(inputs[i], rows) = r
    <2>1. \A u \in Reads(inputs[i]) : bal[u] = rows[u]
      BY <1>1, ReadsSerial
    <2> HIDE DEF rows
    <2>2. call(inputs[i], bal) = call(inputs[i], rows)
      BY <1>2, <2>1, CallLocal
    <2> QED  BY <1>2, <2>2 DEF Serially
  <1>4. /\ ret'[i] = r.ret /\ writes'[i] = r.writes
        /\ pc'[i] = IF r.writes = <<>> THEN "ended" ELSE "write"
        /\ Others(i)
    BY <1>0 DEF Read, Others, TypeOK
  <1> HIDE DEF r
  <1>5. \A j \in Txs : Tags(j) \subseteq Users
    BY <1>0, TagFacts
  <1>6. ASSUME NEW u \in Tags(i) PROVE Written(bal, r.writes)[u] = SerialRows(reverted)[i][u]
    <2>1. Tags(i) # {} /\ Turn(i) = i /\ u \in Users
      BY <1>5, <1>6 DEF Turn
    <2>2. bal[u] = rows[u]
      BY <1>0, <1>1, <1>2, <2>1, ReadsSerial, TagFacts
    <2>3. SerialRows(reverted)[i] = Written(rows, r.writes)
      BY <1>2, <1>3, <2>1, FirstPass
    <2> HIDE DEF rows
    <2>4. Written(bal, r.writes)[u] = Written(rows, r.writes)[u]
      BY <2>1, <2>2, WrittenLocal
    <2> QED  BY <2>3, <2>4
  <1>7. pc'[i] = "ended" => \A u \in Tags(i) : bal'[u] = SerialRows(reverted)[i][u]
    <2> SUFFICES ASSUME r.writes = <<>>, NEW u \in Tags(i) PROVE bal[u] = SerialRows(reverted)[i][u]
      BY <1>1, <1>4
    <2>1. Written(bal, <<>>)[u] = bal[u]
      BY <1>5, WrittenNone
    <2> QED  BY <1>6, <2>1
  <1>8. pc'[i] # "start" /\ \A j \in Txs \ {i} : pc'[j] = pc[j]
    BY <1>4 DEF Others
  <1>9. Cut'
    BY <1>0, <1>1, <1>7, <1>8, CutKept
  <1>10. ret'[i] = Serially(inputs[i], SerialRows(reverted)[Turn(i) - 1]).ret
    BY <1>3, <1>4
  <1>11. pc'[i] = "write" => \A u \in Tags(i) : Written(bal', writes'[i])[u] = SerialRows(reverted)[i][u]
    BY <1>1, <1>4, <1>6
  <1>12. pc'[i] \notin {"create", "open"}
    BY <1>4
  <1> HIDE DEF rows
  <1>13. Finds' /\ Leaves' /\ Answers'
    BY <1>1, <1>4, <1>5, <1>10, <1>11, <1>12, RestKept
  <1> QED  BY <1>9, <1>13 DEF SerialInv

\* Nothing is left of a list of one item once the item is taken.
LEMMA TailOfOne == ASSUME NEW S, NEW s \in Seq(S), Len(s) = 1 PROVE Tail(s) = <<>>
  <1>1. s # <<>>
    BY EmptySeq
  <1>2. Tail(s) \in Seq(S) /\ Len(Tail(s)) = 0
    BY <1>1, HeadTailProperties
  <1> QED  BY <1>2, EmptySeq

\* A row is written.
LEMMA WriteSerial == ASSUME IndInv, Creation, SerialInv, NEW i \in Txs, Write(i) PROVE SerialInv'
  <1> DEFINE w == Head(writes[i])
  <1>0. TypeOK /\ Order /\ Opened /\ Cut /\ bal \in Rows
    BY DEF IndInv, SerialInv, TypeOK
  <1>1. /\ pc[i] = "write" /\ ~ Ended(i)
        /\ inputs' = inputs /\ ret' = ret /\ bal0' = bal0 /\ reverted' = reverted
        /\ bal' = [bal EXCEPT ![w[1]] = w[2]]
    BY DEF Write, Ended
  <1>2. /\ writes'[i] = Tail(writes[i]) /\ writes[i] \in Seq(Users \X Amounts)
        /\ pc'[i] = IF Len(writes[i]) = 1 THEN "ended" ELSE "write"
        /\ Others(i)
    BY <1>0 DEF Write, Others, TypeOK
  <1>3. Pends(i)
    BY <1>1 DEF IndInv, Pending, Pends
  <1>4. writes[i] # <<>>
    BY <1>3, PendsSome
  <1>5. \A j \in Txs : Tags(j) \subseteq Users
    BY <1>0, TagFacts
  <1>6. \A u \in Users : u \notin Tags(i) => bal'[u] = bal[u]
    <2>1. PICK x \in Users, v \in Amounts : x \in Tags(i) /\ bal' = [bal EXCEPT ![x] = v]
      BY <1>0, <1>3, WriteFacts
    <2> QED  BY <1>0, <2>1 DEF Rows
  <1>7. ASSUME NEW u \in Tags(i) PROVE Written(bal', Tail(writes[i]))[u] = SerialRows(reverted)[i][u]
    <2>1. u \in Users
      BY <1>5
    <2>2. Written(bal', Tail(writes[i]))[u] = Written(bal, writes[i])[u]
      BY <1>0, <1>1, <1>2, <1>4, <2>1, WrittenStep
    <2> QED  BY <1>1, <2>2 DEF SerialInv, Leaves
  <1>8. pc'[i] = "ended" => \A u \in Tags(i) : bal'[u] = SerialRows(reverted)[i][u]
    <2> SUFFICES ASSUME pc'[i] = "ended", NEW u \in Tags(i) PROVE bal'[u] = SerialRows(reverted)[i][u]
      OBVIOUS
    <2>1. Len(writes[i]) = 1
      BY <1>2
    <2>2. Tail(writes[i]) = <<>>
      BY <1>2, <2>1, TailOfOne
    <2>3. Written(bal', <<>>)[u] = bal'[u]
      BY <1>5, WrittenNone
    <2> QED  BY <1>7, <2>2, <2>3
  <1>9. pc'[i] \notin {"start", "create", "open"} /\ \A j \in Txs \ {i} : pc'[j] = pc[j]
    BY <1>2 DEF Others
  <1>10. Cut'
    BY <1>0, <1>1, <1>6, <1>8, <1>9, CutKept
  <1>11. ASSUME NEW j \in Txs \ {i}, pc[j] \notin {"start", "ended"}, NEW u \in Tags(j)
         PROVE  bal'[u] = bal[u]
    <2>1. Tags(i) \cap Tags(j) = {}
      BY <1>0, <1>1, <1>11, Apart
    <2> QED  BY <1>5, <1>6, <1>11, <2>1
  <1>12. ret'[i] = Serially(inputs[i], SerialRows(reverted)[Turn(i) - 1]).ret
    BY <1>1 DEF SerialInv, Answers, Creation
  <1>13. \A u \in Tags(i) : Written(bal', writes'[i])[u] = SerialRows(reverted)[i][u]
    BY <1>2, <1>7
  <1>14. Finds' /\ Leaves' /\ Answers'
    BY <1>1, <1>2, <1>5, <1>9, <1>11, <1>12, <1>13, RestKept
  <1> QED  BY <1>10, <1>14 DEF SerialInv

\* Nothing happens.
LEMMA StutterSerial == ASSUME SerialInv, UNCHANGED vars PROVE SerialInv'
  <1>1. /\ inputs' = inputs /\ bal' = bal /\ pc' = pc /\ writes' = writes
        /\ ret' = ret /\ bal0' = bal0 /\ reverted' = reverted
    BY DEF vars
  <1>2. SerialRows(reverted)' = SerialRows(reverted) /\ \A j \in Txs : Tags(j)' = Tags(j) /\ Turn(j)' = Turn(j)
    BY <1>1, SerialKept
  <1>3. Cut'
    BY <1>1, <1>2 DEF SerialInv, Cut, Ended
  <1>4. Finds' /\ Leaves' /\ Answers'
    BY <1>1, <1>2 DEF SerialInv, Finds, Leaves, Answers
  <1> QED  BY <1>3, <1>4 DEF SerialInv

\* When the block begins, every row is at the first cut.
LEMMA InitSerial == Init => SerialInv
  <1> SUFFICES ASSUME Init PROVE SerialInv
    OBVIOUS
  <1>1. (\A i \in Txs : pc[i] = "start") /\ bal0 = bal /\ inputs \in [Txs -> Calls]
    BY DEF Init
  <1>2. Finds /\ Leaves /\ Answers
    BY <1>1 DEF Finds, Leaves, Answers
  <1>3. ASSUME NEW u \in Users, NEW n \in 0 .. N,
               \A j \in Txs : u \in Tags(j) => IF j <= n THEN Ended(j) ELSE pc[j] = "start"
        PROVE  bal[u] = SerialRows(reverted)[n][u]
    <2>1. 0 \in 0 .. N /\ 0 <= n
      BY DagTransferAssumption
    <2>2. \A j \in Txs : u \in Tags(j) => j <= 0 \/ j > n
      <3> TAKE j \in Txs
      <3>1. ~ Ended(j) /\ j \in Int /\ n \in Int
        BY <1>1 DEF Ended, Txs
      <3> QED  BY <1>3, <3>1
    <2>3. SerialRows(reverted)[n][u] = SerialRows(reverted)[0][u]
      BY <1>1, <2>1, <2>2, Between
    <2> QED  BY <1>1, <2>3, SerialTurns
  <1>4. Cut
    BY <1>3 DEF Cut
  <1> QED  BY <1>2, <1>4 DEF SerialInv

\* When all have ended, every row is at the last cut.
LEMMA SerialInvImplies == IndInv /\ SerialInv => AsIfSerial
  <1> SUFFICES ASSUME IndInv, SerialInv PROVE AsIfSerial
    OBVIOUS
  <1>1. \A i \in Txs : Ended(i) /\ i \notin reverted =>
          ret[i] = Serially(inputs[i], SerialRows(reverted)[Turn(i) - 1]).ret
    BY DEF SerialInv, Answers, Ended
  <1>2. ASSUME \A i \in Txs : Ended(i) PROVE bal = SerialRows(reverted)[2 * N]
    <2>1. N \in 0 .. N /\ 2 * N \in N .. 2 * N /\ \A j \in Txs : j <= N
      BY DagTransferAssumption DEF Txs
    <2>2. bal \in Rows /\ bal0 \in Rows /\ inputs \in [Txs -> Calls]
      BY DEF IndInv, TypeOK
    <2>3. ASSUME NEW u \in Users PROVE bal[u] = SerialRows(reverted)[2 * N][u]
      <3>1. bal[u] = SerialRows(reverted)[N][u]
        BY <1>2, <2>1 DEF SerialInv, Cut
      <3>2. SerialRows(reverted)[2 * N][u] = SerialRows(reverted)[N][u]
        BY <2>1, <2>2, AfterFirstPass
      <3> QED  BY <3>1, <3>2
    <2>4. SerialRows(reverted)[2 * N] = [u \in Users |-> SerialRows(reverted)[2 * N][u]]
      BY <2>1, <2>2, SerialDomain
    <2>5. bal = [u \in Users |-> bal[u]]
      BY <2>2 DEF Rows
    <2> QED  BY <2>3, <2>4, <2>5
  <1> QED  BY <1>1, <1>2 DEF AsIfSerial

\* The block answers and leaves what its serial execution without the reverted calls does:
\* the tagged transactions in their order, then those sent back.
THEOREM AsIfSerialHolds == Spec => []AsIfSerial
  <1>1. IndInv /\ Creation /\ SerialInv /\ [Next]_vars => SerialInv'
    <2> SUFFICES ASSUME IndInv, Creation, SerialInv, [Next]_vars PROVE SerialInv'
      OBVIOUS
    <2>1. CASE \E i \in Txs :
               Start(i) \/ CreateTable(i) \/ CreateTableThrows(i) \/ Read(i) \/ Write(i)
      BY <2>1, StartSerial, CreateSerial, ThrowsSerial, ReadSerial, WriteSerial
    <2>2. CASE Done \/ UNCHANGED vars
      BY <2>2, StutterSerial DEF Done
    <2> QED  BY <2>1, <2>2 DEF Next
  <1> QED  BY <1>1, InitSerial, Invariance, CreationHolds, SerialInvImplies, PTL DEF Spec
=============================================================================
