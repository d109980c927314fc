----------------------------- MODULE DagTransfer -----------------------------
(***************************************************************************)
(* The accounts of DagTransferPrecompiled, the one precompiled contract    *)
(* whose calls run in parallel, and a block of calls on it: the calls with *)
(* parallel tags run in the transaction DAG (TxDAG), one after another     *)
(* where they share a tag; the others are sent back and executed one by    *)
(* one afterwards.                                                         *)
(*                                                                         *)
(* A call opens the table, reads the rows of its users, and writes rows    *)
(* one at a time; opening, creating and each write are separate steps.     *)
(* The storage (external) answers createTable with the new table or, if    *)
(* there is one, with an error, which the wrapper throws and the executive *)
(* answers with REVERT, as it does for a contract deployed twice.          *)
(* Amounts are u256: arithmetic is modulo Modulus.                         *)
(***************************************************************************)
EXTENDS Integers, Sequences, Functions, FiniteSetsExt

CONSTANTS N,         \* transactions of the block
          Users,     \* the non-empty user names
          Empty,     \* the empty name
          Modulus,   \* 2^256
          Calls      \* the calls a transaction may make

ASSUME DagTransferAssumption == N \in Nat /\ Modulus \in Nat \ {0} /\ Empty \notin Users

Txs == 1 .. N
Amounts == 0 .. Modulus - 1
NoRow == -1
Rows == [Users -> Amounts \cup {NoRow}]
CallType == [op : {"userAdd", "userSave", "userDraw", "userBalance", "userTransfer", "unknown"},
             user : Users \cup {Empty}, to : Users \cup {Empty}, amount : Amounts]

ASSUME CallsAssumption == Calls \subseteq CallType /\ IsFiniteSet(Users)

VARIABLES
  inputs,    \* transaction |-> its call: [op, user, to, amount]
  table,     \* whether the table dag_transfer exists
  bal,       \* its rows: user |-> balance, NoRow if there is none
  pc,        \* transaction |-> "start", "create", "open", "write", "ended"
  writes,    \* transaction |-> the row writes it still has to make
  ret,       \* transaction |-> the code (and balance) its call put out
  reverted,  \* the transactions answered with REVERT
  creator,   \* history: the transaction that created the table, 0 if none did
  bal0       \* history: the rows when the block began

vars == <<inputs, table, bal, pc, writes, ret, reverted, creator, bal0>>

-----------------------------------------------------------------------------
(* getParallelTag.                                                          *)

\* BUG variant: a transfer names its sender only.
getParallelTagSender(c) ==
  CASE c.op \in {"userAdd", "userSave", "userDraw", "userTransfer"} -> {c.user} \ {Empty}
    [] OTHER -> {}

getParallelTag(c) ==
  CASE c.op \in {"userAdd", "userSave", "userDraw"} -> {c.user} \ {Empty}
    [] c.op = "userTransfer" /\ Empty \notin {c.user, c.to} -> {c.user, c.to}
    [] OTHER -> {}

-----------------------------------------------------------------------------
(* The five calls, as functions of the rows they read: the code they return *)
(* and the rows they write, in order.                                       *)

Fails(code) == [ret |-> <<code, 0>>, writes |-> <<>>]
Writes(rows) == [ret |-> <<"ok", 0>>, writes |-> rows]

\* BUG variant: an unlimited integer in place of the u256.
Sum2Unlimited(a, b) == a + b

Sum2(a, b) == (a + b) % Modulus

userAdd(c, rows) ==
  IF rows[c.user] # NoRow THEN Fails("CODE_INVALID_USER_ALREADY_EXIST")
  ELSE Writes(<<<<c.user, c.amount>>>>)

userSave(c, rows) ==
  LET balance == rows[c.user] IN
  CASE balance = NoRow -> Writes(<<<<c.user, c.amount>>>>)
    [] balance # NoRow /\ Sum2(balance, c.amount) < balance ->
         Fails("CODE_INVALID_BALANCE_OVERFLOW")
    [] OTHER -> Writes(<<<<c.user, Sum2(balance, c.amount)>>>>)

userDraw(c, rows) ==
  LET balance == rows[c.user] IN
  CASE balance = NoRow -> Fails("CODE_INVALID_USER_NOT_EXIST")
    [] balance # NoRow /\ balance < c.amount -> Fails("CODE_INVALID_INSUFFICIENT_BALANCE")
    [] OTHER -> Writes(<<<<c.user, balance - c.amount>>>>)

userBalance(c, rows) ==
  IF rows[c.user] = NoRow THEN Fails("CODE_INVALID_USER_NOT_EXIST")
  ELSE [ret |-> <<"ok", rows[c.user]>>, writes |-> <<>>]

\* BUG variant: no check that the receiver's balance overflows.
userTransferUnchecked(c, rows) ==
  LET from == rows[c.user]
      to   == IF rows[c.to] = NoRow THEN 0 ELSE rows[c.to]
      new  == IF rows[c.to] = NoRow THEN <<<<c.to, 0>>>> ELSE <<>>
  IN
  CASE from = NoRow -> Fails("CODE_INVALID_USER_NOT_EXIST")
    [] from # NoRow /\ from < c.amount -> Fails("CODE_INVALID_INSUFFICIENT_BALANCE")
    [] OTHER -> Writes(new \o <<<<c.user, from - c.amount>>, <<c.to, Sum2(to, c.amount)>>>>)

\* The receiver gets its row, with 0, before its balance is checked for overflow.
userTransfer(c, rows) ==
  LET from == rows[c.user]
      to   == IF rows[c.to] = NoRow THEN 0 ELSE rows[c.to]
      new  == IF rows[c.to] = NoRow THEN <<<<c.to, 0>>>> ELSE <<>>
  IN
  CASE from = NoRow -> Fails("CODE_INVALID_USER_NOT_EXIST")
    [] from # NoRow /\ from < c.amount -> Fails("CODE_INVALID_INSUFFICIENT_BALANCE")
    [] from >= c.amount /\ Sum2(to, c.amount) < to ->
         [ret |-> <<"CODE_INVALID_BALANCE_OVERFLOW", 0>>, writes |-> new]
    [] OTHER -> Writes(new \o <<<<c.user, from - c.amount>>, <<c.to, Sum2(to, c.amount)>>>>)

\* What a call returns before it opens the table; "open" if it goes on.
Check(c) ==
  CASE c.op = "unknown" -> "no output"
    [] Empty \in {c.user, c.to} -> "CODE_INVALID_USER_NAME"
    [] c.op \in {"userSave", "userDraw", "userTransfer"} /\ c.amount = 0 ->
         "CODE_INVALID_AMOUNT"
    [] c.op = "userTransfer" /\ c.user = c.to /\ c.amount # 0 -> "ok"
    [] OTHER -> "open"

call(c, rows) ==
  CASE c.op = "userAdd"      -> userAdd(c, rows)
    [] c.op = "userSave"     -> userSave(c, rows)
    [] c.op = "userDraw"     -> userDraw(c, rows)
    [] c.op = "userBalance"  -> userBalance(c, rows)
    [] c.op = "userTransfer" -> userTransfer(c, rows)

-----------------------------------------------------------------------------
Init ==
  /\ inputs \in [Txs -> Calls]
  /\ \/ table = FALSE /\ bal = [u \in Users |-> NoRow]
     \/ table = TRUE /\ bal \in Rows
  /\ bal0 = bal
  /\ pc = [i \in Txs |-> "start"]
  /\ writes = [i \in Txs |-> <<>>]
  /\ ret = [i \in Txs |-> <<"none", 0>>]
  /\ reverted = {} /\ creator = 0

Tags(i) == getParallelTag(inputs[i])
Ended(i) == pc[i] = "ended"

\* When the DAG, or the scheduler after a send-back, starts transaction i.
Ready(i) ==
  /\ pc[i] = "start"
  /\ \A j \in Txs \ {i} :
       IF Tags(i) # {} THEN j < i /\ Tags(j) \cap Tags(i) # {} => Ended(j)
       ELSE Tags(j) # {} \/ j < i => Ended(j)

\* BUG variant: the table is created without an attempt to open it.
StartCreates(i) ==
  LET code == Check(inputs[i]) IN
  /\ Ready(i)
  /\ pc' = [pc EXCEPT ![i] = IF code # "open" THEN "ended" ELSE "create"]
  /\ ret' = IF code = "open" THEN ret ELSE [ret EXCEPT ![i] = <<code, 0>>]
  /\ UNCHANGED <<inputs, table, bal, writes, reverted, creator, bal0>>

\* The checks, then openTable's first attempt.
Start(i) ==
  LET code == Check(inputs[i]) IN
  /\ Ready(i)
  /\ pc' = [pc EXCEPT ![i] = CASE code # "open" -> "ended"
                               [] code = "open" /\ table -> "open"
                               [] OTHER -> "create"]
  /\ ret' = IF code = "open" THEN ret ELSE [ret EXCEPT ![i] = <<code, 0>>]
  /\ UNCHANGED <<inputs, table, bal, writes, reverted, creator, bal0>>

CreateTable(i) ==
  /\ pc[i] = "create" /\ ~table
  /\ table' = TRUE /\ creator' = i
  /\ pc' = [pc EXCEPT ![i] = "open"]
  /\ UNCHANGED <<inputs, bal, writes, ret, reverted, bal0>>

\* Another call has created the table meanwhile: createTable throws, so that neither the
\* second attempt to open it nor CODE_INVALID_OPENTABLE_FAILED is reached, and the call is
\* reverted.  It has written nothing that revert() could undo.
CreateTableThrows(i) ==
  /\ pc[i] = "create" /\ table
  /\ reverted' = reverted \cup {i}
  /\ ret' = [ret EXCEPT ![i] = <<"error info", 0>>]
  /\ pc' = [pc EXCEPT ![i] = "ended"]
  /\ UNCHANGED <<inputs, table, bal, writes, creator, bal0>>

\* The rows are read and the call decided.
Read(i) ==
  LET r == call(inputs[i], bal) IN
  /\ pc[i] = "open"
  /\ ret' = [ret EXCEPT ![i] = r.ret]
  /\ writes' = [writes EXCEPT ![i] = r.writes]
  /\ pc' = [pc EXCEPT ![i] = IF r.writes = <<>> THEN "ended" ELSE "write"]
  /\ UNCHANGED <<inputs, table, bal, reverted, creator, bal0>>

\* One setRow.
Write(i) ==
  LET w == Head(writes[i]) IN
  /\ pc[i] = "write"
  /\ bal' = [bal EXCEPT ![w[1]] = w[2]]
  /\ writes' = [writes EXCEPT ![i] = Tail(@)]
  /\ pc' = [pc EXCEPT ![i] = IF Len(writes[i]) = 1 THEN "ended" ELSE "write"]
  /\ UNCHANGED <<inputs, table, ret, reverted, creator, bal0>>

Done == (\A i \in Txs : Ended(i)) /\ UNCHANGED vars

Next ==
  \/ Done
  \/ \E i \in Txs : Start(i) \/ CreateTable(i) \/ CreateTableThrows(i) \/ Read(i) \/ Write(i)

Spec == Init /\ [][Next]_vars

-----------------------------------------------------------------------------
(* Properties.                                                              *)

Codes == {"none", "no output", "error info", "ok", "CODE_INVALID_USER_NAME", "CODE_INVALID_AMOUNT",
          "CODE_INVALID_USER_ALREADY_EXIST", "CODE_INVALID_USER_NOT_EXIST",
          "CODE_INVALID_INSUFFICIENT_BALANCE", "CODE_INVALID_BALANCE_OVERFLOW"}

(* Types; no balance leaves the range of a u256, a receiver's included.    *)
TypeOK ==
  /\ inputs \in [Txs -> Calls]
  /\ table \in BOOLEAN /\ bal \in Rows /\ bal0 \in Rows
  /\ pc \in [Txs -> {"start", "create", "open", "write", "ended"}]
  /\ writes \in [Txs -> Seq(Users \X Amounts)]
  /\ ret \in [Txs -> Codes \X Amounts]
  /\ reverted \subseteq Txs /\ creator \in Txs \cup {0}

Funds(rows) == FoldFunction(LAMBDA b, acc : acc + b, 0,
                            [u \in Users |-> IF rows[u] = NoRow THEN 0 ELSE rows[u]])

\* What a transaction that ended with code ok put in (or took out).
Deposit(i) ==
  LET amount == IF Ended(i) /\ ret[i][1] = "ok" THEN inputs[i].amount ELSE 0 IN
  CASE inputs[i].op \in {"userAdd", "userSave"} -> amount
    [] inputs[i].op = "userDraw" -> 0 - amount
    [] OTHER -> 0

(* Whenever no call is between two of its row writes, the balances add up  *)
(* to those at the start of the block plus what userAdd and userSave put   *)
(* in minus what userDraw took out: a transfer, whatever it returns and    *)
(* whatever runs beside it, neither makes nor loses money.                 *)
FundsConserved ==
  (\A i \in Txs : pc[i] # "write") =>
    Funds(bal) = Funds(bal0) + FoldFunction(LAMBDA d, acc : acc + d, 0, [i \in Txs |-> Deposit(i)])

\* The rows after the row writes ws, of which the last to a row counts.
Written(rows, ws) ==
  [u \in Users |-> LET mine == {k \in DOMAIN ws : ws[k][1] = u} IN
                   IF mine = {} THEN rows[u] ELSE ws[Max(mine)][2]]

Serially(c, rows) ==
  IF Check(c) # "open" THEN Fails(Check(c)) ELSE call(c, rows)

\* A serial execution goes over the block twice, in the first pass for the tagged
\* transactions and in the second for those sent back.
Turn(i) == IF Tags(i) # {} THEN i ELSE N + i

\* The rows after n turns, of which those of the transactions in skip do nothing.
SerialRows(skip) ==
  LET rows[n \in 0 .. 2 * N] ==
        IF n = 0 THEN bal0
        ELSE LET i == IF n <= N THEN n ELSE n - N IN
             IF Turn(i) # n \/ i \in skip THEN rows[n - 1]
             ELSE Written(rows[n - 1], Serially(inputs[i], rows[n - 1]).writes)
  IN rows

(* Every transaction that is not reverted returns what executing the block *)
(* serially without the reverted ones returns, and the block ends with the *)
(* same balances: the tags of getParallelTag name every row a call reads   *)
(* or writes, and a revert leaves no trace in what later calls see.        *)
AsIfSerial ==
  LET rows == SerialRows(reverted) IN
  /\ \A i \in Txs : Ended(i) /\ i \notin reverted =>
       ret[i] = Serially(inputs[i], rows[Turn(i) - 1]).ret
  /\ (\A i \in Txs : Ended(i)) => bal = rows[2 * N]

(* Only a call of the DAG that ran beside the one that created the table,  *)
(* on other accounts, is reverted: none in a block that finds the table,   *)
(* none that was sent back, and never the creator.                         *)
RevertedBesideCreator ==
  \A i \in reverted :
    /\ creator \in Txs \ reverted
    /\ Tags(i) # {} /\ Tags(creator) # {} /\ Tags(i) \cap Tags(creator) = {}
=============================================================================
