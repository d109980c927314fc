---------------------------- MODULE ContractAuth ----------------------------
(***************************************************************************)
(* Permissions of contracts: ContractAuthPrecompiled, the auth tables that *)
(* TransactionExecutive makes for each contract, and its checkAuth.        *)
(*                                                                         *)
(* Every contract has an admin; the admin gives a method a type (white or  *)
(* black list) and opens or closes it for accounts.  The committee does    *)
(* the same for deploying.  Writes go to the block's storage; the checks   *)
(* read the storage of the block before (lastStorage), so a change is in   *)
(* force from the next block on.                                           *)
(***************************************************************************)
EXTENDS Integers, FiniteSets

CONSTANTS Contracts, Funcs,
          Accounts,      \* externally owned accounts
          Committee,     \* AUTH_COMMITTEE_ADDRESS
          Deployed,      \* contracts that exist at first |-> their admin
          Types,         \* the types callers pass
          MaxNumber,     \* bound: the last block
          TxsPerBlock    \* bound: transactions of a block

WHITE == 1               \* AuthType::WHITE_LIST_MODE
BLACK == 2               \* AuthType::BLACK_LIST_MODE
None == -1               \* CODE_TABLE_AUTH_TYPE_NOT_EXIST: the method has no type
NoTable == [admin |-> "none"]
NoEntries == [a \in Accounts |-> "none"]   \* "yes", "no": the bool an account maps to

VARIABLES
  auth,       \* contract |-> its auth table: admin, type of each method, lists; or NoTable
  apps,       \* the deploy rows of /apps: type and the two lists
  last,       \* lastStorage: auth and apps as the block before left them
  hasLast,    \* whether there is a lastStorage
  number, txs,   \* the block, and how many transactions of it have run
  ret,           \* what the last transaction returned
  decided        \* history: method and account |-> the last open ("yes") or close ("no")
                 \* since the method got its type

vars == <<auth, apps, last, hasLast, number, txs, ret, decided>>

Now == [auth |-> auth, apps |-> apps]
Seen == IF hasLast THEN last ELSE Now      \* what the checks read

NewTable(admin) ==
  [admin |-> admin, type |-> [f \in Funcs |-> None],
   list |-> [t \in {WHITE, BLACK} |-> [f \in Funcs |-> NoEntries]]]
Deploy == <<"/apps", "deploy">>            \* deploying, among the methods

ASSUME TypesAssumption == Types \subseteq Nat                          \* uint8
ASSUME AdminsAssumption == \A c \in DOMAIN Deployed : Deployed[c] \in Accounts
ASSUME DeployAssumption == Deploy \notin Contracts \X Funcs
ASSUME BoundsAssumption == MaxNumber \in Nat /\ TxsPerBlock \in Nat

NewApps == [type |-> 0, list |-> [t \in {WHITE, BLACK} |-> NoEntries]]

-----------------------------------------------------------------------------
(* The checks.                                                              *)

\* BUG variant: the account's entry is read alike in both modes.
AllowsAlike(type, entries, a) ==
  IF entries[a] = "none" THEN type = BLACK ELSE entries[a] = "yes"

\* What an account's entry in the list of the type in force means.
Allows(type, entries, a) ==
  IF entries[a] = "none" THEN type = BLACK ELSE (entries[a] = "yes") = (type = WHITE)

\* A method without a type is free; one that is in neither mode is closed; one that is
\* not in a list that has other methods is free.
checkMethodAuth(s, c, f, a) ==
  LET table == s.auth[c]  type == table.type[f]  list == table.list[type] IN
  \/ table = NoTable
  \/ table # NoTable /\ type = None
  \/ /\ table # NoTable /\ type \in {WHITE, BLACK}
     /\ \/ list[f] = NoEntries /\ \E g \in Funcs : list[g] # NoEntries
        \/ Allows(type, list[f], a)

checkDeployAuth(s, a) ==
  \/ s.apps.type = 0
  \/ s.apps.type # 0 /\ Allows(s.apps.type, s.apps.list[s.apps.type], a)

\* BUG variant: permissions are read from the block's own storage.
checkAuthNow(c, f, a, isCreate) ==
  IF isCreate THEN checkDeployAuth(Now, a) ELSE checkMethodAuth(Now, c, f, a)

checkAuth(c, f, a, isCreate) ==
  IF isCreate THEN checkDeployAuth(Seen, a) ELSE checkMethodAuth(Seen, c, f, a)

\* Without a table the zero address, which is nobody's.
getContractAdmin(c) == Seen.auth[c].admin

-----------------------------------------------------------------------------
Init ==
  /\ auth = [c \in Contracts |-> IF c \in DOMAIN Deployed THEN NewTable(Deployed[c]) ELSE NoTable]
  /\ apps = NewApps
  /\ last = Now
  /\ hasLast \in BOOLEAN
  /\ number = 1 /\ txs = 0 /\ ret = "none"
  /\ decided = [m \in (Contracts \X Funcs) \cup {Deploy} |-> NoEntries]

Tx(code) == txs < TxsPerBlock /\ txs' = txs + 1 /\ ret' = code /\ UNCHANGED <<last, hasLast, number>>
Refuse(code) == Tx(code) /\ UNCHANGED <<auth, apps, decided>>

\* The block is executed and the next one begins, which reads from its storage.
NextBlock ==
  /\ number < MaxNumber
  /\ number' = number + 1 /\ txs' = 0 /\ ret' = "none"
  /\ last' = Now /\ hasLast' = TRUE
  /\ UNCHANGED <<auth, apps, decided>>

\* create, and creatAuthTable: a contract made by a contract inherits its admin.
Create(c, origin, sender) ==
  /\ sender \in {origin} \cup {d \in Contracts : auth[d] # NoTable}
  /\ CASE ~checkAuth(c, None, origin, TRUE) -> Refuse("PermissionDenied")
       [] checkAuth(c, None, origin, TRUE) /\ auth[c] # NoTable ->
            Refuse("ContractAddressAlreadyUsed")
       [] OTHER ->
            /\ Tx("ok")
            /\ auth' = [auth EXCEPT ![c] =
                          NewTable(IF sender = origin THEN sender ELSE auth[sender].admin)]
            /\ UNCHANGED <<apps, decided>>

\* A transaction calls a contract, or asks checkMethodAuth or hasDeployAuth; a static
\* call is not checked.
Call(c, f, origin, isCreate, static) ==
  Refuse(IF static \/ checkAuth(c, f, origin, isCreate) THEN "allowed"
         ELSE "PermissionDenied")

resetAdmin(sender, c, admin) ==
  CASE sender # Committee -> Refuse("CODE_NO_AUTHORIZED")
    [] sender = Committee /\ auth[c] = NoTable -> Refuse("PrecompiledError")
    [] OTHER -> /\ Tx("ok")
                /\ auth' = [auth EXCEPT ![c].admin = admin]
                /\ UNCHANGED <<apps, decided>>

setMethodAuthType(sender, c, f, type) ==
  CASE auth[c] = NoTable -> Refuse("CODE_TABLE_NOT_EXIST")
    [] auth[c] # NoTable /\ sender # getContractAdmin(c) -> Refuse("CODE_NO_AUTHORIZED")
    [] OTHER -> /\ Tx("ok")
                /\ auth' = [auth EXCEPT ![c].type[f] = type]
                /\ decided' = [decided EXCEPT ![<<c, f>>] = NoEntries]
                /\ UNCHANGED apps

\* The entry that open and close write: opposite ones in the two lists, and "no" in the
\* white list while there is no type.
Access(isClose, type) == IF type = (IF isClose THEN BLACK ELSE WHITE) THEN "yes" ELSE "no"
Decision(isClose) == IF isClose THEN "no" ELSE "yes"

\* openMethodAuth, closeMethodAuth.  The list is the one of the type the method had in
\* the block before: after a change of type in this block the decision goes to the list
\* that is no longer in force.  For a contract deployed in this block an empty optional
\* is dereferenced; what the build does then is taken to be a crash of the call.
setMethodAuth(sender, c, f, a, isClose) ==
  LET type == Seen.auth[c].type[f] IN
  CASE auth[c] = NoTable -> Refuse("CODE_TABLE_NOT_EXIST")
    [] auth[c] # NoTable /\ Seen.auth[c] = NoTable -> Refuse("undefined")
    [] auth[c] # NoTable /\ Seen.auth[c] # NoTable /\ type <= 0 ->
         Refuse(IF type = 0 THEN "ok" ELSE "CODE_TABLE_AUTH_TYPE_NOT_EXIST")
    [] auth[c] # NoTable /\ Seen.auth[c] # NoTable /\ type > 0 /\ sender # getContractAdmin(c) ->
         Refuse("CODE_NO_AUTHORIZED")
    [] auth[c] # NoTable /\ Seen.auth[c] # NoTable /\ type > 2 /\ sender = getContractAdmin(c) ->
         Refuse("CODE_TABLE_ERROR_AUTH_TYPE")
    [] OTHER -> /\ Tx("ok")
                /\ auth' = [auth EXCEPT ![c].list[type][f][a] = Access(isClose, type)]
                /\ decided' = IF auth[c].type[f] = type
                              THEN [decided EXCEPT ![<<c, f>>][a] = Decision(isClose)]
                              ELSE decided
                /\ UNCHANGED apps

setDeployType(sender, type) ==
  CASE sender # Committee -> Refuse("CODE_NO_AUTHORIZED")
    [] sender = Committee /\ type > 2 -> Refuse("CODE_TABLE_ERROR_AUTH_TYPE")
    [] OTHER -> /\ Tx("ok")
                /\ apps' = [apps EXCEPT !.type = type]
                /\ decided' = [decided EXCEPT ![Deploy] = NoEntries]
                /\ UNCHANGED auth

\* openDeployAuth, closeDeployAuth.  Without a type both deny, in the white list.
setDeployAuth(sender, a, isClose) ==
  LET type == Seen.apps.type
      list == IF type = BLACK THEN BLACK ELSE WHITE
  IN
  IF sender # Committee THEN Refuse("CODE_NO_AUTHORIZED")
  ELSE /\ Tx("ok")
       /\ apps' = [apps EXCEPT !.list[list][a] = Access(isClose, type)]
       /\ decided' = IF apps.type = type /\ type # 0
                     THEN [decided EXCEPT ![Deploy][a] = Decision(isClose)] ELSE decided
       /\ UNCHANGED auth

MethodTx(c) ==
  \/ \E sender \in Accounts \cup {Committee}, a \in Accounts : resetAdmin(sender, c, a)
  \/ \E f \in Funcs, sender \in Accounts :
       \/ \E type \in Types : setMethodAuthType(sender, c, f, type)
       \/ \E a \in Accounts, isClose \in BOOLEAN : setMethodAuth(sender, c, f, a, isClose)
  \/ \E origin \in Accounts : \E sender \in {origin} \cup Contracts : Create(c, origin, sender)
  \/ \E origin \in Accounts, f \in Funcs, isCreate, static \in BOOLEAN :
       Call(c, f, origin, isCreate, static)

DeployTx ==
  \E sender \in Accounts \cup {Committee} :
    \/ \E type \in Types : setDeployType(sender, type)
    \/ \E a \in Accounts, isClose \in BOOLEAN : setDeployAuth(sender, a, isClose)

Next == NextBlock \/ DeployTx \/ \E c \in Contracts : MethodTx(c)

Spec == Init /\ [][Next]_vars

-----------------------------------------------------------------------------
(* Properties.                                                              *)

(* The last decision on an account holds from the next block on (its       *)
(* checks read what is now the block's storage): an account for which a    *)
(* method, or deploying, was opened passes, one for which it was closed    *)
(* does not, in either mode, as long as the type stays.  It is the         *)
(* condition that matters: a decision made in the block in which the type  *)
(* changed is in the other list and is not among these.                    *)
DecisionsHold ==
  \A a \in Accounts :
    /\ decided[Deploy][a] # "none" => (decided[Deploy][a] = "yes") = checkDeployAuth(Now, a)
    /\ \A c \in Contracts, f \in Funcs :
         decided[<<c, f>>][a] # "none" =>
           (decided[<<c, f>>][a] = "yes") = checkMethodAuth(Now, c, f, a)

(* Within a block permissions do not change: whatever the admins and the   *)
(* committee do in it, every transaction of the block is checked alike,    *)
(* so that the outcome does not depend on the order in which the DAG or    *)
(* the scheduler runs them (lastStorage in checkMethodAuth,                *)
(* getMethodAuthType, checkDeployAuth and getDeployAuthType).              *)
StableInBlock ==
  [][hasLast /\ number' = number =>
       \A c \in Contracts, f \in Funcs, a \in Accounts, isCreate \in BOOLEAN :
         checkAuth(c, f, a, isCreate)' = checkAuth(c, f, a, isCreate)]_vars
=============================================================================
