------------------------- MODULE ContractAuthProofs -------------------------
(***************************************************************************)
(* Proofs about ContractAuth, for any contracts, methods, accounts and any *)
(* number of blocks and transactions.                                      *)
(*                                                                         *)
(* That a decision holds needs to know in which list it was written: the   *)
(* one of the type that is in force now (MethodDecided, DeployDecided).    *)
(* For deploying, where a decision made without a type goes to the white   *)
(* list, it also needs that there are decisions only while the type is the *)
(* one of the block before (TypeSettled).                                  *)
(***************************************************************************)
EXTENDS ContractAuth, TLAPS

Entries == [Accounts -> {"none", "yes", "no"}]
Table == [admin : Accounts, type : [Funcs -> Types \cup {None}],
          list : [{WHITE, BLACK} -> [Funcs -> Entries]]]
Apps == [type : 0 .. 2, list : [{WHITE, BLACK} -> Entries]]
Tables == [Contracts -> Table \cup {NoTable}]
Methods == (Contracts \X Funcs) \cup {Deploy}

\* Tables have the shape creatAuthTable gives them.
Shape ==
  /\ auth \in Tables /\ apps \in Apps
  /\ last \in [auth : Tables, apps : Apps] /\ hasLast \in BOOLEAN
  /\ number \in Nat
  /\ decided \in [Methods -> Entries]

\* What open ("yes") and close ("no") write in the list of a type.
Entry(decision, type) == IF (decision = "yes") <=> (type = WHITE) THEN "yes" ELSE "no"

\* A decision on a method is in the list of the type it has now.
MethodDecided ==
  \A c \in Contracts, f \in Funcs, a \in Accounts :
    decided[<<c, f>>][a] # "none" =>
      /\ auth[c] # NoTable /\ auth[c].type[f] \in {WHITE, BLACK}
      /\ auth[c].list[auth[c].type[f]][f][a] = Entry(decided[<<c, f>>][a], auth[c].type[f])

\* So is one on deploying.
DeployDecided ==
  \A a \in Accounts : decided[Deploy][a] # "none" =>
    /\ apps.type \in {WHITE, BLACK}
    /\ apps.list[apps.type][a] = Entry(decided[Deploy][a], apps.type)

\* Decisions on deploying are made under a type that the block before had.
TypeSettled == hasLast /\ last.apps.type # apps.type => decided[Deploy] = NoEntries

IndInv == Shape /\ MethodDecided /\ DeployDecided /\ TypeSettled

-----------------------------------------------------------------------------
(* Tables.                                                                  *)

\* A contract that has a table is told from one that has none.
LEMMA TableFacts ==
  /\ NoTable \notin Table
  /\ \A admin \in Accounts : NewTable(admin) \in Table
  /\ NewApps \in Apps /\ NoEntries \in Entries
  <1>1. NoTable \notin Table
    BY DEF NoTable, Table
  <1>2. NoEntries \in Entries
    BY DEF NoEntries, Entries
  <1>3. \A admin \in Accounts : NewTable(admin) \in Table
    BY <1>2 DEF NewTable, Table
  <1>4. NewApps \in Apps
    BY <1>2 DEF NewApps, Apps
  <1> QED  BY <1>1, <1>2, <1>3, <1>4

\* What the actions do to a table leaves it a table.
LEMMA TableUpdates ==
  ASSUME NEW table \in Table
  PROVE  /\ \A admin \in Accounts : [table EXCEPT !.admin = admin] \in Table
         /\ \A f \in Funcs, type \in Types : [table EXCEPT !.type[f] = type] \in Table
         /\ \A f \in Funcs, type \in {WHITE, BLACK}, a \in Accounts, e \in {"yes", "no"} :
              [table EXCEPT !.list[type][f][a] = e] \in Table
  <1>1. \A admin \in Accounts : [table EXCEPT !.admin = admin] \in Table
    BY DEF Table
  <1>2. \A f \in Funcs, type \in Types : [table EXCEPT !.type[f] = type] \in Table
    BY DEF Table
  <1>3. \A f \in Funcs, type \in {WHITE, BLACK}, a \in Accounts, e \in {"yes", "no"} :
              [table EXCEPT !.list[type][f][a] = e] \in Table
    BY DEF Table, Entries
  <1> QED  BY <1>1, <1>2, <1>3

-----------------------------------------------------------------------------
(* The invariant is inductive.                                              *)

\* The contracts deployed at first have tables without decisions.
LEMMA InitInv == Init => IndInv
  <1> SUFFICES ASSUME Init PROVE IndInv
    OBVIOUS
  <1>1. auth \in Tables /\ apps \in Apps
    BY TableFacts, AdminsAssumption DEF Init, Tables
  <1>2. Shape
    <2>1. decided \in [Methods -> Entries]
      BY TableFacts DEF Init, Methods
    <2> QED  BY <1>1, <2>1 DEF Init, Shape, Now
  <1>3. \A m \in Methods, a \in Accounts : decided[m][a] = "none"
    BY DEF Init, Methods, NoEntries
  <1>4. MethodDecided /\ DeployDecided
    BY <1>3 DEF MethodDecided, DeployDecided, Methods
  <1>5. TypeSettled
    BY DEF TypeSettled, Init, Now
  <1> QED  BY <1>2, <1>4, <1>5 DEF IndInv

\* A refused transaction, or one that only asks, changes nothing the invariant is about.
LEMMA SameInv ==
  ASSUME IndInv, UNCHANGED <<auth, apps, decided, last, hasLast, number>>
  PROVE  IndInv'
  BY DEF IndInv, Shape, MethodDecided, DeployDecided, TypeSettled

\* In particular a refused transaction keeps the invariant.
LEMMA RefuseInv ==
  ASSUME IndInv, NEW code, Refuse(code)
  PROVE  IndInv'
  BY SameInv DEF Refuse, Tx

\* The methods of different contracts, and deploying, have rows of their own.
LEMMA MethodsFacts ==
  /\ \A c \in Contracts, f \in Funcs : <<c, f>> \in Methods /\ <<c, f>> # Deploy
  /\ Deploy \in Methods
  BY DeployAssumption DEF Methods

\* The next block reads what this one wrote.
LEMMA NextBlockInv ==
  ASSUME IndInv, NextBlock
  PROVE  IndInv'
  <1>1. Shape'
    BY DEF IndInv, NextBlock, Shape, Now
  <1>2. MethodDecided' /\ DeployDecided'
    BY DEF IndInv, NextBlock, MethodDecided, DeployDecided
  <1>3. TypeSettled'
    BY DEF NextBlock, TypeSettled, Now
  <1> QED  BY <1>1, <1>2, <1>3 DEF IndInv

\* One contract's table changes; its decided methods stay as they were decided.
LEMMA AuthInv ==
  ASSUME IndInv, NEW c \in Contracts, NEW table \in Table,
         auth' = [auth EXCEPT ![c] = table],
         UNCHANGED <<apps, last, hasLast, number>>,
         decided' \in [Methods -> Entries], decided'[Deploy] = decided[Deploy],
         \A d \in Contracts, f \in Funcs : d # c => decided'[<<d, f>>] = decided[<<d, f>>],
         \A f \in Funcs, a \in Accounts : decided'[<<c, f>>][a] # "none" =>
           /\ table.type[f] \in {WHITE, BLACK}
           /\ table.list[table.type[f]][f][a] = Entry(decided'[<<c, f>>][a], table.type[f])
  PROVE  IndInv'
  <1>1. auth' \in Tables /\ auth'[c] = table /\ \A d \in Contracts : d # c => auth'[d] = auth[d]
    BY DEF IndInv, Shape, Tables
  <1>2. Shape'
    BY <1>1 DEF IndInv, Shape
  <1>3. MethodDecided'
    BY <1>1, TableFacts DEF IndInv, MethodDecided
  <1>4. DeployDecided' /\ TypeSettled'
    BY DEF IndInv, DeployDecided, TypeSettled
  <1> QED  BY <1>2, <1>3, <1>4 DEF IndInv

\* Contracts without a table have no decided method.
LEMMA CreateInv ==
  ASSUME IndInv, NEW c \in Contracts, NEW origin \in Accounts,
         NEW sender \in {origin} \cup Contracts, Create(c, origin, sender)
  PROVE  IndInv'
  <1>1. CASE \E code : Refuse(code)
    BY <1>1, RefuseInv
  <1>2. CASE ~\E code : Refuse(code)
    <2> DEFINE table == NewTable(IF sender = origin THEN sender ELSE auth[sender].admin)
    <2>1. /\ auth[c] = NoTable
          /\ auth' = [auth EXCEPT ![c] = table]
          /\ UNCHANGED <<apps, decided, last, hasLast, number>>
      BY <1>2 DEF Create, Tx
    <2>2. table \in Table
      <3>1. sender # origin => auth[sender] \in Table
        BY DEF Create, IndInv, Shape, Tables
      <3>2. sender # origin => auth[sender].admin \in Accounts
        BY <3>1 DEF Table
      <3> QED  BY <3>2, TableFacts
    <2>3. \A f \in Funcs, a \in Accounts : decided[<<c, f>>][a] = "none"
      BY <2>1 DEF IndInv, MethodDecided
    <2> HIDE DEF table
    <2> QED  BY <2>1, <2>2, <2>3, AuthInv DEF IndInv, Shape
  <1> QED  BY <1>1, <1>2

\* resetAdmin leaves types and lists alone.
LEMMA ResetAdminInv ==
  ASSUME IndInv, NEW sender, NEW c \in Contracts, NEW admin \in Accounts,
         resetAdmin(sender, c, admin)
  PROVE  IndInv'
  <1>1. CASE \E code : Refuse(code)
    BY <1>1, RefuseInv
  <1>2. CASE ~\E code : Refuse(code)
    <2> DEFINE table == [auth[c] EXCEPT !.admin = admin]
    <2>1. /\ auth[c] # NoTable
          /\ auth' = [auth EXCEPT ![c] = table]
          /\ UNCHANGED <<apps, decided, last, hasLast, number>>
      BY <1>2 DEF resetAdmin, Tx
    <2>2. auth[c] \in Table
      BY <2>1 DEF IndInv, Shape, Tables
    <2>3. table \in Table /\ table.type = auth[c].type /\ table.list = auth[c].list
      BY <2>2, TableUpdates DEF Table
    <2> HIDE DEF table
    <2>4. \A f \in Funcs, a \in Accounts : decided[<<c, f>>][a] # "none" =>
           /\ table.type[f] \in {WHITE, BLACK}
           /\ table.list[table.type[f]][f][a] = Entry(decided[<<c, f>>][a], table.type[f])
      BY <2>1, <2>3 DEF IndInv, MethodDecided
    <2> QED  BY <2>1, <2>3, <2>4, AuthInv DEF IndInv, Shape
  <1> QED  BY <1>1, <1>2

\* A new type takes back the decisions on the method.
LEMMA SetMethodAuthTypeInv ==
  ASSUME IndInv, NEW sender, NEW c \in Contracts, NEW f \in Funcs, NEW type \in Types,
         setMethodAuthType(sender, c, f, type)
  PROVE  IndInv'
  <1>1. CASE \E code : Refuse(code)
    BY <1>1, RefuseInv
  <1>2. CASE ~\E code : Refuse(code)
    <2> DEFINE table == [auth[c] EXCEPT !.type[f] = type]
    <2>1. /\ auth[c] # NoTable
          /\ auth' = [auth EXCEPT ![c] = table]
          /\ decided' = [decided EXCEPT ![<<c, f>>] = NoEntries]
          /\ UNCHANGED <<apps, last, hasLast, number>>
      BY <1>2 DEF setMethodAuthType, Tx
    <2>2. auth[c] \in Table
      BY <2>1 DEF IndInv, Shape, Tables
    <2>3. /\ table \in Table /\ table.list = auth[c].list
          /\ \A g \in Funcs : g # f => table.type[g] = auth[c].type[g]
      <3>1. table \in Table
        BY <2>2, TableUpdates
      <3>2. table.list = auth[c].list /\ table.type = [auth[c].type EXCEPT ![f] = type]
        BY <2>2 DEF Table
      <3>3. auth[c].type \in [Funcs -> Types \cup {None}]
        BY <2>2 DEF Table
      <3> HIDE DEF table
      <3> QED  BY <3>1, <3>2, <3>3
    <2> HIDE DEF table
    <2>4. /\ decided' \in [Methods -> Entries] /\ decided'[<<c, f>>] = NoEntries
          /\ \A m \in Methods : m # <<c, f>> => decided'[m] = decided[m]
      BY <2>1, MethodsFacts, TableFacts DEF IndInv, Shape
    <2>5. decided'[Deploy] = decided[Deploy]
      BY <2>4, MethodsFacts
    <2>6. \A d \in Contracts, g \in Funcs : d # c => decided'[<<d, g>>] = decided[<<d, g>>]
      BY <2>4, MethodsFacts
    <2>7. \A g \in Funcs, a \in Accounts : decided'[<<c, g>>][a] # "none" =>
            g # f /\ decided[<<c, g>>][a] # "none" /\ decided'[<<c, g>>] = decided[<<c, g>>]
      BY <2>4, MethodsFacts DEF NoEntries
    <2>8. \A g \in Funcs, a \in Accounts : decided'[<<c, g>>][a] # "none" =>
           /\ table.type[g] \in {WHITE, BLACK}
           /\ table.list[table.type[g]][g][a] = Entry(decided'[<<c, g>>][a], table.type[g])
      BY <2>3, <2>7 DEF IndInv, MethodDecided
    <2> QED  BY <2>1, <2>3, <2>4, <2>5, <2>6, <2>8, AuthInv
  <1> QED  BY <1>1, <1>2

\* open and close write in the list of the type the method had in the block before.  If
\* that is still its type the entry is the decision; if not, it is in the other list.
LEMMA SetMethodAuthInv ==
  ASSUME IndInv, NEW sender, NEW c \in Contracts, NEW f \in Funcs, NEW a \in Accounts,
         NEW isClose \in BOOLEAN, setMethodAuth(sender, c, f, a, isClose)
  PROVE  IndInv'
  <1>1. CASE \E code : Refuse(code)
    BY <1>1, RefuseInv
  <1>2. CASE ~\E code : Refuse(code)
    <2> DEFINE type == Seen.auth[c].type[f]
               e == Access(isClose, type)
               table == [auth[c] EXCEPT !.list[type][f][a] = e]
    <2>a. auth[c] # NoTable /\ Seen.auth[c] # NoTable
      BY <1>2 DEF setMethodAuth
    <2>2. auth[c] \in Table /\ Seen.auth[c] \in Table
      <3>1. Seen.auth \in Tables
        BY DEF Seen, Now, IndInv, Shape
      <3> QED  BY <2>a, <3>1 DEF IndInv, Shape, Tables
    <2>b. type \in Int
      <3>1. type \in Types \cup {None}
        BY <2>2 DEF Table
      <3>2. \A x \in Types \cup {None} : x \in Int
        BY TypesAssumption DEF None
      <3> QED  BY <3>1, <3>2
    <2>c. setMethodAuth(sender, c, f, a, isClose) =>
             \/ \E code : Refuse(code)
             \/ /\ ~(type <= 0) /\ ~(type > 2) /\ Tx("ok")
                /\ auth' = [auth EXCEPT ![c] = table]
                /\ decided' = IF auth[c].type[f] = type
                              THEN [decided EXCEPT ![<<c, f>>][a] = Decision(isClose)]
                              ELSE decided
                /\ UNCHANGED apps
      <3> HIDE DEF table
      <3>1. CASE type <= 0
        BY <2>a, <3>1 DEF setMethodAuth
      <3>2. CASE type > 0 /\ sender # getContractAdmin(c)
        BY <2>a, <2>b, <3>2 DEF setMethodAuth
      <3>3. CASE type > 2 /\ sender = getContractAdmin(c)
        BY <2>a, <2>b, <3>3 DEF setMethodAuth
      <3>4. CASE type > 0 /\ ~(type > 2) /\ sender = getContractAdmin(c)
        BY <2>a, <2>b, <3>4 DEF setMethodAuth, table
      <3> QED  BY <2>b, <3>1, <3>2, <3>3, <3>4
    <2>1. /\ ~(type <= 0) /\ ~(type > 2)
          /\ auth' = [auth EXCEPT ![c] = table]
          /\ decided' = IF auth[c].type[f] = type
                        THEN [decided EXCEPT ![<<c, f>>][a] = Decision(isClose)]
                        ELSE decided
          /\ UNCHANGED <<apps, last, hasLast, number>>
      BY <1>2, <2>c DEF Tx
    <2>3. type \in {WHITE, BLACK} /\ e \in {"yes", "no"} /\ Decision(isClose) \in {"yes", "no"}
      <3>1. type = 1 \/ type = 2
        <4>1. \A x \in Int : ~(x <= 0) /\ ~(x > 2) => x = 1 \/ x = 2
          OBVIOUS
        <4>2. ~(type <= 0) /\ ~(type > 2)
          BY <2>1
        <4> HIDE DEF type
        <4> QED  BY <2>b, <4>1, <4>2
      <3> QED  BY <3>1 DEF WHITE, BLACK, Access, Decision
    <2>4. e = Entry(Decision(isClose), type)
      BY <2>3 DEF Access, Decision, Entry, WHITE, BLACK
    <2> HIDE DEF type, e
    <2>5. table \in Table
      BY <2>2, <2>3, TableUpdates
    <2>6. /\ table.type = auth[c].type
          /\ table.list[type][f][a] = e
          /\ \A k \in {WHITE, BLACK}, g \in Funcs, b \in Accounts :
               ~(k = type /\ g = f /\ b = a) => table.list[k][g][b] = auth[c].list[k][g][b]
      <3>1. auth[c].list \in [{WHITE, BLACK} -> [Funcs -> Entries]]
        BY <2>2 DEF Table
      <3>2. table.type = auth[c].type /\ table.list = [auth[c].list EXCEPT ![type][f][a] = e]
        BY <2>2 DEF Table
      <3> HIDE DEF table
      <3> QED  BY <2>3, <3>1, <3>2 DEF Entries
    <2> HIDE DEF table
    <2>7. /\ decided' \in [Methods -> Entries]
          /\ \A m \in Methods : m # <<c, f>> => decided'[m] = decided[m]
          /\ \A b \in Accounts : decided'[<<c, f>>][b] =
               IF b = a /\ auth[c].type[f] = type THEN Decision(isClose) ELSE decided[<<c, f>>][b]
      BY <2>1, <2>3, MethodsFacts DEF IndInv, Shape, Entries
    <2>8. decided'[Deploy] = decided[Deploy]
      BY <2>7, MethodsFacts
    <2>9. \A d \in Contracts, g \in Funcs : d # c => decided'[<<d, g>>] = decided[<<d, g>>]
      BY <2>7, MethodsFacts
    <2>10. ASSUME NEW g \in Funcs, NEW b \in Accounts, decided'[<<c, g>>][b] # "none"
           PROVE  /\ table.type[g] \in {WHITE, BLACK}
                  /\ table.list[table.type[g]][g][b] = Entry(decided'[<<c, g>>][b], table.type[g])
      <3>1. CASE g = f /\ b = a /\ auth[c].type[f] = type
        BY <2>3, <2>4, <2>6, <2>7, <3>1
      <3>2. CASE ~(g = f /\ b = a /\ auth[c].type[f] = type)
        <4>1. decided'[<<c, g>>][b] = decided[<<c, g>>][b]
          BY <2>7, <3>2, MethodsFacts
        <4>2. /\ auth[c].type[g] \in {WHITE, BLACK}
              /\ auth[c].list[auth[c].type[g]][g][b] = Entry(decided[<<c, g>>][b], auth[c].type[g])
          BY <2>10, <4>1 DEF IndInv, MethodDecided
        <4>3. table.list[auth[c].type[g]][g][b] = auth[c].list[auth[c].type[g]][g][b]
          BY <2>6, <3>2, <4>2
        <4> QED  BY <2>6, <4>1, <4>2, <4>3
      <3> QED  BY <3>1, <3>2
    <2> QED  BY <2>1, <2>5, <2>7, <2>8, <2>9, <2>10, AuthInv
  <1> QED  BY <1>1, <1>2

\* A new type for deploying takes back the decisions on it.
LEMMA SetDeployTypeInv ==
  ASSUME IndInv, NEW sender, NEW type \in Types, setDeployType(sender, type)
  PROVE  IndInv'
  <1>1. CASE \E code : Refuse(code)
    BY <1>1, RefuseInv
  <1>2. CASE ~\E code : Refuse(code)
    <2>1. /\ ~(type > 2) /\ apps' = [apps EXCEPT !.type = type]
          /\ decided' = [decided EXCEPT ![Deploy] = NoEntries]
          /\ UNCHANGED <<auth, last, hasLast, number>>
      BY <1>2 DEF setDeployType, Tx
    <2>2. type \in 0 .. 2
      BY <2>1, TypesAssumption
    <2>3. apps' \in Apps
      BY <2>1, <2>2 DEF IndInv, Shape, Apps
    <2>4. /\ decided' \in [Methods -> Entries] /\ decided'[Deploy] = NoEntries
          /\ \A c \in Contracts, f \in Funcs : decided'[<<c, f>>] = decided[<<c, f>>]
      BY <2>1, MethodsFacts, TableFacts DEF IndInv, Shape
    <2>5. Shape' /\ TypeSettled'
      BY <2>1, <2>3, <2>4 DEF IndInv, Shape, TypeSettled
    <2>6. MethodDecided'
      BY <2>1, <2>4 DEF IndInv, MethodDecided
    <2>7. DeployDecided'
      BY <2>4 DEF DeployDecided, NoEntries
    <2> QED  BY <2>5, <2>6, <2>7 DEF IndInv
  <1> QED  BY <1>1, <1>2

\* The committee opens or closes deploying: in the list of the type of the block before,
\* which is in force unless it was changed in this block.
LEMMA SetDeployAuthInv ==
  ASSUME IndInv, NEW sender, NEW a \in Accounts, NEW isClose \in BOOLEAN,
         setDeployAuth(sender, a, isClose)
  PROVE  IndInv'
  <1>1. CASE \E code : Refuse(code)
    BY <1>1, RefuseInv
  <1>2. CASE ~\E code : Refuse(code)
    <2> DEFINE type == Seen.apps.type
               k == IF type = BLACK THEN BLACK ELSE WHITE
               e == Access(isClose, type)
    <2>1. /\ apps' = [apps EXCEPT !.list[k][a] = e]
          /\ decided' = IF apps.type = type /\ type # 0
                        THEN [decided EXCEPT ![Deploy][a] = Decision(isClose)] ELSE decided
          /\ UNCHANGED <<auth, last, hasLast, number>>
      BY <1>2 DEF setDeployAuth, Tx
    <2>2. /\ type \in 0 .. 2 /\ e \in {"yes", "no"} /\ Decision(isClose) \in {"yes", "no"}
          /\ k \in {WHITE, BLACK}
      <3>1. Seen.apps \in Apps
        BY DEF Seen, Now, IndInv, Shape
      <3> QED  BY <3>1 DEF Apps, Access, Decision
    <2>3. type # 0 => type = k /\ e = Entry(Decision(isClose), k)
      BY <2>2 DEF Access, Decision, Entry, WHITE, BLACK
    <2>4. ~(\A b \in Accounts : decided[Deploy][b] = "none") => apps.type = type /\ type # 0
      <3> SUFFICES ASSUME NEW b \in Accounts, decided[Deploy][b] # "none"
                   PROVE  apps.type = type /\ type # 0
        OBVIOUS
      <3>1. apps.type \in {WHITE, BLACK}
        BY DEF IndInv, DeployDecided
      <3>2. ~(hasLast /\ last.apps.type # apps.type)
        BY DEF IndInv, TypeSettled, NoEntries
      <3>3. apps.type = type
        BY <3>2 DEF Seen, Now, IndInv, Shape
      <3> QED  BY <3>1, <3>3 DEF WHITE, BLACK
    <2>5. last.apps.type # apps.type /\ hasLast => type = last.apps.type
      BY DEF Seen
    <2> HIDE DEF type, k, e
    <2>6. /\ apps' \in Apps /\ apps'.type = apps.type /\ apps'.list[k][a] = e
          /\ \A l \in {WHITE, BLACK}, b \in Accounts :
               ~(l = k /\ b = a) => apps'.list[l][b] = apps.list[l][b]
      <3>1. /\ apps \in [type : 0 .. 2, list : [{WHITE, BLACK} -> Entries]]
            /\ apps.list \in [{WHITE, BLACK} -> Entries]
        BY DEF IndInv, Shape, Apps
      <3>2. apps'.type = apps.type /\ apps'.list = [apps.list EXCEPT ![k][a] = e]
        BY <2>1, <3>1
      <3>3. apps'.list \in [{WHITE, BLACK} -> Entries]
        BY <2>2, <3>1, <3>2 DEF Entries
      <3>4. apps' \in Apps
        BY <2>1, <3>1, <3>2, <3>3 DEF Apps
      <3> QED  BY <2>2, <3>1, <3>2, <3>4 DEF Entries
    <2>7. /\ decided' \in [Methods -> Entries]
          /\ \A b \in Accounts : decided'[Deploy][b] =
               IF b = a /\ apps.type = type /\ type # 0 THEN Decision(isClose) ELSE decided[Deploy][b]
          /\ \A m \in Methods : m # Deploy => decided'[m] = decided[m]
          /\ decided'[Deploy] # decided[Deploy] => apps.type = type
      BY <2>1, <2>2, MethodsFacts DEF IndInv, Shape, Entries
    <2>8. Shape'
      BY <2>1, <2>6, <2>7 DEF IndInv, Shape
    <2>9. MethodDecided'
      BY <2>1, <2>7, MethodsFacts DEF IndInv, MethodDecided
    <2>10. DeployDecided'
      <3> SUFFICES ASSUME NEW b \in Accounts, decided'[Deploy][b] # "none"
                   PROVE  /\ apps.type \in {WHITE, BLACK}
                          /\ apps'.list[apps.type][b] = Entry(decided'[Deploy][b], apps.type)
        BY <2>6 DEF DeployDecided
      <3>1. apps.type = type /\ type # 0 /\ type = k
        BY <2>3, <2>4, <2>7
      <3>2. CASE b = a
        BY <2>2, <2>3, <2>6, <2>7, <3>1, <3>2
      <3>3. CASE b # a
        BY <2>2, <2>6, <2>7, <3>1, <3>3 DEF IndInv, DeployDecided
      <3> QED  BY <3>2, <3>3
    <2>11. TypeSettled'
      BY <2>1, <2>5, <2>6, <2>7 DEF IndInv, TypeSettled
    <2> QED  BY <2>8, <2>9, <2>10, <2>11 DEF IndInv
  <1> QED  BY <1>1, <1>2

\* Every transaction and every new block preserves the invariant.
LEMMA StepInv == IndInv /\ [Next]_vars => IndInv'
  <1> SUFFICES ASSUME IndInv, [Next]_vars PROVE IndInv'
    OBVIOUS
  <1>1. CASE UNCHANGED vars
    BY <1>1, SameInv DEF vars
  <1>2. CASE NextBlock
    BY <1>2, NextBlockInv
  <1>3. CASE DeployTx
    BY <1>3, SetDeployTypeInv, SetDeployAuthInv DEF DeployTx
  <1>4. ASSUME NEW c \in Contracts, MethodTx(c) PROVE IndInv'
    <2>1. ASSUME NEW origin \in Accounts, NEW f \in Funcs, NEW isCreate \in BOOLEAN,
                 NEW static \in BOOLEAN, Call(c, f, origin, isCreate, static)
          PROVE  IndInv'
      BY <2>1, RefuseInv DEF Call
    <2> QED
      BY <1>4, <2>1, ResetAdminInv, SetMethodAuthTypeInv, SetMethodAuthInv, CreateInv DEF MethodTx
  <1> QED  BY <1>1, <1>2, <1>3, <1>4 DEF Next

\* The inductive invariant holds in every reachable state.
THEOREM Invariance == Spec => []IndInv
  BY InitInv, StepInv, PTL DEF Spec

(* The last decision on an account, on a method or on deploying, holds     *)
(* from the next block on, in either mode and as long as the type stays,   *)
(* whatever else the admins and the committee do (setMethodAuth,           *)
(* setDeployAuth, checkMethodAuth, checkDeployAuth).                       *)
THEOREM DecisionsAreKept == Spec => []DecisionsHold
  <1>1. IndInv => DecisionsHold
    <2> SUFFICES ASSUME IndInv PROVE DecisionsHold
      OBVIOUS
    <2>1. ASSUME NEW a \in Accounts, decided[Deploy][a] # "none"
          PROVE  (decided[Deploy][a] = "yes") <=> checkDeployAuth(Now, a)
      <3>1. /\ apps.type \in {WHITE, BLACK}
            /\ apps.list[apps.type][a] = Entry(decided[Deploy][a], apps.type)
        BY <2>1 DEF IndInv, DeployDecided
      <3> QED  BY <3>1 DEF checkDeployAuth, Now, Allows, Entry, WHITE, BLACK
    <2>2. ASSUME NEW c \in Contracts, NEW f \in Funcs, NEW a \in Accounts,
                 decided[<<c, f>>][a] # "none"
          PROVE  (decided[<<c, f>>][a] = "yes") <=> checkMethodAuth(Now, c, f, a)
      <3> DEFINE type == auth[c].type[f]
                 list == auth[c].list[type]
      <3>1. auth[c] # NoTable /\ type \in {WHITE, BLACK}
            /\ list[f][a] = Entry(decided[<<c, f>>][a], type)
        BY <2>2 DEF IndInv, MethodDecided
      <3>2. list[f][a] # "none" /\ list[f] # NoEntries /\ type # None
        BY <3>1 DEF Entry, NoEntries, WHITE, BLACK, None
      <3>3. checkMethodAuth(Now, c, f, a) <=> Allows(type, list[f], a)
        BY <3>1, <3>2 DEF checkMethodAuth, Now
      <3>4. Allows(type, list[f], a) <=> (decided[<<c, f>>][a] = "yes")
        BY <3>1, <3>2 DEF Allows, Entry
      <3> QED  BY <3>3, <3>4
    <2>3. \A b1, b2 \in BOOLEAN : (b1 <=> b2) => b1 = b2
      OBVIOUS
    <2> QED  BY <2>1, <2>2, <2>3 DEF DecisionsHold, checkDeployAuth, checkMethodAuth
  <1> QED  BY <1>1, Invariance, PTL

\* No transaction changes the storage of the block before.
LEMMA TxKeepsLast ==
  ASSUME DeployTx \/ \E c \in Contracts : MethodTx(c)
  PROVE  UNCHANGED <<last, hasLast, number>>
  <1> USE DEF Refuse, Tx
  <1>1. ASSUME NEW sender, NEW type, setDeployType(sender, type)
        PROVE  UNCHANGED <<last, hasLast, number>>
    BY <1>1 DEF setDeployType
  <1>2. ASSUME NEW sender, NEW a, NEW isClose, setDeployAuth(sender, a, isClose)
        PROVE  UNCHANGED <<last, hasLast, number>>
    BY <1>2 DEF setDeployAuth
  <1>3. ASSUME NEW sender, NEW c, NEW a, resetAdmin(sender, c, a)
        PROVE  UNCHANGED <<last, hasLast, number>>
    BY <1>3 DEF resetAdmin
  <1>4. ASSUME NEW sender, NEW c, NEW f, NEW type, setMethodAuthType(sender, c, f, type)
        PROVE  UNCHANGED <<last, hasLast, number>>
    BY <1>4 DEF setMethodAuthType
  <1>5. ASSUME NEW sender, NEW c, NEW f, NEW a, NEW isClose, setMethodAuth(sender, c, f, a, isClose)
        PROVE  UNCHANGED <<last, hasLast, number>>
    BY <1>5 DEF setMethodAuth
  <1>6. ASSUME NEW c, NEW origin, NEW sender, Create(c, origin, sender)
        PROVE  UNCHANGED <<last, hasLast, number>>
    BY <1>6 DEF Create
  <1>7. ASSUME NEW c, NEW f, NEW origin, NEW isCreate, NEW static, Call(c, f, origin, isCreate, static)
        PROVE  UNCHANGED <<last, hasLast, number>>
    BY <1>7 DEF Call
  <1>8. ASSUME NEW c \in Contracts, MethodTx(c)
        PROVE  UNCHANGED <<last, hasLast, number>>
    <2> HIDE DEF Refuse, Tx
    <2> QED  BY <1>8, <1>3, <1>4, <1>5, <1>6, <1>7 DEF MethodTx
  <1> HIDE DEF Refuse, Tx
  <1> QED  BY <1>1, <1>2, <1>8 DEF DeployTx

(* Within a block every transaction is checked alike, whatever the admins  *)
(* and the committee do in it: the checks read lastStorage only.           *)
THEOREM StableInBlockHolds == Spec => StableInBlock
  <1> DEFINE Same == \A c \in Contracts, f \in Funcs, a \in Accounts, isCreate \in BOOLEAN :
                       checkAuth(c, f, a, isCreate)' = checkAuth(c, f, a, isCreate)
  <1>1. IndInv /\ [Next]_vars => [hasLast /\ number' = number => Same]_vars
    <2> SUFFICES ASSUME IndInv, Next, hasLast, number' = number PROVE Same
      OBVIOUS
    <2>1. UNCHANGED <<last, hasLast>>
      <3>1. ~NextBlock
        BY DEF NextBlock, IndInv, Shape
      <3> QED  BY <3>1, TxKeepsLast DEF Next
    <2>2. Seen' = Seen
      BY <2>1 DEF Seen
    <2> QED  BY <2>2 DEF checkAuth, checkDeployAuth, checkMethodAuth
  <1> QED  BY <1>1, Invariance, PTL DEF Spec, StableInBlock

=============================================================================
