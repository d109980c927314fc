-------------------------------- MODULE BFS --------------------------------
(***************************************************************************)
(* The contract file system of a chain: directories, KV tables and Wasm    *)
(* contracts in one tree (FileSystemPrecompiled, KVTableFactoryPrecompiled, *)
(* the path helpers of Utilities.cpp and TransactionExecutive::create).    *)
(*                                                                         *)
(* Every node is a storage table named by its path.  A directory's table   *)
(* has the rows type and sub, and sub lists the names and types of its     *)
(* entries.  A path is the sequence of what stands between its slashes;    *)
(* "" is what a doubled or a trailing slash leaves.  Tables are opened by  *)
(* the path as written, directories are built along the normalised one.    *)
(*                                                                         *)
(* FsInit, FsNext and FsSpec are named so that a module can extend this    *)
(* one beside another component.                                           *)
(***************************************************************************)
EXTENDS Integers, Sequences, SequencesExt

CONSTANTS DirPaths,       \* the paths callers of mkdir and list write
          TableNames,     \* the names callers of the KV table contract write
          Deployments,    \* the paths Wasm contracts are deployed at
          FsPathMaxLevel,
          RowKeys         \* keys of rows in KV tables; "type" may be one

VARIABLES tables,         \* path |-> its table: [kind, sub]; the domain is what exists
          rows,           \* <<path, key>> of the rows of KV tables
          tampered,       \* history: the paths whose row type was written by KV set
          fsRet           \* what the last call returned

fsVars == <<tables, rows, tampered, fsRet>>

Root == <<>>

\* "/" is written <<>> and not <<"">>.  A row sub written by KV set, which would be read
\* as a listing, is left out.
ASSUME PathsAssumption ==
  /\ DirPaths \cup TableNames \cup Deployments \subseteq Seq(STRING)
  /\ <<"">> \notin Deployments
  /\ FsPathMaxLevel \in Nat
  /\ "sub" \notin RowKeys

Dir == [kind |-> "dir", sub |-> {}]
File == [kind |-> "file", sub |-> {}]      \* a table without the row type

FsInit ==
  /\ tables = [p \in {Root, <<"apps">>, <<"tables">>} |->
                 IF p = Root THEN [Dir EXCEPT !.sub = {<<"apps", "directory">>, <<"tables", "directory">>}]
                 ELSE Dir]
  /\ rows = {} /\ tampered = {} /\ fsRet = <<"none">>

-----------------------------------------------------------------------------
(* Paths.                                                                   *)

\* What is between the slashes of q, from the first name on.
NamesOf(q) ==
  LET names[n \in 0 .. Len(q)] ==
        IF n = 0 THEN <<>>
        ELSE IF q[n] = "" THEN names[n - 1] ELSE Append(names[n - 1], q[n])
  IN names[Len(q)]

\* One trailing slash is dropped, adjacent ones count as one.  A slash doubled at the
\* front leads from the root to the root.
Norm(p) ==
  LET q == IF p # <<>> /\ Last(p) = "" THEN Front(p) ELSE p
  IN IF q # <<>> /\ Last(q) = "" THEN Append(NamesOf(q), "") ELSE NamesOf(q)

checkPathValid(p) ==
  p # Root => /\ p[1] # "" /\ Len(Norm(p)) \in 1 .. FsPathMaxLevel
              /\ \A n \in DOMAIN Norm(p) : Norm(p)[n] \notin {"", "bad"}

getParentDir(p) == Front(Norm(p))
getBaseName(p) == Last(Norm(p))

getTableName(name) == <<"tables">> \o IF name = <<>> THEN <<"">> ELSE name

-----------------------------------------------------------------------------
(* Building directories, one component of a path after the other: the       *)
(* tables so far and whether it still goes well.                            *)

With(t, p, table) == [q \in DOMAIN t \cup {p} |-> IF q = p THEN table ELSE t[q]]

\* std::map::insert: an entry that is there keeps its type.
AddSub(t, dir, name, type) ==
  [t EXCEPT ![dir].sub = IF \E e \in @ : e[1] = name THEN @ ELSE @ \cup {<<name, type>>}]

\* One directory: it exists, or it is made and listed in its parent; a table that is no
\* directory is in the way.
BuildStep(s, d, n) ==
  LET parent == SubSeq(d, 1, n - 1)  next == SubSeq(d, 1, n) IN
  CASE ~s.ok -> s
    [] s.ok /\ next \in DOMAIN s.t -> [s EXCEPT !.ok = s.t[next].kind = "dir"]
    [] OTHER -> [s EXCEPT !.t = AddSub(With(s.t, next, Dir), parent, d[n], "directory")]

recursiveBuildDir(t, p) ==
  LET d == Norm(p)
      built[n \in 0 .. Len(d)] ==
        IF n = 0 THEN [ok |-> TRUE, t |-> t] ELSE BuildStep(built[n - 1], d, n)
  IN built[Len(d)]

\* buildBfsPath, after the contract's table has been made: the last component is listed
\* as a contract.
buildBfsPath(t, p) ==
  LET s == recursiveBuildDir(t, getParentDir(p)) IN
  IF s.ok THEN [s EXCEPT !.t = AddSub(s.t, getParentDir(p), getBaseName(p), "contract")] ELSE s

-----------------------------------------------------------------------------
Return(answer) == fsRet' = answer /\ UNCHANGED <<tables, rows, tampered>>

\* mkdir.  A failure to build is answered with a code and nothing is reverted.
makeDir(p) ==
  LET valid == checkPathValid(p) /\ Len(p) >= 2 /\ p[1] \in {"apps", "tables"}
      built == recursiveBuildDir(tables, p)
  IN \/ ~valid /\ Return(<<"CODE_FILE_INVALID_PATH">>)
     \/ valid /\ p \in DOMAIN tables /\ Return(<<"CODE_FILE_ALREADY_EXIST">>)
     \/ /\ valid /\ p \notin DOMAIN tables
        /\ tables' = built.t
        /\ fsRet' = <<IF built.ok THEN "ok" ELSE "CODE_FILE_BUILD_DIR_FAILED">>
        /\ UNCHANGED <<rows, tampered>>

\* list.  A table with a row type is read as a directory; if KV set put that row in a
\* file, the missing row sub is dereferenced.
listDir(p) ==
  Return(CASE ~checkPathValid(p) -> <<"CODE_FILE_INVALID_PATH">>
           [] checkPathValid(p) /\ p \notin DOMAIN tables -> <<"CODE_FILE_NOT_EXIST">>
           [] checkPathValid(p) /\ p \in DOMAIN tables /\ tables[p].kind = "file" ->
                <<"list", {<<getBaseName(p), "contract">>}>>
           [] checkPathValid(p) /\ p \in DOMAIN tables /\ tables[p].kind = "oddFile" ->
                <<"undefined">>
           [] OTHER -> <<"list", tables[p].sub>>)

\* BUG variant: the table is not listed in its directory.
createTableUnlisted(name, valid) ==
  LET p == getTableName(name)  built == recursiveBuildDir(tables, getParentDir(p)) IN
  \/ (~valid \/ name = <<>> \/ Norm(p) = <<"tables">>) /\ Return(<<"reverted">>)
  \/ p \in DOMAIN tables /\ Return(<<"CODE_TABLE_NAME_ALREADY_EXIST">>)
  \/ /\ valid /\ p \notin DOMAIN tables /\ Norm(p) # <<"tables">>
     /\ tables' = IF built.ok THEN With(built.t, p, File) ELSE built.t
     /\ fsRet' = <<IF built.ok THEN "ok" ELSE "CODE_FILE_BUILD_DIR_FAILED">>
     /\ UNCHANGED <<rows, tampered>>

\* createTable; valid: checkCreateTableParam does not throw.  The table gets the path as
\* written, the entry in its directory the normalised one.  For the name "/" the parent is
\* the root, whose path recursiveBuildDir cannot take apart: it throws.
createTable(name, valid) ==
  LET p == getTableName(name)
      accepted == valid /\ name # <<>>
      built == recursiveBuildDir(tables, getParentDir(p))
  IN \/ ~accepted /\ Return(<<"reverted">>)
     \/ accepted /\ p \in DOMAIN tables /\ Return(<<"CODE_TABLE_NAME_ALREADY_EXIST">>)
     \/ accepted /\ p \notin DOMAIN tables /\ Norm(p) = <<"tables">> /\ Return(<<"reverted">>)
     \/ /\ accepted /\ p \notin DOMAIN tables /\ Norm(p) # <<"tables">>
        /\ tables' = IF built.ok
                     THEN AddSub(With(built.t, p, File), getParentDir(p), getBaseName(p), "contract")
                     ELSE built.t
        /\ fsRet' = <<IF built.ok THEN "ok" ELSE "CODE_FILE_BUILD_DIR_FAILED">>
        /\ UNCHANGED <<rows, tampered>>

\* BUG variant: the row is written before its length is checked, and the failure is a
\* code, which is not reverted.
setFirst(name, key, valid) ==
  LET p == getTableName(name) IN
  IF p \notin DOMAIN tables THEN Return(<<"reverted">>)
  ELSE /\ rows' = rows \cup {<<p, key>>}
       /\ fsRet' = <<IF valid THEN "ok" ELSE "CODE_TABLE_KEY_VALUE_LENGTH_OVERFLOW">>
       /\ UNCHANGED <<tables, tampered>>

\* KV set writes any row of any table under /tables/, a directory's row type too (with
\* another value than the one that marks a directory).
set(name, key, valid) ==
  LET p == getTableName(name) IN
  IF p \notin DOMAIN tables \/ ~valid THEN Return(<<"reverted">>)
  ELSE /\ rows' = rows \cup {<<p, key>>}
       /\ tables' = IF key # "type" THEN tables
                    ELSE [tables EXCEPT ![p].kind =
                            IF @ \in {"file", "oddFile"} THEN "oddFile" ELSE "oddDir"]
       /\ tampered' = IF key = "type" THEN tampered \cup {p} ELSE tampered
       /\ fsRet' = <<"ok">>

get(name, key) ==
  LET p == getTableName(name) IN
  Return(IF p \notin DOMAIN tables THEN <<"reverted">>
         ELSE <<"entry", <<p, key>> \in rows>>)

desc(name) ==
  Return(IF getTableName(name) \in DOMAIN tables THEN <<"fields">> ELSE <<"no fields">>)

\* TransactionExecutive::create of a Wasm contract on a chain without auth checking; with
\* it, creatAuthTable makes one more table, which no directory lists (see ContractAuth).
\* A failure is reverted.
create(p) ==
  LET built == buildBfsPath(With(tables, p, File), p) IN
  \/ p \in DOMAIN tables /\ Return(<<"ContractAddressAlreadyUsed">>)
  \/ p \notin DOMAIN tables /\ ~built.ok /\ Return(<<"reverted">>)
  \/ /\ p \notin DOMAIN tables /\ built.ok
     /\ tables' = built.t
     /\ fsRet' = <<"ok">>
     /\ UNCHANGED <<rows, tampered>>

FsNext ==
  \/ \E p \in DirPaths : makeDir(p) \/ listDir(p)
  \/ \E name \in TableNames :
       \/ desc(name)
       \/ \E valid \in BOOLEAN : createTable(name, valid)
       \/ \E key \in RowKeys : get(name, key) \/ \E valid \in BOOLEAN : set(name, key, valid)
  \/ \E p \in Deployments : create(p)

FsSpec == FsInit /\ [][FsNext]_fsVars

-----------------------------------------------------------------------------
(* Properties.                                                              *)

\* What a path is listed as in its directory.
ListedAs(p) ==
  LET d == Front(p) IN
  IF d \in DOMAIN tables /\ \E e \in tables[d].sub : e[1] = Last(p)
  THEN (CHOOSE e \in tables[d].sub : e[1] = Last(p))[2] ELSE "nothing"

Is(p) ==
  CASE p \notin DOMAIN tables -> "nothing"
    [] p \in DOMAIN tables /\ tables[p].kind = "dir" -> "directory"
    [] OTHER -> "contract"

\* The paths that some directory lists.
Entries == UNION {{Append(d, e[1]) : e \in tables[d].sub} : d \in DOMAIN tables}

\* A table was created under another spelling of the path (a doubled or trailing slash).
Aliased(p) == \E q \in DOMAIN tables : q # p /\ Norm(q) = p

(* The tree is what the listings say: every table is listed, with its      *)
(* type, in the directory above it, and everything listed exists, whatever *)
(* order directories, KV tables and contracts are made in.  Excepted are   *)
(* exactly the paths that a table was created under in another spelling,   *)
(* which createTable lists and nobody can open, and those whose row type   *)
(* KV set has overwritten.                                                 *)
TreeConsistent ==
  \A p \in ({q \in DOMAIN tables : Norm(q) = q} \cup Entries) \ {Root} :
    Aliased(p) \/ p \in tampered \/ ListedAs(p) = Is(p)

(* A call that is answered with an error leaves the tree as it was: a path *)
(* that cannot be built is found out before its first directory is made,   *)
(* for what is in the way is never below a directory that was missing      *)
(* (CODE_FILE_BUILD_DIR_FAILED is returned without a revert).              *)
RefusedLeavesTree == [][fsRet'[1] # "ok" => UNCHANGED <<tables, rows>>]_fsVars
=============================================================================
