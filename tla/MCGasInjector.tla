---------------------------- MODULE MCGasInjector ----------------------------
(* A function that has a block, a loop or a condition between two other    *)
(* expressions, with every kind of expression inside, and a second one it  *)
(* may call, directly or through the table; contracts with and without an  *)
(* import of outOfGas; enough gas for one or two rounds.  The exports are  *)
(* the first defined function, the second, every import and a global.      *)
EXTENDS GasInjector

\* Fields an op does not use are empty.
Expr(op, body, else, depth, var) ==
  [op |-> op, body |-> body, else |-> else, depth |-> depth, var |-> var]
Plain(op) == Expr(op, <<>>, <<>>, 0, 0)
Add == Plain("binary")
Br(op, depth) == Expr(op, <<>>, <<>>, depth, 0)

\* Two defined functions behind the imports: n is the index of the first.
Inner(n) ==
  {<<Add>>, <<Plain("nop"), Br("br", 0)>>, <<Add, Plain("memoryGrow"), Br("br", 0), Add>>, 
   <<Br("brIf", 0), Add>>, <<Br("brIf", 1), Add, Br("br", 0)>>, <<Add, Br("brTable", 1)>>,
   <<Expr("call", <<>>, <<>>, 0, n + 1), Add>>, <<Plain("return"), Add>>,
   <<Expr("global", <<>>, <<>>, 0, 0), Plain("unreachable"), Add>>}
Nested(n) ==
  {Expr(op, b, <<>>, 0, 0) : op \in {"block", "loop", "if"}, b \in Inner(n)}
    \cup {Expr("if", <<Add>>, b, 0, 0) : b \in Inner(n)}
Outer(n) == {Add, Plain("callIndirect"), Expr("call", <<>>, <<>>, 0, n),
             Br("brIf", 0), Plain("float")}
Second == <<Add, Expr("block", <<Br("brIf", 1), Add>>, <<>>, 0, 0), Add>>

Func(name) == [kind |-> "func", name |-> name]
Export(kind, index) == [kind |-> kind, index |-> index]
ImportLists == {<<>>, <<Func("get")>>, <<Func("outOfGas"), Func("get")>>}
MCModules ==
  UNION {LET n == Len(imports) IN
         {[imports |-> imports, funcs |-> <<<<x, y, z>>, Second>>,
           exports |-> <<Export("func", n), Export("func", n + 1), Export("global", 0)>>
                         \o [i \in 1 .. n |-> Export("func", i - 1)],
           elems |-> <<n + 1>> \o IF n = 0 THEN <<>> ELSE <<n - 1>>] :
            x, z \in Outer(n), y \in Nested(n)} : imports \in ImportLists}

\* Metric.cpp; memory.grow is 5 * 64 * 1024 there.
MCCost ==
  [op \in {"binary", "global", "br", "brIf", "brTable", "call", "callIndirect", "return",
           "block", "loop", "if", "else", "unreachable", "nop", "memoryGrow"} |->
     CASE op = "binary" -> 1
       [] op \in {"br", "brTable", "callIndirect", "return", "else"} -> 2
       [] op \in {"global", "brIf", "call"} -> 3
       [] op \in {"block", "loop", "if", "unreachable", "nop"} -> 0
       [] OTHER -> 100]
==============================================================================
