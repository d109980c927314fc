----------------------------- MODULE GasInjector -----------------------------
(***************************************************************************)
(* GasInjector: before a Wasm contract is stored, code that pays for its   *)
(* instructions is put into every function; then the contract runs with    *)
(* some gas.                                                               *)
(*                                                                         *)
(* The algorithm cuts each list of expressions into segments that end      *)
(* where control may leave, and pays for a segment where it begins.  An    *)
(* expression is a record with op: block, loop and if have lists of their  *)
(* own, branches a depth, calls and globals an index.  What executes the   *)
(* code is a small Wasm machine with nondeterministic conditions.          *)
(***************************************************************************)
EXTENDS Integers, Sequences, SequencesExt

CONSTANTS Modules,    \* the contracts: [imports, funcs, exports, elems], where an
                      \* export is [kind, index]
          Cost,       \* m_costTable: op |-> cost
          Gas         \* the amounts of gas a contract may be run with

VARIABLES
  module,     \* the contract as deployed
  injected,   \* what InjectMeter made of it
  phase,      \* "inject", "run", "ended", "outOfGas", "trapped", "refused"
  frames,     \* the run: the lists being executed, innermost last
  gas, gas0,  \* the global gas, and what the run started with
  executed    \* history: the cost of the instructions executed, up to the first unpaid one

vars == <<module, injected, phase, frames, gas, gas0, executed>>

-----------------------------------------------------------------------------
(* InjectMeterExprList.  The loop collects gasCost and inserts the code that *)
(* pays it at insertPoint, the first expression after the last place where  *)
(* control could leave: here, in front of every first expression of a       *)
(* segment.                                                                 *)

\* BUG variant: the function after the last import is not shifted.
CallVarAfter(e, info) ==
  IF e.op = "call" /\ e.var > info.originSize /\ ~info.foundGasFunction
  THEN [e EXCEPT !.var = @ + 1] ELSE e

\* The new function import shifts the functions behind it.
CallVar(e, info) ==
  IF e.op = "call" /\ e.var >= info.originSize /\ ~info.foundGasFunction
  THEN [e EXCEPT !.var = @ + 1] ELSE e

\* The new global is taken to be the first.
GlobalVar(e) == IF e.op = "global" THEN [e EXCEPT !.var = @ + 1] ELSE e

\* BUG variant: br_if goes on with the segment.
EndsSegmentBrIf(e) ==
  e.op \in {"br", "brTable", "call", "callIndirect", "return", "block", "loop", "if"}

\* The expressions that call insertUseGasLogic.
EndsSegment(e) ==
  e.op \in {"br", "brIf", "brTable", "call", "callIndirect", "return", "block", "loop", "if"}

\* BUG variant: branches are free.
ChargedNoBr(e) ==
  CASE e.op \in {"memoryGrow", "block", "loop", "br"} -> 0
    [] e.op = "if" -> IF e.else = <<>> THEN 0 ELSE Cost["else"]
    [] OTHER -> Cost[e.op]

\* What an expression adds to gasCost: memory.grow is not charged, an else always.
Charged(e) ==
  CASE e.op \in {"memoryGrow", "block", "loop"} -> 0
    [] e.op = "if" -> IF e.else = <<>> THEN 0 ELSE Cost["else"]
    [] OTHER -> Cost[e.op]

RECURSIVE SegmentCost(_, _), Supported(_), InjectMeterExprList(_, _)

\* gasCost when the segment that begins at n ends.
SegmentCost(exprs, n) ==
  Charged(exprs[n]) +
    IF n = Len(exprs) \/ EndsSegment(exprs[n]) THEN 0 ELSE SegmentCost(exprs, n + 1)

\* insertUseGasLogic and subAndCheck: what they insert is one instruction here.
UseGas(cost, info) ==
  IF cost > 0 THEN <<[op |-> "useGas", cost |-> cost, global |-> 0, func |-> info.gasFuncIndex]>>
  ELSE <<>>

\* No InvalidInstruction is thrown.
Supported(exprs) ==
  \A n \in DOMAIN exprs : LET e == exprs[n] IN
    e.op \notin {"float", "unsupported"} /\ Supported(e.body) /\ Supported(e.else)

InjectMeterExprList(exprs, info) ==
  LET Starts(n) == n = 1 \/ EndsSegment(exprs[n - 1])
      Rewrite(e) == [GlobalVar(CallVar(e, info)) EXCEPT
                       !.body = InjectMeterExprList(@, info),
                       !.else = InjectMeterExprList(@, info)]
  IN FlattenSeq([n \in DOMAIN exprs |->
       (IF Starts(n) THEN UseGas(SegmentCost(exprs, n), info) ELSE <<>>) \o <<Rewrite(exprs[n])>>])

-----------------------------------------------------------------------------
(* InjectMeter.                                                             *)

OutOfGas == [kind |-> "func", name |-> "outOfGas"]
GasGlobal == [kind |-> "global", name |-> "gas"]

\* The index of the last import of outOfGas; counted among all imports, whatever they are.
Found(m) == {i \in DOMAIN m.imports : m.imports[i] = OutOfGas}
Info(m) ==
  [foundGasFunction |-> Found(m) # {},
   originSize |-> Len(m.imports),
   gasFuncIndex |-> IF Found(m) = {} THEN Len(m.imports)
                    ELSE (CHOOSE i \in Found(m) : \A j \in Found(m) : j <= i) - 1]

\* The module with its new imports, and the indices shifted: of the exports, those of
\* functions, imported ones too, and of the elements, those behind the imports.
Rewritten(m, funcs) ==
  LET info == Info(m) IN
  [imports |-> (IF info.foundGasFunction THEN m.imports ELSE Append(m.imports, OutOfGas))
                 \o <<GasGlobal>>,
   funcs   |-> funcs,
   exports |-> [n \in DOMAIN m.exports |->
                  IF ~info.foundGasFunction /\ m.exports[n].kind = "func"
                  THEN [m.exports[n] EXCEPT !.index = @ + 1] ELSE m.exports[n]],
   elems   |-> [n \in DOMAIN m.elems |->
                  IF ~info.foundGasFunction /\ m.elems[n] >= info.gasFuncIndex
                  THEN m.elems[n] + 1 ELSE m.elems[n]]]

-----------------------------------------------------------------------------
(* The machine that runs the result.                                        *)

Imported(m, kind) == SelectSeq(m.imports, LAMBDA i : i.kind = kind)

\* What an index of the function or the global index space stands for.
FuncAt(m, index) ==
  LET imports == Imported(m, "func") IN
  IF index < Len(imports) THEN <<"import", imports[index + 1].name>>
  ELSE <<"function", index - Len(imports) + 1>>
GlobalAt(m, index) ==
  LET imports == Imported(m, "global") IN
  IF index < Len(imports) THEN <<"import", imports[index + 1].name>>
  ELSE <<"global", index - Len(imports) + 1>>
Exported(m, n) ==
  LET e == m.exports[n] IN IF e.kind = "func" THEN FuncAt(m, e.index) ELSE GlobalAt(m, e.index)

Frame(kind, code, again) == [kind |-> kind, code |-> code, again |-> again]
Top == frames[Len(frames)]
Current == Head(Top.code)
Advanced == [frames EXCEPT ![Len(frames)].code = Tail(@)]   \* behind the current one

\* The function at an index is entered; an import of the host is one step.
Enter(f) == IF f[1] = "function" THEN <<Frame("func", injected.funcs[f[2]], <<>>)>> ELSE <<>>

\* A branch leaves depth lists, and the next one unless it is a loop's, which it repeats.
Branch(depth) ==
  LET n == Len(frames) - depth IN
  IF frames[n].kind = "loop" THEN [SubSeq(frames, 1, n) EXCEPT ![n].code = frames[n].again]
  ELSE SubSeq(frames, 1, n - 1)

Returned ==
  LET n == CHOOSE k \in DOMAIN frames :
             frames[k].kind = "func" /\ \A j \in k + 1 .. Len(frames) : frames[j].kind # "func"
  IN SubSeq(frames, 1, n - 1)

\* Where a step leads, by every condition, table index and callee it may find.
Targets(e) ==
  CASE e.op = "block" -> {Advanced \o <<Frame("block", e.body, <<>>)>>}
    [] e.op = "loop" -> {Advanced \o <<Frame("loop", e.body, e.body)>>}
    [] e.op = "if" -> {Advanced \o <<Frame("block", b, <<>>)>> : b \in {e.body, e.else}}
    [] e.op = "br" -> {Branch(e.depth)}
    [] e.op = "brIf" -> {Branch(e.depth), Advanced}
    [] e.op = "brTable" -> {Branch(d) : d \in 0 .. e.depth}
    [] e.op = "call" -> {Advanced \o Enter(FuncAt(injected, e.var))}
    [] e.op = "callIndirect" ->
         {Advanced \o Enter(FuncAt(injected, injected.elems[n])) : n \in DOMAIN injected.elems}
    [] e.op = "return" -> {Returned}
    [] OTHER -> {Advanced}

Init ==
  /\ module \in Modules
  /\ injected = module
  /\ phase = "inject" /\ frames = <<>>
  /\ gas0 \in Gas /\ gas = gas0 /\ executed = 0

\* At deployment; then a transaction calls the first exported function.
InjectMeter ==
  LET result == Rewritten(module, [f \in DOMAIN module.funcs |->
                                     InjectMeterExprList(module.funcs[f], Info(module))])
      main == Exported(result, 1)
  IN
  /\ phase = "inject"
  /\ IF \A f \in DOMAIN module.funcs : Supported(module.funcs[f])
     THEN /\ injected' = result /\ phase' = "run"
          /\ frames' = <<Frame("func", result.funcs[main[2]], <<>>)>>
     ELSE phase' = "refused" /\ UNCHANGED <<injected, frames>>       \* ForbiddenOpcode
  /\ UNCHANGED <<module, gas, gas0, executed>>

Running == phase = "run" /\ frames # <<>> /\ Top.code # <<>>

\* The inserted code: the run ends when nothing is left.
Pay ==
  /\ Running /\ Current.op = "useGas"
  /\ gas' = gas - Current.cost
  /\ phase' = IF gas' <= 0 THEN "outOfGas" ELSE phase
  /\ frames' = Advanced
  /\ UNCHANGED <<module, injected, gas0, executed>>

\* What the cost table asks for an instruction, but that "memoryGrow is not charged for
\* now"; the else belongs to its if, whichever way it goes.
Price(e) ==
  CASE e.op = "memoryGrow" -> 0
    [] e.op = "if" /\ e.else # <<>> -> Cost["if"] + Cost["else"]
    [] OTHER -> Cost[e.op]

Execute ==
  /\ Running /\ Current.op # "useGas"
  /\ executed' = IF executed > gas0 - gas THEN executed ELSE executed + Price(Current)
  /\ IF Current.op = "unreachable" THEN phase' = "trapped" /\ UNCHANGED frames
     ELSE frames' \in Targets(Current) /\ UNCHANGED phase
  /\ UNCHANGED <<module, injected, gas, gas0>>

EndOfList ==
  /\ phase = "run" /\ frames # <<>> /\ Top.code = <<>>
  /\ frames' = Front(frames)
  /\ UNCHANGED <<module, injected, phase, gas, gas0, executed>>

End ==
  /\ phase = "run" /\ frames = <<>>
  /\ phase' = "ended"
  /\ UNCHANGED <<module, injected, frames, gas, gas0, executed>>

Next == InjectMeter \/ Pay \/ Execute \/ EndOfList \/ End

Spec == Init /\ [][Next]_vars

FairSpec == Spec /\ WF_vars(Next)

-----------------------------------------------------------------------------
(* Properties.                                                              *)

(* No instruction is executed before it is paid for, whichever way control *)
(* takes through blocks, loops, conditions and calls, and a run that ends  *)
(* by itself has paid for exactly what it executed: the inserted code      *)
(* stands at the beginning of every segment and only there.                *)
PaidExactly ==
  /\ executed <= gas0 - gas
  /\ phase = "ended" => executed = gas0 - gas

RECURSIVE Original(_, _)

\* A list without the inserted code, and with what its indices stand for.
Original(m, exprs) ==
  LET Meaning(e) ==
        CASE e.op = "call" -> <<"call", FuncAt(m, e.var)>>
          [] e.op = "global" -> <<"global", GlobalAt(m, e.var)>>
          [] OTHER -> <<e.op, e.depth, Original(m, e.body), Original(m, e.else)>>
      own == SelectSeq(exprs, LAMBDA e : e.op # "useGas")
  IN [n \in DOMAIN own |-> Meaning(own[n])]

RECURSIVE Inserted(_)

Inserted(exprs) ==
  {exprs[n] : n \in {k \in DOMAIN exprs : exprs[k].op = "useGas"}}
    \cup UNION {Inserted(exprs[n].body) \cup Inserted(exprs[n].else) :
                  n \in {k \in DOMAIN exprs : exprs[k].op # "useGas"}}

\* The exports whose index goes another way than what they name: a global moves and its
\* export does not, and an imported function stays where an import of outOfGas is added
\* behind it, but its export moves.
ExportLost(m, n) ==
  \/ m.exports[n].kind = "global"
  \/ Found(m) = {} /\ Exported(m, n)[1] = "import"

(* The contract that is stored is the one that was deployed, but for the   *)
(* inserted code: every call, indirect call and global names what it named *)
(* before an import was added in front of the functions and another in     *)
(* front of the globals, and the inserted code uses these two.  Of the     *)
(* exports this holds for the defined functions, which are what a          *)
(* transaction calls; an exported global never names what it named, and a  *)
(* re-exported import does so only where outOfGas was imported already.    *)
SameContract ==
  phase = "run" =>
    /\ \A f \in DOMAIN module.funcs :
         /\ Original(injected, injected.funcs[f]) = Original(module, module.funcs[f])
         /\ \A e \in Inserted(injected.funcs[f]) :
              /\ FuncAt(injected, e.func) = <<"import", "outOfGas">>
              /\ GlobalAt(injected, e.global) = <<"import", "gas">>
    /\ \A n \in DOMAIN module.exports :
         Exported(injected, n) = Exported(module, n) <=> ~ ExportLost(module, n)
    /\ \A n \in DOMAIN module.elems :
         FuncAt(injected, injected.elems[n]) = FuncAt(module, module.elems[n])

(* Whatever a contract does, it stops: every loop and every recursion pays *)
(* on the way round, so that gas runs out.                                 *)
Stops == <>(phase \in {"ended", "outOfGas", "trapped", "refused"})
==============================================================================
