----------------------------- MODULE MCWasmDag -----------------------------
(* Three transactions on one contract with two storage slots.  The methods *)
(* name a key of a slot by caller or by argument, a whole slot, two slots, *)
(* a key and then the whole slot, nothing, or have an ABI that is invalid. *)
EXTENDS WasmDag

CONSTANTS app, u, v, bad

MCKeys == {u, v}
MCSlots == {<<app, 0>>, <<app, 1>>}
Field(slot, kind, path) == [slot |-> slot, kind |-> kind, path |-> path]
MCAbi ==
  [m \in {<<app, n>> : n \in {"key", "all", "both", "keyAll", "free", "bad"}} |->
     CASE m[2] = "key"    -> <<Field(0, "Var", 1)>>
       [] m[2] = "all"    -> <<Field(0, "All", 0), Field(0, "Caller", 0)>>
       [] m[2] = "both"   -> <<Field(1, "Len", 0), Field(0, "Origin", 0), Field(0, "Var", 1)>>
       [] m[2] = "keyAll" -> <<Field(1, "Caller", 0), Field(1, "All", 0)>>
       [] m[2] = "free"   -> <<>>
       [] m[2] = "bad"    -> bad]
Call(method, user, args, create) ==
  [to |-> app, method |-> method, sender |-> user, origin |-> user, args |-> args,
   create |-> create]
MCCalls ==
  {Call("key", u, <<u>>, FALSE), Call("key", u, <<v>>, FALSE), Call("key", u, <<>>, FALSE),
   Call("all", u, <<>>, FALSE), Call("both", v, <<u>>, FALSE), Call("keyAll", v, <<>>, FALSE),
   Call("free", u, <<>>, FALSE), Call("bad", u, <<>>, FALSE), Call("key", u, <<>>, TRUE)}
============================================================================
