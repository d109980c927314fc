---------------------------- MODULE MCDagTransfer ----------------------------
(* Three calls on the accounts of two users, with balances from 0 to 3, *)
(* from any initial accounts: every check of every call is met.         *)
EXTENDS DagTransfer

CONSTANTS a, b

MCUsers == {a, b}
Call(op, user, to, amount) == [op |-> op, user |-> user, to |-> to, amount |-> amount]
MCCalls ==
  {Call("userAdd", a, a, 1), Call("userSave", a, a, 2), Call("userSave", b, b, 0),
   Call("userSave", Empty, Empty, 1), Call("userDraw", b, b, 3), Call("userBalance", a, a, 0),
   Call("unknown", a, a, 0),
   Call("userTransfer", a, b, 2), Call("userTransfer", b, a, 1), Call("userTransfer", a, a, 1)}
==============================================================================
