SPECIFICATION Spec
CONSTANTS
  N = 3
  a = a
  b = b
  Empty = Empty
  Users <- MCUsers
  Modulus = 4
  Calls <- MCCalls
INVARIANTS
  TypeOK
  FundsConserved
  AsIfSerial
  RevertedBesideCreator
