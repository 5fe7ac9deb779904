-------------------------- MODULE MCNamespaceClaim --------------------------
(* Instances of NamespaceClaim: process A has two dicts, B has one.        *)
EXTENDS NamespaceClaim

CONSTANTS A, B, a1, a2, b1

MCDicts == {a1, a2, b1}
MCWriters == {A, B}
MCOwner == [d \in MCDicts |-> IF d = b1 THEN B ELSE A]

NoFaults == {}
AllFaults == FaultKinds

Pair == {a1, b1}
PairOwner == [d \in Pair |-> IF d = b1 THEN B ELSE A]
=============================================================================
