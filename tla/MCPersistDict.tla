---------------------------- MODULE MCPersistDict ----------------------------
(* Instances of PersistDict: dicts of ints, of lists, and a poisoned list. *)
EXTENDS PersistDict

CONSTANTS c1, c2, c3, k1, k2, e1, e2, bad

TwoCallers == {c1, c2}
ThreeCallers == {c1, c2, c3}
MCKeys == {k1, k2}
MCElems == {e1, e2, bad}
MCUnserializable == {bad}

Get(k) == [kind |-> "get", key |-> k]
Items == [kind |-> "items"]
SetTo(k, v) == [kind |-> "set", key |-> k, value |-> v]
Pop(k) == [kind |-> "pop", key |-> k]
Add(k, n) == [kind |-> "add", key |-> k, by |-> n]
Extend(k, e) == [kind |-> "extend", key |-> k, elem |-> e]
RemoveFrom(k, e) == [kind |-> "removeFrom", key |-> k, elem |-> e]

\* concurrent increments of one key, lists under the other, removal, whole-dict
\* reads, values json.dumps rejects, an increment of a list
AllOps == {Add(k1, 1), Pop(k1), Get(k1), SetTo(k1, NoValue), Items,
           Extend(k2, e1), RemoveFrom(k2, e1), SetTo(k2, List(<<bad>>)), Add(k2, -1)}

PoisonOps == {Extend(k1, e1), Extend(k1, bad)}

\* two keys, so that an operation on one can harm the other
TwoKeyOps == {SetTo(k1, Number(1)), SetTo(k2, Number(2)), Get(k1)}

MixedOps == {Add(k1, 1), Pop(k1), Extend(k2, e1), Extend(k2, bad)}

NoFaults == {}
AllFaults == FaultKinds
UnreadableOnly == {"get"}
=============================================================================
