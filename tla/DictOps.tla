------------------------------- MODULE DictOps -------------------------------
(***************************************************************************)
(* What the operations of aPersistDict, aPersistDictOfInts and             *)
(* aPersistDictOfLists compute (src/forest/pdictng.py), apart from when    *)
(* and where they compute it.  A value is a tagged int or a tagged list,   *)
(* so that the isinstance tests of the code can be expressed; a dict is a  *)
(* total function from Keys that maps missing keys to NoValue.             *)
(***************************************************************************)
EXTENDS Integers, Sequences

CONSTANTS
  Keys,
  Elems,           \* what lists hold
  Unserializable,  \* the elements json.dumps rejects
  NoValue,         \* None: the key is missing, or to be removed
  Done             \* the reply to a write: the backend's metadata

ASSUME DictAssumption ==
  /\ Unserializable \subseteq Elems
  /\ NoValue \notin [type : {"int"}, val : Int] \cup [type : {"list"}, val : Seq(Elems)]

Number(n) == [type |-> "int", val |-> n]
List(s) == [type |-> "list", val |-> s]

Numbers == [type : {"int"}, val : Int]
Lists == [type : {"list"}, val : Seq(Elems)]
Values == Numbers \cup Lists
Maps == [Keys -> Values \cup {NoValue}]
EmptyMap == [k \in Keys |-> NoValue]

\* set and remove, pop, increment and decrement, extend, remove_from
Writes ==
  [kind : {"set"}, key : Keys, value : Values \cup {NoValue}]
    \cup [kind : {"pop"}, key : Keys]
    \cup [kind : {"add"}, key : Keys, by : Int]
    \cup [kind : {"extend", "removeFrom"}, key : Keys, elem : Elems]

\* get and __getitem__; keys, values, items and get_key_by_value
Reads == [kind : {"get"}, key : Keys] \cup [kind : {"items"}]

\* the isinstance test on the value found under the key
Accepts(op, old) ==
  /\ op.kind = "add" => old \in Numbers \cup {NoValue}
  /\ op.kind \in {"extend", "removeFrom"} => old \in Lists \cup {NoValue}

Elements(old) == IF old = NoValue THEN <<>> ELSE old.val

\* the elements of the list that are not e (the comprehension of remove_from)
Without(s, e) ==
  LET rest[n \in 0..Len(s)] ==
        IF n = 0 THEN <<>>
        ELSE IF s[n] = e THEN rest[n - 1] ELSE Append(rest[n - 1], s[n])
  IN  rest[Len(s)]

\* bug: extend appends the values as a list instead of each of them
NestedTarget(op, old) ==
  CASE op.kind = "set" -> op.value
    [] op.kind = "pop" -> NoValue
    [] op.kind = "add" -> Number((IF old = NoValue THEN 0 ELSE old.val) + op.by)
    [] op.kind = "extend" -> List(Append(Elements(old), <<op.elem>>))
    [] op.kind = "removeFrom" -> List(Without(Elements(old), op.elem))

\* the value a write gives the key, which had the value old
Target(op, old) ==
  CASE op.kind = "set" -> op.value
    [] op.kind = "pop" -> NoValue
    [] op.kind = "add" -> Number((IF old = NoValue THEN 0 ELSE old.val) + op.by)
    [] op.kind = "extend" -> List(Append(Elements(old), op.elem))
    [] op.kind = "removeFrom" -> List(Without(Elements(old), op.elem))

\* pop posts only if there is something to pop
NeedsPost(op, old) == op.kind = "pop" => old # NoValue

\* what the caller gets back
Reply(op, map) ==
  CASE op.kind \in {"get", "pop"} -> map[op.key]
    [] op.kind = "items" -> map
    [] OTHER -> Done

\* json.dumps accepts a value, a dict
Dumps(v) == v \in Lists => \A i \in 1..Len(v.val) : v.val[i] \notin Unserializable
DumpsAll(map) == \A k \in Keys : Dumps(map[k])
=============================================================================
