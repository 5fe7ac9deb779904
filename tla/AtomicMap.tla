------------------------------ MODULE AtomicMap ------------------------------
(***************************************************************************)
(* What aPersistDict promises its callers: "async, consistent, persistent  *)
(* storage".  One durable map; every call takes effect at one instant      *)
(* between its start and its return, or fails without effect; a crash of   *)
(* the process forgets the calls in progress and nothing else.             *)
(***************************************************************************)
EXTENDS DictOps

CONSTANTS
  Callers,
  Ops,       \* the operations callers ask for
  NoOp,
  NoReply,
  Error      \* the call raised

VARIABLES map, call

vars == <<map, call>>

Idle == [op |-> NoOp, status |-> "idle", reply |-> NoReply]

Init ==
  /\ map = EmptyMap
  /\ call = [c \in Callers |-> Idle]

\* c's call, in the given status and with the given reply from now on
Becomes(c, status, reply) ==
  call' = [call EXCEPT ![c] = [op |-> call[c].op, status |-> status, reply |-> reply]]

\* a call starts, or is rejected at once
Invoke(c) ==
  /\ call[c].status \in {"idle", "returned"}
  /\ \E op \in Ops :
       \/ call' = [call EXCEPT ![c] = [op |-> op, status |-> "pending", reply |-> NoReply]]
       \/ call' = [call EXCEPT ![c] = [op |-> op, status |-> "returned", reply |-> Error]]
  /\ UNCHANGED map

\* a write takes effect; the caller does not know yet
Apply(c) ==
  LET op == call[c].op IN
  /\ call[c].status = "pending"
  /\ op.kind \notin {"get", "items"}
  /\ Accepts(op, map[op.key])
  /\ Dumps(Target(op, map[op.key]))
  /\ map' = [map EXCEPT ![op.key] = Target(op, map[op.key])]
  /\ Becomes(c, "applied", Reply(op, map))

Return(c) ==
  /\ call[c].status = "applied"
  /\ Becomes(c, "returned", call[c].reply)
  /\ UNCHANGED map

\* a read, or a pop of a missing key, returns what the map holds
Observe(c) ==
  LET op == call[c].op IN
  /\ call[c].status = "pending"
  /\ \/ op.kind \in {"get", "items"}
     \/ op.kind = "pop" /\ map[op.key] = NoValue
  /\ Becomes(c, "returned", Reply(op, map))
  /\ UNCHANGED map

Fail(c) ==
  /\ call[c].status = "pending"
  /\ Becomes(c, "returned", Error)
  /\ UNCHANGED map

Crash ==
  /\ call' = [c \in Callers |-> Idle]
  /\ UNCHANGED map

Next ==
  \/ \E c \in Callers : Invoke(c) \/ Apply(c) \/ Return(c) \/ Observe(c) \/ Fail(c)
  \/ Crash

Spec == Init /\ [][Next]_vars
=============================================================================
