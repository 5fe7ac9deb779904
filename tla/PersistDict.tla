----------------------------- MODULE PersistDict -----------------------------
(***************************************************************************)
(* One aPersistDict (src/forest/pdictng.py): the dict in memory, its copy  *)
(* in the key-value backend, and the tasks that call it.                   *)
(*                                                                         *)
(* Every operation awaits init_task, then runs under the asyncio lock      *)
(* rwlock, which serves its waiters first come, first served.  A write     *)
(* changes the memory first and posts the whole dict, still under the      *)
(* lock.  Claim and heartbeat are NamespaceClaim's subject: here the claim *)
(* is refused or lost at any time.                                         *)
(***************************************************************************)
EXTENDS DictOps

CONSTANTS
  Callers,    \* tasks of the process
  Ops,        \* the operations they ask for
  NoOp,
  NoReply,
  Error,      \* the operation raised
  Defaults,   \* the keyword arguments of the constructor
  MaxCalls,   \* bound: operations started over a whole behaviour
  Faults      \* which of the failures below may happen

\* "get": the restoring GET is answered with a status other than 200;
\* "post": a POST is rejected, which post_raw does not notice; "raise": a POST
\* raises, performed or not; "lost": the claim is lost to another process.
FaultKinds == {"get", "post", "raise", "lost"}

ASSUME PersistAssumption ==
  /\ Ops \subseteq Writes \cup Reads
  /\ Defaults \in Maps
  /\ MaxCalls \in Nat
  /\ Faults \subseteq FaultKinds

VARIABLES
  store,      \* the value under Persist_<tag> in the backend
  mem,        \* self.dict_
  init,       \* self.init_task: "running", "done" or "failed"
  lost,       \* self.claim_lost
  waiters,    \* tasks waiting for rwlock, first come first
  phase,      \* where each caller is
  op,         \* the operation it is in
  reply,      \* what it is going to return, or has returned
  body,       \* the body of the post under way
  calls       \* operations started so far

vars == <<store, mem, init, lost, waiters, phase, op, reply, body, calls>>

InLock == {"posting", "posted"}
Phases == {"idle", "awaitInit", "awaitLock", "returned"} \cup InLock

TypeOK ==
  /\ store \in Maps
  /\ mem \in Maps
  /\ init \in {"running", "done", "failed"}
  /\ lost \in BOOLEAN
  /\ waiters \in Seq(Callers)
  /\ phase \in [Callers -> Phases]
  /\ op \in [Callers -> Writes \cup Reads \cup {NoOp}]
  /\ reply \in [Callers -> Maps \cup Values \cup {NoValue, Done, NoReply, Error}]
  /\ body \in Maps
  /\ calls \in 0..MaxCalls

Init ==
  /\ store = EmptyMap
  /\ mem = EmptyMap
  /\ init = "running"
  /\ lost = FALSE
  /\ waiters = <<>>
  /\ phase = [c \in Callers |-> "idle"]
  /\ op = [c \in Callers |-> NoOp]
  /\ reply = [c \in Callers |-> NoReply]
  /\ body = EmptyMap
  /\ calls = 0

-----------------------------------------------------------------------------
(* finish_init and the claim.                                              *)

\* a map with the constructor's keyword arguments over it
Seeded(map) == [k \in Keys |-> IF Defaults[k] # NoValue THEN Defaults[k] ELSE map[k]]

\* the claim is held and the dict is read; anything but a 200 reads as nothing
Restore ==
  /\ init = "running"
  /\ \/ mem' = Seeded(store)
     \/ "get" \in Faults /\ mem' = Seeded(EmptyMap)
  /\ init' = "done"
  /\ UNCHANGED <<store, lost, waiters, phase, op, reply, body, calls>>

\* the claim is refused, or a request raises
InitFails ==
  /\ init = "running"
  /\ init' = "failed"
  /\ UNCHANGED <<store, mem, lost, waiters, phase, op, reply, body, calls>>

LoseClaim ==
  /\ "lost" \in Faults
  /\ init = "done"
  /\ lost' = TRUE
  /\ UNCHANGED <<store, mem, init, waiters, phase, op, reply, body, calls>>

-----------------------------------------------------------------------------
(* The operations.                                                         *)

Locked == \E c \in Callers : phase[c] \in InLock

\* c's operation ends with r
Returns(c, r) ==
  /\ phase' = [phase EXCEPT ![c] = "returned"]
  /\ reply' = [reply EXCEPT ![c] = r]

\* bug: an operation does not wait for the restore
EagerInvoke(c) ==
  /\ phase[c] \in {"idle", "returned"}
  /\ calls < MaxCalls
  /\ calls' = calls + 1
  /\ \E o \in Ops : op' = [op EXCEPT ![c] = o]
  /\ phase' = [phase EXCEPT ![c] = "awaitLock"]
  /\ reply' = [reply EXCEPT ![c] = NoReply]
  /\ waiters' = Append(waiters, c)
  /\ UNCHANGED <<store, mem, init, lost, body>>

\* awaiting a task that is done does not suspend the caller
Invoke(c) ==
  /\ phase[c] \in {"idle", "returned"}
  /\ calls < MaxCalls
  /\ calls' = calls + 1
  /\ \E o \in Ops : op' = [op EXCEPT ![c] = o]
  /\ CASE init = "running" ->
            /\ phase' = [phase EXCEPT ![c] = "awaitInit"]
            /\ reply' = [reply EXCEPT ![c] = NoReply]
            /\ UNCHANGED waiters
       [] init = "done" ->
            /\ phase' = [phase EXCEPT ![c] = "awaitLock"]
            /\ reply' = [reply EXCEPT ![c] = NoReply]
            /\ waiters' = Append(waiters, c)
       [] init = "failed" -> Returns(c, Error) /\ UNCHANGED waiters
  /\ UNCHANGED <<store, mem, init, lost, body>>

\* bug: a caller whose init_task failed is left waiting
StuckResume(c) ==
  /\ phase[c] = "awaitInit"
  /\ init = "done"
  /\ phase' = [phase EXCEPT ![c] = "awaitLock"]
  /\ waiters' = Append(waiters, c)
  /\ UNCHANGED <<store, mem, init, lost, reply, op, body, calls>>

\* init_task is over: go for the lock, or raise what init_task raised
Resume(c) ==
  /\ phase[c] = "awaitInit"
  /\ \/ /\ init = "done"
        /\ phase' = [phase EXCEPT ![c] = "awaitLock"]
        /\ waiters' = Append(waiters, c)
        /\ UNCHANGED reply
     \/ /\ init = "failed"
        /\ Returns(c, Error)
        /\ UNCHANGED waiters
  /\ UNCHANGED <<store, mem, init, lost, op, body, calls>>

\* bug: operations do not exclude each other
UnlockedTakesLock(c) ==
  /\ phase[c] = "awaitLock"
  /\ c = Head(waiters)
  /\ waiters' = Tail(waiters)

\* c is the first waiter and the lock is free
TakesLock(c) ==
  /\ phase[c] = "awaitLock"
  /\ ~Locked
  /\ c = Head(waiters)
  /\ waiters' = Tail(waiters)

\* get, keys, values, items, get_key_by_value, pop of a missing key
Read(c) ==
  /\ TakesLock(c)
  /\ \/ op[c].kind \in {"get", "items"}
     \/ op[c].kind = "pop" /\ mem[op[c].key] = NoValue
  /\ Returns(c, Reply(op[c], mem))
  /\ UNCHANGED <<store, mem, init, lost, op, body, calls>>

Writing(c) == op[c].kind \notin {"get", "items"}

\* extend appends to the list that is in the dict before it calls _set
Extended(c) ==
  LET old == mem[op[c].key] IN
  IF op[c].kind = "extend" /\ old # NoValue
    THEN [mem EXCEPT ![op[c].key] = Target(op[c], old)]
    ELSE mem

\* the reasons for which increment, extend, ... and _set raise
Refused(c) ==
  LET old == mem[op[c].key] IN
  \/ ~Accepts(op[c], old)
  \/ lost
  \/ Accepts(op[c], old) /\ ~Dumps(Target(op[c], old))

\* an operation that raises before it changes the dict, extend excepted
Refuse(c) ==
  LET old == mem[op[c].key] IN
  /\ TakesLock(c)
  /\ Writing(c)
  /\ NeedsPost(op[c], old)
  /\ Refused(c)
  /\ mem' = IF Accepts(op[c], old) THEN Extended(c) ELSE mem
  /\ Returns(c, Error)
  /\ UNCHANGED <<store, init, lost, op, body, calls>>

\* bug: the body is serialised before the dict is changed
StaleWrite(c) ==
  LET old == mem[op[c].key] IN
  /\ TakesLock(c)
  /\ Writing(c)
  /\ NeedsPost(op[c], old)
  /\ ~Refused(c)
  /\ mem' = [mem EXCEPT ![op[c].key] = Target(op[c], old)]
  /\ body' = mem
  /\ phase' = [phase EXCEPT ![c] = "posting"]
  /\ reply' = [reply EXCEPT ![c] = Reply(op[c], mem)]
  /\ UNCHANGED <<store, init, lost, op, calls>>

\* _set changes the dict, then serialises all of it, which raises if another
\* key holds something json.dumps rejects; else the post is sent
Write(c) ==
  LET old == mem[op[c].key] IN
  /\ TakesLock(c)
  /\ Writing(c)
  /\ NeedsPost(op[c], old)
  /\ ~Refused(c)
  /\ mem' = [mem EXCEPT ![op[c].key] = Target(op[c], old)]
  /\ IF DumpsAll(mem')
       THEN /\ body' = mem'
            /\ phase' = [phase EXCEPT ![c] = "posting"]
            /\ reply' = [reply EXCEPT ![c] = Reply(op[c], mem)]
       ELSE /\ Returns(c, Error)
            /\ UNCHANGED body
  /\ UNCHANGED <<store, init, lost, op, calls>>

\* the backend performs the post, or rejects it and nobody looks
Land(c) ==
  /\ phase[c] = "posting"
  /\ \/ store' = body
     \/ "post" \in Faults /\ UNCHANGED store
  /\ phase' = [phase EXCEPT ![c] = "posted"]
  /\ UNCHANGED <<mem, init, lost, waiters, op, reply, body, calls>>

\* the response has arrived: the lock is released and the operation returns
Finish(c) ==
  /\ phase[c] = "posted"
  /\ Returns(c, reply[c])
  /\ body' = EmptyMap
  /\ UNCHANGED <<store, mem, init, lost, waiters, op, calls>>

\* the request raises: the lock is released, the memory stays as it is
PostRaises(c) ==
  /\ "raise" \in Faults
  /\ phase[c] \in InLock
  /\ Returns(c, Error)
  /\ body' = EmptyMap
  /\ UNCHANGED <<store, mem, init, lost, waiters, op, calls>>

\* the process dies and another one restores the dict
Crash ==
  /\ mem' = EmptyMap
  /\ init' = "running"
  /\ lost' = FALSE
  /\ waiters' = <<>>
  /\ phase' = [c \in Callers |-> "idle"]
  /\ op' = [c \in Callers |-> NoOp]
  /\ reply' = [c \in Callers |-> NoReply]
  /\ body' = EmptyMap
  /\ UNCHANGED <<store, calls>>

-----------------------------------------------------------------------------
Step(c) == Resume(c) \/ Read(c) \/ Refuse(c) \/ Write(c) \/ Land(c) \/ Finish(c)

Next ==
  \/ \E c \in Callers : Invoke(c) \/ Step(c) \/ PostRaises(c)
  \/ Restore \/ InitFails \/ LoseClaim \/ Crash

Spec == Init /\ [][Next]_vars

\* the event loop runs what is ready, and the backend answers every request
Fairness == WF_vars(Restore) /\ \A c \in Callers : WF_vars(Step(c))

FairSpec == Spec /\ Fairness

-----------------------------------------------------------------------------
(* What the dict promises.                                                 *)

\* a caller's call as AtomicMap sees it: a write counts as done from the
\* moment the backend has it
AbstractCall(c) ==
  [op |-> op[c],
   status |-> CASE phase[c] \in {"awaitInit", "awaitLock", "posting"} -> "pending"
                [] phase[c] = "posted" -> "applied"
                [] OTHER -> phase[c],
   reply |-> IF phase[c] = "posting" THEN NoReply ELSE reply[c]]

Promise == INSTANCE AtomicMap WITH map <- store, call <- [c \in Callers |-> AbstractCall(c)]

\* With a backend that answers, every operation is atomic and durable: it sees
\* all operations that returned before it, increments of concurrent tasks are
\* all counted, and a crash at any point loses no write that was acknowledged
\* and half of none (_set posts the whole dict under rwlock).
Implements == Promise!Spec

\* Between operations the memory is what a restart would restore ("reject
\* unserializable values before mutating local state, so the in-memory dict
\* can't diverge from what the backend will accept", pdictng.py:336).
StoreIsMem == init = "done" /\ ~Locked => mem = store

\* A post changes the backend at the key its operation names and nowhere else,
\* although it carries the whole dict: no persisted key is lost to an operation
\* on another one, also right after a restart ("so pre-existing persisted keys
\* survive", tests/test_pdictng.py:99).
OneKeyPerWrite ==
  [][\A k \in Keys : store'[k] # store[k] =>
       \E c \in Callers : phase[c] = "posting" /\ op[c].key = k]_vars

\* Every operation returns or raises, whatever fails: the lock is released on
\* each path, and a failed init_task is raised to all who await it.
CallsReturn ==
  \A c \in Callers :
    phase[c] \notin {"idle", "returned"} ~> phase[c] \in {"idle", "returned"}
=============================================================================
