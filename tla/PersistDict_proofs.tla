------------------------- MODULE PersistDict_proofs --------------------------
(***************************************************************************)
(* Theorems about PersistDict, for every set of keys, values, operations   *)
(* and callers, and any number of crashes and restarts:                    *)
(*   - StoreIsMemHolds: between operations the memory is the backend's;    *)
(*   - OneKeyPerWriteHolds: no write touches a key it does not name;       *)
(*   - ImplementsHolds: the dict implements the atomic map;                *)
(*   - TypeCorrect: the types, whatever the backend does;                  *)
(*   - LockMovesHolds: the lock, whatever the backend does;                *)
(*   - PostsAreWholeHolds: what a post carries, whatever the backend does. *)
(* The first three hold when the backend answers, and extend is only asked *)
(* for what json.dumps accepts; the claim may be lost if extend is not     *)
(* asked for.  DictPoison and DictUnreadable show what happens otherwise.  *)
(***************************************************************************)
EXTENDS PersistDict, TLAPS

\* induction over the indices of a list
Words == INSTANCE StringDist_proofs

\* The conditions: the backend answers, no constructor arguments shadow persisted
\* values, and extend, which appends before it is refused, is not refused for a
\* poisonous element or a lost claim.  Otherwise the claim may be lost.
Reliable ==
  /\ Faults \subseteq {"lost"}
  /\ Defaults = EmptyMap
  /\ \A o \in Ops : o.kind = "extend" =>
       o.elem \in Elems \ Unserializable /\ "lost" \notin Faults

-----------------------------------------------------------------------------
(* Functions whose values need no type: that the memory is the backend's   *)
(* does not depend on what the operations compute.                         *)

IsOn(S, f) == f = [x \in S |-> f[x]]

LEMMA ExceptIsOn == ASSUME NEW S, NEW f, IsOn(S, f), NEW a \in S, NEW v
                    PROVE  /\ IsOn(S, [f EXCEPT ![a] = v])
                           /\ [f EXCEPT ![a] = v][a] = v
                           /\ \A x \in S \ {a} : [f EXCEPT ![a] = v][x] = f[x]
  BY DEF IsOn

LEMMA ConstantIsOn == ASSUME NEW S, NEW v
                      PROVE  IsOn(S, [x \in S |-> v])
  BY DEF IsOn

\* appending a serialisable element to a serialisable list
LEMMA DumpsAppend == ASSUME NEW v \in Lists, Dumps(v), NEW e \in Elems \ Unserializable
                     PROVE  Dumps(List(Append(v.val, e)))
<1> DEFINE w == Append(v.val, e)
<1>1. v.val \in Seq(Elems) /\ e \in Elems
  BY DEF Lists
<1>2. \A i \in 1..Len(v.val) : v.val[i] \notin Unserializable
  BY DEF Dumps
<1>3. \A i \in 1..Len(w) : w[i] \notin Unserializable
  BY <1>1, <1>2
<1>4. List(w).val = w
  BY DEF List
<1> QED BY <1>3, <1>4 DEF Dumps

LEMMA EmptyDumps == IsOn(Keys, EmptyMap) /\ DumpsAll(EmptyMap)
  BY DictAssumption DEF IsOn, EmptyMap, DumpsAll, Dumps, Lists

LEMMA UpdateDumps == ASSUME NEW m, IsOn(Keys, m), DumpsAll(m),
                            NEW k \in Keys, NEW v, Dumps(v)
                     PROVE  DumpsAll([m EXCEPT ![k] = v])
  BY ExceptIsOn DEF DumpsAll

\* what is not a read names a key
LEMMA WriteNamesKey == ASSUME NEW o \in Ops, o.kind \notin {"get", "items"}
                       PROVE  o.key \in Keys
  BY PersistAssumption DEF Writes, Reads

\* extend is refused for the type of what it finds only: not for its element
LEMMA ExtendDumps == ASSUME Reliable, NEW o \in Ops, o.kind = "extend",
                            NEW old, old # NoValue, Accepts(o, old), Dumps(old)
                     PROVE  Dumps(Target(o, old))
<1>1. old \in Lists
  BY DEF Accepts
<1>2. Target(o, old) = List(Append(old.val, o.elem))
  BY DEF Target, Elements
<1>3. o.elem \in Elems \ Unserializable
  BY DEF Reliable
<1> QED BY <1>1, <1>2, <1>3, DumpsAppend

-----------------------------------------------------------------------------
(* The inductive invariant.                                                *)

Awaiting == {"awaitInit", "awaitLock"}

\* the shapes of the variables
ShapeInv ==
  /\ init \in {"running", "done", "failed"}
  /\ phase \in [Callers -> Phases]
  /\ op \in [Callers -> Ops \cup {NoOp}]
  /\ IsOn(Callers, reply) /\ IsOn(Keys, store) /\ IsOn(Keys, mem)

\* a caller past its start has an operation, and no reply before it has the
\* lock, which nobody asks for before the restore
CallInv ==
  \A c \in Callers :
    /\ phase[c] \in Awaiting \cup InLock => op[c] \in Ops
    /\ phase[c] \in Awaiting => reply[c] = NoReply
    /\ phase[c] \in {"awaitLock"} \cup InLock => init = "done"

LockInv == \A c, d \in Callers : phase[c] \in InLock /\ phase[d] \in InLock => c = d

\* c has changed the memory and is posting it: the backend is the memory before
PostingInv(c) ==
  LET old == store[op[c].key] IN
  /\ Writing(c)
  /\ Accepts(op[c], old) /\ Dumps(Target(op[c], old))
  /\ mem = [store EXCEPT ![op[c].key] = Target(op[c], old)]
  /\ body = mem
  /\ reply[c] = Reply(op[c], store)

\* the memory is the backend's, but for the write that is being posted
SyncInv ==
  /\ init = "done" /\ ~Locked => mem = store
  /\ \A c \in Callers : /\ phase[c] = "posting" => PostingInv(c)
                        /\ phase[c] = "posted" => mem = store

DInv ==
  /\ lost => "lost" \in Faults
  /\ DumpsAll(store) /\ DumpsAll(mem)
  /\ ShapeInv /\ CallInv /\ LockInv /\ SyncInv

LEMMA DInvInit == Init => DInv
<1> SUFFICES ASSUME Init PROVE DInv
  OBVIOUS
<1> USE DEF Init, InLock, Awaiting, Phases
<1>1. ShapeInv
  BY EmptyDumps, ConstantIsOn DEF ShapeInv
<1>2. \A c \in Callers : phase[c] = "idle"
  OBVIOUS
<1>3. CallInv /\ LockInv
  BY <1>2 DEF CallInv, LockInv
<1>4. SyncInv
  BY <1>2 DEF SyncInv
<1> QED BY <1>1, <1>3, <1>4, EmptyDumps DEF DInv

\* c gets to phase p, with operation o and reply r
Moves(c, p, o, r) ==
  /\ phase' = [phase EXCEPT ![c] = p]
  /\ op' = [op EXCEPT ![c] = o]
  /\ reply' = [reply EXCEPT ![c] = r]

LEMMA MovesMeans ==
  ASSUME ShapeInv, NEW c \in Callers, NEW p, NEW o, NEW r, Moves(c, p, o, r)
  PROVE  /\ phase'[c] = p /\ op'[c] = o /\ reply'[c] = r
         /\ \A d \in Callers \ {c} :
              phase'[d] = phase[d] /\ op'[d] = op[d] /\ reply'[d] = reply[d]
  BY ExceptIsOn DEF ShapeInv, Moves

LEMMA MovesShape ==
  ASSUME ShapeInv, NEW c \in Callers, NEW p \in Phases, NEW o \in Ops \cup {NoOp}, NEW r,
         Moves(c, p, o, r), IsOn(Keys, store'), IsOn(Keys, mem'), UNCHANGED init
  PROVE  ShapeInv'
  BY ExceptIsOn DEF ShapeInv, Moves

\* steps that leave backend, memory and lock alone: a caller starts, goes on,
\* or returns without having had the lock
LEMMA CallerStep ==
  ASSUME DInv, NEW c \in Callers, phase[c] \notin InLock,
         NEW p \in Phases \ InLock, NEW o \in Ops \cup {NoOp}, NEW r, Moves(c, p, o, r),
         p \in Awaiting => o \in Ops /\ r = NoReply,
         p = "awaitLock" => init = "done",
         UNCHANGED <<store, mem, init, lost, body>>
  PROVE  DInv'
<1> USE DEF DInv, InLock, Awaiting
<1>1. ShapeInv'
  <2>1. ShapeInv /\ IsOn(Keys, store') /\ IsOn(Keys, mem') /\ p \in Phases
    BY DEF ShapeInv
  <2> QED BY <2>1, MovesShape
<1>2. /\ phase'[c] = p /\ op'[c] = o /\ reply'[c] = r
      /\ \A d \in Callers \ {c} :
           phase'[d] = phase[d] /\ op'[d] = op[d] /\ reply'[d] = reply[d]
  BY MovesMeans
<1>3. CallInv'
  BY <1>2 DEF CallInv
<1>4. LockInv'
  BY <1>2 DEF LockInv
<1>5. Locked' = Locked
  BY <1>2 DEF Locked
<1>6. ASSUME NEW d \in Callers, phase'[d] = "posting" PROVE PostingInv(d)'
  <2>1. d # c /\ phase[d] = "posting"
    BY <1>2, <1>6
  <2>2. op'[d] = op[d] /\ reply'[d] = reply[d]
    BY <1>2, <2>1
  <2> QED BY <2>1, <2>2 DEF SyncInv, PostingInv, Writing
<1>7. SyncInv'
  BY <1>2, <1>5, <1>6 DEF SyncInv
<1> QED BY <1>1, <1>3, <1>4, <1>7 DEF DumpsAll

LEMMA InvokeStep == ASSUME DInv, NEW c \in Callers, Invoke(c) PROVE DInv'
<1>1. PICK o \in Ops : op' = [op EXCEPT ![c] = o]
  BY DEF Invoke
<1>2. phase[c] \notin InLock /\ UNCHANGED <<store, mem, init, lost, body>>
  BY DEF Invoke, InLock
<1>3. \/ init = "running" /\ Moves(c, "awaitInit", o, NoReply)
      \/ init = "done" /\ Moves(c, "awaitLock", o, NoReply)
      \/ Moves(c, "returned", o, Error)
  BY <1>1 DEF Invoke, Moves, Returns, DInv, ShapeInv
<1> QED BY <1>1, <1>2, <1>3, CallerStep DEF Phases, InLock, Awaiting

LEMMA ResumeStep == ASSUME DInv, NEW c \in Callers, Resume(c) PROVE DInv'
<1> DEFINE o == op[c]
<1>1. phase[c] = "awaitInit" /\ UNCHANGED <<store, mem, init, lost, body, op>>
  BY DEF Resume
<1>2. o \in Ops /\ reply[c] = NoReply
  BY <1>1 DEF DInv, CallInv, Awaiting
<1>3. op' = [op EXCEPT ![c] = o]
  BY <1>1 DEF DInv, ShapeInv
<1>4. reply = [reply EXCEPT ![c] = NoReply]
  BY <1>2 DEF DInv, ShapeInv, IsOn
<1>5. \/ init = "done" /\ Moves(c, "awaitLock", o, NoReply)
      \/ Moves(c, "returned", o, Error)
  BY <1>3, <1>4 DEF Resume, Moves, Returns
<1> QED BY <1>1, <1>2, <1>5, CallerStep DEF Phases, InLock, Awaiting

LEMMA ReadStep == ASSUME DInv, NEW c \in Callers, Read(c) PROVE DInv'
<1> DEFINE o == op[c]
<1>1. phase[c] = "awaitLock" /\ UNCHANGED <<store, mem, init, lost, body, op>>
  BY DEF Read, TakesLock
<1>2. o \in Ops \cup {NoOp} /\ op' = [op EXCEPT ![c] = o]
  BY <1>1 DEF DInv, ShapeInv
<1>3. Moves(c, "returned", o, Reply(o, mem))
  BY <1>2 DEF Read, Moves, Returns
<1> QED BY <1>1, <1>2, <1>3, CallerStep DEF Phases, InLock, Awaiting

\* only extend can have changed the memory, and it is not refused
LEMMA RefuseStep == ASSUME Reliable, DInv, NEW c \in Callers, Refuse(c) PROVE DInv'
<1> DEFINE o == op[c]
           old == mem[o.key]
<1>1. phase[c] = "awaitLock" /\ UNCHANGED <<store, init, lost, body, op>>
  BY DEF Refuse, TakesLock
<1>2. o \in Ops /\ op' = [op EXCEPT ![c] = o]
  BY <1>1 DEF DInv, ShapeInv, CallInv, Awaiting
<1>3. o.key \in Keys
  BY <1>2, WriteNamesKey DEF Refuse, Writing
<1>4. Dumps(old)
  BY <1>3 DEF DInv, DumpsAll
<1>5. UNCHANGED mem
  <2>1. o.kind = "extend" => ~lost
    BY <1>2 DEF DInv, Reliable
  <2>2. o.kind = "extend" => ~(Accepts(o, old) /\ Dumps(Target(o, old)))
    BY <2>1 DEF Refuse, Refused
  <2>3. Accepts(o, old) => ~(o.kind = "extend" /\ old # NoValue)
    BY <1>2, <1>4, <2>2, ExtendDumps
  <2> QED BY <2>3 DEF Refuse, Extended
<1>6. Moves(c, "returned", o, Error)
  BY <1>2 DEF Refuse, Moves, Returns
<1> QED BY <1>1, <1>2, <1>5, <1>6, CallerStep DEF Phases, InLock, Awaiting

\* Locked and the callers' phases
LEMMA FreeLock == ASSUME NEW c \in Callers, TakesLock(c)
                  PROVE  /\ phase[c] = "awaitLock"
                         /\ \A d \in Callers : phase[d] \notin InLock
  BY DEF TakesLock, Locked

LEMMA WriteStep == ASSUME DInv, NEW c \in Callers, Write(c) PROVE DInv'
<1> DEFINE o == op[c]
           old == mem[o.key]
<1>1. /\ phase[c] = "awaitLock"
      /\ \A d \in Callers : phase[d] \notin InLock
      /\ UNCHANGED <<store, init, lost, op>>
  BY FreeLock DEF Write
<1>2. o \in Ops /\ op' = [op EXCEPT ![c] = o] /\ init = "done"
  BY <1>1 DEF DInv, ShapeInv, CallInv, Awaiting
<1>3. o.key \in Keys
  BY <1>2, WriteNamesKey DEF Write, Writing
<1>4. mem = store
  BY <1>1, <1>2 DEF DInv, SyncInv, Locked
<1>5. Accepts(o, old) /\ Dumps(Target(o, old))
  BY DEF Write, Refused
<1>6. mem' = [mem EXCEPT ![o.key] = Target(o, old)] /\ IsOn(Keys, mem')
  BY <1>3, ExceptIsOn DEF Write, DInv, ShapeInv
<1>7. DumpsAll(mem')
  BY <1>3, <1>5, <1>6, UpdateDumps DEF DInv, ShapeInv
<1>8. body' = mem' /\ Moves(c, "posting", o, Reply(o, mem))
  BY <1>2, <1>7 DEF Write, Moves
<1>9. /\ phase'[c] = "posting" /\ op'[c] = o /\ reply'[c] = Reply(o, store)
      /\ \A d \in Callers \ {c} :
           phase'[d] = phase[d] /\ op'[d] = op[d] /\ reply'[d] = reply[d]
  BY <1>4, <1>8, MovesMeans DEF DInv
<1>10. ShapeInv'
  <2>1. ShapeInv /\ IsOn(Keys, store') /\ "posting" \in Phases /\ UNCHANGED init
    BY <1>1 DEF DInv, ShapeInv, Phases, InLock
  <2> QED BY <1>2, <1>6, <1>8, <2>1, MovesShape
<1>11. CallInv' /\ LockInv'
  BY <1>1, <1>2, <1>9 DEF DInv, CallInv, LockInv, InLock, Awaiting
<1>12. PostingInv(c)'
  BY <1>1, <1>4, <1>5, <1>6, <1>8, <1>9 DEF PostingInv, Writing, Write
<1>13. Locked'
  BY <1>9 DEF Locked, InLock
<1>14. SyncInv'
  BY <1>1, <1>9, <1>12, <1>13 DEF SyncInv, InLock
<1>15. (lost' => "lost" \in Faults) /\ DumpsAll(store)'
  BY <1>1 DEF DInv, DumpsAll
<1> QED BY <1>7, <1>10, <1>11, <1>14, <1>15 DEF DInv

LEMMA LandStep == ASSUME Reliable, DInv, NEW c \in Callers, Land(c) PROVE DInv'
<1>1. /\ phase[c] = "posting" /\ phase' = [phase EXCEPT ![c] = "posted"]
      /\ UNCHANGED <<mem, init, lost, op, reply>>
  BY DEF Land
<1>2. PostingInv(c)
  BY <1>1 DEF DInv, SyncInv
<1>3. store' = mem
  BY <1>2 DEF Land, Reliable, PostingInv
<1>4. \A d \in Callers : phase'[d] = IF d = c THEN "posted" ELSE phase[d]
  BY <1>1 DEF DInv, ShapeInv
<1>5. \A d \in Callers \ {c} : phase[d] \notin InLock
  BY <1>1 DEF DInv, LockInv, InLock
<1>6. ShapeInv'
  BY <1>1, <1>3 DEF DInv, ShapeInv, Phases, InLock
<1>7. CallInv' /\ LockInv'
  BY <1>1, <1>4, <1>5 DEF DInv, CallInv, LockInv, InLock, Awaiting
<1>8. SyncInv'
  BY <1>1, <1>3, <1>4, <1>5 DEF SyncInv, InLock
<1> QED BY <1>1, <1>3, <1>6, <1>7, <1>8 DEF DInv, DumpsAll

LEMMA FinishStep == ASSUME DInv, NEW c \in Callers, Finish(c) PROVE DInv'
<1>1. /\ phase[c] = "posted" /\ UNCHANGED <<store, mem, init, lost, op>>
      /\ Moves(c, "returned", op[c], reply[c])
  BY DEF Finish, Returns, Moves, DInv, ShapeInv
<1>2. /\ phase'[c] = "returned"
      /\ \A d \in Callers \ {c} :
           phase'[d] = phase[d] /\ op'[d] = op[d] /\ reply'[d] = reply[d]
  BY <1>1, MovesMeans DEF DInv
<1>3. \A d \in Callers \ {c} : phase[d] \notin InLock
  BY <1>1 DEF DInv, LockInv, InLock
<1>4. mem = store
  BY <1>1 DEF DInv, SyncInv
<1>5. ShapeInv'
  <2>1. /\ ShapeInv /\ IsOn(Keys, store') /\ IsOn(Keys, mem')
        /\ op[c] \in Ops \cup {NoOp} /\ "returned" \in Phases
    BY <1>1 DEF DInv, ShapeInv, Phases
  <2> QED BY <1>1, <2>1, MovesShape
<1>6. CallInv' /\ LockInv'
  BY <1>1, <1>2, <1>3 DEF DInv, CallInv, LockInv, InLock, Awaiting
<1>7. SyncInv'
  BY <1>1, <1>2, <1>3, <1>4 DEF SyncInv, InLock
<1> QED BY <1>1, <1>5, <1>6, <1>7 DEF DInv, DumpsAll

\* before the restore nobody has asked for the lock
LEMMA RestoreStep == ASSUME Reliable, DInv, Restore PROVE DInv'
<1>1. UNCHANGED <<store, lost, phase, op, reply, body>> /\ init = "running" /\ init' = "done"
  BY DEF Restore
<1>2. mem' = store
  BY DictAssumption DEF Restore, Reliable, Seeded, EmptyMap, DInv, ShapeInv, IsOn
<1>3. \A c \in Callers : phase[c] \notin {"awaitLock"} \cup InLock
  BY <1>1 DEF DInv, CallInv
<1>4. ShapeInv' /\ CallInv' /\ LockInv'
  BY <1>1, <1>2, <1>3 DEF DInv, ShapeInv, CallInv, LockInv
<1>5. SyncInv'
  BY <1>1, <1>2, <1>3 DEF SyncInv, InLock
<1> QED BY <1>1, <1>2, <1>4, <1>5 DEF DInv, DumpsAll

LEMMA CrashStep == ASSUME DInv, Crash PROVE DInv'
<1> USE DEF Crash, InLock, Awaiting, Phases
<1>1. ShapeInv'
  BY EmptyDumps, ConstantIsOn DEF DInv, ShapeInv
<1>2. \A c \in Callers : phase'[c] = "idle"
  OBVIOUS
<1>3. CallInv' /\ LockInv' /\ SyncInv'
  BY <1>2 DEF CallInv, LockInv, SyncInv
<1> QED BY <1>1, <1>3, EmptyDumps DEF DInv, DumpsAll

LEMMA DInvStep == ASSUME Reliable, DInv, [Next]_vars
                  PROVE  DInv'
<1>1. ASSUME NEW c \in Callers, Invoke(c) PROVE DInv'
  BY <1>1, InvokeStep
<1>2. ASSUME NEW c \in Callers, Step(c) PROVE DInv'
  BY <1>2, ResumeStep, ReadStep, RefuseStep, WriteStep, LandStep, FinishStep DEF Step
<1>3. ASSUME NEW c \in Callers, PostRaises(c) PROVE DInv'
  BY <1>3 DEF PostRaises, Reliable
<1>4. CASE Restore
  BY <1>4, RestoreStep
<1>5. CASE InitFails
  <2>1. /\ UNCHANGED <<store, mem, lost, phase, op, reply, body>>
        /\ init = "running" /\ init' = "failed"
    BY <1>5 DEF InitFails
  <2>2. \A c \in Callers : phase[c] \notin {"awaitLock"} \cup InLock
    BY <2>1 DEF DInv, CallInv
  <2>3. ShapeInv' /\ CallInv' /\ LockInv'
    BY <2>1, <2>2 DEF DInv, ShapeInv, CallInv, LockInv
  <2>4. SyncInv'
    BY <2>1, <2>2 DEF SyncInv, InLock
  <2> QED BY <2>1, <2>3, <2>4 DEF DInv, DumpsAll
<1>6. CASE LoseClaim
  <2>1. UNCHANGED <<store, mem, init, phase, op, reply, body>> /\ "lost" \in Faults
    BY <1>6 DEF LoseClaim
  <2>2. ShapeInv' /\ CallInv' /\ LockInv'
    BY <2>1 DEF DInv, ShapeInv, CallInv, LockInv
  <2>3. SyncInv'
    BY <2>1 DEF DInv, SyncInv, PostingInv, Writing, Locked
  <2> QED BY <2>1, <2>2, <2>3 DEF DInv, DumpsAll
<1>7. CASE Crash
  BY <1>7, CrashStep
<1>8. CASE UNCHANGED vars
  <2>1. ShapeInv' /\ CallInv' /\ LockInv'
    BY <1>8 DEF vars, DInv, ShapeInv, CallInv, LockInv
  <2>2. SyncInv'
    BY <1>8 DEF vars, DInv, SyncInv, PostingInv, Writing, Locked
  <2> QED BY <1>8, <2>1, <2>2 DEF vars, DInv, DumpsAll
<1> QED BY <1>1, <1>2, <1>3, <1>4, <1>5, <1>6, <1>7, <1>8 DEF Next

LEMMA DInvHolds == ASSUME Reliable PROVE Spec => []DInv
<1>1. DInv /\ [Next]_vars => DInv'
  BY DInvStep
<1> QED BY DInvInit, <1>1, PTL DEF Spec

-----------------------------------------------------------------------------
(* The theorems.                                                           *)

\* Between operations the memory is what a restart would restore.
THEOREM StoreIsMemHolds == ASSUME Reliable PROVE Spec => []StoreIsMem
<1>1. DInv => StoreIsMem
  BY DEF DInv, SyncInv, StoreIsMem
<1> QED BY DInvHolds, <1>1, PTL

\* the backend changes by the arrival of a post only, and by one key of it
LEMMA OnlyPostsChangeStore ==
  ASSUME Reliable, DInv, [Next]_vars, store' # store
  PROVE  \E c \in Callers : Land(c) /\ phase[c] = "posting" /\ PostingInv(c) /\ store' = mem
<1>1. PICK c \in Callers : Land(c)
  BY DEF Next, Step, vars, Invoke, Resume, Read, Refuse, Write, Finish, PostRaises, Restore,
         InitFails, LoseClaim, Crash
<1>2. phase[c] = "posting" /\ PostingInv(c)
  BY <1>1 DEF Land, DInv, SyncInv
<1> QED BY <1>1, <1>2 DEF Land, PostingInv

\* A post changes the backend at the key its operation names, nowhere else.
THEOREM OneKeyPerWriteHolds == ASSUME Reliable PROVE Spec => OneKeyPerWrite
<1> DEFINE Change == \A k \in Keys : store'[k] # store[k] =>
                       \E c \in Callers : phase[c] = "posting" /\ op[c].key = k
<1>1. DInv /\ [Next]_vars => [Change]_vars
  <2> SUFFICES ASSUME DInv, [Next]_vars, NEW k \in Keys, store'[k] # store[k]
               PROVE  \E c \in Callers : phase[c] = "posting" /\ op[c].key = k
    OBVIOUS
  <2>1. PICK c \in Callers : phase[c] = "posting" /\ PostingInv(c) /\ store' = mem
    BY OnlyPostsChangeStore
  <2>2. op[c].key = k
    BY <2>1 DEF PostingInv, DInv, ShapeInv, IsOn
  <2> QED BY <2>1, <2>2
<1> QED BY DInvHolds, <1>1, PTL DEF OneKeyPerWrite, Spec

-----------------------------------------------------------------------------
(* The refinement: one lemma per kind of step.                             *)

absCall == [c \in Callers |-> AbstractCall(c)]

\* AtomicMap computes with the same operators
LEMMA SameOps == ASSUME NEW o, NEW old, NEW m
                 PROVE  /\ Promise!Target(o, old) = Target(o, old)
                        /\ Promise!Accepts(o, old) = Accepts(o, old)
                        /\ Promise!Dumps(old) = Dumps(old)
                        /\ Promise!Reply(o, m) = Reply(o, m)
<1>1. Promise!Target(o, old) = Target(o, old)
  BY DEF Promise!Target, Target, Promise!Number, Number, Promise!List, List,
         Promise!Elements, Elements
<1>2. Promise!Accepts(o, old) = Accepts(o, old)
  BY DEF Promise!Accepts, Accepts, Promise!Numbers, Numbers, Promise!Lists, Lists
<1>3. Promise!Dumps(old) = Dumps(old)
  BY DEF Promise!Dumps, Dumps, Promise!Lists, Lists
<1>4. Promise!Reply(o, m) = Reply(o, m)
  BY DEF Promise!Reply, Reply
<1> QED BY <1>1, <1>2, <1>3, <1>4

\* only the abstract call of the caller that moves changes
LEMMA AbstractMove ==
  ASSUME NEW c \in Callers,
         \A d \in Callers \ {c} :
           phase'[d] = phase[d] /\ op'[d] = op[d] /\ reply'[d] = reply[d]
  PROVE  absCall' = [absCall EXCEPT ![c] = AbstractCall(c)']
  BY DEF absCall, AbstractCall

LEMMA AbstractBecomes ==
  ASSUME NEW c \in Callers, NEW s, NEW r,
         absCall' = [absCall EXCEPT ![c] = AbstractCall(c)'],
         AbstractCall(c)' = [op |-> op[c], status |-> s, reply |-> r]
  PROVE  Promise!Becomes(c, s, r)
<1>1. absCall[c].op = op[c]
  BY DEF absCall, AbstractCall
<1>2. absCall' = [absCall EXCEPT ![c] = [op |-> absCall[c].op, status |-> s, reply |-> r]]
  BY <1>1
<1> QED BY <1>2 DEF Promise!Becomes, absCall

\* the status of c's abstract call, as Promise reads it
LEMMA AbstractStatus ==
  ASSUME NEW c \in Callers
  PROVE  /\ absCall[c] = AbstractCall(c)
         /\ absCall[c].op = op[c]
         /\ absCall[c].status = AbstractCall(c).status
         /\ absCall[c].reply = AbstractCall(c).reply
  BY DEF absCall, AbstractCall

LEMMA AbstractInit == Init => Promise!Init
  BY DEF Init, Promise!Init, Promise!EmptyMap, EmptyMap, Promise!Idle, AbstractCall

LEMMA AbstractInvoke == ASSUME DInv, NEW c \in Callers, Invoke(c) PROVE Promise!Invoke(c)
<1>1. PICK o \in Ops : op' = [op EXCEPT ![c] = o]
  BY DEF Invoke
<1>2. \/ Moves(c, "awaitInit", o, NoReply)
      \/ Moves(c, "awaitLock", o, NoReply)
      \/ Moves(c, "returned", o, Error)
  BY <1>1 DEF Invoke, Moves, Returns, DInv, ShapeInv
<1>3. absCall' = [absCall EXCEPT ![c] = AbstractCall(c)']
  BY <1>2, MovesMeans, AbstractMove DEF DInv
<1>4. \/ AbstractCall(c)' = [op |-> o, status |-> "pending", reply |-> NoReply]
      \/ AbstractCall(c)' = [op |-> o, status |-> "returned", reply |-> Error]
  BY <1>2, MovesMeans DEF AbstractCall, DInv
<1>5. absCall[c].status \in {"idle", "returned"}
  BY DEF Invoke, absCall, AbstractCall
<1>6. UNCHANGED store
  BY DEF Invoke
<1> QED BY <1>3, <1>4, <1>5, <1>6 DEF Promise!Invoke, absCall

LEMMA AbstractResume == ASSUME DInv, NEW c \in Callers, Resume(c)
                        PROVE  UNCHANGED <<store, absCall>> \/ Promise!Fail(c)
<1>1. /\ phase[c] = "awaitInit" /\ UNCHANGED <<store, op>>
      /\ reply[c] = NoReply
  BY DEF Resume, DInv, CallInv, Awaiting
<1>2. \/ phase' = [phase EXCEPT ![c] = "awaitLock"] /\ UNCHANGED reply
      \/ Moves(c, "returned", op[c], Error)
  BY <1>1 DEF Resume, Moves, Returns, DInv, ShapeInv
<1>3. CASE phase' = [phase EXCEPT ![c] = "awaitLock"] /\ UNCHANGED reply
  <2>1. \A d \in Callers : AbstractCall(d)' = AbstractCall(d)
    BY <1>1, <1>3 DEF AbstractCall, DInv, ShapeInv
  <2> QED BY <1>1, <2>1 DEF absCall
<1>4. CASE Moves(c, "returned", op[c], Error)
  <2>1. absCall' = [absCall EXCEPT ![c] = AbstractCall(c)']
    BY <1>4, MovesMeans, AbstractMove DEF DInv
  <2>2. AbstractCall(c)' = [op |-> op[c], status |-> "returned", reply |-> Error]
    BY <1>4, MovesMeans DEF AbstractCall, DInv
  <2>3. AbstractCall(c) = [op |-> op[c], status |-> "pending", reply |-> NoReply]
    BY <1>1 DEF AbstractCall
  <2>4. absCall[c].status = "pending"
    BY <2>3, AbstractStatus
  <2>5. Promise!Becomes(c, "returned", Error)
    BY <2>1, <2>2, AbstractBecomes
  <2> QED BY <1>1, <2>4, <2>5 DEF Promise!Fail, absCall
<1> QED BY <1>2, <1>3, <1>4

LEMMA AbstractRead == ASSUME DInv, NEW c \in Callers, Read(c) PROVE Promise!Observe(c)
<1>1. /\ phase[c] = "awaitLock" /\ UNCHANGED store
      /\ \A d \in Callers : phase[d] \notin InLock
      /\ Moves(c, "returned", op[c], Reply(op[c], mem))
  BY FreeLock DEF Read, Moves, Returns, DInv, ShapeInv
<1>2. mem = store /\ reply[c] = NoReply
  BY <1>1 DEF DInv, CallInv, SyncInv, Locked, Awaiting
<1>3. absCall' = [absCall EXCEPT ![c] = AbstractCall(c)']
  BY <1>1, MovesMeans, AbstractMove DEF DInv
<1>4. AbstractCall(c)' = [op |-> op[c], status |-> "returned", reply |-> Reply(op[c], store)]
  BY <1>1, <1>2, MovesMeans DEF AbstractCall, DInv
<1>5. AbstractCall(c) = [op |-> op[c], status |-> "pending", reply |-> NoReply]
  BY <1>1, <1>2 DEF AbstractCall
<1>6. \/ op[c].kind \in {"get", "items"}
      \/ op[c].kind = "pop" /\ store[op[c].key] = NoValue
  BY <1>2 DEF Read
<1>7. absCall[c].op = op[c] /\ absCall[c].status = "pending"
  BY <1>5, AbstractStatus
<1>8. Promise!Becomes(c, "returned", Promise!Reply(op[c], store))
  BY <1>3, <1>4, AbstractBecomes, SameOps
<1> QED BY <1>1, <1>6, <1>7, <1>8 DEF Promise!Observe, absCall

LEMMA AbstractRefuse == ASSUME DInv, NEW c \in Callers, Refuse(c) PROVE Promise!Fail(c)
<1>1. /\ phase[c] = "awaitLock" /\ UNCHANGED store
      /\ Moves(c, "returned", op[c], Error)
  BY DEF Refuse, TakesLock, Moves, Returns, DInv, ShapeInv
<1>2. reply[c] = NoReply
  BY <1>1 DEF DInv, CallInv, Awaiting
<1>3. absCall' = [absCall EXCEPT ![c] = AbstractCall(c)']
  BY <1>1, MovesMeans, AbstractMove DEF DInv
<1>4. AbstractCall(c)' = [op |-> op[c], status |-> "returned", reply |-> Error]
  BY <1>1, MovesMeans DEF AbstractCall, DInv
<1>5. AbstractCall(c) = [op |-> op[c], status |-> "pending", reply |-> NoReply]
  BY <1>1, <1>2 DEF AbstractCall
<1>6. absCall[c].status = "pending"
  BY <1>5, AbstractStatus
<1>7. Promise!Becomes(c, "returned", Error)
  BY <1>3, <1>4, AbstractBecomes
<1> QED BY <1>1, <1>6, <1>7 DEF Promise!Fail, absCall

\* the change in memory is not visible before the post has arrived
LEMMA AbstractWrite == ASSUME DInv, DInv', NEW c \in Callers, Write(c)
                       PROVE  UNCHANGED absCall /\ UNCHANGED store
<1>1. phase[c] = "awaitLock" /\ UNCHANGED <<store, op>>
  BY DEF Write, TakesLock
<1>2. reply[c] = NoReply /\ op[c] \in Ops
  BY <1>1 DEF DInv, CallInv, Awaiting
<1>3. DumpsAll(mem')
  BY DEF DInv
<1>4. Moves(c, "posting", op[c], Reply(op[c], mem))
  BY <1>1, <1>3 DEF Write, Moves, DInv, ShapeInv
<1>5. absCall' = [absCall EXCEPT ![c] = AbstractCall(c)']
  BY <1>4, MovesMeans, AbstractMove DEF DInv
<1>6. AbstractCall(c)' = AbstractCall(c)
  BY <1>1, <1>2, <1>4, MovesMeans DEF AbstractCall, DInv
<1> QED BY <1>1, <1>5, <1>6 DEF absCall

LEMMA AbstractLand == ASSUME Reliable, DInv, NEW c \in Callers, Land(c) PROVE Promise!Apply(c)
<1>1. /\ phase[c] = "posting" /\ UNCHANGED <<op, reply>>
      /\ phase' = [phase EXCEPT ![c] = "posted"]
  BY DEF Land
<1>2. PostingInv(c) /\ store' = body
  BY <1>1 DEF Land, Reliable, DInv, SyncInv
<1>3. /\ phase'[c] = "posted"
      /\ \A d \in Callers \ {c} : phase'[d] = phase[d]
  BY <1>1 DEF DInv, ShapeInv
<1>4. absCall' = [absCall EXCEPT ![c] = AbstractCall(c)']
  BY <1>1, <1>3, AbstractMove
<1>5. AbstractCall(c)' = [op |-> op[c], status |-> "applied", reply |-> Reply(op[c], store)]
  BY <1>1, <1>2, <1>3 DEF AbstractCall, PostingInv
<1>6. AbstractCall(c) = [op |-> op[c], status |-> "pending", reply |-> NoReply]
  BY <1>1 DEF AbstractCall
<1>7. Promise!Becomes(c, "applied", Promise!Reply(op[c], store))
  BY <1>4, <1>5, AbstractBecomes, SameOps
<1>8. store' = [store EXCEPT ![op[c].key] = Promise!Target(op[c], store[op[c].key])]
  BY <1>2, SameOps DEF PostingInv
<1>9. /\ op[c].kind \notin {"get", "items"}
      /\ Promise!Accepts(op[c], store[op[c].key])
      /\ Promise!Dumps(Promise!Target(op[c], store[op[c].key]))
  BY <1>2, SameOps DEF PostingInv, Writing
<1>10. absCall[c].op = op[c] /\ absCall[c].status = "pending"
  BY <1>6, AbstractStatus
<1> QED BY <1>7, <1>8, <1>9, <1>10 DEF Promise!Apply, absCall

LEMMA AbstractFinish == ASSUME DInv, NEW c \in Callers, Finish(c) PROVE Promise!Return(c)
<1>1. /\ phase[c] = "posted" /\ UNCHANGED store
      /\ Moves(c, "returned", op[c], reply[c])
  BY DEF Finish, Returns, Moves, DInv, ShapeInv
<1>2. absCall' = [absCall EXCEPT ![c] = AbstractCall(c)']
  BY <1>1, MovesMeans, AbstractMove DEF DInv
<1>3. AbstractCall(c)' = [op |-> op[c], status |-> "returned", reply |-> reply[c]]
  BY <1>1, MovesMeans DEF AbstractCall, DInv
<1>4. AbstractCall(c) = [op |-> op[c], status |-> "applied", reply |-> reply[c]]
  BY <1>1 DEF AbstractCall
<1>5. absCall[c].status = "applied" /\ absCall[c].reply = reply[c]
  BY <1>4, AbstractStatus
<1>6. Promise!Becomes(c, "returned", reply[c])
  BY <1>2, <1>3, AbstractBecomes
<1> QED BY <1>1, <1>5, <1>6 DEF Promise!Return, absCall

LEMMA AbstractCrash == Crash => Promise!Crash
  BY DEF Crash, Promise!Crash, Promise!Idle, AbstractCall

\* With a reliable backend every step is a step of AtomicMap, or changes nothing
\* AtomicMap can see.
LEMMA AbstractStep ==
  ASSUME Reliable, DInv, DInv', [Next]_vars
  PROVE  Promise!Next \/ UNCHANGED <<store, absCall>>
<1>1. ASSUME NEW c \in Callers, Invoke(c) PROVE Promise!Next
  BY <1>1, AbstractInvoke DEF Promise!Next
<1>2. ASSUME NEW c \in Callers, Resume(c) PROVE Promise!Next \/ UNCHANGED <<store, absCall>>
  BY <1>2, AbstractResume DEF Promise!Next
<1>3. ASSUME NEW c \in Callers, Read(c) PROVE Promise!Next
  BY <1>3, AbstractRead DEF Promise!Next
<1>4. ASSUME NEW c \in Callers, Refuse(c) PROVE Promise!Next
  BY <1>4, AbstractRefuse DEF Promise!Next
<1>5. ASSUME NEW c \in Callers, Write(c) PROVE UNCHANGED <<store, absCall>>
  BY <1>5, AbstractWrite
<1>6. ASSUME NEW c \in Callers, Land(c) PROVE Promise!Next
  BY <1>6, AbstractLand DEF Promise!Next
<1>7. ASSUME NEW c \in Callers, Finish(c) PROVE Promise!Next
  BY <1>7, AbstractFinish DEF Promise!Next
<1>8. ASSUME NEW c \in Callers, PostRaises(c) PROVE FALSE
  BY <1>8 DEF PostRaises, Reliable
<1>9. CASE Restore \/ InitFails \/ LoseClaim \/ UNCHANGED vars
  <2>1. UNCHANGED <<store, phase, op, reply>>
    BY <1>9 DEF Restore, InitFails, LoseClaim, vars
  <2> QED BY <2>1 DEF absCall, AbstractCall
<1>10. CASE Crash
  BY <1>10, AbstractCrash DEF Promise!Next
<1> QED BY <1>1, <1>2, <1>3, <1>4, <1>5, <1>6, <1>7, <1>8, <1>9, <1>10 DEF Next, Step

\* With a backend that answers, the dict implements AtomicMap: every operation
\* is atomic and durable.
THEOREM ImplementsHolds == ASSUME Reliable PROVE Spec => Implements
<1>1. Init => Promise!Init
  BY AbstractInit
<1>2. DInv /\ DInv' /\ [Next]_vars => [Promise!Next]_(Promise!vars)
  BY AbstractStep DEF Promise!vars, absCall
<1> QED BY DInvHolds, <1>1, <1>2, PTL DEF Spec, Implements, Promise!Spec

-----------------------------------------------------------------------------
(* The types, whatever fails. *)

\* what remove_from leaves of a list is a list
LEMMA WithoutIsSeq ==
  ASSUME NEW S, NEW s \in Seq(S), NEW e PROVE Without(s, e) \in Seq(S)
<1> DEFINE n == Len(s)
           Cell(r, k) == IF k = 0 THEN <<>>
                         ELSE IF s[k] = e THEN r[k - 1] ELSE Append(r[k - 1], s[k])
           rest == CHOOSE r : r = [k \in 0..n |-> Cell(r, k)]
           step == [k \in 1..n |-> [x \in Seq(S) |-> IF s[k] = e THEN x ELSE Append(x, s[k])]]
<1>1. n \in Nat /\ (\A k \in 1..n : s[k] \in S) /\ <<>> \in Seq(S)
  OBVIOUS
<1>2. step \in [1..n -> [Seq(S) -> Seq(S)]]
  BY <1>1
<1>3. \A k \in 1..n, x \in Seq(S) : step[k][x] = IF s[k] = e THEN x ELSE Append(x, s[k])
  OBVIOUS
<1> HIDE DEF step
<1>4. PICK f : f \in [0..n -> Seq(S)] /\ f[0] = <<>> /\ \A k \in 1..n : f[k] = step[k][f[k-1]]
  <2>1. \E f : Words!IsComputed(f, n, Seq(S), <<>>, step)
    <3> HIDE DEF n, rest, Cell
    <3> QED BY <1>1, <1>2, Words!Computable, Zenon
  <2> QED BY <2>1 DEF Words!IsComputed
<1>5. f = [k \in 0..n |-> Cell(f, k)]
  <2>1. \A k \in 0..n : f[k] = Cell(f, k)
    <3> SUFFICES ASSUME NEW k \in 0..n PROVE f[k] = Cell(f, k)
      OBVIOUS
    <3>1. CASE k = 0
      BY <1>4, <3>1
    <3>2. CASE k # 0
      <4>1. k \in 1..n /\ k - 1 \in 0..n
        BY <1>1, <3>2
      <4>2. f[k - 1] \in Seq(S)
        BY <1>4, <4>1
      <4> QED BY <1>3, <1>4, <3>2, <4>1, <4>2
    <3> QED BY <3>1, <3>2
  <2>2. f = [k \in 0..n |-> f[k]]
    BY <1>4
  <2> HIDE DEF Cell, n
  <2> QED BY <2>1, <2>2
<1>6. rest = [k \in 0..n |-> Cell(rest, k)]
  <2> HIDE DEF Cell, n
  <2> QED BY <1>5
<1> DEFINE T == {k \in Nat : k <= n => rest[k] \in Seq(S)}
<1>7. 0 \in T
  <2>1. rest[0] = <<>>
    <3>1. 0 \in 0..n
      BY <1>1
    <3> HIDE DEF rest, n
    <3> QED BY <1>6, <3>1
  <2> QED BY <1>1, <2>1
<1>8. \A k \in T : k + 1 \in T
  <2> SUFFICES ASSUME NEW k \in T, k + 1 <= n PROVE rest[k + 1] \in Seq(S)
    OBVIOUS
  <2>0. k \in Nat /\ rest[k] \in Seq(S)
    BY <1>1
  <2>1. k + 1 \in 0..n /\ k + 1 \in 1..n /\ (k + 1) - 1 = k /\ k + 1 # 0
    BY <1>1, <2>0
  <2>2. rest[k + 1] = IF s[k + 1] = e THEN rest[k] ELSE Append(rest[k], s[k + 1])
    <3> HIDE DEF rest, n
    <3> QED BY <1>6, <2>1
  <2> HIDE DEF rest, n
  <2> QED BY <1>1, <2>0, <2>1, <2>2
<1> HIDE DEF T, rest
<1>9. T = Nat
  <2>1. T \in SUBSET Nat
    BY DEF T
  <2> QED BY <1>7, <1>8, <2>1, Words!NatInduct, Zenon
<1>10. rest[n] \in Seq(S)
  BY <1>1, <1>9 DEF T
<1>11. Without(s, e) = rest[n]
  BY DEF Without, rest
<1> QED BY <1>10, <1>11

LEMMA TargetTyped ==
  ASSUME NEW o \in Writes, NEW old \in Values \cup {NoValue}, Accepts(o, old)
  PROVE  Target(o, old) \in Values \cup {NoValue}
<1>1. old = NoValue \/ old \in Numbers \/ old \in Lists
  BY DEF Values
<1>2. CASE o.kind = "set"
  <2>1. Target(o, old) = o.value
    BY <1>2 DEF Target
  <2> QED BY <1>2, <2>1 DEF Writes
<1>3. CASE o.kind = "pop"
  BY <1>3 DEF Target
<1>4. CASE o.kind = "add"
  <2>1. o.by \in Int
    BY <1>4 DEF Writes
  <2>2. (IF old = NoValue THEN 0 ELSE old.val) \in Int
    BY <1>4 DEF Accepts, Numbers
  <2>3. Target(o, old) = Number((IF old = NoValue THEN 0 ELSE old.val) + o.by)
    BY <1>4 DEF Target
  <2> QED BY <2>1, <2>2, <2>3 DEF Number, Numbers, Values
<1>5. CASE o.kind \in {"extend", "removeFrom"}
  <2>1. o.elem \in Elems /\ Elements(old) \in Seq(Elems)
    BY <1>5 DEF Writes, Accepts, Lists, Elements
  <2>2. Append(Elements(old), o.elem) \in Seq(Elems) /\ Without(Elements(old), o.elem) \in Seq(Elems)
    BY <2>1, WithoutIsSeq
  <2>3. \/ Target(o, old) = List(Append(Elements(old), o.elem))
        \/ Target(o, old) = List(Without(Elements(old), o.elem))
    BY <1>5 DEF Target
  <2> QED BY <2>2, <2>3 DEF List, Lists, Values
<1>6. o.kind \in {"set", "pop", "add", "extend", "removeFrom"}
  BY DEF Writes
<1> QED BY <1>2, <1>3, <1>4, <1>5, <1>6

\* what waits for the lock is in the queue; the rest is TypeOK, with Ops for what
\* the callers do
TypeInv ==
  /\ TypeOK
  /\ op \in [Callers -> Ops \cup {NoOp}]
  /\ \A c \in Callers : phase[c] \in Awaiting \cup InLock => op[c] \in Ops
  /\ \A c \in Callers : phase[c] = "awaitLock" => \E i \in 1..Len(waiters) : waiters[i] = c

Replies == Maps \cup Values \cup {NoValue, Done, NoReply, Error}

LEMMA TypeInvInit == Init => TypeInv
<1> SUFFICES ASSUME Init PROVE TypeInv
  OBVIOUS
<1>1. EmptyMap \in Maps
  BY DEF EmptyMap, Maps
<1>2. store \in Maps /\ mem \in Maps /\ body \in Maps
  BY <1>1 DEF Init
<1>3. calls \in 0..MaxCalls /\ waiters \in Seq(Callers)
  BY PersistAssumption DEF Init
<1>4. phase \in [Callers -> Phases] /\ \A c \in Callers : phase[c] = "idle"
  BY DEF Init, Phases
<1>5. /\ op \in [Callers -> Writes \cup Reads \cup {NoOp}] /\ op \in [Callers -> Ops \cup {NoOp}]
      /\ reply \in [Callers -> Maps \cup Values \cup {NoValue, Done, NoReply, Error}]
  BY DEF Init
<1>6. TypeOK
  BY <1>2, <1>3, <1>4, <1>5 DEF Init, TypeOK
<1> QED BY <1>4, <1>5, <1>6 DEF TypeInv, Awaiting, InLock

\* A caller that moves on.
LEMMA MovesTyped ==
  ASSUME TypeInv, NEW c \in Callers, NEW p \in Phases, NEW r \in Replies,
         phase' = [phase EXCEPT ![c] = p], reply' = [reply EXCEPT ![c] = r]
  PROVE  /\ phase' \in [Callers -> Phases] /\ reply' \in [Callers -> Replies]
         /\ phase'[c] = p /\ \A d \in Callers \ {c} : phase'[d] = phase[d]
BY DEF TypeInv, TypeOK, Replies

\* The lock goes to the first in the queue, and the others stay.
LEMMA QueueMoves ==
  ASSUME TypeInv, NEW c \in Callers, TakesLock(c)
  PROVE  /\ waiters' \in Seq(Callers) /\ op[c] \in Ops
         /\ \A d \in Callers \ {c} :
              phase[d] = "awaitLock" => \E i \in 1..Len(waiters') : waiters'[i] = d
<1>1. waiters \in Seq(Callers) /\ phase[c] = "awaitLock" /\ waiters' = Tail(waiters) /\ c = Head(waiters)
  BY DEF TypeInv, TypeOK, TakesLock
<1>2. waiters # <<>>
  BY <1>1 DEF TypeInv
<1>3. /\ Tail(waiters) \in Seq(Callers) /\ Len(Tail(waiters)) = Len(waiters) - 1
      /\ Len(waiters) \in Nat /\ waiters[1] = c
      /\ \A i \in 1..(Len(waiters) - 1) : Tail(waiters)[i] = waiters[i + 1]
  BY <1>1, <1>2
<1>4. op[c] \in Ops
  BY <1>1 DEF TypeInv, Awaiting
<1>5. ASSUME NEW d \in Callers \ {c}, phase[d] = "awaitLock"
      PROVE  \E i \in 1..Len(waiters') : waiters'[i] = d
  <2>1. PICK i \in 1..Len(waiters) : waiters[i] = d
    BY <1>5 DEF TypeInv
  <2>2. i # 1
    BY <1>3, <2>1
  <2>3. i - 1 \in 1..(Len(waiters) - 1) /\ (i - 1) + 1 = i
    BY <1>3, <2>2
  <2> QED BY <1>1, <1>3, <2>1, <2>3
<1> QED BY <1>1, <1>3, <1>4, <1>5

\* One more waits.
LEMMA QueueGrows ==
  ASSUME TypeInv, NEW c \in Callers, waiters' = Append(waiters, c)
  PROVE  /\ waiters' \in Seq(Callers)
         /\ \E i \in 1..Len(waiters') : waiters'[i] = c
         /\ \A d \in Callers : phase[d] = "awaitLock" => \E i \in 1..Len(waiters') : waiters'[i] = d
<1>1. /\ waiters' \in Seq(Callers) /\ Len(waiters) \in Nat /\ Len(waiters') = Len(waiters) + 1
      /\ waiters'[Len(waiters) + 1] = c
      /\ \A i \in 1..Len(waiters) : waiters'[i] = waiters[i]
  BY DEF TypeInv, TypeOK
<1>2. Len(waiters) + 1 \in 1..Len(waiters') /\ 1..Len(waiters) \subseteq 1..Len(waiters')
  BY <1>1
<1> QED BY <1>1, <1>2 DEF TypeInv

LEMMA RepliesTyped == ASSUME TypeInv, NEW c \in Callers, op[c] \in Ops PROVE Reply(op[c],
                             mem) \in Replies
<1>1. op[c].kind \in {"get", "pop"} => op[c].key \in Keys
  BY PersistAssumption DEF Writes, Reads
<1> QED BY <1>1 DEF TypeInv, TypeOK, Reply, Replies, Maps

LEMMA InvokeTyped == ASSUME TypeInv, NEW c \in Callers, Invoke(c) PROVE TypeInv'
<1>1. PICK o \in Ops : op' = [op EXCEPT ![c] = o]
  BY DEF Invoke
<1>2. /\ UNCHANGED <<store, mem, init, lost, body>> /\ calls' = calls + 1 /\ calls < MaxCalls
  BY DEF Invoke
<1>3. /\ op' \in [Callers -> Ops \cup {NoOp}] /\ op'[c] = o /\ \A d \in Callers \ {c} : op'[d] = op[d]
  BY <1>1 DEF TypeInv
<1>4. calls' \in 0..MaxCalls
  BY <1>2, PersistAssumption DEF TypeInv, TypeOK
<1>5. PICK p \in {"awaitInit", "awaitLock", "returned"}, r \in {NoReply, Error} :
        /\ phase' = [phase EXCEPT ![c] = p] /\ reply' = [reply EXCEPT ![c] = r]
        /\ waiters' = IF p = "awaitLock" THEN Append(waiters, c) ELSE waiters
  BY DEF Invoke, Returns, TypeInv, TypeOK
<1>6. /\ phase' \in [Callers -> Phases] /\ reply' \in [Callers -> Replies]
      /\ phase'[c] = p /\ \A d \in Callers \ {c} : phase'[d] = phase[d]
  BY <1>5, MovesTyped DEF Phases, Replies
<1>7. /\ waiters' \in Seq(Callers)
      /\ p = "awaitLock" => \E i \in 1..Len(waiters') : waiters'[i] = c
      /\ \A d \in Callers : phase[d] = "awaitLock" => \E i \in 1..Len(waiters') : waiters'[i] = d
  <2>1. CASE p = "awaitLock"
    BY <1>5, <2>1, QueueGrows
  <2>2. CASE p # "awaitLock"
    BY <1>5, <2>2 DEF TypeInv, TypeOK
  <2> QED BY <2>1, <2>2
<1>8. TypeOK'
  BY <1>2, <1>3, <1>4, <1>6, <1>7, PersistAssumption DEF TypeInv, TypeOK, Replies
<1>9. \A d \in Callers : phase'[d] \in Awaiting \cup InLock => op'[d] \in Ops
  BY <1>3, <1>6 DEF TypeInv
<1> QED BY <1>3, <1>6, <1>7, <1>8, <1>9 DEF TypeInv

\* Steps that keep operations and queue, and let a caller return or go on posting.
LEMMA StepTyped ==
  ASSUME TypeInv, NEW c \in Callers, NEW p \in {"returned", "posting", "posted"}, NEW r \in Replies,
         phase' = [phase EXCEPT ![c] = p], reply' = [reply EXCEPT ![c] = r],
         op[c] \in Ops, UNCHANGED <<init, lost, op, calls>>,
         store' \in Maps, mem' \in Maps, body' \in Maps,
         waiters' = waiters \/ TakesLock(c)
  PROVE  TypeInv'
<1>1. /\ phase' \in [Callers -> Phases] /\ reply' \in [Callers -> Replies]
      /\ phase'[c] = p /\ \A d \in Callers \ {c} : phase'[d] = phase[d]
  BY MovesTyped DEF Phases, InLock
<1>2. /\ waiters' \in Seq(Callers)
      /\ \A d \in Callers \ {c} :
           phase[d] = "awaitLock" => \E i \in 1..Len(waiters') : waiters'[i] = d
  <2>1. CASE waiters' = waiters
    BY <2>1 DEF TypeInv, TypeOK
  <2>2. CASE TakesLock(c)
    BY <2>2, QueueMoves
  <2> QED BY <2>1, <2>2
<1>3. TypeOK'
  BY <1>1, <1>2 DEF TypeInv, TypeOK, Replies
<1> QED BY <1>1, <1>2, <1>3 DEF TypeInv

LEMMA ResumeTyped == ASSUME TypeInv, NEW c \in Callers, Resume(c) PROVE TypeInv'
<1>1. /\ phase[c] = "awaitInit" /\ op[c] \in Ops
      /\ UNCHANGED <<store, mem, init, lost, op, body, calls>>
  BY DEF Resume, TypeInv, Awaiting
<1>2. CASE phase' = [phase EXCEPT ![c] = "awaitLock"] /\ waiters' = Append(waiters, c) /\ UNCHANGED reply
  <2>1. /\ phase' \in [Callers -> Phases] /\ phase'[c] = "awaitLock"
        /\ \A d \in Callers \ {c} : phase'[d] = phase[d]
    BY <1>2 DEF TypeInv, TypeOK, Phases
  <2>2. /\ waiters' \in Seq(Callers)
        /\ \E i \in 1..Len(waiters') : waiters'[i] = c
        /\ \A d \in Callers : phase[d] = "awaitLock" => \E i \in 1..Len(waiters') : waiters'[i] = d
    BY <1>2, QueueGrows
  <2>3. TypeOK'
    BY <1>1, <1>2, <2>1, <2>2 DEF TypeInv, TypeOK
  <2> QED BY <1>1, <2>1, <2>2, <2>3 DEF TypeInv
<1>3. CASE Returns(c, Error) /\ UNCHANGED waiters
  <2>1. Error \in Replies /\ store' \in Maps /\ mem' \in Maps /\ body' \in Maps
    BY <1>1 DEF Replies, TypeInv, TypeOK
  <2> QED BY <1>1, <1>3, <2>1, StepTyped DEF Returns
<1> QED BY <1>2, <1>3 DEF Resume

LEMMA ReadTyped == ASSUME TypeInv, NEW c \in Callers, Read(c) PROVE TypeInv'
<1>1. /\ TakesLock(c) /\ Returns(c, Reply(op[c], mem))
      /\ UNCHANGED <<store, mem, init, lost, op, body, calls>>
  BY DEF Read
<1>2. op[c] \in Ops /\ store' \in Maps /\ mem' \in Maps /\ body' \in Maps
  BY <1>1, QueueMoves DEF TypeInv, TypeOK
<1>3. Reply(op[c], mem) \in Replies
  BY <1>2, RepliesTyped
<1> QED BY <1>1, <1>2, <1>3, StepTyped DEF Returns

LEMMA WritesTyped ==
  ASSUME TypeInv, NEW c \in Callers, op[c] \in Ops, Writing(c)
  PROVE  /\ op[c].key \in Keys
         /\ Accepts(op[c], mem[op[c].key])
              => [mem EXCEPT ![op[c].key] = Target(op[c], mem[op[c].key])] \in Maps
<1>1. op[c] \in Writes
  BY PersistAssumption DEF Writing, Reads
<1>2. op[c].key \in Keys
  BY <1>1 DEF Writes
<1>3. mem \in Maps /\ mem[op[c].key] \in Values \cup {NoValue}
  BY <1>2 DEF TypeInv, TypeOK, Maps
<1>4. Accepts(op[c], mem[op[c].key]) => Target(op[c], mem[op[c].key]) \in Values \cup {NoValue}
  BY <1>1, <1>3, TargetTyped
<1> QED BY <1>2, <1>3, <1>4 DEF Maps

LEMMA RefuseTyped == ASSUME TypeInv, NEW c \in Callers, Refuse(c) PROVE TypeInv'
<1>1. /\ TakesLock(c) /\ Writing(c) /\ Returns(c, Error)
      /\ mem' = IF Accepts(op[c], mem[op[c].key]) THEN Extended(c) ELSE mem
      /\ UNCHANGED <<store, init, lost, op, body, calls>>
  BY DEF Refuse
<1>2. op[c] \in Ops /\ Error \in Replies
  BY <1>1, QueueMoves DEF Replies
<1>3. store' \in Maps /\ body' \in Maps /\ mem \in Maps
  BY <1>1 DEF TypeInv, TypeOK
<1>4. mem' \in Maps
  BY <1>1, <1>2, <1>3, WritesTyped DEF Extended
<1> QED BY <1>1, <1>2, <1>3, <1>4, StepTyped DEF Returns

LEMMA WriteTyped == ASSUME TypeInv, NEW c \in Callers, Write(c) PROVE TypeInv'
<1>1. /\ TakesLock(c) /\ Writing(c) /\ Accepts(op[c], mem[op[c].key])
      /\ mem' = [mem EXCEPT ![op[c].key] = Target(op[c], mem[op[c].key])]
      /\ UNCHANGED <<store, init, lost, op, calls>>
  BY DEF Write, Refused
<1>2. op[c] \in Ops
  BY <1>1, QueueMoves
<1>3. store' \in Maps /\ body \in Maps /\ mem' \in Maps
  BY <1>1, <1>2, WritesTyped DEF TypeInv, TypeOK
<1>4. Reply(op[c], mem) \in Replies /\ Error \in Replies
  BY <1>2, RepliesTyped DEF Replies
<1>5. PICK p \in {"posting", "returned"}, r \in Replies :
        /\ phase' = [phase EXCEPT ![c] = p] /\ reply' = [reply EXCEPT ![c] = r]
        /\ body' = mem' \/ body' = body
  BY <1>4 DEF Write, Returns
<1> QED BY <1>1, <1>2, <1>3, <1>5, StepTyped

LEMMA PostTyped == ASSUME TypeInv, NEW c \in Callers, Land(c) \/ Finish(c) \/ PostRaises(c)
                   PROVE  TypeInv'
<1>1. phase[c] \in InLock /\ UNCHANGED <<mem, init, lost, waiters, op, calls>>
  BY DEF Land, Finish, PostRaises, InLock
<1>2. op[c] \in Ops /\ reply[c] \in Replies /\ Error \in Replies /\ EmptyMap \in Maps
  BY <1>1 DEF TypeInv, TypeOK, Replies, EmptyMap, Maps
<1>3. store' \in Maps /\ mem' \in Maps /\ body' \in Maps
  BY <1>1, <1>2 DEF Land, Finish, PostRaises, TypeInv, TypeOK
<1>4. PICK p \in {"posted", "returned"}, r \in {reply[c], Error} :
        phase' = [phase EXCEPT ![c] = p] /\ reply' = [reply EXCEPT ![c] = r]
  BY DEF Land, Finish, PostRaises, Returns, TypeInv, TypeOK
<1> QED BY <1>1, <1>2, <1>3, <1>4, StepTyped

LEMMA InitTyped == ASSUME TypeInv, Restore \/ InitFails \/ LoseClaim PROVE TypeInv'
<1>1. UNCHANGED <<store, waiters, phase, op, reply, body, calls>>
  BY DEF Restore, InitFails, LoseClaim
<1>2. init' \in {"running", "done", "failed"} /\ lost' \in BOOLEAN
  BY DEF Restore, InitFails, LoseClaim, TypeInv, TypeOK
<1>3. ASSUME NEW map \in Maps PROVE Seeded(map) \in Maps
  BY PersistAssumption DEF Seeded, Maps
<1>4. EmptyMap \in Maps
  BY DEF EmptyMap, Maps
<1>5. mem' \in Maps
  BY <1>3, <1>4 DEF Restore, InitFails, LoseClaim, TypeInv, TypeOK
<1> QED BY <1>1, <1>2, <1>5 DEF TypeInv, TypeOK

LEMMA CrashTyped == ASSUME TypeInv, Crash PROVE TypeInv'
<1>1. EmptyMap \in Maps
  BY DEF EmptyMap, Maps
<1>2. phase' \in [Callers -> Phases] /\ \A c \in Callers : phase'[c] = "idle"
  BY DEF Crash, Phases
<1>3. /\ op' \in [Callers -> Writes \cup Reads \cup {NoOp}] /\ op' \in [Callers -> Ops \cup {NoOp}]
      /\ reply' \in [Callers -> Maps \cup Values \cup {NoValue, Done, NoReply, Error}]
      /\ waiters' \in Seq(Callers)
  BY DEF Crash
<1>4. TypeOK'
  BY <1>1, <1>2, <1>3 DEF Crash, TypeInv, TypeOK
<1> QED BY <1>2, <1>3, <1>4 DEF TypeInv, Awaiting, InLock

LEMMA TypeInvNext == TypeInv /\ [Next]_vars => TypeInv'
<1>1. ASSUME TypeInv, UNCHANGED vars PROVE TypeInv'
  BY <1>1 DEF vars, TypeInv, TypeOK
<1>2. ASSUME TypeInv, Next PROVE TypeInv'
  BY <1>2, InvokeTyped, ResumeTyped, ReadTyped, RefuseTyped, WriteTyped, PostTyped, InitTyped,
     CrashTyped DEF Next, Step
<1> QED BY <1>1, <1>2

\* Every variable keeps its type, whatever fails: in particular no operation
\* leaves a value in the dict or the backend that is neither an int nor a list.
THEOREM TypeCorrect == Spec => []TypeOK
<1>1. TypeInv => TypeOK
  BY DEF TypeInv
<1> QED BY <1>1, TypeInvInit, TypeInvNext, PTL DEF Spec

-----------------------------------------------------------------------------
(* The lock, whatever fails.                                               *)

\* the queue holds those that wait for the lock, each once
QueueExact ==
  /\ \A i \in 1..Len(waiters) : phase[waiters[i]] = "awaitLock"
  /\ \A i, j \in 1..Len(waiters) : waiters[i] = waiters[j] => i = j

QueueInv == TypeInv /\ QueueExact /\ LockInv

LEMMA QueueInvInit == Init => QueueInv
<1>1. Init => QueueExact /\ LockInv
  BY DEF Init, QueueExact, LockInv, InLock
<1> QED BY <1>1, TypeInvInit DEF QueueInv

\* A caller that is not in the queue moves, and does not enter the lock.
LEMMA OutsiderMoves ==
  ASSUME QueueInv, NEW c \in Callers, NEW p \in Phases \ {"awaitLock"},
         phase[c] # "awaitLock", p \in InLock => phase[c] \in InLock,
         phase' = [phase EXCEPT ![c] = p], waiters' = waiters
  PROVE  QueueExact' /\ LockInv'
<1>1. waiters \in Seq(Callers) /\ phase \in [Callers -> Phases]
  BY DEF QueueInv, TypeInv, TypeOK
<1>2. \A i \in 1..Len(waiters) : waiters[i] \in Callers \ {c}
  BY <1>1 DEF QueueInv, QueueExact
<1>3. phase'[c] = p /\ \A d \in Callers \ {c} : phase'[d] = phase[d]
  BY <1>1
<1>4. QueueExact'
  BY <1>2, <1>3 DEF QueueInv, QueueExact
<1>5. LockInv'
  BY <1>3 DEF QueueInv, LockInv
<1> QED BY <1>4, <1>5

\* A caller that is not in the queue joins it.
LEMMA JoinKeeps ==
  ASSUME QueueInv, NEW c \in Callers, phase[c] # "awaitLock",
         phase' = [phase EXCEPT ![c] = "awaitLock"], waiters' = Append(waiters, c)
  PROVE  QueueExact' /\ LockInv'
<1>1. waiters \in Seq(Callers) /\ phase \in [Callers -> Phases] /\ Len(waiters) \in Nat
  BY DEF QueueInv, TypeInv, TypeOK
<1>2. /\ Len(waiters') = Len(waiters) + 1 /\ waiters'[Len(waiters) + 1] = c
      /\ \A i \in 1..Len(waiters) : waiters'[i] = waiters[i]
  BY <1>1
<1>3. phase'[c] = "awaitLock" /\ \A d \in Callers \ {c} : phase'[d] = phase[d]
  BY <1>1
<1>4. \A i \in 1..Len(waiters) : waiters[i] \in Callers \ {c} /\ phase[waiters[i]] = "awaitLock"
  BY <1>1 DEF QueueInv, QueueExact
<1>5. \A i \in 1..Len(waiters') : i \in 1..Len(waiters) \/ i = Len(waiters) + 1
  BY <1>1, <1>2
<1>6. \A i \in 1..Len(waiters') : phase'[waiters'[i]] = "awaitLock"
  BY <1>2, <1>3, <1>4, <1>5
<1>7. ASSUME NEW i \in 1..Len(waiters'), NEW j \in 1..Len(waiters'), waiters'[i] = waiters'[j]
      PROVE  i = j
  <2>1. CASE i \in 1..Len(waiters) /\ j \in 1..Len(waiters)
    BY <1>2, <1>7, <2>1 DEF QueueInv, QueueExact
  <2>2. CASE i = Len(waiters) + 1 \/ j = Len(waiters) + 1
    BY <1>2, <1>4, <1>5, <1>7, <2>2
  <2> QED BY <1>5, <2>1, <2>2
<1>8. LockInv'
  BY <1>3 DEF QueueInv, LockInv, InLock
<1> QED BY <1>6, <1>7, <1>8 DEF QueueExact

\* The first in the queue takes the free lock, for a post or at once.
LEMMA TakeKeeps ==
  ASSUME QueueInv, NEW c \in Callers, TakesLock(c), NEW p \in {"returned", "posting"},
         phase' = [phase EXCEPT ![c] = p]
  PROVE  QueueExact' /\ LockInv'
<1>1. /\ waiters \in Seq(Callers) /\ phase \in [Callers -> Phases]
      /\ phase[c] = "awaitLock" /\ waiters' = Tail(waiters) /\ c = Head(waiters) /\ ~Locked
  BY DEF QueueInv, TypeInv, TypeOK, TakesLock
<1>2. waiters # <<>>
  BY <1>1 DEF QueueInv, TypeInv
<1>3. /\ Len(Tail(waiters)) = Len(waiters) - 1 /\ Len(waiters) \in Nat \ {0} /\ waiters[1] = c
      /\ \A i \in 1..(Len(waiters) - 1) : Tail(waiters)[i] = waiters[i + 1]
  BY <1>1, <1>2
<1>4. phase'[c] = p /\ \A d \in Callers \ {c} : phase'[d] = phase[d]
  BY <1>1
<1>5. ASSUME NEW i \in 1..Len(waiters')
      PROVE  /\ i \in 1..(Len(waiters) - 1) /\ i + 1 \in 1..Len(waiters)
             /\ waiters'[i] = waiters[i + 1]
  BY <1>1, <1>3
<1>6. \A i \in 1..Len(waiters') : waiters'[i] \in Callers \ {c} /\ phase[waiters'[i]] = "awaitLock"
  <2> SUFFICES ASSUME NEW i \in 1..Len(waiters')
               PROVE  waiters'[i] \in Callers \ {c} /\ phase[waiters'[i]] = "awaitLock"
    OBVIOUS
  <2>1. waiters[i + 1] \in Callers /\ phase[waiters[i + 1]] = "awaitLock"
    BY <1>1, <1>5 DEF QueueInv, QueueExact
  <2>2. i \in Nat /\ i + 1 # 1 /\ 1 \in 1..Len(waiters)
    BY <1>3, <1>5
  <2>3. waiters[i + 1] # waiters[1]
    BY <1>5, <2>2 DEF QueueInv, QueueExact
  <2> QED BY <1>3, <1>5, <2>1, <2>3
<1>7. \A i \in 1..Len(waiters') : phase'[waiters'[i]] = "awaitLock"
  BY <1>4, <1>6
<1>8. ASSUME NEW i \in 1..Len(waiters'), NEW j \in 1..Len(waiters'), waiters'[i] = waiters'[j]
      PROVE  i = j
  <2>1. i + 1 = j + 1
    BY <1>5, <1>8 DEF QueueInv, QueueExact
  <2> QED BY <1>1, <1>3, <2>1
<1>9. LockInv'
  BY <1>1, <1>4 DEF LockInv, Locked
<1> QED BY <1>7, <1>8, <1>9 DEF QueueExact

LEMMA QueueInvNext == QueueInv /\ [Next]_vars => QueueInv'
<1> SUFFICES ASSUME QueueInv, [Next]_vars PROVE QueueExact' /\ LockInv'
  BY TypeInvNext DEF QueueInv
<1>1. CASE UNCHANGED <<phase, waiters>>
  BY <1>1 DEF QueueInv, QueueExact, LockInv
<1>2. ASSUME NEW c \in Callers, Invoke(c) PROVE QueueExact' /\ LockInv'
  <2>1. phase[c] # "awaitLock" /\ phase[c] \notin InLock
    BY <1>2 DEF Invoke, InLock
  <2>2. \/ phase' = [phase EXCEPT ![c] = "awaitInit"] /\ waiters' = waiters
        \/ phase' = [phase EXCEPT ![c] = "awaitLock"] /\ waiters' = Append(waiters, c)
        \/ phase' = [phase EXCEPT ![c] = "returned"] /\ waiters' = waiters
    BY <1>2 DEF Invoke, Returns, QueueInv, TypeInv, TypeOK
  <2> QED BY <2>1, <2>2, OutsiderMoves, JoinKeeps DEF Phases, InLock
<1>3. ASSUME NEW c \in Callers, Resume(c) PROVE QueueExact' /\ LockInv'
  <2>1. /\ phase[c] = "awaitInit"
        /\ \/ phase' = [phase EXCEPT ![c] = "awaitLock"] /\ waiters' = Append(waiters, c)
           \/ phase' = [phase EXCEPT ![c] = "returned"] /\ waiters' = waiters
    BY <1>3 DEF Resume, Returns
  <2> QED BY <2>1, OutsiderMoves, JoinKeeps DEF Phases, InLock
<1>4. ASSUME NEW c \in Callers, Read(c) \/ Refuse(c) \/ Write(c) PROVE QueueExact' /\ LockInv'
  <2>1. /\ TakesLock(c)
        /\ \/ phase' = [phase EXCEPT ![c] = "returned"]
           \/ phase' = [phase EXCEPT ![c] = "posting"]
    BY <1>4 DEF Read, Refuse, Write, Returns
  <2> QED BY <2>1, TakeKeeps
<1>5. ASSUME NEW c \in Callers, Land(c) \/ Finish(c) \/ PostRaises(c) PROVE QueueExact' /\ LockInv'
  <2>1. /\ phase[c] \in InLock /\ waiters' = waiters
        /\ \/ phase' = [phase EXCEPT ![c] = "posted"]
           \/ phase' = [phase EXCEPT ![c] = "returned"]
    BY <1>5 DEF Land, Finish, PostRaises, Returns, InLock
  <2> QED BY <2>1, OutsiderMoves DEF Phases, InLock
<1>6. CASE Restore \/ InitFails \/ LoseClaim
  BY <1>1, <1>6 DEF Restore, InitFails, LoseClaim
<1>7. CASE Crash
  <2>1. waiters' = <<>> /\ \A c \in Callers : phase'[c] = "idle"
    BY <1>7 DEF Crash
  <2> QED BY <2>1 DEF QueueExact, LockInv, InLock
<1> QED BY <1>1, <1>2, <1>3, <1>4, <1>5, <1>6, <1>7 DEF Next, Step, vars

\* the first in the queue goes on: with what Read needs, or what Refuse or Write
NextInLine(c) ==
  /\ phase[c] = "awaitLock" /\ c = Head(waiters)
  /\ \/ ~Writing(c) \/ (op[c].kind = "pop" /\ mem[op[c].key] = NoValue)
     \/ Writing(c) /\ NeedsPost(op[c], mem[op[c].key])
LockMoves == (\E c \in Callers : phase[c] = "awaitLock") => Locked \/ \E c \in Callers : NextInLine(c)

\* One operation at a time is under the lock, and while it is free somebody who
\* waits for it may go: the head of the queue is never a caller that has gone.
\* So it is whatever the backend answers, whatever raises and whenever the claim
\* is lost, since each path out of rwlock releases it (aPersistDict._set, and
\* the operations of OfInts and OfLists).
THEOREM LockMovesHolds == Spec => [](LockInv /\ LockMoves)
<1>1. QueueInv => LockInv /\ LockMoves
  <2> SUFFICES ASSUME QueueInv, NEW c \in Callers, phase[c] = "awaitLock"
               PROVE  \E d \in Callers : NextInLine(d)
    BY DEF QueueInv, LockMoves
  <2>1. waiters \in Seq(Callers) /\ waiters # <<>>
    BY DEF QueueInv, TypeInv, TypeOK
  <2>2. Head(waiters) \in Callers /\ Head(waiters) = waiters[1] /\ 1 \in 1..Len(waiters)
    BY <2>1
  <2>3. phase[Head(waiters)] = "awaitLock"
    BY <2>2 DEF QueueInv, QueueExact
  <2>4. NextInLine(Head(waiters))
    BY <2>3 DEF NextInLine, NeedsPost, Writing
  <2> QED BY <2>2, <2>4
<1> QED BY <1>1, QueueInvInit, QueueInvNext, PTL DEF Spec

-----------------------------------------------------------------------------
(* What a post carries, whatever fails.                                    *)

\* nobody is near the lock before the restore, and a post is of the memory
BodyInv ==
  \A c \in Callers : /\ phase[c] \in {"awaitLock"} \cup InLock => init = "done"
                     /\ phase[c] = "posting" => body = mem

LEMMA BodyInvNext == QueueInv /\ BodyInv /\ [Next]_vars => BodyInv'
<1> SUFFICES ASSUME QueueInv, BodyInv, [Next]_vars PROVE BodyInv'
  OBVIOUS
<1>1. phase \in [Callers -> Phases]
  BY DEF QueueInv, TypeInv, TypeOK
<1>2. CASE UNCHANGED vars
  BY <1>2 DEF vars, BodyInv
<1>3. ASSUME NEW c \in Callers, Invoke(c) \/ Resume(c) PROVE BodyInv'
  <2>1. /\ UNCHANGED <<mem, init, body>>
        /\ \E p \in {"awaitInit", "awaitLock", "returned"} :
             phase' = [phase EXCEPT ![c] = p] /\ (p = "awaitLock" => init = "done")
    BY <1>3 DEF Invoke, Resume, Returns, QueueInv, TypeInv, TypeOK
  <2> QED BY <1>1, <2>1 DEF BodyInv, InLock
<1>4. ASSUME NEW c \in Callers, Read(c) \/ Refuse(c) \/ Write(c) PROVE BodyInv'
  <2>1. UNCHANGED init /\ phase[c] = "awaitLock" /\ \A d \in Callers : phase[d] \notin InLock
    BY <1>4, FreeLock DEF Read, Refuse, Write
  <2>2. \/ phase' = [phase EXCEPT ![c] = "returned"]
        \/ phase' = [phase EXCEPT ![c] = "posting"] /\ body' = mem'
    BY <1>4 DEF Read, Refuse, Write, Returns
  <2> QED BY <1>1, <2>1, <2>2 DEF BodyInv, InLock
<1>5. ASSUME NEW c \in Callers, Land(c) \/ Finish(c) \/ PostRaises(c) PROVE BodyInv'
  <2>1. /\ UNCHANGED init /\ phase[c] \in InLock
        /\ \/ phase' = [phase EXCEPT ![c] = "posted"]
           \/ phase' = [phase EXCEPT ![c] = "returned"]
    BY <1>5 DEF Land, Finish, PostRaises, Returns, InLock
  <2>2. \A d \in Callers \ {c} : phase[d] \notin InLock
    BY <2>1 DEF QueueInv, LockInv
  <2> QED BY <1>1, <2>1, <2>2 DEF BodyInv, InLock
<1>6. CASE Restore \/ InitFails
  <2>1. UNCHANGED phase /\ init # "done"
    BY <1>6 DEF Restore, InitFails
  <2> QED BY <2>1 DEF BodyInv, InLock
<1>7. CASE LoseClaim
  BY <1>7 DEF LoseClaim, BodyInv
<1>8. CASE Crash
  BY <1>8 DEF Crash, BodyInv, InLock
<1> QED BY <1>2, <1>3, <1>4, <1>5, <1>6, <1>7, <1>8 DEF Next, Step

\* Whatever the backend gets is the memory at the moment it gets it: a post never
\* overwrites the dict with an older one, and the first that succeeds after some
\* were rejected or raised brings the backend up to date.  (A post that raises
\* is performed before it does, or never.)
PostsAreWhole == [][store' # store => store' = mem /\ mem' = mem]_vars

\* _set serialises the dict under rwlock and holds the lock until the answer.
THEOREM PostsAreWholeHolds == Spec => PostsAreWhole
<1>1. Init => BodyInv
  BY DEF Init, BodyInv, InLock
<1>2. BodyInv /\ [Next]_vars => [store' # store => store' = mem /\ mem' = mem]_vars
  <2> SUFFICES ASSUME BodyInv, Next, store' # store PROVE store' = mem /\ mem' = mem
    BY DEF vars
  <2>1. PICK c \in Callers : Land(c)
    BY DEF Next, Step, Invoke, Resume, Read, Refuse, Write, Finish, PostRaises, Restore, InitFails,
       LoseClaim, Crash
  <2> QED BY <2>1 DEF Land, BodyInv
<1> QED BY <1>1, <1>2, QueueInvInit, QueueInvNext, BodyInvNext, PTL DEF Spec, PostsAreWhole
=============================================================================
