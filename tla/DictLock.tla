------------------------------ MODULE DictLock ------------------------------
(***************************************************************************)
(* The event loop as the users of a persistent dict see it: one task runs  *)
(* at a time, until it has to wait.  An await of init_task or of a free    *)
(* rwlock does not suspend it; a taken lock or a post does.  The lock of   *)
(* asyncio is fair: a task that finds others waiting waits behind them.    *)
(* (asyncio.Lock, asyncio.Task; how aPersistDict uses them.)               *)
(***************************************************************************)
EXTENDS Sequences

CONSTANTS Tasks, NoTask

LockAssumption == NoTask \notin Tasks

VARIABLES
  running,    \* the task that runs, NoTask while all wait
  holder,     \* the task that holds rwlock and waits for its post
  queue       \* the tasks that wait for rwlock

lockVars == <<running, holder, queue>>

LockTypeOK ==
  /\ running \in Tasks \cup {NoTask}
  /\ holder \in Tasks \cup {NoTask}
  /\ queue \in Seq(Tasks)

LockInit == running = NoTask /\ holder = NoTask /\ queue = <<>>

\* t finds the lock taken, or others waiting for it
Queue(t) ==
  /\ running = t /\ (holder # NoTask \/ queue # <<>>)
  /\ running' = NoTask /\ queue' = Append(queue, t)
  /\ UNCHANGED holder

\* t runs on with the lock: it was free, or t was woken
Granted(t) ==
  /\ holder = NoTask
  /\ \/ running = t /\ queue = <<>> /\ queue' = queue
     \/ running = NoTask /\ queue # <<>> /\ t = Head(queue) /\ queue' = Tail(queue)

\* t reads and releases: nothing suspends it
Read(t) == Granted(t) /\ running' = t /\ holder' = NoTask

\* t writes: it keeps the lock while it waits for the post
Post(t) == Granted(t) /\ running' = NoTask /\ holder' = t

\* the post is answered; t releases the lock and runs on, or is through
Posted(t, on) ==
  /\ running = NoTask /\ holder = t
  /\ holder' = NoTask /\ running' = IF on THEN t ELSE NoTask
  /\ UNCHANGED queue
==============================================================================
