---------------------------- MODULE KeystateBackup ----------------------------
(***************************************************************************)
(* The backup of signal-cli's account file (SignalDatastore of             *)
(* src/forest/datastore.py, with RESTORE set): startup writes the backup   *)
(* over the file, a task then posts each change of the file every ten      *)
(* seconds, shutdown cancels the task.  The process may be killed between  *)
(* any two steps, and moved to a host with an older file or none.  A       *)
(* request of a process that is gone has taken effect by then or never     *)
(* does.  Left out: litestream, the encoding of accounts.json.             *)
(***************************************************************************)
EXTENDS Naturals

CONSTANT MaxVersion  \* bound: versions of the account file

VARIABLES
  file,           \* the version of the account file here; 0: there is none
  newest,         \* the newest version there has been
  backend,        \* the version in the backend; 0: none
  keystate,       \* self.keystate
  up,             \* the bot: "down", "fetching", "restoring" or "running"
  shutting_down,
  task,           \* the periodic task: where it is
  acked,          \* history: the newest version a post was answered for
  missed          \* history: the read of a startup was answered with an error

ksVars == <<file, newest, backend, keystate, up, shutting_down, task, acked, missed>>

Versions == 0..MaxVersion
TypeOK ==
  /\ file \in Versions /\ newest \in Versions /\ backend \in Versions
  /\ keystate \in Versions /\ acked \in Versions
  /\ up \in {"down", "fetching", "restoring", "running"}
  /\ task \in {"none", "later", "begin", "get", "post", "sleep", "last", "dead"}
  /\ shutting_down \in BOOLEAN /\ missed \in BOOLEAN

Init ==
  /\ file = 1 /\ newest = 1 /\ backend = 0 /\ keystate = 0
  /\ up = "down" /\ shutting_down = FALSE /\ task = "none"
  /\ acked = 0 /\ missed = FALSE

------------------------------------------------------------------------------
Start ==
  /\ up = "down" /\ up' = "fetching"
  /\ shutting_down' = FALSE /\ task' = "none" /\ keystate' = 0
  /\ UNCHANGED <<file, newest, backend, acked, missed>>

\* bug: the backup is written out only where there is no file
FetchMissing ==
  /\ up = "fetching" /\ up' = "restoring"
  /\ \/ keystate' = backend /\ UNCHANGED missed
     \/ keystate' = 0 /\ missed' = TRUE
  /\ file' = IF keystate' # 0 /\ file = 0 THEN keystate' ELSE file
  /\ UNCHANGED <<newest, backend, shutting_down, task, acked>>

\* async_startup: a read that is answered with an error reads as no backup
Fetch ==
  /\ up = "fetching" /\ up' = "restoring"
  /\ \/ keystate' = backend /\ UNCHANGED missed
     \/ keystate' = 0 /\ missed' = TRUE
  /\ file' = IF keystate' # 0 THEN keystate' ELSE file
  /\ UNCHANGED <<newest, backend, shutting_down, task, acked>>

\* restore_litestream, start_litestream, call_later; signal-cli starts
Ready ==
  /\ up = "restoring" /\ up' = "running" /\ task' = "later"
  /\ UNCHANGED <<file, newest, backend, keystate, shutting_down, acked, missed>>

\* start_periodic_backup
Begin ==
  /\ up = "running" /\ task = "later" /\ task' = "begin"
  /\ shutting_down' = FALSE
  /\ UNCHANGED <<file, newest, backend, keystate, up, acked, missed>>

\* bug: the file is read once
RereadOnce ==
  /\ up = "running" /\ task \in {"begin", "last"}
  /\ IF file = 0 THEN task' = "dead" /\ UNCHANGED keystate
     ELSE task' = "get" /\ keystate' = IF keystate = 0 THEN file ELSE keystate
  /\ UNCHANGED <<file, newest, backend, up, shutting_down, acked, missed>>

\* async_ensure_backup reads the file; without one it raises, and the task ends
Reread ==
  /\ up = "running" /\ task \in {"begin", "last"}
  /\ IF file = 0 THEN task' = "dead" /\ UNCHANGED keystate
     ELSE task' = "get" /\ keystate' = file
  /\ UNCHANGED <<file, newest, backend, up, shutting_down, acked, missed>>

\* an error status reads as no backup; a connection error ends the task
Compare ==
  /\ up = "running" /\ task = "get"
  /\ \/ task' = "dead"
     \/ \E got \in {backend, 0} : task' = IF got # keystate THEN "post" ELSE "sleep"
  /\ UNCHANGED <<file, newest, backend, keystate, up, shutting_down, acked, missed>>

\* the answer to a post is not looked at; it may be lost
Post ==
  /\ up = "running" /\ task = "post"
  /\ \/ backend' = keystate /\ acked' = keystate /\ task' = "sleep" /\ UNCHANGED missed
     \/ backend' = keystate /\ task' = "dead" /\ UNCHANGED <<acked, missed>>
     \/ task' \in {"sleep", "dead"} /\ UNCHANGED <<backend, acked, missed>>
  /\ UNCHANGED <<file, newest, keystate, up, shutting_down>>

Tick ==
  /\ up = "running" /\ task = "sleep"
  /\ task' = IF shutting_down THEN "last" ELSE "begin"
  /\ UNCHANGED <<file, newest, backend, keystate, up, shutting_down, acked, missed>>

\* async_shutdown: stop_periodic_backup, then exit; what the task had sent may
\* have been stored.  A kill does the same without being asked.
Gone ==
  /\ up' = "down" /\ task' = "none"
  /\ \/ UNCHANGED backend
     \/ task = "post" /\ backend' = keystate
Shutdown ==
  /\ up = "running" /\ shutting_down' = TRUE /\ Gone
  /\ UNCHANGED <<file, newest, keystate, acked, missed>>
Kill ==
  /\ up # "down" /\ Gone
  /\ UNCHANGED <<file, newest, keystate, shutting_down, acked, missed>>

\* signal-cli writes the account file; the bot is deployed to another host
Change ==
  /\ up = "running" /\ file # 0 /\ newest < MaxVersion
  /\ newest' = newest + 1 /\ file' = newest + 1
  /\ UNCHANGED <<backend, keystate, up, shutting_down, task, acked, missed>>
Move ==
  /\ up = "down" /\ \E old \in 0..file : file' = old
  /\ UNCHANGED <<newest, backend, keystate, up, shutting_down, task, acked, missed>>

Working == Begin \/ Reread \/ Compare \/ Post \/ Tick
Next == Start \/ Fetch \/ Ready \/ Working \/ Shutdown \/ Kill \/ Change \/ Move
Fairness == WF_ksVars(Working)
Spec == Init /\ [][Next]_ksVars /\ Fairness

------------------------------------------------------------------------------
\* What the backend has acknowledged is never lost, however the process is
\* killed and moved, short of a startup whose read failed: signal-cli runs on
\* it or on a newer version.
AckedIsKept ==
  ~missed => /\ backend >= acked
             /\ up = "running" /\ file # 0 => file >= acked

\* While the bot runs, every change of the file is posted, unless the task has
\* died of an exception, which nobody sees, or the bot stops first: the backup
\* "one last time" is never made, the task is cancelled in its sleep.
BackedUp ==
  up = "running" /\ backend # file
    ~> backend = file \/ task \in {"post", "dead"} \/ up = "down"
==============================================================================
