------------------------------ MODULE SignalRpc ------------------------------
(***************************************************************************)
(* The bot's conversation with signal-cli (class Signal and                *)
(* Bot.handle_messages of src/forest/core.py): tasks put JSON-RPC commands *)
(* into the outbox, a writer task feeds them to the child process, a       *)
(* reader task puts its output into the inbox, handle_messages sets the    *)
(* futures the tasks wait for.  start_process longRuns the child again     *)
(* when it exits; SIGINT shuts the bot down.                               *)
(*                                                                         *)
(* A request stands for the task that makes it, its command, and its id.   *)
(* The reader passes a line on, drops it, or ends although the child lives *)
(* on: what is written to it then is lost.                                 *)
(* Left out: the retry branch of handle_messages, which tests the error    *)
(* attribute that StdioMessage never sets; rate limiting, which is a delay *)
(* between taking a command and writing it; the /restart handler.          *)
(***************************************************************************)
EXTENDS Integers, Sequences, SequencesExt

CONSTANTS
  Requests,
  Kind,         \* what each request is, see Kinds
  NoRequest,
  MaxBackoff,   \* max_backoff of start_process, in half seconds
  MaxLongRuns   \* bound: children that run for over a minute

\* "ask": signal_rpc_request; "respond": a reply to an incoming message, whose
\* task waits for the receipt; "send": send_message, without waiting;
\* "note": set_profile, send_reaction, send_typing, which register no future
Kinds == {"ask", "respond", "send", "note"}

ASSUME RpcAssumption ==
  /\ Kind \in [Requests -> Kinds]
  /\ NoRequest \notin Requests
  /\ MaxBackoff \in Nat
  /\ MaxLongRuns \in Nat

VARIABLES
  phase,      \* how far each request is
  future,     \* pending_requests: "none", "unset" or "set"
  outbox,
  inbox,
  writer,     \* the write_commands task: "none", "get", "hold" or "dead"
  held,       \* the command it has taken and not written
  proc,       \* the child in self.proc: "none", "up" or "exited"
  cli,        \* commands the child has received and not answered
  stdout,     \* lines of the latest child that its reader has not read
  leftover,   \* lines of the children before it
  reader,     \* read_signal_stdout of the latest child: "reading" or "ended"
  loop,       \* start_process: "top", "spawning", "waiting", "backoff", "over"
  restarts,   \* restart_count
  longRuns,   \* children that ran for over a minute so far
  sigints,
  down,       \* async_shutdown: "no", "called", "closing", "stuck", "exited"
  issued,     \* history: commands in the order of their puts
  got,        \* history: commands in the order the children received them
  missed,     \* history: commands with a future whose response nobody will see: a
              \* child took them to its grave, or a reader lost what it answered
  escaped     \* history: a spawn was under way when shutdown killed the child

readVars == <<stdout, leftover, reader>>
rpcVars == <<phase, future, outbox, inbox, writer, held, cli, issued, got, missed, readVars>>
procVars == <<proc, loop, restarts, longRuns, sigints, down, escaped>>
vars == <<rpcVars, procVars>>

Phases == {"new", "arriving", "spawned", "waiting", "sent", "returned"}
Lines == [type : {"message", "response"}, id : Requests]

TypeOK ==
  /\ phase \in [Requests -> Phases]
  /\ future \in [Requests -> {"none", "unset", "set"}]
  /\ outbox \in Seq(Requests)
  /\ inbox \in Seq(Lines)
  /\ writer \in {"none", "get", "hold", "dead"}
  /\ held \in Requests \cup {NoRequest}
  /\ writer = "hold" <=> held # NoRequest
  /\ proc \in {"none", "up", "exited"}
  /\ cli \subseteq Requests
  /\ stdout \subseteq Lines /\ leftover \subseteq Lines
  /\ reader \in {"reading", "ended"}
  /\ loop \in {"top", "spawning", "waiting", "backoff", "over"}
  /\ restarts \in Nat
  /\ longRuns \in 0..MaxLongRuns
  /\ sigints \in 0..3
  /\ down \in {"no", "called", "closing", "stuck", "exited"}
  /\ issued \in Seq(Requests) /\ got \in Seq(Requests)
  /\ missed \subseteq Requests
  /\ escaped \in BOOLEAN

Init ==
  /\ phase = [r \in Requests |-> "new"]
  /\ future = [r \in Requests |-> "none"]
  /\ outbox = <<>> /\ inbox = <<>>
  /\ writer = "none" /\ held = NoRequest
  /\ proc = "none" /\ cli = {}
  /\ stdout = {} /\ leftover = {} /\ reader = "reading"
  /\ loop = "top" /\ restarts = 0 /\ longRuns = 0
  /\ sigints = 0 /\ down = "no"
  /\ issued = <<>> /\ got = <<>> /\ missed = {} /\ escaped = FALSE

Alive == down # "exited"

\* a task runs; the child, its supervisor and shutdown do not move
TaskStep == Alive /\ UNCHANGED procVars

Awaited(commands) == {r \in commands : future[r] # "none"}

-----------------------------------------------------------------------------
(* The tasks that make requests.                                           *)

\* the command goes into the outbox; registered commands get a future
Put(r, p) ==
  /\ TaskStep
  /\ phase' = [phase EXCEPT ![r] = p]
  /\ future' = IF Kind[r] = "note" THEN future ELSE [future EXCEPT ![r] = "unset"]
  /\ outbox' = Append(outbox, r)
  /\ issued' = Append(issued, r)
  /\ UNCHANGED <<inbox, writer, held, cli, readVars, got, missed>>

Ask(r) == phase[r] = "new" /\ Kind[r] = "ask" /\ Put(r, "waiting")

Send(r) == phase[r] = "new" /\ Kind[r] \in {"send", "note"} /\ Put(r, "sent")

\* respond_and_collect_metrics: the handler has an answer, which is sent and
\* waited for; or it has none, or none that can be sent
Respond(r) == phase[r] = "spawned" /\ Put(r, "waiting")

DoNotRespond(r) ==
  /\ TaskStep
  /\ phase[r] = "spawned"
  /\ phase' = [phase EXCEPT ![r] = "returned"]
  /\ UNCHANGED <<future, outbox, inbox, writer, held, cli, readVars, issued, got, missed>>

\* wait_for_response: the future is set, the caller goes on
Resume(r) ==
  /\ TaskStep
  /\ phase[r] = "waiting" /\ future[r] = "set"
  /\ phase' = [phase EXCEPT ![r] = "returned"]
  /\ future' = [future EXCEPT ![r] = "none"]
  /\ UNCHANGED <<outbox, inbox, writer, held, cli, readVars, issued, got, missed>>

-----------------------------------------------------------------------------
(* The writer, the child and the reader.                                   *)

\* outbox.get; what follows may sleep before the command is written
Take ==
  /\ TaskStep
  /\ writer = "get" /\ outbox # <<>>
  /\ writer' = "hold" /\ held' = Head(outbox) /\ outbox' = Tail(outbox)
  /\ UNCHANGED <<phase, future, inbox, cli, readVars, issued, got, missed>>

\* bug: a writer whose write fails keeps its command
ClingingWriteCommand ==
  /\ TaskStep
  /\ writer = "hold"
  /\ \/ /\ proc = "up"
        /\ writer' = "get" /\ held' = NoRequest
        /\ cli' = cli \cup {held} /\ got' = Append(got, held)
     \/ /\ proc = "exited"
        /\ writer' = "dead"
        /\ UNCHANGED <<held, cli, got>>
  /\ UNCHANGED <<phase, future, outbox, inbox, readVars, issued, missed>>

\* the command is written; on the pipe of an exited child it is lost, and
\* drain raises, which ends the writer, as soon as the pipe is known to be dead
WriteCommand ==
  /\ TaskStep
  /\ writer = "hold"
  /\ held' = NoRequest
  /\ \/ /\ proc = "up"
        /\ writer' = "get"
        /\ cli' = cli \cup {held} /\ got' = Append(got, held)
        /\ UNCHANGED missed
     \/ /\ proc = "exited"
        /\ writer' \in {"get", "dead"}
        /\ missed' = missed \cup Awaited({held})
        /\ UNCHANGED <<cli, got>>
  /\ UNCHANGED <<phase, future, outbox, inbox, readVars, issued>>

Responses(lines) == {line.id : line \in {l \in lines : l.type = "response"}}

Response(r) == [type |-> "response", id |-> r]

\* signal-cli answers its requests in any order; what it answers to a command
\* without a future comes to nothing, and what it writes when its reader has
\* ended is never read
Answer(r) ==
  /\ TaskStep
  /\ proc = "up" /\ r \in cli
  /\ cli' = cli \ {r}
  /\ stdout' = IF future[r] # "none" /\ reader = "reading"
               THEN stdout \cup {Response(r)} ELSE stdout
  /\ missed' = IF future[r] # "none" /\ reader = "ended" THEN missed \cup {r} ELSE missed
  /\ UNCHANGED <<phase, future, outbox, inbox, writer, held, issued, got, leftover, reader>>

\* somebody writes to the bot, and somebody reads it
Arrive(r) ==
  /\ TaskStep
  /\ proc = "up" /\ reader = "reading" /\ phase[r] = "new" /\ Kind[r] = "respond"
  /\ phase' = [phase EXCEPT ![r] = "arriving"]
  /\ stdout' = stdout \cup {[type |-> "message", id |-> r]}
  /\ UNCHANGED <<future, outbox, inbox, writer, held, cli, issued, got, missed, leftover, reader>>

\* A line reaches the inbox (decode_signal_line, enqueue_blob_messages).  The
\* readers of an exited child and of its successor read side by side.
ReadLine ==
  /\ TaskStep
  /\ \E line \in stdout \cup leftover :
       /\ stdout' = stdout \ {line} /\ leftover' = leftover \ {line}
       /\ inbox' = Append(inbox, line)
  /\ UNCHANGED <<phase, future, outbox, writer, held, cli, issued, got, missed, reader>>

\* A response is dropped: no JSON, a KeyError, a result that is neither object
\* nor list.  (A dropped message is as good as one that never came.)
DropLine ==
  /\ TaskStep
  /\ \E r \in Responses(stdout \cup leftover) :
       /\ stdout' = stdout \ {Response(r)} /\ leftover' = leftover \ {Response(r)}
       /\ missed' = missed \cup {r}
  /\ UNCHANGED <<phase, future, outbox, inbox, writer, held, cli, issued, got, reader>>

\* read_signal_stdout ends while the child lives: an empty line, a line longer
\* than the stream's limit, an exception other than KeyError.  (The reader of an
\* earlier child that ends drops the lines it has left.)
ReaderEnds ==
  /\ TaskStep
  /\ proc = "up" /\ reader = "reading"
  /\ reader' = "ended"
  /\ stdout' = {} /\ missed' = missed \cup Responses(stdout)
  /\ UNCHANGED <<phase, future, outbox, inbox, writer, held, cli, issued, got, leftover>>

\* handle_messages: a pending id sets its future, all else is a message to
\* respond to (the response to a command without a future comes to nothing)
Handle ==
  /\ TaskStep
  /\ inbox # <<>>
  /\ inbox' = Tail(inbox)
  /\ LET line == Head(inbox) IN
     IF line.type = "response"
       THEN /\ future' = IF future[line.id] = "none" THEN future
                         ELSE [future EXCEPT ![line.id] = "set"]
            /\ UNCHANGED phase
       ELSE /\ phase' = [phase EXCEPT ![line.id] = "spawned"]
            /\ UNCHANGED future
  /\ UNCHANGED <<outbox, writer, held, cli, readVars, issued, got, missed>>

-----------------------------------------------------------------------------
(* start_process.                                                          *)

\* bug: the loop does not look at sigints
HeedlessSpawn ==
  /\ Alive
  /\ loop = "top"
  /\ loop' = "spawning"
  /\ UNCHANGED <<rpcVars, proc, restarts, longRuns, sigints, down, escaped>>

\* the test of the loop, and the call of create_subprocess_exec
Spawn ==
  /\ Alive
  /\ loop = "top" /\ sigints = 0
  /\ loop' = "spawning"
  /\ UNCHANGED <<rpcVars, proc, restarts, longRuns, sigints, down, escaped>>

LoopOver ==
  /\ Alive
  /\ loop = "top" /\ sigints > 0
  /\ loop' = "over"
  /\ UNCHANGED <<rpcVars, proc, restarts, longRuns, sigints, down, escaped>>

\* each child has a reader of its own; the previous one reads what is left
NewReader ==
  /\ reader' = "reading"
  /\ stdout' = {} /\ leftover' = leftover \cup stdout

\* bug: the command of the previous writer goes back to the end of the queue
RequeueingSpawned ==
  /\ Alive
  /\ loop = "spawning"
  /\ loop' = "waiting" /\ proc' = "up" /\ NewReader
  /\ writer' = "get" /\ held' = NoRequest
  /\ outbox' = IF held = NoRequest THEN outbox ELSE Append(outbox, held)
  /\ UNCHANGED missed
  /\ UNCHANGED <<phase, future, inbox, cli, issued, got,
                 restarts, longRuns, sigints, down, escaped>>

\* bug: every child starts with an empty outbox
ForgetfulSpawned ==
  /\ Alive
  /\ loop = "spawning"
  /\ loop' = "waiting" /\ proc' = "up" /\ NewReader
  /\ writer' = "get" /\ held' = NoRequest
  /\ outbox' = <<>>
  /\ missed' = missed \cup Awaited({held} \ {NoRequest})
  /\ UNCHANGED <<phase, future, inbox, cli, issued, got,
                 restarts, longRuns, sigints, down, escaped>>

\* bug: a writer is started for the first child only
ThriftySpawned ==
  /\ Alive
  /\ loop = "spawning"
  /\ loop' = "waiting" /\ proc' = "up" /\ NewReader
  /\ writer' = IF writer = "none" THEN "get" ELSE writer
  /\ UNCHANGED <<outbox, held, missed>>
  /\ UNCHANGED <<phase, future, inbox, cli, issued, got,
                 restarts, longRuns, sigints, down, escaped>>

\* the child runs: the previous writer is cancelled, with the command it holds
Spawned ==
  /\ Alive
  /\ loop = "spawning"
  /\ loop' = "waiting" /\ proc' = "up" /\ NewReader
  /\ writer' = "get" /\ held' = NoRequest
  /\ missed' = missed \cup Awaited({held} \ {NoRequest})
  /\ UNCHANGED <<phase, future, outbox, inbox, cli, issued, got,
                 restarts, longRuns, sigints, down, escaped>>

\* the child exits; what it has not answered will never be answered
Exits ==
  /\ proc' = "exited"
  /\ missed' = missed \cup Awaited(cli)
  /\ cli' = {}
  /\ UNCHANGED <<phase, future, outbox, inbox, writer, held, readVars, issued, got>>

ProcExit ==
  /\ Alive
  /\ proc = "up" /\ Exits
  /\ UNCHANGED <<loop, restarts, longRuns, sigints, down, escaped>>

\* wait returns: count the exit, from zero if the child ran for over a minute;
\* give up once the backoff, 2^count - 1 half seconds, exceeds max_backoff
Reap ==
  /\ Alive
  /\ loop = "waiting" /\ proc = "exited"
  /\ \/ restarts' = restarts + 1 /\ UNCHANGED longRuns
     \/ longRuns < MaxLongRuns /\ longRuns' = longRuns + 1 /\ restarts' = 1
  /\ loop' = IF 2 ^ restarts' - 1 > MaxBackoff THEN "over" ELSE "backoff"
  /\ UNCHANGED <<rpcVars, proc, sigints, down, escaped>>

BackoffOver ==
  /\ Alive
  /\ loop = "backoff" /\ loop' = "top"
  /\ UNCHANGED <<rpcVars, proc, restarts, longRuns, sigints, down, escaped>>

-----------------------------------------------------------------------------
(* Shutdown.                                                               *)

\* sync_signal_handler: schedule async_shutdown; the third signal exits at once
Sigint ==
  /\ Alive
  /\ sigints < 3
  /\ sigints' = sigints + 1
  /\ down' = IF sigints' = 3 THEN "exited" ELSE "called"
  /\ UNCHANGED <<rpcVars, proc, loop, restarts, longRuns, escaped>>

\* async_shutdown kills the child in self.proc; not one that is being spawned
Kill ==
  /\ Alive
  /\ down = "called"
  /\ down' = "closing"
  /\ IF proc = "up" THEN Exits ELSE UNCHANGED <<rpcVars, proc>>
  /\ escaped' = (escaped \/ loop = "spawning")
  /\ UNCHANGED <<loop, restarts, longRuns, sigints>>

\* pool and backup are closed, and the bot exits; or closing them raises, and
\* the coroutine ends there
Close ==
  /\ Alive
  /\ down = "closing"
  /\ down' \in {"exited", "stuck"}
  /\ UNCHANGED <<rpcVars, proc, loop, restarts, longRuns, sigints, escaped>>

-----------------------------------------------------------------------------
Work(r) == Ask(r) \/ Send(r) \/ Arrive(r)
Serve(r) == Respond(r) \/ DoNotRespond(r) \/ Resume(r) \/ Answer(r)
Pump == Take \/ WriteCommand \/ ReadLine \/ DropLine \/ ReaderEnds \/ Handle
Supervise == Spawn \/ LoopOver \/ Spawned \/ Reap \/ BackoffOver
Shutdown == Kill \/ Close

Next ==
  \/ \E r \in Requests : Work(r) \/ Serve(r)
  \/ Pump \/ Supervise \/ ProcExit \/ Sigint \/ Shutdown

Spec == Init /\ [][Next]_vars

\* the event loop runs every task that is ready, a running signal-cli answers
\* what it is asked; nobody has to ask, write, press ^C or crash
FairSpec ==
  /\ Spec
  /\ \A r \in Requests : WF_vars(Respond(r) \/ DoNotRespond(r))
                          /\ WF_vars(Resume(r)) /\ WF_vars(Answer(r))
  /\ WF_vars(Take \/ WriteCommand) /\ WF_vars(ReadLine \/ DropLine) /\ WF_vars(Handle)
  /\ WF_vars(Supervise)

-----------------------------------------------------------------------------
(* Properties.                                                             *)

\* The children receive commands in the order in which the tasks put them, and
\* none twice, across any number of exits, cancelled writers and restarts
\* (Signal.outbox and write_commands: one writer, cancelled before the next).
InOrder ==
  \A i, j \in DOMAIN got : i < j =>
    \E m, n \in DOMAIN issued : m < n /\ issued[m] = got[i] /\ issued[n] = got[j]

\* A future that handle_messages has not set belongs to a command that is
\* still on its way, to or from a child, unless a child took it to its grave or
\* a reader its response: no restart, cancellation or shutdown forgets any other.
PendingIsOnItsWay ==
  \A r \in Requests : future[r] = "unset" =>
    r \in ToSet(outbox) \cup {held} \cup cli \cup missed
            \cup Responses(stdout \cup leftover) \cup Responses(ToSet(inbox))

\* async_shutdown leaves no signal-cli behind, whenever the child exits, is in
\* backoff or is launched, except a launch under way at the very moment of the
\* kill; it is asked for by the first and second SIGINT, the third exits at once.
KilledAtExit == down = "exited" /\ sigints < 3 => proc # "up" \/ escaped

\* wait_for_response returns, unless the command was lost with a child or its
\* response in a reader (missed), the bot gave up on signal-cli after too many
\* exits, or it is shutting down.
AnsweredUnlessMissed ==
  \A r \in Requests :
    phase[r] = "waiting" ~>
      (phase[r] = "returned" \/ r \in missed \/ loop = "over" \/ sigints > 0)

\* What the comment in start_process wants of the writer of an exited child:
\* that it takes no command from the outbox.
NoStolenCommands == [][held' \notin {held, NoRequest} => proc = "up"]_vars
=============================================================================
