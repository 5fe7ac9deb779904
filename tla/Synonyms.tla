------------------------------ MODULE Synonyms ------------------------------
(***************************************************************************)
(* Synonyms of commands (class SynonymBot of src/forest/synonymbot.py): an *)
(* operation looks at dict_ when its message arrives, whether or not       *)
(* init_task has restored it, then waits for init_task, and writes when it *)
(* has the lock.  The list of a command is a set of words, and remembers   *)
(* whether it is a list or the tuple do_build_synonyms stored, which       *)
(* extend and remove_from reject.  Left out: the order of keys and words,  *)
(* do_list_synonyms, which reads.                                          *)
(***************************************************************************)
EXTENDS Naturals, FiniteSets, DictLock

CONSTANTS
  Cmds, Visible,  \* commands, and those shown to users
  Words,
  CodeSyns    \* the synonyms set by the decorator in the code, {} for none

SynonymsAssumption ==
  /\ Visible \subseteq Cmds /\ NoTask \notin Tasks
  /\ CodeSyns \in [Cmds -> SUBSET Words]

VARIABLES
  syns,       \* what the dict holds for each command, or will once it is restored
  restored,   \* init_task is done
  awaiting,   \* the tasks that wait for it
  doing,      \* each task's operation and its stage
  todo,       \* commands do_build_synonyms and do_clear_synonyms still have to write
  linked,     \* history: links that were acknowledged and not undone
  blind       \* history: commands and words of links checked blindly: while another
              \* was under way, or before the dict was restored

synVars == <<syns, restored, awaiting, doing, todo, linked, blind>>
vars == <<lockVars, synVars>>

Values == [kind : {"none", "list", "tuple"}, words : SUBSET Words]
None == [kind |-> "none", words |-> {}]
ListOf(s) == [kind |-> "list", words |-> s]

Ops == [op : {"link", "unlink", "unlinkWord"}, cmd : Cmds, word : Words, admin : BOOLEAN]
         \cup [op : {"build", "clear"}, cmd : {""}, word : {""}, admin : {TRUE}]
Over == [stage |-> "over"]
Stages == {"idle", "first", "extend", "removeFrom", "setCode", "keys", "remove", "over"}
At(t, stage) == doing[t].stage = stage

TypeOK ==
  /\ LockTypeOK
  /\ syns \in [Cmds -> Values]
  /\ \A t \in Tasks : doing[t].stage \in Stages /\ todo[t] \subseteq Cmds
  /\ linked \subseteq Cmds \X Words
  /\ restored \in BOOLEAN /\ awaiting \subseteq Tasks

Init ==
  /\ LockInit
  /\ syns = [c \in Cmds |-> None]
  /\ doing = [t \in Tasks |-> [stage |-> "idle"]]
  /\ todo = [t \in Tasks |-> {}]
  /\ linked = {} /\ blind = {}
  /\ restored = FALSE /\ awaiting = {}

------------------------------------------------------------------------------
\* dict_ is empty until init_task has restored it
Dict == IF restored THEN syns ELSE [c \in Cmds |-> None]

\* get_valid_syns: what this user may see, and the commands a word stands for
ValidCmds(o) == IF o.admin THEN Cmds ELSE Visible
Having(o, word) == {c \in ValidCmds(o) : word \in Dict[c].words}

\* bug: do_link takes a word that another command has
FirstStageTakesAny(o) ==
  CASE o.op = "link" ->
         IF o.cmd \notin ValidCmds(o) \/ o.word \in ValidCmds(o) THEN "over"
         ELSE IF Dict[o.cmd] = None THEN "first" ELSE "extend"
    [] o.op = "unlink" ->
         IF o.cmd \in Having(o, o.word) THEN "removeFrom" ELSE "over"
    [] o.op = "unlinkWord" ->
         IF Cardinality(Having(o, o.word)) = 1 THEN "removeFrom" ELSE "over"
    [] o.op = "build" -> "setCode"
    [] o.op = "clear" -> "keys"

\* the checks of each operation, on the dict as it is when the message arrives;
\* do_unlink of a command without synonyms raises KeyError
FirstStage(o) ==
  CASE o.op = "link" ->
         IF o.cmd \notin ValidCmds(o) \/ o.word \in ValidCmds(o) \/ Having(o, o.word) # {} THEN "over"
         ELSE IF Dict[o.cmd] = None THEN "first" ELSE "extend"
    [] o.op = "unlink" ->
         IF o.cmd \in Having(o, o.word) THEN "removeFrom" ELSE "over"
    [] o.op = "unlinkWord" ->
         IF Cardinality(Having(o, o.word)) = 1 THEN "removeFrom" ELSE "over"
    [] o.op = "build" -> "setCode"
    [] o.op = "clear" -> "keys"

\* what a new link of word for cmd does not see: the links under way of either,
\* and, before the restore, anything
Linking(t) == At(t, "first") \/ At(t, "extend")
Unseen(stage, cmd, word) ==
  IF ~restored THEN {cmd, word}
  ELSE {cmd : t \in {r \in Tasks : Linking(r) /\ doing[r].cmd = cmd /\ (At(r, "first") \/ stage = "first")}}
         \cup {word : t \in {r \in Tasks : Linking(r) /\ doing[r].word = word}}

Arrive(t, o) ==
  LET stage == FirstStage(o)
      cmd == IF o.op = "unlinkWord" THEN CHOOSE c \in Having(o, o.word) : TRUE ELSE o.cmd
  IN /\ running = NoTask /\ At(t, "idle")
     /\ running' = IF stage = "over" THEN NoTask ELSE t
     /\ doing' = [doing EXCEPT ![t] = IF stage = "over" THEN Over
                                      ELSE [stage |-> stage, cmd |-> cmd, word |-> o.word]]
     /\ todo' = [todo EXCEPT ![t] = IF stage = "setCode" THEN {c \in Cmds : CodeSyns[c] # {}} ELSE {}]
     /\ blind' = IF stage \in {"first", "extend"} THEN blind \cup Unseen(stage, cmd, o.word) ELSE blind
     /\ UNCHANGED <<holder, queue, syns, restored, awaiting, linked>>

\* await self.init_task; a task that waited for it runs on when it is done
Await(t) ==
  /\ running = t /\ ~restored
  /\ running' = NoTask /\ awaiting' = awaiting \cup {t}
  /\ UNCHANGED <<holder, queue, syns, restored, doing, todo, linked, blind>>

Wake(t) ==
  /\ restored /\ running = NoTask /\ t \in awaiting
  /\ running' = t /\ awaiting' = awaiting \ {t}
  /\ UNCHANGED <<holder, queue, syns, restored, doing, todo, linked, blind>>

Wait(t) == Queue(t) /\ UNCHANGED synVars

\* a write: it leaves value v for command c, and still has rest to write
Write(t, c, v, rest) ==
  /\ Post(t)
  /\ syns' = [syns EXCEPT ![c] = v]
  /\ doing' = [doing EXCEPT ![t] = IF rest = {} THEN Over ELSE @]
  /\ todo' = [todo EXCEPT ![t] = rest]
  /\ UNCHANGED <<restored, awaiting, blind>>

PairsOf(c) == {c} \X Words

\* extend and remove_from of what is no list: TypeError, and the lock is free
Raise(t) ==
  /\ At(t, "extend") \/ At(t, "removeFrom")
  /\ syns[doing[t].cmd].kind = "tuple"
  /\ Granted(t) /\ running' = NoTask /\ holder' = NoTask
  /\ doing' = [doing EXCEPT ![t] = Over]
  /\ UNCHANGED <<syns, restored, awaiting, todo, linked, blind>>

\* bug: do_link always sets the list of the new word
LinkSets(t) ==
  LET c == doing[t].cmd
      w == doing[t].word
  IN /\ Linking(t)
     /\ Write(t, c, ListOf({w}), {})
     /\ linked' = linked \cup {<<c, w>>}

Link(t) ==
  LET c == doing[t].cmd
      w == doing[t].word
  IN /\ \/ At(t, "first") /\ Write(t, c, ListOf({w}), {})
        \/ /\ At(t, "extend") /\ syns[c].kind # "tuple"
           /\ Write(t, c, ListOf(syns[c].words \cup {w}), {})
     /\ linked' = linked \cup {<<c, w>>}

Unlink(t) ==
  LET c == doing[t].cmd
      w == doing[t].word
  IN /\ At(t, "removeFrom") /\ syns[c].kind # "tuple"
     /\ Write(t, c, ListOf(syns[c].words \ {w}), {})
     /\ linked' = linked \ {<<c, w>>}

SetCode(t) ==
  \E c \in todo[t] :
    /\ At(t, "setCode")
    /\ Write(t, c, [kind |-> "tuple", words |-> CodeSyns[c]], todo[t] \ {c})
    /\ linked' = linked \ PairsOf(c)

Keys(t) ==
  LET keys == {c \in Cmds : syns[c] # None}
  IN /\ At(t, "keys")
     /\ Granted(t) /\ holder' = NoTask
     /\ running' = IF keys = {} THEN NoTask ELSE t
     /\ todo' = [todo EXCEPT ![t] = keys]
     /\ doing' = [doing EXCEPT ![t] = IF keys = {} THEN Over ELSE [stage |-> "remove"]]
     /\ UNCHANGED <<syns, restored, awaiting, linked, blind>>

Remove(t) ==
  \E c \in todo[t] :
    /\ At(t, "remove")
    /\ Write(t, c, None, todo[t] \ {c})
    /\ linked' = linked \ PairsOf(c)

Answer(t) == Posted(t, todo[t] # {}) /\ UNCHANGED synVars

\* a restart of the idle bot: JSON gives tuples back as lists, once restored
Restart ==
  /\ running = NoTask /\ holder = NoTask /\ queue = <<>> /\ awaiting = {} /\ restored
  /\ syns' = [c \in Cmds |-> IF syns[c] = None THEN None ELSE ListOf(syns[c].words)]
  /\ restored' = FALSE
  /\ UNCHANGED <<lockVars, awaiting, doing, todo, linked, blind>>

\* finish_init has read the dict
Restore ==
  /\ running = NoTask /\ ~restored
  /\ restored' = TRUE
  /\ UNCHANGED <<lockVars, syns, awaiting, doing, todo, linked, blind>>

Proceed(t) ==
  \/ Wait(t) \/ Raise(t) \/ Link(t) \/ Unlink(t) \/ SetCode(t) \/ Keys(t) \/ Remove(t)

Next ==
  \/ \E t \in Tasks : \/ \E o \in Ops : Arrive(t, o)
                      \/ Await(t) \/ Wake(t) \/ Answer(t)
                      \/ restored /\ Proceed(t)
  \/ Restart \/ Restore

Spec == Init /\ [][Next]_vars

------------------------------------------------------------------------------
\* A word stands for one visible command: do_link refuses a word in use.  Two
\* links of the same word that wait for the lock together both pass its check, and
\* so does any link that is checked before the restore (blind).  (The code gives
\* its own words, "aloha", to two commands.)
OneCommandPerWord ==
  \A w \in Words \ (blind \cup UNION {CodeSyns[c] : c \in Cmds}) :
    Cardinality({c \in Visible : w \in syns[c].words}) <= 1

\* A link stays until it is unlinked, cleared or rebuilt, across restarts.  Not so
\* where a first link of the command waited together with another link of it, or
\* a link of it was checked before the restore (blind): a first link stores a
\* list of its own word, whatever is stored by then.
LinksAreKept ==
  \A l \in linked : l[1] \in blind \/ l[2] \in syns[l[1]].words
==============================================================================
