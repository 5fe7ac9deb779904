---------------------------- MODULE MemoryHistory ----------------------------
(***************************************************************************)
(* The history a bot keeps of one conversation (class MemoryBot of         *)
(* src/forest/memorybot.py): messages are saved, reactions added to them,  *)
(* the history cleared.  get() returns the list the dict holds, not a      *)
(* copy, and the messages in it are shared too, so lists have identities.  *)
(* A message stands for the task that saves it, a reaction for the task    *)
(* that adds it.  Left out: quote_chain, do_q and do_history, which read.  *)
(***************************************************************************)
EXTENDS Naturals, DictLock, Functions

CONSTANT MaxLists   \* bound: list objects made

VARIABLES
  lists,      \* list objects made so far: sequences of messages
  current,    \* the one the dict holds, 0 if the key is missing
  reactions,  \* of each message: the "reactions" of its blob
  store,      \* what the backend holds, with reactions
  at,         \* the await each task has come to
  job,        \* what it does: "save", "clear", or the message it reacts to
  held,       \* user_history of a reaction: a list object
  kept,       \* history: messages saved since the last clear
  torn        \* history: a clear came between a reaction's read and its write

memoryVars == <<lists, current, reactions, store, at, job, held, kept, torn>>
vars == <<lockVars, memoryVars>>

Stages == {"idle", "extend", "remove", "find", "history", "set", "post", "over"}
Content(l) == IF l = 0 THEN <<>> ELSE lists[l]
Snapshot(seq, reacted) == [i \in DOMAIN seq |-> <<seq[i], reacted[seq[i]]>>]

TypeOK ==
  /\ LockTypeOK
  /\ lists \in Seq(Seq(Tasks)) /\ current \in 0..Len(lists)
  /\ reactions \in [Tasks -> SUBSET Tasks]
  /\ at \in [Tasks -> Stages]
  /\ held \in [Tasks -> 0..Len(lists)]
  /\ kept \subseteq Tasks

Init ==
  /\ LockInit
  /\ lists = <<>> /\ current = 0 /\ store = <<>>
  /\ reactions = [t \in Tasks |-> {}]
  /\ at = [t \in Tasks |-> "idle"] /\ job = [t \in Tasks |-> "none"]
  /\ held = [t \in Tasks |-> 0]
  /\ kept = {} /\ torn = FALSE

Go(t, stage) == at' = [at EXCEPT ![t] = stage]

\* a message, a reaction to a message, or the clear_history command arrives
Arrive(t) ==
  /\ running = NoTask /\ at[t] = "idle" /\ running' = t
  /\ \E j \in {"save", "clear"} \cup {m \in Tasks : job[m] = "save"} :
       /\ job' = [job EXCEPT ![t] = j]
       /\ Go(t, CASE j = "save" -> "extend" [] j = "clear" -> "remove" [] OTHER -> "find")
  /\ UNCHANGED <<holder, queue, lists, current, reactions, store, held, kept, torn>>

Wait(t) == Queue(t) /\ UNCHANGED memoryVars

\* bug: extend stores a longer copy
ExtendCopies(t) ==
  /\ at[t] = "extend" /\ Post(t) /\ Go(t, "post")
  /\ Len(lists) < MaxLists
  /\ lists' = Append(lists, Append(Content(current), t)) /\ current' = Len(lists')
  /\ kept' = kept \cup {t}
  /\ UNCHANGED <<reactions, store, job, held, torn>>

\* extend appends to the list in place, or makes one
Extend(t) ==
  /\ at[t] = "extend" /\ Post(t) /\ Go(t, "post")
  /\ IF current = 0
     THEN /\ Len(lists) < MaxLists
          /\ lists' = Append(lists, <<t>>) /\ current' = Len(lists')
     ELSE /\ lists' = [lists EXCEPT ![current] = Append(@, t)]
          /\ UNCHANGED current
  /\ kept' = kept \cup {t}
  /\ UNCHANGED <<reactions, store, job, held, torn>>

Remove(t) ==
  /\ at[t] = "remove" /\ Post(t) /\ Go(t, "post")
  /\ current' = 0 /\ kept' = {}
  /\ torn' = (torn \/ \E r \in Tasks : at[r] = "set")
  /\ UNCHANGED <<lists, reactions, store, job, held>>

\* get_user_message: the reaction is dropped if it knows no such message
Find(t) ==
  /\ at[t] = "find"
  /\ IF job[t] \in Range(Content(current))
     THEN Read(t) /\ Go(t, "history")
     ELSE Granted(t) /\ running' = NoTask /\ holder' = NoTask /\ Go(t, "over")
  /\ UNCHANGED <<lists, current, reactions, store, job, held, kept, torn>>

\* handle_reaction after get_user_history, which may be gone or new by now: None
\* has no index (AttributeError), index finds no blob (ValueError)
History(t) ==
  /\ at[t] = "history"
  /\ IF job[t] \in Range(Content(current))
     THEN /\ Read(t) /\ Go(t, "set")
          /\ reactions' = [reactions EXCEPT ![job[t]] = @ \cup {t}]
          /\ held' = [held EXCEPT ![t] = current]
     ELSE /\ Granted(t) /\ running' = NoTask /\ holder' = NoTask /\ Go(t, "over")
          /\ UNCHANGED <<reactions, held>>
  /\ UNCHANGED <<lists, current, store, job, kept, torn>>

\* bug: no set, as the list of the dict has the reaction already
SetNothing(t) ==
  /\ at[t] = "set" /\ Go(t, "over")
  /\ Granted(t) /\ running' = NoTask /\ holder' = NoTask
  /\ UNCHANGED <<lists, current, reactions, store, job, held, kept, torn>>

\* the list that was read goes back under the key
Set(t) ==
  /\ at[t] = "set" /\ Post(t) /\ Go(t, "post")
  /\ current' = held[t]
  /\ UNCHANGED <<lists, reactions, store, job, held, kept, torn>>

\* The backend has what json.dumps made of the dict before the post: the same as
\* now, because whatever changes dict, lists or blobs needs the lock first.
Answer(t) ==
  /\ at[t] = "post" /\ Posted(t, FALSE) /\ Go(t, "over")
  /\ store' = Snapshot(Content(current), reactions)
  /\ UNCHANGED <<lists, current, reactions, job, held, kept, torn>>

Next ==
  \E t \in Tasks : \/ Arrive(t) \/ Wait(t) \/ Extend(t) \/ Remove(t)
                   \/ Find(t) \/ History(t) \/ Set(t) \/ Answer(t)

Spec == Init /\ [][Next]_vars

------------------------------------------------------------------------------
\* The history holds the messages saved since the last clear, no more and no
\* less, although a reaction writes back a list it read before: the list is
\* shared, so what was saved meanwhile is in it.  Only a clear between the two
\* breaks it (the cleared history comes back, the messages saved since are lost).
HistoryIsExact == ~torn => Range(Content(current)) = kept

\* When all tasks are through, a restart would find what the dict holds, the
\* reactions included (msgs.set at the end of handle_reaction).
AllStored ==
  (running = NoTask /\ holder = NoTask /\ queue = <<>>)
    => store = Snapshot(Content(current), reactions)
==============================================================================
