----------------------------- MODULE BotCommands -----------------------------
(***************************************************************************)
(* What the bot does with the messages it gets (src/forest/core.py,        *)
(* extra.py, memorybot.py, synonymbot.py): the questions it asks, the      *)
(* choice of the command, the history, the synonyms, the display names.    *)
(* The parts share the event loop and no state: each has its own           *)
(* persistent dicts, and so its own locks.                                 *)
(***************************************************************************)
EXTENDS Questions

CONSTANTS
  FirstWords, Commands, Hidden, Help, Says, DefaultWord, DocumentedWord,
  Threshold, MaxTurns,                         \* of CommandMatch
  HistoryTasks, MaxLists, NoTask,              \* of MemoryHistory
  SynonymTasks, Cmds, Visible, Words, CodeSyns,  \* of Synonyms
  Askers, Uuids, Digits, Given, NoName, MaxCrashes     \* of DisplayNames

VARIABLES
  heard, turns, magic, admin, group,
  running, holder, queue,
  lists, current, reactions, store, at, job, held, kept, torn,
  synRunning, synHolder, synQueue, syns, restored, awaiting, doing, todo, linked, blind,
  profile, names, users, stored, asking, crashes, halved

Command == INSTANCE CommandMatch WITH Words <- FirstWords
History == INSTANCE MemoryHistory WITH Tasks <- HistoryTasks
Synonym == INSTANCE Synonyms WITH
  Tasks <- SynonymTasks, running <- synRunning, holder <- synHolder, queue <- synQueue
Display == INSTANCE DisplayNames

ASSUME CommandAssumption == Command!CommandAssumption
ASSUME LockAssumption == History!LockAssumption
ASSUME SynonymsAssumption == Synonym!SynonymsAssumption
ASSUME NamesAssumption == Display!NamesAssumption

commandVars == <<heard, turns, magic, admin, group>>
historyVars == <<running, holder, queue, lists, current, reactions, store, at, job, held, kept, torn>>
synonymVars == <<synRunning, synHolder, synQueue, syns, restored, awaiting, doing, todo, linked, blind>>
nameVars == <<profile, names, users, stored, asking, crashes, halved>>
botVars == <<vars, commandVars, historyVars, synonymVars, nameVars>>

BotInit == Init /\ Command!Init /\ History!Init /\ Synonym!Init /\ Display!Init

Questioning == Next /\ UNCHANGED <<commandVars, historyVars, synonymVars, nameVars>>
Commanding == Command!Next /\ UNCHANGED <<vars, historyVars, synonymVars, nameVars>>
Remembering == History!Next /\ UNCHANGED <<vars, commandVars, synonymVars, nameVars>>
Linking == Synonym!Next /\ UNCHANGED <<vars, commandVars, historyVars, nameVars>>
Naming == Display!Next /\ UNCHANGED <<vars, commandVars, historyVars, synonymVars>>

BotNext == Questioning \/ Commanding \/ Remembering \/ Linking \/ Naming
BotSpec == BotInit /\ [][BotNext]_botVars /\ Fairness

------------------------------------------------------------------------------
\* Every variable of every component has its type.
Types ==
  /\ TypeOK /\ Command!TypeOK /\ History!TypeOK /\ Synonym!TypeOK /\ Display!TypeOK

\* The matrix of string_dist.levenshtein is the edit distance.
IsDistance == Command!IsDistance
\* A guessed command (match_command) is close enough and not hidden from the sender.
GuessIsSafe == Command!GuessIsSafe
\* Without ENABLE_MAGIC a conversation with an echo ends (Bot.default, do_help).
EchoEnds == Command!EchoEnds
\* The history is what was saved since the last clear (MemoryBot.handle_reaction).
HistoryIsExact == History!HistoryIsExact
\* The backend has the history and its reactions once all tasks are through.
AllStored == History!AllStored
\* A linked word stands for one visible command (do_link).
OneCommandPerWord == Synonym!OneCommandPerWord
\* An acknowledged link stays until it is undone (do_link).
LinksAreKept == Synonym!LinksAreKept
\* A display name leads back to its user, unless another user shares it, the call
\* raised or the process crashed (get_displayname).
NamesLeadBack == Display!NamesLeadBack
\* A display name that leads nowhere is never repaired (get_displayname).
DanglingStays == Display!DanglingStays
=============================================================================
