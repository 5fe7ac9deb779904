---------------------------- MODULE CommandMatch ----------------------------
(***************************************************************************)
(* Which command a message calls (Bot.match_command, handle_message and    *)
(* default of src/forest/core.py, src/forest/string_dist.py), and the      *)
(* conversation of a bot with a peer that echoes what it is told.          *)
(*                                                                         *)
(* A word is a sequence of letters, a message its first word and what the  *)
(* code asks of the rest: whether there is any, and whether it says        *)
(* "Documented commands".  Left out: mentions of the bot, the TERMINATE    *)
(* text, the arguments of commands.                                        *)
(***************************************************************************)
EXTENDS StringDist, FiniteSets

CONSTANTS
  Words,      \* first words a conversation may open with, <<>> among them
  Commands,   \* what follows do_ in the methods of the bot
  Hidden,     \* those that are hidden or for admins
  Help,
  Says,       \* what each other command answers: first word and rest
  DefaultWord, DocumentedWord,  \* first words of the default answer and of help
  Threshold,  \* TYPO_THRESHOLD in percent
  MaxTurns    \* bound: answers after which a conversation is not followed on

TextKinds == {"none", "some", "documented"}
Messages == [arg0 : Seq(Nat), text : TextKinds]
Silence == [arg0 |-> <<>>, text |-> "none"]

\* There is a command besides help that everybody may call.
CommandAssumption ==
  /\ IsFiniteSet(Commands) /\ Commands \subseteq Seq(Nat) /\ Words \subseteq Seq(Nat)
  /\ Hidden \subseteq Commands /\ Help \in Commands \ Hidden
  /\ \E c \in Commands \ Hidden : c # Help
  /\ Says \in [Commands -> Messages]
  /\ DefaultWord \in Seq(Nat) /\ DocumentedWord \in Seq(Nat)
  /\ MaxTurns \in Nat

VARIABLES
  heard,      \* the message the bot is to answer
  turns,      \* history: answers so far
  magic,      \* ENABLE_MAGIC
  admin, group  \* is_admin(msg), and whether it comes from a group, not as a /command

vars == <<heard, turns, magic, admin, group>>

TypeOK ==
  /\ heard \in Messages /\ turns \in 0..MaxTurns
  /\ magic \in BOOLEAN /\ admin \in BOOLEAN /\ group \in BOOLEAN

Close(word, c) == Levenshtein(word, c) * 100 < Threshold * LongerOf(word, c)
\* bug: a guess may be any command
ValidForAll == Commands

Valid == IF admin THEN Commands ELSE Commands \ Hidden

\* the commands a word may call: one or none
match_command(word) ==
  IF word \in Commands THEN {word}
  ELSE IF word = <<>> \/ ~magic \/ group THEN {}
  ELSE LET cmd == Match(word, Valid)
           \* the comprehension tests cmd, not the command it ranges over
           expansions == {expanded \in Valid : IsPrefix(word, cmd)}
       IN IF Close(word, cmd) THEN {cmd} ELSE {c \in expansions : expansions = {c}}

\* bug: default answers its own answer
default_always == IF group \/ heard.text = "none" THEN Silence
                  ELSE [arg0 |-> DefaultWord, text |-> "documented"]

\* default: no answer to itself, in groups, or to a single word
default == IF group \/ heard.text # "some" THEN Silence
           ELSE [arg0 |-> DefaultWord, text |-> "documented"]

\* the text of help's answer lacks its first word, hence "Documented commands"
do_help == IF heard.text = "documented" THEN Silence
           ELSE [arg0 |-> DocumentedWord, text |-> "some"]

handle_message ==
  LET called == match_command(heard.arg0)
  IN CASE called = {} -> default [] called = {Help} -> do_help
       [] OTHER -> Says[CHOOSE c \in called : TRUE]

Init ==
  /\ heard \in [arg0 : Words, text : TextKinds] /\ turns = 0
  /\ magic \in BOOLEAN /\ admin \in BOOLEAN /\ group \in BOOLEAN

\* the bot answers, and the peer says the same
Echo ==
  /\ heard # Silence /\ turns < MaxTurns
  /\ heard' = handle_message /\ turns' = turns + 1
  /\ UNCHANGED <<magic, admin, group>>

Next == Echo

------------------------------------------------------------------------------
\* Levenshtein is the length of a shortest chain of edits of one letter: 0 only
\* between equal words, and at any other distance k some edit leads to distance
\* k - 1 and none to less.
Letters == UNION {{w[i] : i \in 1..Len(w)} : w \in Commands \cup Words}
IsDistance ==
  \A c \in Commands :
    LET k == Levenshtein(heard.arg0, c)
        around == {Levenshtein(v, c) : v \in Edits(heard.arg0, Letters)}
    IN /\ k = 0 <=> heard.arg0 = c
       /\ k > 0 => k - 1 \in around /\ \A n \in around : n >= k - 1

\* Commands that are not spelled out: never a hidden one for who is no admin,
\* never one further off than the threshold (with two commands or more the
\* "unique expansion" of match_command finds nothing).
GuessIsSafe ==
  \A c \in match_command(heard.arg0) \ {heard.arg0} :
    /\ c \in Hidden => admin
    /\ Close(heard.arg0, c)
    /\ ~group

\* "if it messages an echoserver, don't get in a loop": without ENABLE_MAGIC
\* every conversation with an echo is over before MaxTurns.  With it, a command
\* whose answer begins like its own name (uptime: "Uptime: 5m") goes on for ever.
EchoEnds == ~magic => turns < MaxTurns
==============================================================================
