--------------------------- MODULE MCBotCommands ---------------------------
(* BotCommands on one instance.  Its parts share no state, so each run of    *)
(* the model explores one of them, in focus, with the others at rest.        *)
EXTENDS BotCommands, Sequences

VARIABLE focus

CONSTANTS a1, a2, u1, u2, t1, t2, t3, t4

\* questions: a user with a direct chat and a group
MCCallers == {a1, a2}
MCMayAsk == [a \in MCCallers |-> IF a = a1 THEN Kinds ELSE {"freeform", "choice"}]
MCUsers == {u1}
MCChats == {"", "group"}
MCTexts == {"yes", "no", "0", "7", "half", "mail"}
Yes == {"yes"}
No == {"no"}
Ends == {"no", "0"}
Numbers == {"0", "7", "half"}
Half == {"half"}
Seven == {"7"}
Mail == {"mail"}

\* commands spelled with two letters; the answer of Uptime begins like its name
Uptime == <<1, 1, 2>>
Ping == <<1>>
Pong == <<1, 2>>
AdminCmd == <<2, 2, 1>>
HelpCmd == <<2>>
MCSays ==
  [c \in {Uptime, Ping, Pong, AdminCmd, HelpCmd} |->
     CASE c = Uptime -> [arg0 |-> <<1, 1, 2, 3>>, text |-> "some"]
       [] c = Ping -> [arg0 |-> Pong, text |-> "some"]
       [] c = Pong -> [arg0 |-> <<3>>, text |-> "some"]
       [] OTHER -> [arg0 |-> <<>>, text |-> "none"]]
MCCommands == DOMAIN MCSays
MCHidden == {Pong, AdminCmd}
MCFirstWords == UNION {[1..n -> 1..2] : n \in 0..3}
MCDefaultWord == <<3, 3>>
MCDocumentedWord == <<3, 2>>

\* four tasks of the history; three of the synonyms, whose code names a word twice
MCHistoryTasks == {t1, t2, t3, t4}
MCSynonymTasks == {t1, t2, t3}
MCCmds == {"hello", "bye", "setup"}
MCVisible == {"hello", "bye"}
MCWords == {"aloha", "word"}
MCCodeSyns == [c \in MCCmds |-> IF c = "setup" THEN {} ELSE {"aloha"}]

\* two tasks ask for the names of two users, whose uuids have the same digits
MCUuids == {u1, u2}
MCDigits == [u \in MCUuids |-> "cafe"]
MCGiven == {"ann", "bob"}

MCInit ==
  /\ focus \in {"questions", "commands", "history", "synonyms", "names"}
  /\ BotInit
  /\ focus = "commands" \/ (heard = Command!Silence /\ ~magic /\ ~admin /\ ~group)

MCNext ==
  /\ UNCHANGED focus
  /\ \/ focus = "questions" /\ Questioning
     \/ focus = "commands" /\ Commanding
     \/ focus = "history" /\ Remembering
     \/ focus = "synonyms" /\ Linking
     \/ focus = "names" /\ Naming

MCSpec == MCInit /\ [][MCNext]_<<focus, botVars>> /\ Fairness
=============================================================================
