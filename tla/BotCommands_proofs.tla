--------------------------- MODULE BotCommands_proofs ---------------------------
(***************************************************************************)
(* Theorems about BotCommands, for any words and commands, users and chats, *)
(* tasks and names.  Each component has its inductive invariant; they      *)
(* share no variable.  Those of the questions and the synonyms, and the    *)
(* theorems about words, are in modules of their own.                      *)
(***************************************************************************)
EXTENDS BotCommands, Questions_proofs, FiniteSetTheorems, SequenceTheorems, TLAPS

Dist == INSTANCE StringDist_proofs
Syn == INSTANCE Synonyms_proofs WITH
  Tasks <- SynonymTasks, running <- synRunning, holder <- synHolder, queue <- synQueue

------------------------------------------------------------------------------
(* The choice of the command. *)

\* The operators of the instance are those the theorems about words are about.
LEMMA SameDistance ==
  ASSUME NEW w, NEW c PROVE Command!Levenshtein(w, c) = Dist!Levenshtein(w, c)
BY DEF Command!Levenshtein, Dist!Levenshtein, Command!Matrix, Dist!Matrix, Command!Row, Dist!Row,
       Command!Min, Dist!Min

LEMMA SameLonger == ASSUME NEW w, NEW c PROVE Command!LongerOf(w, c) = Dist!LongerOf(w, c)
BY DEF Command!LongerOf, Dist!LongerOf

LEMMA SameMatch == ASSUME NEW w, NEW T PROVE Command!Match(w, T) = Dist!Match(w, T)
BY SameDistance, SameLonger DEF Command!Match, Dist!Match, Command!Before, Dist!Before,
                    Command!IsPrefix, Dist!IsPrefix

LEMMA SameEdits == ASSUME NEW w, NEW L PROVE Command!Edits(w, L) = Dist!Edits(w, L)
BY DEF Command!Edits, Dist!Edits, Command!Deleted, Dist!Deleted, Command!Inserted, Dist!Inserted,
       Command!Substituted, Dist!Substituted

\* The commands that somebody may call are words, finitely many, two at least.
LEMMA ValidIs ==
  /\ Command!Valid \subseteq Commands /\ Commands \subseteq Seq(Nat)
  /\ Command!Valid \subseteq Seq(Nat) /\ IsFiniteSet(Command!Valid) /\ Command!Valid # {}
  /\ \A c : Command!Valid # {c}
  /\ \A c \in Command!Valid : c \in Hidden => admin
<1>1. IsFiniteSet(Commands)
  BY CommandAssumption DEF Command!CommandAssumption, Command!IsFiniteSet, IsFiniteSet
<1>2. Command!Valid \subseteq Commands /\ Commands \subseteq Seq(Nat)
  BY CommandAssumption DEF Command!CommandAssumption, Command!Valid
<1>3. IsFiniteSet(Command!Valid)
  BY <1>1, <1>2, FS_Subset
<1>4. PICK c \in Commands \ Hidden : c # Help
  BY CommandAssumption DEF Command!CommandAssumption
<1>5. Help \in Command!Valid /\ c \in Command!Valid
  BY <1>4, CommandAssumption DEF Command!CommandAssumption, Command!Valid
<1>6. \A d \in Command!Valid : d \in Hidden => admin
  BY DEF Command!Valid
<1> QED BY <1>2, <1>3, <1>4, <1>5, <1>6

\* A word calls itself, or a command that is close to it.
LEMMA CalledIs ==
  ASSUME NEW word \in Seq(Nat), NEW c \in Command!match_command(word)
  PROVE  /\ c \in Commands
         /\ c # word => c \in Command!Valid /\ Command!Close(word, c) /\ ~group
<1> DEFINE cmd == Command!Match(word, Command!Valid)
           expansions == {expanded \in Command!Valid : Command!IsPrefix(word, cmd)}
<1>1. CASE word \in Commands
  BY <1>1 DEF Command!match_command
<1>2. CASE word \notin Commands
  <2>1. word # <<>> /\ magic /\ ~group
    BY <1>2 DEF Command!match_command
  <2>2. cmd \in Command!Valid
    <3> DEFINE T == Command!Valid
    <3>1. word # <<>> /\ T \in SUBSET Seq(Nat) /\ IsFiniteSet(T) /\ T # {}
      BY <2>1, ValidIs
    <3> HIDE DEF T
    <3>2. Dist!IsFiniteSet(T)
      BY <3>1 DEF IsFiniteSet, Dist!IsFiniteSet
    <3>3. Dist!Match(word, T) \in T
      BY <3>1, <3>2, Dist!MatchIsClosest, Zenon
    <3> QED BY <3>3, SameMatch DEF T
  <2>3. c \in IF Command!Close(word, cmd) THEN {cmd} ELSE {e \in expansions : expansions = {e}}
    BY <1>2, <2>1 DEF Command!match_command
  <2>4. expansions = {} \/ expansions = Command!Valid
    OBVIOUS
  <2> HIDE DEF cmd, expansions
  <2>5. \A e \in expansions : expansions # {e}
    BY <2>4, ValidIs
  <2>6. c = cmd /\ Command!Close(word, cmd)
    BY <2>3, <2>5
  <2> QED BY <2>1, <2>2, <2>6, ValidIs
<1> QED BY <1>1, <1>2

LEMMA CommandInitIsInv == Command!Init => Command!TypeOK
BY CommandAssumption DEF Command!CommandAssumption, Command!Init, Command!TypeOK, Command!Messages

LEMMA AnswerIs == ASSUME Command!TypeOK PROVE Command!handle_message \in Command!Messages
<1> DEFINE called == Command!match_command(heard.arg0)
<1>1. Command!Silence \in Command!Messages
  BY EmptySeq DEF Command!Silence, Command!Messages, Command!TextKinds
<1>2. Command!default \in Command!Messages /\ Command!do_help \in Command!Messages
  BY <1>1, CommandAssumption
     DEF Command!CommandAssumption, Command!default, Command!do_help, Command!Messages, Command!TextKinds
<1>3. \A c \in Commands : Says[c] \in Command!Messages
  BY CommandAssumption DEF Command!CommandAssumption
<1>4. called \subseteq Commands
  <2>1. heard.arg0 \in Seq(Nat)
    BY DEF Command!TypeOK, Command!Messages
  <2> QED BY <2>1, CalledIs
<1>5. \/ Command!handle_message = Command!default
      \/ Command!handle_message = Command!do_help
      \/ called # {} /\ Command!handle_message = Says[CHOOSE c \in called : TRUE]
  BY DEF Command!handle_message
<1> HIDE DEF called
<1>6. called # {} => (CHOOSE c \in called : TRUE) \in Commands
  BY <1>4
<1> QED BY <1>2, <1>3, <1>5, <1>6

LEMMA CommandNextKeeps == Command!TypeOK /\ [Command!Next]_(Command!vars) => Command!TypeOK'
<1>1. ASSUME Command!TypeOK, Command!Echo PROVE Command!TypeOK'
  <2>1. heard' \in Command!Messages
    BY <1>1, AnswerIs DEF Command!Echo
  <2>2. turns' \in 0..MaxTurns
    BY <1>1, CommandAssumption DEF Command!CommandAssumption, Command!TypeOK, Command!Echo
  <2> QED BY <1>1, <2>1, <2>2 DEF Command!TypeOK, Command!Echo
<1>2. ASSUME Command!TypeOK, UNCHANGED Command!vars PROVE Command!TypeOK'
  BY <1>2 DEF Command!vars, Command!TypeOK
<1> QED BY <1>1, <1>2 DEF Command!Next

\* What a message calls that is not spelled out is near and allowed.
LEMMA GuessesAreSafe == Command!TypeOK => GuessIsSafe
<1> SUFFICES ASSUME Command!TypeOK, NEW c \in Command!match_command(heard.arg0) \ {heard.arg0}
             PROVE  (c \in Hidden => admin) /\ Command!Close(heard.arg0, c) /\ ~group
  BY DEF GuessIsSafe, Command!GuessIsSafe
<1>1. heard.arg0 \in Seq(Nat)
  BY DEF Command!TypeOK, Command!Messages
<1>2. c \in Command!Valid /\ Command!Close(heard.arg0, c) /\ ~group
  BY <1>1, CalledIs
<1> QED BY <1>2, ValidIs

\* The theorem about shortest chains, for the letters of this bot.
LEMMA DistancesAre == Command!TypeOK => IsDistance
<1> SUFFICES ASSUME Command!TypeOK, NEW c \in Commands
             PROVE  LET k == Command!Levenshtein(heard.arg0, c)
                        around == {Command!Levenshtein(v, c) : v \in Command!Edits(heard.arg0, Command!Letters)}
                    IN /\ k = 0 <=> heard.arg0 = c
                       /\ k > 0 => k - 1 \in around /\ \A n \in around : n >= k - 1
  BY DEF IsDistance, Command!IsDistance
<1> DEFINE w == heard.arg0
           L == Command!Letters
<1>1. w \in Seq(Nat)
  BY DEF Command!TypeOK, Command!Messages
<1>2. \A x \in Commands \cup FirstWords : x \in Seq(Nat) /\ \A i \in 1..Len(x) : x[i] \in Nat
  BY CommandAssumption DEF Command!CommandAssumption
<1>3. L \in SUBSET Nat
  BY <1>2 DEF Command!Letters
<1>4. c \in Seq(L)
  <2>1. c \in Seq(Nat) /\ \A i \in 1..Len(c) : c[i] \in L
    BY <1>2 DEF Command!Letters
  <2> HIDE DEF L
  <2> QED BY <2>1, SeqDef
<1> HIDE DEF w, L
<1>5. Dist!IsShortest(w, c, L)
  BY <1>1, <1>3, <1>4, Dist!ShortestChain, Zenon
<1> QED BY <1>5, SameDistance, SameEdits DEF w, L, Dist!IsShortest

------------------------------------------------------------------------------
(* The conversation with an echo. *)

\* The answers of the commands name commands in a circle never: rank falls from a
\* command to the one its answer begins with (ping: "/pong", pong: "OK"), and the
\* default answer and that of help ("That", "Documented") begin with no command.
Settles(rank) ==
  /\ DefaultWord \notin Commands /\ DocumentedWord \notin Commands
  /\ \A c \in Commands \ {Help} : Says[c].arg0 \in Commands => rank[Says[c].arg0] < rank[c]

\* Answers that may still follow a message, without ENABLE_MAGIC.
Left(rank, m) ==
  IF m = Command!Silence THEN 0
  ELSE IF m.arg0 \in Commands THEN 3 + rank[m.arg0]
  ELSE IF m.text = "some" THEN 2 ELSE 1

EchoInv(rank) == ~magic => turns + Left(rank, heard) < MaxTurns

\* An answer leaves fewer answers than the message it answers did.
LEMMA AnswerSettles ==
  ASSUME Command!TypeOK, ~magic, heard # Command!Silence,
         NEW rank \in [Commands -> 0..(MaxTurns - 4)], Settles(rank)
  PROVE  Left(rank, Command!handle_message) < Left(rank, heard)
<1> DEFINE word == heard.arg0
<1>1. /\ MaxTurns \in Nat /\ \A c \in Commands : rank[c] \in Nat
      /\ \A c \in Commands : Says[c] \in Command!Messages
  BY CommandAssumption DEF Command!CommandAssumption
<1>2. \A m : m.arg0 \notin Commands => Left(rank, m) \in {0, 1, 2}
  BY DEF Left
<1>3. CASE word \in Commands
  <2>1. Command!match_command(word) = {word}
    BY <1>3 DEF Command!match_command
  <2>2. Left(rank, heard) = 3 + rank[word]
    BY <1>3 DEF Left
  <2>3. CASE word = Help
    <3>1. Command!handle_message = Command!do_help
      BY <2>1, <2>3 DEF Command!handle_message
    <3>2. Left(rank, Command!do_help) \in {0, 1, 2}
      <4>1. CASE heard.text = "documented"
        BY <4>1 DEF Command!do_help, Left
      <4>2. CASE heard.text # "documented"
        <5>1. Command!do_help = [arg0 |-> DocumentedWord, text |-> "some"]
          BY <4>2 DEF Command!do_help
        <5>2. Command!do_help.arg0 = DocumentedWord
          BY <5>1
        <5> QED BY <1>2, <5>2 DEF Settles
      <4> QED BY <4>1, <4>2
    <3> QED BY <1>1, <1>3, <2>2, <3>1, <3>2
  <2>4. CASE word # Help
    <3>1. (CHOOSE c \in {word} : TRUE) = word
      OBVIOUS
    <3>2. Command!handle_message = Says[word]
      BY <2>1, <2>4, <3>1 DEF Command!handle_message
    <3>3. CASE Says[word].arg0 \notin Commands
      BY <1>1, <1>2, <1>3, <2>2, <3>2, <3>3
    <3>4. CASE Says[word].arg0 \in Commands
      <4>1. rank[Says[word].arg0] < rank[word]
        BY <1>3, <2>4, <3>4 DEF Settles
      <4>2. Left(rank, Says[word]) \in {0, 3 + rank[Says[word].arg0]}
        BY <3>4 DEF Left
      <4> QED BY <1>1, <1>3, <2>2, <3>2, <3>4, <4>1, <4>2
    <3> QED BY <3>3, <3>4
  <2> QED BY <2>3, <2>4
<1>4. CASE word \notin Commands
  <2>1. Command!handle_message = Command!default
    BY <1>4 DEF Command!match_command, Command!handle_message
  <2>2. CASE group \/ heard.text # "some"
    <3>1. Left(rank, Command!default) = 0
      BY <2>2 DEF Command!default, Left
    <3>2. Left(rank, heard) \in {1, 2}
      BY <1>4 DEF Left
    <3> QED BY <2>1, <3>1, <3>2
  <2>3. CASE ~group /\ heard.text = "some"
    <3>1. Left(rank, heard) = 2
      BY <1>4, <2>3 DEF Left
    <3>2. Command!default = [arg0 |-> DefaultWord, text |-> "documented"]
      BY <2>3 DEF Command!default
    <3>3. Command!default.arg0 = DefaultWord /\ Command!default.text = "documented"
      BY <3>2
    <3>4. Left(rank, Command!default) \in {0, 1}
      BY <3>3 DEF Left, Settles
    <3> QED BY <2>1, <3>1, <3>4
  <2> QED BY <2>2, <2>3
<1> QED BY <1>3, <1>4

LEMMA EchoKeeps ==
  ASSUME Command!TypeOK, [Command!Next]_(Command!vars),
         NEW rank \in [Commands -> 0..(MaxTurns - 4)], Settles(rank), EchoInv(rank)
  PROVE  EchoInv(rank)'
<1>1. CASE Command!Echo
  <2>1. heard # Command!Silence /\ heard' = Command!handle_message
        /\ turns' = turns + 1 /\ magic' = magic
    BY <1>1 DEF Command!Echo
  <2> SUFFICES ASSUME ~magic PROVE turns' + Left(rank, heard') < MaxTurns
    BY <2>1 DEF EchoInv, Left
  <2>2. Left(rank, heard') < Left(rank, heard)
    BY <2>1, AnswerSettles
  <2>3. Left(rank, heard) \in Nat /\ Left(rank, heard') \in Nat
    BY <2>1 DEF Left
  <2> QED BY <2>1, <2>2, <2>3, CommandAssumption
          DEF EchoInv, Command!TypeOK, Command!CommandAssumption
<1>2. CASE UNCHANGED Command!vars
  BY <1>2 DEF EchoInv, Left, Command!vars
<1> QED BY <1>1, <1>2 DEF Command!Next

------------------------------------------------------------------------------
(* The history. *)

\* A reaction that is about to write back a list holds the list of the dict:
\* nothing but a clear, and then a new list, comes in between.
SharedList ==
  ~torn => \A t \in HistoryTasks : at[t] = "set" => held[t] = current /\ current # 0

\* A task that has changed something and not posted it has the lock, or runs, or
\* waits for the lock.
Pending ==
  \A t \in HistoryTasks : /\ at[t] = "post" => holder = t
                          /\ at[t] = "set" => running = t \/ t \in History!Range(queue)

\* What the backend does not have is about to be posted.
Stored ==
  \/ store = History!Snapshot(History!Content(current), reactions)
  \/ \E t \in HistoryTasks : at[t] \in {"set", "post"}

HistoryInv == History!TypeOK /\ SharedList /\ History!HistoryIsExact /\ Pending /\ Stored

-------------------------------------------------------------------------------
(* Sequences.                                                              *)

LEMMA RangeOfAppend == ASSUME NEW S, NEW s \in Seq(S), NEW e \in S
                       PROVE  Append(s, e) \in Seq(S) /\ History!Range(Append(s, e)) = History!Range(s) \cup {e}
<1>1. /\ Len(Append(s, e)) = Len(s) + 1 /\ Append(s, e)[Len(s) + 1] = e
      /\ \A i \in 1..Len(s) : Append(s, e)[i] = s[i]
      /\ DOMAIN Append(s, e) = 1..(Len(s) + 1) /\ DOMAIN s = 1..Len(s) /\ Len(s) \in Nat
  OBVIOUS
<1>2. \A x \in 1..(Len(s) + 1) : x \in 1..Len(s) \/ x = Len(s) + 1
  BY <1>1
<1>3. 1..Len(s) \subseteq 1..(Len(s) + 1) /\ Len(s) + 1 \in 1..(Len(s) + 1)
  BY <1>1
<1> QED BY <1>1, <1>2, <1>3 DEF History!Range

LEMMA RangeOfTail == ASSUME NEW S, NEW s \in Seq(S), s # <<>>
                     PROVE  Tail(s) \in Seq(S) /\ \A x \in History!Range(s) : x = Head(s) \/ x \in History!Range(Tail(s))
<1>1. /\ Len(s) \in Nat \ {0} /\ Len(Tail(s)) = Len(s) - 1 /\ Head(s) = s[1]
      /\ \A i \in 1..(Len(s) - 1) : Tail(s)[i] = s[i + 1]
      /\ DOMAIN s = 1..Len(s) /\ DOMAIN Tail(s) = 1..(Len(s) - 1)
  OBVIOUS
<1>2. SUFFICES ASSUME NEW i \in 1..Len(s), i # 1 PROVE s[i] \in History!Range(Tail(s))
  BY <1>1 DEF History!Range
<1>3. i - 1 \in 1..(Len(s) - 1) /\ Tail(s)[i - 1] = s[i]
  BY <1>1, <1>2
<1> QED BY <1>1, <1>3 DEF History!Range

\* an empty sequence has an empty range
LEMMA RangeOfEmpty == History!Range(<<>>) = {}
BY DEF History!Range

\* the snapshot of an empty history
LEMMA SnapshotOfEmpty == ASSUME NEW r PROVE History!Snapshot(<<>>, r) = <<>>
BY DEF History!Snapshot

-------------------------------------------------------------------------------
(* The lock.                                                               *)

\* a task that goes on leaves those that wait where they are
LEMMA GrantedMeans ==
  ASSUME History!LockAssumption, History!LockTypeOK, NEW t \in HistoryTasks, History!Granted(t)
  PROVE  /\ running \in {t, NoTask} /\ holder = NoTask /\ queue' \in Seq(HistoryTasks)
         /\ \A r \in History!Range(queue) \ {t} : r \in History!Range(queue')
BY RangeOfTail DEF History!LockTypeOK, History!Granted

LEMMA TaskGoes == ASSUME History!TypeOK, NEW t \in HistoryTasks, NEW stage \in History!Stages,
                         History!Go(t, stage)
              PROVE  /\ at' \in [HistoryTasks -> History!Stages] /\ at'[t] = stage
                     /\ \A r \in HistoryTasks \ {t} : at'[r] = at[r]
BY DEF History!TypeOK, History!Go

\* A task that got the lock is the only one whose place changes.
LEMMA PendingKept ==
  ASSUME History!LockAssumption, History!TypeOK, Pending, NEW t \in HistoryTasks, History!Granted(t),
         \A r \in HistoryTasks \ {t} : at'[r] = at[r],
         at'[t] = "post" => holder' = t, at'[t] = "set" => running' = t
  PROVE  Pending'
<1>1. /\ running \in {t, NoTask} /\ holder = NoTask
      /\ \A r \in History!Range(queue) \ {t} : r \in History!Range(queue')
  BY GrantedMeans DEF History!TypeOK
<1> QED BY <1>1 DEF Pending, History!LockAssumption

-------------------------------------------------------------------------------
(* The actions.                                                            *)

LEMMA HistoryInitIsInv == ASSUME History!Init PROVE HistoryInv
<1>1. History!TypeOK
  BY DEF History!Init, History!TypeOK, History!LockInit, History!LockTypeOK, History!Stages
<1>2. \A t \in HistoryTasks : at[t] = "idle"
  BY DEF History!Init
<1>3. History!Content(current) = <<>> /\ kept = {} /\ store = <<>>
  BY DEF History!Init, History!Content
<1>4. SharedList /\ Pending /\ History!HistoryIsExact /\ Stored
  BY <1>2, <1>3, RangeOfEmpty, SnapshotOfEmpty DEF SharedList, Pending, History!HistoryIsExact,
     Stored
<1> QED BY <1>1, <1>4 DEF HistoryInv

\* a task whose message arrives, or that has to wait
LEMMA ArriveKeeps == ASSUME History!LockAssumption, HistoryInv, NEW t \in HistoryTasks,
                            History!Arrive(t) PROVE HistoryInv'
<1>1. PICK stage \in {"extend", "remove", "find"} : History!Go(t, stage)
  BY DEF History!Arrive
<1>2. /\ at' \in [HistoryTasks -> History!Stages] /\ at'[t] = stage /\ at[t] = "idle"
      /\ \A r \in HistoryTasks \ {t} : at'[r] = at[r]
  BY <1>1, TaskGoes DEF History!Arrive, HistoryInv, History!Stages
<1>3. /\ running = NoTask /\ running' = t
      /\ UNCHANGED <<holder, queue, lists, current, reactions, store, held, kept, torn>>
  BY DEF History!Arrive
<1>4. History!TypeOK'
  BY <1>2, <1>3 DEF HistoryInv, History!TypeOK, History!LockTypeOK
<1>5. SharedList' /\ History!HistoryIsExact' /\ Pending' /\ Stored'
  BY <1>2, <1>3 DEF HistoryInv, SharedList, History!HistoryIsExact, Pending, Stored,
     History!Content, History!Snapshot, History!LockAssumption
<1> QED BY <1>4, <1>5 DEF HistoryInv

LEMMA WaitKeeps == ASSUME History!LockAssumption, HistoryInv, NEW t \in HistoryTasks,
                          History!Wait(t) PROVE HistoryInv'
<1>1. /\ running = t /\ running' = NoTask /\ queue' = Append(queue, t) /\ holder' = holder
      /\ UNCHANGED History!memoryVars
  BY DEF History!Wait, History!Queue
<1>2. queue' \in Seq(HistoryTasks) /\ History!Range(queue') = History!Range(queue) \cup {t}
  BY <1>1, RangeOfAppend DEF HistoryInv, History!TypeOK, History!LockTypeOK
<1>3. History!TypeOK'
  BY <1>1, <1>2 DEF HistoryInv, History!TypeOK, History!LockTypeOK, History!memoryVars
<1>4. Pending'
  BY <1>1, <1>2 DEF HistoryInv, Pending, History!memoryVars
<1>5. SharedList' /\ History!HistoryIsExact' /\ Stored'
  BY <1>1 DEF HistoryInv, SharedList, History!HistoryIsExact, Stored, History!Content,
     History!Snapshot, History!memoryVars
<1> QED BY <1>3, <1>4, <1>5 DEF HistoryInv

\* The list that grows is the one that reactions hold.
LEMMA ExtendKeeps == ASSUME History!LockAssumption, HistoryInv, NEW t \in HistoryTasks,
                            History!Extend(t) PROVE HistoryInv'
<1>1. /\ History!Granted(t) /\ running' = NoTask /\ holder' = t /\ History!Go(t, "post")
      /\ kept' = kept \cup {t} /\ UNCHANGED <<reactions, store, job, held, torn>>
  BY DEF History!Extend, History!Post
<1>2. /\ at' \in [HistoryTasks -> History!Stages] /\ at'[t] = "post"
      /\ \A r \in HistoryTasks \ {t} : at'[r] = at[r]
  BY <1>1, TaskGoes DEF HistoryInv, History!Stages
<1>3. Pending' /\ Stored'
  BY <1>1, <1>2, PendingKept DEF HistoryInv, Stored
<1>4. History!LockTypeOK'
  BY <1>1, GrantedMeans DEF HistoryInv, History!TypeOK, History!LockTypeOK
<1>5. /\ lists \in Seq(Seq(HistoryTasks)) /\ current \in 0..Len(lists) /\ held \in [HistoryTasks -> 0..Len(lists)]
      /\ Len(lists) \in Nat
  BY DEF HistoryInv, History!TypeOK
<1>6. CASE current = 0
  <2>1. lists' = Append(lists, <<t>>) /\ current' = Len(lists') /\ <<t>> \in Seq(HistoryTasks)
    BY <1>6 DEF History!Extend
  <2>2. /\ lists' \in Seq(Seq(HistoryTasks)) /\ Len(lists') = Len(lists) + 1 /\ lists'[current'] = <<t>>
    BY <1>5, <2>1
  <2>3. 0..Len(lists) \subseteq 0..Len(lists')
    BY <1>5, <2>2
  <2>4. held' \in [HistoryTasks -> 0..Len(lists')] /\ current' \in 0..Len(lists') /\ current' # 0
    BY <1>1, <1>5, <2>1, <2>2, <2>3
  <2>5. History!TypeOK'
    BY <1>1, <1>2, <1>4, <2>2, <2>4 DEF HistoryInv, History!TypeOK
  <2>6. ~torn => \A r \in HistoryTasks : at[r] # "set"
    BY <1>6 DEF HistoryInv, SharedList
  <2>7. SharedList'
    BY <1>1, <1>2, <2>6 DEF SharedList
  <2>8. History!Range(<<t>>) = {t} /\ History!Content(0) = <<>>
    BY DEF History!Range, History!Content
  <2>9. History!HistoryIsExact'
    BY <1>1, <1>6, <2>2, <2>4, <2>8, RangeOfEmpty DEF HistoryInv, History!HistoryIsExact,
       History!Content
  <2> QED BY <1>3, <2>5, <2>7, <2>9 DEF HistoryInv
<1>7. CASE current # 0
  <2>1. lists' = [lists EXCEPT ![current] = Append(@, t)] /\ current' = current
    BY <1>7 DEF History!Extend
  <2>2. current \in 1..Len(lists) /\ lists[current] \in Seq(HistoryTasks)
    BY <1>5, <1>7
  <2>3. /\ Append(lists[current], t) \in Seq(HistoryTasks)
        /\ History!Range(Append(lists[current], t)) = History!Range(lists[current]) \cup {t}
    BY <2>2, RangeOfAppend
  <2>4. /\ lists' \in Seq(Seq(HistoryTasks)) /\ Len(lists') = Len(lists)
        /\ lists'[current] = Append(lists[current], t)
    BY <1>5, <2>1, <2>2, <2>3
  <2>5. History!TypeOK'
    BY <1>1, <1>2, <1>4, <1>5, <2>1, <2>4 DEF HistoryInv, History!TypeOK
  <2>6. SharedList'
    BY <1>1, <1>2, <2>1 DEF HistoryInv, SharedList
  <2>7. History!HistoryIsExact'
    BY <1>1, <1>7, <2>1, <2>3, <2>4 DEF HistoryInv, History!HistoryIsExact, History!Content
  <2> QED BY <1>3, <2>5, <2>6, <2>7 DEF HistoryInv
<1> QED BY <1>6, <1>7

\* A clear leaves no list; it tears the history of a reaction under way.
LEMMA RemoveKeeps == ASSUME History!LockAssumption, HistoryInv, NEW t \in HistoryTasks,
                            History!Remove(t) PROVE HistoryInv'
<1>1. /\ History!Granted(t) /\ running' = NoTask /\ holder' = t /\ History!Go(t, "post")
      /\ current' = 0 /\ kept' = {} /\ torn' = (torn \/ \E r \in HistoryTasks : at[r] = "set")
      /\ UNCHANGED <<lists, reactions, store, job, held>>
  BY DEF History!Remove, History!Post
<1>2. /\ at' \in [HistoryTasks -> History!Stages] /\ at'[t] = "post"
      /\ \A r \in HistoryTasks \ {t} : at'[r] = at[r]
  BY <1>1, TaskGoes DEF HistoryInv, History!Stages
<1>3. Pending' /\ Stored'
  BY <1>1, <1>2, PendingKept DEF HistoryInv, Stored
<1>4. History!TypeOK'
  BY <1>1, <1>2, GrantedMeans DEF HistoryInv, History!TypeOK, History!LockTypeOK
<1>5. ~torn' => \A r \in HistoryTasks : at'[r] # "set"
  BY <1>1, <1>2
<1>6. SharedList' /\ History!HistoryIsExact'
  BY <1>1, <1>5, RangeOfEmpty DEF SharedList, History!HistoryIsExact, History!Content
<1> QED BY <1>3, <1>4, <1>6 DEF HistoryInv

\* A reaction looks for its message, and takes hold of the list.
LEMMA FindKeeps == ASSUME History!LockAssumption, HistoryInv, NEW t \in HistoryTasks,
                          History!Find(t) PROVE HistoryInv'
<1>1. PICK stage \in {"history", "over"} : History!Go(t, stage)
  BY DEF History!Find
<1>2. /\ at' \in [HistoryTasks -> History!Stages] /\ at'[t] = stage /\ at[t] = "find"
      /\ \A r \in HistoryTasks \ {t} : at'[r] = at[r]
  BY <1>1, TaskGoes DEF History!Find, HistoryInv, History!Stages
<1>3. /\ History!Granted(t) /\ running' \in HistoryTasks \cup {NoTask} /\ holder' = NoTask
      /\ UNCHANGED <<lists, current, reactions, store, job, held, kept, torn>>
  BY DEF History!Find, History!Read
<1>4. History!TypeOK'
  BY <1>2, <1>3, GrantedMeans DEF HistoryInv, History!TypeOK, History!LockTypeOK
<1>5. Pending'
  BY <1>2, <1>3, PendingKept DEF HistoryInv
<1>6. SharedList' /\ History!HistoryIsExact' /\ Stored'
  BY <1>2, <1>3 DEF HistoryInv, SharedList, History!HistoryIsExact, Stored, History!Content,
     History!Snapshot
<1> QED BY <1>4, <1>5, <1>6 DEF HistoryInv

LEMMA HistoryKeeps == ASSUME History!LockAssumption, HistoryInv, NEW t \in HistoryTasks,
                             History!History(t) PROVE HistoryInv'
<1>1. /\ at[t] = "history" /\ History!Granted(t) /\ holder' = NoTask
      /\ UNCHANGED <<lists, current, store, job, kept, torn>>
  BY DEF History!History, History!Read
<1>2. CASE job[t] \in History!Range(History!Content(current))
  <2>1. /\ running' = t /\ History!Go(t, "set") /\ held' = [held EXCEPT ![t] = current]
        /\ reactions' = [reactions EXCEPT ![job[t]] = @ \cup {t}]
    BY <1>2 DEF History!History, History!Read
  <2>2. /\ at' \in [HistoryTasks -> History!Stages] /\ at'[t] = "set"
        /\ \A r \in HistoryTasks \ {t} : at'[r] = at[r]
    BY <2>1, TaskGoes DEF HistoryInv, History!Stages
  <2>3. current # 0
    BY <1>2, RangeOfEmpty DEF History!Content
  <2>4. /\ held' \in [HistoryTasks -> 0..Len(lists)] /\ held'[t] = current
        /\ \A r \in HistoryTasks \ {t} : held'[r] = held[r]
        /\ reactions' \in [HistoryTasks -> SUBSET HistoryTasks]
    BY <2>1 DEF HistoryInv, History!TypeOK
  <2>5. History!TypeOK'
    BY <1>1, <2>1, <2>2, <2>4, GrantedMeans DEF HistoryInv, History!TypeOK, History!LockTypeOK
  <2>6. Pending' /\ Stored'
    BY <1>1, <2>1, <2>2, PendingKept DEF HistoryInv, Stored
  <2>7. SharedList' /\ History!HistoryIsExact'
    BY <1>1, <2>2, <2>3, <2>4 DEF HistoryInv, SharedList, History!HistoryIsExact, History!Content
  <2> QED BY <2>5, <2>6, <2>7 DEF HistoryInv
<1>3. CASE job[t] \notin History!Range(History!Content(current))
  <2>1. running' = NoTask /\ History!Go(t, "over") /\ UNCHANGED <<reactions, held>>
    BY <1>3 DEF History!History
  <2>2. /\ at' \in [HistoryTasks -> History!Stages] /\ at'[t] = "over"
        /\ \A r \in HistoryTasks \ {t} : at'[r] = at[r]
    BY <2>1, TaskGoes DEF HistoryInv, History!Stages
  <2>3. History!TypeOK'
    BY <1>1, <2>1, <2>2, GrantedMeans DEF HistoryInv, History!TypeOK, History!LockTypeOK
  <2>4. Pending'
    BY <1>1, <2>1, <2>2, PendingKept DEF HistoryInv
  <2>5. SharedList' /\ History!HistoryIsExact' /\ Stored'
    BY <1>1, <2>1, <2>2 DEF HistoryInv, SharedList, History!HistoryIsExact, Stored, History!Content,
       History!Snapshot
  <2> QED BY <2>3, <2>4, <2>5 DEF HistoryInv
<1> QED BY <1>2, <1>3

\* Short of a clear, what a reaction writes back is what is there.
LEMMA SetKeeps == ASSUME History!LockAssumption, HistoryInv, NEW t \in HistoryTasks, History!Set(t)
                  PROVE HistoryInv'
<1>1. /\ at[t] = "set" /\ History!Granted(t) /\ running' = NoTask /\ holder' = t /\ History!Go(t, "post")
      /\ current' = held[t] /\ UNCHANGED <<lists, reactions, store, job, held, kept, torn>>
  BY DEF History!Set, History!Post
<1>2. /\ at' \in [HistoryTasks -> History!Stages] /\ at'[t] = "post"
      /\ \A r \in HistoryTasks \ {t} : at'[r] = at[r]
  BY <1>1, TaskGoes DEF HistoryInv, History!Stages
<1>3. History!TypeOK'
  BY <1>1, <1>2, GrantedMeans DEF HistoryInv, History!TypeOK, History!LockTypeOK
<1>4. Pending' /\ Stored'
  BY <1>1, <1>2, PendingKept DEF HistoryInv, Stored
<1>5. ~torn => current' = current
  BY <1>1 DEF HistoryInv, SharedList
<1>6. SharedList' /\ History!HistoryIsExact'
  BY <1>1, <1>2, <1>5 DEF HistoryInv, SharedList, History!HistoryIsExact, History!Content
<1> QED BY <1>3, <1>4, <1>6 DEF HistoryInv

LEMMA AnswerKeeps == ASSUME History!LockAssumption, HistoryInv, NEW t \in HistoryTasks,
                            History!Answer(t) PROVE HistoryInv'
<1>1. /\ at[t] = "post" /\ running = NoTask /\ holder = t /\ holder' = NoTask /\ running' = NoTask
      /\ queue' = queue /\ History!Go(t, "over") /\ store' = History!Snapshot(History!Content(current), reactions)
      /\ UNCHANGED <<lists, current, reactions, job, held, kept, torn>>
  BY DEF History!Answer, History!Posted
<1>2. /\ at' \in [HistoryTasks -> History!Stages] /\ at'[t] = "over"
      /\ \A r \in HistoryTasks \ {t} : at'[r] = at[r]
  BY <1>1, TaskGoes DEF HistoryInv, History!Stages
<1>3. History!TypeOK'
  BY <1>1, <1>2 DEF HistoryInv, History!TypeOK, History!LockTypeOK
<1>4. Pending'
  BY <1>1, <1>2 DEF HistoryInv, Pending, History!LockAssumption
<1>5. SharedList' /\ History!HistoryIsExact' /\ Stored'
  BY <1>1, <1>2 DEF HistoryInv, SharedList, History!HistoryIsExact, Stored, History!Content,
     History!Snapshot
<1> QED BY <1>3, <1>4, <1>5 DEF HistoryInv

LEMMA HistoryNextKeeps ==
  ASSUME History!LockAssumption, HistoryInv, [History!Next]_(History!vars) PROVE HistoryInv'
<1>1. ASSUME UNCHANGED History!vars PROVE HistoryInv'
  BY <1>1 DEF History!vars, History!lockVars, History!memoryVars, HistoryInv, History!TypeOK,
              History!LockTypeOK, SharedList, History!HistoryIsExact, Pending, Stored,
              History!Content, History!Snapshot
<1>2. ASSUME History!Next PROVE HistoryInv'
  BY <1>2, ArriveKeeps, WaitKeeps, ExtendKeeps, RemoveKeeps, FindKeeps, HistoryKeeps, SetKeeps,
     AnswerKeeps DEF History!Next
<1> QED BY <1>1, <1>2

\* Nobody holds the lock, runs or waits: nothing is left to post.
LEMMA AllIsStored == ASSUME History!LockAssumption, HistoryInv PROVE History!AllStored
<1> SUFFICES ASSUME running = NoTask, holder = NoTask, queue = <<>>
             PROVE  store = History!Snapshot(History!Content(current), reactions)
  BY DEF History!AllStored
<1>1. ASSUME NEW t \in HistoryTasks PROVE at[t] \notin {"set", "post"}
  <2>1. t # NoTask /\ t \notin History!Range(queue)
    BY RangeOfEmpty DEF History!LockAssumption
  <2>2. /\ at[t] = "post" => holder = t
        /\ at[t] = "set" => running = t \/ t \in History!Range(queue)
    BY DEF HistoryInv, Pending
  <2>3. holder = NoTask /\ running = NoTask
    OBVIOUS
  <2> QED BY <2>1, <2>2, <2>3
<1> QED BY <1>1 DEF HistoryInv, Stored

------------------------------------------------------------------------------
(* The display names. *)

\* what an asker holds at each stage
AskStates ==
  {Display!Idle} \cup [stage : {"rpc"}, uuid : Uuids, name : {NoName}]
         \cup [stage : {"name", "user"}, uuid : Uuids, name : Display!Names]
NamesTyped ==
  /\ profile \in [Uuids -> Given \cup {NoName}]
  /\ names \in [Uuids -> Display!Names \cup {NoName}] /\ users \in SUBSET (Display!Names \X Uuids)
  /\ asking \in [Askers -> AskStates]
  /\ stored \in [names : [Uuids -> Display!Names \cup {NoName}], users : SUBSET (Display!Names \X Uuids)]
  /\ crashes \in Nat /\ halved \in SUBSET Uuids

\* a name has the digits of whom it was made for (user_short)
OwnName ==
  /\ \A u \in Uuids : names[u] # NoName => names[u][2] = Digits[u]
  /\ \A a \in Askers : asking[a].stage = "name" => asking[a].name[2] = Digits[asking[a].uuid]
  /\ \A u \in Uuids : stored.names[u] # NoName => stored.names[u][2] = Digits[u]

\* a name that is shown is in the other dict, or about to be put there, short of
\* what NamesLeadBack excepts
Leads ==
  crashes = 0 =>
    \A u \in Uuids :
      \/ names[u] = NoName \/ <<names[u], u>> \in users
      \/ \E a \in Askers : asking[a].stage = "name" /\ asking[a].uuid = u /\ asking[a].name = names[u]
      \/ Display!TakenOver(u) \/ u \in halved

NamesInv == NamesTyped /\ OwnName /\ Leads

LEMMA NamesInitIsInv == Display!Init => NamesInv
<1> SUFFICES ASSUME Display!Init PROVE NamesInv
  OBVIOUS
<1>1. NamesTyped
  <2>1. names \in [Uuids -> Display!Names \cup {NoName}] /\ users \in SUBSET (Display!Names \X Uuids)
    BY DEF Display!Init
  <2>2. stored \in [names : [Uuids -> Display!Names \cup {NoName}], users : SUBSET (Display!Names \X Uuids)]
    BY <2>1 DEF Display!Init
  <2>3. asking \in [Askers -> AskStates]
    BY DEF Display!Init, AskStates
  <2> QED BY <2>1, <2>2, <2>3 DEF Display!Init, NamesTyped
<1>2. OwnName /\ Leads
  BY DEF Display!Init, OwnName, Leads, Display!Idle
<1> QED BY <1>1, <1>2 DEF NamesInv

\* A step of one asker leaves the others where they are.
LEMMA AskerMoves ==
  ASSUME NamesTyped, NEW a \in Askers, NEW s \in AskStates, asking' = [asking EXCEPT ![a] = s]
  PROVE  /\ asking' \in [Askers -> AskStates] /\ asking'[a] = s
         /\ \A b \in Askers \ {a} : asking'[b] = asking[b]
BY DEF NamesTyped

\* What an asker that has a name holds.
LEMMA HoldsName ==
  ASSUME NamesTyped, NEW a \in Askers
  PROVE  /\ asking[a].stage \in {"name", "user"} =>
              /\ asking[a].uuid \in Uuids /\ asking[a].name \in Display!Names
              /\ [stage |-> "user", uuid |-> asking[a].uuid, name |-> asking[a].name] \in AskStates
         /\ asking[a].stage = "rpc" => asking[a].uuid \in Uuids
<1>1. asking[a] \in AskStates
  BY DEF NamesTyped
<1> QED BY <1>1 DEF AskStates, Display!Idle

LEMMA GetNameKeeps == ASSUME NamesInv, NEW a \in Askers, NEW u \in Uuids, Display!Ask(a, u)
                      PROVE NamesInv'
<1> DEFINE s == [stage |-> "rpc", uuid |-> u, name |-> NoName]
<1>1. s \in AskStates /\ s.stage = "rpc"
  BY DEF AskStates
<1>2. asking' = [asking EXCEPT ![a] = s] /\ asking[a].stage = "idle"
  BY DEF Display!Ask, Display!Step, Display!Idle
<1> HIDE DEF s
<1>3. /\ asking' \in [Askers -> AskStates] /\ asking'[a] = s
      /\ \A b \in Askers \ {a} : asking'[b] = asking[b]
  BY <1>1, <1>2, AskerMoves DEF NamesInv
<1>4. NamesTyped' /\ OwnName'
  BY <1>1, <1>3 DEF Display!Ask, NamesInv, NamesTyped, OwnName
<1>5. Leads'
  BY <1>1, <1>2, <1>3 DEF Display!Ask, NamesInv, Leads, Display!TakenOver
<1> QED BY <1>4, <1>5 DEF NamesInv

LEMMA ContactKeeps == ASSUME NamesInv, NEW a \in Askers, Display!Contact(a) PROVE NamesInv'
<1> DEFINE u == asking[a].uuid
           n == Display!Short(profile[u], u)
<1>1. u \in Uuids /\ asking[a].stage = "rpc"
  BY HoldsName DEF NamesInv, Display!Contact
<1>2. CASE profile[u] = NoName
  <2>1. asking' = [asking EXCEPT ![a] = Display!Idle] /\ Display!Idle \in AskStates /\ Display!Idle.stage = "idle"
    BY <1>2 DEF Display!Contact, AskStates, Display!Idle
  <2>2. /\ asking' \in [Askers -> AskStates] /\ asking'[a] = Display!Idle
        /\ \A b \in Askers \ {a} : asking'[b] = asking[b]
    BY <2>1, AskerMoves DEF NamesInv
  <2>3. UNCHANGED <<profile, names, users, stored, crashes, halved>>
    BY <1>2 DEF Display!Contact
  <2>4. NamesTyped' /\ OwnName'
    BY <2>1, <2>2, <2>3 DEF NamesInv, NamesTyped, OwnName
  <2>5. Leads'
    BY <1>1, <2>1, <2>2, <2>3 DEF NamesInv, Leads, Display!TakenOver
  <2> QED BY <2>4, <2>5 DEF NamesInv
<1>3. CASE profile[u] # NoName
  <2> DEFINE s == [stage |-> "name", uuid |-> u, name |-> n]
  <2>1. profile[u] \in Given /\ n \in Display!Names /\ n[2] = Digits[u]
    BY <1>1, <1>3 DEF NamesInv, NamesTyped, Display!Names, Display!Short
  <2>2. s \in AskStates /\ s.stage = "name" /\ s.uuid = u /\ s.name = n
    BY <1>1, <2>1 DEF AskStates
  <2>3. /\ asking' = [asking EXCEPT ![a] = s] /\ names' = [names EXCEPT ![u] = n]
        /\ UNCHANGED <<profile, users, stored, crashes, halved>>
    BY <1>3 DEF Display!Contact, Display!Step
  <2> HIDE DEF s, n, u
  <2>4. /\ asking' \in [Askers -> AskStates] /\ asking'[a] = s
        /\ \A b \in Askers \ {a} : asking'[b] = asking[b]
    BY <2>2, <2>3, AskerMoves DEF NamesInv
  <2>5. /\ names' \in [Uuids -> Display!Names \cup {NoName}] /\ names'[u] = n
        /\ \A v \in Uuids \ {u} : names'[v] = names[v]
    BY <1>1, <2>1, <2>3 DEF NamesInv, NamesTyped
  <2>6. NamesTyped'
    BY <2>3, <2>4, <2>5 DEF NamesInv, NamesTyped
  <2>7. OwnName'
    BY <2>1, <2>2, <2>3, <2>4, <2>5 DEF NamesInv, OwnName
  <2>8. Leads'
    BY <1>1, <2>2, <2>3, <2>4, <2>5 DEF NamesInv, Leads, Display!TakenOver
  <2> QED BY <2>6, <2>7, <2>8 DEF NamesInv
<1> QED BY <1>2, <1>3

LEMMA SetUserKeeps == ASSUME NamesInv, NEW a \in Askers, Display!SetUser(a) PROVE NamesInv'
<1> DEFINE u == asking[a].uuid
           n == asking[a].name
           s == [stage |-> "user", uuid |-> u, name |-> n]
<1>1. u \in Uuids /\ n \in Display!Names /\ n[2] = Digits[u] /\ asking[a].stage = "name" /\ s \in AskStates /\ s.stage = "user"
  BY HoldsName DEF NamesInv, OwnName, Display!SetUser
<1>2. /\ asking' = [asking EXCEPT ![a] = s] /\ stored' = [stored EXCEPT !.names = names]
      /\ users' = {p \in users : p[1] # n} \cup {<<n, u>>}
      /\ UNCHANGED <<profile, names, crashes, halved>>
  BY DEF Display!SetUser, Display!Step
<1> HIDE DEF s, n, u
<1>3. /\ asking' \in [Askers -> AskStates] /\ asking'[a] = s
      /\ \A b \in Askers \ {a} : asking'[b] = asking[b]
  BY <1>1, <1>2, AskerMoves DEF NamesInv
<1>4. stored' \in [names : [Uuids -> Display!Names \cup {NoName}], users : SUBSET (Display!Names \X Uuids)]
      /\ stored'.names = names
  BY <1>2 DEF NamesInv, NamesTyped
<1>5. users' \in SUBSET (Display!Names \X Uuids)
  BY <1>1, <1>2 DEF NamesInv, NamesTyped
<1>6. NamesTyped'
  BY <1>2, <1>3, <1>4, <1>5 DEF NamesInv, NamesTyped
<1>7. OwnName'
  BY <1>1, <1>2, <1>3, <1>4 DEF NamesInv, OwnName
<1>8. Leads'
  <2> SUFFICES ASSUME crashes' = 0, NEW v \in Uuids, names'[v] # NoName, <<names'[v], v>> \notin users',
                      v \notin halved', ~Display!TakenOver(v)'
               PROVE  \E b \in Askers : asking'[b].stage = "name" /\ asking'[b].uuid = v /\ asking'[b].name = names'[v]
    BY DEF Leads
  <2>1. names' = names /\ <<n, u>> \in users' /\ v \notin halved
    BY <1>2
  <2>2. names[v] # n
    <3>1. SUFFICES ASSUME names[v] = n PROVE FALSE
      OBVIOUS
    <3>2. u # v
      BY <2>1, <3>1
    <3>3. Digits[u] = Digits[v]
      BY <1>1, <2>1, <3>1 DEF NamesInv, OwnName
    <3> QED BY <1>1, <2>1, <3>1, <3>2, <3>3 DEF Display!TakenOver
  <2>3. \A w \in Uuids : <<names[v], w>> \in users => <<names[v], w>> \in users'
    BY <1>2, <2>2
  <2>4. <<names[v], v>> \notin users /\ ~Display!TakenOver(v)
    BY <2>1, <2>3 DEF Display!TakenOver
  <2>5. PICK b \in Askers : asking[b].stage = "name" /\ asking[b].uuid = v /\ asking[b].name = names[v]
    BY <1>2, <2>1, <2>4 DEF NamesInv, Leads
  <2>6. b # a
    BY <2>2, <2>5 DEF n
  <2> QED BY <1>3, <2>1, <2>5, <2>6
<1> QED BY <1>6, <1>7, <1>8 DEF NamesInv

\* the call returns, or raises
LEMMA ReturnNameKeeps == ASSUME NamesInv, NEW a \in Askers, Display!Return(a) \/ Display!Raise(a)
                         PROVE  NamesInv'
<1>1. /\ asking' = [asking EXCEPT ![a] = Display!Idle] /\ Display!Idle \in AskStates
      /\ Display!Idle.stage = "idle"
  BY DEF Display!Return, Display!Raise, AskStates, Display!Idle
<1>2. /\ asking' \in [Askers -> AskStates] /\ asking'[a] = Display!Idle
      /\ \A b \in Askers \ {a} : asking'[b] = asking[b]
  BY <1>1, AskerMoves DEF NamesInv
<1>3. UNCHANGED <<profile, names, users, crashes>>
  BY DEF Display!Return, Display!Raise
<1>4. stored' \in {stored, [stored EXCEPT !.names = names], [stored EXCEPT !.users = users]}
  <2>1. asking[a].stage \in {"idle", "rpc", "name", "user"}
    BY DEF NamesInv, NamesTyped, AskStates, Display!Idle
  <2> QED BY <2>1 DEF Display!Return, Display!Raise
<1>5. stored' \in [names : [Uuids -> Display!Names \cup {NoName}], users : SUBSET (Display!Names \X Uuids)]
      /\ stored'.names \in {stored.names, names}
  BY <1>4 DEF NamesInv, NamesTyped
<1>6. /\ halved' = halved \/ halved' = halved \cup {asking[a].uuid}
      /\ asking[a].stage = "name" => asking[a].uuid \in halved'
  BY DEF Display!Return, Display!Raise
<1>7. halved' \in SUBSET Uuids
  <2>1. asking[a].stage = "name" => asking[a].uuid \in Uuids
    BY HoldsName DEF NamesInv
  <2> QED BY <2>1 DEF Display!Return, Display!Raise, NamesInv, NamesTyped
<1>8. NamesTyped' /\ OwnName'
  BY <1>1, <1>2, <1>3, <1>5, <1>7 DEF NamesInv, NamesTyped, OwnName
<1>9. Leads'
  BY <1>1, <1>2, <1>3, <1>6 DEF NamesInv, Leads, Display!TakenOver
<1> QED BY <1>8, <1>9 DEF NamesInv

LEMMA RenameKeeps == ASSUME NamesInv, NEW u \in Uuids, NEW g \in Given, Display!Rename(u, g)
                     PROVE NamesInv'
<1>1. profile' \in [Uuids -> Given \cup {NoName}]
  BY DEF NamesInv, NamesTyped, Display!Rename
<1> QED BY <1>1 DEF Display!Rename, NamesInv, NamesTyped, OwnName, Leads, Display!TakenOver

LEMMA CrashKeeps == ASSUME NamesInv, Display!Crash PROVE NamesInv'
<1>1. crashes' \in Nat /\ crashes' # 0
  BY DEF Display!Crash, NamesInv, NamesTyped
<1>2. asking' \in [Askers -> AskStates] /\ \A a \in Askers : asking'[a].stage = "idle"
  BY DEF Display!Crash, AskStates, Display!Idle
<1>3. NamesTyped'
  BY <1>1, <1>2 DEF Display!Crash, NamesInv, NamesTyped
<1>4. OwnName' /\ Leads'
  BY <1>1, <1>2 DEF Display!Crash, NamesInv, OwnName, Leads
<1> QED BY <1>3, <1>4 DEF NamesInv

LEMMA NamesNextKeeps == NamesInv /\ [Display!Next]_(Display!vars) => NamesInv'
<1> SUFFICES ASSUME NamesInv, [Display!Next]_(Display!vars) PROVE NamesInv'
  OBVIOUS
<1>1. CASE UNCHANGED Display!vars
  BY <1>1 DEF Display!vars, NamesInv, NamesTyped, OwnName, Leads, Display!TakenOver
<1>2. CASE Display!Next
  BY <1>2, GetNameKeeps, ContactKeeps, SetUserKeeps, ReturnNameKeeps, RenameKeeps, CrashKeeps
     DEF Display!Next
<1> QED BY <1>1, <1>2

LEMMA NamesInvGives == NamesInv => Display!TypeOK /\ Display!NamesLeadBack
<1> SUFFICES ASSUME NamesInv PROVE Display!TypeOK /\ Display!NamesLeadBack
  OBVIOUS
<1>1. Display!TypeOK
  BY DEF NamesInv, NamesTyped, Display!TypeOK, AskStates, Display!Idle
<1>2. ASSUME NEW u \in Uuids, Display!Dangling(u)
      PROVE  Display!TakenOver(u) \/ u \in halved \/ crashes > 0
  BY <1>2 DEF NamesInv, NamesTyped, Leads, Display!Dangling
<1> QED BY <1>1, <1>2 DEF Display!NamesLeadBack

\* Nobody asks for a user whose name is cached, so that no step stores the name.
LEMMA DanglingKept ==
  ASSUME Display!NamesAssumption, NamesInv, [Display!Next]_(Display!vars), NEW u \in Uuids, Display!Dangling(u), crashes' = crashes
  PROVE  Display!Dangling(u)'
<1>1. names[u] # NoName /\ <<names[u], u>> \notin users /\ \A a \in Askers : asking[a].uuid # u
  BY DEF Display!Dangling
<1>2. Display!Idle.uuid # u
  BY DEF Display!NamesAssumption, Display!Idle
<1>3. CASE UNCHANGED Display!vars
  BY <1>1, <1>3 DEF Display!vars, Display!Dangling
<1>4. ASSUME NEW a \in Askers, NEW v \in Uuids, Display!Ask(a, v) PROVE Display!Dangling(u)'
  <2> DEFINE s == [stage |-> "rpc", uuid |-> v, name |-> NoName]
  <2>1. v # u /\ s \in AskStates /\ s.uuid = v /\ asking' = [asking EXCEPT ![a] = s]
    BY <1>1, <1>4 DEF Display!Ask, Display!Step, AskStates
  <2> HIDE DEF s
  <2>2. \A b \in Askers : asking'[b].uuid # u
    BY <1>1, <2>1, AskerMoves DEF NamesInv
  <2> QED BY <1>1, <1>4, <2>2 DEF Display!Ask, Display!Dangling
<1>5. ASSUME NEW a \in Askers, Display!Contact(a) PROVE Display!Dangling(u)'
  <2> DEFINE v == asking[a].uuid
             s == [stage |-> "name", uuid |-> v, name |-> Display!Short(profile[v], v)]
  <2>1. v # u /\ v \in Uuids /\ s.uuid = v
    BY <1>1, <1>5, HoldsName DEF NamesInv, Display!Contact
  <2>2. /\ asking' = [asking EXCEPT ![a] = Display!Idle] \/ asking' = [asking EXCEPT ![a] = s]
        /\ names' = names \/ names' = [names EXCEPT ![v] = Display!Short(profile[v], v)]
        /\ users' = users
    BY <1>5 DEF Display!Contact, Display!Step
  <2> HIDE DEF s
  <2>3. \A b \in Askers : asking'[b].uuid # u
    BY <1>1, <1>2, <2>1, <2>2 DEF NamesInv, NamesTyped
  <2>4. names'[u] = names[u]
    BY <2>1, <2>2 DEF NamesInv, NamesTyped
  <2> QED BY <1>1, <2>2, <2>3, <2>4 DEF Display!Dangling
<1>6. ASSUME NEW a \in Askers, Display!SetUser(a) PROVE Display!Dangling(u)'
  <2> DEFINE v == asking[a].uuid
             s == [stage |-> "user", uuid |-> v, name |-> asking[a].name]
  <2>1. v # u /\ s.uuid = v
    BY <1>1
  <2>2. /\ asking' = [asking EXCEPT ![a] = s] /\ names' = names
        /\ users' = {p \in users : p[1] # asking[a].name} \cup {<<asking[a].name, v>>}
    BY <1>6 DEF Display!SetUser, Display!Step
  <2> HIDE DEF s
  <2>3. \A b \in Askers : asking'[b].uuid # u
    BY <1>1, <2>1, <2>2 DEF NamesInv, NamesTyped
  <2>4. <<names[u], u>> \notin users'
    BY <1>1, <2>1, <2>2
  <2> QED BY <1>1, <2>2, <2>3, <2>4 DEF Display!Dangling
<1>7. ASSUME NEW a \in Askers, Display!Return(a) \/ Display!Raise(a) PROVE Display!Dangling(u)'
  <2>1. asking' = [asking EXCEPT ![a] = Display!Idle] /\ UNCHANGED <<names, users>>
    BY <1>7 DEF Display!Return, Display!Raise
  <2>2. \A b \in Askers : asking'[b].uuid # u
    BY <1>1, <1>2, <2>1 DEF NamesInv, NamesTyped
  <2> QED BY <1>1, <2>1, <2>2 DEF Display!Dangling
<1>8. ASSUME NEW v \in Uuids, NEW g \in Given, Display!Rename(v, g) PROVE Display!Dangling(u)'
  BY <1>1, <1>8 DEF Display!Rename, Display!Dangling
<1>9. ~Display!Crash
  BY DEF Display!Crash, NamesInv, NamesTyped
<1> QED BY <1>3, <1>4, <1>5, <1>6, <1>7, <1>8, <1>9 DEF Display!Next

------------------------------------------------------------------------------
(* The synonyms. *)

\* An instance of the theorems' module beside that of the model: what holds of
\* the one holds of the other, whose operators are the same.
LEMMA SameInit == Synonym!Init <=> Syn!Init
BY DEF Synonym!Init, Syn!Init, Synonym!LockInit, Syn!LockInit, Synonym!None, Syn!None

LEMMA SameNext == Synonym!Next <=> Syn!Next
BY DEF Synonym!Answer, Syn!Answer, Synonym!Arrive, Syn!Arrive, Synonym!At, Syn!At,
   Synonym!Await, Syn!Await, Synonym!Cardinality, Syn!Cardinality, Synonym!Dict, Syn!Dict,
   Synonym!FirstStage, Syn!FirstStage, Synonym!Granted, Syn!Granted, Synonym!Having, Syn!Having,
   Synonym!Keys, Syn!Keys, Synonym!Link, Syn!Link, Synonym!Linking, Syn!Linking, Synonym!ListOf,
   Syn!ListOf, Synonym!Next, Syn!Next, Synonym!None, Syn!None, Synonym!Ops, Syn!Ops, Synonym!Over,
   Syn!Over, Synonym!PairsOf, Syn!PairsOf, Synonym!Post, Syn!Post, Synonym!Posted, Syn!Posted,
   Synonym!Proceed, Syn!Proceed, Synonym!Queue, Syn!Queue, Synonym!Raise, Syn!Raise, Synonym!Read,
   Syn!Read, Synonym!Remove, Syn!Remove, Synonym!Restart, Syn!Restart, Synonym!Restore,
   Syn!Restore, Synonym!SetCode, Syn!SetCode, Synonym!Stages, Syn!Stages, Synonym!Unlink,
   Syn!Unlink, Synonym!Unseen, Syn!Unseen, Synonym!ValidCmds, Syn!ValidCmds, Synonym!Values,
   Syn!Values, Synonym!Wait, Syn!Wait, Synonym!Wake, Syn!Wake, Synonym!Write, Syn!Write,
   Synonym!lockVars, Syn!lockVars, Synonym!synVars, Syn!synVars, Synonym!vars, Syn!vars

LEMMA SameVars == UNCHANGED Synonym!vars <=> UNCHANGED Syn!vars
BY DEF Synonym!vars, Syn!vars, Synonym!lockVars, Syn!lockVars, Synonym!synVars, Syn!synVars

LEMMA SameProperties ==
  /\ Synonym!TypeOK <=> Syn!TypeOK
  /\ Synonym!OneCommandPerWord <=> Syn!OneCommandPerWord
  /\ Synonym!LinksAreKept <=> Syn!LinksAreKept
<1>1. Synonym!TypeOK <=> Syn!TypeOK
  BY DEF Synonym!TypeOK, Syn!TypeOK, Synonym!LockTypeOK, Syn!LockTypeOK, Synonym!Values, Syn!Values,
     Synonym!At, Syn!At, Synonym!Stages, Syn!Stages
<1>2. Synonym!OneCommandPerWord <=> Syn!OneCommandPerWord
  BY DEF Synonym!OneCommandPerWord, Syn!OneCommandPerWord, Synonym!Cardinality, Syn!Cardinality
<1>3. Synonym!LinksAreKept <=> Syn!LinksAreKept
  BY DEF Synonym!LinksAreKept, Syn!LinksAreKept
<1> QED BY <1>1, <1>2, <1>3

LEMMA SameAssumption == Syn!SynonymsAssumption
BY SynonymsAssumption DEF Synonym!SynonymsAssumption, Syn!SynonymsAssumption,
   Synonym!IsFiniteSet, Syn!IsFiniteSet, Synonym!LockAssumption, Syn!LockAssumption

------------------------------------------------------------------------------
(* The parts together. *)

\* A step of one component leaves the variables of the others alone.
LEMMA Parts ==
  ASSUME [BotNext]_botVars
  PROVE  /\ [Next]_vars /\ [Command!Next]_(Command!vars) /\ [History!Next]_(History!vars)
         /\ [Synonym!Next]_(Synonym!vars) /\ [Display!Next]_(Display!vars)
<1>1. UNCHANGED commandVars <=> UNCHANGED Command!vars
  BY DEF commandVars, Command!vars
<1>2. UNCHANGED historyVars <=> UNCHANGED History!vars
  BY DEF historyVars, History!vars, History!lockVars, History!memoryVars
<1>3. UNCHANGED synonymVars <=> UNCHANGED Synonym!vars
  BY DEF synonymVars, Synonym!vars, Synonym!lockVars, Synonym!synVars
<1>4. UNCHANGED nameVars <=> UNCHANGED Display!vars
  BY DEF nameVars, Display!vars
<1>5. UNCHANGED botVars => /\ UNCHANGED vars /\ UNCHANGED commandVars /\ UNCHANGED historyVars
                           /\ UNCHANGED synonymVars /\ UNCHANGED nameVars
  BY DEF botVars
<1>6. /\ Questioning => /\ Next /\ UNCHANGED commandVars /\ UNCHANGED historyVars
                        /\ UNCHANGED synonymVars /\ UNCHANGED nameVars
      /\ Commanding => /\ Command!Next /\ UNCHANGED vars /\ UNCHANGED historyVars
                       /\ UNCHANGED synonymVars /\ UNCHANGED nameVars
      /\ Remembering => /\ History!Next /\ UNCHANGED vars /\ UNCHANGED commandVars
                        /\ UNCHANGED synonymVars /\ UNCHANGED nameVars
      /\ Linking => /\ Synonym!Next /\ UNCHANGED vars /\ UNCHANGED commandVars
                    /\ UNCHANGED historyVars /\ UNCHANGED nameVars
      /\ Naming => /\ Display!Next /\ UNCHANGED vars /\ UNCHANGED commandVars
                   /\ UNCHANGED historyVars /\ UNCHANGED synonymVars
  BY DEF Questioning, Commanding, Remembering, Linking, Naming
<1> HIDE DEF vars, commandVars, historyVars, synonymVars, nameVars
<1> QED BY <1>1, <1>2, <1>3, <1>4, <1>5, <1>6 DEF BotNext

\* The synonyms have their own theorems; the other four keep these invariants.
BotInv == IInv /\ Command!TypeOK /\ HistoryInv /\ NamesInv

LEMMA BotInitIsInv == BotInit => BotInv
BY InitIsInv, CommandInitIsInv, HistoryInitIsInv, NamesInitIsInv DEF BotInit, BotInv

LEMMA BotNextKeeps == BotInv /\ [BotNext]_botVars => BotInv'
<1> SUFFICES ASSUME BotInv, [BotNext]_botVars PROVE BotInv'
  OBVIOUS
<1>1. /\ [Next]_vars /\ [Command!Next]_(Command!vars) /\ [History!Next]_(History!vars)
      /\ [Display!Next]_(Display!vars)
  BY Parts
<1>2. IInv'
  BY <1>1, NextKeeps DEF BotInv
<1>3. Command!TypeOK'
  BY <1>1, CommandNextKeeps DEF BotInv
<1>4. HistoryInv'
  BY <1>1, HistoryNextKeeps, LockAssumption DEF BotInv
<1>5. NamesInv'
  BY <1>1, NamesNextKeeps DEF BotInv
<1> QED BY <1>2, <1>3, <1>4, <1>5 DEF BotInv

LEMMA BotInvariance == BotSpec => []BotInv
BY BotInitIsInv, BotNextKeeps, PTL DEF BotSpec

LEMMA SynonymsRun == BotSpec => Syn!Spec
<1>1. BotInit => Syn!Init
  BY SameInit DEF BotInit
<1>2. [BotNext]_botVars => [Syn!Next]_(Syn!vars)
  BY Parts, SameNext, SameVars
<1> QED BY <1>1, <1>2, PTL DEF BotSpec, Syn!Spec

LEMMA QuestionsRun == BotSpec => Spec
<1>1. BotInit => Init
  BY DEF BotInit
<1>2. [BotNext]_botVars => [Next]_vars
  BY Parts
<1> QED BY <1>1, <1>2, PTL DEF BotSpec, Spec

\* Every variable of every component keeps its type: in particular the history is
\* the list the dict holds, the lock is held and awaited by tasks, a link names a
\* command and a word that are known.
THEOREM BotTypeCorrect == BotSpec => []Types
<1>1. IInv => TypeOK
  BY DEF IInv
<1>2. HistoryInv => History!TypeOK
  BY DEF HistoryInv
<1>3. NamesInv => Display!TypeOK
  BY NamesInvGives
<1>4. BotInv /\ Syn!TypeOK => Types
  BY <1>1, <1>2, <1>3, SameProperties DEF BotInv, Types
<1>5. BotSpec => []Syn!TypeOK
  BY SynonymsRun, SameAssumption, Syn!TypeCorrect
<1> QED BY <1>4, <1>5, BotInvariance, PTL

\* The matrix of string_dist.levenshtein is the edit distance: 0 between equal
\* words only, and otherwise one edit leads to a word that is nearer by 1, and
\* none to one that is nearer by more.  For all words and all commands.
THEOREM IsDistanceHolds == BotSpec => []IsDistance
<1>1. BotInv => IsDistance
  BY DistancesAre DEF BotInv
<1> QED BY <1>1, BotInvariance, PTL

\* A command that is guessed is near what was written, allowed to the sender, and
\* never guessed in a group (match_command).
THEOREM GuessIsSafeHolds == BotSpec => []GuessIsSafe
<1>1. BotInv => GuessIsSafe
  BY GuessesAreSafe DEF BotInv
<1> QED BY <1>1, BotInvariance, PTL

\* If the answers of the commands do not go round in circles, a conversation with
\* an echo is over after as many answers as the commands have ranks, and three
\* (default and do_help, which know their own answers), unless ENABLE_MAGIC makes
\* an answer call what it only resembles.
THEOREM EchoEndsHolds ==
  ASSUME NEW rank \in [Commands -> 0..(MaxTurns - 4)], Settles(rank)
  PROVE  BotSpec => []EchoEnds
<1>1. Command!Init => EchoInv(rank)
  <2> SUFFICES ASSUME Command!Init PROVE turns + Left(rank, heard) < MaxTurns
    BY DEF EchoInv
  <2>1. rank[Help] \in 0..(MaxTurns - 4) /\ MaxTurns \in Nat /\ turns = 0
    BY CommandAssumption DEF Command!CommandAssumption, Command!Init
  <2>2. Left(rank, heard) \in 0..(MaxTurns - 1)
    BY <2>1 DEF Left
  <2> QED BY <2>1, <2>2
<1>2. BotInv /\ EchoInv(rank) /\ [BotNext]_botVars => EchoInv(rank)'
  BY Parts, EchoKeeps DEF BotInv
<1>3. BotInv /\ EchoInv(rank) => EchoEnds
  <2> SUFFICES ASSUME BotInv, EchoInv(rank), ~magic PROVE turns < MaxTurns
    BY DEF EchoEnds, Command!EchoEnds
  <2>1. turns \in Nat /\ MaxTurns \in Nat
    BY CommandAssumption DEF BotInv, Command!TypeOK, Command!CommandAssumption
  <2>2. Left(rank, heard) \in Nat
    BY <2>1 DEF Left
  <2> QED BY <2>1, <2>2 DEF EchoInv
<1>4. BotInit => EchoInv(rank)
  BY <1>1 DEF BotInit
<1> QED BY <1>2, <1>3, <1>4, BotInvariance, PTL DEF BotSpec

\* Short of a clear between its read and its write, a reaction loses no message
\* and brings none back, whatever was saved meanwhile (handle_reaction).
THEOREM HistoryIsExactHolds == BotSpec => []HistoryIsExact
<1>1. BotInv => HistoryIsExact
  BY DEF BotInv, HistoryInv, HistoryIsExact
<1> QED BY <1>1, BotInvariance, PTL

\* When no task is under way the backend has the history with its reactions, torn
\* or not (extend, remove and set of MemoryBot's msgs).
THEOREM AllStoredHolds == BotSpec => []AllStored
<1>1. BotInv => AllStored
  BY AllIsStored, LockAssumption DEF BotInv, AllStored
<1> QED BY <1>1, BotInvariance, PTL

\* A word stands for one visible command, whatever links overlap and restarts
\* come between, but for the links that were checked together with another of
\* their word or before the restore (do_link).
THEOREM OneCommandPerWordHolds == BotSpec => []OneCommandPerWord
<1>1. Syn!OneCommandPerWord => OneCommandPerWord
  BY SameProperties DEF OneCommandPerWord
<1>2. BotSpec => []Syn!OneCommandPerWord
  BY SynonymsRun, SameAssumption, Syn!OneCommandPerWordHolds
<1> QED BY <1>1, <1>2, PTL

\* An acknowledged link stays until it is undone, across restarts, unless first
\* links overlapped or a link was checked before the restore (do_link).
THEOREM LinksAreKeptHolds == BotSpec => []LinksAreKept
<1>1. Syn!LinksAreKept => LinksAreKept
  BY SameProperties DEF LinksAreKept
<1>2. BotSpec => []Syn!LinksAreKept
  BY SynonymsRun, SameAssumption, Syn!LinksAreKeptHolds
<1> QED BY <1>1, <1>2, PTL

\* A name that is shown leads back to its user, whatever tasks overlap and names
\* change, unless a user of the same name and digits took it over or the two sets
\* were torn apart by a crash or an exception (get_displayname, user_short).
THEOREM NamesLeadBackHolds == BotSpec => []NamesLeadBack
<1>1. BotInv => NamesLeadBack
  BY NamesInvGives DEF BotInv, NamesLeadBack
<1> QED BY <1>1, BotInvariance, PTL

\* A name that leads nowhere is not repaired while the process lives: the cached name is
\* returned early (get_displayname).
THEOREM DanglingStaysHolds == BotSpec => DanglingStays
<1>1. BotInv /\ [BotNext]_botVars =>
        [\A u \in Uuids : Display!Dangling(u) /\ crashes' = crashes => Display!Dangling(u)']_(Display!vars)
  BY Parts, DanglingKept, NamesAssumption DEF BotInv
<1> QED BY <1>1, BotInvariance, PTL DEF BotSpec, DanglingStays, Display!DanglingStays
==============================================================================
