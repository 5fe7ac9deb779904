--------------------------- MODULE Synonyms_proofs ---------------------------
(***************************************************************************)
(* Theorems about Synonyms, for any commands, words, code synonyms and     *)
(* tasks: a word that is linked stands for one visible command             *)
(* (OneCommandPerWord), and a link stays until it is undone                *)
(* (LinksAreKept), but for the links that are checked blindly.             *)
(***************************************************************************)
EXTENDS Synonyms, FiniteSetTheorems, TLAPS

LinkWords == Words \ UNION {CodeSyns[c] : c \in Cmds}
Tags == [stage : Stages, cmd : Cmds \cup {""}, word : Words \cup {""}] \cup [stage : Stages]

\* a task whose write is for the command it names
Named(t) == Linking(t) \/ At(t, "removeFrom")

Typed ==
  /\ syns \in [Cmds -> Values] /\ linked \subseteq Cmds \X Words
  /\ todo \in [Tasks -> SUBSET Cmds]
  /\ DOMAIN doing = Tasks /\ doing = [t \in Tasks |-> doing[t]]
  /\ \A t \in Tasks : /\ Named(t) => doing[t].cmd \in Cmds
                      /\ Linking(t) => doing[t].word \in Words

\* links under way at once, of one word or, the one a first link, of one command
Racing ==
  \A t, r \in Tasks : t # r /\ Linking(t) /\ Linking(r) =>
    /\ doing[t].word = doing[r].word => doing[t].word \in blind
    /\ doing[t].cmd = doing[r].cmd /\ At(t, "first") => doing[t].cmd \in blind

\* what the check of do_link found is still so when the link is written
Checked ==
  \A t \in Tasks : Linking(t) =>
    /\ doing[t].word \in LinkWords \ blind =>
         \A c \in Visible : doing[t].word \notin syns[c].words
    /\ At(t, "first") /\ doing[t].cmd \notin blind =>
         \A l \in linked : l[1] # doing[t].cmd

OneEach ==
  \A w \in LinkWords \ blind : \A c, d \in Visible : w \in syns[c].words /\ w \in syns[d].words => c = d

IInv == Typed /\ Racing /\ Checked /\ OneEach /\ LinksAreKept

LEMMA InitIsInv == ASSUME SynonymsAssumption, Init PROVE IInv
<1>1. Typed
  <2>1. None \in Values
    BY DEF None, Values
  <2> QED BY <2>1 DEF Init, Typed, Named, Linking, At
<1>2. Racing /\ Checked
  BY DEF Init, Racing, Checked, Linking, At
<1>3. OneEach
  BY DEF Init, OneEach, None, SynonymsAssumption
<1>4. LinksAreKept
  BY DEF Init, LinksAreKept
<1> QED BY <1>1, <1>2, <1>3, <1>4 DEF IInv

\* A step that begins no link and adds no word to a command or to the history
\* keeps everything.
LEMMA FewerKeep ==
  ASSUME SynonymsAssumption, IInv, Typed',
         blind' = blind, linked' \subseteq linked,
         \A t \in Tasks : Linking(t)' => doing'[t] = doing[t],
         \A c \in Cmds : syns'[c].words \cap LinkWords \subseteq syns[c].words,
         \A l \in linked' : l[2] \in syns[l[1]].words => l[2] \in syns'[l[1]].words
  PROVE  IInv'
<1>1. \A t \in Tasks : Linking(t)' => Linking(t) /\ (At(t, "first")' => At(t, "first"))
  BY DEF Linking, At
<1>2. Racing'
  BY <1>1 DEF IInv, Racing
<1>3. Checked'
  <2> SUFFICES ASSUME NEW t \in Tasks, Linking(t)'
               PROVE  /\ doing'[t].word \in LinkWords \ blind' =>
                           \A c \in Visible : doing'[t].word \notin syns'[c].words
                      /\ At(t, "first")' /\ doing'[t].cmd \notin blind' =>
                           \A l \in linked' : l[1] # doing'[t].cmd
    BY DEF Checked
  <2>1. Linking(t) /\ doing'[t] = doing[t] /\ (At(t, "first")' => At(t, "first"))
    BY <1>1
  <2> QED BY <2>1 DEF IInv, Checked, SynonymsAssumption
<1>4. OneEach'
  BY DEF IInv, OneEach, SynonymsAssumption
<1>5. LinksAreKept'
  BY DEF IInv, LinksAreKept
<1> QED BY <1>2, <1>3, <1>4, <1>5 DEF IInv

\* A write moves its own task on, or leaves it where it is.
LEMMA WriteMoves ==
  ASSUME Typed, NEW t \in Tasks, NEW c \in Cmds, NEW v \in Values, NEW rest \in SUBSET Cmds,
         Write(t, c, v, rest)
  PROVE  /\ DOMAIN doing' = Tasks /\ doing' = [r \in Tasks |-> doing'[r]]
         /\ \A r \in Tasks : Named(r)' => doing'[r] = doing[r]
         /\ \A r \in Tasks \ {t} : doing'[r] = doing[r]
         /\ rest = {} => ~Named(t)'
         /\ todo' \in [Tasks -> SUBSET Cmds]
         /\ syns' \in [Cmds -> Values] /\ syns'[c] = v
         /\ \A d \in Cmds \ {c} : syns'[d] = syns[d]
         /\ blind' = blind
<1>1. syns' = [syns EXCEPT ![c] = v] /\ todo' = [todo EXCEPT ![t] = rest] /\ blind' = blind
  BY DEF Write
<1>2. CASE rest = {}
  <2>1. doing' = [doing EXCEPT ![t] = Over]
    BY <1>2 DEF Write
  <2>2. /\ DOMAIN doing' = Tasks /\ doing'[t] = Over
        /\ \A r \in Tasks \ {t} : doing'[r] = doing[r]
    BY <2>1 DEF Typed
  <2>3. ~Named(t)'
    BY <2>2 DEF Named, Linking, At, Over
  <2>4. doing' = [r \in Tasks |-> doing'[r]]
    BY <2>1 DEF Typed
  <2> QED BY <1>1, <2>2, <2>3, <2>4 DEF Typed
<1>3. CASE rest # {}
  <2>1. doing' = [doing EXCEPT ![t] = doing[t]]
    BY <1>3 DEF Write
  <2>2. doing' = doing
    BY <2>1 DEF Typed
  <2> QED BY <1>1, <1>3, <2>2 DEF Typed
<1> QED BY <1>2, <1>3

\* A link is written as its check found the dict, short of a race.
LEMMA LinkKeeps == ASSUME SynonymsAssumption, IInv, NEW t \in Tasks, Link(t) PROVE IInv'
<1> DEFINE c == doing[t].cmd
           w == doing[t].word
<1>1. Linking(t) /\ c \in Cmds /\ w \in Words /\ syns[c].words \subseteq Words
  BY DEF Link, Named, Linking, IInv, Typed, Values
<1>2. PICK v \in Values : /\ Write(t, c, v, {}) /\ w \in v.words /\ v.words \subseteq syns[c].words \cup {w}
                          /\ At(t, "first") \/ syns[c].words \subseteq v.words
  <2>1. ListOf({w}) \in Values /\ ListOf(syns[c].words \cup {w}) \in Values
    BY <1>1 DEF ListOf, Values
  <2>2. ListOf({w}).words = {w} /\ ListOf(syns[c].words \cup {w}).words = syns[c].words \cup {w}
    BY DEF ListOf
  <2> QED BY <2>1, <2>2 DEF Link
<1>3. linked' = linked \cup {<<c, w>>}
  BY DEF Link
<1>4. /\ DOMAIN doing' = Tasks /\ doing' = [r \in Tasks |-> doing'[r]]
      /\ \A r \in Tasks : Named(r)' => doing'[r] = doing[r]
      /\ \A r \in Tasks \ {t} : doing'[r] = doing[r]
      /\ ~Named(t)'
      /\ todo' \in [Tasks -> SUBSET Cmds]
      /\ syns' \in [Cmds -> Values] /\ syns'[c] = v
      /\ \A d \in Cmds \ {c} : syns'[d] = syns[d]
      /\ blind' = blind
  BY <1>1, <1>2, WriteMoves DEF IInv
<1> HIDE DEF c, w
<1>5. \A r \in Tasks : Linking(r)' => r # t /\ Linking(r) /\ (At(r, "first")' => At(r, "first"))
  BY <1>4 DEF Named, Linking, At
<1>6. Typed'
  <2>1. \A r \in Tasks : Named(r)' => Named(r)
    BY <1>4 DEF Named, Linking, At
  <2> QED BY <1>1, <1>3, <1>4, <1>5, <2>1 DEF IInv, Typed
<1>7. Racing'
  BY <1>4, <1>5 DEF IInv, Racing, Named
<1>8. \A r \in Tasks \ {t} : Linking(r) =>
        /\ doing[r].word = w => w \in blind
        /\ doing[r].cmd = c /\ At(r, "first") => c \in blind
        /\ doing[r].cmd = c /\ At(t, "first") => c \in blind
  BY <1>1 DEF IInv, Racing, c, w
<1>9. Checked'
  <2> SUFFICES ASSUME NEW r \in Tasks, Linking(r)'
               PROVE  /\ doing'[r].word \in LinkWords \ blind' =>
                           \A d \in Visible : doing'[r].word \notin syns'[d].words
                      /\ At(r, "first")' /\ doing'[r].cmd \notin blind' =>
                           \A l \in linked' : l[1] # doing'[r].cmd
    BY DEF Checked
  <2>1. r # t /\ Linking(r) /\ doing'[r] = doing[r] /\ (At(r, "first")' => At(r, "first"))
    BY <1>4, <1>5 DEF Named
  <2>2. ASSUME doing[r].word \in LinkWords \ blind, NEW d \in Visible
        PROVE  doing[r].word \notin syns'[d].words
    <3>1. doing[r].word # w /\ doing[r].word \notin syns[d].words
      BY <1>8, <2>1, <2>2 DEF IInv, Checked
    <3>2. d \in Cmds
      BY DEF SynonymsAssumption
    <3> QED BY <1>2, <1>4, <3>1, <3>2
  <2>3. ASSUME At(r, "first"), doing[r].cmd \notin blind, NEW l \in linked'
        PROVE  l[1] # doing[r].cmd
    <3>1. doing[r].cmd # c
      BY <1>8, <2>1, <2>3
    <3>2. l \in linked => l[1] # doing[r].cmd
      BY <2>1, <2>3 DEF IInv, Checked
    <3> QED BY <1>3, <3>1, <3>2
  <2> QED BY <1>4, <2>1, <2>2, <2>3
<1>10. OneEach'
  <2> SUFFICES ASSUME NEW x \in LinkWords \ blind', NEW d \in Visible, NEW e \in Visible,
                      x \in syns'[d].words, x \in syns'[e].words
               PROVE  d = e
    BY DEF OneEach
  <2>1. d \in Cmds /\ e \in Cmds
    BY DEF SynonymsAssumption
  <2>2. CASE x = w
    <3>1. \A f \in Visible : w \notin syns[f].words
      BY <1>1, <1>4, <2>2 DEF IInv, Checked, w
    <3> QED BY <1>4, <2>1, <2>2, <3>1
  <2>3. CASE x # w
    <3>1. x \in syns[d].words /\ x \in syns[e].words
      BY <1>2, <1>4, <2>1, <2>3
    <3> QED BY <1>4, <3>1 DEF IInv, OneEach
  <2> QED BY <2>2, <2>3
<1>11. LinksAreKept'
  <2> SUFFICES ASSUME NEW l \in linked', l[1] \notin blind
               PROVE  l[2] \in syns'[l[1]].words
    BY <1>4 DEF LinksAreKept
  <2>1. CASE l = <<c, w>>
    BY <1>2, <1>4, <2>1
  <2>2. CASE l \in linked
    <3>1. l[1] \in Cmds /\ l[2] \in syns[l[1]].words
      BY <2>2 DEF IInv, Typed, LinksAreKept
    <3>2. CASE l[1] # c
      BY <1>4, <3>1, <3>2
    <3>3. CASE l[1] = c
      <4>1. ~At(t, "first")
        BY <1>1, <2>2, <3>3 DEF IInv, Checked, c
      <4> QED BY <1>2, <1>4, <3>1, <3>3, <4>1
    <3> QED BY <3>2, <3>3
  <2> QED BY <1>3, <2>1, <2>2
<1> QED BY <1>6, <1>7, <1>9, <1>10, <1>11 DEF IInv

\* A word leaves a command, with its link.
LEMMA UnlinkKeeps == ASSUME SynonymsAssumption, IInv, NEW t \in Tasks, Unlink(t) PROVE IInv'
<1> DEFINE c == doing[t].cmd
           w == doing[t].word
           v == ListOf(syns[c].words \ {w})
<1> c \in Cmds
  BY DEF Unlink, IInv, Typed, Named
<1>1. v \in Values /\ v.words = syns[c].words \ {w}
  BY DEF IInv, Typed, Values, ListOf
<1>2. Write(t, c, v, {}) /\ linked' = linked \ {<<c, w>>}
  BY DEF Unlink
<1> HIDE DEF v
<1>3. /\ DOMAIN doing' = Tasks /\ doing' = [r \in Tasks |-> doing'[r]]
      /\ \A r \in Tasks : Named(r)' => doing'[r] = doing[r]
      /\ todo' \in [Tasks -> SUBSET Cmds]
      /\ syns' \in [Cmds -> Values] /\ syns'[c] = v
      /\ \A d \in Cmds \ {c} : syns'[d] = syns[d]
      /\ blind' = blind
  BY <1>1, <1>2, WriteMoves DEF IInv
<1>4. \A r \in Tasks : (Named(r)' => Named(r)) /\ (Linking(r)' => Linking(r) /\ doing'[r] = doing[r])
  BY <1>3 DEF Named, Linking, At
<1>5. Typed'
  BY <1>2, <1>3, <1>4 DEF IInv, Typed
<1>6. \A d \in Cmds : syns'[d].words \cap LinkWords \subseteq syns[d].words
  BY <1>1, <1>3
<1>7. \A l \in linked' : l[2] \in syns[l[1]].words => l[2] \in syns'[l[1]].words
  <2> SUFFICES ASSUME NEW l \in linked', l[2] \in syns[l[1]].words PROVE l[2] \in syns'[l[1]].words
    OBVIOUS
  <2>1. l \in Cmds \X Words /\ l # <<c, w>>
    BY <1>2 DEF IInv, Typed
  <2> QED BY <1>1, <1>3, <2>1
<1> QED BY <1>2, <1>3, <1>5, <1>6, <1>7, FewerKeep DEF Named

\* do_build_synonyms and do_clear_synonyms: the words of the code or none, and
\* the command's links are no longer meant to stay.
LEMMA ReplaceKeeps == ASSUME SynonymsAssumption, IInv, NEW t \in Tasks, SetCode(t) \/ Remove(t)
                      PROVE IInv'
<1>1. PICK c \in todo[t], v \in Values :
        /\ Write(t, c, v, todo[t] \ {c}) /\ linked' = linked \ PairsOf(c)
        /\ v.words \subseteq CodeSyns[c]
  <2>1. \A c \in todo[t] : c \in Cmds
    BY DEF IInv, Typed
  <2>2. \A c \in Cmds : [kind |-> "tuple", words |-> CodeSyns[c]] \in Values
    BY DEF SynonymsAssumption, Values
  <2>3. None \in Values /\ None.words = {}
    BY DEF None, Values
  <2>4. \A c \in Cmds : [kind |-> "tuple", words |-> CodeSyns[c]].words = CodeSyns[c]
    OBVIOUS
  <2>5. CASE SetCode(t)
    BY <2>1, <2>2, <2>4, <2>5 DEF SetCode
  <2>6. CASE Remove(t)
    BY <2>1, <2>3, <2>6 DEF Remove
  <2> QED BY <2>5, <2>6
<1>2. c \in Cmds /\ todo[t] \ {c} \in SUBSET Cmds
  BY DEF IInv, Typed
<1>3. /\ DOMAIN doing' = Tasks /\ doing' = [r \in Tasks |-> doing'[r]]
      /\ \A r \in Tasks : Named(r)' => doing'[r] = doing[r]
      /\ todo' \in [Tasks -> SUBSET Cmds]
      /\ syns' \in [Cmds -> Values] /\ syns'[c] = v
      /\ \A d \in Cmds \ {c} : syns'[d] = syns[d]
      /\ blind' = blind
  BY <1>1, <1>2, WriteMoves DEF IInv
<1>4. \A r \in Tasks : (Named(r)' => Named(r)) /\ (Linking(r)' => Linking(r) /\ doing'[r] = doing[r])
  BY <1>3 DEF Named, Linking, At
<1>5. Typed'
  BY <1>1, <1>3, <1>4 DEF IInv, Typed
<1>6. \A d \in Cmds : syns'[d].words \cap LinkWords \subseteq syns[d].words
  BY <1>1, <1>2, <1>3 DEF LinkWords
<1>7. \A l \in linked' : l[2] \in syns[l[1]].words => l[2] \in syns'[l[1]].words
  <2> SUFFICES ASSUME NEW l \in linked', l[2] \in syns[l[1]].words PROVE l[2] \in syns'[l[1]].words
    OBVIOUS
  <2>1. l \in Cmds \X Words /\ l[1] # c
    BY <1>1 DEF IInv, Typed, PairsOf
  <2> QED BY <1>3, <2>1
<1> QED BY <1>1, <1>3, <1>5, <1>6, <1>7, FewerKeep DEF Named

\* A step that only moves one task on, to where it names no command.
LEMMA OnlyMovesKeep ==
  ASSUME SynonymsAssumption, IInv, NEW t \in Tasks, NEW v,
         v.stage \notin {"first", "extend", "removeFrom"},
         doing' = [doing EXCEPT ![t] = v],
         todo' \in [Tasks -> SUBSET Cmds], UNCHANGED <<syns, linked, blind>>
  PROVE  IInv'
<1>1. /\ DOMAIN doing' = Tasks /\ doing' = [r \in Tasks |-> doing'[r]]
      /\ doing'[t] = v /\ \A r \in Tasks \ {t} : doing'[r] = doing[r]
  BY DEF IInv, Typed
<1>2. ~Named(t)'
  BY <1>1 DEF Named, Linking, At
<1>3. \A r \in Tasks : /\ Named(r)' => Named(r) /\ doing'[r] = doing[r]
                       /\ Linking(r)' => Linking(r) /\ doing'[r] = doing[r]
  BY <1>1, <1>2 DEF Named, Linking, At
<1>4. Typed'
  BY <1>1, <1>3 DEF IInv, Typed
<1> QED BY <1>3, <1>4, FewerKeep

\* What the checks of an operation leave: a link of a word that no command its
\* sender can see has, a removal from a command.
LEMMA FirstStageIs ==
  ASSUME SynonymsAssumption, NEW o \in Ops
  PROVE  /\ FirstStage(o) \in {"over", "first", "extend", "removeFrom", "setCode", "keys"}
         /\ FirstStage(o) \in {"first", "extend"} =>
              o.op = "link" /\ o.cmd \in Cmds /\ o.word \in Words /\ Having(o, o.word) = {}
         /\ FirstStage(o) = "first" => Dict[o.cmd] = None
         /\ FirstStage(o) = "removeFrom" =>
              \/ o.op = "unlink" /\ o.cmd \in Cmds
              \/ o.op = "unlinkWord" /\ (CHOOSE c \in Having(o, o.word) : TRUE) \in Cmds
<1>1. o.op \in {"link", "unlink", "unlinkWord", "build", "clear"}
  BY DEF Ops
<1>2. o.op \in {"link", "unlink", "unlinkWord"} => o.cmd \in Cmds /\ o.word \in Words
  BY DEF Ops
<1>3. CASE o.op = "link"
  <2>1. FirstStage(o) = IF o.cmd \notin ValidCmds(o) \/ o.word \in ValidCmds(o) \/ Having(o, o.word) # {}
                        THEN "over" ELSE IF Dict[o.cmd] = None THEN "first" ELSE "extend"
    BY <1>3 DEF FirstStage
  <2> QED BY <1>2, <1>3, <2>1
<1>4. CASE o.op = "unlink"
  <2>1. FirstStage(o) = IF o.cmd \in Having(o, o.word) THEN "removeFrom" ELSE "over"
    BY <1>4 DEF FirstStage
  <2> QED BY <1>2, <1>4, <2>1
<1>5. CASE o.op = "unlinkWord"
  <2>1. FirstStage(o) = IF Cardinality(Having(o, o.word)) = 1 THEN "removeFrom" ELSE "over"
    BY <1>5 DEF FirstStage
  <2>2. Cardinality(Having(o, o.word)) = 1 => Having(o, o.word) # {}
    BY FS_EmptySet
  <2>3. Having(o, o.word) \subseteq Cmds
    BY DEF Having, ValidCmds, SynonymsAssumption
  <2>4. Having(o, o.word) # {} => (CHOOSE c \in Having(o, o.word) : TRUE) \in Having(o, o.word)
    OBVIOUS
  <2> QED BY <1>5, <2>1, <2>2, <2>3, <2>4
<1>6. CASE o.op \in {"build", "clear"}
  <2>1. FirstStage(o) = IF o.op = "build" THEN "setCode" ELSE "keys"
    BY <1>6 DEF FirstStage
  <2> QED BY <1>6, <2>1
<1> QED BY <1>1, <1>3, <1>4, <1>5, <1>6

\* A new link sees the links that were made, and races those under way.
LEMMA ArriveKeeps == ASSUME SynonymsAssumption, IInv, NEW t \in Tasks, NEW o \in Ops, Arrive(t, o)
                     PROVE IInv'
<1> DEFINE stage == FirstStage(o)
           cmd == IF o.op = "unlinkWord" THEN CHOOSE c \in Having(o, o.word) : TRUE ELSE o.cmd
           rec == [stage |-> stage, cmd |-> cmd, word |-> o.word]
           rest == IF stage = "setCode" THEN {c \in Cmds : CodeSyns[c] # {}} ELSE {}
<1>1. /\ doing' = [doing EXCEPT ![t] = IF stage = "over" THEN Over ELSE rec]
      /\ todo' = [todo EXCEPT ![t] = rest] /\ UNCHANGED <<syns, linked>>
      /\ blind' = IF stage \in {"first", "extend"} THEN blind \cup Unseen(stage, cmd, o.word) ELSE blind
  BY DEF Arrive
<1>2. rest \in SUBSET Cmds
  OBVIOUS
<1>3. todo' \in [Tasks -> SUBSET Cmds]
  BY <1>1, <1>2 DEF IInv, Typed
<1>4. rec.stage = stage /\ rec.cmd = cmd /\ rec.word = o.word
  OBVIOUS
<1>5. /\ stage \in {"over", "first", "extend", "removeFrom", "setCode", "keys"}
      /\ stage \in {"first", "extend"} =>
           o.cmd \in Cmds /\ cmd = o.cmd /\ o.word \in Words /\ Having(o, o.word) = {}
      /\ stage = "first" => Dict[o.cmd] = None
      /\ stage = "removeFrom" => cmd \in Cmds
  BY FirstStageIs
<1> HIDE DEF rest, rec, cmd, stage
<1>6. CASE stage = "over"
  <2>1. doing' = [doing EXCEPT ![t] = Over] /\ blind' = blind
    BY <1>1, <1>6
  <2>2. Over.stage = "over"
    BY DEF Over
  <2> QED BY <1>1, <1>3, <2>1, <2>2, OnlyMovesKeep
<1>7. CASE stage \in {"setCode", "keys"}
  <2>1. doing' = [doing EXCEPT ![t] = rec] /\ blind' = blind
    BY <1>1, <1>7
  <2> QED BY <1>1, <1>3, <1>4, <1>7, <2>1, OnlyMovesKeep
<1>8. CASE stage \in {"removeFrom", "first", "extend"}
  <2>1. doing' = [doing EXCEPT ![t] = rec]
    BY <1>1, <1>8
  <2>2. /\ DOMAIN doing' = Tasks /\ doing' = [r \in Tasks |-> doing'[r]]
        /\ doing'[t] = rec /\ \A r \in Tasks \ {t} : doing'[r] = doing[r]
    BY <2>1 DEF IInv, Typed
  <2>3. \A r \in Tasks \ {t} : /\ Named(r)' <=> Named(r)
                               /\ Linking(r)' <=> Linking(r)
                               /\ At(r, "first")' <=> At(r, "first")
    BY <2>2 DEF Named, Linking, At
  <2>4. /\ At(t, "first")' <=> stage = "first"
        /\ Linking(t)' <=> stage \in {"first", "extend"}
    BY <1>4, <2>2 DEF Linking, At
  <2>5. Typed'
    BY <1>1, <1>3, <1>4, <1>5, <1>8, <2>2, <2>3, <2>4 DEF IInv, Typed
  <2>6. CASE stage = "removeFrom"
    <3>1. blind' = blind
      BY <1>1, <2>6
    <3>2. \A r \in Tasks : Linking(r)' => doing'[r] = doing[r]
      BY <2>2, <2>4, <2>6
    <3> QED BY <1>1, <2>5, <3>1, <3>2, FewerKeep
  <2>7. CASE stage \in {"first", "extend"}
    <3>1. blind' = blind \cup Unseen(stage, cmd, o.word)
      BY <1>1, <2>7
    <3>2. \A r \in Tasks \ {t} : Linking(r) =>
            /\ doing[r].word = o.word => o.word \in blind'
            /\ doing[r].cmd = cmd /\ (At(r, "first") \/ stage = "first") => cmd \in blind'
      BY <3>1 DEF Unseen
    <3>3. Racing'
      BY <1>4, <2>2, <2>3, <2>4, <3>1, <3>2 DEF IInv, Racing
    <3>4. Checked'
      <4> SUFFICES ASSUME NEW r \in Tasks, Linking(r)'
                   PROVE  /\ doing'[r].word \in LinkWords \ blind' =>
                               \A c \in Visible : doing'[r].word \notin syns[c].words
                          /\ At(r, "first")' /\ doing'[r].cmd \notin blind' =>
                               \A l \in linked : l[1] # doing'[r].cmd
        BY <1>1 DEF Checked
      <4>1. CASE r # t
        BY <2>2, <2>3, <3>1, <4>1 DEF IInv, Checked
      <4>2. CASE r = t
        <5>0. CASE ~restored
          BY <1>4, <2>2, <3>1, <4>2, <5>0 DEF Unseen
        <5>1. ASSUME restored PROVE \A c \in Visible : o.word \notin syns[c].words
          BY <1>5, <2>7, <5>1 DEF Having, ValidCmds, Dict, SynonymsAssumption
        <5>2. ASSUME restored, stage = "first", cmd \notin blind, NEW l \in linked
              PROVE  l[1] # cmd
          BY <1>5, <5>2 DEF IInv, LinksAreKept, Dict, None
        <5> QED BY <1>4, <2>2, <2>4, <3>1, <4>2, <5>0, <5>1, <5>2
      <4> QED BY <4>1, <4>2
    <3>5. OneEach' /\ LinksAreKept'
      BY <1>1, <3>1 DEF IInv, OneEach, LinksAreKept
    <3> QED BY <2>5, <3>3, <3>4, <3>5 DEF IInv
  <2> QED BY <1>8, <2>6, <2>7
<1> QED BY <1>5, <1>6, <1>7, <1>8

\* Raising, and the list of the commands to clear.
LEMMA OthersKeep == ASSUME SynonymsAssumption, IInv, NEW t \in Tasks,
                           \/ Raise(t) \/ Keys(t) \/ UNCHANGED synVars
                           \/ Await(t) \/ Wake(t)
                    PROVE  IInv'
<1>1. CASE Raise(t)
  <2>1. Over.stage = "over"
    BY DEF Over
  <2>2. todo' = todo /\ doing' = [doing EXCEPT ![t] = Over] /\ UNCHANGED <<syns, linked, blind>>
    BY <1>1 DEF Raise
  <2>3. todo' \in [Tasks -> SUBSET Cmds]
    BY <2>2 DEF IInv, Typed
  <2> QED BY <2>1, <2>2, <2>3, OnlyMovesKeep
<1>2. CASE Keys(t)
  <2>1. PICK v \in {Over, [stage |-> "remove"]} : doing' = [doing EXCEPT ![t] = v]
    <3> DEFINE keys == {c \in Cmds : syns[c] # None}
    <3>1. doing' = [doing EXCEPT ![t] = IF keys = {} THEN Over ELSE [stage |-> "remove"]]
      BY <1>2 DEF Keys
    <3> HIDE DEF keys
    <3> QED BY <3>1
  <2>2. v.stage \in {"over", "remove"}
    BY DEF Over
  <2>3. todo' \in [Tasks -> SUBSET Cmds] /\ UNCHANGED <<syns, linked, blind>>
    BY <1>2 DEF Keys, IInv, Typed
  <2> QED BY <2>1, <2>2, <2>3, OnlyMovesKeep
<1>3. CASE UNCHANGED synVars
  BY <1>3 DEF synVars, IInv, Typed, Racing, Checked, OneEach, LinksAreKept, Named, Linking, At
<1>4. CASE Await(t) \/ Wake(t)
  BY <1>4 DEF Await, Wake, IInv, Typed, Racing, Checked, OneEach, LinksAreKept, Named, Linking, At
<1> QED BY <1>1, <1>2, <1>3, <1>4

\* JSON changes the kinds, not the words.
LEMMA RestartKeeps == ASSUME SynonymsAssumption, IInv, Restart PROVE IInv'
<1>1. /\ syns' = [c \in Cmds |-> IF syns[c] = None THEN None ELSE ListOf(syns[c].words)]
      /\ UNCHANGED <<doing, todo, linked, blind>>
  BY DEF Restart
<1>2. \A c \in Cmds : syns'[c] \in Values /\ syns'[c].words = syns[c].words
  BY <1>1 DEF IInv, Typed, Values, None, ListOf
<1>3. syns' \in [Cmds -> Values]
  BY <1>1, <1>2
<1>4. Typed'
  BY <1>1, <1>3 DEF IInv, Typed, Named, Linking, At
<1> QED BY <1>1, <1>2, <1>4, FewerKeep DEF IInv, Typed

LEMMA NextKeeps == ASSUME SynonymsAssumption, IInv, [Next]_vars PROVE IInv'
<1>1. CASE Restart
  BY <1>1, RestartKeeps
<1>5. CASE Restore
  BY <1>5 DEF Restore, IInv, Typed, Racing, Checked, OneEach, LinksAreKept, Named, Linking, At
<1>2. CASE UNCHANGED vars
  BY <1>2 DEF vars, synVars, IInv, Typed, Racing, Checked, OneEach, LinksAreKept, Named, Linking, At
<1>3. ASSUME NEW t \in Tasks, NEW o \in Ops, Arrive(t, o) PROVE IInv'
  BY <1>3, ArriveKeeps
<1>4. ASSUME NEW t \in Tasks, Proceed(t) \/ Await(t) \/ Wake(t) \/ Answer(t)
      PROVE  IInv'
  BY <1>4, LinkKeeps, UnlinkKeeps, ReplaceKeeps, OthersKeep DEF Proceed, Wait, Answer
<1> QED BY <1>1, <1>2, <1>3, <1>4, <1>5 DEF Next

LEMMA Invariance == ASSUME SynonymsAssumption PROVE Spec => []IInv
BY InitIsInv, NextKeeps, PTL DEF Spec

------------------------------------------------------------------------------
\* The lock keeps its type, whichever step of a task moves it.
LEMMA LockMoves ==
  ASSUME LockTypeOK, NEW t \in Tasks,
         \/ Queue(t)
         \/ Granted(t) /\ running' \in {t, NoTask} /\ holder' \in {t, NoTask}
         \/ \E on \in BOOLEAN : Posted(t, on)
  PROVE  LockTypeOK'
<1>1. CASE Queue(t)
  BY <1>1 DEF LockTypeOK, Queue
<1>2. CASE Granted(t) /\ running' \in {t, NoTask} /\ holder' \in {t, NoTask}
  <2>1. queue' \in Seq(Tasks)
    BY <1>2 DEF LockTypeOK, Granted
  <2> QED BY <1>2, <2>1 DEF LockTypeOK
<1>3. CASE \E on \in BOOLEAN : Posted(t, on)
  BY <1>3 DEF LockTypeOK, Posted
<1> QED BY <1>1, <1>2, <1>3

\* The stages of a task are those of the handlers.
LEMMA StagesKept ==
  ASSUME SynonymsAssumption, Typed, NEW t \in Tasks, NEW v, doing' = [doing EXCEPT ![t] = v],
         v.stage \in Stages, \A r \in Tasks : doing[r].stage \in Stages
  PROVE  \A r \in Tasks : doing'[r].stage \in Stages
<1>1. \A r \in Tasks : doing'[r] = IF r = t THEN v ELSE doing[r]
  BY DEF Typed
<1> QED BY <1>1

LEMMA TypesKept == ASSUME SynonymsAssumption, IInv, TypeOK, [Next]_vars PROVE TypeOK'
<1>1. Typed'
  BY NextKeeps DEF IInv
<1>3. restored' \in BOOLEAN /\ awaiting' \subseteq Tasks
  <2>1. CASE UNCHANGED <<restored, awaiting>>
    BY <2>1 DEF TypeOK
  <2>2. CASE \E t \in Tasks : Await(t) \/ Wake(t)
    BY <2>2 DEF Await, Wake, TypeOK
  <2>3. CASE Restart \/ Restore
    BY <2>3 DEF Restart, Restore, TypeOK
  <2>4. ASSUME NEW t \in Tasks, Proceed(t) \/ Answer(t) \/ \E o \in Ops : Arrive(t, o)
        PROVE  UNCHANGED <<restored, awaiting>>
    BY <2>4 DEF Proceed, Answer, Arrive, Wait, Raise, Link, Unlink, SetCode, Keys, Remove, Write, synVars
  <2>5. CASE UNCHANGED vars
    BY <2>1, <2>5 DEF vars, synVars
  <2> QED BY <2>1, <2>2, <2>3, <2>4, <2>5 DEF Next
<1>2. (\A r \in Tasks : doing'[r].stage \in Stages) /\ LockTypeOK'
  <2>1. CASE UNCHANGED vars
    BY <2>1 DEF vars, synVars, lockVars, TypeOK, LockTypeOK
  <2>2. CASE Restart \/ Restore
    BY <2>2 DEF Restart, Restore, lockVars, TypeOK, LockTypeOK
  <2>3. ASSUME NEW t \in Tasks, NEW o \in Ops, Arrive(t, o)
        PROVE  (\A r \in Tasks : doing'[r].stage \in Stages) /\ LockTypeOK'
    <3>1. FirstStage(o) \in Stages
      BY FirstStageIs DEF Stages
    <3>2. LockTypeOK'
      BY <2>3 DEF Arrive, TypeOK, LockTypeOK
    <3> DEFINE stage == FirstStage(o)
               cmd == IF o.op = "unlinkWord" THEN CHOOSE c \in Having(o, o.word) : TRUE ELSE o.cmd
               v == IF stage = "over" THEN Over ELSE [stage |-> stage, cmd |-> cmd, word |-> o.word]
    <3>3. doing' = [doing EXCEPT ![t] = v]
      BY <2>3 DEF Arrive
    <3>4. v.stage \in Stages
      BY <3>1 DEF Over, Stages
    <3> HIDE DEF v
    <3> QED BY <3>2, <3>3, <3>4, StagesKept DEF IInv, TypeOK
  <2>5. ASSUME NEW t \in Tasks, Await(t) \/ Wake(t)
        PROVE  (\A r \in Tasks : doing'[r].stage \in Stages) /\ LockTypeOK'
    BY <2>5 DEF Await, Wake, TypeOK, LockTypeOK
  <2>4. ASSUME NEW t \in Tasks, Proceed(t) \/ Answer(t)
        PROVE  (\A r \in Tasks : doing'[r].stage \in Stages) /\ LockTypeOK'
    <3>1. \/ Queue(t)
          \/ Granted(t) /\ running' \in {t, NoTask} /\ holder' \in {t, NoTask}
          \/ \E on \in BOOLEAN : Posted(t, on)
      BY <2>4 DEF Proceed, Wait, Raise, Link, Unlink, SetCode, Keys, Remove, Answer, Write, Post
    <3>2. LockTypeOK'
      BY <3>1, LockMoves DEF TypeOK
    <3>3. CASE UNCHANGED doing
      BY <3>2, <3>3 DEF TypeOK
    <3>4. CASE \E v : doing' = [doing EXCEPT ![t] = v] /\ v.stage \in Stages
      BY <3>2, <3>4, StagesKept DEF IInv, TypeOK
    <3>5. UNCHANGED doing \/ \E v : doing' = [doing EXCEPT ![t] = v] /\ v.stage \in Stages
      <4>1. CASE Wait(t) \/ Answer(t)
        BY <4>1 DEF Wait, Answer, synVars
      <4>0. /\ Over.stage \in Stages /\ [stage |-> "remove"].stage \in Stages
            /\ doing[t].stage \in Stages
        BY DEF Over, Stages, TypeOK
      <4>2. CASE Raise(t) \/ Keys(t)
        <5>1. doing' = [doing EXCEPT ![t] = Over] \/ doing' = [doing EXCEPT ![t] = [stage |-> "remove"]]
          BY <4>2 DEF Raise, Keys
        <5> QED BY <4>0, <5>1
      <4>3. ASSUME NEW c, NEW v, NEW rest, Write(t, c, v, rest)
            PROVE  \E w : doing' = [doing EXCEPT ![t] = w] /\ w.stage \in Stages
        <5>1. doing' = [doing EXCEPT ![t] = Over] \/ doing' = [doing EXCEPT ![t] = doing[t]]
          BY <4>3 DEF Write
        <5> QED BY <4>0, <5>1
      <4>4. CASE Link(t) \/ Unlink(t) \/ SetCode(t) \/ Remove(t)
        BY <4>3, <4>4 DEF Link, Unlink, SetCode, Remove
      <4> QED BY <2>4, <4>1, <4>2, <4>4 DEF Proceed
    <3> QED BY <3>3, <3>4, <3>5
  <2> QED BY <2>1, <2>2, <2>3, <2>4, <2>5 DEF Next
<1> QED BY <1>1, <1>2, <1>3 DEF Typed, TypeOK

LEMMA TypesBegin == ASSUME SynonymsAssumption, Init PROVE TypeOK
<1>1. Typed
  BY InitIsInv DEF IInv
<1>2. LockTypeOK /\ \A t \in Tasks : doing[t].stage \in Stages
  BY DEF Init, LockInit, LockTypeOK, Stages
<1> QED BY <1>1, <1>2 DEF Init, Typed, TypeOK

\* Every variable keeps its type: the lock and its queue, the stages of the
\* tasks, the lists and tuples of the dict.
THEOREM TypeCorrect == ASSUME SynonymsAssumption PROVE Spec => []TypeOK
<1>1. Init => IInv /\ TypeOK
  BY InitIsInv, TypesBegin
<1>2. IInv /\ TypeOK /\ [Next]_vars => (IInv /\ TypeOK)'
  BY NextKeeps, TypesKept
<1> QED BY <1>1, <1>2, PTL DEF Spec

\* A word users link stands for one visible command, unless a link of it was
\* checked blindly (the test for a word in use of do_link).
THEOREM OneCommandPerWordHolds == ASSUME SynonymsAssumption PROVE Spec => []OneCommandPerWord
<1>1. ASSUME IInv PROVE OneCommandPerWord
  <2> SUFFICES ASSUME NEW w \in LinkWords \ blind
               PROVE  Cardinality({c \in Visible : w \in syns[c].words}) <= 1
    BY DEF OneCommandPerWord, LinkWords
  <2> DEFINE having == {c \in Visible : w \in syns[c].words}
  <2>1. \A c, d \in having : c = d
    BY <1>1 DEF IInv, OneEach
  <2>2. CASE having = {}
    BY <2>2, FS_EmptySet
  <2>3. CASE having # {}
    <3>1. PICK c \in having : TRUE
      BY <2>3
    <3>2. having = {c}
      BY <2>1, <3>1
    <3> HIDE DEF having
    <3>3. Cardinality(having) = 1
      BY <3>2, FS_Singleton
    <3> QED BY <3>3 DEF having
  <2> QED BY <2>2, <2>3
<1> QED BY <1>1, Invariance, PTL

\* A link that was acknowledged is there until it is undone, across restarts,
\* unless a link of its command was checked blindly (set and extend in do_link).
THEOREM LinksAreKeptHolds == ASSUME SynonymsAssumption PROVE Spec => []LinksAreKept
<1>1. IInv => LinksAreKept
  BY DEF IInv
<1> QED BY <1>1, Invariance, PTL
==============================================================================
