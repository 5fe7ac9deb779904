------------------------------ MODULE Questions ------------------------------
(***************************************************************************)
(* Questions to users (class QuestionBot of src/forest/core.py).  A call   *)
(* of an ask_* method registers a future under (user, chat) and waits; the *)
(* task of an incoming message sets it; the caller, woken later, takes the *)
(* registration out and returns, raises or asks again.                     *)
(*                                                                         *)
(* Answer texts are members of Texts, in the classes below.  Between the   *)
(* registration and the await nothing suspends, so asking is one step.     *)
(* Left out: messages without text or without a registered question (they  *)
(* are commands), ValueErrors of a recipient that is neither user nor      *)
(* group, a missing maps key.                                              *)
(***************************************************************************)
EXTENDS Naturals

CONSTANTS
  Callers,    \* tasks that ask, one question each
  MayAsk,     \* the kinds of question each of them asks
  NoCaller,
  Users,
  Chats,      \* "" and the groups
  Texts,
  Affirmative, Negative, Terminal,
  Numeric,    \* texts for which isnumeric() holds
  Unparsable, \* those of them that int() and float() reject
  Labels,     \* lower-cased labels of the options of a choice
  Emails,
  Right,      \* the answers to the challenge
  MaxFailed   \* bound: failed challenges counted for a user

Kinds == {"freeform", "float", "int", "yesno", "choice", "address", "email", "challenge", "setup"}

ASSUME QuestionsAssumption ==
  /\ NoCaller \notin Callers
  /\ MayAsk \in [Callers -> SUBSET Kinds]
  /\ MaxFailed \in Nat

\* a message without text is no answer; "" is a future that is not set
ASSUME TextsAssumption == "" \notin Texts

VARIABLES
  pending,    \* pending_answers: whose future is registered for (user, chat)
  firstOnly,  \* requires_first_device
  phase,
  call,       \* arguments of the caller's call, and where in it it is
  future,     \* what the caller's future was set to
  failed,     \* failed_user_challenges
  tangled,    \* history: users two calls asked at once
  stranded    \* history: users marked by a choice that then raised

vars == <<pending, firstOnly, phase, call, future, failed, tangled, stranded>>

Fields == {"family_name", "about", "mood_emoji"}
NextField == [f \in Fields |-> IF f = "family_name" THEN "about" ELSE "mood_emoji"]
Calls == [kind : Kinds, user : Users, chat : Chats,
          strict : BOOLEAN,   \* require_first_device, as the caller passed it
          first : BOOLEAN,    \* and as the current question was asked
          confirm : BOOLEAN,  \* require_confirmation
          at : {"main", "confirm"} \cup Fields]
Unset == ""
NoCall == [kind |-> "none"]

Active(a) == phase[a] \in {"waiting", "looking"}

TypeOK ==
  /\ pending \in [Users \X Chats -> Callers \cup {NoCaller}]
  /\ firstOnly \in [Users -> BOOLEAN]
  /\ phase \in [Callers -> {"idle", "waiting", "looking", "returned", "raised"}]
  /\ call \in [Callers -> Calls \cup {NoCall}]
  /\ \A a \in Callers : call[a] \in IF Active(a) THEN Calls ELSE {NoCall}
  /\ future \in [Callers -> Texts \cup {Unset}]
  /\ failed \in [Users -> 0..MaxFailed]
  /\ tangled \subseteq Users /\ stranded \subseteq Users

Init ==
  /\ pending = [k \in Users \X Chats |-> NoCaller]
  /\ firstOnly = [u \in Users |-> FALSE]
  /\ phase = [a \in Callers |-> "idle"]
  /\ call = [a \in Callers |-> NoCall]
  /\ future = [a \in Callers |-> Unset]
  /\ failed = [u \in Users |-> 0]
  /\ tangled = {} /\ stranded = {}

------------------------------------------------------------------------------
Key(c) == <<c.user, c.chat>>

\* ask_freeform_question up to its await, on top of the registrations in regs
Register(a, c, regs) ==
  /\ pending' = [regs EXCEPT ![Key(c)] = a]
  /\ firstOnly' = [firstOnly EXCEPT ![c.user] = c.first \/ @]
  /\ phase' = [phase EXCEPT ![a] = "waiting"]
  /\ call' = [call EXCEPT ![a] = c]
  /\ future' = [future EXCEPT ![a] = Unset]

\* the parameters each ask_* method has; do_challenge and do_setup pass none
Callable(c) ==
  /\ c.at = "main" /\ c.first = c.strict
  /\ c.kind \in {"email", "challenge", "setup"} => ~c.strict
  /\ c.confirm => c.kind \in {"choice", "address"}
  /\ c.chat # "" => c.kind = "freeform"

Ask(a) ==
  \E c \in Calls :
    /\ phase[a] = "idle" /\ Callable(c) /\ c.kind \in MayAsk[a]
    /\ Register(a, c, pending)
    /\ tangled' = IF \E b \in Callers : Active(b) /\ call[b].user = c.user
                  THEN tangled \cup {c.user} ELSE tangled
    /\ UNCHANGED <<failed, stranded>>

\* ask_multiple_choice_question marks the user, then finds that two options are
\* the same in lower case
AskAmbiguous(a, u) ==
  /\ phase[a] = "idle"
  /\ phase' = [phase EXCEPT ![a] = "raised"]
  /\ firstOnly' = [firstOnly EXCEPT ![u] = TRUE]
  /\ stranded' = stranded \cup {u}
  /\ UNCHANGED <<pending, call, future, failed, tangled>>

\* is_first_device looks for remote_address.device_id, where auxin put
\* the device; no envelope of signal-cli has that field
IsFirstDevice == FALSE

\* set_result, which on a future that is done raises InvalidStateError
Result(b, t) == IF future[b] = Unset THEN [future EXCEPT ![b] = t] ELSE future

\* bug: handle_message takes the registration out itself
HandleMessagePops(u, chat, t) ==
  /\ pending[<<u, chat>>] # NoCaller
  /\ firstOnly[u] => IsFirstDevice
  /\ firstOnly' = [firstOnly EXCEPT ![u] = FALSE]
  /\ future' = [future EXCEPT ![pending[<<u, chat>>]] = t]
  /\ pending' = [pending EXCEPT ![<<u, chat>>] = NoCaller]
  /\ UNCHANGED <<phase, call, failed, tangled, stranded>>

\* bug: the refused message is taken for the answer all the same
HandleMessageTakesRefused(u, chat, t) ==
  /\ pending[<<u, chat>>] # NoCaller
  /\ firstOnly' = [firstOnly EXCEPT ![u] = @ /\ ~IsFirstDevice]
  /\ future' = Result(pending[<<u, chat>>], t)
  /\ UNCHANGED <<pending, phase, call, failed, tangled, stranded>>

\* bug: a later answer replaces the first
HandleMessageReplaces(u, chat, t) ==
  /\ pending[<<u, chat>>] # NoCaller
  /\ firstOnly[u] => IsFirstDevice
  /\ firstOnly' = [firstOnly EXCEPT ![u] = FALSE]
  /\ future' = [future EXCEPT ![pending[<<u, chat>>]] = t]
  /\ UNCHANGED <<pending, phase, call, failed, tangled, stranded>>

\* bug: a message answers everybody who waits for the user
HandleMessageAnswersAll(u, chat, t) ==
  /\ pending[<<u, chat>>] # NoCaller
  /\ firstOnly[u] => IsFirstDevice
  /\ firstOnly' = [firstOnly EXCEPT ![u] = FALSE]
  /\ future' = [a \in Callers |-> IF phase[a] = "waiting" /\ call[a].user = u /\ future[a] = Unset
                                  THEN t ELSE future[a]]
  /\ UNCHANGED <<pending, phase, call, failed, tangled, stranded>>

\* handle_message of a message from u with text t; one that is refused is
\* answered with FIRST_DEVICE_PLEASE and changes nothing
HandleMessage(u, chat, t) ==
  /\ pending[<<u, chat>>] # NoCaller
  /\ firstOnly[u] => IsFirstDevice
  /\ firstOnly' = [firstOnly EXCEPT ![u] = FALSE]
  /\ future' = Result(pending[<<u, chat>>], t)
  /\ UNCHANGED <<pending, phase, call, failed, tangled, stranded>>

------------------------------------------------------------------------------
Unregistered(c) == [pending EXCEPT ![Key(c)] = NoCaller]

\* bug: the registration stays when the call is over
StopLeaves(a, c, how) ==
  /\ phase' = [phase EXCEPT ![a] = how]
  /\ call' = [call EXCEPT ![a] = NoCall]
  /\ future' = [future EXCEPT ![a] = Unset]
  /\ UNCHANGED <<pending, firstOnly>>

\* bug: a call that is over keeps its arguments
StopKeepsCall(a, c, how) ==
  /\ phase' = [phase EXCEPT ![a] = how]
  /\ pending' = Unregistered(c)
  /\ future' = [future EXCEPT ![a] = Unset]
  /\ UNCHANGED <<firstOnly, call>>

\* the call is over: it returns, or raises
Stop(a, c, how) ==
  /\ phase' = [phase EXCEPT ![a] = how]
  /\ pending' = Unregistered(c)
  /\ call' = [call EXCEPT ![a] = NoCall]
  /\ future' = [future EXCEPT ![a] = Unset]
  /\ UNCHANGED firstOnly

AskAgain(a, c, at, first) ==
  Register(a, [c EXCEPT !.at = at, !.first = first], Unregistered(c))

\* ask_intable_question, ask_floatable_question: the question asked again does
\* not pass require_first_device on
Number(a, c, t) ==
  \/ t \in Unparsable /\ Stop(a, c, "raised")
  \/ t \in (Numeric \cup Terminal) \ Unparsable /\ Stop(a, c, "returned")
  \/ t \notin Numeric \cup Terminal /\ AskAgain(a, c, "main", FALSE)

\* bug: "stop" is no answer to a yes-or-no question
YesNoInsists(a, c, t) ==
  IF t \in (Affirmative \cup Negative) \ Terminal
  THEN Stop(a, c, "returned") ELSE AskAgain(a, c, "main", c.first)

\* ask_yesno_question on its own
YesNo(a, c, t) ==
  IF t \in Affirmative \cup Negative \cup Terminal
  THEN Stop(a, c, "returned") ELSE AskAgain(a, c, "main", c.first)

\* and as the confirmation of a choice or an address
Confirmation(a, c, t) ==
  \/ t \in Affirmative /\ Stop(a, c, "returned")
  \/ t \in (Negative \cup Terminal) \ Affirmative /\ AskAgain(a, c, "main", c.strict)
  \/ t \notin Affirmative \cup Negative \cup Terminal /\ AskAgain(a, c, "confirm", c.first)

Choice(a, c, t) ==
  \/ t \in Labels /\ c.confirm /\ AskAgain(a, c, "confirm", FALSE)
  \/ t \in Labels /\ ~c.confirm /\ Stop(a, c, "returned")
  \/ t \in Terminal \ Labels /\ Stop(a, c, "returned")
  \/ t \notin Terminal \cup Labels /\ AskAgain(a, c, "main", c.first)

Email(a, c, t) ==
  IF t \in Emails \cup Terminal THEN Stop(a, c, "returned") ELSE AskAgain(a, c, "main", FALSE)

Setup(a, c) ==
  IF c.at = "mood_emoji" THEN Stop(a, c, "returned")
  ELSE AskAgain(a, c, IF c.at = "main" THEN "family_name" ELSE NextField[c.at], FALSE)

\* a terminal answer and a wrong number both count as a failure
Fails(c, t) ==
  c.kind = "challenge" /\ t \in (Numeric \cup Terminal) \ (Unparsable \cup Right)

Challenge(a, c, t) ==
  IF Fails(c, t) THEN failed[c.user] < MaxFailed /\ AskAgain(a, c, "main", FALSE)
  ELSE Number(a, c, t)

\* the address goes to the maps service, unregistered meanwhile
Lookup(a, c) ==
  /\ phase' = [phase EXCEPT ![a] = "looking"]
  /\ pending' = Unregistered(c)
  /\ UNCHANGED <<firstOnly, call, future>>

\* The caller of a set future runs.  pop() without a default raises KeyError when
\* another caller has taken the registration out.
Resume(a) ==
  LET c == call[a]
      t == future[a]
  IN /\ phase[a] = "waiting" /\ future[a] # Unset
     /\ IF pending[Key(c)] = NoCaller THEN Stop(a, c, "raised")
        ELSE \/ c.kind = "freeform" /\ Stop(a, c, "returned")
             \/ c.kind \in {"int", "float"} /\ Number(a, c, t)
             \/ c.kind = "yesno" /\ YesNo(a, c, t)
             \/ c.kind \in {"choice", "address"} /\ c.at = "confirm" /\ Confirmation(a, c, t)
             \/ c.kind = "choice" /\ c.at = "main" /\ Choice(a, c, t)
             \/ c.kind = "address" /\ c.at = "main" /\ Lookup(a, c)
             \/ c.kind = "email" /\ Email(a, c, t)
             \/ c.kind = "challenge" /\ Challenge(a, c, t)
             \/ c.kind = "setup" /\ Setup(a, c)
     /\ failed' = IF pending[Key(c)] # NoCaller /\ Fails(c, t)
                  THEN [failed EXCEPT ![c.user] = @ + 1] ELSE failed
     /\ UNCHANGED <<tangled, stranded>>

\* The maps service answers.  The call is over with an address, with one that
\* lacks its formatted form, or when a terminal answer is no place.
Located(a) ==
  /\ phase[a] = "looking"
  /\ \/ /\ phase' = [phase EXCEPT ![a] = "returned"]
        /\ call' = [call EXCEPT ![a] = NoCall]
        /\ future' = [future EXCEPT ![a] = Unset]
        /\ UNCHANGED <<pending, firstOnly>>
     \/ /\ future[a] \notin Terminal
        /\ Register(a, call[a], pending)
     \/ /\ call[a].confirm
        /\ Register(a, [call[a] EXCEPT !.at = "confirm"], pending)
  /\ UNCHANGED <<failed, tangled, stranded>>

Next ==
  \/ \E a \in Callers : Ask(a) \/ Resume(a) \/ Located(a)
  \/ \E a \in Callers, u \in Users : AskAmbiguous(a, u)
  \/ \E u \in Users, chat \in Chats, t \in Texts : HandleMessage(u, chat, t)

\* Woken tasks run and the maps service answers.  The user, asked, may stop
\* answering; one who does not says "stop" now and then.
Stops(u, chat) == \E t \in Terminal \ (Labels \cup Numeric) : HandleMessage(u, chat, t)
Fairness ==
  /\ \A a \in Callers : WF_vars(Resume(a)) /\ WF_vars(Located(a))
  /\ \A u \in Users, chat \in Chats :
       SF_vars(Stops(u, chat) /\ pending[<<u, chat>>] # NoCaller /\ future[pending[<<u, chat>>]] = Unset)

Spec == Init /\ [][Next]_vars
FairSpec == Spec /\ Fairness

------------------------------------------------------------------------------
\* The question a caller waits for is registered, so that an answer reaches it
\* and its pop() finds the key, unless the user was asked by two calls at once.
Reachable ==
  \A a \in Callers : phase[a] = "waiting" /\ call[a].user \notin tangled
                       => pending[Key(call[a])] = a

\* Whatever overlaps, a registration belongs to a caller that waits under that
\* key: no message is swallowed for a call that is over (handle_message).
Registered ==
  \A k \in Users \X Chats : pending[k] # NoCaller
     => phase[pending[k]] = "waiting" /\ Key(call[pending[k]]) = k

\* requires_first_device never bars a user for nothing: who is marked has a
\* question open that requires the first device, however calls overlap and
\* re-ask, unless the mark was left by a choice that raised.
MarkHasQuestion ==
  \A u \in Users : firstOnly[u] /\ u \notin stranded
    => \E a \in Callers : /\ phase[a] = "waiting" /\ future[a] = Unset
                          /\ call[a].user = u /\ call[a].first

\* The first answer counts: until the caller has run, a second message changes
\* nothing (the InvalidStateError of set_result).
FirstAnswerWins ==
  [][\A a \in Callers : future[a] # Unset => future'[a] \in {future[a], Unset}]_vars

\* A question whose registration another call overwrote or took out is never
\* answered: its caller waits for ever (self.pending_answers[...] = Future()).
Orphan(a) == phase[a] = "waiting" /\ future[a] = Unset /\ pending[Key(call[a])] # a
OrphansStay == [][\A a \in Callers : Orphan(a) => Orphan(a)']_vars

\* "stop, cancel, quit" end a question: every call but a challenge, a setup, and
\* those that ask for a confirmation (a refused confirmation asks again) or look
\* the answer up (which may find a place of that name) ends.  Not so for a user
\* two calls asked at once, whose answers they take from each other, nor for a
\* marked user: the phone that a question requires is never recognised
\* (is_first_device), so the user can answer neither it nor any later question.
CanBeStopped ==
  \A a \in Callers : (Active(a) /\ call[a].kind \notin {"challenge", "setup", "address"} /\ ~call[a].confirm)
    ~> (~Active(a) \/ Orphan(a) \/ call[a].user \in tangled \/ firstOnly[call[a].user])
==============================================================================
