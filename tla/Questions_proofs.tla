-------------------------- MODULE Questions_proofs --------------------------
(***************************************************************************)
(* Theorems about Questions, for any callers, users, chats and texts, and  *)
(* any overlap of calls: types are kept, registrations belong to callers   *)
(* that wait, a caller that shares its user with no other is reachable,    *)
(* the mark of a user has its question, the first answer counts, and       *)
(* orphans stay orphans.                                                   *)
(*                                                                         *)
(* Every step of a caller is one of two: it registers a question, or it    *)
(* leaves its question.  Two lemmas say that each keeps the invariant.     *)
(***************************************************************************)
EXTENDS Questions, TLAPS

\* two calls that are under way have different users, or tangled ones
Alone ==
  \A a, b \in Callers :
    a # b /\ Active(a) /\ Active(b) /\ call[a].user = call[b].user => call[a].user \in tangled

\* only choices and addresses are confirmed
Regular(c) == c.confirm \/ c.at = "confirm" => c.kind \in {"choice", "address"}
Confirming == \A a \in Callers : Active(a) => Regular(call[a])

IInv ==
  /\ TypeOK /\ Registered /\ Alone /\ Reachable /\ Confirming /\ MarkHasQuestion

LEMMA KeyType == \A c \in Calls : Key(c) \in Users \X Chats
  BY DEF Calls, Key

LEMMA InitIsInv == Init => IInv
<1> SUFFICES ASSUME Init PROVE IInv
  OBVIOUS
<1>1. \A a \in Callers : phase[a] = "idle" /\ call[a] = NoCall
  BY DEF Init
<1>2. TypeOK
  BY <1>1, QuestionsAssumption DEF Init, TypeOK, Active
<1>3. Registered /\ MarkHasQuestion
  BY DEF Init, Registered, MarkHasQuestion
<1>4. Alone /\ Reachable /\ Confirming
  BY <1>1 DEF Alone, Reachable, Confirming, Active
<1> QED BY <1>2, <1>3, <1>4 DEF IInv

------------------------------------------------------------------------------
(* A caller that registers question d: its first, or, its last one being    *)
(* answered, another to the same user and chat.                             *)
Registering(a, d) ==
  /\ Regular(d)
  /\ Active(a) => Key(call[a]) = Key(d)
  /\ \/ Register(a, d, pending)
     \/ Register(a, d, Unregistered(d))
  /\ \A b \in Callers \ {a} : Active(b) /\ call[b].user = d.user => d.user \in tangled'
  /\ tangled \subseteq tangled' /\ tangled' \subseteq Users /\ UNCHANGED stranded
  /\ phase[a] = "waiting" => future[a] # Unset
  /\ failed' \in [Users -> 0..MaxFailed]

LEMMA RegisterKeeps == ASSUME IInv, NEW a \in Callers, NEW d \in Calls, Registering(a, d)
                       PROVE  IInv'
<1>1. /\ pending \in [Users \X Chats -> Callers \cup {NoCaller}]
      /\ firstOnly \in [Users -> BOOLEAN]
      /\ call \in [Callers -> Calls \cup {NoCall}]
      /\ phase \in [Callers -> {"idle", "waiting", "looking", "returned", "raised"}]
      /\ future \in [Callers -> Texts \cup {Unset}]
  BY DEF IInv, TypeOK
<1>2. d.user \in Users /\ d.chat \in Chats /\ d.first \in BOOLEAN /\ Key(d) = <<d.user, d.chat>>
      /\ Key(d) \in Users \X Chats
  BY KeyType DEF Calls, Key
<1>3. /\ phase' = [phase EXCEPT ![a] = "waiting"] /\ call' = [call EXCEPT ![a] = d]
      /\ future' = [future EXCEPT ![a] = Unset]
      /\ firstOnly' = [firstOnly EXCEPT ![d.user] = d.first \/ @]
  BY DEF Registering, Register
<1>4. /\ phase'[a] = "waiting" /\ call'[a] = d /\ future'[a] = Unset
      /\ \A b \in Callers \ {a} : phase'[b] = phase[b] /\ call'[b] = call[b] /\ future'[b] = future[b]
  BY <1>1, <1>3
<1>5. \A u \in Users : firstOnly'[u] = (firstOnly[u] \/ (u = d.user /\ d.first))
  BY <1>1, <1>2, <1>3
<1>6. /\ pending' \in [Users \X Chats -> Callers \cup {NoCaller}]
      /\ pending'[Key(d)] = a
      /\ \A k \in Users \X Chats : k # Key(d) => pending'[k] = pending[k]
  BY <1>1, <1>2 DEF Registering, Register, Unregistered
<1>7. a # NoCaller
  BY QuestionsAssumption
<1>8. TypeOK'
  <2>1. firstOnly' \in [Users -> BOOLEAN]
    BY <1>1, <1>2, <1>3
  <2>2. /\ phase' \in [Callers -> {"idle", "waiting", "looking", "returned", "raised"}]
        /\ call' \in [Callers -> Calls \cup {NoCall}]
        /\ future' \in [Callers -> Texts \cup {Unset}]
    BY <1>1, <1>3
  <2>3. \A b \in Callers : call'[b] \in IF Active(b)' THEN Calls ELSE {NoCall}
    BY <1>4 DEF IInv, TypeOK, Active
  <2>4. tangled' \subseteq Users /\ stranded' \subseteq Users /\ failed' \in [Users -> 0..MaxFailed]
    BY DEF IInv, TypeOK, Registering
  <2> QED BY <1>6, <2>1, <2>2, <2>3, <2>4 DEF TypeOK
<1>9. Registered'
  <2> SUFFICES ASSUME NEW k \in Users \X Chats, pending'[k] # NoCaller
               PROVE  phase'[pending'[k]] = "waiting" /\ Key(call'[pending'[k]]) = k
    BY DEF Registered, Key
  <2>1. CASE k = Key(d)
    BY <2>1, <1>4, <1>6
  <2>2. CASE k # Key(d)
    <3>1. pending[k] \in Callers /\ phase[pending[k]] = "waiting" /\ Key(call[pending[k]]) = k
      BY <2>2, <1>1, <1>6 DEF IInv, Registered
    <3>2. pending[k] # a
      BY <3>1, <2>2 DEF Registering, Active
    <3> QED BY <3>1, <3>2, <2>2, <1>4, <1>6
  <2> QED BY <2>1, <2>2
<1>10. Alone'
  <2> SUFFICES ASSUME NEW x \in Callers, NEW y \in Callers, x # y, Active(x)', Active(y)',
                      call'[x].user = call'[y].user
               PROVE  call'[x].user \in tangled'
    BY DEF Alone
  <2>1. CASE x # a /\ y # a
    BY <2>1, <1>4 DEF IInv, Alone, Active, Registering
  <2>2. CASE x = a \/ y = a
    BY <2>2, <1>4 DEF Active, Registering
  <2> QED BY <2>1, <2>2
<1>11. Reachable'
  <2> SUFFICES ASSUME NEW x \in Callers, phase'[x] = "waiting", call'[x].user \notin tangled'
               PROVE  pending'[Key(call'[x])] = x
    BY DEF Reachable, Key
  <2>1. CASE x = a
    BY <2>1, <1>4, <1>6
  <2>2. CASE x # a
    <3>1. phase[x] = "waiting" /\ call[x] = call'[x] /\ call[x] \in Calls
      BY <2>2, <1>4 DEF IInv, TypeOK, Active
    <3>2. pending[Key(call[x])] = x
      BY <3>1 DEF IInv, Reachable, Registering
    <3>3. call[x].user # d.user
      BY <3>1, <2>2 DEF Registering, Active
    <3>4. Key(call[x]) # Key(d) /\ Key(call[x]) \in Users \X Chats
      BY <3>1, <3>3, KeyType DEF Key
    <3> QED BY <3>1, <3>2, <3>4, <1>6
  <2> QED BY <2>1, <2>2
<1>12. Confirming'
  <2> SUFFICES ASSUME NEW x \in Callers, Active(x)'
               PROVE  Regular(call'[x])
    BY DEF Confirming, Regular
  <2> QED BY <1>4 DEF IInv, Confirming, Active, Registering
<1>15. MarkHasQuestion'
  <2> SUFFICES ASSUME NEW u \in Users, firstOnly'[u], u \notin stranded'
               PROVE  \E x \in Callers : /\ phase'[x] = "waiting" /\ future'[x] = Unset
                                         /\ call'[x].user = u /\ call'[x].first
    BY DEF MarkHasQuestion, Unset
  <2>1. CASE u = d.user /\ d.first
    BY <2>1, <1>4
  <2>2. CASE ~(u = d.user /\ d.first)
    <3>1. firstOnly[u] /\ u \notin stranded
      BY <2>2, <1>5 DEF Registering
    <3>2. PICK x \in Callers : /\ phase[x] = "waiting" /\ future[x] = Unset
                               /\ call[x].user = u /\ call[x].first
      BY <3>1 DEF IInv, MarkHasQuestion
    <3>3. x # a
      BY <3>2 DEF Registering
    <3> QED BY <3>2, <3>3, <1>4
  <2> QED BY <2>1, <2>2
<1> QED BY <1>8, <1>9, <1>10, <1>11, <1>12, <1>15 DEF IInv

------------------------------------------------------------------------------
(* A caller that leaves its question: the call is over, or the answer is    *)
(* being looked up.  It was not unanswered.                                 *)
Leaving(a) ==
  /\ phase' \in {[phase EXCEPT ![a] = p] : p \in {"looking", "returned", "raised"}}
  /\ call' = IF phase'[a] = "looking" THEN call ELSE [call EXCEPT ![a] = NoCall]
  /\ phase'[a] = "looking" => Active(a)
  /\ future' \in {future, [future EXCEPT ![a] = Unset]}
  /\ pending' \in {pending, Unregistered(call[a])}
  /\ phase[a] = "waiting" => future[a] # Unset /\ pending' = Unregistered(call[a])
  /\ pending' # pending => Active(a)
  /\ \A u \in Users : u \notin stranded' => firstOnly'[u] = firstOnly[u]
  /\ firstOnly' \in [Users -> BOOLEAN]
  /\ stranded \subseteq stranded' /\ stranded' \subseteq Users /\ UNCHANGED tangled
  /\ failed' \in [Users -> 0..MaxFailed]

LEMMA LeaveKeeps == ASSUME IInv, NEW a \in Callers, Leaving(a)
                    PROVE  IInv'
<1>1. /\ pending \in [Users \X Chats -> Callers \cup {NoCaller}]
      /\ firstOnly \in [Users -> BOOLEAN]
      /\ call \in [Callers -> Calls \cup {NoCall}]
      /\ phase \in [Callers -> {"idle", "waiting", "looking", "returned", "raised"}]
      /\ future \in [Callers -> Texts \cup {Unset}]
  BY DEF IInv, TypeOK
<1>2. phase' \in [Callers -> {"idle", "waiting", "looking", "returned", "raised"}]
      /\ phase'[a] \in {"looking", "returned", "raised"}
      /\ \A b \in Callers \ {a} : phase'[b] = phase[b]
  BY <1>1 DEF Leaving
<1>3. call' \in [Callers -> Calls \cup {NoCall}]
      /\ call'[a] = (IF phase'[a] = "looking" THEN call[a] ELSE NoCall)
      /\ \A b \in Callers \ {a} : call'[b] = call[b]
  BY <1>1 DEF Leaving
<1>4. future' \in [Callers -> Texts \cup {Unset}]
      /\ \A b \in Callers \ {a} : future'[b] = future[b]
  BY <1>1 DEF Leaving
<1>5. Active(a) => call[a] \in Calls /\ Key(call[a]) \in Users \X Chats
  BY KeyType DEF IInv, TypeOK
<1>6. /\ pending' \in [Users \X Chats -> Callers \cup {NoCaller}]
      /\ \A k \in Users \X Chats :
           pending'[k] = pending[k] \/ (pending'[k] = NoCaller /\ Active(a) /\ k = Key(call[a]))
      /\ phase[a] = "waiting" => pending'[Key(call[a])] = NoCaller
  <2>1. CASE pending' = pending
    <3>1. phase[a] = "waiting" => pending'[Key(call[a])] = NoCaller
      BY <1>1, <1>5, <2>1 DEF Leaving, Unregistered, Active
    <3> QED BY <1>1, <2>1, <3>1
  <2>2. CASE pending' = Unregistered(call[a]) /\ Active(a)
    BY <1>1, <1>5, <2>2 DEF Unregistered
  <2> QED BY <2>1, <2>2 DEF Leaving
<1>7. TypeOK'
  <2>1. \A b \in Callers : call'[b] \in IF Active(b)' THEN Calls ELSE {NoCall}
    <3>1. \A b \in Callers \ {a} : call'[b] \in IF Active(b)' THEN Calls ELSE {NoCall}
      BY <1>2, <1>3 DEF IInv, TypeOK, Active
    <3>2. call'[a] \in IF Active(a)' THEN Calls ELSE {NoCall}
      BY <1>2, <1>3, <1>5 DEF Active, Leaving
    <3> QED BY <3>1, <3>2
  <2>2. /\ tangled' \subseteq Users /\ stranded' \subseteq Users
        /\ failed' \in [Users -> 0..MaxFailed] /\ firstOnly' \in [Users -> BOOLEAN]
    BY DEF IInv, TypeOK, Leaving
  <2> QED BY <1>2, <1>3, <1>4, <1>6, <2>1, <2>2 DEF TypeOK
<1>8. Registered'
  <2> SUFFICES ASSUME NEW k \in Users \X Chats, pending'[k] # NoCaller
               PROVE  phase'[pending'[k]] = "waiting" /\ Key(call'[pending'[k]]) = k
    BY DEF Registered, Key
  <2>1. /\ pending'[k] = pending[k] /\ pending[k] \in Callers
        /\ phase[pending[k]] = "waiting" /\ Key(call[pending[k]]) = k
    BY <1>1, <1>6 DEF IInv, Registered
  <2>2. pending[k] # a
    BY <2>1, <1>6
  <2> QED BY <2>1, <2>2, <1>2, <1>3
<1>9. Alone'
  <2> SUFFICES ASSUME NEW x \in Callers, NEW y \in Callers, x # y, Active(x)', Active(y)',
                      call'[x].user = call'[y].user
               PROVE  call'[x].user \in tangled'
    BY DEF Alone
  <2>1. Active(x) /\ call'[x] = call[x] /\ Active(y) /\ call'[y] = call[y]
    BY <1>2, <1>3 DEF Active, Leaving
  <2> QED BY <2>1 DEF IInv, Alone, Leaving
<1>10. Reachable'
  <2> SUFFICES ASSUME NEW x \in Callers, phase'[x] = "waiting", call'[x].user \notin tangled'
               PROVE  pending'[Key(call'[x])] = x
    BY DEF Reachable, Key
  <2>1. x # a /\ phase[x] = "waiting" /\ call[x] = call'[x] /\ call[x] \in Calls
    BY <1>2, <1>3 DEF IInv, TypeOK, Active
  <2>2. pending[Key(call[x])] = x
    BY <2>1 DEF IInv, Reachable, Leaving
  <2>3. Active(a) => call[x].user # call[a].user
    BY <2>1 DEF IInv, Alone, Active, Leaving
  <2>4. Active(a) => Key(call[x]) # Key(call[a])
    BY <2>3 DEF Key
  <2> QED BY <2>1, <2>2, <2>4, <1>6, KeyType
<1>11. Confirming'
  <2> SUFFICES ASSUME NEW x \in Callers, Active(x)'
               PROVE  Regular(call'[x])
    BY DEF Confirming, Regular
  <2> QED BY <1>2, <1>3 DEF IInv, Confirming, Active, Leaving
<1>14. MarkHasQuestion'
  <2> SUFFICES ASSUME NEW u \in Users, firstOnly'[u], u \notin stranded'
               PROVE  \E x \in Callers : /\ phase'[x] = "waiting" /\ future'[x] = Unset
                                         /\ call'[x].user = u /\ call'[x].first
    BY DEF MarkHasQuestion, Unset
  <2>1. firstOnly[u] /\ u \notin stranded
    BY DEF Leaving
  <2>2. PICK x \in Callers : /\ phase[x] = "waiting" /\ future[x] = Unset
                             /\ call[x].user = u /\ call[x].first
    BY <2>1 DEF IInv, MarkHasQuestion
  <2>3. x # a
    BY <2>2 DEF Leaving
  <2> QED BY <2>2, <2>3, <1>2, <1>3, <1>4
<1> QED BY <1>7, <1>8, <1>9, <1>10, <1>11, <1>14 DEF IInv

------------------------------------------------------------------------------
(* The steps of Next.                                                       *)
LEMMA AskKeeps == ASSUME IInv, NEW a \in Callers, Ask(a) PROVE IInv'
<1>1. PICK c \in Calls :
        /\ phase[a] = "idle" /\ Callable(c) /\ Register(a, c, pending)
        /\ tangled' = IF \E b \in Callers : Active(b) /\ call[b].user = c.user
                      THEN tangled \cup {c.user} ELSE tangled
        /\ UNCHANGED <<failed, stranded>>
  BY DEF Ask
<1>2. Regular(c)
  BY <1>1 DEF Callable, Regular
<1>3. tangled \subseteq Users /\ failed \in [Users -> 0..MaxFailed] /\ c.user \in Users
  BY DEF IInv, TypeOK, Calls
<1>4. Registering(a, c)
  BY <1>1, <1>2, <1>3 DEF Registering, Active
<1> QED BY <1>4, RegisterKeeps

LEMMA AskAmbiguousKeeps == ASSUME IInv, NEW a \in Callers, NEW u \in Users, AskAmbiguous(a, u)
                           PROVE  IInv'
<1>1. /\ phase[a] = "idle" /\ phase' = [phase EXCEPT ![a] = "raised"] /\ phase'[a] = "raised"
      /\ firstOnly' = [firstOnly EXCEPT ![u] = TRUE] /\ stranded' = stranded \cup {u}
      /\ UNCHANGED <<pending, call, future, failed, tangled>>
  BY DEF AskAmbiguous, IInv, TypeOK
<1>2. call[a] = NoCall /\ call \in [Callers -> Calls \cup {NoCall}]
  BY <1>1 DEF IInv, TypeOK, Active
<1>3. call' = [call EXCEPT ![a] = NoCall]
  BY <1>1, <1>2
<1>4. stranded \subseteq Users /\ failed \in [Users -> 0..MaxFailed] /\ firstOnly \in [Users -> BOOLEAN]
  BY DEF IInv, TypeOK
<1>5. Leaving(a)
  BY <1>1, <1>3, <1>4 DEF Leaving
<1> QED BY <1>5, LeaveKeeps

LEMMA StopLeaving == ASSUME IInv, NEW a \in Callers, phase[a] = "waiting", future[a] # Unset,
                            NEW how \in {"returned", "raised"}, Stop(a, call[a], how),
                            failed' \in [Users -> 0..MaxFailed], UNCHANGED <<tangled, stranded>>
                     PROVE  IInv'
<1>1. phase'[a] = how
  BY DEF Stop, IInv, TypeOK
<1>2. stranded \subseteq Users /\ firstOnly \in [Users -> BOOLEAN]
  BY DEF IInv, TypeOK
<1>3. Leaving(a)
  BY <1>1, <1>2 DEF Leaving, Stop, Active
<1> QED BY <1>3, LeaveKeeps

LEMMA AgainRegistering == ASSUME IInv, NEW a \in Callers, phase[a] = "waiting", future[a] # Unset,
                                 NEW at \in {"main", "confirm"} \cup Fields, NEW first \in BOOLEAN,
                                 at = "confirm" => call[a].kind \in {"choice", "address"},
                                 AskAgain(a, call[a], at, first),
                                 failed' \in [Users -> 0..MaxFailed], UNCHANGED <<tangled, stranded>>
                          PROVE  IInv'
<1> DEFINE d == [call[a] EXCEPT !.at = at, !.first = first]
<1>1. call[a] \in Calls /\ Regular(call[a])
  BY DEF IInv, TypeOK, Confirming, Active
<1>2. /\ d \in Calls /\ d.user = call[a].user /\ d.chat = call[a].chat /\ d.kind = call[a].kind
      /\ d.first = first /\ d.at = at /\ d.confirm = call[a].confirm
  BY <1>1 DEF Calls
<1>3. Regular(d)
  BY <1>1, <1>2 DEF Regular
<1>4. Key(d) = Key(call[a])
  BY <1>2 DEF Key
<1>5. Register(a, d, Unregistered(d))
  BY <1>4 DEF AskAgain, Unregistered
<1>6. \A b \in Callers \ {a} : Active(b) /\ call[b].user = d.user => d.user \in tangled'
  BY <1>2 DEF IInv, Alone, Active
<1>7. Registering(a, d)
  BY <1>3, <1>4, <1>5, <1>6 DEF Registering, IInv, TypeOK
<1> QED BY <1>2, <1>7, RegisterKeeps

\* what a caller does with an answer: it stops, asks again, or looks it up
LEMMA ResumeCases == ASSUME IInv, NEW a \in Callers, Resume(a)
                     PROVE  \/ \E how \in {"returned", "raised"} : Stop(a, call[a], how)
                            \/ \E at \in {"main", "confirm"} \cup Fields, first \in BOOLEAN :
                                 /\ AskAgain(a, call[a], at, first)
                                 /\ at = "confirm" => call[a].kind \in {"choice", "address"}
                            \/ Lookup(a, call[a])
<1> DEFINE c == call[a]
           t == future[a]
           Stopped == \E how \in {"returned", "raised"} : Stop(a, c, how)
           Asked == \E at \in {"main", "confirm"} \cup Fields, first \in BOOLEAN :
                      /\ AskAgain(a, c, at, first)
                      /\ at = "confirm" => c.kind \in {"choice", "address"}
<1> SUFFICES Stopped \/ Asked \/ Lookup(a, c)
  OBVIOUS
<1>1. phase[a] = "waiting" /\ c \in Calls /\ Regular(c)
  BY DEF IInv, TypeOK, Confirming, Active, Resume
<1>2. c.strict \in BOOLEAN /\ c.first \in BOOLEAN /\ c.at \in {"main", "confirm"} \cup Fields
      /\ "main" \in {"main", "confirm"} \cup Fields /\ "confirm" \in {"main", "confirm"} \cup Fields
  BY <1>1 DEF Calls
<1>3. ASSUME NEW at \in {"main", "confirm"} \cup Fields, NEW first \in BOOLEAN,
             AskAgain(a, c, at, first), at = "confirm" => c.kind \in {"choice", "address"}
      PROVE  Asked
  BY <1>3
<1>4. ASSUME NEW how \in {"returned", "raised"}, Stop(a, c, how) PROVE Stopped
  BY <1>4
<1> HIDE DEF Stopped, Asked
<1>5. CASE pending[Key(c)] = NoCaller
  BY <1>4, <1>5 DEF Resume
<1>6. CASE c.kind = "freeform" /\ Stop(a, c, "returned")
  BY <1>4, <1>6
<1>7. CASE c.kind \in {"int", "float"} /\ Number(a, c, t)
  BY <1>2, <1>3, <1>4, <1>7 DEF Number
<1>8. CASE c.kind = "yesno" /\ YesNo(a, c, t)
  BY <1>2, <1>3, <1>4, <1>8 DEF YesNo
<1>9. CASE c.kind \in {"choice", "address"} /\ c.at = "confirm" /\ Confirmation(a, c, t)
  BY <1>2, <1>3, <1>4, <1>9 DEF Confirmation
<1>10. CASE c.kind = "choice" /\ c.at = "main" /\ Choice(a, c, t)
  BY <1>2, <1>3, <1>4, <1>10 DEF Choice
<1>11. CASE c.kind = "email" /\ Email(a, c, t)
  BY <1>2, <1>3, <1>4, <1>11 DEF Email
<1>12. CASE c.kind = "challenge" /\ Challenge(a, c, t)
  BY <1>2, <1>3, <1>4, <1>12 DEF Challenge, Number
<1>13. CASE c.kind = "setup" /\ Setup(a, c)
  <2>1. CASE c.at = "mood_emoji"
    BY <1>4, <1>13, <2>1 DEF Setup
  <2>2. CASE c.at # "mood_emoji"
    <3> DEFINE next == IF c.at = "main" THEN "family_name" ELSE NextField[c.at]
    <3>1. c.at \in {"main"} \cup Fields
      BY <1>1, <1>2, <1>13 DEF Regular
    <3>2. next \in Fields /\ next # "confirm"
      BY <3>1, <2>2 DEF NextField, Fields
    <3>3. AskAgain(a, c, next, FALSE)
      BY <1>13, <2>2 DEF Setup
    <3> HIDE DEF next
    <3> QED BY <1>3, <3>2, <3>3
  <2> QED BY <2>1, <2>2
<1> QED BY <1>1, <1>5, <1>6, <1>7, <1>8, <1>9, <1>10, <1>11, <1>12, <1>13 DEF Resume

LEMMA ResumeKeeps == ASSUME IInv, NEW a \in Callers, Resume(a) PROVE IInv'
<1>1. /\ phase[a] = "waiting" /\ future[a] # Unset /\ UNCHANGED <<tangled, stranded>>
      /\ failed' = IF pending[Key(call[a])] # NoCaller /\ Fails(call[a], future[a])
                   THEN [failed EXCEPT ![call[a].user] = @ + 1] ELSE failed
  BY DEF Resume
<1>2. call[a] \in Calls /\ call[a].user \in Users /\ failed \in [Users -> 0..MaxFailed]
  BY <1>1 DEF IInv, TypeOK, Active, Calls
<1>3. failed' \in [Users -> 0..MaxFailed]
  <2>1. CASE failed' = failed
    BY <1>2, <2>1
  <2>2. CASE pending[Key(call[a])] # NoCaller /\ Fails(call[a], future[a])
    <3>1. failed[call[a].user] < MaxFailed
      BY <2>2 DEF Resume, Challenge, Fails
    <3> QED BY <1>1, <1>2, <2>2, <3>1, QuestionsAssumption
  <2> QED BY <1>1, <2>1, <2>2
<1>4. CASE \E how \in {"returned", "raised"} : Stop(a, call[a], how)
  BY <1>1, <1>3, <1>4, StopLeaving
<1>5. CASE \E at \in {"main", "confirm"} \cup Fields, first \in BOOLEAN :
             /\ AskAgain(a, call[a], at, first)
             /\ at = "confirm" => call[a].kind \in {"choice", "address"}
  BY <1>1, <1>3, <1>5, AgainRegistering
<1>6. CASE Lookup(a, call[a])
  <2>1. phase'[a] = "looking" /\ Active(a) /\ stranded \subseteq Users /\ firstOnly \in [Users -> BOOLEAN]
    BY <1>1, <1>6 DEF Lookup, IInv, TypeOK, Active
  <2>2. Leaving(a)
    BY <1>1, <1>3, <1>6, <2>1 DEF Lookup, Leaving
  <2> QED BY <2>2, LeaveKeeps
<1> QED BY <1>4, <1>5, <1>6, ResumeCases

LEMMA LocatedKeeps == ASSUME IInv, NEW a \in Callers, Located(a) PROVE IInv'
<1>1. /\ phase[a] = "looking" /\ UNCHANGED <<failed, tangled, stranded>> /\ Active(a)
      /\ call[a] \in Calls /\ Regular(call[a])
      /\ failed \in [Users -> 0..MaxFailed] /\ tangled \subseteq Users /\ stranded \subseteq Users
      /\ firstOnly \in [Users -> BOOLEAN]
      /\ phase \in [Callers -> {"idle", "waiting", "looking", "returned", "raised"}]
  BY DEF Located, IInv, TypeOK, Confirming, Active
<1>2. \A b \in Callers \ {a} : Active(b) /\ call[b].user = call[a].user => call[a].user \in tangled'
  BY <1>1 DEF IInv, Alone
<1>3. CASE /\ phase' = [phase EXCEPT ![a] = "returned"]
           /\ call' = [call EXCEPT ![a] = NoCall]
           /\ future' = [future EXCEPT ![a] = Unset]
           /\ UNCHANGED <<pending, firstOnly>>
  <2>1. phase'[a] = "returned"
    BY <1>1, <1>3
  <2>2. Leaving(a)
    BY <1>1, <1>3, <2>1 DEF Leaving
  <2> QED BY <2>2, LeaveKeeps
<1>4. CASE Register(a, call[a], pending)
  <2>1. Registering(a, call[a])
    BY <1>1, <1>2, <1>4 DEF Registering
  <2> QED BY <1>1, <2>1, RegisterKeeps
<1>5. CASE call[a].confirm /\ Register(a, [call[a] EXCEPT !.at = "confirm"], pending)
  <2> DEFINE d == [call[a] EXCEPT !.at = "confirm"]
  <2>1. /\ d \in Calls /\ d.user = call[a].user /\ d.chat = call[a].chat /\ d.kind = call[a].kind
        /\ d.confirm = call[a].confirm /\ d.at = "confirm"
    BY <1>1 DEF Calls
  <2>2. Regular(d) /\ Key(d) = Key(call[a])
    BY <1>1, <1>5, <2>1 DEF Regular, Key
  <2>3. Registering(a, d)
    BY <1>1, <1>2, <1>5, <2>1, <2>2 DEF Registering
  <2> QED BY <2>1, <2>3, RegisterKeeps
<1> QED BY <1>3, <1>4, <1>5 DEF Located

\* an answer reaches the caller that waits under its key; a marked user's never
LEMMA HandleKeeps == ASSUME IInv, NEW u \in Users, NEW chat \in Chats, NEW t \in Texts,
                            HandleMessage(u, chat, t)
                     PROVE  IInv'
<1> DEFINE b == pending[<<u, chat>>]
<1>1. /\ b # NoCaller /\ ~firstOnly[u]
      /\ firstOnly' = [firstOnly EXCEPT ![u] = FALSE]
      /\ future' = IF future[b] = Unset THEN [future EXCEPT ![b] = t] ELSE future
      /\ UNCHANGED <<pending, phase, call, failed, tangled, stranded>>
  BY DEF HandleMessage, IsFirstDevice, Result
<1>2. /\ pending \in [Users \X Chats -> Callers \cup {NoCaller}]
      /\ firstOnly \in [Users -> BOOLEAN]
      /\ future \in [Callers -> Texts \cup {Unset}]
  BY DEF IInv, TypeOK
<1>3. b \in Callers /\ phase[b] = "waiting" /\ Key(call[b]) = <<u, chat>>
  BY <1>1, <1>2 DEF IInv, Registered
<1>4. call[b].user = u
  BY <1>3 DEF Key
<1> HIDE DEF b
<1>5. /\ \A a \in Callers \ {b} : future'[a] = future[a]
      /\ future' \in [Callers -> Texts \cup {Unset}]
      /\ firstOnly' = firstOnly
  BY <1>1, <1>2, <1>3
<1>6. TypeOK'
  BY <1>1, <1>5 DEF IInv, TypeOK, Active
<1>7. Registered' /\ Alone' /\ Reachable' /\ Confirming'
  BY <1>1 DEF IInv, Registered, Alone, Reachable, Confirming, Active, Key, Regular
<1>8. MarkHasQuestion'
  <2> SUFFICES ASSUME NEW v \in Users, firstOnly[v], v \notin stranded
               PROVE  \E x \in Callers : /\ phase[x] = "waiting" /\ future'[x] = Unset
                                         /\ call[x].user = v /\ call[x].first
    BY <1>1, <1>5 DEF MarkHasQuestion
  <2>1. v # u
    BY <1>1
  <2>2. PICK x \in Callers : /\ phase[x] = "waiting" /\ future[x] = Unset
                             /\ call[x].user = v /\ call[x].first
    BY DEF IInv, MarkHasQuestion
  <2>3. x # b
    BY <1>4, <2>1, <2>2
  <2> QED BY <1>5, <2>2, <2>3
<1> QED BY <1>6, <1>7, <1>8 DEF IInv

LEMMA StutterKeeps == IInv /\ UNCHANGED vars => IInv'
  BY DEF vars, IInv, TypeOK, Registered, Alone, Reachable, Confirming, MarkHasQuestion,
    Active, Key, Regular

LEMMA NextKeeps == IInv /\ [Next]_vars => IInv'
<1> SUFFICES ASSUME IInv, [Next]_vars PROVE IInv'
  OBVIOUS
<1>1. ASSUME NEW a \in Callers, Ask(a) \/ Resume(a) \/ Located(a) PROVE IInv'
  BY <1>1, AskKeeps, ResumeKeeps, LocatedKeeps
<1>2. ASSUME NEW a \in Callers, NEW u \in Users, AskAmbiguous(a, u) PROVE IInv'
  BY <1>2, AskAmbiguousKeeps
<1>3. ASSUME NEW u \in Users, NEW chat \in Chats, NEW t \in Texts, HandleMessage(u, chat, t)
      PROVE  IInv'
  BY <1>3, HandleKeeps
<1> QED BY <1>1, <1>2, <1>3, StutterKeeps DEF Next

LEMMA IInvHolds == Spec => []IInv
  BY InitIsInv, NextKeeps, PTL DEF Spec

------------------------------------------------------------------------------
\* Every variable keeps its type.
THEOREM TypeCorrect == Spec => []TypeOK
<1>1. IInv => TypeOK
  BY DEF IInv
<1> QED BY <1>1, IInvHolds, PTL

\* A registration belongs to a caller that waits for it (QuestionBot.pending_answers).
THEOREM RegisteredHolds == Spec => []Registered
<1>1. IInv => Registered
  BY DEF IInv
<1> QED BY <1>1, IInvHolds, PTL

\* A caller that shares its user with no other call is registered while it waits.
THEOREM ReachableHolds == Spec => []Reachable
<1>1. IInv => Reachable
  BY DEF IInv
<1> QED BY <1>1, IInvHolds, PTL

\* Whoever is marked has a question open that requires the first device.
THEOREM MarkHasQuestionHolds == Spec => []MarkHasQuestion
<1>1. IInv => MarkHasQuestion
  BY DEF IInv
<1> QED BY <1>1, IInvHolds, PTL

------------------------------------------------------------------------------
(* Properties of steps.                                                     *)

\* a step of caller a changes no other caller's question, and registers only a
Own(a) ==
  /\ \A b \in Callers \ {a} : phase'[b] = phase[b] /\ call'[b] = call[b] /\ future'[b] = future[b]
  /\ future'[a] \in {future[a], Unset}
  /\ \A k \in Users \X Chats : pending'[k] \in {pending[k], a, NoCaller}
  /\ ~(phase[a] = "waiting" /\ future[a] = Unset)

LEMMA OwnSteps == ASSUME IInv, NEW a \in Callers,
                         \/ Ask(a) \/ Resume(a) \/ Located(a)
                         \/ \E u \in Users : AskAmbiguous(a, u)
                  PROVE  Own(a)
<1>1. /\ pending \in [Users \X Chats -> Callers \cup {NoCaller}]
      /\ call \in [Callers -> Calls \cup {NoCall}]
      /\ phase \in [Callers -> {"idle", "waiting", "looking", "returned", "raised"}]
      /\ future \in [Callers -> Texts \cup {Unset}]
      /\ phase[a] = "waiting" => call[a] \in Calls
  BY DEF IInv, TypeOK, Active
<1>2. ASSUME NEW d, NEW regs, Register(a, d, regs), regs \in [Users \X Chats -> Callers \cup {NoCaller}],
             \A k \in Users \X Chats : regs[k] \in {pending[k], NoCaller},
             ~(phase[a] = "waiting" /\ future[a] = Unset)
      PROVE  Own(a)
  BY <1>1, <1>2 DEF Register, Own
<1>3. /\ Unregistered(call[a]) \in [Users \X Chats -> Callers \cup {NoCaller}]
      /\ \A k \in Users \X Chats : Unregistered(call[a])[k] \in {pending[k], NoCaller}
  BY <1>1 DEF Unregistered
<1>4. CASE Ask(a)
  BY <1>1, <1>2, <1>4 DEF Ask
<1>5. CASE Resume(a)
  <2>1. phase[a] = "waiting" /\ future[a] # Unset
    BY <1>5 DEF Resume
  <2>2. CASE \E how \in {"returned", "raised"} : Stop(a, call[a], how)
    BY <1>1, <1>3, <2>1, <2>2 DEF Stop, Own
  <2>3. CASE \E at \in {"main", "confirm"} \cup Fields, first \in BOOLEAN : AskAgain(a, call[a], at, first)
    <3>1. PICK at \in {"main", "confirm"} \cup Fields, first \in BOOLEAN : AskAgain(a, call[a], at, first)
      BY <2>3
    <3>2. \E d : Register(a, d, Unregistered(call[a]))
      BY <3>1 DEF AskAgain
    <3> QED BY <1>2, <1>3, <2>1, <3>2
  <2>4. CASE Lookup(a, call[a])
    BY <1>1, <1>3, <2>1, <2>4 DEF Lookup, Own
  <2> QED BY <1>5, <2>2, <2>3, <2>4, ResumeCases
<1>6. CASE Located(a)
  <2>1. phase[a] = "looking"
    BY <1>6 DEF Located
  <2>2. CASE /\ phase' = [phase EXCEPT ![a] = "returned"]
             /\ call' = [call EXCEPT ![a] = NoCall]
             /\ future' = [future EXCEPT ![a] = Unset]
             /\ UNCHANGED <<pending, firstOnly>>
    BY <1>1, <2>1, <2>2 DEF Own
  <2>3. CASE \E d : Register(a, d, pending)
    BY <1>1, <1>2, <2>1, <2>3
  <2> QED BY <1>6, <2>2, <2>3 DEF Located
<1>7. CASE \E u \in Users : AskAmbiguous(a, u)
  BY <1>1, <1>7 DEF AskAmbiguous, Own
<1> QED BY <1>4, <1>5, <1>6, <1>7

LEMMA StepKeepsAnswers == IInv /\ [Next]_vars =>
                            \A a \in Callers : future[a] # Unset => future'[a] \in {future[a], Unset}
<1> SUFFICES ASSUME IInv, [Next]_vars, NEW a \in Callers, future[a] # Unset
             PROVE  future'[a] \in {future[a], Unset}
  OBVIOUS
<1>1. CASE UNCHANGED vars
  BY <1>1 DEF vars
<1>2. ASSUME NEW b \in Callers, Own(b) PROVE future'[a] \in {future[a], Unset}
  BY <1>2 DEF Own
<1>3. ASSUME NEW u \in Users, NEW chat \in Chats, NEW t \in Texts, HandleMessage(u, chat, t)
      PROVE  future'[a] \in {future[a], Unset}
  <2>1. future \in [Callers -> Texts \cup {Unset}]
    BY DEF IInv, TypeOK
  <2> QED BY <1>3, <2>1 DEF HandleMessage, Result
<1> QED BY <1>1, <1>2, <1>3, OwnSteps DEF Next

\* The first answer counts (set_result of a future that is done raises).
THEOREM FirstAnswerWinsHolds == Spec => FirstAnswerWins
<1>1. IInv /\ [Next]_vars =>
        [\A a \in Callers : future[a] # Unset => future'[a] \in {future[a], Unset}]_vars
  BY StepKeepsAnswers
<1> QED BY <1>1, IInvHolds, PTL DEF Spec, FirstAnswerWins

LEMMA StepKeepsOrphans == IInv /\ [Next]_vars => \A a \in Callers : Orphan(a) => Orphan(a)'
<1> SUFFICES ASSUME IInv, [Next]_vars, NEW a \in Callers, Orphan(a)
             PROVE  Orphan(a)'
  OBVIOUS
<1>1. CASE UNCHANGED vars
  BY <1>1 DEF vars, Orphan, Key
<1>2. ASSUME NEW b \in Callers, Own(b) PROVE Orphan(a)'
  <2>1. a # b
    BY <1>2 DEF Own, Orphan
  <2>2. phase'[a] = phase[a] /\ call'[a] = call[a] /\ future'[a] = future[a]
    BY <1>2, <2>1 DEF Own
  <2>3. Key(call[a]) \in Users \X Chats
    BY KeyType DEF Orphan, IInv, TypeOK, Active
  <2>4. pending'[Key(call[a])] # a
    BY <1>2, <2>1, <2>3, QuestionsAssumption DEF Own, Orphan
  <2> QED BY <2>2, <2>4 DEF Orphan, Key
<1>3. ASSUME NEW u \in Users, NEW chat \in Chats, NEW t \in Texts, HandleMessage(u, chat, t)
      PROVE  Orphan(a)'
  <2> DEFINE b == pending[<<u, chat>>]
  <2>1. b # NoCaller /\ future \in [Callers -> Texts \cup {Unset}]
        /\ pending \in [Users \X Chats -> Callers \cup {NoCaller}]
    BY <1>3 DEF HandleMessage, IInv, TypeOK
  <2>2. b \in Callers /\ Key(call[b]) = <<u, chat>>
    BY <2>1 DEF IInv, Registered
  <2>3. a # b
    BY <2>2 DEF Orphan
  <2>4. future'[a] = future[a] /\ UNCHANGED <<pending, phase, call>>
    BY <1>3, <2>1, <2>2, <2>3 DEF HandleMessage, Result
  <2> QED BY <2>4 DEF Orphan, Key
<1> QED BY <1>1, <1>2, <1>3, OwnSteps DEF Next

\* An orphaned question is never answered (pending_answers[...] = Future()).
THEOREM OrphansStayHolds == Spec => OrphansStay
<1>1. IInv /\ [Next]_vars => [\A a \in Callers : Orphan(a) => Orphan(a)']_vars
  BY StepKeepsOrphans
<1> QED BY <1>1, IInvHolds, PTL DEF Spec, OrphansStay
==============================================================================
