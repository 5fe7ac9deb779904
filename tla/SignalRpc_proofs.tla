--------------------------- MODULE SignalRpc_proofs ---------------------------
(***************************************************************************)
(* Theorems about SignalRpc, for any requests, any max_backoff and any     *)
(* number of exits and launches: the types, the order of the commands      *)
(* (InOrder), what a future waits for (PendingIsOnItsWay), and that        *)
(* shutdown leaves no child behind (KilledAtExit).                         *)
(***************************************************************************)
EXTENDS SignalRpc, TLAPS

-----------------------------------------------------------------------------
(* Sequences.                                                              *)

LEMMA AppendIs == ASSUME NEW S, NEW s \in Seq(S), NEW e \in S
                  PROVE  /\ Append(s, e) \in Seq(S)
                         /\ DOMAIN Append(s, e) = DOMAIN s \cup {Len(s) + 1}
                         /\ Len(s) + 1 \notin DOMAIN s
                         /\ \A i \in DOMAIN s : Append(s, e)[i] = s[i] /\ i < Len(s) + 1
                         /\ Append(s, e)[Len(s) + 1] = e
  OBVIOUS

LEMMA TailIs == ASSUME NEW S, NEW s \in Seq(S), s # <<>>
                PROVE  /\ Head(s) \in S /\ Tail(s) \in Seq(S)
                       /\ 1 \in DOMAIN s /\ s[1] = Head(s)
                       /\ \A i \in DOMAIN Tail(s) : i + 1 \in DOMAIN s /\ Tail(s)[i] = s[i + 1]
                       /\ \A i \in DOMAIN s : i = 1 \/ i - 1 \in DOMAIN Tail(s)
                       /\ \A i \in DOMAIN Tail(s) : i \in Nat /\ i + 1 > 1
  OBVIOUS

LEMMA AppendSet == ASSUME NEW S, NEW s \in Seq(S), NEW e \in S
                   PROVE  ToSet(Append(s, e)) = ToSet(s) \cup {e}
<1>1. \A i \in DOMAIN s : Append(s, e)[i] = s[i]
  BY AppendIs
<1>2. DOMAIN Append(s, e) = DOMAIN s \cup {Len(s) + 1} /\ Append(s, e)[Len(s) + 1] = e
  BY AppendIs
<1> QED BY <1>1, <1>2 DEF ToSet

LEMMA TailSet == ASSUME NEW S, NEW s \in Seq(S), s # <<>>
                 PROVE  ToSet(s) = {Head(s)} \cup ToSet(Tail(s))
<1>1. 1 \in DOMAIN s /\ s[1] = Head(s)
  BY TailIs
<1>2. \A i \in DOMAIN Tail(s) : i + 1 \in DOMAIN s /\ Tail(s)[i] = s[i + 1]
  BY TailIs
<1>3. \A i \in DOMAIN s : i = 1 \/ (i - 1 \in DOMAIN Tail(s) /\ s[i] = Tail(s)[i - 1])
  <2>1. /\ Len(s) \in Nat /\ DOMAIN s = 1..Len(s) /\ DOMAIN Tail(s) = 1..(Len(s) - 1)
        /\ \A j \in 1..(Len(s) - 1) : Tail(s)[j] = s[j + 1]
    OBVIOUS
  <2> SUFFICES ASSUME NEW i \in 1..Len(s), i # 1
               PROVE  i - 1 \in DOMAIN Tail(s) /\ s[i] = Tail(s)[i - 1]
    BY <2>1
  <2>2. i - 1 \in 1..(Len(s) - 1) /\ (i - 1) + 1 = i
    BY <2>1
  <2> QED BY <2>1, <2>2
<1>4. ToSet(Tail(s)) \subseteq ToSet(s)
  BY <1>2 DEF ToSet
<1>5. ToSet(s) \subseteq {Head(s)} \cup ToSet(Tail(s))
  <2> SUFFICES ASSUME NEW x \in ToSet(s), x # Head(s)
               PROVE  x \in ToSet(Tail(s))
    OBVIOUS
  <2>1. PICK i \in DOMAIN s : s[i] = x
    BY DEF ToSet
  <2>2. i - 1 \in DOMAIN Tail(s) /\ x = Tail(s)[i - 1]
    BY <1>1, <1>3, <2>1
  <2> QED BY <2>2 DEF ToSet
<1>6. Head(s) \in ToSet(s)
  BY <1>1 DEF ToSet
<1> QED BY <1>4, <1>5, <1>6

-----------------------------------------------------------------------------
(* Types.                                                                  *)

\* the variables of the conversation, and those of the child
RpcTypes ==
  /\ phase \in [Requests -> Phases]
  /\ future \in [Requests -> {"none", "unset", "set"}]
  /\ outbox \in Seq(Requests) /\ inbox \in Seq(Lines)
  /\ writer \in {"none", "get", "hold", "dead"}
  /\ held \in Requests \cup {NoRequest}
  /\ writer = "hold" <=> held # NoRequest
  /\ cli \subseteq Requests
  /\ stdout \subseteq Lines /\ leftover \subseteq Lines /\ reader \in {"reading", "ended"}
  /\ issued \in Seq(Requests) /\ got \in Seq(Requests) /\ missed \subseteq Requests
ProcTypes ==
  /\ proc \in {"none", "up", "exited"}
  /\ loop \in {"top", "spawning", "waiting", "backoff", "over"}
  /\ restarts \in Nat /\ longRuns \in 0..MaxLongRuns /\ sigints \in 0..3
  /\ down \in {"no", "called", "closing", "stuck", "exited"}
  /\ escaped \in BOOLEAN

LEMMA TypesAre == TypeOK <=> RpcTypes /\ ProcTypes
  BY DEF TypeOK, RpcTypes, ProcTypes

\* The steps of the tasks that make requests.
LEMMA RequestTypes == ASSUME RpcTypes, NEW r \in Requests,
                             Ask(r) \/ Send(r) \/ Respond(r) \/ DoNotRespond(r) \/ Resume(r)
                      PROVE  RpcTypes'
<1>1. ASSUME NEW p \in Phases, Put(r, p) PROVE RpcTypes'
  <2>1. outbox' \in Seq(Requests) /\ issued' \in Seq(Requests)
    BY <1>1, AppendIs DEF Put, RpcTypes
  <2>2. phase' \in [Requests -> Phases] /\ future' \in [Requests -> {"none", "unset", "set"}]
    BY <1>1 DEF Put, RpcTypes
  <2> QED BY <1>1, <2>1, <2>2 DEF Put, readVars, RpcTypes
<1>2. CASE Ask(r) \/ Send(r) \/ Respond(r)
  BY <1>1, <1>2 DEF Ask, Send, Respond, Phases
<1>3. CASE DoNotRespond(r) \/ Resume(r)
  BY <1>3 DEF DoNotRespond, Resume, readVars, RpcTypes, Phases
<1> QED BY <1>2, <1>3

\* The writer, the child and the reader.
LEMMA PumpTypes == ASSUME RpcTypes,
                          Pump \/ Spawned \/ \E r \in Requests : Answer(r) \/ Arrive(r)
                   PROVE  RpcTypes'
<1>1. CASE Take
  BY <1>1, TailIs, RpcAssumption DEF Take, readVars, RpcTypes
<1>2. CASE WriteCommand
  <2>1. held \in Requests
    BY <1>2 DEF WriteCommand, RpcTypes
  <2>2. got' \in Seq(Requests)
    <3>1. Append(got, held) \in Seq(Requests) /\ got \in Seq(Requests)
      BY <2>1, AppendIs DEF RpcTypes
    <3> QED BY <1>2, <3>1 DEF WriteCommand
  <2> QED BY <1>2, <2>1, <2>2 DEF WriteCommand, Awaited, readVars, RpcTypes
<1>3. CASE ReadLine
  <2>1. PICK line \in stdout \cup leftover :
           /\ inbox' = Append(inbox, line)
           /\ stdout' = stdout \ {line} /\ leftover' = leftover \ {line}
    BY <1>3 DEF ReadLine
  <2>2. inbox' \in Seq(Lines)
    BY <2>1, AppendIs DEF RpcTypes
  <2> QED BY <1>3, <2>1, <2>2 DEF ReadLine, RpcTypes
<1>4. CASE Handle
  <2>1. Head(inbox) \in Lines /\ inbox' \in Seq(Lines)
    BY <1>4, TailIs DEF Handle, RpcTypes
  <2>2. Head(inbox).id \in Requests
    BY <2>1 DEF Lines
  <2>3. phase' \in [Requests -> Phases] /\ future' \in [Requests -> {"none", "unset", "set"}]
    BY <1>4, <2>2 DEF Handle, RpcTypes, Phases
  <2> QED BY <1>4, <2>1, <2>3 DEF Handle, readVars, RpcTypes
<1>5. CASE Spawned
  BY <1>5 DEF Spawned, NewReader, Awaited, RpcTypes
<1>6. ASSUME NEW r \in Requests, Answer(r) \/ Arrive(r) PROVE RpcTypes'
  <2>1. stdout' \subseteq Lines
    BY <1>6 DEF Answer, Arrive, Response, RpcTypes, Lines
  <2>2. phase' \in [Requests -> Phases]
    BY <1>6 DEF Answer, Arrive, RpcTypes, Phases
  <2> QED BY <1>6, <2>1, <2>2 DEF Answer, Arrive, RpcTypes
<1>7. Responses(stdout \cup leftover) \subseteq Requests
  BY DEF Responses, RpcTypes, Lines
<1>8. CASE DropLine \/ ReaderEnds
  <2>1. missed' \subseteq Requests
    BY <1>7, <1>8 DEF DropLine, ReaderEnds, Responses, RpcTypes
  <2> QED BY <1>8, <2>1 DEF DropLine, ReaderEnds, RpcTypes
<1> QED BY <1>1, <1>2, <1>3, <1>4, <1>5, <1>6, <1>8 DEF Pump

LEMMA TypeStep == ASSUME TypeOK, [Next]_vars PROVE TypeOK'
<1> USE TypesAre
<1>1. CASE \/ \E r \in Requests : Work(r) \/ Serve(r)
           \/ Pump
  <2>1. UNCHANGED procVars
    BY <1>1 DEF Work, Serve, Pump, Ask, Send, Respond, Put, DoNotRespond, Resume, Answer, Arrive,
                Take, WriteCommand, ReadLine, DropLine, ReaderEnds, Handle, TaskStep
  <2>2. RpcTypes'
    BY <1>1, RequestTypes, PumpTypes DEF Work, Serve
  <2>3. ProcTypes'
    BY <2>1 DEF ProcTypes, procVars
  <2> QED BY <2>2, <2>3 DEF TypeOK, RpcTypes, ProcTypes
<1>2. CASE Supervise
  <2>1. RpcTypes'
    BY <1>2, PumpTypes DEF Supervise, Spawn, LoopOver, Reap, BackoffOver, RpcTypes, rpcVars, readVars
  <2>2. CASE Reap
    <3>1. loop' \in {"over", "backoff"} /\ UNCHANGED <<proc, sigints, down, escaped>>
      BY <2>2, Zenon DEF Reap
    <3>2. \/ restarts' = restarts + 1 /\ longRuns' = longRuns
          \/ longRuns < MaxLongRuns /\ longRuns' = longRuns + 1 /\ restarts' = 1
      BY <2>2, Zenon DEF Reap
    <3>3. ProcTypes
      OBVIOUS
    <3>4. restarts' \in Nat /\ longRuns' \in 0..MaxLongRuns
      BY <3>2, <3>3, RpcAssumption DEF ProcTypes
    <3>5. ProcTypes'
      BY <3>1, <3>3, <3>4 DEF ProcTypes
    <3> QED BY <2>1, <3>5 DEF TypeOK, RpcTypes, ProcTypes
  <2>3. CASE ~Reap
    BY <1>2, <2>1, <2>3 DEF Supervise, Spawn, LoopOver, Spawned, BackoffOver, TypeOK, RpcTypes,
       ProcTypes
  <2> QED BY <2>2, <2>3
<1>3. CASE ProcExit \/ Sigint \/ Shutdown
  <2>1. RpcTypes'
    BY <1>3 DEF ProcExit, Sigint, Shutdown, Kill, Close, Exits, Awaited, RpcTypes, TypeOK, rpcVars, readVars
  <2>2. ProcTypes'
    <3>1. CASE ProcExit \/ Close
      BY <3>1 DEF ProcExit, Close, Exits, ProcTypes, TypeOK
    <3>2. CASE Sigint
      BY <3>2 DEF Sigint, ProcTypes, TypeOK
    <3>3. CASE Kill
      <4>1. proc' \in {"none", "up", "exited"} /\ escaped' \in BOOLEAN /\ down' = "closing"
        BY <3>3 DEF Kill, Exits, TypeOK
      <4>2. UNCHANGED <<loop, restarts, longRuns, sigints>>
        BY <3>3 DEF Kill
      <4> QED BY <4>1, <4>2 DEF ProcTypes, TypeOK
    <3> QED BY <1>3, <3>1, <3>2, <3>3 DEF Shutdown
  <2> QED BY <2>1, <2>2 DEF TypeOK, RpcTypes, ProcTypes
<1>4. CASE UNCHANGED vars
  BY <1>4 DEF vars, rpcVars, readVars, procVars, TypeOK
<1> QED BY <1>1, <1>2, <1>3, <1>4 DEF Next

-----------------------------------------------------------------------------
(* The order of the commands: what the children have got, then what the    *)
(* writer holds, then the outbox, all of it in the order of the puts.      *)

Before(puts, a, b) == \E m, n \in DOMAIN puts : m < n /\ puts[m] = a /\ puts[n] = b
Ordered(puts, s) == \A i, j \in DOMAIN s : i < j => Before(puts, s[i], s[j])

OrderInv ==
  /\ Ordered(issued, got) /\ Ordered(issued, outbox)
  /\ \A a \in ToSet(got), b \in ToSet(outbox) : Before(issued, a, b)
  /\ held # NoRequest => /\ held \in ToSet(issued)
                         /\ \A a \in ToSet(got) : Before(issued, a, held)
                         /\ \A b \in ToSet(outbox) : Before(issued, held, b)
  /\ ToSet(got) \subseteq ToSet(issued) /\ ToSet(outbox) \subseteq ToSet(issued)

LEMMA OrderedAppend == ASSUME NEW puts, NEW s \in Seq(Requests), NEW e \in Requests, Ordered(puts,
                              s),
                              \A a \in ToSet(s) : Before(puts, a, e)
                       PROVE  Ordered(puts, Append(s, e))
<1> DEFINE t == Append(s, e)
<1> SUFFICES ASSUME NEW i \in DOMAIN t, NEW j \in DOMAIN t, i < j
             PROVE  Before(puts, t[i], t[j])
  BY DEF Ordered
<1>1. /\ DOMAIN t = DOMAIN s \cup {Len(s) + 1} /\ t[Len(s) + 1] = e
      /\ \A k \in DOMAIN s : t[k] = s[k]
  BY AppendIs
<1>2. i \in DOMAIN s
  OBVIOUS
<1>3. CASE j \in DOMAIN s
  BY <1>1, <1>2, <1>3 DEF Ordered
<1>4. CASE j = Len(s) + 1
  BY <1>1, <1>2, <1>4 DEF ToSet
<1> HIDE DEF t
<1> QED BY <1>1, <1>3, <1>4

LEMMA OrderedTail == ASSUME NEW puts, NEW s \in Seq(Requests), s # <<>>, Ordered(puts, s)
                     PROVE  /\ Ordered(puts, Tail(s))
                            /\ \A b \in ToSet(Tail(s)) : Before(puts, Head(s), b)
<1>1. /\ 1 \in DOMAIN s /\ s[1] = Head(s)
      /\ \A i \in DOMAIN Tail(s) : i + 1 \in DOMAIN s /\ Tail(s)[i] = s[i + 1] /\ i \in Nat /\ i + 1 > 1
  BY TailIs
<1>2. \A i, j \in DOMAIN Tail(s) : i < j => i + 1 < j + 1
  BY <1>1
<1>3. Ordered(puts, Tail(s))
  BY <1>1, <1>2 DEF Ordered
<1>4. \A i \in DOMAIN Tail(s) : Before(puts, s[1], s[i + 1])
  BY <1>1 DEF Ordered
<1> QED BY <1>1, <1>3, <1>4 DEF ToSet

\* A put comes after all that were put before it, whose order it leaves alone.
LEMMA BeforeAppend == ASSUME NEW puts \in Seq(Requests), NEW r \in Requests
                      PROVE  /\ \A a, b : Before(puts, a, b) => Before(Append(puts, r), a, b)
                             /\ \A a \in ToSet(puts) : Before(Append(puts, r), a, r)
<1>1. /\ DOMAIN Append(puts, r) = DOMAIN puts \cup {Len(puts) + 1}
      /\ Append(puts, r)[Len(puts) + 1] = r
      /\ \A i \in DOMAIN puts : Append(puts, r)[i] = puts[i] /\ i < Len(puts) + 1
  BY AppendIs
<1>2. \A a, b : Before(puts, a, b) => Before(Append(puts, r), a, b)
  BY <1>1 DEF Before
<1>3. ASSUME NEW a \in ToSet(puts) PROVE Before(Append(puts, r), a, r)
  <2>1. PICK i \in DOMAIN puts : puts[i] = a
    BY DEF ToSet
  <2> QED BY <1>1, <2>1 DEF Before
<1> QED BY <1>2, <1>3

LEMMA OrderStep == ASSUME TypeOK, OrderInv, [Next]_vars PROVE OrderInv'
<1> USE DEF TypeOK
<1>1. ASSUME NEW r \in Requests, NEW p, Put(r, p) PROVE OrderInv'
  <2>1. /\ issued' = Append(issued, r) /\ outbox' = Append(outbox, r)
        /\ got' = got /\ held' = held
    BY <1>1 DEF Put
  <2>2. /\ \A a, b : Before(issued, a, b) => Before(issued', a, b)
        /\ \A a \in ToSet(issued) : Before(issued', a, r)
    BY <2>1, BeforeAppend
  <2>3. ToSet(issued') = ToSet(issued) \cup {r} /\ ToSet(outbox') = ToSet(outbox) \cup {r}
    BY <2>1, AppendSet
  <2>4. Ordered(issued', got) /\ Ordered(issued', outbox)
    BY <2>2 DEF OrderInv, Ordered
  <2>5. Ordered(issued', Append(outbox, r))
    BY <2>2, <2>4, OrderedAppend DEF OrderInv
  <2> QED BY <2>1, <2>2, <2>3, <2>4, <2>5 DEF OrderInv
<1>2. CASE Take
  <2>1. /\ held' = Head(outbox) /\ outbox' = Tail(outbox) /\ outbox # <<>> /\ outbox \in Seq(Requests)
        /\ got' = got /\ issued' = issued
    BY <1>2 DEF Take
  <2>2. /\ Ordered(issued, outbox')
        /\ \A b \in ToSet(outbox') : Before(issued, held', b)
    BY <2>1, OrderedTail DEF OrderInv
  <2>3. ToSet(outbox) = {held'} \cup ToSet(outbox')
    BY <2>1, TailSet
  <2> QED BY <2>1, <2>2, <2>3 DEF OrderInv
<1>3. CASE WriteCommand
  <2>1. held' = NoRequest /\ outbox' = outbox /\ issued' = issued /\ held \in Requests /\ held # NoRequest
    BY <1>3 DEF WriteCommand
  <2>2. CASE got' = got
    BY <2>1, <2>2 DEF OrderInv
  <2>3. CASE got' = Append(got, held)
    <3>1. ToSet(got') = ToSet(got) \cup {held}
      BY <2>1, <2>3, AppendSet
    <3>2. Ordered(issued, got')
      BY <2>1, <2>3, OrderedAppend DEF OrderInv
    <3> QED BY <2>1, <3>1, <3>2 DEF OrderInv
  <2> QED BY <1>3, <2>2, <2>3 DEF WriteCommand
<1>4. CASE Spawned
  BY <1>4 DEF Spawned, OrderInv
<1>5. CASE UNCHANGED <<issued, got, outbox, held>>
  BY <1>5 DEF OrderInv
<1>6. ASSUME NEW r \in Requests, Work(r) \/ Serve(r)
      PROVE  (\E p \in Phases : Put(r, p)) \/ UNCHANGED <<issued, got, outbox, held>>
  BY <1>6 DEF Work, Serve, Ask, Send, Respond, DoNotRespond, Resume, Answer, Arrive, Phases
<1>7. Pump => Take \/ WriteCommand \/ UNCHANGED <<issued, got, outbox, held>>
  BY DEF Pump, ReadLine, DropLine, ReaderEnds, Handle
<1>8. Supervise => Spawned \/ UNCHANGED <<issued, got, outbox, held>>
  BY DEF Supervise, Spawn, LoopOver, Reap, BackoffOver, rpcVars
<1>9. ProcExit \/ Sigint \/ Shutdown \/ UNCHANGED vars => UNCHANGED <<issued, got, outbox, held>>
  BY DEF ProcExit, Sigint, Shutdown, Kill, Close, Exits, rpcVars, vars
<1> QED BY <1>1, <1>2, <1>3, <1>4, <1>5, <1>6, <1>7, <1>8, <1>9 DEF Next

-----------------------------------------------------------------------------
(* What a future waits for.                                                *)

\* from the put of a command to its response in the inbox
OnItsWay == ToSet(outbox) \cup {held} \cup cli \cup missed
              \cup Responses(stdout \cup leftover) \cup Responses(ToSet(inbox))

LEMMA ResponsesOf == ASSUME NEW S, NEW T
                     PROVE  /\ Responses(S \cup T) = Responses(S) \cup Responses(T)
                            /\ \A r : Responses({Response(r)}) = {r}
<1>1. \A r : Response(r).type = "response" /\ Response(r).id = r
  BY DEF Response
<1> QED BY <1>1 DEF Responses

LEMMA PendingStep == ASSUME TypeOK, PendingIsOnItsWay, [Next]_vars PROVE PendingIsOnItsWay'
<1> USE DEF TypeOK
<1>1. ASSUME NEW r \in Requests, NEW p, Put(r, p) PROVE PendingIsOnItsWay'
  <2>1. ToSet(outbox') = ToSet(outbox) \cup {r}
    BY <1>1, AppendSet DEF Put
  <2>2. UNCHANGED <<held, cli, missed, stdout, leftover, inbox>>
    BY <1>1 DEF Put, readVars
  <2>3. \A q \in Requests \ {r} : future'[q] = future[q]
    BY <1>1 DEF Put
  <2> QED BY <2>1, <2>2, <2>3 DEF PendingIsOnItsWay
<1>2. ASSUME OnItsWay \subseteq OnItsWay',
             \A r \in Requests : future'[r] = "unset" => future[r] = "unset"
      PROVE  PendingIsOnItsWay'
  BY <1>2 DEF PendingIsOnItsWay, OnItsWay
<1>3. CASE Take
  <2>1. ToSet(outbox) = {held'} \cup ToSet(outbox')
    BY <1>3, TailSet DEF Take
  <2>2. held = NoRequest
    BY <1>3 DEF Take
  <2>3. UNCHANGED <<future, cli, missed, stdout, leftover, inbox>>
    BY <1>3 DEF Take, readVars
  <2> QED BY <2>1, <2>2, <2>3, RpcAssumption DEF PendingIsOnItsWay
<1>4. CASE WriteCommand \/ Spawned
  <2>1. /\ cli \subseteq cli' /\ missed \subseteq missed'
        /\ held # NoRequest /\ future[held] # "none" => held \in cli' \cup missed'
    BY <1>4 DEF WriteCommand, Spawned, Awaited
  <2>2. UNCHANGED <<future, outbox, inbox>> /\ stdout' \cup leftover' = stdout \cup leftover
    BY <1>4 DEF WriteCommand, Spawned, NewReader, readVars
  <2> SUFFICES ASSUME NEW r \in Requests, future[r] = "unset"
               PROVE  r \in OnItsWay'
    BY <2>2 DEF PendingIsOnItsWay, OnItsWay
  <2>3. r \in OnItsWay
    BY DEF PendingIsOnItsWay, OnItsWay
  <2>4. r = held => r \in cli' \cup missed'
    BY <2>1, RpcAssumption
  <2>5. /\ Responses(stdout \cup leftover) = Responses(stdout' \cup leftover')
        /\ Responses(ToSet(inbox)) = Responses(ToSet(inbox'))
        /\ ToSet(outbox) = ToSet(outbox')
    BY <2>2, Zenon
  <2>6. \/ r \in ToSet(outbox') \/ r = held \/ r \in cli' \/ r \in missed'
        \/ r \in Responses(stdout' \cup leftover') \/ r \in Responses(ToSet(inbox'))
    BY <2>1, <2>3, <2>5, Zenon DEF OnItsWay
  <2> QED BY <2>4, <2>6, Zenon DEF OnItsWay
<1>5. ASSUME NEW r \in Requests, Answer(r) PROVE PendingIsOnItsWay'
  <2>1. /\ cli' = cli \ {r} /\ missed \subseteq missed' /\ stdout \subseteq stdout'
        /\ UNCHANGED <<future, outbox, held, inbox, leftover>>
    BY <1>5 DEF Answer
  <2>2. future[r] # "none" => r \in missed' \/ Response(r) \in stdout'
    BY <1>5 DEF Answer
  <2>3. Responses(stdout \cup leftover) \subseteq Responses(stdout' \cup leftover')
    BY <2>1 DEF Responses
  <2>4. Response(r) \in stdout' => r \in Responses(stdout' \cup leftover')
    BY DEF Responses, Response
  <2> QED BY <2>1, <2>2, <2>3, <2>4 DEF PendingIsOnItsWay
<1>15. ASSUME NEW r \in Requests, Arrive(r) PROVE PendingIsOnItsWay'
  <2>1. Responses(stdout \cup leftover) \subseteq Responses(stdout' \cup leftover')
    BY <1>15 DEF Arrive, Responses
  <2> QED BY <1>2, <1>15, <2>1 DEF Arrive, OnItsWay
<1>6. CASE ReadLine
  <2>1. PICK line \in stdout \cup leftover :
           /\ stdout' = stdout \ {line} /\ leftover' = leftover \ {line}
           /\ inbox' = Append(inbox, line)
    BY <1>6 DEF ReadLine
  <2>2. ToSet(inbox') = ToSet(inbox) \cup {line}
    BY <2>1, AppendSet
  <2>3. stdout \cup leftover \cup ToSet(inbox) \subseteq stdout' \cup leftover' \cup ToSet(inbox')
    BY <2>1, <2>2
  <2>4. Responses(stdout \cup leftover) \cup Responses(ToSet(inbox))
          \subseteq Responses(stdout' \cup leftover') \cup Responses(ToSet(inbox'))
    BY <2>3 DEF Responses
  <2>5. UNCHANGED <<future, outbox, held, cli, missed>>
    BY <1>6 DEF ReadLine
  <2> QED BY <1>2, <2>4, <2>5 DEF OnItsWay
<1>16. CASE DropLine
  <2>1. PICK r \in Requests : /\ stdout' = stdout \ {Response(r)}
                              /\ leftover' = leftover \ {Response(r)}
                              /\ missed' = missed \cup {r}
    BY <1>16 DEF DropLine, Responses, Lines
  <2>2. stdout \cup leftover \subseteq (stdout' \cup leftover') \cup {Response(r)}
    BY <2>1
  <2>3. Responses(stdout \cup leftover) \subseteq Responses(stdout' \cup leftover') \cup {r}
    <3>1. Responses(stdout \cup leftover)
            \subseteq Responses((stdout' \cup leftover') \cup {Response(r)})
      BY <2>2 DEF Responses
    <3>2. Responses((stdout' \cup leftover') \cup {Response(r)})
            = Responses(stdout' \cup leftover') \cup Responses({Response(r)})
      BY ResponsesOf
    <3>3. Responses({Response(r)}) = {r}
      BY ResponsesOf
    <3> QED BY <3>1, <3>2, <3>3
  <2>4. UNCHANGED <<future, outbox, held, cli, inbox>>
    BY <1>16 DEF DropLine
  <2>5. /\ Responses(ToSet(inbox)) = Responses(ToSet(inbox'))
        /\ ToSet(outbox) = ToSet(outbox')
    BY <2>4, Zenon
  <2>6. OnItsWay \subseteq OnItsWay'
    BY <2>1, <2>3, <2>4, <2>5 DEF OnItsWay
  <2> QED BY <1>2, <2>4, <2>6
<1>17. CASE ReaderEnds
  <2>1. /\ stdout' = {} /\ missed' = missed \cup Responses(stdout)
        /\ UNCHANGED <<future, outbox, held, cli, inbox, leftover>>
    BY <1>17 DEF ReaderEnds
  <2>2. Responses(stdout \cup leftover) = Responses(stdout) \cup Responses(leftover)
    BY ResponsesOf
  <2> QED BY <1>2, <2>1, <2>2 DEF OnItsWay
<1>7. CASE Handle
  <2>1. ToSet(inbox) = {Head(inbox)} \cup ToSet(inbox') /\ Head(inbox) \in Lines
    BY <1>7, TailSet, TailIs DEF Handle
  <2>2. UNCHANGED <<outbox, held, cli, missed, stdout, leftover>>
    BY <1>7 DEF Handle, readVars
  <2>3. CASE Head(inbox).type = "response"
    <3>1. Responses(ToSet(inbox)) \subseteq Responses(ToSet(inbox')) \cup {Head(inbox).id}
      BY <2>1 DEF Responses
    <3>2. /\ future'[Head(inbox).id] # "unset"
          /\ \A r \in Requests : future'[r] = "unset" => future[r] = "unset"
      BY <1>7, <2>1, <2>3 DEF Handle, Lines
    <3> QED BY <2>2, <3>1, <3>2 DEF PendingIsOnItsWay
  <2>4. CASE Head(inbox).type # "response"
    <3>1. Responses(ToSet(inbox)) \subseteq Responses(ToSet(inbox'))
      BY <2>1, <2>4 DEF Responses
    <3>2. UNCHANGED future
      BY <1>7, <2>4 DEF Handle
    <3> QED BY <1>2, <2>2, <3>1, <3>2 DEF OnItsWay
  <2> QED BY <2>3, <2>4
<1>8. CASE Exits
  <2>1. /\ missed \subseteq missed' /\ UNCHANGED <<future, outbox, held, inbox, stdout, leftover>>
        /\ \A r \in cli : future[r] # "none" => r \in missed'
    BY <1>8 DEF Exits, Awaited, readVars
  <2> QED BY <2>1 DEF PendingIsOnItsWay
<1>9. CASE UNCHANGED rpcVars
  BY <1>9 DEF rpcVars, readVars, PendingIsOnItsWay
<1>10. ASSUME NEW r \in Requests, DoNotRespond(r) \/ Resume(r) PROVE PendingIsOnItsWay'
  <2>1. OnItsWay' = OnItsWay
    BY <1>10 DEF DoNotRespond, Resume, readVars, OnItsWay
  <2>2. \A q \in Requests : future'[q] = "unset" => future[q] = "unset"
    BY <1>10 DEF DoNotRespond, Resume
  <2> QED BY <1>2, <2>1, <2>2
<1>11. ASSUME NEW r \in Requests, Work(r) \/ Serve(r) PROVE PendingIsOnItsWay'
  BY <1>1, <1>5, <1>10, <1>11, <1>15 DEF Work, Serve, Ask, Send, Respond
<1>12. Pump => Take \/ WriteCommand \/ ReadLine \/ DropLine \/ ReaderEnds \/ Handle
  BY DEF Pump
<1>13. Supervise => Spawned \/ UNCHANGED rpcVars
  BY DEF Supervise, Spawn, LoopOver, Reap, BackoffOver
<1>14. ProcExit \/ Sigint \/ Shutdown \/ UNCHANGED vars => Exits \/ UNCHANGED rpcVars
  BY DEF ProcExit, Sigint, Shutdown, Kill, Close, rpcVars, vars
<1> HIDE DEF TypeOK
<1> QED BY <1>3, <1>4, <1>6, <1>7, <1>8, <1>9, <1>11, <1>12, <1>13, <1>14, <1>16, <1>17 DEF Next

-----------------------------------------------------------------------------
(* Shutdown.                                                               *)

\* once the child was killed, no other one is or will be up
KillInv ==
  /\ down # "no" => sigints > 0
  /\ down \in {"closing", "stuck"} \/ (down = "exited" /\ sigints < 3)
       => escaped \/ (proc # "up" /\ loop # "spawning")

LEMMA KillStep == ASSUME TypeOK, KillInv, [Next]_vars PROVE KillInv'
<1>1. ASSUME NEW r \in Requests, Work(r) \/ Serve(r) PROVE UNCHANGED procVars
  BY <1>1 DEF Work, Serve, Ask, Send, Respond, Put, DoNotRespond, Resume, Answer, Arrive, TaskStep
<1>2. Pump \/ UNCHANGED vars => UNCHANGED procVars
  BY DEF Pump, Take, WriteCommand, ReadLine, DropLine, ReaderEnds, Handle, TaskStep, vars
<1>3. CASE UNCHANGED procVars
  BY <1>3 DEF procVars, KillInv
<1>4. CASE Supervise
  BY <1>4 DEF Supervise, Spawn, LoopOver, Spawned, Reap, BackoffOver, KillInv, Alive, TypeOK
<1>5. CASE ProcExit
  BY <1>5 DEF ProcExit, Exits, KillInv
<1>6. CASE Sigint
  BY <1>6 DEF Sigint, KillInv, TypeOK
<1>7. CASE Kill
  <2>1. proc' # "up"
    BY <1>7 DEF Kill, Exits
  <2>2. /\ down = "called" /\ down' = "closing" /\ sigints' = sigints /\ loop' = loop
        /\ escaped' = (escaped \/ loop = "spawning")
    BY <1>7 DEF Kill
  <2>3. sigints' > 0
    BY <2>2 DEF KillInv
  <2> QED BY <2>1, <2>2, <2>3 DEF KillInv
<1>8. CASE Close
  BY <1>8 DEF Close, KillInv
<1> QED BY <1>1, <1>2, <1>3, <1>4, <1>5, <1>6, <1>7, <1>8 DEF Next, Shutdown

-----------------------------------------------------------------------------
(* The theorems.                                                           *)

IInv == TypeOK /\ OrderInv /\ PendingIsOnItsWay /\ KillInv

LEMMA InitIsInv == Init => IInv
<1> SUFFICES ASSUME Init PROVE IInv
  OBVIOUS
<1>1. TypeOK
  <2>1. <<>> \in Seq(Requests) /\ <<>> \in Seq(Lines) /\ 0 \in 0..MaxLongRuns
    BY RpcAssumption
  <2>2. RpcTypes
    <3>1. phase \in [Requests -> Phases] /\ future \in [Requests -> {"none", "unset", "set"}]
      BY DEF Init, Phases
    <3>2. /\ outbox \in Seq(Requests) /\ inbox \in Seq(Lines)
          /\ issued \in Seq(Requests) /\ got \in Seq(Requests)
      BY <2>1 DEF Init
    <3>3. writer = "none" /\ held = NoRequest /\ cli = {} /\ missed = {}
          /\ stdout = {} /\ leftover = {} /\ reader = "reading"
      BY DEF Init
    <3>4. writer \in {"none", "get", "hold", "dead"} /\ (writer = "hold" <=> held # NoRequest)
      BY <3>3
    <3> QED BY <3>1, <3>2, <3>3, <3>4 DEF RpcTypes
  <2>3. ProcTypes
    <3>1. /\ proc = "none" /\ loop = "top" /\ restarts = 0 /\ longRuns = 0
          /\ sigints = 0 /\ down = "no" /\ escaped = FALSE
      BY DEF Init
    <3>2. restarts \in Nat /\ longRuns \in 0..MaxLongRuns /\ sigints \in 0..3
      BY <2>1, <3>1
    <3>3. escaped \in BOOLEAN
      BY <3>1
    <3> QED BY <3>1, <3>2, <3>3, Zenon DEF ProcTypes
  <2> QED BY <2>2, <2>3, TypesAre
<1>2. OrderInv
  BY DEF Init, OrderInv, Ordered, ToSet
<1>3. PendingIsOnItsWay /\ KillInv
  BY DEF Init, PendingIsOnItsWay, KillInv
<1> QED BY <1>1, <1>2, <1>3 DEF IInv

LEMMA Invariance == Spec => []IInv
<1>1. IInv /\ [Next]_vars => IInv'
  BY TypeStep, OrderStep, PendingStep, KillStep DEF IInv
<1> QED BY InitIsInv, <1>1, PTL DEF Spec

\* Every variable keeps its type; the writer holds a command exactly while it
\* is between outbox.get and the write.
THEOREM TypeCorrect == Spec => []TypeOK
<1>1. IInv => TypeOK
  BY DEF IInv
<1> QED BY <1>1, Invariance, PTL

\* The children receive commands in the order of the puts and none twice,
\* whatever exits, is cancelled and is launched again (write_commands).
THEOREM InOrderHolds == Spec => []InOrder
<1>1. IInv => InOrder
  BY DEF IInv, OrderInv, Ordered, Before, InOrder
<1> QED BY <1>1, Invariance, PTL

\* A future that is not set has its command or its response on the way, unless a
\* child took it to its grave or a reader lost it (pending_requests).
THEOREM PendingIsOnItsWayHolds == Spec => []PendingIsOnItsWay
<1>1. IInv => PendingIsOnItsWay
  BY DEF IInv
<1> QED BY <1>1, Invariance, PTL

\* async_shutdown leaves no child behind, except one whose launch was under
\* way when it killed the child.
THEOREM KilledAtExitHolds == Spec => []KilledAtExit
<1>1. IInv => KilledAtExit
  BY DEF IInv, KillInv, KilledAtExit
<1> QED BY <1>1, Invariance, PTL
==============================================================================
