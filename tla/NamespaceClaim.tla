--------------------------- MODULE NamespaceClaim ---------------------------
(***************************************************************************)
(* The claim that keeps a namespace to one writer process                  *)
(* (src/forest/pdictng.py): every aPersistDict of a process acquires the   *)
(* claim before it restores, then renews it from a heartbeat task.  All    *)
(* dicts of a process share the process's WRITER_ID; each dict has its own *)
(* acquisition, heartbeat and claim_lost flag.                             *)
(*                                                                         *)
(* Every `await` is a point where other dicts run, so a round trip to the  *)
(* key-value backend is two steps: the backend performs the request, then  *)
(* the response resumes the dict.  Time is relative: a claim carries its   *)
(* age (now - ts, saturating at TTL, where it is stale), a dict carries    *)
(* the time left to its sleep or to its round trip.                        *)
(***************************************************************************)
EXTENDS Integers

CONSTANTS
  Dicts,       \* every aPersistDict any process ever creates
  Writers,     \* the WRITER_IDs: one per process incarnation
  Owner,       \* the process a dict belongs to
  NoWriter,    \* the "writer" of an absent or unreadable claim
  NoDict,
  TTL,         \* CLAIM_TTL
  MaxDelay,    \* longest round trip to the backend
  Staggered,   \* TRUE: no two processes acquire at the same time
  Faults       \* which of the failures below may happen

\* "get": a GET is answered with a status other than 200; "post": a POST is
\* rejected, which post_raw does not notice; "raise": a request raises;
\* "late": a round trip or a sleep takes arbitrarily long.
FaultKinds == {"get", "post", "raise", "late"}

ASSUME ClaimAssumption ==
  /\ Owner \in [Dicts -> Writers]
  /\ NoWriter \notin Writers
  /\ NoDict \notin Dicts
  /\ TTL \in Nat
  /\ MaxDelay \in Nat
  /\ Staggered \in BOOLEAN
  /\ Faults \subseteq FaultKinds

\* bug: a heartbeat that leaves no margin
LazyHeartbeat == TTL

\* CLAIM_HEARTBEAT
Heartbeat == IF TTL \div 3 > 1 THEN TTL \div 3 ELSE 1

VARIABLES
  claim,    \* the value under CLAIM_KEY in the backend
  pc,       \* where each dict's finish_init or heartbeat task is
  seen,     \* the claim a dict was answered and has not acted on yet
  stamp,    \* age of the timestamp in the claim a dict is posting
  timer,    \* time left to the end of a dict's sleep or round trip
  poster    \* history: the dict whose post the standing claim is

vars == <<claim, pc, seen, stamp, timer, poster>>

Claims == [writer : Writers \cup {NoWriter}, age : 0..TTL]
NoClaim == [writer |-> NoWriter, age |-> TTL]

Acquiring == {"readClaim", "decide", "postClaim", "posted", "readVerify", "verify"}
Beating   == {"sleep", "check", "checkDecide", "renew", "renewed"}
Holding   == {"restore"} \cup Beating
Awaiting  == (Acquiring \cup Holding) \ {"sleep"}
Ended     == {"refused", "failed", "lost", "dead", "closed", "crashed"}
Phases    == {"absent"} \cup Acquiring \cup Holding \cup Ended

TypeOK ==
  /\ claim \in Claims
  /\ pc \in [Dicts -> Phases]
  /\ seen \in [Dicts -> Claims]
  /\ stamp \in [Dicts -> 0..TTL]
  /\ timer \in [Dicts -> Nat]
  /\ poster \in Dicts \cup {NoDict}

Init ==
  /\ claim = NoClaim
  /\ pc = [d \in Dicts |-> "absent"]
  /\ seen = [d \in Dicts |-> NoClaim]
  /\ stamp = [d \in Dicts |-> 0]
  /\ timer = [d \in Dicts |-> 0]
  /\ poster = NoDict

-----------------------------------------------------------------------------
(* Helpers of the steps below.                                             *)

\* bug: a process does not recognise its own claim
BlindForeignAndFresh(c, w) == c.writer # NoWriter /\ c.age < TTL

\* _claim_is_foreign_and_fresh, for the writer w
ForeignAndFresh(c, w) == c.writer # NoWriter /\ c.age < TTL /\ c.writer # w

\* d waits, until time t at the latest, for what phase p names
Goto(d, p, t) ==
  /\ pc' = [pc EXCEPT ![d] = p]
  /\ timer' = [timer EXCEPT ![d] = t]

\* the backend answers a GET of the claim; d has not seen the answer yet
AnswerGet(d, p) ==
  /\ \/ seen' = [seen EXCEPT ![d] = claim]
     \/ "get" \in Faults /\ seen' = [seen EXCEPT ![d] = NoClaim]
  /\ Goto(d, p, timer[d])
  /\ UNCHANGED <<claim, stamp, poster>>

\* bug: the claim names the dict instead of the process
TaggedPosted(d) == [writer |-> d, age |-> stamp[d]]

\* what the claim becomes when d's post of it arrives
Posted(d) == [writer |-> Owner[d], age |-> stamp[d]]

\* d has no use any more for what it saw or for the timestamp it took
Forget(d) ==
  /\ seen' = [seen EXCEPT ![d] = NoClaim]
  /\ stamp' = [stamp EXCEPT ![d] = 0]

\* the backend takes d's post, or rejects it and d does not look
AnswerPost(d, p) ==
  /\ \/ claim' = Posted(d) /\ poster' = d
     \/ "post" \in Faults /\ UNCHANGED <<claim, poster>>
  /\ Goto(d, p, timer[d])
  /\ Forget(d)

-----------------------------------------------------------------------------
(* finish_init: acquire the claim, then restore the dict.                  *)

\* the dict is created: its init task sends the first read of the claim
Start(d) ==
  /\ pc[d] = "absent"
  /\ Staggered => \A e \in Dicts : Owner[e] # Owner[d] => pc[e] \notin Acquiring
  /\ Goto(d, "readClaim", MaxDelay)
  /\ UNCHANGED <<claim, seen, stamp, poster>>

AcquireRead(d) == pc[d] = "readClaim" /\ AnswerGet(d, "decide")

AcquireRefuse(d) ==
  /\ pc[d] = "decide"
  /\ ForeignAndFresh(seen[d], Owner[d])
  /\ Goto(d, "refused", 0)
  /\ Forget(d)
  /\ UNCHANGED <<claim, poster>>

\* _post_claim takes the timestamp (age 0) before it sends the request
AcquireClaim(d) ==
  /\ pc[d] = "decide"
  /\ ~ForeignAndFresh(seen[d], Owner[d])
  /\ Goto(d, "postClaim", MaxDelay)
  /\ Forget(d)
  /\ UNCHANGED <<claim, poster>>

AcquirePost(d) == pc[d] = "postClaim" /\ AnswerPost(d, "posted")

\* the post is acknowledged: send the verify read
SendVerify(d) ==
  /\ pc[d] = "posted"
  /\ Goto(d, "readVerify", MaxDelay)
  /\ UNCHANGED <<claim, seen, stamp, poster>>

VerifyRead(d) == pc[d] = "readVerify" /\ AnswerGet(d, "verify")

\* the verify read names another writer, or none: the race is lost.
\* Otherwise the dict goes on to read its own data.
Verify(d) ==
  /\ pc[d] = "verify"
  /\ IF seen[d].writer = Owner[d]
       THEN Goto(d, "restore", MaxDelay)
       ELSE Goto(d, "refused", 0)
  /\ Forget(d)
  /\ UNCHANGED <<claim, poster>>

\* the data has arrived: the lock is released, the heartbeat task created
Restored(d) ==
  /\ pc[d] = "restore"
  /\ Goto(d, "sleep", Heartbeat)
  /\ UNCHANGED <<claim, seen, stamp, poster>>

-----------------------------------------------------------------------------
(* _claim_heartbeat: sleep, then _check_claim, until the claim is lost.    *)

Wake(d) ==
  /\ pc[d] = "sleep"
  /\ timer[d] = 0
  /\ Goto(d, "check", MaxDelay)
  /\ UNCHANGED <<claim, seen, stamp, poster>>

CheckRead(d) == pc[d] = "check" /\ AnswerGet(d, "checkDecide")

\* bug: the heartbeat takes the namespace back
ForgivingCheckLost(d) ==
  /\ pc[d] = "checkDecide"
  /\ ForeignAndFresh(seen[d], Owner[d])
  /\ Goto(d, "renew", MaxDelay)
  /\ Forget(d)
  /\ UNCHANGED <<claim, poster>>

\* claim_lost is set and the loop ends
CheckLost(d) ==
  /\ pc[d] = "checkDecide"
  /\ ForeignAndFresh(seen[d], Owner[d])
  /\ Goto(d, "lost", 0)
  /\ Forget(d)
  /\ UNCHANGED <<claim, poster>>

CheckRenew(d) ==
  /\ pc[d] = "checkDecide"
  /\ ~ForeignAndFresh(seen[d], Owner[d])
  /\ Goto(d, "renew", MaxDelay)
  /\ Forget(d)
  /\ UNCHANGED <<claim, poster>>

RenewPost(d) == pc[d] = "renew" /\ AnswerPost(d, "renewed")

SleepAgain(d) ==
  /\ pc[d] = "renewed"
  /\ Goto(d, "sleep", Heartbeat)
  /\ UNCHANGED <<claim, seen, stamp, poster>>

-----------------------------------------------------------------------------
(* Failures, shutdown and time.                                            *)

\* a request raises: out of finish_init it fails the init task, out of the
\* heartbeat it ends the heartbeat task, and nobody looks at that task
Raise(d) ==
  /\ "raise" \in Faults
  /\ pc[d] \in Awaiting
  /\ Goto(d, IF pc[d] \in Beating THEN "dead" ELSE "failed", 0)
  /\ Forget(d)
  /\ UNCHANGED <<claim, poster>>

\* the posts of the dicts in D are cut off: at most one of them still arrives
\* and stands
CutOff(D) ==
  \/ UNCHANGED <<claim, poster>>
  \/ \E d \in D :
       /\ pc[d] \in {"postClaim", "renew"}
       /\ claim' = Posted(d)
       /\ poster' = d

\* close: the heartbeat task is cancelled
Close(d) ==
  /\ pc[d] \in Beating
  /\ CutOff({d})
  /\ Goto(d, "closed", 0)
  /\ Forget(d)

\* the process dies with all its dicts; a restart is another writer
DictsOf(w) == {d \in Dicts : Owner[d] = w}

Crash(w) ==
  /\ \E d \in DictsOf(w) : pc[d] # "crashed"
  /\ CutOff(DictsOf(w))
  /\ pc' = [d \in Dicts |-> IF Owner[d] = w THEN "crashed" ELSE pc[d]]
  /\ timer' = [d \in Dicts |-> IF Owner[d] = w THEN 0 ELSE timer[d]]
  /\ seen' = [d \in Dicts |-> IF Owner[d] = w THEN NoClaim ELSE seen[d]]
  /\ stamp' = [d \in Dicts |-> IF Owner[d] = w THEN 0 ELSE stamp[d]]

Older(age) == IF age < TTL THEN age + 1 ELSE TTL
Aged(c) == [c EXCEPT !.age = Older(c.age)]

\* time passes, but not beyond the end of a sleep or of a round trip
Tick ==
  /\ \/ "late" \in Faults
     \/ \A d \in Dicts : pc[d] \in Awaiting \cup {"sleep"} => timer[d] > 0
  /\ claim' = Aged(claim)
  /\ seen' = [d \in Dicts |-> Aged(seen[d])]
  /\ stamp' = [d \in Dicts |->
                 IF pc[d] \in {"postClaim", "renew"} THEN Older(stamp[d]) ELSE stamp[d]]
  /\ timer' = [d \in Dicts |-> IF timer[d] > 0 THEN timer[d] - 1 ELSE 0]
  /\ UNCHANGED <<pc, poster>>

-----------------------------------------------------------------------------
\* what a dict does once it is created and the backend answers
Step(d) ==
  \/ AcquireRead(d) \/ AcquireRefuse(d) \/ AcquireClaim(d) \/ AcquirePost(d)
  \/ SendVerify(d) \/ VerifyRead(d) \/ Verify(d) \/ Restored(d)
  \/ Wake(d) \/ CheckRead(d) \/ CheckLost(d) \/ CheckRenew(d)
  \/ RenewPost(d) \/ SleepAgain(d)

Next ==
  \/ \E d \in Dicts : Start(d) \/ Step(d) \/ Raise(d) \/ Close(d)
  \/ \E w \in Writers : Crash(w)
  \/ Tick

Spec == Init /\ [][Next]_vars

\* the event loop runs every task that is ready, and time passes
Fairness == (\A d \in Dicts : WF_vars(Step(d))) /\ WF_vars(Tick)

FairSpec == Spec /\ Fairness

-----------------------------------------------------------------------------
(* What the claim is for.                                                  *)

\* Two processes never both hold the namespace: once a dict of one process has
\* survived its verify read and renews the claim, no dict of another process
\* gets past its own (_acquire_namespace_claim, _check_claim).  It needs all of
\* a stale claim being impossible while a heartbeat runs, a reader deciding on
\* an answer that was true up to one round trip ago, and the posts of a
\* process's other dicts, whose timestamps may be older than the claim's.
Exclusive ==
  \A d, e \in Dicts :
    pc[d] \in Holding /\ pc[e] \in Holding => Owner[d] = Owner[e]

\* Two processes that did race never talk each other out of the namespace: the
\* dict whose post is the standing claim has not set claim_lost, nor refused to
\* start, unless it could not read its own claim back.
KeeperSurvives ==
  poster # NoDict =>
    /\ pc[poster] # "lost"
    /\ pc[poster] = "refused" => "get" \in Faults

\* a dict that accepts writes: _set looks only at claim_lost, which neither
\* close() nor an exception in the heartbeat sets
Writable(d) == pc[d] \in Beating \cup {"dead", "closed"}

Rivals(d, e) == Owner[d] # Owner[e] /\ Writable(d) /\ Writable(e)

\* its heartbeat task is gone, so that it never learns who has the claim
Unattended(d) == pc[d] \in {"dead", "closed"}

\* the steps that only a member of Faults allows
Missed(d) == pc'[d] \in {"decide", "verify", "checkDecide"} /\ pc'[d] # pc[d] /\ seen'[d] # claim
Rejected(d) == pc'[d] \in {"posted", "renewed"} /\ pc'[d] # pc[d] /\ claim' # Posted(d)
Late(d) == pc[d] \in Awaiting \cup {"sleep"} /\ timer[d] = 0 /\ claim' = Aged(claim) /\ UNCHANGED pc
Failure == \E d \in Dicts : Missed(d) \/ Rejected(d) \/ Late(d) \/ Raise(d)

\* Of two processes that both accept writes in one namespace, one stops within
\* finitely many heartbeats once requests no longer fail, if both still run their
\* heartbeats ("mark it lost if a live foreign writer has taken the namespace
\* (writes will then refuse; reads still work)").  A dict whose heartbeat raised or
\* was cancelled by close() goes on writing next to its rival for ever.
RivalsConverge ==
  <>[][~Failure]_vars =>
    \A d, e \in Dicts :
      Rivals(d, e) ~> (~Rivals(d, e) \/ Unattended(d) \/ Unattended(e))

=============================================================================
