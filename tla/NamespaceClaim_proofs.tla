----------------------- MODULE NamespaceClaim_proofs ------------------------
(***************************************************************************)
(* Theorems about NamespaceClaim, for every set of dicts and processes,    *)
(* every TTL and every bound on a round trip:                              *)
(*   - TypeCorrect: the type invariant;                                    *)
(*   - KeeperAlwaysSurvives: with any failures and any races, the dict     *)
(*     whose post is the standing claim is never told that it lost it;     *)
(*   - ExclusiveHolds: without failures and without simultaneous starts,   *)
(*     Heartbeat + 7 * MaxDelay < TTL suffices for mutual exclusion.       *)
(***************************************************************************)
EXTENDS NamespaceClaim, TLAPS

-----------------------------------------------------------------------------
(* The type invariant.                                                     *)

LEMMA HeartbeatNat == Heartbeat \in Nat
  BY ClaimAssumption DEF Heartbeat

LEMMA NoClaimType == NoClaim \in Claims
  BY ClaimAssumption DEF NoClaim, Claims

LEMMA AgedType == ASSUME NEW c \in Claims
                  PROVE  Aged(c) \in Claims
  BY ClaimAssumption DEF Aged, Older, Claims

LEMMA PostedType == ASSUME TypeOK, NEW d \in Dicts
                    PROVE  Posted(d) \in Claims
  BY ClaimAssumption DEF Posted, Claims, TypeOK

LEMMA GotoType == ASSUME TypeOK, NEW d \in Dicts, NEW p \in Phases,
                         NEW t \in Nat, Goto(d, p, t)
                  PROVE  /\ pc' \in [Dicts -> Phases]
                         /\ timer' \in [Dicts -> Nat]
  BY DEF Goto, TypeOK

LEMMA ForgetType == ASSUME TypeOK, NEW d \in Dicts, Forget(d)
                    PROVE  /\ seen' \in [Dicts -> Claims]
                           /\ stamp' \in [Dicts -> 0..TTL]
  BY NoClaimType, ClaimAssumption DEF Forget, TypeOK

LEMMA CutOffType == ASSUME TypeOK, NEW D \in SUBSET Dicts, CutOff(D)
                    PROVE  claim' \in Claims /\ poster' \in Dicts \cup {NoDict}
  BY PostedType DEF CutOff, TypeOK

\* Init and every step keep each variable in its type.
LEMMA TypeStep == TypeOK /\ [Next]_vars => TypeOK'
<1> SUFFICES ASSUME TypeOK, [Next]_vars PROVE TypeOK'
  OBVIOUS
<1> USE DEF Phases, Acquiring, Holding, Beating, Ended
<1>1. ASSUME NEW d \in Dicts, Start(d) \/ SendVerify(d) \/ Restored(d)
                              \/ Wake(d) \/ SleepAgain(d)
      PROVE  TypeOK'
  <2>1. pc' \in [Dicts -> Phases] /\ timer' \in [Dicts -> Nat]
    BY <1>1, HeartbeatNat, ClaimAssumption
       DEF TypeOK, Goto, Start, SendVerify, Restored, Wake, SleepAgain
  <2>2. UNCHANGED <<claim, seen, stamp, poster>>
    BY <1>1 DEF Start, SendVerify, Restored, Wake, SleepAgain
  <2> QED BY <2>1, <2>2 DEF TypeOK
<1>2. ASSUME NEW d \in Dicts, AcquireRead(d) \/ VerifyRead(d) \/ CheckRead(d)
      PROVE  TypeOK'
  <2>1. PICK p \in Phases : AnswerGet(d, p)
    BY <1>2 DEF AcquireRead, VerifyRead, CheckRead
  <2>2. pc' \in [Dicts -> Phases] /\ timer' \in [Dicts -> Nat]
    BY <2>1 DEF AnswerGet, Goto, TypeOK
  <2>3. seen' \in [Dicts -> Claims]
    BY <2>1, NoClaimType DEF AnswerGet, TypeOK
  <2> QED BY <2>1, <2>2, <2>3 DEF AnswerGet, TypeOK
<1>3. ASSUME NEW d \in Dicts, AcquirePost(d) \/ RenewPost(d)
      PROVE  TypeOK'
  <2>1. PICK p \in Phases : AnswerPost(d, p)
    BY <1>3 DEF AcquirePost, RenewPost
  <2>2. pc' \in [Dicts -> Phases] /\ timer' \in [Dicts -> Nat]
    BY <2>1 DEF AnswerPost, Goto, TypeOK
  <2>3. claim' \in Claims /\ poster' \in Dicts \cup {NoDict}
    BY <2>1, PostedType DEF AnswerPost, TypeOK
  <2>4. Forget(d)
    BY <2>1 DEF AnswerPost
  <2> QED BY <2>2, <2>3, <2>4, ForgetType DEF TypeOK
<1>4. ASSUME NEW d \in Dicts,
             AcquireRefuse(d) \/ AcquireClaim(d) \/ Verify(d) \/ CheckLost(d)
               \/ CheckRenew(d) \/ Raise(d)
      PROVE  TypeOK'
  <2>1. pc' \in [Dicts -> Phases] /\ timer' \in [Dicts -> Nat]
    BY <1>4, ClaimAssumption DEF TypeOK, Goto, AcquireRefuse, AcquireClaim, Verify,
       CheckLost, CheckRenew, Raise
  <2>2. Forget(d) /\ UNCHANGED <<claim, poster>>
    BY <1>4 DEF AcquireRefuse, AcquireClaim, Verify, CheckLost, CheckRenew, Raise
  <2> QED BY <2>1, <2>2, ForgetType DEF TypeOK
<1>5. ASSUME NEW d \in Dicts, Close(d)
      PROVE  TypeOK'
  <2>1. pc' \in [Dicts -> Phases] /\ timer' \in [Dicts -> Nat]
    BY <1>5 DEF TypeOK, Goto, Close
  <2> QED BY <1>5, <2>1, ForgetType, CutOffType DEF Close, TypeOK
<1>6. ASSUME NEW w \in Writers, Crash(w)
      PROVE  TypeOK'
  <2>1. claim' \in Claims /\ poster' \in Dicts \cup {NoDict}
    BY <1>6, CutOffType DEF Crash, DictsOf
  <2>2. pc' \in [Dicts -> Phases] /\ timer' \in [Dicts -> Nat]
    BY <1>6 DEF Crash, TypeOK
  <2>3. seen' \in [Dicts -> Claims] /\ stamp' \in [Dicts -> 0..TTL]
    BY <1>6, NoClaimType, ClaimAssumption DEF Crash, TypeOK
  <2> QED BY <2>1, <2>2, <2>3 DEF TypeOK
<1>7. CASE Tick
  <2>1. claim' \in Claims /\ seen' \in [Dicts -> Claims]
    BY <1>7, AgedType DEF Tick, TypeOK
  <2>2. stamp' \in [Dicts -> 0..TTL] /\ timer' \in [Dicts -> Nat]
    BY <1>7, ClaimAssumption DEF Tick, Older, TypeOK
  <2> QED BY <1>7, <2>1, <2>2 DEF Tick, TypeOK
<1>8. CASE UNCHANGED vars
  BY <1>8 DEF vars, TypeOK
<1> QED BY <1>1, <1>2, <1>3, <1>4, <1>5, <1>6, <1>7, <1>8 DEF Next, Step

\* Every reachable state is of the declared type, whatever fails.
THEOREM TypeCorrect == Spec => []TypeOK
<1>1. Init => TypeOK
  BY NoClaimType, ClaimAssumption DEF Init, TypeOK, Phases
<1> QED BY <1>1, TypeStep, PTL DEF Spec

-----------------------------------------------------------------------------
(* The keeper of the claim.                                                *)

\* What must be known of the poster of the standing claim for it never to be
\* marked lost: the claim names its process, it is past its post, and whatever
\* it has read since names its process too.
KeeperInv ==
  poster # NoDict =>
    /\ claim.writer = Owner[poster]
    /\ pc[poster] \notin {"absent", "readClaim", "decide", "postClaim", "lost"}
    /\ pc[poster] = "refused" => "get" \in Faults
    /\ pc[poster] \in {"verify", "checkDecide"} =>
         \/ seen[poster].writer = Owner[poster]
         \/ "get" \in Faults /\ seen[poster].writer = NoWriter

LEMMA KeeperStep == TypeOK /\ KeeperInv /\ [Next]_vars => KeeperInv'
<1> SUFFICES ASSUME TypeOK, KeeperInv, [Next]_vars, poster' # NoDict
             PROVE  KeeperInv'
  BY DEF KeeperInv
<1> USE ClaimAssumption DEF TypeOK
<1>1. ASSUME NEW d \in Dicts, Start(d) \/ SendVerify(d) \/ Restored(d)
                              \/ Wake(d) \/ SleepAgain(d)
      PROVE  KeeperInv'
  BY <1>1 DEF KeeperInv, Goto, Start, SendVerify, Restored, Wake, SleepAgain
<1>2. ASSUME NEW d \in Dicts, AcquireRead(d) \/ VerifyRead(d) \/ CheckRead(d)
      PROVE  KeeperInv'
  BY <1>2 DEF KeeperInv, AnswerGet, Goto, NoClaim, AcquireRead, VerifyRead, CheckRead
<1>3. ASSUME NEW d \in Dicts, AcquirePost(d) \/ RenewPost(d)
      PROVE  KeeperInv'
  BY <1>3 DEF KeeperInv, AnswerPost, Posted, Goto, Forget, AcquirePost, RenewPost
<1>4. ASSUME NEW d \in Dicts, AcquireRefuse(d) \/ AcquireClaim(d)
      PROVE  KeeperInv'
  BY <1>4 DEF KeeperInv, Goto, Forget, AcquireRefuse, AcquireClaim
<1>5. ASSUME NEW d \in Dicts, Verify(d)
      PROVE  KeeperInv'
  BY <1>5 DEF KeeperInv, Goto, Forget, Verify
<1>6. ASSUME NEW d \in Dicts, CheckLost(d) \/ CheckRenew(d)
      PROVE  KeeperInv'
  BY <1>6 DEF KeeperInv, Goto, Forget, ForeignAndFresh, CheckLost, CheckRenew
<1>7. ASSUME NEW d \in Dicts, Raise(d)
      PROVE  KeeperInv'
  BY <1>7 DEF KeeperInv, Goto, Forget, Raise
<1>8. ASSUME NEW d \in Dicts, Close(d)
      PROVE  KeeperInv'
  BY <1>8 DEF KeeperInv, Goto, Forget, Close, CutOff, Posted, Beating
<1>9. ASSUME NEW w \in Writers, Crash(w)
      PROVE  KeeperInv'
  BY <1>9 DEF KeeperInv, Crash, DictsOf, CutOff, Posted
<1>10. CASE Tick
  BY <1>10 DEF KeeperInv, Tick, Aged, Claims
<1>11. CASE UNCHANGED vars
  BY <1>11 DEF KeeperInv, vars
<1> QED BY <1>1, <1>2, <1>3, <1>4, <1>5, <1>6, <1>7, <1>8, <1>9, <1>10, <1>11
        DEF Next, Step

\* The dict whose post is the standing claim has neither set claim_lost nor,
\* unless a read failed, refused to start (_check_claim, pdictng.py:239).
THEOREM KeeperAlwaysSurvives == Spec => []KeeperSurvives
<1>1. Init => KeeperInv
  BY DEF Init, KeeperInv
<1>2. KeeperInv => KeeperSurvives
  BY DEF KeeperInv, KeeperSurvives
<1> QED BY <1>1, <1>2, KeeperStep, TypeCorrect, PTL DEF Spec

-----------------------------------------------------------------------------
(* Mutual exclusion.                                                       *)

\* The three conditions under which the claim is a lock.  With the default TTL
\* of 60 s (a heartbeat every 20 s) the last one allows round trips of up to
\* 5 s; the run ClaimExclusive shows that it cannot be weakened.
Orderly ==
  /\ Staggered
  /\ Faults = {}
  /\ Heartbeat + 7 * MaxDelay < TTL

\* phases after the claim has been posted, and after the decision to post it
Landed  == {"posted", "readVerify", "verify"} \cup Holding
Entered == {"postClaim"} \cup Landed

\* how old the claim of a dict in phase p is at most when its timer runs out
Slack(p) ==
  CASE p \in {"posted", "renewed"}      -> 2 * MaxDelay
    [] p \in {"readVerify", "verify"}   -> 3 * MaxDelay
    [] p = "restore"                    -> 4 * MaxDelay
    [] p = "sleep"                      -> Heartbeat + 4 * MaxDelay
    [] p \in {"check", "checkDecide"}   -> Heartbeat + 5 * MaxDelay
    [] OTHER                            -> Heartbeat + 6 * MaxDelay

TimerInv ==
  \A d \in Dicts : /\ pc[d] \in Awaiting => timer[d] <= MaxDelay
                   /\ pc[d] = "sleep" => timer[d] <= Heartbeat

\* a timestamp is at most one round trip old when its post arrives
StampInv ==
  \A d \in Dicts : pc[d] \in {"postClaim", "renew"} => stamp[d] + timer[d] <= MaxDelay

OneAcquirer ==
  \A d, e \in Dicts :
    pc[d] \in Acquiring /\ pc[e] \in Acquiring => Owner[d] = Owner[e]

OneEntered ==
  \A d, e \in Dicts :
    pc[d] \in Entered /\ pc[e] \in Entered => Owner[d] = Owner[e]

\* whoever has landed a post owns the claim, and it will not go stale before
\* the next one lands
ClaimInv ==
  \A d \in Dicts : pc[d] \in Landed =>
    /\ claim.writer = Owner[d]
    /\ claim.age + timer[d] <= Slack(pc[d])

\* what an acquirer has seen of a holder will still be fresh when it decides
SeenInv ==
  \A d, e \in Dicts :
    pc[d] = "decide" /\ pc[e] \in Holding /\ Owner[d] # Owner[e] =>
      /\ seen[d].writer = Owner[e]
      /\ seen[d].age + timer[d] <= Heartbeat + 7 * MaxDelay

IInv == TypeOK /\ TimerInv /\ StampInv /\ OneAcquirer /\ OneEntered /\ ClaimInv /\ SeenInv

LEMMA IInvStep == ASSUME Orderly, IInv, [Next]_vars
                  PROVE  IInv'
<1> USE ClaimAssumption, HeartbeatNat
    DEF IInv, TypeOK, Claims, Orderly, Landed, Entered, Acquiring, Holding, Beating, Awaiting
<1>0. TypeOK'
  BY TypeStep
<1>1. ASSUME NEW d \in Dicts, Start(d)
      PROVE  IInv'
  <2>1. TimerInv' /\ StampInv'
    BY <1>1 DEF TimerInv, StampInv, Start, Goto
  <2>2. OneAcquirer' /\ OneEntered'
    BY <1>1 DEF OneAcquirer, OneEntered, Start, Goto
  <2>3. ClaimInv' /\ SeenInv'
    BY <1>1 DEF ClaimInv, SeenInv, Slack, Start, Goto
  <2> QED BY <1>0, <2>1, <2>2, <2>3
<1>2. ASSUME NEW d \in Dicts, SendVerify(d) \/ Restored(d) \/ Wake(d) \/ SleepAgain(d)
      PROVE  IInv'
  <2> USE DEF SendVerify, Restored, Wake, SleepAgain, Goto
  <2>1. TimerInv' /\ StampInv'
    BY <1>2 DEF TimerInv, StampInv
  <2>2. OneAcquirer' /\ OneEntered'
    BY <1>2 DEF OneAcquirer, OneEntered
  <2>3. ClaimInv'
    BY <1>2 DEF ClaimInv, Slack
  <2>4. SeenInv'
    BY <1>2 DEF SeenInv
  <2> QED BY <1>0, <2>1, <2>2, <2>3, <2>4
<1>3. ASSUME NEW d \in Dicts, AcquireRead(d) \/ VerifyRead(d) \/ CheckRead(d)
      PROVE  IInv'
  <2> USE DEF AcquireRead, VerifyRead, CheckRead, AnswerGet, Goto
  <2>1. TimerInv' /\ StampInv'
    BY <1>3 DEF TimerInv, StampInv
  <2>2. OneAcquirer' /\ OneEntered'
    <3>1. /\ \A e \in Dicts : pc'[e] \in Acquiring => pc[e] \in Acquiring
          /\ \A e \in Dicts : pc'[e] \in Entered => pc[e] \in Entered
      BY <1>3
    <3> QED BY <3>1 DEF OneAcquirer, OneEntered
  <2>3. ClaimInv'
    BY <1>3 DEF ClaimInv, Slack
  <2>4. SeenInv'
    BY <1>3 DEF SeenInv, ClaimInv, TimerInv, Slack
  <2> QED BY <1>0, <2>1, <2>2, <2>3, <2>4
<1>4. ASSUME NEW d \in Dicts, AcquirePost(d) \/ RenewPost(d)
      PROVE  IInv'
  <2> USE DEF AcquirePost, RenewPost, AnswerPost, Posted, Forget, Goto
  <2>1. TimerInv' /\ StampInv'
    BY <1>4 DEF TimerInv, StampInv
  <2>2. OneAcquirer' /\ OneEntered'
    <3>1. /\ \A e \in Dicts : pc'[e] \in Acquiring => pc[e] \in Acquiring
          /\ \A e \in Dicts : pc'[e] \in Entered => pc[e] \in Entered
      BY <1>4
    <3> QED BY <3>1 DEF OneAcquirer, OneEntered
  <2>3. ClaimInv'
    BY <1>4 DEF ClaimInv, OneEntered, StampInv, TimerInv, Slack
  <2>4. SeenInv'
    BY <1>4 DEF SeenInv
  <2> QED BY <1>0, <2>1, <2>2, <2>3, <2>4
<1>5. ASSUME NEW d \in Dicts, AcquireRefuse(d) \/ CheckLost(d) \/ Verify(d) \/ CheckRenew(d)
      PROVE  IInv'
  <2> USE DEF AcquireRefuse, CheckLost, Verify, CheckRenew, Forget, Goto
  <2>1. TimerInv' /\ StampInv'
    <3>1. TimerInv'
      BY <1>5 DEF TimerInv
    <3>2. StampInv'
      BY <1>5 DEF StampInv
    <3> QED BY <3>1, <3>2
  <2>2. /\ \A e \in Dicts : pc'[e] \in Acquiring => pc[e] \in Acquiring
        /\ \A e \in Dicts : pc'[e] \in Entered => pc[e] \in Entered
    BY <1>5
  <2>3. OneAcquirer' /\ OneEntered'
    BY <2>2 DEF OneAcquirer, OneEntered
  <2>4. ClaimInv'
    BY <1>5 DEF ClaimInv, Slack
  <2>5. SeenInv'
    BY <1>5 DEF SeenInv, OneAcquirer
  <2> QED BY <1>0, <2>1, <2>3, <2>4, <2>5
<1>6. ASSUME NEW d \in Dicts, AcquireClaim(d)
      PROVE  IInv'
  <2> USE DEF AcquireClaim, Forget, Goto
  <2>1. \A e \in Dicts : pc[e] \in Entered => Owner[e] = Owner[d]
    <3> SUFFICES ASSUME NEW e \in Dicts, pc[e] \in Entered, Owner[e] # Owner[d]
                 PROVE  FALSE
      OBVIOUS
    <3>1. pc[e] \in Holding
      BY <1>6 DEF OneAcquirer
    <3>2. seen[d].writer = Owner[e] /\ seen[d].age + timer[d] < TTL
      BY <1>6, <3>1 DEF SeenInv
    <3>3. ForeignAndFresh(seen[d], Owner[d])
      BY <3>2 DEF ForeignAndFresh
    <3> QED BY <1>6, <3>3
  <2>2. TimerInv' /\ StampInv'
    BY <1>6 DEF TimerInv, StampInv
  <2>3. OneAcquirer' /\ OneEntered'
    BY <1>6, <2>1 DEF OneAcquirer, OneEntered
  <2>4. ClaimInv'
    BY <1>6 DEF ClaimInv, Slack
  <2>5. SeenInv'
    BY <1>6 DEF SeenInv
  <2> QED BY <1>0, <2>2, <2>3, <2>4, <2>5
<1>7. ASSUME NEW d \in Dicts, Raise(d)
      PROVE  IInv'
  BY <1>7 DEF Raise
<1>8. ASSUME NEW d \in Dicts, Close(d)
      PROVE  IInv'
  <2> USE DEF Close, CutOff, Posted, Forget, Goto
  <2>1. TimerInv' /\ StampInv'
    BY <1>8 DEF TimerInv, StampInv
  <2>2. OneAcquirer' /\ OneEntered'
    BY <1>8 DEF OneAcquirer, OneEntered
  <2>3. ClaimInv'
    BY <1>8 DEF ClaimInv, OneEntered, StampInv, TimerInv, Slack
  <2>4. SeenInv'
    BY <1>8 DEF SeenInv
  <2> QED BY <1>0, <2>1, <2>2, <2>3, <2>4
<1>9. ASSUME NEW w \in Writers, Crash(w)
      PROVE  IInv'
  <2> USE DEF Crash, CutOff, DictsOf, Posted
  <2>1. TimerInv' /\ StampInv'
    BY <1>9 DEF TimerInv, StampInv
  <2>2. OneAcquirer' /\ OneEntered'
    BY <1>9 DEF OneAcquirer, OneEntered
  <2>3. ClaimInv'
    BY <1>9 DEF ClaimInv, OneEntered, Slack
  <2>4. SeenInv'
    BY <1>9 DEF SeenInv
  <2> QED BY <1>0, <2>1, <2>2, <2>3, <2>4
<1>10. CASE Tick
  <2> USE DEF Tick, Aged, Older
  <2>1. TimerInv' /\ StampInv'
    BY <1>10 DEF TimerInv, StampInv
  <2>2. OneAcquirer' /\ OneEntered'
    BY <1>10 DEF OneAcquirer, OneEntered
  <2>3. ClaimInv'
    BY <1>10 DEF ClaimInv, Slack
  <2>4. SeenInv'
    BY <1>10 DEF SeenInv
  <2> QED BY <1>0, <2>1, <2>2, <2>3, <2>4
<1>11. CASE UNCHANGED vars
  BY <1>11 DEF vars, TimerInv, StampInv, OneAcquirer, OneEntered, ClaimInv, SeenInv
<1> QED BY <1>1, <1>2, <1>3, <1>4, <1>5, <1>6, <1>7, <1>8, <1>9, <1>10, <1>11
        DEF Next, Step

\* If processes do not start at the same time, no request fails, and a heartbeat
\* and seven round trips fit into the TTL, then two processes never both hold
\* the namespace (_acquire_namespace_claim and _check_claim, pdictng.py:214).
THEOREM ExclusiveHolds == ASSUME Orderly
                          PROVE  Spec => []Exclusive
<1>1. Init => IInv
  BY NoClaimType, ClaimAssumption
     DEF Init, IInv, TypeOK, TimerInv, StampInv, OneAcquirer, OneEntered, ClaimInv,
         SeenInv, Phases, Awaiting, Acquiring, Entered, Landed, Holding, Beating
<1>2. IInv /\ [Next]_vars => IInv'
  BY IInvStep
<1>3. IInv => Exclusive
  BY DEF IInv, OneEntered, Exclusive, Entered, Landed
<1> QED BY <1>1, <1>2, <1>3, PTL DEF Spec
=============================================================================
