--------------------------- MODULE BotBackends_proofs ---------------------------
(***************************************************************************)
(* Theorems about BotBackends, for any callers, receipts and polls of the  *)
(* payments, any tables, queries and size of the pool, any versions of the *)
(* keystate.  Each component has its inductive invariant; they share no    *)
(* variable, so that the conjunction is the invariant of the three.        *)
(***************************************************************************)
EXTENDS BotBackends, FiniteSetTheorems, TLAPS

------------------------------------------------------------------------------
(* Payments. *)

\* the caller knows that the wallet took its transaction, or is about to learn it
Open(c) == call[c].stage \in {"receipts", "confirm", "notice"}

\* taken transactions that are neither hidden nor told are none
Accounted ==
  \A c \in Calls :
    IF Open(c) \/ (call[c].stage = "over" /\ call[c].status # "None")
    THEN landed[c] <= hidden[c] + 1 ELSE landed[c] <= hidden[c]

\* at every stage, what the status, the notification and the ledger say
Consistent ==
  \A c \in Calls :
    /\ Open(c) => tx[c] # "none"
    /\ call[c].stage \in {"confirm", "notice"} =>
         /\ call[c].status = "tx_status_succeeded" => tx[c] = "succeeded"
         /\ call[c].status = "tx_status_failed" => tx[c] = "failed"
         /\ call[c].status # "None"
    /\ call[c].stage \in {"address", "build", "submit", "receipts"} =>
         call[c].status = "none" /\ note[c] = "none"
    /\ call[c].stage = "confirm" => call[c].polls >= 1
    /\ call[c].stage \in {"address", "build", "submit", "receipts"} /\ call[c].confirm =>
         call[c].polls = MaxPolls
    /\ call[c].stage \in {"address", "build", "submit"} => tx[c] = "none"

\* landed counts submissions, of which each try makes one at most
Bounded ==
  \A c \in Calls :
    /\ hidden[c] <= tries[c]
    /\ landed[c] <= tries[c]
    /\ call[c].stage \in {"address", "build", "submit"} =>
         landed[c] < tries[c] /\ hidden[c] < tries[c]
    /\ call[c].stage \in {"receipts", "confirm"} => hidden[c] < tries[c]

\* the sets that the records of the type invariant are in
CallStates == [stage : Stages, confirm : BOOLEAN, polls : 0..MaxPolls, status : Statuses]
SplitStates == [stage : {"idle", "insufficient", "building", "reported", "raised"},
                left : SUBSET Txos, built : 0..Quantity]

IInv == TypeOK /\ Accounted /\ Consistent /\ Bounded /\ VerdictIsTrue

LEMMA InitIsInv == Init => IInv
<1> SUFFICES ASSUME Init PROVE IInv
  OBVIOUS
<1>1. \A c \in Calls : /\ call[c].stage = "idle" /\ call[c].status = "none" /\ call[c].polls = 0
                       /\ tx[c] = "none" /\ note[c] = "none"
                       /\ landed[c] = 0 /\ hidden[c] = 0 /\ tries[c] = 0
  BY DEF Init
<1>2. TypeOK
  <2>1. call \in [Calls -> CallStates]
    <3>1. 0 \in 0..MaxPolls
      BY PaymentsAssumption
    <3> QED BY <3>1 DEF Init, CallStates, Stages, Statuses
  <2>2. tx \in [Calls -> {"none", "pending", "succeeded", "failed"}] /\ logged \in [Calls -> BOOLEAN]
    BY DEF Init
  <2>3. note \in [Calls -> {"none", "sent", "answered", "refused"}]
    BY DEF Init
  <2>4. /\ landed \in [Calls -> 0..MaxTries] /\ hidden \in [Calls -> 0..MaxTries]
        /\ tries \in [Calls -> 0..MaxTries]
    BY PaymentsAssumption DEF Init
  <2>5. /\ receipt \in [Receipts -> ReceiptStatuses]
        /\ reply \in [Receipts -> {"none", "polling", "pricing", "thanks", "sorry", "raised"}]
        /\ rate \in BOOLEAN
    BY DEF Init
  <2>6. split \in SplitStates
    BY PaymentsAssumption DEF Init, SplitStates
  <2> QED BY <2>1, <2>2, <2>3, <2>4, <2>5, <2>6 DEF TypeOK, CallStates, SplitStates
<1>3. Accounted /\ Consistent /\ Bounded /\ VerdictIsTrue
  BY <1>1 DEF Accounted, Consistent, Bounded, VerdictIsTrue, Confirmed, Open
<1> QED BY <1>2, <1>3 DEF IInv

\* The state of one call, as the lemmas below need it: the fields of its record.
LEMMA CallFields == ASSUME TypeOK, NEW c \in Calls
                    PROVE  /\ call[c].stage \in Stages /\ call[c].confirm \in BOOLEAN
                           /\ call[c].polls \in 0..MaxPolls /\ call[c].status \in Statuses
  BY DEF TypeOK

\* A step of call c leaves the other calls alone: it keeps the invariant if the
\* new state of c is right.
Right(c) ==
  /\ IF Open(c)' \/ (call'[c].stage = "over" /\ call'[c].status # "None")
     THEN landed'[c] <= hidden'[c] + 1 ELSE landed'[c] <= hidden'[c]
  /\ Open(c)' => tx'[c] # "none"
  /\ call'[c].stage \in {"confirm", "notice"} =>
       /\ call'[c].status = "tx_status_succeeded" => tx'[c] = "succeeded"
       /\ call'[c].status = "tx_status_failed" => tx'[c] = "failed"
       /\ call'[c].status # "None"
  /\ call'[c].stage \in {"address", "build", "submit", "receipts"} =>
       call'[c].status = "none" /\ note'[c] = "none"
  /\ call'[c].stage = "confirm" => call'[c].polls >= 1
  /\ call'[c].stage \in {"address", "build", "submit", "receipts"} /\ call'[c].confirm =>
       call'[c].polls = MaxPolls
  /\ call'[c].stage \in {"address", "build", "submit"} => tx'[c] = "none"
  /\ hidden'[c] <= tries'[c] /\ landed'[c] <= tries'[c]
  /\ call'[c].stage \in {"address", "build", "submit"} =>
       landed'[c] < tries'[c] /\ hidden'[c] < tries'[c]
  /\ call'[c].stage \in {"receipts", "confirm"} => hidden'[c] < tries'[c]
  /\ call'[c].stage = "over" =>
       /\ call'[c].status = "tx_status_succeeded" => tx'[c] = "succeeded" /\ note'[c] \notin {"none", "sent"}
       /\ call'[c].status = "tx_status_failed" => tx'[c] \in {"none", "failed"} \/ ~Confirmed(c)'

Others(c) ==
  \A d \in Calls \ {c} :
    /\ call'[d] = call[d] /\ tx'[d] = tx[d] /\ note'[d] = note[d]
    /\ landed'[d] = landed[d] /\ hidden'[d] = hidden[d] /\ tries'[d] = tries[d]

LEMMA CallKeeps == ASSUME IInv, NEW c \in Calls, TypeOK', Right(c), Others(c)
                   PROVE  IInv'
<1>1. Accounted'
  BY DEF IInv, Accounted, Open, Right, Others
<1>2. Consistent'
  BY DEF IInv, Consistent, Open, Right, Others
<1>3. Bounded'
  BY DEF IInv, Bounded, Right, Others
<1>4. VerdictIsTrue'
  BY DEF IInv, VerdictIsTrue, Confirmed, Right, Others
<1> QED BY <1>1, <1>2, <1>3, <1>4 DEF IInv

\* What Go and End do to the call, and to no other.
LEMMA GoFields == ASSUME TypeOK, NEW c \in Calls, NEW stage \in Stages, Go(c, stage)
                  PROVE  /\ call' \in [Calls -> CallStates]
                         /\ call'[c].stage = stage /\ call'[c].status = call[c].status
                         /\ call'[c].polls = call[c].polls /\ call'[c].confirm = call[c].confirm
                         /\ \A d \in Calls \ {c} : call'[d] = call[d]
<1>1. call \in [Calls -> CallStates]
  BY DEF TypeOK, CallStates
<1>2. call' = [call EXCEPT ![c] = [call[c] EXCEPT !.stage = stage]]
  BY DEF Go
<1>3. [call[c] EXCEPT !.stage = stage] \in CallStates
  BY <1>1 DEF CallStates
<1>4. call'[c] = [call[c] EXCEPT !.stage = stage]
  BY <1>1, <1>2
<1>5. /\ call'[c].stage = stage /\ call'[c].status = call[c].status
      /\ call'[c].polls = call[c].polls /\ call'[c].confirm = call[c].confirm
  BY <1>1, <1>4 DEF CallStates
<1> QED BY <1>1, <1>2, <1>3, <1>5

LEMMA EndFields == ASSUME TypeOK, NEW c \in Calls, NEW status \in Statuses, End(c, status)
                   PROVE  /\ call' \in [Calls -> CallStates]
                          /\ call'[c].stage = "over" /\ call'[c].status = status
                          /\ call'[c].polls = call[c].polls /\ call'[c].confirm = call[c].confirm
                          /\ \A d \in Calls \ {c} : call'[d] = call[d]
<1>1. call \in [Calls -> CallStates]
  BY DEF TypeOK, CallStates
<1>2. call' = [call EXCEPT ![c] = [call[c] EXCEPT !.stage = "over", !.status = status]]
  BY DEF End
<1>3. [call[c] EXCEPT !.stage = "over", !.status = status] \in CallStates
  BY <1>1 DEF CallStates, Stages
<1>4. call'[c] = [call[c] EXCEPT !.stage = "over", !.status = status]
  BY <1>1, <1>2
<1>5. /\ call'[c].stage = "over" /\ call'[c].status = status
      /\ call'[c].polls = call[c].polls /\ call'[c].confirm = call[c].confirm
  BY <1>1, <1>4 DEF CallStates
<1> QED BY <1>1, <1>2, <1>3, <1>5

LEMMA SendKeeps == ASSUME IInv, NEW c \in Calls, NEW confirm \in BOOLEAN, Send(c, confirm)
                   PROVE  IInv'
<1> DEFINE new == [stage |-> "address", confirm |-> confirm,
                   polls |-> IF confirm THEN MaxPolls ELSE 0, status |-> "none"]
<1>1. TypeOK /\ call \in [Calls -> CallStates]
  BY DEF IInv, TypeOK, CallStates
<1>2. new \in CallStates
  <2>1. (IF confirm THEN MaxPolls ELSE 0) \in 0..MaxPolls
    BY PaymentsAssumption
  <2> QED BY <2>1 DEF CallStates, Stages, Statuses
<1>3. call' = [call EXCEPT ![c] = new]
  BY DEF Send
<1>4. call' \in [Calls -> CallStates] /\ call'[c] = new /\ \A d \in Calls \ {c} : call'[d] = call[d]
  BY <1>1, <1>2, <1>3
<1>5. /\ call'[c].stage = "address" /\ call'[c].status = "none"
      /\ call'[c].confirm => call'[c].polls = MaxPolls
  BY <1>4, PaymentsAssumption
<1>6. tries' = [tries EXCEPT ![c] = @ + 1] /\ tries'[c] = tries[c] + 1 /\ tries' \in [Calls -> 0..MaxTries]
  BY <1>1, PaymentsAssumption DEF Send, TypeOK
<1>7. TypeOK'
  BY <1>1, <1>4, <1>6 DEF Send, TypeOK, CallStates, receiptVars
<1>8. landed[c] <= hidden[c]
  BY DEF IInv, Accounted, Open, Send
<1>9. landed[c] \in Nat /\ hidden[c] \in Nat /\ tries[c] \in Nat
  BY <1>1 DEF TypeOK
<1>10. hidden[c] <= tries[c] /\ landed[c] <= tries[c]
  BY DEF IInv, Bounded
<1>11. tx'[c] = "none" /\ note'[c] = "none" /\ landed' = landed /\ hidden' = hidden
  BY <1>1 DEF Send, TypeOK
<1>12. Right(c)
  BY <1>5, <1>6, <1>8, <1>9, <1>10, <1>11 DEF Right, Open
<1>13. Others(c)
  BY <1>1, <1>4 DEF Others, Send, TypeOK
<1> QED BY <1>7, <1>12, <1>13, CallKeeps

\* get_signalpay_address and build_transaction: on to the next stage, or raised
LEMMA PrepareKeeps == ASSUME IInv, NEW c \in Calls, Address(c) \/ Build(c)
                      PROVE  IInv'
<1>1. TypeOK
  BY DEF IInv
<1>2. UNCHANGED <<tx, logged, note, landed, hidden, tries, receipt, reply, rate, split>>
  BY DEF Address, Build, receiptVars
<1>3. call[c].stage \in {"address", "build"}
  BY DEF Address, Build
<1>4. /\ call' \in [Calls -> CallStates] /\ \A d \in Calls \ {c} : call'[d] = call[d]
      /\ \/ /\ call'[c].stage \in {"build", "submit"} /\ call'[c].status = call[c].status
            /\ call'[c].polls = call[c].polls /\ call'[c].confirm = call[c].confirm
         \/ call'[c].stage = "over" /\ call'[c].status = "raised"
  BY <1>1, GoFields, EndFields DEF Address, Build, Stages, Statuses
<1>5. TypeOK'
  BY <1>1, <1>2, <1>4 DEF TypeOK, CallStates
<1>6. landed[c] \in Nat /\ hidden[c] \in Nat /\ tries[c] \in Nat
  BY <1>1 DEF TypeOK
<1>7. /\ landed[c] <= hidden[c] /\ landed[c] < tries[c] /\ hidden[c] < tries[c]
      /\ call[c].status = "none" /\ note[c] = "none" /\ tx[c] = "none"
      /\ call[c].confirm => call[c].polls = MaxPolls
  BY <1>3 DEF IInv, Accounted, Open, Consistent, Bounded
<1>8. Right(c)
  BY <1>2, <1>4, <1>6, <1>7 DEF Right, Open
<1>9. Others(c)
  BY <1>2, <1>4 DEF Others
<1> QED BY <1>5, <1>8, <1>9, CallKeeps

\* What the wallet's taking a transaction does to the counters.
LEMMA LandsFields == ASSUME TypeOK, NEW c \in Calls, NEW told \in BOOLEAN, Lands(c, told),
                            landed[c] < tries[c], hidden[c] < tries[c]
                     PROVE  /\ tx' \in [Calls -> {"none", "pending", "succeeded", "failed"}]
                            /\ logged' \in [Calls -> BOOLEAN]
                            /\ landed' \in [Calls -> 0..MaxTries] /\ hidden' \in [Calls -> 0..MaxTries]
                            /\ tx'[c] = "pending" /\ landed'[c] = landed[c] + 1
                            /\ hidden'[c] = IF told THEN hidden[c] ELSE hidden[c] + 1
                            /\ \A d \in Calls \ {c} : /\ tx'[d] = tx[d]
                                                      /\ landed'[d] = landed[d] /\ hidden'[d] = hidden[d]
<1>1. landed[c] + 1 \in 0..MaxTries /\ hidden[c] + 1 \in 0..MaxTries
  BY PaymentsAssumption DEF TypeOK
<1>2. call[c].confirm \in BOOLEAN
  BY CallFields
<1>3. landed' = [landed EXCEPT ![c] = landed[c] + 1]
  BY DEF Lands
<1>4. /\ landed' \in [Calls -> 0..MaxTries] /\ landed'[c] = landed[c] + 1
      /\ \A d \in Calls \ {c} : landed'[d] = landed[d]
  BY <1>1, <1>3 DEF TypeOK
<1>5. /\ hidden' \in [Calls -> 0..MaxTries]
      /\ hidden'[c] = IF told THEN hidden[c] ELSE hidden[c] + 1
      /\ \A d \in Calls \ {c} : hidden'[d] = hidden[d]
  <2>1. CASE told
    BY <2>1 DEF Lands, TypeOK
  <2>2. CASE ~told
    <3>1. hidden' = [hidden EXCEPT ![c] = hidden[c] + 1]
      BY <2>2 DEF Lands
    <3> QED BY <1>1, <2>2, <3>1 DEF TypeOK
  <2> QED BY <2>1, <2>2
<1>6. logged' \in [Calls -> BOOLEAN]
  BY <1>2, Zenon DEF Lands, TypeOK
<1>7. /\ tx' \in [Calls -> {"none", "pending", "succeeded", "failed"}] /\ tx'[c] = "pending"
      /\ \A d \in Calls \ {c} : tx'[d] = tx[d]
  BY DEF Lands, TypeOK
<1> QED BY <1>4, <1>5, <1>6, <1>7

LEMMA SubmitKeeps == ASSUME IInv, NEW c \in Calls, Submit(c)
                     PROVE  IInv'
<1>1. TypeOK /\ call[c].stage = "submit"
  BY DEF IInv, Submit
<1>2. UNCHANGED <<note, tries, receipt, reply, rate, split>>
  BY DEF Submit, receiptVars
<1>3. landed[c] \in Nat /\ hidden[c] \in Nat /\ tries[c] \in Nat
  BY <1>1 DEF TypeOK
<1>4. /\ landed[c] <= hidden[c] /\ landed[c] < tries[c] /\ hidden[c] < tries[c]
      /\ call[c].status = "none" /\ note[c] = "none" /\ tx[c] = "none"
      /\ call[c].confirm => call[c].polls = MaxPolls
  BY <1>1 DEF IInv, Accounted, Open, Consistent, Bounded
<1>5. CASE Lands(c, TRUE) /\ Go(c, "receipts")
  <2>1. /\ call' \in [Calls -> CallStates] /\ call'[c].stage = "receipts"
        /\ call'[c].status = call[c].status
        /\ call'[c].polls = call[c].polls /\ call'[c].confirm = call[c].confirm
        /\ \A d \in Calls \ {c} : call'[d] = call[d]
    BY <1>1, <1>5, GoFields DEF Stages
  <2>2. TypeOK'
    BY <1>1, <1>2, <1>4, <1>5, <2>1, LandsFields DEF TypeOK, CallStates
  <2>3. tx'[c] = "pending" /\ landed'[c] = landed[c] + 1 /\ hidden'[c] = hidden[c]
    BY <1>1, <1>4, <1>5, LandsFields
  <2>4. Right(c)
    BY <1>2, <1>3, <1>4, <2>1, <2>3 DEF Right, Open
  <2>5. Others(c)
    BY <1>1, <1>2, <1>4, <1>5, <2>1, LandsFields DEF Others
  <2> QED BY <2>2, <2>4, <2>5, CallKeeps
<1>6. CASE /\ Lands(c, FALSE) \/ UNCHANGED <<tx, logged, landed, hidden>>
           /\ End(c, "None") \/ End(c, "raised") \/ End(c, "tx_status_failed")
  <2>1. /\ call' \in [Calls -> CallStates] /\ call'[c].stage = "over"
        /\ call'[c].status \in {"None", "raised", "tx_status_failed"}
        /\ call'[c].polls = call[c].polls /\ call'[c].confirm = call[c].confirm
        /\ \A d \in Calls \ {c} : call'[d] = call[d]
    BY <1>1, <1>6, EndFields DEF Statuses
  <2>2. ~Confirmed(c)'
    BY <1>1, <1>4, <2>1, CallFields, PaymentsAssumption DEF Confirmed
  <2>3. CASE Lands(c, FALSE)
    <3>1. TypeOK'
      BY <1>1, <1>2, <1>4, <2>1, <2>3, LandsFields DEF TypeOK, CallStates
    <3>2. tx'[c] = "pending" /\ landed'[c] = landed[c] + 1 /\ hidden'[c] = hidden[c] + 1
      BY <1>1, <1>4, <2>3, LandsFields
    <3>3. Right(c)
      BY <1>2, <1>3, <1>4, <2>1, <2>2, <3>2 DEF Right, Open
    <3>4. Others(c)
      BY <1>1, <1>2, <1>4, <2>1, <2>3, LandsFields DEF Others
    <3> QED BY <3>1, <3>3, <3>4, CallKeeps
  <2>4. CASE UNCHANGED <<tx, logged, landed, hidden>>
    <3>1. TypeOK'
      BY <1>1, <1>2, <2>1, <2>4 DEF TypeOK, CallStates
    <3>2. Right(c)
      BY <1>2, <1>3, <1>4, <2>1, <2>2, <2>4 DEF Right, Open
    <3>3. Others(c)
      BY <1>2, <2>1, <2>4 DEF Others
    <3> QED BY <3>1, <3>2, <3>3, CallKeeps
  <2> QED BY <1>6, <2>3, <2>4
<1> QED BY <1>5, <1>6 DEF Submit

\* A call that raises after the submission: its caller was not told.
HiddenMore(c) == /\ hidden'[c] = hidden[c] + 1 /\ hidden' \in [Calls -> 0..MaxTries]
                 /\ \A d \in Calls \ {c} : hidden'[d] = hidden[d]

LEMMA HiddenCounts == ASSUME TypeOK, NEW c \in Calls, hidden[c] < tries[c],
                             hidden' = [hidden EXCEPT ![c] = @ + 1]
                      PROVE  HiddenMore(c)
<1>1. hidden[c] + 1 \in 0..MaxTries
  BY PaymentsAssumption DEF TypeOK
<1>2. hidden' = [hidden EXCEPT ![c] = hidden[c] + 1]
  OBVIOUS
<1> QED BY <1>1, <1>2 DEF TypeOK, HiddenMore

LEMMA MakeReceiptsKeeps == ASSUME IInv, NEW c \in Calls, MakeReceipts(c)
                           PROVE  IInv'
<1>1. TypeOK /\ call[c].stage = "receipts"
  BY DEF IInv, MakeReceipts
<1>2. UNCHANGED <<tx, logged, landed, tries, receipt, reply, rate, split>>
  BY DEF MakeReceipts, receiptVars
<1>3. landed[c] \in Nat /\ hidden[c] \in Nat /\ tries[c] \in Nat /\ tries[c] \in 0..MaxTries
  BY <1>1 DEF TypeOK
<1>4. /\ landed[c] <= hidden[c] + 1 /\ landed[c] <= tries[c] /\ hidden[c] < tries[c]
      /\ call[c].status = "none" /\ note[c] = "none" /\ tx[c] # "none"
  BY <1>1 DEF IInv, Accounted, Open, Consistent, Bounded
<1>5. CASE /\ note' = [note EXCEPT ![c] = "sent"]
           /\ Go(c, IF call[c].confirm THEN "confirm" ELSE "notice")
           /\ UNCHANGED hidden
  <2>1. /\ call' \in [Calls -> CallStates] /\ call'[c].status = call[c].status
        /\ call'[c].stage = IF call[c].confirm THEN "confirm" ELSE "notice"
        /\ call'[c].polls = call[c].polls
        /\ \A d \in Calls \ {c} : call'[d] = call[d]
    BY <1>1, <1>5, GoFields DEF Stages
  <2>2. TypeOK'
    BY <1>1, <1>2, <1>5, <2>1 DEF TypeOK, CallStates
  <2>3. call[c].confirm => call[c].polls >= 1
    BY <1>1, PaymentsAssumption DEF IInv, Consistent
  <2>4. Right(c)
    BY <1>1, <1>2, <1>3, <1>4, <1>5, <2>1, <2>3 DEF Right, Open, TypeOK
  <2>5. Others(c)
    BY <1>1, <1>2, <1>5, <2>1 DEF Others, TypeOK
  <2> QED BY <2>2, <2>4, <2>5, CallKeeps
<1>6. CASE End(c, "raised") /\ hidden' = [hidden EXCEPT ![c] = @ + 1] /\ UNCHANGED note
  <2>1. /\ call' \in [Calls -> CallStates] /\ call'[c].stage = "over"
        /\ call'[c].status = "raised" /\ \A d \in Calls \ {c} : call'[d] = call[d]
    BY <1>1, <1>6, EndFields DEF Statuses
  <2>2. HiddenMore(c)
    BY <1>1, <1>3, <1>4, <1>6, HiddenCounts
  <2>3. TypeOK'
    BY <1>1, <1>2, <1>6, <2>1, <2>2 DEF TypeOK, CallStates, HiddenMore
  <2>4. Right(c)
    BY <1>2, <1>3, <1>4, <1>6, <2>1, <2>2 DEF Right, Open, HiddenMore
  <2>5. Others(c)
    BY <1>2, <1>6, <2>1, <2>2 DEF Others, HiddenMore
  <2> QED BY <2>3, <2>4, <2>5, CallKeeps
<1> QED BY <1>5, <1>6 DEF MakeReceipts

LEMMA PollKeeps == ASSUME IInv, NEW c \in Calls, Poll(c)
                   PROVE  IInv'
<1>1. TypeOK /\ call \in [Calls -> CallStates] /\ call[c].stage = "confirm"
  BY DEF IInv, Poll, TypeOK, CallStates
<1>2. UNCHANGED <<tx, logged, note, landed, tries, receipt, reply, rate, split>>
  BY DEF Poll, receiptVars
<1>3. landed[c] \in Nat /\ hidden[c] \in Nat /\ tries[c] \in Nat /\ tries[c] \in 0..MaxTries
  BY <1>1 DEF TypeOK
<1>4. /\ landed[c] <= hidden[c] + 1 /\ landed[c] <= tries[c] /\ hidden[c] < tries[c]
      /\ tx[c] # "none" /\ call[c].polls >= 1
  BY <1>1 DEF IInv, Accounted, Open, Consistent, Bounded
<1>5. CASE /\ \E status \in {LogStatus(c), "nolog"} : call' = [call EXCEPT ![c] = Polled(c, status)]
           /\ UNCHANGED hidden
  <2>1. PICK status \in {LogStatus(c), "nolog"} : call' = [call EXCEPT ![c] = Polled(c, status)]
    BY <1>5
  <2>2. /\ status \in Statuses /\ status # "None"
        /\ status = "tx_status_succeeded" => tx[c] = "succeeded"
        /\ status = "tx_status_failed" => tx[c] = "failed"
    BY <1>1, <1>4 DEF LogStatus, Statuses, TypeOK
  <2> DEFINE stage == IF status \in {"tx_status_succeeded", "tx_status_failed"} \/ call[c].polls = 1
                      THEN "notice" ELSE "confirm"
             new == Polled(c, status)
  <2>3. call[c] \in CallStates
    BY <1>1
  <2>4. call[c].polls - 1 \in 0..MaxPolls
    BY <1>4, <2>3, PaymentsAssumption DEF CallStates
  <2>5. stage \in Stages
    BY DEF Stages
  <2>6. /\ new \in CallStates /\ new.stage = stage /\ new.status = status
         /\ new.polls = call[c].polls - 1
    BY <2>2, <2>3, <2>4, <2>5 DEF CallStates, Polled
  <2>7. call' = [call EXCEPT ![c] = new]
    BY <2>1
  <2>8. call' \in [Calls -> CallStates] /\ call'[c] = new /\ \A d \in Calls \ {c} : call'[d] = call[d]
    BY <1>1, <2>6, <2>7
  <2>9. /\ call'[c].stage = stage /\ call'[c].status = status
         /\ call'[c].polls = call[c].polls - 1
    BY <2>6, <2>8
  <2>10. call'[c].stage = "confirm" => call'[c].polls >= 1
    BY <1>4, <2>3, <2>9, PaymentsAssumption DEF CallStates
  <2>11. call'[c].stage \in {"confirm", "notice"}
    BY <2>9
  <2>12. TypeOK'
    BY <1>1, <1>2, <1>5, <2>8 DEF TypeOK, CallStates
  <2>13. Right(c)
    <3> HIDE DEF stage, new
    <3> QED BY <1>2, <1>3, <1>4, <1>5, <2>2, <2>9, <2>10, <2>11 DEF Right, Open
  <2>14. Others(c)
    BY <1>2, <1>5, <2>8 DEF Others
  <2> QED BY <2>12, <2>13, <2>14, CallKeeps
<1>6. CASE End(c, "raised") /\ hidden' = [hidden EXCEPT ![c] = @ + 1]
  <2>1. /\ call' \in [Calls -> CallStates] /\ call'[c].stage = "over"
        /\ call'[c].status = "raised" /\ \A d \in Calls \ {c} : call'[d] = call[d]
    BY <1>1, <1>6, EndFields DEF Statuses
  <2>2. HiddenMore(c)
    BY <1>1, <1>3, <1>4, <1>6, HiddenCounts
  <2>3. TypeOK'
    BY <1>1, <1>2, <2>1, <2>2 DEF TypeOK, CallStates, HiddenMore
  <2>4. Right(c)
    BY <1>2, <1>3, <1>4, <2>1, <2>2 DEF Right, Open, HiddenMore
  <2>5. Others(c)
    BY <1>2, <2>1, <2>2 DEF Others, HiddenMore
  <2> QED BY <2>3, <2>4, <2>5, CallKeeps
<1> QED BY <1>5, <1>6 DEF Poll

LEMMA ReturnKeeps == ASSUME IInv, NEW c \in Calls, Return(c)
                     PROVE  IInv'
<1>1. TypeOK /\ call[c].stage = "notice" /\ note[c] \in {"answered", "refused"}
  BY DEF IInv, Return
<1>2. UNCHANGED <<tx, logged, note, landed, hidden, tries, receipt, reply, rate, split>>
  BY DEF Return, receiptVars
<1>3. landed[c] \in Nat /\ hidden[c] \in Nat /\ tries[c] \in Nat
  BY <1>1 DEF TypeOK
<1>4. /\ landed[c] <= hidden[c] + 1 /\ landed[c] <= tries[c] /\ hidden[c] <= tries[c]
      /\ tx[c] # "none" /\ call[c].status # "None"
      /\ call[c].status = "tx_status_succeeded" => tx[c] = "succeeded"
      /\ call[c].status = "tx_status_failed" => tx[c] = "failed"
  BY <1>1 DEF IInv, Accounted, Open, Consistent, Bounded
<1>5. /\ call' \in [Calls -> CallStates] /\ call'[c].stage = "over"
      /\ call'[c].status = call[c].status /\ \A d \in Calls \ {c} : call'[d] = call[d]
  BY <1>1, GoFields DEF Return, Stages
<1>6. TypeOK'
  BY <1>1, <1>2, <1>5 DEF TypeOK, CallStates
<1>7. Right(c)
  BY <1>1, <1>2, <1>3, <1>4, <1>5 DEF Right, Open
<1>8. Others(c)
  BY <1>2, <1>5 DEF Others
<1> QED BY <1>6, <1>7, <1>8, CallKeeps

\* the answer to the notification, and the ledger
LEMMA WorldKeeps == ASSUME IInv, NEW c \in Calls, Notified(c) \/ Settle(c)
                    PROVE  IInv'
<1>1. TypeOK
  BY DEF IInv
<1>2. UNCHANGED <<call, logged, landed, hidden, tries, receipt, reply, rate, split>>
  BY DEF Notified, Settle, receiptVars
<1>3. \/ \E answer \in {"answered", "refused"} :
           note' = [note EXCEPT ![c] = answer] /\ note[c] = "sent" /\ tx' = tx
      \/ \E outcome \in {"succeeded", "failed"} :
           tx[c] = "pending" /\ tx' = [tx EXCEPT ![c] = outcome] /\ note' = note
  BY DEF Notified, Settle
<1>4. TypeOK'
  BY <1>1, <1>2, <1>3 DEF TypeOK
<1>5. /\ note' [c] # "none" => note[c] # "none"
      /\ tx[c] # "none" => tx'[c] # "none"
      /\ tx'[c] # "none" => tx[c] # "none"
      /\ tx[c] \in {"succeeded", "failed"} => tx'[c] = tx[c]
      /\ note[c] \notin {"none", "sent"} => note'[c] = note[c]
      /\ tx[c] = "none" => tx'[c] = "none"
  BY <1>1, <1>3 DEF TypeOK
<1>6. Right(c)
  <2>1. /\ IF Open(c) \/ (call[c].stage = "over" /\ call[c].status # "None")
           THEN landed[c] <= hidden[c] + 1 ELSE landed[c] <= hidden[c]
        /\ hidden[c] <= tries[c] /\ landed[c] <= tries[c]
        /\ call[c].stage \in {"address", "build", "submit"} =>
             landed[c] < tries[c] /\ hidden[c] < tries[c]
        /\ call[c].stage \in {"receipts", "confirm"} => hidden[c] < tries[c]
    BY DEF IInv, Accounted, Bounded
  <2>2. /\ Open(c) => tx[c] # "none"
        /\ call[c].stage \in {"confirm", "notice"} =>
             /\ call[c].status = "tx_status_succeeded" => tx[c] = "succeeded"
             /\ call[c].status = "tx_status_failed" => tx[c] = "failed"
             /\ call[c].status # "None"
        /\ call[c].stage \in {"address", "build", "submit", "receipts"} =>
             call[c].status = "none" /\ note[c] = "none"
        /\ call[c].stage = "confirm" => call[c].polls >= 1
        /\ call[c].stage \in {"address", "build", "submit", "receipts"} /\ call[c].confirm =>
             call[c].polls = MaxPolls
        /\ call[c].stage \in {"address", "build", "submit"} => tx[c] = "none"
    BY DEF IInv, Consistent
  <2>3. call[c].stage = "over" =>
          /\ call[c].status = "tx_status_succeeded" => tx[c] = "succeeded" /\ note[c] \notin {"none", "sent"}
          /\ call[c].status = "tx_status_failed" => tx[c] \in {"none", "failed"} \/ ~Confirmed(c)
    BY DEF IInv, VerdictIsTrue
  <2>4. call' = call /\ landed' = landed /\ hidden' = hidden /\ tries' = tries
    BY <1>2
  <2> QED BY <1>5, <2>1, <2>2, <2>3, <2>4 DEF Right, Open, Confirmed
<1>7. Others(c)
  BY <1>1, <1>2, <1>3 DEF Others, TypeOK
<1> QED BY <1>4, <1>6, <1>7, CallKeeps

\* receipts and splits leave the calls alone
LEMMA ApartKeeps == ASSUME IInv, TypeOK', UNCHANGED sendVars
                    PROVE  IInv'
<1>1. Accounted'
  BY DEF IInv, Accounted, Open, sendVars
<1>2. Consistent' /\ Bounded'
  BY DEF IInv, Consistent, Bounded, Open, sendVars
<1>3. VerdictIsTrue'
  BY DEF IInv, VerdictIsTrue, Confirmed, sendVars
<1> QED BY <1>1, <1>2, <1>3 DEF IInv

LEMMA ReceiptsKeep == ASSUME IInv, NEW r \in Receipts,
                             Pay(r) \/ CheckReceipt(r) \/ Price(r) \/ SettleReceipt(r) \/ Hour
                      PROVE  IInv'
<1>1. TypeOK
  BY DEF IInv
<1>2. UNCHANGED <<sendVars, split>>
  BY DEF Pay, CheckReceipt, Price, SettleReceipt, Hour
<1>3. receipt' \in [Receipts -> ReceiptStatuses]
  BY <1>1 DEF TypeOK, Pay, CheckReceipt, Price, SettleReceipt, Hour, ReceiptStatuses
<1>4. reply' \in [Receipts -> {"none", "polling", "pricing", "thanks", "sorry", "raised"}]
  BY <1>1 DEF TypeOK, Pay, CheckReceipt, Price, SettleReceipt, Hour
<1>5. rate' \in BOOLEAN
  BY <1>1 DEF TypeOK, Pay, CheckReceipt, Price, SettleReceipt, Hour
<1>6. TypeOK'
  BY <1>1, <1>2, <1>3, <1>4, <1>5 DEF TypeOK, sendVars
<1> QED BY <1>2, <1>6, ApartKeeps

LEMMA SplitKeeps == ASSUME IInv, SplitStart \/ SplitOne \/ SplitReport
                    PROVE  IInv'
<1>1. TypeOK /\ split \in SplitStates
  BY DEF IInv, TypeOK, SplitStates
<1>2. UNCHANGED <<sendVars, receipt, reply, rate>>
  BY DEF SplitStart, SplitOne, SplitReport, receiptVars
<1>3. split' \in SplitStates
  <2>1. CASE SplitStart \/ SplitReport
    BY <1>1, <2>1 DEF SplitStart, SplitReport, SplitStates
  <2>2. CASE SplitOne
    <3>1. PICK utxos \in SUBSET Txos, submitted \in {0, 1} :
            LET list == IF split.left = {} THEN utxos ELSE split.left
            IN split' = IF list = {} THEN [split EXCEPT !.stage = "raised"]
                        ELSE [split EXCEPT !.left = list \ {CHOOSE x \in list : TRUE},
                                           !.built = split.built + Counted(submitted)]
      BY <2>2 DEF SplitOne
    <3> DEFINE list == IF split.left = {} THEN utxos ELSE split.left
    <3>2. list \in SUBSET Txos
      BY <1>1 DEF SplitStates
    <3> HIDE DEF list
    <3>3. split.built + Counted(submitted) = split.built
      BY <1>1 DEF Counted, SplitStates
    <3>4. CASE list = {}
      <4>1. split' = [split EXCEPT !.stage = "raised"]
        BY <3>1, <3>4 DEF list
      <4> QED BY <1>1, <4>1 DEF SplitStates
    <3>5. CASE list # {}
      <4> DEFINE rest == list \ {CHOOSE x \in list : TRUE}
      <4>1. split' = [split EXCEPT !.left = rest, !.built = split.built]
        BY <3>1, <3>3, <3>5 DEF list
      <4>2. rest \in SUBSET Txos
        BY <3>2
      <4> HIDE DEF rest
      <4> QED BY <1>1, <4>1, <4>2 DEF SplitStates
    <3> QED BY <3>4, <3>5
  <2> QED BY <2>1, <2>2
<1>4. TypeOK'
  BY <1>1, <1>2, <1>3 DEF TypeOK, sendVars, SplitStates
<1> QED BY <1>2, <1>4, ApartKeeps

LEMMA NextKeeps == ASSUME IInv, [Next]_vars PROVE IInv'
<1>1. CASE UNCHANGED vars
  <2>1. TypeOK'
    BY <1>1 DEF IInv, TypeOK, vars, sendVars, receiptVars
  <2> QED BY <1>1, <2>1, ApartKeeps DEF vars
<1>2. ASSUME NEW c \in Calls, (\E confirm \in BOOLEAN : Send(c, confirm)) \/ Steps(c) \/ Settle(c)
      PROVE  IInv'
  BY <1>2, SendKeeps, PrepareKeeps, SubmitKeeps, MakeReceiptsKeeps, PollKeeps, ReturnKeeps,
     WorldKeeps
     DEF Steps
<1>3. ASSUME NEW r \in Receipts, Pay(r) \/ CheckReceipt(r) \/ Price(r) \/ SettleReceipt(r)
      PROVE  IInv'
  BY <1>3, ReceiptsKeep
<1>4. CASE Hour
  <2>1. TypeOK'
    BY <1>4 DEF IInv, TypeOK, Hour, sendVars
  <2> QED BY <1>4, <2>1, ApartKeeps DEF Hour
<1>5. CASE SplitStart \/ SplitOne \/ SplitReport
  BY <1>5, SplitKeeps
<1> QED BY <1>1, <1>2, <1>3, <1>4, <1>5 DEF Next

------------------------------------------------------------------------------
\* A call of send_payment ends: each of its steps, and the answer to its
\* notification, leaves fewer.  Only a caller that was returned None, or has not
\* called, starts again, and the tries are counted.
CallLeft(c) ==
  (IF note[c] \in {"answered", "refused"} THEN 0 ELSE 1) +
  (CASE call[c].stage = "address" -> MaxPolls + 5
     [] call[c].stage = "build" -> MaxPolls + 4
     [] call[c].stage = "submit" -> MaxPolls + 3
     [] call[c].stage = "receipts" -> MaxPolls + 2
     [] call[c].stage = "confirm" -> call[c].polls + 1
     [] call[c].stage = "notice" -> 1
     [] OTHER -> 0)
GoesOn(c) ==
  \/ CallLeft(c)' < CallLeft(c)
  \/ UNCHANGED <<call[c], note[c], tries[c]>>
  \/ call[c].stage \in {"idle", "over"} /\ tries'[c] = tries[c] + 1
CallsShorten == [][\A c \in Calls : GoesOn(c)]_sendVars

LEMMA GoIs == ASSUME IInv, NEW c \in Calls
              PROVE  /\ \A stage \in Stages : Go(c, stage) =>
                          call'[c].stage = stage /\ call'[c].polls = call[c].polls
                     /\ \A status \in Statuses : End(c, status) => call'[c].stage = "over"
<1>1. call \in [Calls -> CallStates]
  BY DEF IInv, TypeOK, CallStates
<1> QED BY <1>1 DEF Go, End, CallStates

LEMMA StepGoesOn == ASSUME IInv, NEW c \in Calls, Steps(c) PROVE GoesOn(c)
<1>1. /\ call \in [Calls -> CallStates] /\ note \in [Calls -> {"none", "sent", "answered", "refused"}]
      /\ call[c].stage \in Stages /\ call[c].polls \in 0..MaxPolls /\ MaxPolls \in Nat
      /\ call[c].stage = "confirm" => call[c].polls >= 1
      /\ call[c].stage \in {"address", "build", "submit", "receipts"} => note[c] = "none"
  BY CallFields, PaymentsAssumption DEF IInv, TypeOK, CallStates, Consistent
<1>2. CASE Address(c)
  <2>1. call[c].stage = "address" /\ note' = note /\ call'[c].stage \in {"build", "over"}
    BY <1>2, GoIs DEF Address, Stages, Statuses
  <2> QED BY <1>1, <2>1 DEF GoesOn, CallLeft
<1>3. CASE Build(c)
  <2>1. call[c].stage = "build" /\ note' = note /\ call'[c].stage \in {"submit", "over"}
    BY <1>3, GoIs DEF Build, Stages, Statuses
  <2> QED BY <1>1, <2>1 DEF GoesOn, CallLeft
<1>4. CASE Submit(c)
  <2>1. call[c].stage = "submit" /\ note' = note /\ call'[c].stage \in {"receipts", "over"}
    BY <1>4, GoIs DEF Submit, Stages, Statuses
  <2> QED BY <1>1, <2>1 DEF GoesOn, CallLeft
<1>5. CASE MakeReceipts(c)
  <2>1. /\ call[c].stage = "receipts" /\ note'[c] \in {"none", "sent"}
        /\ \/ call'[c].stage \in {"confirm", "notice"} /\ call'[c].polls = call[c].polls
           \/ call'[c].stage = "over"
    BY <1>1, <1>5, GoIs DEF MakeReceipts, Stages, Statuses
  <2> QED BY <1>1, <2>1 DEF GoesOn, CallLeft
<1>6. CASE Poll(c)
  <2>1. note' = note /\ call[c].stage = "confirm"
    BY <1>6 DEF Poll
  <2>2. CASE End(c, "raised")
    <3>1. call'[c].stage = "over"
      BY <2>2, GoIs DEF Statuses
    <3> QED BY <1>1, <2>1, <3>1 DEF GoesOn, CallLeft
  <2>3. ASSUME NEW status \in {LogStatus(c), "nolog"}, call' = [call EXCEPT ![c] = Polled(c, status)]
        PROVE  GoesOn(c)
    <3>1. /\ call'[c].polls = call[c].polls - 1
          /\ \/ call'[c].stage = "notice"
             \/ call'[c].stage = "confirm"
      BY <1>1, <2>3 DEF Polled, CallStates
    <3> QED BY <1>1, <2>1, <3>1 DEF GoesOn, CallLeft
  <2> QED BY <1>6, <2>2, <2>3 DEF Poll
<1>7. CASE Return(c)
  BY <1>1, <1>7 DEF Return, Go, GoesOn, CallLeft, CallStates
<1>8. CASE Notified(c)
  BY <1>1, <1>8 DEF Notified, GoesOn, CallLeft
<1> QED BY <1>2, <1>3, <1>4, <1>5, <1>6, <1>7, <1>8 DEF Steps

LEMMA NextGoesOn == ASSUME IInv, [Next]_vars, NEW c \in Calls PROVE GoesOn(c)
<1>1. CASE UNCHANGED sendVars
  BY <1>1 DEF sendVars, GoesOn
<1>2. ASSUME NEW d \in Calls, (\E confirm \in BOOLEAN : Send(d, confirm)) \/ Steps(d) \/ Settle(d)
      PROVE  GoesOn(c)
  <2>1. CASE d # c
    <3>1. call'[c] = call[c] /\ note'[c] = note[c] /\ tries'[c] = tries[c]
      BY <1>2, <2>1 DEF IInv, TypeOK, Send, Steps, Address, Build, Submit, MakeReceipts, Poll,
         Return,
         Notified, Settle, Go, End
    <3> QED BY <3>1 DEF GoesOn
  <2>2. CASE d = c
    <3>1. ASSUME NEW confirm \in BOOLEAN, Send(c, confirm) PROVE GoesOn(c)
      BY <3>1 DEF IInv, TypeOK, Send, GoesOn
    <3>2. CASE Settle(c)
      BY <3>2 DEF Settle, GoesOn
    <3> QED BY <1>2, <2>2, <3>1, <3>2, StepGoesOn
  <2> QED BY <2>1, <2>2
<1>3. ASSUME NEW r \in Receipts, Pay(r) \/ CheckReceipt(r) \/ Price(r) \/ SettleReceipt(r)
      PROVE  UNCHANGED sendVars
  BY <1>3 DEF Pay, CheckReceipt, Price, SettleReceipt, sendVars
<1>4. CASE Hour \/ SplitStart \/ SplitOne \/ SplitReport
  BY <1>1, <1>4 DEF Hour, SplitStart, SplitOne, SplitReport, sendVars
<1>5. CASE UNCHANGED vars
  BY <1>1, <1>5 DEF vars, sendVars
<1> QED BY <1>1, <1>2, <1>3, <1>4, <1>5 DEF Next

------------------------------------------------------------------------------
(* The pool. *)

PgStages == Pg!Waits \cup {"idle", "raised"}
PgTyped ==
  /\ pool \in {"none", "ready", "closed"} /\ connecting \in {"none", "pending", "done"}
  /\ tables \subseteq Interfaces /\ creating \subseteq Interfaces
  /\ at \in [Queries -> PgStages]

\* the future of OneTruePool and who is to resolve it
OneConnect ==
  /\ connecting = "pending" => pool = "none"
  /\ \A q \in Queries : at[q] = "connect" => connecting = "pending"
  /\ \A q, r \in Queries : at[q] = "connect" /\ at[r] = "connect" => q = r

\* _autocreating_table is set while a table is created, by one task
OneCreator ==
  \A q, r \in Queries : On[q] = On[r] /\ at[q] \in {"second", "create"} /\ at[r] \in {"second", "create"}
    => q = r
Marked == \A q \in Queries : at[q] \in {"second", "create"} => On[q] \in creating

\* those that hold a connection, and those that hold two
HasOne == {q \in Queries : Pg!Held(at[q]) >= 1}
HasTwo == {q \in Queries : Pg!Held(at[q]) = 2}

PgInv == PgTyped /\ OneConnect /\ OneCreator /\ Marked /\ Pg!InUse <= PoolSize

\* What a task holds at each stage.
LEMMA HeldIs == ASSUME NEW stage \in PgStages
                PROVE  /\ Pg!Held(stage) \in {0, 1, 2}
                       /\ Pg!Held(stage) = 2 <=> stage = "create"
                       /\ Pg!Held(stage) >= 1 <=> stage \in {"query", "second", "again", "create"}
BY DEF Pg!Held, PgStages, Pg!Waits

\* The sets the counts are about, by stage.
LEMMA HoldersAre == ASSUME PgTyped
                    PROVE  /\ HasOne = {q \in Queries : at[q] \in {"query", "second", "again", "create"}}
                           /\ HasTwo = {q \in Queries : at[q] = "create"}
<1>1. \A q \in Queries : at[q] \in PgStages
  BY DEF PgTyped
<1> QED BY <1>1, HeldIs DEF HasOne, HasTwo

\* A step of one task moves at most that task into the sets.
LEMMA MoveIs == ASSUME PgTyped, NEW q \in Queries, NEW stage \in PgStages, Pg!Move(q, stage)
                PROVE  /\ at' \in [Queries -> PgStages] /\ at'[q] = stage
                       /\ \A r \in Queries \ {q} : at'[r] = at[r]
BY DEF PgTyped, Pg!Move

\* What that does to the sets.
LEMMA HoldersMove == ASSUME PgTyped, NEW q \in Queries, NEW stage \in PgStages, Pg!Move(q, stage)
                     PROVE  /\ HasOne' \subseteq HasOne \cup {q}
                            /\ HasTwo' \subseteq HasTwo \cup {q}
                            /\ Pg!Held(stage) = 0 \/ Pg!Held(at[q]) >= 1 => HasOne' \subseteq HasOne
                            /\ stage # "create" => HasTwo' \subseteq HasTwo
<1>1. /\ at' \in [Queries -> PgStages] /\ at'[q] = stage
      /\ \A r \in Queries \ {q} : at'[r] = at[r]
  BY MoveIs
<1>2. Pg!Held(stage) \in {0, 1, 2} /\ (stage # "create" => Pg!Held(stage) # 2)
  BY HeldIs
<1>3. HasOne' = {r \in Queries : Pg!Held(at'[r]) >= 1} /\ HasTwo' = {r \in Queries : Pg!Held(at'[r]) = 2}
  BY DEF HasOne, HasTwo, Pg!Held
<1>4. \A r \in Queries \ {q} : (r \in HasOne' <=> r \in HasOne) /\ (r \in HasTwo' <=> r \in HasTwo)
  BY <1>1, <1>3 DEF HasOne, HasTwo
<1>5. HasOne' \subseteq Queries /\ HasTwo' \subseteq Queries
  BY <1>3
<1>6. HasOne' \subseteq HasOne \cup {q} /\ HasTwo' \subseteq HasTwo \cup {q}
  BY <1>4, <1>5
<1>7. Pg!Held(stage) = 0 => q \notin HasOne'
  BY <1>1, <1>3
<1>8. Pg!Held(at[q]) >= 1 => q \in HasOne
  BY DEF HasOne
<1>9. stage # "create" => q \notin HasTwo'
  BY <1>1, <1>2, <1>3
<1> QED BY <1>6, <1>7, <1>8, <1>9

\* An instance has sizes of its own, which are the library's.
LEMMA SizesAgree == ASSUME NEW S
                    PROVE  Pg!Cardinality(S) = Cardinality(S) /\ (Pg!IsFiniteSet(S) <=> IsFiniteSet(S))
BY DEF Cardinality, Pg!Cardinality, IsFiniteSet, Pg!IsFiniteSet

LEMMA PoolFacts == ASSUME Pg!PgAssumption
                   PROVE  /\ IsFiniteSet(Queries) /\ On \in [Queries -> Interfaces] /\ PoolSize \in Nat
                          /\ IsFiniteSet(Interfaces) /\ PoolSize > Cardinality(Interfaces)
                          /\ Pg!InUse = Cardinality(HasOne) + Cardinality(HasTwo)
                          /\ Pg!InUse' = Cardinality(HasOne') + Cardinality(HasTwo')
BY SizesAgree DEF Pg!PgAssumption, Pg!InUse, HasOne, HasTwo

LEMMA PgInitIsInv == ASSUME Pg!PgAssumption, Pg!Init PROVE PgInv
<1>1. PgTyped
  BY DEF Pg!Init, PgTyped, PgStages
<1>2. OneConnect /\ OneCreator /\ Marked
  BY DEF Pg!Init, OneConnect, OneCreator, Marked
<1>3. HasOne = {} /\ HasTwo = {}
  BY <1>1, HoldersAre DEF Pg!Init
<1>4. Pg!InUse <= PoolSize
  BY <1>3, PoolFacts, FS_EmptySet
<1> QED BY <1>1, <1>2, <1>4 DEF PgInv

------------------------------------------------------------------------------
\* The connections in use never exceed the pool if the holders get no more ...
LEMMA FewerHold == ASSUME Pg!PgAssumption, Pg!InUse <= PoolSize, HasOne' \subseteq HasOne,
                          HasTwo' \subseteq HasTwo
                   PROVE  Pg!InUse' <= PoolSize
<1>1. IsFiniteSet(HasOne) /\ IsFiniteSet(HasTwo)
  BY PoolFacts, FS_Subset DEF HasOne, HasTwo
<1>2. /\ IsFiniteSet(HasOne') /\ Cardinality(HasOne') <= Cardinality(HasOne)
      /\ IsFiniteSet(HasTwo') /\ Cardinality(HasTwo') <= Cardinality(HasTwo)
  BY <1>1, FS_Subset
<1>3. /\ Cardinality(HasOne) \in Nat /\ Cardinality(HasTwo) \in Nat
      /\ Cardinality(HasOne') \in Nat /\ Cardinality(HasTwo') \in Nat
  BY <1>1, <1>2, FS_CardinalityType
<1>4. Pg!InUse = Cardinality(HasOne) + Cardinality(HasTwo) /\ Pg!InUse' = Cardinality(HasOne') + Cardinality(HasTwo')
  BY PoolFacts
<1>5. PoolSize \in Nat
  BY DEF Pg!PgAssumption
<1> QED BY <1>2, <1>3, <1>4, <1>5

\* ... or if one of them gets a connection while one is free.
LEMMA OneMore == ASSUME Pg!PgAssumption, NEW q \in Queries, Pg!Free,
                        \/ HasOne' \subseteq HasOne \cup {q} /\ HasTwo' \subseteq HasTwo
                        \/ HasOne' \subseteq HasOne /\ HasTwo' \subseteq HasTwo \cup {q}
                 PROVE  Pg!InUse' <= PoolSize
<1>1. IsFiniteSet(HasOne) /\ IsFiniteSet(HasTwo)
  BY PoolFacts, FS_Subset DEF HasOne, HasTwo
<1>2. Cardinality(HasOne) \in Nat /\ Cardinality(HasTwo) \in Nat
  BY <1>1, FS_CardinalityType
<1>3. /\ IsFiniteSet(HasOne \cup {q}) /\ Cardinality(HasOne \cup {q}) <= Cardinality(HasOne) + 1
      /\ IsFiniteSet(HasTwo \cup {q}) /\ Cardinality(HasTwo \cup {q}) <= Cardinality(HasTwo) + 1
  <2> SUFFICES ASSUME NEW S, IsFiniteSet(S), Cardinality(S) \in Nat
               PROVE  IsFiniteSet(S \cup {q}) /\ Cardinality(S \cup {q}) <= Cardinality(S) + 1
    BY <1>1, <1>2
  <2>1. /\ IsFiniteSet(S \cup {q})
        /\ Cardinality(S \cup {q}) = Cardinality(S) \/ Cardinality(S \cup {q}) = Cardinality(S) + 1
    BY FS_AddElement
  <2> QED BY <2>1
<1>4. Cardinality(HasOne \cup {q}) \in Nat /\ Cardinality(HasTwo \cup {q}) \in Nat
  BY <1>3, FS_CardinalityType
<1>5. Pg!InUse = Cardinality(HasOne) + Cardinality(HasTwo) /\ Pg!InUse' = Cardinality(HasOne') + Cardinality(HasTwo')
  BY PoolFacts
<1>6. PoolSize \in Nat /\ Cardinality(HasOne) + Cardinality(HasTwo) + 1 <= PoolSize
  BY <1>2, <1>5, PoolFacts DEF Pg!Free
<1>7. CASE HasOne' \subseteq HasOne \cup {q} /\ HasTwo' \subseteq HasTwo
  <2>1. Cardinality(HasOne') <= Cardinality(HasOne \cup {q}) /\ IsFiniteSet(HasOne')
    BY <1>3, <1>7, FS_Subset
  <2>2. Cardinality(HasTwo') <= Cardinality(HasTwo) /\ IsFiniteSet(HasTwo')
    BY <1>1, <1>7, FS_Subset
  <2>3. Cardinality(HasOne') \in Nat /\ Cardinality(HasTwo') \in Nat
    BY <2>1, <2>2, FS_CardinalityType
  <2> QED BY <1>2, <1>3, <1>4, <1>5, <1>6, <2>1, <2>2, <2>3
<1>8. CASE HasOne' \subseteq HasOne /\ HasTwo' \subseteq HasTwo \cup {q}
  <2>1. Cardinality(HasOne') <= Cardinality(HasOne) /\ IsFiniteSet(HasOne')
    BY <1>1, <1>8, FS_Subset
  <2>2. Cardinality(HasTwo') <= Cardinality(HasTwo \cup {q}) /\ IsFiniteSet(HasTwo')
    BY <1>3, <1>8, FS_Subset
  <2>3. Cardinality(HasOne') \in Nat /\ Cardinality(HasTwo') \in Nat
    BY <2>1, <2>2, FS_CardinalityType
  <2> QED BY <1>2, <1>3, <1>4, <1>5, <1>6, <2>1, <2>2, <2>3
<1> QED BY <1>7, <1>8

\* The first query, or one more behind it.
LEMMA ExecuteKeeps == ASSUME Pg!PgAssumption, PgInv, NEW q \in Queries, Pg!Execute(q) PROVE PgInv'
<1>1. PICK stage \in {"acquire", "connect", "waiting"} : Pg!Move(q, stage)
  BY DEF Pg!Execute
<1>2. /\ at' \in [Queries -> PgStages] /\ at'[q] = stage
      /\ \A r \in Queries \ {q} : at'[r] = at[r]
  BY <1>1, MoveIs DEF PgInv, PgStages, Pg!Waits
<1>3. PgTyped'
  BY <1>2 DEF PgInv, PgTyped, Pg!Execute
<1>4. (OneCreator /\ Marked)'
  BY <1>2 DEF PgInv, OneCreator, Marked, Pg!Execute
<1>5. OneConnect'
  BY <1>2 DEF PgInv, PgTyped, OneConnect, Pg!Execute, Pg!Move
<1>6. HasOne' \subseteq HasOne /\ HasTwo' \subseteq HasTwo
  BY <1>1, HoldersMove, HeldIs DEF PgInv, PgStages, Pg!Waits
<1> QED BY <1>3, <1>4, <1>5, <1>6, FewerHold DEF PgInv

\* create_pool answers or raises: the future is resolved, or stays pending.
LEMMA CreatePoolKeeps == ASSUME Pg!PgAssumption, PgInv, NEW q \in Queries, Pg!CreatePool(q)
                         PROVE PgInv'
<1>1. PICK stage \in {"acquire", "raised"} : Pg!Move(q, stage)
  BY DEF Pg!CreatePool
<1>2. /\ at' \in [Queries -> PgStages] /\ at'[q] = stage
      /\ \A r \in Queries \ {q} : at'[r] = at[r]
  BY <1>1, MoveIs DEF PgInv, PgStages, Pg!Waits
<1>3. PgTyped'
  BY <1>2 DEF PgInv, PgTyped, Pg!CreatePool
<1>4. (OneCreator /\ Marked)'
  BY <1>2 DEF PgInv, OneCreator, Marked, Pg!CreatePool
<1>5. OneConnect'
  <2>1. \A r \in Queries : at'[r] # "connect"
    BY <1>2 DEF PgInv, OneConnect, Pg!CreatePool
  <2>2. connecting' = "pending" => pool' = "none"
    BY DEF PgInv, OneConnect, Pg!CreatePool
  <2> QED BY <2>1, <2>2 DEF OneConnect
<1>6. HasOne' \subseteq HasOne /\ HasTwo' \subseteq HasTwo
  BY <1>1, HoldersMove, HeldIs DEF PgInv, PgStages, Pg!Waits
<1> QED BY <1>3, <1>4, <1>5, <1>6, FewerHold DEF PgInv

\* The steps of a task that neither connect nor create: it goes on to acquire,
\* it gets its connection, it ends.
LEMMA PoolOthersKeep == ASSUME Pg!PgAssumption, PgInv, NEW q \in Queries,
                           Pg!Connected(q) \/ Pg!Acquire(q) \/ Pg!Again(q)
                    PROVE  PgInv'
<1>1. PICK stage \in {"acquire", "query", "idle", "raised"} : Pg!Move(q, stage)
  BY DEF Pg!Connected, Pg!Acquire, Pg!Again
<1>2. /\ at' \in [Queries -> PgStages] /\ at'[q] = stage
      /\ \A r \in Queries \ {q} : at'[r] = at[r]
  BY <1>1, MoveIs DEF PgInv, PgStages, Pg!Waits
<1>3. UNCHANGED <<pool, connecting, tables, creating>>
  BY DEF Pg!Connected, Pg!Acquire, Pg!Again
<1>4. PgTyped' /\ OneConnect' /\ OneCreator' /\ Marked'
  BY <1>2, <1>3 DEF PgInv, PgTyped, OneConnect, OneCreator, Marked
<1>5. /\ HasOne' \subseteq HasOne \cup {q} /\ HasTwo' \subseteq HasTwo
      /\ Pg!Held(stage) = 0 => HasOne' \subseteq HasOne
  BY <1>1, HoldersMove DEF PgInv, PgStages, Pg!Waits
<1>6. Pg!Held(stage) = 0 \/ Pg!Free
  BY <1>1, <1>2, HeldIs DEF PgInv, Pg!Connected, Pg!Acquire, Pg!Again, Pg!Move, PgTyped, PgStages,
     Pg!Waits
<1>7. Pg!InUse' <= PoolSize
  BY <1>5, <1>6, FewerHold, OneMore DEF PgInv
<1> QED BY <1>4, <1>7 DEF PgInv

\* Only a query that finds no mark becomes the creator of a table.
LEMMA QueryKeeps == ASSUME Pg!PgAssumption, PgInv, NEW q \in Queries, Pg!Query(q) PROVE PgInv'
<1>1. PICK stage \in {"second", "idle", "raised"} : Pg!Move(q, stage)
  BY DEF Pg!Query
<1>2. /\ at' \in [Queries -> PgStages] /\ at'[q] = stage
      /\ \A r \in Queries \ {q} : at'[r] = at[r]
  BY <1>1, MoveIs DEF PgInv, PgStages, Pg!Waits
<1>3. On[q] \in Interfaces
  BY DEF Pg!PgAssumption
<1>4. PgTyped' /\ OneConnect'
  BY <1>2, <1>3 DEF PgInv, PgTyped, OneConnect, Pg!Query
<1>5. /\ stage = "second" => On[q] \notin creating /\ creating' = creating \cup {On[q]}
      /\ creating \subseteq creating'
  BY <1>2 DEF PgInv, PgTyped, Pg!Query, Pg!Move
<1>6. OneCreator' /\ Marked'
  BY <1>2, <1>5 DEF PgInv, OneCreator, Marked
<1>7. HasOne' \subseteq HasOne /\ HasTwo' \subseteq HasTwo
  <2>1. Pg!Held(at[q]) >= 1
    BY HeldIs DEF Pg!Query, PgStages, Pg!Waits
  <2> QED BY <1>1, <2>1, HoldersMove DEF PgInv, PgStages, Pg!Waits
<1> QED BY <1>4, <1>6, <1>7, FewerHold DEF PgInv

\* The creator of a table asks for its second connection.
LEMMA SecondKeeps == ASSUME Pg!PgAssumption, PgInv, NEW q \in Queries, Pg!Second(q) PROVE PgInv'
<1>1. PICK stage \in {"create", "raised"} : Pg!Move(q, stage) /\ (stage = "raised" \/ Pg!Free)
  BY DEF Pg!Second
<1>2. /\ at' \in [Queries -> PgStages] /\ at'[q] = stage
      /\ \A r \in Queries \ {q} : at'[r] = at[r]
  BY <1>1, MoveIs DEF PgInv, PgStages, Pg!Waits
<1>3. PgTyped' /\ OneConnect' /\ OneCreator' /\ Marked'
  BY <1>2 DEF PgInv, PgTyped, OneConnect, OneCreator, Marked, Pg!Second
<1>4. Pg!Held(at[q]) >= 1
  BY HeldIs DEF Pg!Second, PgStages, Pg!Waits
<1>5. /\ HasOne' \subseteq HasOne /\ HasTwo' \subseteq HasTwo \cup {q}
      /\ stage # "create" => HasTwo' \subseteq HasTwo
  BY <1>1, <1>4, HoldersMove DEF PgInv, PgStages, Pg!Waits
<1>6. Pg!InUse' <= PoolSize
  BY <1>1, <1>5, FewerHold, OneMore DEF PgInv
<1> QED BY <1>3, <1>6 DEF PgInv

\* The table is there and its mark gone, or neither.
LEMMA CreateTableKeeps == ASSUME Pg!PgAssumption, PgInv, NEW q \in Queries, Pg!CreateTable(q)
                          PROVE PgInv'
<1>1. PICK stage \in {"again", "raised"} : Pg!Move(q, stage)
  BY DEF Pg!CreateTable
<1>2. /\ at' \in [Queries -> PgStages] /\ at'[q] = stage
      /\ \A r \in Queries \ {q} : at'[r] = at[r]
  BY <1>1, MoveIs DEF PgInv, PgStages, Pg!Waits
<1>3. On[q] \in Interfaces
  BY DEF Pg!PgAssumption
<1>4. PgTyped' /\ OneConnect' /\ OneCreator'
  BY <1>2, <1>3 DEF PgInv, PgTyped, OneConnect, OneCreator, Pg!CreateTable
<1>5. creating \ {On[q]} \subseteq creating'
  BY DEF Pg!CreateTable
<1>6. \A r \in Queries \ {q} : at[r] \in {"second", "create"} => On[r] # On[q]
  BY DEF PgInv, OneCreator, Pg!CreateTable
<1>7. Marked'
  BY <1>2, <1>5, <1>6 DEF PgInv, Marked
<1>8. HasOne' \subseteq HasOne /\ HasTwo' \subseteq HasTwo
  <2>1. Pg!Held(at[q]) >= 1
    BY HeldIs DEF Pg!CreateTable, PgStages, Pg!Waits
  <2> QED BY <1>1, <2>1, HoldersMove DEF PgInv, PgStages, Pg!Waits
<1> QED BY <1>4, <1>7, <1>8, FewerHold DEF PgInv

LEMMA PgNextKeeps == ASSUME Pg!PgAssumption, PgInv, [Pg!Next]_(Pg!pgVars) PROVE PgInv'
<1>1. CASE UNCHANGED Pg!pgVars
  BY <1>1 DEF PgInv, PgTyped, OneConnect, OneCreator, Marked, Pg!InUse, Pg!Held, Pg!pgVars
<1>2. CASE Pg!Close
  <2>1. PgTyped' /\ OneConnect' /\ OneCreator' /\ Marked'
    BY <1>2 DEF PgInv, PgTyped, OneConnect, OneCreator, Marked, Pg!Close
  <2>2. Pg!InUse' = Pg!InUse
    BY <1>2 DEF Pg!Close, Pg!InUse, Pg!Held
  <2> QED BY <2>1, <2>2 DEF PgInv
<1>3. ASSUME NEW q \in Queries, Pg!Execute(q) \/ Pg!Steps(q) \/ Pg!Acquire(q) \/ Pg!Second(q)
      PROVE  PgInv'
  BY <1>3, ExecuteKeeps, CreatePoolKeeps, PoolOthersKeep, QueryKeeps, SecondKeeps, CreateTableKeeps
     DEF Pg!Steps
<1> QED BY <1>1, <1>2, <1>3 DEF Pg!Next

------------------------------------------------------------------------------
(* The keystate. *)

\* No version is newer than the newest, and what the task is about to post was
\* read from the file, which since then only became newer.
Known ==
  /\ file <= newest /\ backend <= newest /\ keystate <= newest /\ acked <= newest
  /\ up = "running" /\ task \in {"get", "post"} => keystate <= file

\* What startup has written out, and what the task is about to post, is no older
\* than what the backend has acknowledged.
Fresh ==
  ~missed =>
    /\ backend >= acked
    /\ up \in {"restoring", "running"} /\ file # 0 => file >= acked
    /\ up = "restoring" => file >= acked
    /\ up = "running" /\ task \in {"get", "post"} => keystate >= acked

\* without a bot there is no task
Idle == up \in {"down", "fetching", "restoring"} => task = "none"

KsInv == Keystate!TypeOK /\ Known /\ Fresh /\ Idle

USE DEF Keystate!Versions

LEMMA KsInitIsInv == ASSUME MaxVersion \in Nat \ {0}, Keystate!Init PROVE KsInv
<1>1. 0 \in Keystate!Versions /\ 1 \in Keystate!Versions
  OBVIOUS
<1>2. Keystate!TypeOK
  BY <1>1 DEF Keystate!Init, Keystate!TypeOK
<1>3. Known
  BY DEF Keystate!Init, Known
<1>4. Fresh /\ Idle
  BY DEF Keystate!Init, Fresh, Idle
<1> QED BY <1>2, <1>3, <1>4 DEF KsInv

LEMMA StartKeeps == ASSUME MaxVersion \in Nat \ {0}, KsInv,
                           Keystate!Start \/ Keystate!Ready \/ Keystate!Begin PROVE KsInv'
<1>1. CASE Keystate!Start
  <2>0. 0 \in Keystate!Versions
    OBVIOUS
  <2>1. Keystate!TypeOK'
    <3> HIDE DEF Keystate!Versions
    <3> QED BY <1>1, <2>0 DEF Keystate!Start, KsInv, Keystate!TypeOK
  <2>2. Known' /\ Idle'
    BY <1>1 DEF Keystate!Start, KsInv, Keystate!TypeOK, Known, Idle
  <2>3. Fresh'
    BY <1>1 DEF Keystate!Start, KsInv, Fresh
  <2> QED BY <2>1, <2>2, <2>3 DEF KsInv
<1>2. CASE Keystate!Ready
  BY <1>2 DEF Keystate!Ready, KsInv, Keystate!TypeOK, Known, Fresh, Idle
<1>3. CASE Keystate!Begin
  BY <1>3 DEF Keystate!Begin, KsInv, Keystate!TypeOK, Known, Fresh, Idle
<1> QED BY <1>1, <1>2, <1>3

\* the backup is written over the file: what it holds is what was acknowledged
LEMMA FetchKeeps == ASSUME MaxVersion \in Nat \ {0}, KsInv, Keystate!Fetch PROVE KsInv'
<1>1. CASE keystate' = backend /\ UNCHANGED missed
  <2>1. Keystate!TypeOK' /\ Known' /\ Idle'
    BY <1>1 DEF Keystate!Fetch, KsInv, Keystate!TypeOK, Known, Idle
  <2>2. Fresh'
    BY <1>1 DEF Keystate!Fetch, KsInv, Keystate!TypeOK, Fresh
  <2> QED BY <2>1, <2>2 DEF KsInv
<1>2. CASE keystate' = 0 /\ missed' = TRUE
  BY <1>2 DEF Keystate!Fetch, KsInv, Keystate!TypeOK, Known, Fresh, Idle
<1> QED BY <1>1, <1>2 DEF Keystate!Fetch

LEMMA TaskKeeps == ASSUME MaxVersion \in Nat \ {0}, KsInv,
                          Keystate!Reread \/ Keystate!Compare \/ Keystate!Post \/ Keystate!Tick PROVE KsInv'
<1>1. CASE Keystate!Reread
  BY <1>1 DEF Keystate!Reread, KsInv, Keystate!TypeOK, Known, Fresh, Idle
<1>2. CASE Keystate!Compare
  BY <1>2 DEF Keystate!Compare, KsInv, Keystate!TypeOK, Known, Fresh, Idle
<1>3. CASE Keystate!Post
  <2>1. Keystate!TypeOK' /\ Known' /\ Idle'
    BY <1>3 DEF Keystate!Post, KsInv, Keystate!TypeOK, Known, Idle
  <2>2. Fresh'
    <3>1. /\ ~missed => keystate >= acked /\ backend >= acked /\ (file # 0 => file >= acked)
          /\ keystate \in Nat /\ file \in Nat /\ keystate <= file
          /\ up' = "running" /\ task' \in {"sleep", "dead"} /\ file' = file /\ missed' = missed
      BY <1>3 DEF Keystate!Post, KsInv, Keystate!TypeOK, Known, Fresh
    <3>2. CASE backend' = keystate /\ acked' = keystate
      BY <3>1, <3>2 DEF Fresh
    <3>3. CASE acked' = acked /\ backend' \in {backend, keystate}
      BY <3>1, <3>3 DEF Fresh
    <3> QED BY <1>3, <3>2, <3>3 DEF Keystate!Post
  <2> QED BY <2>1, <2>2 DEF KsInv
<1>4. CASE Keystate!Tick
  BY <1>4 DEF Keystate!Tick, KsInv, Keystate!TypeOK, Known, Fresh, Idle
<1> QED BY <1>1, <1>2, <1>3, <1>4

\* a post under way may still arrive, and brings nothing old
LEMMA GoneKeeps == ASSUME MaxVersion \in Nat \ {0}, KsInv, Keystate!Shutdown \/ Keystate!Kill
                   PROVE KsInv'
<1>1. /\ up # "down" /\ up' = "down" /\ task' = "none" /\ shutting_down' \in BOOLEAN
      /\ UNCHANGED <<file, newest, keystate, acked, missed>>
      /\ backend' = backend \/ (task = "post" /\ backend' = keystate)
  BY DEF Keystate!Shutdown, Keystate!Kill, Keystate!Gone, KsInv, Keystate!TypeOK
<1>2. task = "post" => up = "running"
  BY DEF KsInv, Idle, Keystate!TypeOK
<1>3. Keystate!TypeOK' /\ Known' /\ Idle'
  BY <1>1 DEF KsInv, Keystate!TypeOK, Known, Idle
<1>4. Fresh'
  BY <1>1, <1>2 DEF KsInv, Keystate!TypeOK, Fresh
<1> QED BY <1>3, <1>4 DEF KsInv

LEMMA KsWorldKeeps == ASSUME MaxVersion \in Nat \ {0}, KsInv, Keystate!Change \/ Keystate!Move
                      PROVE KsInv'
<1>1. CASE Keystate!Change
  BY <1>1 DEF Keystate!Change, KsInv, Keystate!TypeOK, Known, Fresh, Idle
<1>2. CASE Keystate!Move
  BY <1>2 DEF Keystate!Move, KsInv, Keystate!TypeOK, Known, Fresh, Idle
<1> QED BY <1>1, <1>2

LEMMA KsNextKeeps == ASSUME MaxVersion \in Nat \ {0}, KsInv, [Keystate!Next]_(Keystate!ksVars)
                     PROVE KsInv'
<1>1. CASE UNCHANGED Keystate!ksVars
  BY <1>1 DEF Keystate!ksVars, KsInv, Keystate!TypeOK, Known, Fresh, Idle
<1>2. CASE Keystate!Next
  BY <1>2, StartKeeps, FetchKeeps, TaskKeeps, GoneKeeps, KsWorldKeeps DEF Keystate!Next,
     Keystate!Working
<1> QED BY <1>1, <1>2

------------------------------------------------------------------------------
(* The three together. *)
BackendsInv == IInv /\ PgInv /\ KsInv

LEMMA BackendsInitIsInv == BackendsInit => BackendsInv
BY InitIsInv, PgInitIsInv, KsInitIsInv, PgAssumption, VersionAssumption DEF BackendsInit,
   BackendsInv

\* A step of one component leaves the variables of the other two alone.
LEMMA Parts == ASSUME [BackendsNext]_backendVars
               PROVE  [Next]_vars /\ [Pg!Next]_(Pg!pgVars) /\ [Keystate!Next]_(Keystate!ksVars)
<1>1. UNCHANGED poolVars <=> UNCHANGED Pg!pgVars
  BY DEF poolVars, Pg!pgVars
<1>2. UNCHANGED keystateVars <=> UNCHANGED Keystate!ksVars
  BY DEF keystateVars, Keystate!ksVars
<1>3. UNCHANGED backendVars => UNCHANGED vars /\ UNCHANGED poolVars /\ UNCHANGED keystateVars
  BY DEF backendVars
<1>4. /\ Paying => Next /\ UNCHANGED poolVars /\ UNCHANGED keystateVars
      /\ Querying => Pg!Next /\ UNCHANGED vars /\ UNCHANGED keystateVars
      /\ BackingUp => Keystate!Next /\ UNCHANGED vars /\ UNCHANGED poolVars
  BY DEF Paying, Querying, BackingUp
<1> QED BY <1>1, <1>2, <1>3, <1>4 DEF BackendsNext

LEMMA BackendsNextKeeps == BackendsInv /\ [BackendsNext]_backendVars => BackendsInv'
<1> SUFFICES ASSUME BackendsInv, [BackendsNext]_backendVars PROVE BackendsInv'
  OBVIOUS
<1>1. [Next]_vars /\ [Pg!Next]_(Pg!pgVars) /\ [Keystate!Next]_(Keystate!ksVars)
  BY Parts
<1>2. IInv'
  BY <1>1, NextKeeps DEF BackendsInv
<1>3. PgInv'
  BY <1>1, PgNextKeeps, PgAssumption DEF BackendsInv
<1>4. KsInv'
  BY <1>1, KsNextKeeps, VersionAssumption DEF BackendsInv
<1> QED BY <1>2, <1>3, <1>4 DEF BackendsInv

LEMMA BackendsInvariance == BackendsSpec => []BackendsInv
BY BackendsInitIsInv, BackendsNextKeeps, PTL DEF BackendsSpec

\* Every variable keeps its type: the stages of a call, the counters, the
\* receipts, the txos that are left, the versions of the keystate; and no
\* connection is lent twice, the tasks never hold more connections than the
\* pool has (OneTruePool.acquire).
THEOREM TypeCorrect == BackendsSpec => []Types
<1>1. IInv => TypeOK
  BY DEF IInv
<1>2. PgInv => Pg!TypeOK
  BY DEF PgInv, PgTyped, Pg!TypeOK, PgStages
<1>3. KsInv => Keystate!TypeOK
  BY DEF KsInv
<1>4. BackendsInv => Types
  BY <1>1, <1>2, <1>3 DEF BackendsInv, Types
<1> QED BY <1>4, BackendsInvariance, PTL

\* However the callers, the wallet and the ledger interleave, the wallet takes a
\* transaction twice only when the caller was not told of the first.
THEOREM TakenOnceHolds == BackendsSpec => []TakenOnce
<1>1. IInv => TakenOnce
  <2> SUFFICES ASSUME IInv, NEW c \in Calls PROVE landed[c] <= hidden[c] + 1
    BY DEF TakenOnce
  <2>1. landed[c] \in Nat /\ hidden[c] \in Nat
    BY DEF IInv, TypeOK
  <2> QED BY <2>1 DEF IInv, Accounted
<1>2. BackendsInv => TakenOnce
  BY <1>1 DEF BackendsInv
<1> QED BY <1>2, BackendsInvariance, PTL

\* The status that send_payment returns after it has asked for the log is that
\* of the transaction, however late the ledger and signal-cli are and whatever
\* they answer.
THEOREM VerdictIsTrueHolds == BackendsSpec => []VerdictIsTrue
<1>1. BackendsInv => VerdictIsTrue
  BY DEF BackendsInv, IInv
<1> QED BY <1>1, BackendsInvariance, PTL

\* No call of send_payment goes round: with its tries bounded, each caller has
\* finitely many steps, whatever the wallet, the ledger and signal-cli do
\* (confirm_tx_timeout counts down).  That it takes them is PaymentsEnd.
THEOREM CallsShortenHolds == BackendsSpec => CallsShorten
<1>1. BackendsInv /\ [BackendsNext]_backendVars => [\A c \in Calls : GoesOn(c)]_sendVars
  BY Parts, NextGoesOn DEF BackendsInv
<1> QED BY <1>1, BackendsInvariance, PTL DEF BackendsSpec, CallsShorten

\* _autocreating_table lets one task at a time create a table: no two hold a
\* connection while they wait for the one that create_table needs.
THEOREM OneCreatorHolds == BackendsSpec => []OneCreator
<1>1. BackendsInv => OneCreator
  BY DEF BackendsInv, PgInv
<1> QED BY <1>1, BackendsInvariance, PTL

\* Tasks that all wait in create_table would be of different tables.
LEMMA NeverAllWait == ASSUME Pg!PgAssumption, PgInv PROVE Pg!PoolMoves
<1> SUFFICES ASSUME \A q \in Queries : at[q] \notin {"query", "create", "again"}
             PROVE  Pg!Free
  BY DEF Pg!PoolMoves
<1>1. HasTwo = {} /\ \A q \in HasOne : q \in Queries /\ at[q] = "second"
  BY HoldersAre DEF PgInv
<1> DEFINE f == [q \in HasOne |-> On[q]]
<1>2. f \in Injection(HasOne, Interfaces)
  <2>1. f \in [HasOne -> Interfaces]
    BY <1>1, PoolFacts
  <2>2. \A q, r \in HasOne : f[q] = f[r] => q = r
    BY <1>1 DEF PgInv, OneCreator
  <2> QED BY <2>1, <2>2 DEF Injection, IsInjective
<1>3. Cardinality(HasOne) <= Cardinality(Interfaces) /\ IsFiniteSet(HasOne)
  BY <1>2, PoolFacts, FS_Injection
<1>4. Cardinality(HasOne) \in Nat /\ Cardinality(Interfaces) \in Nat /\ Cardinality(HasTwo) = 0
  BY <1>1, <1>3, PoolFacts, FS_CardinalityType, FS_EmptySet
<1> QED BY <1>3, <1>4, PoolFacts DEF Pg!Free

\* A connection table creation waits for comes free: the pool is never lent out
\* to tasks that all wait for a second connection (PGInterface.execute).
THEOREM PoolMovesHolds == BackendsSpec => []PoolMoves
<1>1. BackendsInv => PoolMoves
  BY NeverAllWait, PgAssumption DEF BackendsInv, PoolMoves
<1> QED BY <1>1, BackendsInvariance, PTL

\* However often the bot is killed, shut down and moved, and whatever the backend
\* answers, short of a failed read at startup the backend and signal-cli have
\* the newest version that was acknowledged, or a newer one (async_startup).
THEOREM AckedIsKeptHolds == BackendsSpec => []AckedIsKept
<1>1. BackendsInv => AckedIsKept
  BY DEF BackendsInv, KsInv, Fresh, AckedIsKept, Keystate!AckedIsKept
<1> QED BY <1>1, BackendsInvariance, PTL
==============================================================================
