------------------------------ MODULE Payments ------------------------------
(***************************************************************************)
(* Payments of a bot (class FsrPayBot of src/forest/core.py, class Mobster *)
(* of src/forest/payments_monitor.py) through the full-service wallet:     *)
(* send_payment, for callers that send again after None; the receipts of   *)
(* incoming payments, with the hourly price; the splitting of txos.  Every *)
(* await is a step, and the wallet, modelled from how it is used, may      *)
(* answer with an error, or not at all, after it has done what it was      *)
(* asked.  Nothing in the repository calls send_payment: its callers are   *)
(* assumed.  Left out: amounts, fees, gift codes, accounts, comments.      *)
(***************************************************************************)
EXTENDS Naturals

CONSTANTS
  Calls,      \* callers of send_payment
  MaxPolls,   \* confirm_tx_timeout, when it is not 0
  MaxTries,   \* bound: calls a caller makes
  Receipts,   \* incoming payments
  Txos,       \* unspent outputs
  Quantity    \* transactions split_txos_slow has to make

ASSUME PaymentsAssumption ==
  /\ MaxPolls \in Nat \ {0} /\ MaxTries \in Nat \ {0}
  /\ Quantity \in Nat

VARIABLES
  call,       \* send_payment: where each call is, if it confirms, polls left, status
  tx,         \* the wallet: what has become of the transaction of each call
  logged,     \* and whether it keeps a log of it
  note,       \* sendPaymentNotification: "none", "sent", "answered", or "refused" by an error
  landed,     \* history: transactions of each caller that the wallet took
  hidden,     \* history: those whose caller was not told so
  tries,      \* calls made by each caller
  receipt,    \* the wallet: what it says of each receipt
  reply,      \* handle_payment: "none", "polling", "pricing", "thanks", "sorry", "raised"
  rate,       \* rate_cache holds a price of this hour
  split       \* split_txos_slow: stage, the list it takes txos from, transactions

sendVars == <<call, tx, logged, note, landed, hidden, tries>>
receiptVars == <<receipt, reply, rate>>
vars == <<sendVars, receiptVars, split>>

Stages == {"idle", "address", "build", "submit", "receipts", "confirm", "notice", "over"}
\* "None": send_payment returned None; "nolog": a status that was not found
Statuses == {"none", "None", "nolog", "tx_status_pending", "tx_status_succeeded", "tx_status_failed", "raised"}
ReceiptStatuses == {"TransactionPending", "TransactionSuccess", "other", "error"}

TypeOK ==
  /\ call \in [Calls -> [stage : Stages, confirm : BOOLEAN, polls : 0..MaxPolls, status : Statuses]]
  /\ tx \in [Calls -> {"none", "pending", "succeeded", "failed"}]
  /\ logged \in [Calls -> BOOLEAN]
  /\ note \in [Calls -> {"none", "sent", "answered", "refused"}]
  /\ landed \in [Calls -> 0..MaxTries] /\ hidden \in [Calls -> 0..MaxTries]
  /\ tries \in [Calls -> 0..MaxTries]
  /\ receipt \in [Receipts -> ReceiptStatuses]
  /\ reply \in [Receipts -> {"none", "polling", "pricing", "thanks", "sorry", "raised"}]
  /\ rate \in BOOLEAN
  /\ split \in [stage : {"idle", "insufficient", "building", "reported", "raised"}, left : SUBSET Txos, built : 0..Quantity]

Init ==
  /\ call = [c \in Calls |-> [stage |-> "idle", confirm |-> FALSE, polls |-> 0, status |-> "none"]]
  /\ tx = [c \in Calls |-> "none"] /\ logged = [c \in Calls |-> FALSE]
  /\ note = [c \in Calls |-> "none"]
  /\ landed = [c \in Calls |-> 0] /\ hidden = [c \in Calls |-> 0]
  /\ tries = [c \in Calls |-> 0]
  /\ receipt \in [Receipts -> ReceiptStatuses]
  /\ reply = [r \in Receipts |-> "none"]
  /\ rate = FALSE
  /\ split = [stage |-> "idle", left |-> {}, built |-> 0]

------------------------------------------------------------------------------
Go(c, stage) == call' = [call EXCEPT ![c] = [@ EXCEPT !.stage = stage]]
End(c, status) == call' = [call EXCEPT ![c] = [@ EXCEPT !.stage = "over", !.status = status]]

\* a call, or, as a caller is assumed to do, the call again after None
Send(c, confirm) ==
  /\ call[c].stage = "idle" \/ (call[c].stage = "over" /\ call[c].status = "None")
  /\ tries[c] < MaxTries /\ tries' = [tries EXCEPT ![c] = @ + 1]
  /\ call' = [call EXCEPT ![c] = [stage |-> "address", confirm |-> confirm,
                                  polls |-> IF confirm THEN MaxPolls ELSE 0, status |-> "none"]]
  /\ tx' = [tx EXCEPT ![c] = "none"] /\ logged' = [logged EXCEPT ![c] = FALSE]
  /\ note' = [note EXCEPT ![c] = "none"]
  /\ UNCHANGED <<landed, hidden, receiptVars, split>>

\* get_signalpay_address, get_account; no address is a UserError
Address(c) ==
  /\ call[c].stage = "address"
  /\ (Go(c, "build") \/ End(c, "raised"))
  /\ UNCHANGED <<tx, logged, note, landed, hidden, tries, receiptVars, split>>

\* build_transaction; an error in the answer is a ValueError
Build(c) ==
  /\ call[c].stage = "build"
  /\ (Go(c, "submit") \/ End(c, "raised"))
  /\ UNCHANGED <<tx, logged, note, landed, hidden, tries, receiptVars, split>>

\* the wallet takes the transaction, and logs it if the account is named
Lands(c, told) ==
  /\ tx' = [tx EXCEPT ![c] = "pending"]
  /\ logged' = [logged EXCEPT ![c] = call[c].confirm]
  /\ landed' = [landed EXCEPT ![c] = @ + 1]
  /\ hidden' = IF told THEN hidden ELSE [hidden EXCEPT ![c] = @ + 1]

\* submit_transaction: a result; an InternalError or no answer, an exception of
\* the request, another error, whatever the wallet has done.  Without a timeout
\* and without a tx id, nothing is submitted, as for an InternalError.
Submit(c) ==
  /\ call[c].stage = "submit"
  /\ \/ Lands(c, TRUE) /\ Go(c, "receipts")
     \/ /\ Lands(c, FALSE) \/ UNCHANGED <<tx, logged, landed, hidden>>
        /\ End(c, "None") \/ End(c, "raised") \/ End(c, "tx_status_failed")
  /\ UNCHANGED <<note, tries, receiptVars, split>>

\* bug: without a receipt, send_payment returns None
MakeReceiptsOrNone(c) ==
  /\ call[c].stage = "receipts"
  /\ \/ /\ note' = [note EXCEPT ![c] = "sent"]
        /\ Go(c, IF call[c].confirm THEN "confirm" ELSE "notice")
     \/ End(c, "None") /\ UNCHANGED note
  /\ UNCHANGED <<tx, logged, landed, hidden, tries, receiptVars, split>>

\* create_receiver_receipts, then the task that sends the notification: before
\* any confirmation.  An answer without a result is a KeyError.
MakeReceipts(c) ==
  /\ call[c].stage = "receipts"
  /\ \/ /\ note' = [note EXCEPT ![c] = "sent"]
        /\ Go(c, IF call[c].confirm THEN "confirm" ELSE "notice")
        /\ UNCHANGED hidden
     \/ End(c, "raised") /\ hidden' = [hidden EXCEPT ![c] = @ + 1] /\ UNCHANGED note
  /\ UNCHANGED <<tx, logged, landed, tries, receiptVars, split>>

LogStatus(c) ==
  CASE ~logged[c] -> "nolog"
    [] tx[c] = "pending" -> "tx_status_pending"
    [] tx[c] = "succeeded" -> "tx_status_succeeded"
    [] OTHER -> "tx_status_failed"

\* one round of confirm_tx_timeout; without a log in the answer there is no status
Polled(c, status) ==
  [call[c] EXCEPT !.polls = call[c].polls - 1, !.status = status,
                  !.stage = IF status \in {"tx_status_succeeded", "tx_status_failed"} \/ call[c].polls = 1
                            THEN "notice" ELSE "confirm"]
\* bug: a transaction that is pending when the time is up has failed
PollOrFailed(c) ==
  /\ call[c].stage = "confirm"
  /\ \E status \in {LogStatus(c), "nolog"} :
       call' = [call EXCEPT ![c] =
         [Polled(c, status) EXCEPT !.status = IF @ = "tx_status_pending" /\ call[c].polls = 1
                                              THEN "tx_status_failed" ELSE @]]
  /\ UNCHANGED <<tx, logged, note, landed, hidden, tries, receiptVars, split>>

\* bug: without a limit
PollForEver(c) ==
  /\ call[c].stage = "confirm"
  /\ \E status \in {LogStatus(c), "nolog"} :
       call' = [call EXCEPT ![c] =
         [Polled(c, status) EXCEPT !.polls = call[c].polls,
            !.stage = IF status \in {"tx_status_succeeded", "tx_status_failed"} THEN "notice" ELSE "confirm"]]
  /\ UNCHANGED <<tx, logged, note, landed, hidden, tries, receiptVars, split>>

\* the request for the log may raise; the notification is on its way all the same
Poll(c) ==
  /\ call[c].stage = "confirm"
  /\ \/ /\ \E status \in {LogStatus(c), "nolog"} : call' = [call EXCEPT ![c] = Polled(c, status)]
        /\ UNCHANGED hidden
     \/ End(c, "raised") /\ hidden' = [hidden EXCEPT ![c] = @ + 1]
  /\ UNCHANGED <<tx, logged, note, landed, tries, receiptVars, split>>

\* await resp_future: the status is put on an error, too
Return(c) ==
  /\ call[c].stage = "notice" /\ note[c] \in {"answered", "refused"}
  /\ Go(c, "over")
  /\ UNCHANGED <<tx, logged, note, landed, hidden, tries, receiptVars, split>>

\* signal-cli answers the notification; the ledger settles a transaction
Notified(c) ==
  /\ note[c] = "sent"
  /\ \E answer \in {"answered", "refused"} : note' = [note EXCEPT ![c] = answer]
  /\ UNCHANGED <<call, tx, logged, landed, hidden, tries, receiptVars, split>>
Settle(c) ==
  /\ tx[c] = "pending"
  /\ \E outcome \in {"succeeded", "failed"} : tx' = [tx EXCEPT ![c] = outcome]
  /\ UNCHANGED <<call, logged, note, landed, hidden, tries, receiptVars, split>>

------------------------------------------------------------------------------
\* handle_payment of an incoming payment; get_receipt_amount_pmob polls for as
\* long as the wallet says it is pending
Pay(r) ==
  /\ reply[r] = "none" /\ reply' = [reply EXCEPT ![r] = "polling"]
  /\ UNCHANGED <<sendVars, receipt, rate, split>>
\* a status that comes without a txo ("other") is a TypeError
CheckReceipt(r) ==
  /\ reply[r] = "polling" /\ receipt[r] # "TransactionPending"
  /\ reply' = [reply EXCEPT ![r] = CASE receipt[r] = "TransactionSuccess" -> "pricing"
                                     [] receipt[r] = "error" -> "sorry"
                                     [] OTHER -> "raised"]
  /\ UNCHANGED <<sendVars, receipt, rate, split>>
\* payment_response, get_rate: the price of this hour, a new one, one made up
\* after a failure; an answer without "data" is an AttributeError, not caught
Price(r) ==
  /\ reply[r] = "pricing"
  /\ \/ rate' = TRUE /\ reply' = [reply EXCEPT ![r] = "thanks"]
     \/ ~rate /\ reply' = [reply EXCEPT ![r] = "raised"] /\ UNCHANGED rate
  /\ UNCHANGED <<sendVars, receipt, split>>
Hour ==
  /\ rate /\ rate' = FALSE
  /\ UNCHANGED <<sendVars, receipt, reply, split>>
SettleReceipt(r) ==
  /\ reply[r] = "polling" /\ receipt[r] = "TransactionPending"
  /\ \E s \in {"TransactionSuccess", "other", "error"} : receipt' = [receipt EXCEPT ![r] = s]
  /\ UNCHANGED <<sendVars, reply, rate, split>>

\* split_txos_slow: get_utxos, then a transaction for each txo taken from the
\* list.  The result of a submission is looked for under "results", where it
\* never is.  When the list is used up, it is made anew; no txo is an IndexError.
Counted(submitted) == 0
SplitStart ==
  /\ split.stage = "idle"
  /\ \/ split' = [split EXCEPT !.stage = "insufficient"]
     \/ split' = [split EXCEPT !.stage = "building", !.left = Txos]
  /\ UNCHANGED <<sendVars, receiptVars>>
SplitOne ==
  /\ split.stage = "building" /\ split.built < Quantity
  /\ \E utxos \in SUBSET Txos, submitted \in {0, 1} :
       LET list == IF split.left = {} THEN utxos ELSE split.left
       IN split' = IF list = {} THEN [split EXCEPT !.stage = "raised"]
                   ELSE [split EXCEPT !.left = list \ {CHOOSE x \in list : TRUE},
                                      !.built = @ + Counted(submitted)]
  /\ UNCHANGED <<sendVars, receiptVars>>
SplitReport ==
  /\ split.stage = "building" /\ split.built >= Quantity
  /\ split' = [split EXCEPT !.stage = "reported"]
  /\ UNCHANGED <<sendVars, receiptVars>>

\* what a call of send_payment does once it is made
Steps(c) ==
  \/ Address(c) \/ Build(c) \/ Submit(c) \/ MakeReceipts(c)
  \/ Poll(c) \/ Return(c) \/ Notified(c)

Next ==
  \/ \E c \in Calls : (\E confirm \in BOOLEAN : Send(c, confirm)) \/ Steps(c) \/ Settle(c)
  \/ \E r \in Receipts : Pay(r) \/ CheckReceipt(r) \/ Price(r) \/ SettleReceipt(r)
  \/ Hour \/ SplitStart \/ SplitOne \/ SplitReport

\* The tasks of the bot go on, the wallet and signal-cli answer, and the ledger
\* settles what it was given; nobody has to send, pay or split.
Fairness ==
  /\ \A c \in Calls : WF_sendVars(Steps(c))
  /\ \A r \in Receipts : WF_receiptVars(CheckReceipt(r) \/ Price(r) \/ SettleReceipt(r))
Spec == Init /\ [][Next]_vars /\ Fairness

------------------------------------------------------------------------------
\* The transactions that the wallet took for one caller, who calls again only
\* after None, are at most one more than those it was not told of: a second one
\* needs an answer to a submission that was lost or an error (send_payment).
TakenOnce == \A c \in Calls : landed[c] <= hidden[c] + 1

\* The log was asked for at least once.
Confirmed(c) == call[c].confirm /\ call[c].polls < MaxPolls

\* The status that send_payment returns is true of the ledger: a success is
\* settled, and signal-cli has answered the notification, with an error or not;
\* a failure that the log told never covers a transaction that may still
\* settle.  The failure put on an error of submit_transaction promises nothing.
VerdictIsTrue ==
  \A c \in Calls : call[c].stage = "over" =>
    /\ call[c].status = "tx_status_succeeded" => tx[c] = "succeeded" /\ note[c] \notin {"none", "sent"}
    /\ call[c].status = "tx_status_failed" => tx[c] \in {"none", "failed"} \/ ~Confirmed(c)

\* With a confirm_tx_timeout the recipient is notified when the transaction is
\* complete or the time is up (the docstring of send_payment).
NoticeAfterConfirmation ==
  \A c \in Calls : call[c].confirm /\ note[c] # "none" =>
    tx[c] \in {"succeeded", "failed"} \/ call[c].polls = 0

\* Every send_payment ends, whatever the ledger does, and every incoming
\* payment that is handled gets its answer or an exception.
PaymentsEnd ==
  /\ \A c \in Calls : call[c].stage \notin {"idle", "over"} ~> call[c].stage = "over"
  /\ \A r \in Receipts : reply[r] = "polling" ~> reply[r] \in {"thanks", "sorry", "raised"}
==============================================================================
