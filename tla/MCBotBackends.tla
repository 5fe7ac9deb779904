--------------------------- MODULE MCBotBackends ---------------------------
(* BotBackends on one instance.  Its parts share no state, so each run of    *)
(* the model explores one of them, in focus, with the others at rest, and    *)
(* payments in two halves that share nothing either.                         *)
EXTENDS BotBackends

VARIABLE focus

CONSTANTS c1, r1, r2, x1, x2, q1, q2, q3

\* calls of send_payment share nothing: one stands for all
MCCalls == {c1}
MCReceipts == {r1, r2}
MCTxos == {x1, x2}

\* two queries of one interface meet on its table
MCInterfaces == {"ledger", "invoices"}
MCQueries == {q1, q2, q3}
MCOn == [q \in MCQueries |-> IF q = q3 THEN "ledger" ELSE "invoices"]

MCInit ==
  /\ focus \in {"calls", "receipts", "pool", "keystate"}
  /\ BackendsInit
  /\ focus = "pool" \/ tables = {}
  /\ focus = "receipts" \/ \A r \in Receipts : receipt[r] = "TransactionPending"

MCNext ==
  /\ UNCHANGED focus
  /\ \/ focus = "calls" /\ Paying /\ UNCHANGED <<receiptVars, split>>
     \/ focus = "receipts" /\ Paying /\ UNCHANGED sendVars
     \/ focus = "pool" /\ Querying
     \/ focus = "keystate" /\ BackingUp

MCSpec == MCInit /\ [][MCNext]_<<focus, backendVars>> /\ BackendsFairness
=============================================================================
