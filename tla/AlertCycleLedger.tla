-------------------------- MODULE AlertCycleLedger --------------------------
(***************************************************************************)
(* The alert cycle keeps the ledger's promise: what the notifier accepted  *)
(* is what was told, and the table's alert items are the ledger.           *)
(***************************************************************************)
EXTENDS AlertCycle

Ledger == INSTANCE AlertLedger
            WITH told <- delivered, ledger <- alerts, time <- clock

\* Run one at a time, the cycle implements the ledger: an item put never
\* replaces one still owed, an alert is told only over what is remembered,
\* whichever invocations die (RunAlertCycle.execute over the table).
ImplementsLedger == Ledger!LedgerSpec

=============================================================================
