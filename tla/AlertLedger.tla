----------------------------- MODULE AlertLedger -----------------------------
(***************************************************************************)
(* What the alert cycle promises the community, without a word of how: a   *)
(* growing set of alerts told, and a ledger that remembers enough of them. *)
(*                                                                         *)
(* Nothing enters the ledger untold, nothing is struck from it before its  *)
(* retention has passed, and while the ledger remembers an alert whose     *)
(* period still runs only a higher level is told for it.                   *)
(***************************************************************************)
EXTENDS Values

CONSTANTS Lookback, Retention

VARIABLES told, ledger, time

ledgerVars == <<told, ledger, time>>

Remembered(d, a) ==
    /\ Duration(d.window) <= Lookback
    /\ overlaps(d.window, a.window)
    /\ a.at < d.window.end

LedgerInit == told = {} /\ ledger = {} /\ time = 0

\* a is whatever alert this step adds to told.
Tell ==
    \E a \in told' :
        /\ told' = told \cup {a}
        /\ a.level # "none"
        /\ \A d \in ledger : Remembered(d, a) => is_escalation(d.level, a.level)
        /\ UNCHANGED <<ledger, time>>

Enter ==
    \E a \in told :
        /\ ledger' = ledger \cup {a}
        /\ UNCHANGED <<told, time>>

Strike ==
    \E a \in ledger :
        /\ a.at + Retention <= time
        /\ ledger' = ledger \ {a}
        /\ UNCHANGED <<told, time>>

Pass ==
    /\ time' = time + 1
    /\ UNCHANGED <<told, ledger>>

LedgerSpec == LedgerInit /\ [][Tell \/ Enter \/ Strike \/ Pass]_ledgerVars

=============================================================================
