------------------------------- MODULE Outage -------------------------------
(***************************************************************************)
(* The outage rule: which operator notices a cycle owes, and the outage    *)
(* record it leaves, from the record it read and the sources down now.     *)
(***************************************************************************)
EXTENDS Values, Sequences

NoticeKind == {"source_unavailable", "sources_recovered"}

OperatorNotice == [kind : NoticeKind, sources : SUBSET Source]

Unavailable(sources) == [kind |-> "source_unavailable", sources |-> sources]
Recovered(sources) == [kind |-> "sources_recovered", sources |-> sources]

\* notified is whether notified_at is set; opened is the tick of opened_at.
OutageRecord(sources, opened, notified) ==
    [sources |-> sources, opened |-> opened, notified |-> notified]

\* The absence of an active outage: no source, nothing owed.
NoOutage == OutageRecord({}, 0, FALSE)

ActiveOutage ==
    {NoOutage} \cup [sources : (SUBSET Source) \ {{}}, opened : Nat, notified : BOOLEAN]

OutageDecision(notices, next, changed) ==
    [notices |-> notices, next |-> next, changed |-> changed]

\* Mutant: every change of the set reopens the outage.
Reopened(active, now) == now

Opened(active, now) == IF active = NoOutage THEN now ELSE active.opened

\* Mutant: recoveries go unsaid.
no_notices(recovered) == <<>>

recovery_notices(recovered) == IF recovered = {} THEN <<>> ELSE <<Recovered(recovered)>>

evaluate_outage(down, active, now) ==
    LET recovered == active.sources \ down
        newly_down == down \ active.sources
        announced == IF recovered = {} THEN newly_down ELSE down
        recovery == recovery_notices(recovered)
    IN  IF down = {}
        THEN OutageDecision(recovery, NoOutage, active # NoOutage)
        ELSE IF recovered = {} /\ newly_down = {}
        THEN IF active.notified
             THEN OutageDecision(<<>>, active, FALSE)
             ELSE OutageDecision(<<Unavailable(down)>>,
                                 [active EXCEPT !.notified = TRUE], TRUE)
        ELSE OutageDecision(Append(recovery, Unavailable(announced)),
                            OutageRecord(down, Opened(active, now), TRUE), TRUE)

\* What an operator who reads the notices in order believes to be down.
Believe(believed, notice) ==
    IF notice.kind = "source_unavailable"
    THEN believed \cup notice.sources
    ELSE believed \ notice.sources

=============================================================================
