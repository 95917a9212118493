------------------------------ MODULE StatusPage ------------------------------
(***************************************************************************)
(* The public page: the document a cycle publishes, what the browser       *)
(* accepts of the one it fetches, and what it then tells a resident.       *)
(***************************************************************************)
EXTENDS Values

CONSTANT StaleAfter    \* STALE_AFTER_HOURS

ASSUME StaleAssumption == StaleAfter \in Nat

\* What may lie at the published address: nothing, a file cut short, a
\* document of another version, or the document of a cycle.
Absent == [form |-> "absent"]
Torn == [form |-> "torn"]
Foreign == [form |-> "foreign"]

\* The message of the cycle, if it sent one: a set of at most one.
build_snapshot(evaluated_at, assessment, messages, recent) ==
    [form |-> "document", evaluated_at |-> evaluated_at, level |-> assessment.level,
     available |-> Source \ assessment.down, degraded |-> assessment.down # {},
     alert |-> messages, recent |-> recent]

\* Everything but a whole document of the version the page reads is refused.
parseSnapshot(document) == document.form = "document" /\ document.level \in Level

ageInHours(document, time) == time - document.evaluated_at

freshness(document, time) ==
    IF ageInHours(document, time) > StaleAfter THEN "stale" ELSE "ok"

\* The fetch itself may fail, or the document be refused.
resolveViewState(fetched, document, time) ==
    IF fetched /\ parseSnapshot(document) THEN freshness(document, time) ELSE "error"

-----------------------------------------------------------------------------
is_incomplete(document) == document.degraded \/ document.available # Source

is_blind(document) == document.available = {} /\ document.level = "none"

\* The heading names a level, and says what qualifies it.
headingText(document, stale) ==
    IF is_blind(document)
    THEN [level |-> "unknown", incomplete |-> FALSE, last_known |-> FALSE]
    ELSE [level |-> document.level, incomplete |-> is_incomplete(document), last_known |-> stale]

\* The segment of the scale that is current, and how it is drawn: the colour
\* of the level, an outline, or a grey hatch.
buildScale(document, stale) ==
    IF is_blind(document) THEN [level |-> "unknown", drawn |-> "blank"]
    ELSE [level |-> document.level,
          drawn |-> IF stale THEN "outline"
                    ELSE IF is_incomplete(document) /\ document.level = "none" THEN "hatch"
                    ELSE "colour"]

\* Whether an alert is active is claimed of the present by a fresh and
\* complete cycle alone; the others tell what that cycle did.
alert_claim(document, stale) ==
    IF document.alert # {} THEN "shown"
    ELSE IF is_incomplete(document) \/ stale THEN "none_sent_by_this_cycle"
    ELSE "none_active"

renderStatus(document, stale) ==
    [heading |-> headingText(document, stale), scale |-> buildScale(document, stale),
     claim |-> alert_claim(document, stale),
     messages |-> document.alert, history |-> document.recent]

\* Nothing of the cycle and nothing of the history.
renderError ==
    [heading |-> [level |-> "unknown", incomplete |-> FALSE, last_known |-> FALSE],
     scale |-> [level |-> "unknown", drawn |-> "blank"],
     claim |-> "could_not_load", messages |-> {}, history |-> {}]

renderPage(fetched, document, time) ==
    LET state == resolveViewState(fetched, document, time)
    IN  IF state = "error" THEN renderError ELSE renderStatus(document, state = "stale")

\* A page that tells its reader, of now and without reserve, that there is no
\* risk.
IsAllClear(page) ==
    \/ page.heading = [level |-> "none", incomplete |-> FALSE, last_known |-> FALSE]
    \/ page.scale = [level |-> "none", drawn |-> "colour"]

=============================================================================
