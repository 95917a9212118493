# Formal verification of the Ferreñafe rain alert

The program watches two weather sources for the city of Ferreñafe, decides every six hours
whether the community must be warned of flooding, sends the warning once, tells an operator
when a source is down, and publishes a page residents can read. These modules model that behaviour in TLA+, check it with TLC on small
instances and prove the central properties with TLAPS for every instance.

Paths below are relative to the repository; `rain_alert/` stands for `src/rain_alert/`.

## The system

| Component | State it keeps | Operations | Interacts with |
|---|---|---|---|
| Domain values (`rain_alert/domain/values.py`, `entities.py`, `sources.py`) | none | level order, window overlap, available or unavailable | everything |
| SENAMHI page: parser and scraper (`adapters/senamhi_scraper.py`, `senamhi_classification.py`, `domain/hazards.py`) | none | read the page, keep the rows in force that can flood the city | called by the cycle, the relay's producer and its reader |
| SENAMHI relay (`adapters/senamhi_relay.py`, `s3_relay_reader.py`, `entrypoints/relay_push.py`, `ops/launchd`) | one S3 object: page, write time, claimed fetch time | producer: fetch, gate, put; reader: get, verify, check age, parse | stands in for the scraper in the cloud |
| Open-Meteo adapter (`adapters/open_meteo.py`) | none | fetch hourly samples from the current hour | called by the cycle |
| Risk evaluator (`domain/risk.py`) | none | five ordered branches over the two results | called by the cycle |
| Outage rule (`domain/outage.py`) | none | notices owed and next outage record | called by the cycle |
| Deduplication (`application/policies.py`, `domain/dedup.py`) | none | bounded read, then send or not | called by the cycle |
| Alert cycle (`application/run_alert_cycle.py`) | locals of one invocation | read sources, outage, decide, compose, send, record | all ports |
| DynamoDB store (`adapters/dynamodb_alert_repository.py`) | alert items, one outage item | range read, put, get, delete; expiry sweep | shared by every invocation |
| Local stores (`adapters/local/json_alert_repository.py`, `in_memory_alert_repository.py`) | a JSON file, a memoized copy | the same port | the command line |
| Composer (`adapters/agent_composer.py`, `agent_invoker.py`, `agentcore_invoker.py`, `agent_prompt.py`, `domain/template.py`, `domain/message_validation.py`) | none | agent draft, validation, fall back to the template | agent service, operator notices |
| Agent (`agent/`) | a result cached per request | history tool over the alerts table | reads the same table |
| Continuity (`domain/continuity.py`) | none | what the community was already told | cycle, composer; a copy in the agent |
| Run once, snapshot, publisher (`entrypoints/run_once.py`, `domain/snapshot.py`, `adapters/s3_snapshot_publisher.py`) | the published document | publish after the cycle, best effort | status page |
| Status page (`web/`) | what it fetched | fetch, decide fresh, stale or failed, render | the published document |
| Configuration (`adapters/ssm_config_repository.py`, `local/static_config_repository.py`) | a cached configuration | load, parse | cycle |
| Cloud stack (`infra/lib/scheduled-cycle-stack.ts`) | schedule, retries, alarms | start, retry, time out | the Lambda handler |

What makes it hard: the schedule delivers at least once and retries, the concurrency reservation
that would serialize invocations is absent from the deployed stack
(`infra/lib/scheduled-cycle-stack.ts:318-342`), an invocation may die between any two of its
effects, there is no transaction across a send and its record, windows slide from cycle to cycle
and official ones may be older or longer than the deduplication lookback, and what an operator
and a resident believe is the sum of messages sent over many cycles. A language model writes the text, so what a resident is told is
guarded by rules over words; the page is served from a document that outlives the cycle that wrote it.

What makes each component correct:

- evaluator: a broken source, a shorter forecast or a warning fewer never makes it more severe, and
  the warning named to the community is one that earned the verdict;
- outage rule: the notices add up to the truth; an outage keeps its opening time;
- deduplication and cycle: nothing is recorded unsent, no first alert or escalation is swallowed, no
  period is alerted twice at one level, each delivered alert keeps its record until it expires, a
  lasting storm or outage is eventually announced;
- relay: a page is read as current only while it is recent, or the operator is told; what was pushed
  parses; a page just written is not refused;
- scraper, snapshot and page: nobody is told that there is no risk unless a cycle of the last hours
  earned it; the page shows only alerts that were sent, and leaves none out;
- configuration: a cycle runs under one configuration, whole when read;
- composer, validation and continuity: whatever the agent writes, a message goes out, and what it says of
  amounts, of earlier alerts and in SENAMHI's name is true; a draft that keeps to the facts is not refused;
  the application and the agent's tool compute the same facts.

## The modules

| Module | Models | How |
|---|---|---|
| `Collections` | sums of lists, sorting of distinct elements | pure operators the other modules share |
| `Values` | `values.py`, `_union_window` | levels, windows over integer ticks |
| `Dedup` | `dedup.py`, `policies.py`, the store's range read | pure operators |
| `Outage` | `outage.py` | `evaluate_outage` as a function of the sources down, the record and the clock |
| `Verdicts` | the verdicts `risk.py` can give | which level and which window go with which sources down |
| `Risk` | `risk.py`, `hazards.py`, the in-force filter, `_warnings_behind` | pure operators, one per branch |
| `RiskMonitor` | the evaluator over a changing world | rows published and withdrawn, forecasts redrawn, sources broken and repaired, hours passing; each step ends in an evaluation |
| `AlertCycle` | `RunAlertCycle.execute` over the DynamoDB store, as the schedule runs it | one action per effect of an invocation (below) |
| `AlertLedger` | what the cycle promises, abstractly | alerts told, a ledger that remembers them |
| `AlertCycleLedger` | the refinement | `delivered`, `alerts`, `clock` as `told`, `ledger`, `time` |
| `Relay` | `relay_push.py`, the S3 object, `s3_relay_reader.py`, `senamhi_relay.py` | one action per step of a producer's run and of a cycle's read |
| `Scraper` | `parse_warnings_page` and `_parse_row` | a page as rows that are whole, short or garbled, marked in force or not |
| `Config` | `ssm_config_repository.py` | seven parameters, what each parser refuses |
| `StatusPage` | `snapshot.py`, `web/src/lib`, `index.astro` | the document, what the browser accepts, and the page it renders |
| `RunOnce` | `run_once.py`, the wiring, both stores, both publishers, on every host | one action per effect of an invocation (below) |
| `Continuity` | `continuity.py`, `_read_continuity`, and the agent's own copy in `agent/history.py` | both computations side by side, pure operators |
| `Validation` | `message_validation.py` | thirteen rules over a text of tokens |
| `Template` | `template.py`, the reasons | the template's message and its checklist, cut to a budget |
| `Composition` | `agent_composer.py`, the agent's request, the operator's notice | one authorized send (below) |
| `CollectionsProofs`, `VerdictProofs`, `MessageProofs` | lemmas about the operators | see Proofs |
| `AlertCycleProofs`, `RiskProofs`, `RelayProofs`, `RunOnceProofs`, `CompositionProofs` | theorems | see Proofs |
| `MCAlertCycle`, `MCRiskMonitor`, `MCRelay`, `MCRunOnce`, `MCComposition` | instances for TLC | definitions the configurations use |

`AlertCycle` composes `Dedup`, `Outage` and `Verdicts`. It does not carry the forecasts and rows that
produce a verdict: an invocation picks any verdict of `Verdicts`, and `VerdictIsForeseen`, checked and proved
of `RiskMonitor`, shows that the evaluator gives no other. The two halves meet there.

`RunOnce` composes `Scraper` (over `Risk`), `Dedup`, `Config` and `StatusPage`: here the page and the forecast
are carried, the evaluator runs on them, and the operator notices, which `AlertCycle` has, are left out.
`Composition` composes `Template`, `Validation`, `Continuity` and `Dedup`: it is what happens inside the
one step `Compose` of `AlertCycle`, which picks either composer freely.

### State and actions of AlertCycle

The table is `alerts` (a set of records; `Put` replaces the one with the same key) and `outage`
(`NoOutage` for the absent item). An invocation's locals are `stage`, `now`, `seen`, `plan` and
`composer`. Two history variables say what the outside world observed: `delivered`, the alerts the
notifier accepted, and `believed`, the sources an operator who reads every notice holds to be down.

| Action | Code |
|---|---|
| `Begin` | handler, clock, configuration, both fetches (`run_alert_cycle.py:203-209`) |
| `ReadOutage` | `get_active_outage`, `evaluate_outage` (211-212) |
| `SendNotice` | one operator notice (213-214) |
| `WriteOutage` | save or clear, only if the state changed (218-222) |
| `Decide` | range read and rule, dual-outage suppression (224-235) |
| `Compose` | agent or template text (236-240, `agent_composer.py:237-321`) |
| `SendAlert` | the notifier (241-242) |
| `RecordAlert` | `put_item` (243-261) |
| `Crash` | an exception or the timeout at any stage |
| `Expire` | the table's time-to-live sweep, some time after `expires_at` |
| `Tick` | time; bounded by the function's timeout, an active invocation sees at most one |

Reading the two sources and reading the clock is one step: no other invocation can observe or
change them. Evaluating the risk and reading the history is one step: the evaluation is pure.
The timeout of an invocation (120 s) is far below a tick, so no invocation stays active across two.
`Serialized` is TRUE when no two invocations overlap, which is what the schedule does when every
firing is delivered once, and what the reservation would enforce; FALSE is the deployed stack.

### State and actions of Relay

`object` is the single S3 object: the page, the stamp S3 put on it (`modified`), the producer's claim
(`claim`) and, for the properties only, when SENAMHI served the page (`taken`). `clock` is the clock S3
stamps with. `page` and `since` are what SENAMHI shows and since when. `now` is the clock of the cycle
about to read, `reading` what the provider made of the object.

| Action | Code |
|---|---|
| `Start` | the run reads its clock (`relay_push.py:126`), which may be wrong by a member of `Drifts` |
| `Fetch` | download and gate; a page that does not parse goes no further (127-145) |
| `PutObject` | one attempt of `put_object` reaching S3 (147-162), at most `MaxAttempts` of them |
| `Exit` | any exit code, or the computer switched off |
| `Begin` | the cycle reads its clock (`run_alert_cycle.py:205`), behind S3's by a member of `Lags` |
| `Read` | the object passes the reader's checks; the provider judges it (`senamhi_relay.py:231-274`) |
| `ReadMissing`, `ReadUnreadable` | `NoSuchKey`; any other failure of S3 or of the reader's checks |
| `Publish`, `Tick` | SENAMHI changes its page; time |

Nothing bounds the time between two steps of a run, which is the sleeping laptop. Several runs may be
under way: the scheduled one and one by hand. An attempt S3 acts on after the client gave up is the same
as a run that gives up later, so requests in flight need no state of their own. The producer and the
cycle share one parser and its verdict on a page depends on the page alone (the clock only selects the
rows in force), so `Parses` is one set: a producer running an older checkout than the deployed bundle is
outside the model. In the alert cycle's model every outcome of the relay appears as the official
source being available or not.

### State and actions of RunOnce

`host` says where and how the program runs: the Lambda function over the table and Parameter Store, or the
command line over one local file; whether invocations overlap; what the environment names. `params` is
Parameter Store, `store` the alerts and the outage on record, `document` what the page's address serves.
An invocation's locals are `stage`, `loads` (every configuration a load returned), `now`, `seen` (its
assessment, and for the properties the level an undamaged SENAMHI page would have given), `message` and
`view`, the state a local repository read once from its file. `delivered` is what the notifier accepted.

| Action | Code |
|---|---|
| `Wire` | load, choose composer and publisher, or fail (`wiring.py`, `cli.py`, `lambda_handler.py`) |
| `Evaluate` | second load, clock, both fetches, parse, evaluate (`run_alert_cycle.py:203-210`, `senamhi_scraper.py`) |
| `SaveOutage`, `Decide` | outage item; deduplication over what the invocation holds (218-235) |
| `Send`, `Record` | notifier; an item of the table, or the whole file replaced (`json_alert_repository.py`) |
| `PublishObject` | one `put_object` (`s3_snapshot_publisher.py`) |
| `OpenFile`, `WriteFile` | `write_text` cuts the file, then fills it (`json_file_snapshot_publisher.py`) |
| `PublishNothing` | no publisher, or any failure of the publication, guarded (`run_once.py`) |
| `Crash`, `Edit`, `Tick` | a death anywhere; an operator's edit, good or bad; time |

The page has no state: it is what loading it now would show, from a fetch that succeeds or not. The document
starts absent or foreign (an older schema), as on a first deployment. The three kinds of row outcome
follow the parser: a row that is short or garbled is skipped when unmarked, refuses the page when marked
in force, and too many of them refuse it whatever they are.

### State and actions of Composition

`history` is the table, `late` how many alerts landed meanwhile, `notices` what the operator was told.
`request`, `reason`, `message` are the application's; `tool` and `draft` the agent's; `known` (the alerts on
record when the application read them), `fault` (what first went wrong) and `disturbed` (a failed read) are history variables.

| Action | Code |
|---|---|
| `ReadHistory` | `read_continuity`, or the empty one when the read raises (`run_alert_cycle.py:164-193`) |
| `Invoke` | template, prompt, client; the latter two may raise (`agent_composer.py:237-240`) |
| `CallTool` | the tool's first call with any `n`; a later one gets the same answer (`agent/history.py:335-367`) |
| `Answer` | structured output, parsed, validated; it goes out or the template does |
| `InvokeFails`, `Timeout` | each failure the invoker or the parser names |
| `Notify` | one notice, which may itself fail, then the template's message |
| `RecordLate` | another invocation records an alert, of an earlier clock or a later |

The model behind the agent is a free choice. Its draft is a list of claims, each a meaning with a phrase, so
that the properties compare what a reader understands with the facts while the rules see only tokens. An honest
draft is one built from the request and the tool's answer as the prompt asks. A phrase in words, an ordinal, a noun
before its figure, two claims sharing a sentence or a line end are the cases the rules tell apart.

A token is what the rules distinguish: a figure, one with a point in it, a unit, a noun that implies one, a date, a time, a numeral, an
ordinal, the closed vocabulary of attributions, SENAMHI's name, a terminator, a line end. A string the operator
or SENAMHI supplied (a checklist item, a title, the city) is one token while it is whole, and stands for its own
tokens wherever it is not exempt. A figure with a point is a kind of its own (`Decimal`) because it ends a clause
for the rules (`CLAUSE_BOUNDARIES`), though not for a reader (`READER_BOUNDARIES`). The template and the data
the agent is shown always write amounts so. How a token is recognized (regular expressions, accents, look-alike letters) is below the model.

## The runs

| Run | Question | Result |
|---|---|---|
| `serialized` | one invocation at a time, dying anywhere but between a notice and the outage record: are the safety properties kept, and the ledger implemented? | holds |
| `overlapping` | overlapping invocations, dying anywhere: is the record still true and silence still justified? | holds |
| `persistent` | do a lasting storm and a lasting outage get announced whichever two of three invocations die? | holds |
| `risk_static` | is the evaluator monotone over its branches, and the named warning one that earned the verdict? | holds |
| `relay` | is a page read without a note recent, the page SENAMHI has long shown, and one that parses; is a late PUT trusted? | holds |
| `publish` | two cycles on every host, overlapping or not, dying anywhere, under damaged pages and an operator who edits: is what the page shows earned, sent and complete? | holds |
| `message` | one send, any history, an agent that writes anything, hangs or fails: does a message go out, true where no decimal point cuts a statement? | holds |
| `long_aviso` | is an overlapping record always found? | violated |
| `duplicate` | does every delivered alert keep a record when invocations overlap? | violated |
| `notice_crash` | is a source that is down always announced? | violated |
| `page_claim` | does the page say that no alert is active only when none is? | violated |
| `attribution` | does a clause that names SENAMHI say only a fact or a quotation? | violated |

### What the violations show

- `long_aviso`: the history read opens at the earlier of `now - lookback` and the new window's start
  (`policies.py:39`). An aviso alerted on and still running, whose window opened before both, is not
  read, and a forecast verdict inside it is sent as new. The store's specification
  (`openspec/changes/scheduled-cycle/specs/alert-persistence/spec.md:18-21`) promises the overlapping
  record is returned. `NoRepeatAlert` states what does hold: windows no longer than the lookback.
- `duplicate`: the comment at `scheduled-cycle-stack.ts:335` says an overlapping cycle writes a duplicate
  record; the two records share their key, so the second replaces the first and one delivery is left
  without a trace.
- `notice_crash`: `run_alert_cycle.py:213-222` sends the notices before it writes the record. A death in
  between after a recovery leaves the old record; if the source falls again before the next cycle,
  the record matches and the operator is never told. This is why `serialized` excludes that one stage
  from its crashes (`AfterNotify`); `persistent` and `overlapping` include it.
- `page_claim`: the document's `alert` is this cycle's own message, absent whenever deduplication kept it
  silent. The page reads its absence as `none_active` (`web/src/lib/page.ts:317`). So the cycle after an
  alert, over the same storm, publishes a page that shows the risk and says no alert is active while
  the first alert's window runs.
- `attribution`: a clause ends at any full stop (`_CLAUSE_BOUNDARIES`, `message_validation.py:545`), and the point of a
  decimal is one. `_senamhi_clauses` reads "El SENAMHI informa 12.4 mm de lluvia y ordena evacuar." as two clauses: the
  first ends at the 12 and is within the closed vocabulary, the second does not name SENAMHI and is not judged.
  The comment on the rule (`message_validation.py:937-942`) and decision 0002 allow a fact or a quotation, "Nothing else".
  With a comma for the point the same sentence is refused.

### What holds only under a condition

Some properties of `message` and `publish` carry a condition, and each condition marks where the code stops:

- `TemplateIsValid` asks for `Quotable` requests. A checklist item shorter than a quotation (12
  characters) with a figure in it, a short title, or a city or timezone with digits makes the template break
  the rules meant for the agent, and so does a checklist item or a timezone that names SENAMHI, which only an aviso's
  title may do at length. Nothing judges the template in the code, so such a message still goes out.
- `FiguresAreTheForecasts`, `ContinuityIsTrue` and `NothingIsInvented` say what holds of an `Unbroken` claim: one whose
  meaning a reader takes from a stretch that no decimal point cuts. The rules accept "Precipitación: 12.4 hoy y 70 mañana."
  with 70 the probability (past the point a figure is only held to be one of the forecast's, of whatever unit),
  "Precipitación: 12.4 y setenta.", and "La alerta continúa: hoy 12.4 y así por dos días.", and they accept what the run
  `attribution` finds. With a comma for the point each is refused, and so is "12.4 y 70 mm", whose unit follows its figure.
- `ContinuityIsTrue` also asks for `SentPromptly`. The read is bounded by the opening of windows, one day before
  the lookback; an alert sent more than a day after its window opened may be missed, and the days in a row
  with it: of that case no property says anything. A prior alert's date next to one of the request's own times is accepted (`_allowed_moments`), and the
  property allows it.
- `NothingIsInvented` also excepts a sentence that also quotes a whole title, which the rules accept as a quotation.
- `SameFacts` and `HonestDraftStands` ask for `Undisturbed`: no failed read, nothing recorded between the two
  reads, every item legible, and no more than the tool's `QUERY_LIMIT` of them; `SameFacts` also for no two
  alerts sent at one instant, which the two copies order differently. Outside of it an honest draft can be refused,
  and the template goes out. `HonestDraftStands` also asks for `Nameable` requests, with no short title and no
  figure in the city's name, and leaves out the length of the body: a draft may tell more than there is room for. The
  honest draft of the model tells the amount over 24 hours, the probability, the days in a row, the prior alerts, the
  window and the aviso's title; it leaves out the amount over 48 hours, the peak, the aviso's own window and the checklist.
- Both sides' dates are one operator (`date`): the tool fixes Lima's offset and the application uses the
  configured zone, so the two agree only where that zone is Lima's.
- `Presentable` assumes room (`RoomAssumption`): a request whose avisos alone overflow the body is left out, for which
  the template's message is too long and goes out all the same.
- `FallbackIsTold` takes the failure handler as it is once entered: a clock that raises inside it
  (`agent_composer.py:291-301`) would leave no notice at all, and is not modelled.
- `OutageIsAnnounced` is run under one constant sky: it covers a death between notice and record, and not a stale
  record overwriting a different one. `OperatorIsInformed` leaves that death out, as the run does. The skies TLC
  gives `OpenedAtKept` swap one source for the other; an outage that widens or narrows is covered by the theorem.
- `HistoryIsComplete` is about hosts where invocations do not overlap: two command lines at once rewrite
  each other's file.

### Bounds

A tick is 24 hours, so that the horizons of 24 and 48 hours and the lookback of 72 are 1, 2 and 3, the
smallest numbers in the same relations. The retention, 30 days in the code, is 4: one more than the
lookback is the tightest value the relation the code asserts allows, and it lets items expire within
the run (where expiry is not the question it is 6). Three invocations are what an alert, a later one and
an escalation need, and what a notice, a recovery and a relapse need. `MaxClock` is 4 where an item must
be able to expire, 5 where a window must outlive the lookback. One crash per run is enough to separate
any two effects; two crashes of three are used for liveness. The skies of `serialized` hold each level and
one outage of each source; `CalmSkies` hold every outage set where only notices matter. Symmetry over
`Runs` is used only where no liveness is checked.

For the evaluator the horizons are one and two samples and the forecasts every sequence of one or two
samples over values below, between and at the thresholds; the rows are one of each kind that the rules
separate (level, phenomenon, zone, window). A forecast of another length stands for another
`forecast_hours`.

In the relay's run the maximum age, the skew tolerance, the future tolerance and the producer's clock error
are one tick each, so that each can be exceeded by one and met exactly (the code's 3 h, 15 min and 60 s differ, and
the proofs do not depend on their values); the cycle's clock is at most one behind, and
`MaxClock` reaches their sum, 3, the age at which `UnnotedPageIsRecent` would first fail. Two runs are enough for
one to overtake another. Two pages parse and one does not; the two are interchangeable.

In `publish` a tick is 12 hours: the horizons are 2 and 4, a page is stale past 1 (12 hours in the code:
one late cycle), the lookback 2 or 1, and `MaxClock` 3 lets a document go stale and an alert leave
the history. Two invocations, one crash and one edit are what a page left behind, a file torn by one and
read under another, and a configuration that changes between two loads need. The four hosts are the two
deployments, each with overlap and without. The pages are: nothing in force, a warning beside a historic row
that cannot be read, an in-force row that cannot be read, a warning of no flood, and a page where most rows are
lost. `page_claim` needs no edit, no crash and one host. `MaxRecent` is 1, so that two alerts compete for it.

In `message` a date has three instants, the lookback is two dates, the model is shown one prior alert, the tool reads
two items: the smallest values at which a gap between days, a cut history and a limited read exist. Eight histories
hold each of them, an illegible item, ties of key, and alerts ahead of the clock. Four requests: both sources, the forecast alone, SENAMHI down,
Open-Meteo down. The body holds 80 tokens, which the longest checklist overflows. Drafts make one claim each, in every
phrasing, and the pairs in which one phrase can lend the other its unit, its quotation or its line; a longer draft is
judged clause by clause and adds no interaction. A draft of free claims is the same whatever the tool said, so it is
tried without the call.

### Fairness

In `Composition`, `Fairness` asks weak fairness of the application's own steps (`ReadHistory`, `Invoke`, `Notify`) and of
`Timeout`, the client's read timeout, which bounds the wait however the runtime behaves. The agent owes nothing.

In the alert cycle, `FairSpec` asks weak fairness of `Begin` and of each invocation's own steps, and of nothing else: the
schedule keeps firing, and an invocation that has not died runs on. Crashes, ticks and expiry owe
nothing. Liveness holds because crashes are bounded below the number of invocations, which is the claim:
some cycle gets through.

## Proofs

`AlertCycleProofs` proves of `Spec`, for every set of invocations, skies, avisos, horizons, lookback and
retention that satisfy the named assumptions:

- `TypeCorrect`: `[]TypeOK`.
- `RecordsAreTrue`: `[]RecordedWasDelivered`, and `NoAlertIsSwallowed`: `[]SilenceIsJustified`, with no
  assumption on overlap. `RecordedWasDelivered` is not inductive by itself: `DeliveryInv` adds that an
  invocation about to record has delivered exactly the alert it will record. That a silent cycle is
  justified follows because what silenced it was read from `alerts`, hence delivered, and deliveries
  are never taken back.
- `AuditTrail` and `NeverRepeated`, assuming `Serialized`. `LedgerInv` says that at most one invocation is
  active, that each invocation's clock and window are in the right relation, and that
  a delivered alert whose invocation ended is still in the table or past its retention, and that two
  delivered alerts share a key only when one is no longer owed. `Lookback < Retention` is needed for
  exactly one step: what the read may need has not expired.

It also proves `CycleImplementsLedger`: `Spec => Ledger!LedgerSpec` when serialized. Each action
maps to `Tell`, `Enter`, `Strike`, `Pass` or a stutter.

Last come the two promises of the outage record, when serialized. `OutageKeepsItsOpening`:
`OpenedAtKept`, by `OpeningCarried`: the record an invocation is about to write carries the opening of
the record it would replace, because nobody replaced it since it was read. `OperatorKeptInformed`: `OperatorIsInformed`, by
`NoticesLead` (read in order, the notices still owed lead from what the operator believes to what the cycle found
down) and `BeliefIsRecord` (between cycles the operator believes what the record says). It assumes that no invocation dies
between notices and record, as the run does; `notice_crash` shows what such a death does. `NoticesAddUp`
proves it of `evaluate_outage` alone, for any record, sources and time.

`CollectionsProofs` holds what the other proofs share: a finite set of integers has its extremes (`MaxIsTaken`, `MinIsTaken`, by the
well-founded order of its subsets), the total of a list runs through the totals of its parts (`PartialTotals`, `TotalOfConcat`),
a strict order of finitely many elements lists each once (`InOrder`), and a list of lists laid out flat holds each part
whole where the parts before it end (`FlattenedPlaces`, `RunsStay`, `FlattenConcat`). The library's induction theorems take an operator,
which the provers cannot instantiate; `FromZeroOn` is induction for a set of naturals, proved from the least that escapes.

`VerdictProofs` holds what the evaluator returns for any sources and thresholds: the union of windows is a
window that covers them (`UnionCovers`), and every verdict has a level and a window (`VerdictTyped`). `RiskProofs` uses it to prove of
`RiskMonitor`'s `Spec`, by the invariant that the verdict is the evaluation of the world:

- `NamedWarningEarned`: `[]NamedWarningEarnedIt`, since the branches look at nothing but the level and the title a reason
  cites, so a cited warning is one that matched (`CitedMatched`);
- `VerdictForeseen`: `[]VerdictIsForeseen`;
- `BrokenBuysNothing` and `MoreWarningNeverCalms`, assuming `OrderedThresholds`: `prepare_pct <= prepare_pct_degraded`. The
  static configuration keeps to it and the parser of the parameters does not ask for it. Without it the first property
  fails: with the combined probability above the degraded one, a forecast between the two and a qualifying warning in
  force warn of nothing, and losing the official source raises that to `prepare`, against `risk.py:185`.
- `CutForecastNeverWarns`: `TruncationNeverWarns`. A forecast cut short has no more rain in any horizon (a total of its
  first samples is no more than the total of all) and no higher probability, so no branch finds more in it.

`RelayProofs` proves of `Relay`'s `Spec` every property of the run `relay`, for every set of pages and
producers and every tolerance. None is inductive. `Provenance` adds where a page comes from: a page
held by a run or by the object parses, was fetched no earlier than its claim less the clock error, is
stamped no later than the clock, and, unless SENAMHI has changed its page since the fetch, is still the page shown.
`FetchCurrentWarnings` states what the provider's answer says of the object; the two together give
`RecentUnlessNoted`: the read is less than `MAX_AGE` after the stamp, the stamp at most `SKEW_TOLERANCE`
after the claim, and the claim at most the clock error after the fetch. The bound is tight. It is
also why the note matters: without it a laptop that slept between fetch and PUT gives an old page a new stamp,
and no test of the age can tell.

`RunOnceProofs` proves of `RunOnce`'s `Spec`, for every number of invocations, every set of pages, forecasts,
parameters and hosts, overlapping or not and wherever they die:

- `RunsUnderOneConfiguration`: `[]OneConfiguration`, by `Configured`: an invocation past its wiring has loaded exactly one.
- `ShowsOnlyWhatWasSent`: `[]ShownWasSent`. The page's alerts come from a document, the document's from a store or
  from a view of it, and a view may be older than the file it replaces; `Kept` says that all of them were delivered.
- `AllClearOnlyWhenEarned`: `[]AllClearIsEarned`. `ReadsTrue` says what an assessment owes to the SENAMHI page: without
  an outage its level is the level of the undamaged page, because an unread row in force refuses the whole page.
  `Authored` says that a document was written by an invocation that ended, from its own assessment. Together with
  `Shaped`, which types what the two need, and `Kept`, they are inductive; the step from a document to the
  page is the browser's own staleness rule.
- `TypeCorrect`: `[]TypeOK`, by `Typed`: a page is finite and its rows carry windows, hence so does every verdict; a
  sent alert carries a level because only an elevated cycle sends.
- `HistoryLeavesNoneOut`: `HistoryIsComplete`, by `HistoryInv`. On a host where invocations do not overlap, the
  one that is active holds what is on record (`OwnState`: its view of the file is the file), everything it delivered is the
  alert it will record (`SentItsOwn`), and no item has that alert's key (`KeyIsFree`): an alert with the same window start
  overlaps it, is read whatever the lookback, and silences one of no higher level (`DecidedKey`). So no write loses an alert.

`MessageProofs` holds what is true of one request, history or text: the continuity computed by the application and the one by
the agent's tool list the same alerts, newest first, and count the same days (`NewestFirst`, `DaysInARow`, `SameReading`);
the template's body fits whatever the checklist holds (`ChecklistFits`, `TemplateFits`); and a phrase with no
string of the system's in it stands whole, between the same neighbours, in what the rules read (`InsideFlat`, `InResidue`),
where the unit of its figure is the one it states or its clause implies (`ImpliedUnit`, `InItsClause`). Its last sections
read the template's own text by the rules: every figure, date and quotation in it is the request's (`BodyGiven`,
`TemplateCounts`), no string stands in it more often than it was supplied (`BodyNoMore`), and every line that names SENAMHI
is ended and says either a title or only what the vocabulary has (`Complete`, `RuleMet`, `TemplateAttributes`), which
together make all eleven rules pass (`TemplateObeys`). So do sentences of the request's own figures and instants, one
to a line, of which one at most quotes the aviso, but for the length of them all (`SentencesObey`).

`CompositionProofs` proves of `Composition`'s `Spec`, for every request, history and draft, every lookback, limit and length:

- `TypeCorrect`: `[]TypeOK`, by `Typed`, which also types the drafts an agent can have written.
- `FallbackAlwaysTold`: `[]FallbackIsTold`. `Told` adds what is true before the message exists: the reason and the fault
  are one, and nothing was told yet.
- `BothSidesAgree`: `[]SameFacts`. `Agreed` says that, undisturbed, the table the tool reads is the one the application
  read, and that the request's continuity is the reading of it; `SameReading` does the rest.
- `AlwaysPresentable`: `[]Presentable`. `Shown` says that what goes out is the template's message or a draft that broke
  no rule; the latter fits because the rules say so, the former by `TemplateFits`.
- `FiguresAreAlwaysTheForecasts`: `[]FiguresAreTheForecasts`. `Vouched` says that a draft is laid out claim by claim and that
  an accepted one broke no rule. A claim's phrase stands in the body (`LaidPlaces`), hence in the residue, where the figure of an
  `Unbroken` claim has the claim's unit (`MeasuredUnit`) whatever surrounds it, and a figure of that unit that breaks no rule
  is the forecast's. A figure that a decimal point parts from its unit has one unit or none there, and is some quantity of the forecast
  either way (`PointHeld`).
- `ContinuityIsAlwaysTrue`: `[]ContinuityIsTrue`. `Remembered` says that the request's history is the reading of `known` or empty;
  `ReadTells` that a reading counts days of alerts really sent and lists only alerts of the table. Days in words are seen
  only in the clause of the word that continues them, so this too is said of an `Unbroken` claim.
- `NothingIsEverInvented`: `[]NothingIsInvented`. `Named` keeps the request's titles and city those of the cycle. An invented
  `Unbroken` phrase says SENAMHI and then a word outside the vocabulary with no stop and no decimal point between, so the rule refuses it unless its clause
  quotes a title; on a line of its own it quotes none (`InventedWithQuote`).
- `TemplateIsAlwaysValid`: `[]TemplateIsValid`. `Shown` gives what the request holds, `Titled` that its city is the one
  the title has room for; the rest is `TemplateObeys`, for any quotable request.
- `HonestDraftAlwaysStands`: `[]HonestDraftStands`. `HonestlyMade` says that an honest draft is made of what the tool told, and `Agreed`
  that this is a reading of the validator's table. The tool may list the alerts of one instant in another order, and so
  show others; but what it shows was sent at an instant the validator knows (`SameTelling`), so every phrase
  is of the request (`HonestTexts`) and the rest is `SentencesObey`.

Assumptions: `RowsAssumption`, `ForecastsAssumption` (non-empty), `ThresholdsAssumption` (evaluator), `StaticAssumption`,
`PagesAssumption`, `ForecastsAssumption` (as long as any `forecast_hours`, which the provider enforces), `HostsAssumption`, `BoundsAssumption`, `StaleAssumption` (run once), `HistoryAssumption`, `LengthAssumption` (composition), `CompositionAssumption` (a table is finite and its keys distinct; a window opens no later than a lookback after its alert
is sent, as the comment on `_HISTORY_READ` in `run_alert_cycle.py` has it; the city's name is shorter than a quotation, as `message_validation.py:267` records, or no aviso's title), `RoomAssumption` (the evaluation leaves room in the body for
the heading and the line that says the checklist was cut, and the city leaves room in the title), `DraftsAssumption` (a phrase says what its claim means: a figure with its unit, an ordinal before the days),
`ClocksAssumption`, `PagesAssumption`, `NoneAssumption` (relay), `TimesAssumption` (positive horizons, `Lookback < Retention`), `HorizonsAssumption`,
`SkiesAssumption`, `AvisosAssumption`, `ModesAssumption`. TLC evaluates each of them in the passing runs.

Only model-checked: liveness (`StormIsAnnounced`, `OutageIsAnnounced`, `MessageGoesOut`), which is out of the prover's reach
with ENABLED. Every other property of a passing run is a theorem.

## What is not modelled

- Serialization (`domain/serialization.py`): a pure round trip between records and documents.
- Characters: sanitizing of source text, spelling, accents, look-alike letters, the expressions that recognize a
  figure or a date, the keyword matching that classifies a title, HTML and JSON parsing (a source is readable
  or not, a row whole, short or garbled), wording, English rendering for operators. A stop inside a
  city's name ends no clause in the model, as a string of the system's is one token.
- HTTP transport, the notifier and the contacts: pure I/O; their failures are the model's crashes and
  unavailable sources.
- The command line's preview and arguments, the scripts, the agent's generated deployment code, static grants.
- The alarms of the stack: how CloudWatch fills and evaluates missing periods is not in the repository.
- A tab left open: the page is what loading it now shows, and nothing in the code reloads it.
- A lookback beyond the retention, which the parameter parser accepts: the models assume `Lookback < Retention`,
  as the comments on the two do.
- The trend and an escalation claimed in words are checked by no rule of the code, so no property holds of them.

## Order of work

The modules were built core first: the cycle and its ledger, the evaluator, the relay, the run from its
entry point to the page, the message; then the proofs, in the same order. What would extend them: the
scraper's dates and years, the alarms of the stack once their evaluation is in the repository, and the
preview of the command line.
