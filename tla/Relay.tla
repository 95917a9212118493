------------------------------- MODULE Relay -------------------------------
(***************************************************************************)
(* The relay: a producer on the operator's computer fetches the SENAMHI    *)
(* page and puts it into one S3 object; the cycle reads that object and    *)
(* decides from its timestamps whether to trust it.                        *)
(*                                                                         *)
(* clock is the time S3 stamps objects with.  A producer's own clock is    *)
(* off by one of Drifts, the cycle's clock behind by one of Lags, and a    *)
(* producer may sleep for any time between two of its steps.               *)
(***************************************************************************)
EXTENDS Integers

CONSTANTS
    Pages,            \* what SENAMHI may serve
    Parses,           \* the pages parse_warnings_page accepts
    Producers,        \* computers, or a scheduled and a manual run
    Drifts, MaxDrift, \* how far ahead a producer's clock may be, and at most
    Lags,             \* how far behind the cycle's clock may be
    MaxAge,           \* MAX_AGE
    SkewTolerance,    \* SKEW_TOLERANCE
    FutureTolerance,  \* FUTURE_TOLERANCE
    MaxAttempts,      \* TOTAL_MAX_ATTEMPTS
    MaxClock,         \* bound: ticks
    None              \* no object, no cycle, no reading, no reason, no age

ASSUME ClocksAssumption ==
    /\ Drifts \subseteq Int /\ Lags \subseteq Int /\ MaxDrift \in Int
    /\ \A d \in Drifts : d <= MaxDrift
    /\ {MaxAge, SkewTolerance, FutureTolerance, MaxClock} \subseteq Nat
    /\ MaxAttempts \in Nat \ {0}
ASSUME PagesAssumption == Parses \subseteq Pages /\ Pages # {}

Reason == {"relay_missing", "relay_unreadable", "stale_relay", "page_refused"}

\* page is the body, taken when SENAMHI served it, claim the metadata's
\* fetched-at and modified S3's LastModified.
RelayObject == [page : Pages, taken : Nat, claim : Int, modified : Nat]

Idle == [stage |-> "idle"]
Started(moment) == [stage |-> "started", moment |-> moment]
Gated(moment, body, taken, tries) ==
    [stage |-> "gated", moment |-> moment, page |-> body, taken |-> taken, tries |-> tries]

Producer ==
    {Idle}
        \cup [stage : {"started"}, moment : Int]
        \cup [stage : {"gated"}, moment : Int, page : Pages, taken : Nat, tries : Nat]

SourceResult == [reason : Reason \cup {None}, age : Nat \cup {None}, noted : BOOLEAN]

Unavailable(reason, age) == [reason |-> reason, age |-> age, noted |-> FALSE]
Available(age, noted) == [reason |-> None, age |-> age, noted |-> noted]

ASSUME NoneAssumption ==
    /\ None \notin Int /\ None \notin Reason
    /\ None \notin RelayObject /\ None \notin SourceResult

-----------------------------------------------------------------------------
VARIABLES
    clock,
    page, since,     \* what SENAMHI shows, and since when
    producer,        \* each producer's run, and whatever of it is on its way to S3
    object,          \* the relay object
    now,             \* the clock of the cycle about to read it
    reading          \* what the last cycle made of it

vars == <<clock, page, since, producer, object, now, reading>>

-----------------------------------------------------------------------------
(* The provider's judgement of one object. *)

\* Mutant: the clamp at zero is lost.
raw_age(modified, t) == t - modified

relay_age(modified, t) == IF t >= modified THEN t - modified ELSE 0

\* Mutant: exactly the maximum age passes.
is_stale_after(age) == age > MaxAge

is_stale(age) == age >= MaxAge

skew_note(claim, modified) ==
    LET skew == claim - modified
    IN  skew > SkewTolerance \/ -skew > SkewTolerance

\* Mutant: no timestamp may lie ahead of the cycle's clock.
any_ahead(modified, t) == modified > t

is_ahead(modified, t) == modified - t > FutureTolerance

\* The outcome of parse_warnings_page: a list of warnings, or a refusal.
parse_warnings_page(p) == p \in Parses

fetch_current_warnings(o, t) ==
    LET age == relay_age(o.modified, t)
    IN  IF is_ahead(o.modified, t) THEN Unavailable("relay_unreadable", None)
        ELSE IF is_stale(age) THEN Unavailable("stale_relay", age)
        ELSE IF ~parse_warnings_page(o.page) THEN Unavailable("page_refused", age)
        ELSE Available(age, skew_note(o.claim, o.modified))

-----------------------------------------------------------------------------
Init ==
    /\ clock = 0
    /\ page \in Pages
    /\ since = 0
    /\ producer = [p \in Producers |-> Idle]
    /\ object = None
    /\ now = None
    /\ reading = None

\* A run starts: it reads its clock before it fetches.
Start(p) ==
    /\ producer[p] = Idle
    /\ \E d \in Drifts : producer' = [producer EXCEPT ![p] = Started(clock + d)]
    /\ UNCHANGED <<clock, page, since, object, now, reading>>

\* Mutant: the page is pushed as it came.
FetchUngated(p) ==
    /\ producer[p].stage = "started"
    /\ producer' = [producer EXCEPT ![p] = Gated(producer[p].moment, page, clock, 0)]
    /\ UNCHANGED <<clock, page, since, object, now, reading>>

\* SENAMHI answers, and the page parses.
Fetch(p) ==
    /\ producer[p].stage = "started"
    /\ parse_warnings_page(page)
    /\ producer' = [producer EXCEPT ![p] = Gated(producer[p].moment, page, clock, 0)]
    /\ UNCHANGED <<clock, page, since, object, now, reading>>

\* Mutant: fetched-at is when the upload starts.
upload_time(run) == clock

fetched_at(run) == run.moment

\* An attempt of put_object reaches S3, which replaces the object and stamps
\* it.  The client retries an attempt it believes lost, and one that reaches
\* S3 after the client gave up is a run that ends later.
PutObject(p) ==
    LET run == producer[p]
    IN  /\ run.stage = "gated"
        /\ run.tries < MaxAttempts
        /\ object' = [page |-> run.page, taken |-> run.taken,
                      claim |-> fetched_at(run), modified |-> clock]
        /\ producer' = [producer EXCEPT
              ![p] = Gated(run.moment, run.page, run.taken, run.tries + 1)]
        /\ UNCHANGED <<clock, page, since, now, reading>>

\* The run ends, with whichever exit code: pushed, fetch failed, page refused
\* or too large, write failed, or the computer switched off.
Exit(p) ==
    /\ producer[p] # Idle
    /\ producer' = [producer EXCEPT ![p] = Idle]
    /\ UNCHANGED <<clock, page, since, object, now, reading>>

\* A cycle reads its clock, once.
Begin ==
    /\ now = None
    /\ \E lag \in Lags : now' = clock - lag
    /\ reading' = None
    /\ UNCHANGED <<clock, page, since, producer, object>>

Observe(result) ==
    /\ reading' = result
    /\ now' = None
    /\ UNCHANGED <<clock, page, since, producer, object>>

\* The object arrives whole.
Read ==
    /\ now # None /\ object # None
    /\ Observe(fetch_current_warnings(object, now))

\* S3 says NoSuchKey.
ReadMissing ==
    /\ now # None /\ object = None
    /\ Observe(Unavailable("relay_missing", None))

\* Any other answer, or an object that fails the reader's checks.
ReadUnreadable ==
    /\ now # None
    /\ Observe(Unavailable("relay_unreadable", None))

Publish(p) ==
    /\ p # page
    /\ page' = p
    /\ since' = clock
    /\ UNCHANGED <<clock, producer, object, now, reading>>

Tick ==
    /\ clock < MaxClock
    /\ clock' = clock + 1
    /\ UNCHANGED <<page, since, producer, object, now, reading>>

Next ==
    \/ \E p \in Producers : Start(p) \/ Fetch(p) \/ PutObject(p) \/ Exit(p)
    \/ Begin \/ Read \/ ReadMissing \/ ReadUnreadable
    \/ \E p \in Pages : Publish(p)
    \/ Tick

Spec == Init /\ [][Next]_vars

-----------------------------------------------------------------------------
TypeOK ==
    /\ clock \in Nat
    /\ page \in Pages
    /\ since \in Nat
    /\ producer \in [Producers -> Producer]
    /\ object \in RelayObject \cup {None}
    /\ now \in Int \cup {None}
    /\ reading \in SourceResult \cup {None}

-----------------------------------------------------------------------------
\* A read of the object that parsed, without a note on the producer's clock.
Unnoted == Read /\ reading'.reason = None /\ ~reading'.noted

\* The age no page reaches without the operator being told.
Horizon == MaxAge + SkewTolerance + MaxDrift

\* However long the computer slept between fetch and PUT, however late an
\* attempt landed and whichever run came last, a page read without a skew note
\* is younger than MAX_AGE plus SKEW_TOLERANCE plus the producer clock's error
\* (relay_push reads its clock before it fetches; LastModified is S3's).
UnnotedPageIsRecent ==
    [][Unnoted => now - object.taken < Horizon]_vars

\* A page SENAMHI has gone on showing for that long is the page read: a warning
\* up so long is not missed for an earlier calm.
LongStandingPageIsRead ==
    [][Unnoted /\ since <= now - Horizon => object.page = page]_vars

\* What the producer's gate let through the cycle can parse: a page whose
\* layout changed never replaces the last good one, which ages out instead.
GatedPageParses ==
    [][Read => reading'.reason # "page_refused"]_vars

\* An object put while the cycle was on its way to read it is not taken for
\* one from the future, as long as the cycle's clock and its way are within
\* FUTURE_TOLERANCE.
LatePutIsTrusted ==
    [][Read /\ clock - now <= FutureTolerance
          => reading'.reason # "relay_unreadable"]_vars

=============================================================================
