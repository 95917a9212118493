---------------------------- MODULE RelayProofs ----------------------------
(***************************************************************************)
(* Theorems about the relay for every set of pages and producers, every     *)
(* clock error and every value of the tolerances.                           *)
(***************************************************************************)
EXTENDS Relay, TLAPS

-----------------------------------------------------------------------------
\* What is known of a page once it was fetched: it parsed, its claim is at
\* most the producer clock's error ahead of the fetch, and unless SENAMHI has
\* changed since it is still the page shown.
Fetched(pg, taken, claim) ==
    /\ pg \in Parses
    /\ taken <= clock
    /\ claim <= taken + MaxDrift
    /\ since < taken => pg = page

ProducersFetched ==
    \A p \in Producers :
        /\ producer[p].stage = "started" => producer[p].moment <= clock + MaxDrift
        /\ producer[p].stage = "gated"
              => Fetched(producer[p].page, producer[p].taken, producer[p].moment)

ObjectFetched ==
    object # None
        => /\ Fetched(object.page, object.taken, object.claim)
           /\ object.modified <= clock

\* The inductive invariant.
Provenance == TypeOK /\ since <= clock /\ ProducersFetched /\ ObjectFetched

-----------------------------------------------------------------------------
\* A run's fields, stage by stage.
LEMMA ProducerFields ==
    ASSUME NEW r \in Producer
    PROVE  /\ r.stage \in {"idle", "started", "gated"}
           /\ r.stage = "started" => r \in [stage : {"started"}, moment : Int]
           /\ r.stage = "gated"
                => r \in [stage : {"gated"}, moment : Int, page : Pages,
                          taken : Nat, tries : Nat]
  BY DEF Producer, Idle

\* The provider's answer is well formed, refuses an object as unreadable only
\* for a timestamp too far ahead, and as unparsed only for a page that does
\* not parse; an answer without a reason or a note comes from an object younger
\* than MAX_AGE whose claim is within SKEW_TOLERANCE of its stamp
\* (RelayWarningProvider.fetch_current_warnings).
LEMMA FetchCurrentWarnings ==
    ASSUME NEW o \in RelayObject, NEW t \in Int
    PROVE  LET result == fetch_current_warnings(o, t)
           IN  /\ result \in SourceResult
               /\ result.reason = "relay_unreadable" => o.modified - t > FutureTolerance
               /\ result.reason = "page_refused" => o.page \notin Parses
               /\ result.reason = None /\ ~result.noted
                    => /\ t - o.modified < MaxAge
                       /\ o.modified - o.claim <= SkewTolerance
<1>. DEFINE age == relay_age(o.modified, t)
            result == fetch_current_warnings(o, t)
<1>1. o.modified \in Nat /\ o.claim \in Int /\ o.page \in Pages
  BY DEF RelayObject
<1>2. age \in Nat /\ (~(age >= MaxAge) => t - o.modified < MaxAge)
  BY <1>1, ClocksAssumption DEF relay_age
<1>3. ASSUME NEW reason \in Reason, NEW a \in Nat \cup {None}
      PROVE  /\ Unavailable(reason, a) \in SourceResult
             /\ Unavailable(reason, a).reason = reason
             /\ reason # None
  BY NoneAssumption DEF Unavailable, SourceResult
<1>4. CASE is_ahead(o.modified, t)
  <2>1. result = Unavailable("relay_unreadable", None)
    BY <1>4 DEF fetch_current_warnings
  <2>2. o.modified - t > FutureTolerance
    BY <1>4 DEF is_ahead
  <2>. QED  BY <2>1, <2>2, <1>3 DEF Reason
<1>5. CASE ~is_ahead(o.modified, t) /\ is_stale(age)
  <2>1. result = Unavailable("stale_relay", age)
    BY <1>5 DEF fetch_current_warnings
  <2>. QED  BY <2>1, <1>2, <1>3 DEF Reason
<1>6. CASE ~is_ahead(o.modified, t) /\ ~is_stale(age) /\ ~parse_warnings_page(o.page)
  <2>1. result = Unavailable("page_refused", age)
    BY <1>6 DEF fetch_current_warnings
  <2>. QED  BY <2>1, <1>2, <1>3, <1>6 DEF Reason, parse_warnings_page
<1>7. CASE ~is_ahead(o.modified, t) /\ ~is_stale(age) /\ parse_warnings_page(o.page)
  <2>1. result = Available(age, skew_note(o.claim, o.modified))
    BY <1>7 DEF fetch_current_warnings
  <2>2. skew_note(o.claim, o.modified) \in BOOLEAN
    BY DEF skew_note
  <2>3. ~skew_note(o.claim, o.modified) => o.modified - o.claim <= SkewTolerance
    BY <1>1, ClocksAssumption DEF skew_note
  <2>4. t - o.modified < MaxAge
    BY <1>7, <1>2 DEF is_stale
  <2>5. /\ result \in SourceResult
        /\ result.reason = None
        /\ result.noted = skew_note(o.claim, o.modified)
    BY <2>1, <2>2, <1>2 DEF Available, SourceResult
  <2>. QED  BY <2>3, <2>4, <2>5, NoneAssumption DEF Reason
<1>. QED  BY <1>4, <1>5, <1>6, <1>7

-----------------------------------------------------------------------------
LEMMA ProvenanceInit == Init => Provenance
  BY DEF Init, Provenance, TypeOK, Producer, Idle, ProducersFetched, ObjectFetched

\* No step turns the clock back, and SENAMHI changes its page only now.
LEMMA WorldMoves ==
    ASSUME Provenance, Next
    PROVE  /\ clock' \in Nat /\ since' \in Nat /\ page' \in Pages
           /\ clock <= clock' /\ since' <= clock'
           /\ (page' = page /\ since' = since) \/ since' = clock
<1>. USE DEF Provenance, TypeOK
<1>1. CASE \E p \in Producers : Start(p) \/ Fetch(p) \/ PutObject(p) \/ Exit(p)
  BY <1>1 DEF Start, Fetch, PutObject, Exit
<1>2. CASE Begin \/ Read \/ ReadMissing \/ ReadUnreadable
  BY <1>2 DEF Begin, Read, ReadMissing, ReadUnreadable, Observe
<1>3. CASE \E p \in Pages : Publish(p)
  BY <1>3 DEF Publish
<1>4. CASE Tick
  BY <1>4 DEF Tick
<1>. QED  BY <1>1, <1>2, <1>3, <1>4 DEF Next

LEMMA ProvenanceStep == Provenance /\ [Next]_vars => Provenance'
<1>. SUFFICES ASSUME Provenance, Next PROVE Provenance'
  <2>1. Provenance /\ UNCHANGED vars => Provenance'
    BY DEF Provenance, TypeOK, ProducersFetched, ObjectFetched, Fetched, vars
  <2>. QED  BY <2>1
<1>1. TypeOK /\ since <= clock /\ ProducersFetched /\ ObjectFetched
  BY DEF Provenance
<1>2. /\ clock \in Nat /\ since \in Nat /\ page \in Pages
      /\ clock' \in Nat /\ since' \in Nat /\ page' \in Pages
      /\ clock <= clock' /\ since' <= clock'
      /\ (page' = page /\ since' = since) \/ since' = clock
  BY <1>1, WorldMoves DEF TypeOK
<1>3. ASSUME NEW p \in Producers
      PROVE  /\ producer[p] \in Producer
             /\ producer[p].stage = "started" => producer[p].moment \in Int
             /\ producer[p].stage = "gated"
                  => /\ producer[p].moment \in Int /\ producer[p].page \in Pages
                     /\ producer[p].taken \in Nat /\ producer[p].tries \in Nat
  BY <1>1, ProducerFields DEF TypeOK
\* Whatever a step leaves alone keeps its provenance.
<1>4. ASSUME object' = object PROVE ObjectFetched' /\ object' \in RelayObject \cup {None}
  <2>1. object # None => object.taken \in Nat /\ object.claim \in Int /\ object.modified \in Nat
    BY <1>1 DEF TypeOK, RelayObject
  <2>. QED  BY <1>1, <1>2, <1>4, <2>1 DEF ObjectFetched, Fetched, TypeOK
<1>5. ASSUME NEW p \in Producers, producer'[p] = producer[p]
      PROVE  /\ producer'[p] \in Producer
             /\ producer'[p].stage = "started" => producer'[p].moment <= clock' + MaxDrift
             /\ producer'[p].stage = "gated"
                  => Fetched(producer[p].page, producer[p].taken, producer[p].moment)'
  BY <1>1, <1>2, <1>3, <1>5, ClocksAssumption DEF ProducersFetched, Fetched
\* A run that changes has the provenance of its new stage, every other its own.
<1>6. ASSUME NEW p \in Producers, NEW r \in Producer,
             producer' = [producer EXCEPT ![p] = r], object' = object,
             UNCHANGED <<now, reading>>,
             r.stage = "started" => r.moment <= clock' + MaxDrift,
             r.stage = "gated" => Fetched(r.page, r.taken, r.moment)'
      PROVE  Provenance'
  <2>1. \A q \in Producers : producer'[q] = IF q = p THEN r ELSE producer[q]
    BY <1>1, <1>6 DEF TypeOK
  <2>2. producer' \in [Producers -> Producer]
    BY <1>1, <1>6 DEF TypeOK
  <2>3. ProducersFetched'
    <3>. SUFFICES ASSUME NEW q \in Producers
                  PROVE  /\ producer'[q].stage = "started"
                              => producer'[q].moment <= clock' + MaxDrift
                         /\ producer'[q].stage = "gated"
                              => Fetched(producer[q].page, producer[q].taken,
                                         producer[q].moment)'
      BY DEF ProducersFetched
    <3>1. CASE q = p
      BY <2>1, <3>1, <1>6 DEF Fetched
    <3>2. CASE q # p
      <4>1. producer'[q] = producer[q]
        BY <2>1, <3>2
      <4>. QED  BY <4>1, <1>5 DEF Fetched
    <3>. QED  BY <3>1, <3>2
  <2>. QED  BY <1>1, <1>2, <1>4, <1>6, <2>2, <2>3 DEF Provenance, TypeOK
<1>7. ASSUME UNCHANGED <<producer, object>>, now' \in Int \cup {None},
             reading' \in SourceResult \cup {None}
      PROVE  Provenance'
  <2>1. ProducersFetched'
    BY <1>5, <1>7 DEF ProducersFetched
  <2>. QED  BY <1>1, <1>2, <1>4, <1>7, <2>1 DEF Provenance, TypeOK
<1>8. ASSUME NEW p \in Producers, Start(p) PROVE Provenance'
  <2>1. PICK d \in Drifts : producer' = [producer EXCEPT ![p] = Started(clock + d)]
    BY <1>8 DEF Start
  <2>2. clock' = clock /\ object' = object /\ UNCHANGED <<now, reading>>
    BY <1>8 DEF Start
  <2>3. /\ Started(clock + d) \in Producer
        /\ Started(clock + d).stage = "started"
        /\ Started(clock + d).moment <= clock' + MaxDrift
    BY <1>2, <2>2, ClocksAssumption DEF Started, Producer
  <2>. QED  BY <1>6, <2>1, <2>2, <2>3
<1>9. ASSUME NEW p \in Producers, Fetch(p) PROVE Provenance'
  <2>. PICK r : r = Gated(producer[p].moment, page, clock, 0)
    OBVIOUS
  <2>1. /\ producer[p].stage = "started" /\ page \in Parses
        /\ producer' = [producer EXCEPT ![p] = r]
        /\ clock' = clock /\ page' = page /\ since' = since /\ object' = object
        /\ UNCHANGED <<now, reading>>
    BY <1>9 DEF Fetch, parse_warnings_page
  <2>2. producer[p].moment \in Int /\ producer[p].moment <= clock + MaxDrift
    BY <1>1, <1>3, <2>1 DEF ProducersFetched
  <2>3. r \in Producer /\ r.stage = "gated"
    BY <1>2, <2>2 DEF Gated, Producer
  <2>4. Fetched(r.page, r.taken, r.moment)'
    BY <1>2, <2>1, <2>2 DEF Fetched, Gated
  <2>. QED  BY <1>6, <2>1, <2>3, <2>4
<1>10. ASSUME NEW p \in Producers, PutObject(p) PROVE Provenance'
  <2>. DEFINE run == producer[p]
              r == Gated(run.moment, run.page, run.taken, run.tries + 1)
              o == [page |-> run.page, taken |-> run.taken,
                    claim |-> run.moment, modified |-> clock]
  <2>1. /\ run.stage = "gated" /\ object' = o
        /\ producer' = [producer EXCEPT ![p] = r]
        /\ UNCHANGED <<clock, page, since, now, reading>>
    BY <1>10 DEF PutObject, fetched_at
  <2>2. /\ run.moment \in Int /\ run.page \in Pages /\ run.taken \in Nat /\ run.tries \in Nat
        /\ Fetched(run.page, run.taken, run.moment)
    BY <1>1, <1>3, <2>1 DEF ProducersFetched
  <2>3. o \in RelayObject
    BY <1>2, <2>2 DEF RelayObject
  <2>4. ObjectFetched'
    BY <1>2, <2>1, <2>2 DEF ObjectFetched, Fetched
  <2>5. r \in Producer /\ producer' \in [Producers -> Producer]
    BY <1>1, <2>1, <2>2 DEF Gated, Producer, TypeOK
  <2>6. ProducersFetched'
    <3>. SUFFICES ASSUME NEW q \in Producers
                  PROVE  /\ producer'[q].stage = "started"
                              => producer'[q].moment <= clock' + MaxDrift
                         /\ producer'[q].stage = "gated"
                              => Fetched(producer[q].page, producer[q].taken,
                                         producer[q].moment)'
      BY DEF ProducersFetched
    <3>1. CASE q = p
      <4>1. producer'[q] = r
        BY <1>1, <2>1, <3>1 DEF TypeOK
      <4>. QED  BY <2>1, <2>2, <4>1 DEF Fetched, Gated
    <3>2. CASE q # p
      <4>1. producer'[q] = producer[q]
        BY <1>1, <2>1, <3>2 DEF TypeOK
      <4>. QED  BY <4>1, <1>5 DEF Fetched
    <3>. QED  BY <3>1, <3>2
  <2>. QED  BY <1>1, <1>2, <2>1, <2>3, <2>4, <2>5, <2>6 DEF Provenance, TypeOK
<1>11. ASSUME NEW p \in Producers, Exit(p) PROVE Provenance'
  <2>1. Idle \in Producer /\ Idle.stage = "idle"
    BY DEF Idle, Producer
  <2>2. producer' = [producer EXCEPT ![p] = Idle] /\ object' = object
        /\ UNCHANGED <<now, reading>>
    BY <1>11 DEF Exit
  <2>. QED  BY <1>6, <2>1, <2>2
<1>12. CASE Begin
  BY <1>1, <1>2, <1>7, <1>12, ClocksAssumption DEF Begin
<1>13. CASE Read
  <2>1. object \in RelayObject /\ now \in Int
    BY <1>1, <1>13 DEF Read, TypeOK
  <2>2. fetch_current_warnings(object, now) \in SourceResult
    BY <2>1, FetchCurrentWarnings
  <2>. QED  BY <1>7, <1>13, <2>2 DEF Read, Observe
<1>14. CASE ReadMissing \/ ReadUnreadable
  <2>1. \A reason \in Reason : Unavailable(reason, None) \in SourceResult
    BY DEF Unavailable, SourceResult
  <2>. QED  BY <1>7, <1>14, <2>1 DEF ReadMissing, ReadUnreadable, Observe, Reason
<1>15. CASE (\E p \in Pages : Publish(p)) \/ Tick
  BY <1>1, <1>7, <1>15 DEF Publish, Tick, TypeOK
<1>. QED  BY <1>8, <1>9, <1>10, <1>11, <1>12, <1>13, <1>14, <1>15 DEF Next

-----------------------------------------------------------------------------
\* Type correctness, for every set of producers, pages and clock errors.
THEOREM TypeCorrect == Spec => []TypeOK
<1>1. Provenance => TypeOK
  BY DEF Provenance
<1>. QED  BY <1>1, ProvenanceInit, ProvenanceStep, PTL DEF Spec

\* A read of the object in a state of the invariant, without a reason or a note.
LEMMA UnnotedRead ==
    ASSUME Provenance, Unnoted
    PROVE  /\ now - object.taken < Horizon
           /\ since <= now - Horizon => object.page = page
<1>1. object \in RelayObject /\ now \in Int /\ since \in Nat
  BY DEF Provenance, TypeOK, Unnoted, Read
<1>2. object.taken \in Nat /\ object.claim \in Int /\ object.modified \in Nat
  BY <1>1 DEF RelayObject
<1>3. Fetched(object.page, object.taken, object.claim)
  BY DEF Provenance, ObjectFetched, Unnoted, Read
<1>4. now - object.modified < MaxAge /\ object.modified - object.claim <= SkewTolerance
  BY <1>1, FetchCurrentWarnings DEF Unnoted, Read, Observe
<1>. QED  BY <1>1, <1>2, <1>3, <1>4, ClocksAssumption DEF Horizon, Fetched

\* A page read without a skew note is younger than MAX_AGE plus SKEW_TOLERANCE
\* plus the producer clock's error, however long its run slept.
THEOREM RecentUnlessNoted == Spec => UnnotedPageIsRecent
<1>. DEFINE Recent == Unnoted => now - object.taken < Horizon
<1>1. Provenance /\ [Next]_vars => [Recent]_vars
  BY UnnotedRead
<1>. QED  BY <1>1, ProvenanceInit, ProvenanceStep, PTL DEF Spec, UnnotedPageIsRecent

\* A page SENAMHI has gone on showing for that long is the page read.
THEOREM LongStandingIsRead == Spec => LongStandingPageIsRead
<1>. DEFINE Standing == Unnoted /\ since <= now - Horizon => object.page = page
<1>1. Provenance /\ [Next]_vars => [Standing]_vars
  BY UnnotedRead
<1>. QED  BY <1>1, ProvenanceInit, ProvenanceStep, PTL DEF Spec, LongStandingPageIsRead

\* The cycle parses whatever the producer's gate let through.
THEOREM GateHolds == Spec => GatedPageParses
<1>. DEFINE Parsed == Read => reading'.reason # "page_refused"
<1>1. Provenance /\ [Next]_vars => [Parsed]_vars
  <2>1. Provenance /\ Read => object \in RelayObject /\ now \in Int /\ object.page \in Parses
    BY DEF Provenance, TypeOK, ObjectFetched, Fetched, Read
  <2>. QED  BY <2>1, FetchCurrentWarnings DEF Read, Observe
<1>. QED  BY <1>1, ProvenanceInit, ProvenanceStep, PTL DEF Spec, GatedPageParses

\* An object put while the cycle was on its way to it is not refused as future.
THEOREM LatePutTrusted == Spec => LatePutIsTrusted
<1>. DEFINE Trusted ==
       Read /\ clock - now <= FutureTolerance => reading'.reason # "relay_unreadable"
<1>1. Provenance /\ [Next]_vars => [Trusted]_vars
  <2>1. Provenance /\ Read
          => /\ object \in RelayObject /\ now \in Int /\ clock \in Nat
             /\ object.modified \in Nat /\ object.modified <= clock
    BY DEF Provenance, TypeOK, ObjectFetched, Read, RelayObject
  <2>2. Provenance /\ Read /\ reading'.reason = "relay_unreadable"
          => object.modified - now > FutureTolerance
    BY <2>1, FetchCurrentWarnings DEF Read, Observe
  <2>. QED  BY <2>1, <2>2, ClocksAssumption
<1>. QED  BY <1>1, ProvenanceInit, ProvenanceStep, PTL DEF Spec, LatePutIsTrusted

=============================================================================
