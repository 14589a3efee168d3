-------------------------------- MODULE Alerts --------------------------------
(****************************************************************************)
(* From what a service does to what the agent is told: its span counters    *)
(* and gauges, Prometheus taking a sample of them every step, and detect()  *)
(* of scripts/evidence/detect.py over the two windows of the pack.          *)
(*                                                                          *)
(* The service is killed and started again, with counters that begin anew;  *)
(* scrapes are lost.  A series shows its last scrape for Stale more steps,  *)
(* and one that was never counted is not there at all.                      *)
(* Time is in half steps.  The baseline is [0, InjectAt] and the injection  *)
(* [InjectAt, RevertAt]; the samples fall on the limits of the windows or   *)
(* between them.  One service is followed, in one view of it at a time:     *)
(* counters (rules 1 and 2, and 5, which is rule 1 of an operation), a      *)
(* gauge (rules 3, 4 and 7; "idle" when too few calls are behind it for     *)
(* rule 7) or spans with an entity id (rule 6).                             *)
(* Left out: how far an alert deviates, and their order.                    *)
(****************************************************************************)
EXTENDS EvidenceTools, Functions

CONSTANTS
    BaseSteps, InjectSteps,   \* lengths of the windows
    Stale,                    \* steps a lost series goes on showing its last value
    ErrFloor, MinExpected,    \* ERR_N_FLOOR, ZERO_MIN_EXPECTED
    EntityFloor,              \* ENTITY_ERR_FLOOR
    Levels,                   \* values of a gauge: ms, or half MiB
    MaxCalls, MaxFaults       \* bounds: calls between two samples, kills and lost scrapes

ASSUME AlertsAssumption ==
    /\ {BaseSteps, InjectSteps, ErrFloor, MinExpected, EntityFloor} \subseteq Nat \ {0}
    /\ {Stale, MaxCalls, MaxFaults} \subseteq Nat /\ Levels \subseteq Nat

ZeroRun == 2   \* ZERO_RUN

InjectAt == 2 * BaseSteps
RevertAt == 2 * (BaseSteps + InjectSteps)

VARIABLES
    view,      \* "counters", "gauge", "idle_gauge" or "spans"
    phase,     \* where the samples fall: 0 on the limits of the windows
    up,        \* is the container running
    counted,   \* its span counters: calls, errs, and its number `life`
    truth,     \* history: what was really called, over all lives
    shown,     \* the last scrape of it, and its age in steps
    made,      \* calls since the last sample
    samples,   \* what Prometheus answers, step by step
    faults

vars == <<view, phase, up, counted, truth, shown, made, samples, faults>>

At(k) == 2 * (k - 1) + phase

Done == At(Len(samples) + 1) > RevertAt

(* ------------------------------ the service ---------------------------- *)

Counters == view = "counters"

OneMore(c, failed) == [c EXCEPT !.calls = @ + 1, !.errs = IF failed THEN @ + 1 ELSE @]

Call(failed) ==
    /\ Counters /\ up /\ ~Done /\ made < MaxCalls
    /\ counted' = OneMore(counted, failed) /\ truth' = OneMore(truth, failed)
    /\ made' = made + 1
    /\ UNCHANGED <<view, phase, up, shown, samples, faults>>

Kill ==
    /\ Counters /\ up /\ ~Done /\ faults < MaxFaults
    /\ up' = FALSE /\ faults' = faults + 1
    /\ counted' = [calls |-> 0, errs |-> 0, life |-> counted.life + 1]
    /\ UNCHANGED <<view, phase, truth, shown, made, samples>>

Start ==
    /\ ~up /\ ~Done /\ up' = TRUE
    /\ UNCHANGED <<view, phase, counted, truth, shown, made, samples, faults>>

(* ------------------------------ Prometheus ----------------------------- *)

Showing(s) == s.age <= Stale

Sampled(s) ==
    /\ shown' = s
    /\ samples' = Append(samples, [seen |-> IF Showing(s) THEN s ELSE Null, truth |-> truth])
    /\ made' = 0

Scraped == [of |-> counted, truth |-> truth, age |-> 0]
Aged    == [shown EXCEPT !.age = @ + 1]

\* A container without a call since it started exports nothing.
Sample ==
    /\ Counters /\ ~Done
    /\ Sampled(IF up /\ counted.calls > 0 THEN Scraped ELSE Aged)
    /\ UNCHANGED <<view, phase, up, counted, truth, faults>>

LoseScrape ==
    /\ Counters /\ ~Done /\ up /\ faults < MaxFaults
    /\ Sampled(Aged) /\ faults' = faults + 1
    /\ UNCHANGED <<view, phase, up, counted, truth>>

\* A gauge is NaN where nothing was called.
Gauge ==
    /\ view \in {"gauge", "idle_gauge"} /\ ~Done
    /\ \E v \in Levels \cup {Null} : samples' = Append(samples, [level |-> v])
    /\ UNCHANGED <<view, phase, up, counted, truth, shown, made, faults>>

\* A span, on the entity or on none, of the service or of another that calls it.
Span ==
    /\ view = "spans" /\ ~Done
    /\ \E service \in {"svc", "other"}, entity \in {"id", Null}, status \in {"ERROR", "UNSET"} :
          samples' = Append(samples, [at |-> At(Len(samples) + 1), service |-> service,
                       parent |-> "other", entity |-> entity, status |-> status])
    /\ UNCHANGED <<view, phase, up, counted, truth, shown, made, faults>>

(* ------------------------------- the series ---------------------------- *)

\* A series of errors begins with the first error of a life.
CallsAt == [k \in DOMAIN samples |->
              IF samples[k].seen = Null THEN Null ELSE samples[k].seen.of.calls]
ErrsAt  == [k \in DOMAIN samples |->
              IF samples[k].seen = Null \/ samples[k].seen.of.errs = 0 THEN Null
              ELSE samples[k].seen.of.errs]
LevelAt == [k \in DOMAIN samples |-> samples[k].level]

Points(series) == [k \in DOMAIN series |-> [at |-> At(k), v |-> series[k]]]

\* The places of the points of a window.
In(series, t0, t1) == {k \in DOMAIN series : t0 <= At(k) /\ At(k) <= t1 /\ series[k] # Null}

Base(series)   == In(series, 0, InjectAt)
Inject(series) == In(series, InjectAt, RevertAt)

(* -------------------------------- detect() ----------------------------- *)

\* The points after the first, each with the one before it.
Later(W)     == {k \in W : \E j \in W : j < k}
Before(W, k) == Max({j \in W : j < k})

\* counter_delta(): what a reset leaves is all new.
IncreaseStrict(a, b) == IF b > a THEN b - a ELSE b
Increase(a, b)       == IF b >= a THEN b - a ELSE b

CounterDelta(series, W) ==
    SumFunctionOnSet([k \in W |-> Increase(series[Before(W, k)], series[k])], Later(W))

CeilDiv(m, n) == (m + n - 1) \div n

BaseCalls  == CounterDelta(CallsAt, Base(CallsAt))
BaseErrs   == CounterDelta(ErrsAt, Base(ErrsAt))
InjectErrs == CounterDelta(ErrsAt, Inject(ErrsAt))

\* Rule 1, and rule 5 of an operation: a quarter of the requests expected, and
\* twice the errors expected.
ErrThreshold == Max({ErrFloor, CeilDiv(BaseCalls * InjectSteps, 4 * BaseSteps)})

ErrorRateJump ==
    /\ InjectErrs >= ErrThreshold
    /\ InjectErrs * BaseSteps >= 2 * BaseErrs * InjectSteps

\* The longest run of steps without an increase.
Between(W, i, j) == {k \in W : i < k /\ k <= j}
Flat(series, W)  == {r \in W \X W : \A k \in Between(W, r[1], r[2]) :
                                         series[k] <= series[Before(W, k)]}
FlatRun(series, W) == Max({Cardinality(Between(W, r[1], r[2])) : r \in Flat(series, W)})

SilenceOfSamples(series, W) == FlatRun(series, W)

\* Rule 2: the counter stands still, or the series is short of samples.
Silence(series, W) ==
    IF Cardinality(W) < 2 THEN Max({InjectSteps, ZeroRun})
    ELSE Max({FlatRun(series, W), InjectSteps - (Cardinality(W) - 1)})

TrafficZero ==
    LET W == Inject(CallsAt)
    IN  /\ BaseCalls > 0 /\ Silence(CallsAt, W) >= ZeroRun
        /\ 10 * CounterDelta(CallsAt, W) * BaseSteps <= BaseCalls * InjectSteps
        /\ BaseCalls * Silence(CallsAt, W) >= MinExpected * BaseSteps

\* The value that is r-th when they are sorted, and twice the median.
Ranked(series, W, r) ==
    CHOOSE v \in {series[k] : k \in W} :
       /\ Cardinality({k \in W : series[k] < v}) < r
       /\ Cardinality({k \in W : series[k] <= v}) >= r
Median2(series, W) ==
    LET n == Cardinality(W)
    IN  Ranked(series, W, (n + 1) \div 2) + Ranked(series, W, n \div 2 + 1)

\* Rules 3 and 7; the ratio of an operation counts from 100 ms on, and only one
\* with enough calls in both windows is looked at.
P95Jump(floor) ==
    /\ Base(LevelAt) # {} /\ Inject(LevelAt) # {}
    /\ LET bp == Median2(LevelAt, Base(LevelAt))
           ip == Median2(LevelAt, Inject(LevelAt))
       IN  /\ bp > 0
           /\ \/ ip >= 2 * bp /\ ip - bp >= 2 * floor
              \/ ip - bp >= 2 * 500

\* Rule 4: 30 MiB, with half a MiB of jitter.
MemoryOverLine ==
    LET B == Base(LevelAt)
        W == Inject(LevelAt)
    IN  /\ B # {} /\ Cardinality(W) >= 2
        /\ LevelAt[Max(W)] - LevelAt[Max(B)] >= 60
        /\ \A k \in Later(W) : LevelAt[k] >= LevelAt[Before(W, k)] - 1

\* Rule 6: of the spans of a service on one entity.
OnEntity(service) ==
    {k \in DOMAIN samples : /\ InjectAt <= samples[k].at /\ samples[k].at <= RevertAt
                            /\ samples[k].entity # Null /\ samples[k].service = service}

EntityErrors(service) == Cardinality({k \in OnEntity(service) : samples[k].status = "ERROR"})

EntityConcentration(service) ==
    /\ EntityErrors(service) >= EntityFloor
    /\ 2 * EntityErrors(service) >= Cardinality(OnEntity(service))

Fires == [error_rate_jump  |-> Counters /\ ErrorRateJump,
          traffic_zero     |-> Counters /\ TrafficZero,
          p95_jump         |-> view \in {"gauge", "idle_gauge"} /\ P95Jump(0),
          method_latency_jump |-> view = "gauge" /\ P95Jump(100),
          memory_over_line |-> view = "gauge" /\ MemoryOverLine,
          entity_error_concentration |->
            {s \in {"svc", "other"} : view = "spans" /\ EntityConcentration(s)}]

(* ----------------------------- specification --------------------------- *)

None == [calls |-> 0, errs |-> 0, life |-> 1]

Init ==
    /\ view \in {"counters", "gauge", "idle_gauge", "spans"} /\ phase \in {0, 1}
    /\ up = TRUE /\ counted = None /\ truth = None
    /\ shown = [of |-> None, truth |-> None, age |-> Stale + 1]
    /\ made = 0 /\ samples = <<>> /\ faults = 0

Next ==
    \/ Call(TRUE) \/ Call(FALSE) \/ Kill \/ Start
    \/ Sample \/ LoseScrape \/ Gauge \/ Span

Spec == Init /\ [][Next]_vars

(* ------------------------------ properties ----------------------------- *)

Backed(series, what) ==
    \A W \in {Base(series), Inject(series)} : W # {} =>
       LET first == samples[Min(W)].seen
           last  == samples[Max(W)].seen
           real  == last.truth[what] - first.truth[what]
       IN  /\ CounterDelta(series, W) <= real
           /\ last.of.life = first.of.life => CounterDelta(series, W) = real

\* However often the service is killed and scrapes are lost, detect() counts no
\* call and no error that did not happen between the scrapes it sees, and all of
\* them when no restart falls between.
CountsBacked == Counters /\ Done => Backed(CallsAt, "calls") /\ Backed(ErrsAt, "errs")

InInjection == {k \in 1..Len(samples) : At(k) >= InjectAt}

\* A service that is not called during the whole injection, and whose baseline
\* predicts enough calls for half of it, is reported as gone whatever its
\* counter looks like: standing still, lost with its container, or stale from
\* some sample on.
SilenceIsTold ==
    LET start == samples[Min(InInjection)].truth IN
    (/\ Counters /\ Done
     /\ \A k \in InInjection : /\ samples[k].truth = start
                               /\ samples[k].seen # Null => samples[k].seen.truth = start
     /\ InjectSteps >= 2 * ZeroRun - 1
     /\ BaseCalls * CeilDiv(InjectSteps, 2) >= MinExpected * BaseSteps)
    => TrafficZero

Svc == [service |-> "svc", op |-> Null]

Pack ==
    [start |-> -2, end |-> RevertAt + 2, others |-> {"other"},
     spans |-> IF view = "spans" THEN samples ELSE <<>>,
     metrics |->
       IF Counters THEN
         [m \in {"calls_total", "errors_total"} |->
            [key \in {Svc} |-> IF m = "calls_total" THEN Points(CallsAt) ELSE Points(ErrsAt)]]
       ELSE IF view = "spans" THEN <<>>
       ELSE [m \in {"level"} |-> [key \in {Svc} |-> Points(LevelAt)]]]

Asked(metric) == MetricsQuery(Pack, metric, "svc", InjectAt, RevertAt, Null)

Answered(metric, Bears(_)) ==
    ~Asked(metric).refused /\ \A row \in Asked(metric).rows : Bears(row)

\* The agent that asks the tools about an alert, over the window of the alert,
\* is answered, and with figures that bear it out: the growth of the counter and
\* the range of the gauge agree with the observed value, and the spans of the
\* service hold the errors counted on one entity.  A series that was stale
\* through the whole window is the one it is refused.
AnswersBearOutAlerts ==
    Done =>
    /\ Fires.error_rate_jump =>
         Answered("errors_total", LAMBDA row : row.last - row.first <= InjectErrs)
    /\ (Fires.traffic_zero /\ Inject(CallsAt) # {}) =>
         Answered("calls_total", LAMBDA row : row.points = Cardinality(Inject(CallsAt)))
    /\ (Fires.p95_jump \/ Fires.method_latency_jump) =>
         Answered("level", LAMBDA row : LET m == Median2(LevelAt, Inject(LevelAt))
                                        IN  2 * row.min <= m /\ m <= 2 * row.max)
    /\ Fires.memory_over_line =>
         Answered("level", LAMBDA row : row.last = LevelAt[Max(Inject(LevelAt))])
    /\ \A s \in Fires.entity_error_concentration :
         LET a == TracesQuery(Pack, s, Null, "ERROR", InjectAt, RevertAt, Null)
         IN  ~a.refused /\ a.errors >= EntityErrors(s)

=============================================================================
