----------------------------- MODULE ProbeGate ------------------------------
(****************************************************************************)
(* What scripts/runner/run_batch.py concludes from the telemetry of one     *)
(* cycle: three windows are queried (scripts/probes/three_signals.py), the  *)
(* judges of symptom and recovery read what the queries returned, and       *)
(* probe_gate() admits the card.  Any query may be lost.                    *)
(*                                                                          *)
(* A verdict is "true", "false" or "none" (the code's None).  A rate is     *)
(* calls over seconds, so a comparison of rates is one of integers; memory  *)
(* is in MiB.  Thresholds are the code's.                                   *)
(****************************************************************************)
EXTENDS Integers, FiniteSetsExt

CONSTANTS
    Null,
    Classes,       \* classes of faults tried
    Sdks,          \* whether the target has an SDK and reports server spans
    BaseS, InjectS,   \* seconds of the baseline and the injection window
    Afters,        \* seconds the recovery window may have
    Losses         \* the sets of queries that may be lost in a cycle

AllClasses == {"crash", "blackhole", "latency", "misconfig", "targeting", "mem_leak"}
Windows    == {"base", "during", "after"}

\* "services": the list of services in Jaeger, then one query for the traces of
\* each: of two callers of the target ("ailing" is the one that met what errors
\* and slow calls there were, "well" the other) and of the target ("own"; lost
\* only if no caller's answer brought its spans along).  "memory" and "rate" are
\* the queries of Prometheus.
Queries == Windows \X {"services", "ailing", "well", "own", "memory", "rate"}

ASSUME GateAssumption ==
    /\ Classes \subseteq AllClasses /\ Sdks \subseteq BOOLEAN
    /\ {BaseS, InjectS} \cup Afters \subseteq Nat \ {0}
    /\ Losses \subseteq SUBSET Queries

EdgeReading == [spans : Nat, errors : Nat, p50 : Nat \cup {Null}]
OwnReading  == [calls : Nat, errors : Nat]

\* No data is no reading.
ASSUME NullIsNoReading ==
    /\ Null \notin Nat \cup {"passed"}
    /\ Null \notin [edge : EdgeReading, own : OwnReading]
    /\ Null \notin [first : Nat, last : Nat] \cup [calls : Nat, per : Nat]

VARIABLES
    pc,
    cls,      \* class of the card
    sdk,      \* of its target
    seconds,  \* of its windows
    truth,    \* per window, what happened on the testbed; no judge reads it
    lost,     \* the queries that failed
    verdict

cycle == <<cls, sdk, seconds, truth>>
gateVars == <<pc, cycle, lost, verdict>>

Verdicts == {"true", "false", "none"}

(* ------------------------------ the testbed ---------------------------- *)

Edge(spans, errors, p50) == [spans |-> spans, errors |-> errors, p50 |-> p50]

\* The edge from the callers, the target's own server spans on the affected
\* method (or the targeted id), its memory, and its request counter; each
\* class is given the quantities its judge reads.
Idle == [edge |-> Edge(0, 0, Null), own |-> [calls |-> 0, errors |-> 0],
         memory |-> [first |-> 100, last |-> 100], rate |-> 0]

\* What a target that served nothing looks like to its callers.
Served(t) == t.rate = 0 => t.edge.spans = t.edge.errors \/ t.edge.p50 >= 1000

\* Counts are per 30 seconds: a window of n times 30 seconds sees n times as many,
\* one that ends within a half minute nothing of that half.
Truths(c) ==
    CASE c = "crash" ->
           {t \in [edge : {Edge(0, 0, Null), Edge(6, 0, 1), Edge(6, 3, 1), Edge(6, 6, 1), Edge(20, 2, 1)},
                   own : {Idle.own}, memory : {Idle.memory}, rate : {0, 6, 20}] : Served(t)}
      [] c = "blackhole" ->
           {t \in [edge : {Edge(0, 0, Null), Edge(1, 0, 6000), Edge(12, 0, 1)},
                   own : {Idle.own}, memory : {Idle.memory}, rate : {0, 6}] : Served(t)}
      [] c = "latency" ->
           [edge : {Edge(0, 0, Null), Edge(8, 0, 1), Edge(8, 0, 641), Edge(8, 2, 900)},
            own : {Idle.own}, memory : {Idle.memory}, rate : {0}]
      [] c \in {"misconfig", "targeting"} ->
           [edge : {Idle.edge}, own : [calls : {4}, errors : {0, 1, 3}],
            memory : {Idle.memory}, rate : {0}]
      [] c = "mem_leak" ->
           [edge : {Idle.edge}, own : {Idle.own},
            memory : [first : {20, 100}, last : {100, 110, 130}], rate : {0}]

Times(w)     == seconds[w] \div 30
EdgeIn(e, n) == [spans |-> e.spans * n, errors |-> e.errors * n, p50 |-> e.p50]
OwnIn(o, n)  == [calls |-> o.calls * n, errors |-> o.errors * n]

(* ------------------------------ collection ----------------------------- *)

\* What is heard of the edge from the callers whose queries did not fail.
Heard(edge, missing) ==
    LET half   == edge.spans - edge.spans \div 2
        failed == IF edge.errors < half THEN edge.errors ELSE half
    IN  CASE {"ailing", "well"} \subseteq missing -> Idle.edge
          [] "ailing" \in missing /\ "well" \notin missing ->
               Edge(edge.spans \div 2, edge.errors - failed, IF edge.spans < 2 THEN Null ELSE 1)
          [] "well" \in missing /\ "ailing" \notin missing -> Edge(half, failed, edge.p50)
          [] OTHER -> edge

\* No list of services: no trace at all.  A query for one service that fails is
\* an empty answer: its spans are not counted.
Traces(w, missing) ==
    IF "services" \in missing THEN Null
    ELSE [edge |-> EdgeIn(Heard(truth[w].edge, missing), Times(w)),
          own  |-> OwnIn(IF "own" \in missing THEN Idle.own ELSE truth[w].own, Times(w))]

\* prom_baseline() and prom_rate_in_window(): a target without SDK has no
\* series, and too few samples are no rate.
ServerRate(w, missing) ==
    IF "rate" \in missing \/ ~sdk THEN Null ELSE [calls |-> truth[w].rate, per |-> 30]

Window(w, missing) ==
    [traces  |-> Traces(w, missing),
     memory  |-> IF "memory" \in missing THEN Null ELSE truth[w].memory,
     rate    |-> ServerRate(w, missing),
     seconds |-> seconds[w]]

Snapshot(w) == Window(w, {q[2] : q \in {l \in lost : l[1] = w}})
Complete(w) == Window(w, {})

(* -------------------------------- judges ------------------------------- *)

Bool(b) == IF b THEN "true" ELSE "false"
CeilDiv(a, b) == (a + b - 1) \div b

\* What the code's "or 0" makes of a window without traces.
EdgeOf(s)   == IF s.traces = Null THEN Idle.edge ELSE s.traces.edge
OwnOf(s)    == IF s.traces = Null THEN Idle.own ELSE s.traces.own
EdgeRate(s) == [calls |-> EdgeOf(s).spans, per |-> s.seconds]

AtMostTenth(r, of) == 10 * r.calls * of.per <= of.calls * r.per
AtLeastHalf(r, of) == 2 * r.calls * of.per >= of.calls * r.per
Expected5(r, secs) == r.calls * secs >= 5 * r.per        \* TARGET_MIN_EXPECTED

TargetArmOfFew(base, d) ==
    IF ~sdk \/ base.rate = Null \/ d.rate = Null THEN "none"
    ELSE IF d.seconds < 60 THEN "none"
    ELSE Bool(AtMostTenth(d.rate, base.rate))

\* target_side_arm(): silence of the target's own counter.
TargetArm(base, d) ==
    IF ~sdk \/ base.rate = Null \/ d.rate = Null THEN "none"
    ELSE IF ~Expected5(base.rate, d.seconds) \/ d.seconds < 60 THEN "none"
    ELSE Bool(AtMostTenth(d.rate, base.rate))

\* no_sdk_arms(): a step in the latency of the edge, or its silence.
StepArm(b, d) ==
    /\ EdgeOf(d).p50 # Null
    /\ \/ EdgeOf(d).p50 >= 1000
       \/ EdgeOf(b).p50 # Null /\ EdgeOf(b).p50 > 0 /\ EdgeOf(d).p50 >= 100 * EdgeOf(b).p50
SilenceArm(b, d) ==
    /\ Expected5(EdgeRate(b), d.seconds) /\ EdgeOf(b).spans > 0
    /\ AtMostTenth(EdgeRate(d), EdgeRate(b))
NoSdkArms(b, d) == IF sdk THEN "none" ELSE Bool(StepArm(b, d) \/ SilenceArm(b, d))

\* The caller arm of a crash: more errors than N; the rate behind N is the
\* target's, or the baseline window's when that was not to be had.
CrashN(b, d) ==
    LET r == IF b.rate = Null THEN EdgeRate(b) ELSE b.rate
    IN  Max({5, CeilDiv(r.calls * d.seconds, 4 * r.per)})
CrashArm(b, d) ==
    IF d.traces = Null THEN "none" ELSE Bool(EdgeOf(d).errors > CrashN(b, d))

BlackholeArm(b, d) ==
    IF b.traces = Null \/ d.traces = Null \/ EdgeOf(b).spans = 0 THEN "none"
    ELSE Bool(10 * EdgeOf(d).spans < EdgeOf(b).spans)

Any(arms) == IF "true" \in arms THEN "true" ELSE IF arms = {"none"} THEN "none" ELSE "false"

Misconfig(b, d) ==
    IF d.traces = Null THEN "none"
    ELSE Bool(/\ OwnOf(d).errors >= Max({2, CeilDiv(OwnOf(d).calls, 2)})
              /\ OwnOf(b).errors = 0)

Targeting(b, d) ==
    Bool(/\ OwnOf(d).calls > 0 /\ 2 * OwnOf(d).errors >= OwnOf(d).calls
         /\ OwnOf(d).errors >= 5 /\ OwnOf(b).errors = 0)

Growth(s) == s.memory.last - s.memory.first

MemLeak(d) ==
    Bool(/\ d.memory # Null
         /\ Growth(d) >= 10 /\ 100 * Growth(d) >= 15 * d.memory.first)

\* delay 800 ms: the median moves by 640 ms and under a tenth of the calls fail.
Latency(b, d) ==
    Bool(/\ EdgeOf(b).p50 # Null /\ EdgeOf(d).p50 # Null
         /\ EdgeOf(d).p50 - EdgeOf(b).p50 >= 640
         /\ \/ EdgeOf(d).errors = 0
            \/ EdgeOf(d).spans > 0 /\ 10 * EdgeOf(d).errors < EdgeOf(d).spans)

\* judge_symptom()
Symptom(b, d) ==
    CASE cls = "crash"     -> Any({CrashArm(b, d), TargetArm(b, d), NoSdkArms(b, d)})
      [] cls = "blackhole" -> Any({BlackholeArm(b, d), TargetArm(b, d), NoSdkArms(b, d)})
      [] cls = "misconfig" -> Misconfig(b, d)
      [] cls = "targeting" -> Targeting(b, d)
      [] cls = "mem_leak"  -> MemLeak(d)
      [] cls = "latency"   -> Latency(b, d)

\* Growth per minute, with a slack of 1 MiB per minute.
MemSettled(b, a) ==
    /\ b.memory # Null /\ a.memory # Null
    /\ 60 * Growth(a) * b.seconds <= 60 * Growth(b) * a.seconds + a.seconds * b.seconds

\* Whether the calls are back: the callers' edge, or the target's own counter
\* where the baseline has no edge.
EdgeBack(b, a) ==
    IF b.traces = Null \/ a.traces = Null THEN "none"
    ELSE Bool(EdgeOf(b).spans > 0 /\ AtLeastHalf(EdgeRate(a), EdgeRate(b)))
SpansBack(b, a) ==
    IF /\ EdgeBack(b, a) # "true" /\ EdgeOf(b).spans = 0
       /\ b.rate # Null /\ b.rate.calls > 0
      THEN IF a.rate = Null THEN "none" ELSE Bool(AtLeastHalf(a.rate, b.rate))
      ELSE EdgeBack(b, a)

NoErrorsOrZero(a) == Bool(OwnOf(a).errors = 0)
NoErrors(a) == IF a.traces = Null THEN "none" ELSE Bool(OwnOf(a).errors = 0)

Back(b, a) == SpansBack(b, a)
QuietAndBack(b, a) ==
    IF Symptom(b, a) = "none" \/ SpansBack(b, a) = "none" THEN "none"
    ELSE Bool(Symptom(b, a) = "false" /\ SpansBack(b, a) = "true")

\* judge_recovered()
Recovered(b, a) ==
    CASE cls \in {"misconfig", "targeting"} -> NoErrors(a)
      [] cls = "mem_leak" -> Bool(MemSettled(b, a))
      [] OTHER -> QuietAndBack(b, a)

(* -------------------------------- a cycle ------------------------------ *)

GateInit ==
    /\ pc = "harvest"
    /\ cls \in Classes /\ sdk \in Sdks
    /\ \E s \in Afters : seconds = [base |-> BaseS, during |-> InjectS, after |-> s]
    /\ truth \in [Windows -> Truths(cls)]
    /\ lost = {}
    /\ verdict = [symptom |-> "none", recovered |-> "none", gate |-> Null]

Harvest ==
    /\ pc = "harvest" /\ pc' = "symptom"
    /\ lost' \in Losses
    /\ UNCHANGED <<cycle, verdict>>

JudgeSymptom ==
    /\ pc = "symptom" /\ pc' = "recovered"
    /\ verdict' = [verdict EXCEPT !.symptom = Symptom(Snapshot("base"), Snapshot("during"))]
    /\ UNCHANGED <<cycle, lost>>

JudgeRecovered ==
    /\ pc = "recovered" /\ pc' = "gate"
    /\ verdict' = [verdict EXCEPT !.recovered = Recovered(Snapshot("base"), Snapshot("after"))]
    /\ UNCHANGED <<cycle, lost>>

\* probe_gate() of a cycle whose fault was probed as injected.
Admits == verdict.symptom # "false" /\ verdict.recovered # "false"

Gate ==
    /\ pc = "gate" /\ pc' = "done"
    /\ verdict' = [verdict EXCEPT !.gate = IF Admits THEN "passed" ELSE "failed"]
    /\ UNCHANGED <<cycle, lost>>

Booked == pc = "done" /\ UNCHANGED gateVars

GateNext == Harvest \/ JudgeSymptom \/ JudgeRecovered \/ Gate \/ Booked

GateSpec == GateInit /\ [][GateNext]_gateVars

(* ------------------------------ properties ----------------------------- *)

Quiet(w) == /\ truth[w].edge.errors = 0 /\ truth[w].own.errors = 0
            /\ truth[w].edge.p50 \in {Null, 1}
            /\ truth[w].memory.first = truth[w].memory.last

Answered(queries) == lost \cap queries = {}

Callers   == {"ailing", "well"}
BySpans   == cls \in {"crash", "blackhole"}
Both(w)   == {"base", w}

\* The queries whose failure judge_symptom() takes for an observation, so that
\* its yes may rest on the failure alone.
SymptomFooledBy ==
    CASE cls = "crash" /\ sdk     -> \* N is then what the callers were seen to send
           {<<"base", "rate">>}
      [] cls = "crash" /\ ~sdk    -> \* the callers are silent, or N is too low
           Both("during") \X ({"services"} \cup Callers)
      [] cls = "blackhole" /\ sdk -> \* a caller that was not heard of has no spans
           {"during"} \X Callers
      [] cls = "blackhole" /\ ~sdk ->
           (Both("during") \X Callers) \cup {<<"during", "services">>}
      [] cls = "latency"          -> \* the median is that of other callers
           Both("during") \X Callers
      [] cls \in {"misconfig", "targeting"} -> \* no errors before the injection
           {"base"} \X {"services", "own"}
      [] cls = "mem_leak"         -> {}

\* Those whose failure judge_recovered() takes for one: the errors and the slow
\* calls of a caller that was not heard of are over, half of too few calls are
\* back, and an arm of the symptom that has no data does not say it is still there.
RecoveryFooledBy ==
    CASE cls = "crash" /\ sdk     -> Both("after") \X ({"services", "rate"} \cup Callers)
      [] cls = "blackhole" /\ sdk ->
           (Both("after") \X ({"rate"} \cup Callers)) \cup {<<"base", "services">>}
      [] cls = "latency" \/ (BySpans /\ ~sdk) -> Both("after") \X Callers
      [] cls \in {"misconfig", "targeting"}   -> {<<"after", "own">>}
      [] cls = "mem_leak"         -> {}

\* The queries without which a judge may leave open what it would have denied;
\* the gate lets an open verdict pass.
SymptomLeftOpenBy ==
    CASE cls = "blackhole" /\ sdk ->
           (Both("during") \X {"services", "rate"}) \cup ({"base"} \X Callers)
      [] cls = "misconfig" \/ (cls = "crash" /\ sdk) -> {<<"during", "services">>}
      [] OTHER -> {}

RecoveryLeftOpenBy ==
    CASE cls = "blackhole" /\ sdk ->
           (Both("after") \X {"services", "rate"}) \cup ({"base"} \X Callers)
      [] cls = "crash" /\ sdk -> (Both("after") \X {"services"}) \cup {<<"after", "rate">>}
      [] cls = "latency" \/ (BySpans /\ ~sdk) -> Both("after") \X {"services"}
      [] cls \in {"misconfig", "targeting"} -> {<<"after", "services">>}
      [] cls = "mem_leak" -> {}

WholeSymptom  == Symptom(Complete("base"), Complete("during"))
WholeRecovery == Recovered(Complete("base"), Complete("after"))

\* The failure of a query makes no card, but for the queries named above: where
\* none that fools the judge failed, it says yes only of what all answers show,
\* and where none that leaves a verdict open failed either, the gate passes no
\* cycle of which all answers show that there was no symptom or no recovery.
LossNeverPasses ==
    /\ verdict.symptom = "true" /\ Answered(SymptomFooledBy) => WholeSymptom = "true"
    /\ verdict.recovered = "true" /\ Answered(RecoveryFooledBy) => WholeRecovery = "true"
    /\ /\ verdict.gate = "passed"
       /\ Answered(SymptomFooledBy) /\ Answered(SymptomLeftOpenBy)
       /\ Answered(RecoveryFooledBy) /\ Answered(RecoveryLeftOpenBy)
       => WholeSymptom # "false" /\ WholeRecovery # "false"

\* Where spans that were not fetched look like a target that fell silent.
TakenForSilence ==
    CASE BySpans /\ ~sdk          -> {"during"} \X ({"services"} \cup Callers)
      [] cls = "blackhole" /\ sdk -> {"during"} \X Callers
      [] OTHER -> {}

\* Negative control: a target to which nothing happened, quiet in the baseline
\* and the same in the injection window, has a symptom of no class, whatever
\* fails but the queries of the injection window that count its callers' spans;
\* of a crash with SDK, and of the classes not judged by silence, whatever fails.
QuietHasNoSymptom ==
    Quiet("base") /\ truth["during"] = truth["base"] /\ Answered(TakenForSilence) =>
      verdict.symptom # "true"

\* A fault that all answers show and that goes on as it was through a recovery
\* window as long as the injection or longer (in a shorter one the floors of the
\* thresholds, which are counts, weigh more) is not certified as recovered, and
\* its card does not pass, whatever fails but the queries named for a recovery.
\* The memory of the target has to be steady in the baseline: judge_recovered()
\* asks a leak for no more than the growth it had there.
OngoingIsNotRecovered ==
    /\ Growth(Complete("base")) = 0 /\ WholeSymptom = "true"
    /\ truth["after"] = truth["during"] /\ seconds["after"] >= seconds["during"]
    /\ Answered(RecoveryFooledBy)
    => /\ verdict.recovered # "true"
       /\ Answered(RecoveryLeftOpenBy) => verdict.gate # "passed"

=============================================================================
