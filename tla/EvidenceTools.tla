---------------------------- MODULE EvidenceTools ----------------------------
(****************************************************************************)
(* What the agent sees of an evidence pack: metrics_query and traces_query  *)
(* of scripts/agent/evidence_tools.py, with the checks they share.  A pack  *)
(* is read only, so the tools are operators on it:                          *)
(*                                                                          *)
(*   start, end   the window of the manifest                                *)
(*   metrics      per metric, per series key [service, op], a sequence of   *)
(*                points [at, v]                                            *)
(*   spans        a sequence of [at, service, parent, status]               *)
(*   others       services known from the topology and from the logs only   *)
(*                                                                          *)
(* What a query selects is a set of places in such a sequence.  Left out:   *)
(* how an argument is parsed, logs_search, the views that return a file as  *)
(* it is, rounding, the cut at sixty series, and the parts of an answer     *)
(* that no property reads.                                                  *)
(****************************************************************************)
EXTENDS Integers, Sequences, FiniteSets, FiniteSetsExt

CONSTANT Null

ASSUME NoTimeIsNull == Null \notin Int

\* ToolError
Refused == [refused |-> TRUE]

Given(value, default) == IF value = Null THEN default ELSE value

Keys(pack) == UNION {DOMAIN pack.metrics[m] : m \in DOMAIN pack.metrics}

\* Every service that appears anywhere in the pack.
KnownServices(pack) ==
    {key.service : key \in Keys(pack)}
      \cup {pack.spans[k].service : k \in DOMAIN pack.spans} \cup pack.others

ServiceOk(pack, name) == name = Null \/ name \in KnownServices(pack)

From(pack, start) == Max({Given(start, pack.start), pack.start})
To(pack, end)     == Min({Given(end, pack.end), pack.end})

\* In order, and not wholly outside the pack; what sticks out is cut off.
WindowOk(pack, start, end) ==
    LET s == Given(start, pack.start)
        e == Given(end, pack.end)
    IN  s <= e /\ pack.start <= e /\ s <= pack.end

\* DEFAULT_LIMITS
MaxPoints  == 40
MaxSamples == 20
Samples    == 5

LimitOk(limit, cap) == limit = Null \/ limit \in 1..cap

BeforeEnd(points, s, e) ==
    {k \in DOMAIN points : s <= points[k].at /\ points[k].at < e /\ points[k].v # Null}

InWindow(points, s, e) ==
    {k \in DOMAIN points : s <= points[k].at /\ points[k].at <= e /\ points[k].v # Null}

\* [::step][:n] with step = max(1, len // n)
Thinned(W, n) ==
    LET step     == Max({1, Cardinality(W) \div n})
        place(k) == Cardinality({j \in W : j < k})
    IN  {k \in W : place(k) % step = 0 /\ place(k) \div step < n}

Row(key, points, W, n) ==
    LET vals == {points[k].v : k \in W}
    IN  [key |-> key, points |-> Cardinality(W), min |-> Min(vals), max |-> Max(vals),
         first |-> points[Min(W)].v, last |-> points[Max(W)].v,
         series |-> {points[k] : k \in Thinned(W, n)}]

\* One row per series of the service that has a point in the window; to ask for
\* a service without any is an error.
MetricsQuery(pack, metric, service, start, end, n) ==
    LET pts(key) == InWindow(pack.metrics[metric][key], From(pack, start), To(pack, end))
        keys == {key \in DOMAIN pack.metrics[metric] :
                   (service = Null \/ key.service = service) /\ pts(key) # {}}
    IN  IF \/ metric \notin DOMAIN pack.metrics \/ ~ServiceOk(pack, service)
           \/ ~WindowOk(pack, start, end) \/ ~LimitOk(n, MaxPoints)
           \/ (service # Null /\ keys = {})
          THEN Refused
          ELSE [refused |-> FALSE,
                rows    |-> {Row(key, pack.metrics[metric][key], pts(key), Given(n, MaxPoints)) :
                               key \in keys}]

\* The spans of a service, called by a service, of a status.
Matched(pack, service, caller, status, s, e) ==
    {k \in DOMAIN pack.spans :
        LET sp == pack.spans[k]
        IN  /\ s <= sp.at /\ sp.at <= e
            /\ (service = Null \/ sp.service = service)
            /\ (caller = Null \/ sp.parent = caller)
            /\ (status \in {Null, "ANY"} \/ sp.status = status)}

\* error_spans counts all that match; the samples are thinned.
TracesQuery(pack, service, caller, status, start, end, n) ==
    LET W == Matched(pack, service, caller, status, From(pack, start), To(pack, end))
    IN  IF \/ ~ServiceOk(pack, service) \/ ~ServiceOk(pack, caller)
           \/ ~WindowOk(pack, start, end) \/ ~LimitOk(n, MaxSamples)
          THEN Refused
          ELSE [refused |-> FALSE,
                matched |-> Cardinality(W),
                errors  |-> Cardinality({k \in W : pack.spans[k].status = "ERROR"}),
                samples |-> {pack.spans[k] : k \in Thinned(W, Given(n, Samples))}]
=============================================================================
