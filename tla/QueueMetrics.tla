---------------------------- MODULE QueueMetrics ----------------------------
(***************************************************************************)
(* cmd/rbacsync/prometheus.go: the provider from which a work queue gets   *)
(* its metrics when it is made.  The provider registers each metric with   *)
(* the default registry, where those of pkg/metrics are; when that refuses *)
(* it, the error is logged and the queue goes on with a metric that        *)
(* /metrics never shows.  The provider's NewDeprecated... methods are left *)
(* out: the interface of client-go v0.23.3 (go.mod) has no such methods,   *)
(* so that nothing calls them and their metrics are never made.            *)
(*                                                                         *)
(* A metric's full name joins subsystem and name with "_".  It is written  *)
(* as the sequence of its words, so that joining is \o.  Of a help text    *)
(* only this matters: is it the same for all queues, or one's own?         *)
(***************************************************************************)
EXTENDS Naturals, Sequences, SequencesExt

\* pkg/metrics: vectors, whose labels get their values later.
Vector(words, labelNames) ==
    [fqName |-> <<"rbacsync">> \o words, constLabels |-> {},
     labelNames |-> labelNames, help |-> "own"]

ControllerMetrics ==
    {Vector(<<"config", "status">>, {"kind", "status"}),
     Vector(<<"binding", "status">>, {"kind", "status"}),
     Vector(<<"gsuite", "client", "creation", "status">>, {"status"}),
     Vector(<<"gsuite", "members", "status">>, {"status"}),
     Vector(<<"gsuite", "members", "latency", "duration", "seconds">>, {"status"})}

-----------------------------------------------------------------------------
(* prometheusMetricsProvider *)

\* (mistake) The help says which queue it is.
LabelledHelpfully(queue, words) ==
    [fqName |-> <<"workqueue">> \o words, constLabels |-> {<<"name", queue>>},
     labelNames |-> {"name"}, help |-> queue]

\* One subsystem and one help for all queues, and a label with the queue's name.
Labelled(queue, words) ==
    [fqName |-> <<"workqueue">> \o words, constLabels |-> {<<"name", queue>>},
     labelNames |-> {"name"}, help |-> "common"]

NewDepthMetric(q)                   == Labelled(q, <<"depth">>)
NewAddsMetric(q)                    == Labelled(q, <<"adds", "total">>)
NewLatencyMetric(q)                 == Labelled(q, <<"queue", "duration", "seconds">>)
NewWorkDurationMetric(q)            == Labelled(q, <<"work", "duration", "seconds">>)
NewUnfinishedWorkSecondsMetric(q)   == Labelled(q, <<"unfinished", "work", "seconds">>)
NewLongestRunningProcessorMetric(q) ==
    Labelled(q, <<"longest", "running", "processor", "seconds">>)
NewRetriesMetric(q)                 == Labelled(q, <<"retries", "total">>)

\* In the order in which client-go asks for them.
MetricsOf(q) ==
    << NewDepthMetric(q), NewAddsMetric(q), NewLatencyMetric(q),
       NewWorkDurationMetric(q), NewUnfinishedWorkSecondsMetric(q),
       NewLongestRunningProcessorMetric(q), NewRetriesMetric(q) >>

-----------------------------------------------------------------------------
\* The registry refuses a metric when there is one of the same name with the
\* same labels, another help or other label names (external).
Accepts(registry, m) ==
    \A r \in registry : r.fqName = m.fqName =>
        /\ r.constLabels # m.constLabels
        /\ r.help = m.help
        /\ r.labelNames = m.labelNames

Register(registry, m) == IF Accepts(registry, m) THEN registry \union {m} ELSE registry

\* NewNamedRateLimitingQueue: the queue asks for its metrics one after another.
RegisterQueue(registry, q) == FoldLeft(Register, registry, MetricsOf(q))
=============================================================================
