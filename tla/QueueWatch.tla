----------------------------- MODULE QueueWatch -----------------------------
(***************************************************************************)
(* How the loss of the ingestion queue comes to be told. The PostgreSQL    *)
(* collector (config/monitoring/exporters/pg_monitor_collector.sh)         *)
(* publishes whether durable jobs are open, the Redis exporter whether the *)
(* queue exists; the rules of Prometheus correlate the two and watch the   *)
(* collectors themselves, and Alertmanager inhibits what a failed          *)
(* collector makes unreliable.                                             *)
(*                                                                         *)
(* A rule is evaluated on the pages as they are served: a scrape and an    *)
(* evaluation every 15 s, against `for: 5m`. An alert fires if its         *)
(* condition holds long enough, which is fairness here and not a number.   *)
(* Left out: the other alerts, which concern neither page, and the         *)
(* grouping and delivery of notifications (AlertSink).                     *)
(***************************************************************************)
EXTENDS Integers

CONSTANTS
  MaxFaults   \* bound of the environment: I/O errors and restarts of the collector

ASSUME WatchAssumption == MaxFaults \in Nat

VARIABLES
  \* The world.
  work,       \* the database has jobs that are not terminal
  queue,      \* the broker has the key of the ingestion queue
  pg,         \* the aggregate query is answered
  exporter,   \* the Redis exporter: up and reading, up and not reading, or down
  faults,
  \* The collector.
  pc,
  found,      \* what collect() is about to publish
  stamp,      \* .last_success, or NoFile
  page,       \* metrics.txt
  serving,    \* httpd has been started
  \* The Redis exporter, Prometheus and Alertmanager.
  keyExists,  \* redis_key_exists of the ingestion queue, if it was ever set
  firing      \* the alerts that fire

world == <<work, queue, pg, exporter, faults>>
collector == <<pc, found, stamp, page, serving>>
vars == <<world, collector, keyExists, firing>>

-----------------------------------------------------------------------------
\* The time of the last success: 0, a file that was truncated and not written,
\* or a time, which is old after the 120 s of the staleness rule.
Times == {"never", "blank", "fresh", "old"}
\* gauge: nonterminal jobs > 0.
Pages == [gauge : BOOLEAN, last : Times]
NoFile == "no file"

Alerts == {"RedisQueueDisappearance", "RedisScrapeDown", "PgScrapeDown",
           "PostgresGaugeStale"}

TypeOK ==
  /\ work \in BOOLEAN /\ queue \in BOOLEAN /\ pg \in BOOLEAN
  /\ exporter \in {"reading", "blind", "down"}
  /\ faults \in 0 .. MaxFaults
  /\ pc \in {"query", "truncate", "stamp", "publish", "dead"}
  /\ found \in Pages
  /\ stamp \in Times \cup {NoFile}
  /\ page \in Pages
  /\ serving \in BOOLEAN
  /\ keyExists \in {"unset", "yes", "no"}
  /\ firing \subseteq Alerts

NothingFound == [gauge |-> FALSE, last |-> "never"]

Init ==
  /\ work \in BOOLEAN /\ queue \in BOOLEAN /\ pg \in BOOLEAN
  /\ exporter = "reading" /\ faults = 0
  /\ pc = "query" /\ found = NothingFound
  /\ stamp = NoFile /\ page = NothingFound /\ serving = FALSE
  /\ keyExists = "unset" /\ firing = {}

-----------------------------------------------------------------------------
(* The world.                                                              *)

Change ==
  /\ \/ work' = ~work /\ UNCHANGED <<queue, pg, exporter>>
     \/ queue' = ~queue /\ UNCHANGED <<work, pg, exporter>>
     \/ pg' = ~pg /\ UNCHANGED <<work, queue, exporter>>
  /\ UNCHANGED <<faults, collector, keyExists, firing>>

\* The exporter loses its connection, stops or starts.
ExporterChange ==
  /\ exporter' \in {"reading", "blind", "down"} \ {exporter}
  /\ keyExists' = IF exporter' = "down" THEN "unset" ELSE keyExists
  /\ UNCHANGED <<work, queue, pg, faults, collector, firing>>

Aged(t) == IF t = "fresh" THEN "old" ELSE t

\* 120 s pass without a success.
TimePasses ==
  /\ \/ found.last = "fresh" \/ stamp = "fresh" \/ page.last = "fresh"
  /\ found' = [found EXCEPT !.last = Aged(@)]
  /\ stamp' = Aged(stamp)
  /\ page' = [page EXCEPT !.last = Aged(@)]
  /\ UNCHANGED <<world, pc, serving, keyExists, firing>>

Fault ==
  /\ faults < MaxFaults
  /\ faults' = faults + 1
  /\ UNCHANGED <<work, queue, pg, exporter, keyExists, firing>>

-----------------------------------------------------------------------------
(* collect(), and the loop around it.                                      *)

\* last_success="$(cat .last_success 2>/dev/null || echo 0)"
NoFallback == stamp                                   \* a mutated form
BlankIsZero == IF stamp \in {NoFile, "blank"} THEN "never" ELSE stamp  \* mutated form
LastSuccess == IF stamp = NoFile THEN "never" ELSE stamp

StampsAnyQuery ==                                     \* a mutated form
  /\ pc = "query"
  /\ found' = [gauge |-> pg /\ work, last |-> "fresh"]
  /\ pc' = "truncate"
  /\ UNCHANGED <<world, stamp, page, serving, keyExists, firing>>
Query ==
  /\ pc = "query"
  /\ found' = IF pg THEN [gauge |-> work, last |-> "fresh"]
              ELSE [gauge |-> FALSE, last |-> LastSuccess]
  /\ pc' = "truncate"
  /\ UNCHANGED <<world, stamp, page, serving, keyExists, firing>>

\* The shell opens .last_success for writing ...
Truncate ==
  /\ pc = "truncate"
  /\ stamp' = "blank"
  /\ pc' = "stamp"
  /\ UNCHANGED <<world, found, page, serving, keyExists, firing>>

\* ... and printf writes it.
Stamp ==
  /\ pc = "stamp"
  /\ stamp' = found.last
  /\ pc' = "publish"
  /\ UNCHANGED <<world, found, page, serving, keyExists, firing>>

\* The temporary file is written and moved; httpd is started after the first time.
Publish ==
  /\ pc = "publish"
  /\ page' = found
  /\ serving' = TRUE
  /\ pc' = "query"
  /\ UNCHANGED <<world, found, stamp, keyExists, firing>>

\* Under set -e a failed redirection or mv ends the loop behind the back of httpd;
\* the first time it ends the container, which is started again.
WriteFails ==
  /\ pc \in {"truncate", "stamp", "publish"}
  /\ pc' = IF serving THEN "dead" ELSE "query"
  /\ Fault
  /\ UNCHANGED <<found, stamp, page, serving>>

\* The container restarts, at any point and with its files, or is recreated
\* without them.
Restart ==
  /\ pc' = "query" /\ serving' = FALSE
  /\ Fault
  /\ UNCHANGED <<found, stamp, page>>

Recreate ==
  /\ pc' = "query" /\ serving' = FALSE
  /\ found' = NothingFound /\ stamp' = NoFile /\ page' = NothingFound
  /\ Fault

Collector == Query \/ Truncate \/ Stamp \/ Publish

-----------------------------------------------------------------------------
(* The Redis exporter, the rules and the inhibition.                       *)

\* A poll that does not reach Redis leaves the gauge as it is.
RedisPoll ==
  /\ exporter = "reading"
  /\ keyExists' = IF queue THEN "yes" ELSE "no"
  /\ UNCHANGED <<world, collector, firing>>

\* A page with a value that is no number is refused as a whole.
PgScraped == serving /\ page.last # "blank"

NeedsWork(a) ==                                       \* a mutated form
  CASE a = "RedisQueueDisappearance" ->
         exporter # "down" /\ keyExists = "no" /\ PgScraped /\ page.gauge
    [] a = "RedisScrapeDown"    -> exporter = "down"
    [] a = "PgScrapeDown"       -> ~PgScraped
    [] a = "PostgresGaugeStale" -> PgScraped /\ page.last = "old" /\ page.gauge
Condition(a) ==
  CASE a = "RedisQueueDisappearance" ->
         exporter # "down" /\ keyExists = "no" /\ PgScraped /\ page.gauge
    [] a = "RedisScrapeDown"    -> exporter = "down"
    [] a = "PgScrapeDown"       -> ~PgScraped
    [] a = "PostgresGaugeStale" -> PgScraped /\ page.last = "old"

Fire(a) ==
  /\ a \notin firing /\ Condition(a)
  /\ firing' = firing \cup {a}
  /\ UNCHANGED <<world, collector, keyExists>>

Resolve(a) ==
  /\ a \in firing /\ ~Condition(a)
  /\ firing' = firing \ {a}
  /\ UNCHANGED <<world, collector, keyExists>>

\* MonitoringCollectorScrapeDown, of either collector, inhibits what Redis is
\* said to lack.
Inhibited(a) ==
  /\ a = "RedisQueueDisappearance"
  /\ firing \cap {"RedisScrapeDown", "PgScrapeDown"} # {}
Told == {a \in firing : ~Inhibited(a)}

-----------------------------------------------------------------------------
Environment ==
  \/ Change \/ ExporterChange \/ TimePasses \/ WriteFails \/ Restart \/ Recreate

Monitoring ==
  \/ Collector \/ RedisPoll \/ \E a \in Alerts : Fire(a) \/ Resolve(a)

Next == Environment \/ Monitoring

Spec == Init /\ [][Next]_vars

\* The loops go on, as long as they live: the query ends, by its statement timeout
\* and with the connection; Prometheus evaluates every rule again and again.
FairSpec ==
  /\ Spec
  /\ WF_vars(Collector) /\ WF_vars(RedisPoll) /\ WF_vars(TimePasses)
  /\ \A a \in Alerts : WF_vars(Fire(a)) /\ WF_vars(Resolve(a))

-----------------------------------------------------------------------------
(* Properties.                                                             *)

\* As long as its files are kept, the collector does not forget that it has had
\* a success: the staleness rule, which is silent at 0, is not put to silence.
ForgetsNoSuccess ==
  [][page.last # "never" => page'.last # "never" \/ stamp' = NoFile]_vars

HasSucceeded == page.last # "never"

\* A queue that stays away while jobs are open is told, whatever has happened to
\* the collector before: by its own alert, or by one that says why it is not to be
\* had. Provided that the exporter reads Redis or is down, that the database does
\* not come and go, and that the collector has seen it once.
QueueLossTold ==
  /\ <>[](work /\ ~queue /\ HasSucceeded)
  /\ (<>[]pg \/ <>[]~pg) /\ (<>[](exporter = "reading") \/ <>[](exporter = "down"))
  => <>[](Told # {})

\* A gauge that is no longer refreshed is told, by whatever it was stopped.
StalledGaugeTold ==
  (<>[]~pg \/ <>[](pc = "dead")) /\ <>[]HasSucceeded
  => <>[](Told \cap {"PgScrapeDown", "PostgresGaugeStale"} # {})

-----------------------------------------------------------------------------
(* What comments and documents say, and the code does not do.              *)

\* "Failures fail closed (up=0 + error counter, last value retained)": what a failed
\* query is about to publish is the gauge of the page that is served, if that page
\* tells of a success.
GaugeRetained ==
  [][Query /\ ~pg /\ page.last # "never" => found'.gauge = page.gauge]_vars
=============================================================================
