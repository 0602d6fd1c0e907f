# A TLA+ model of the Retriva local deployment

This directory holds TLA+ specifications of the programs in this repository, the TLC
configurations that check them on small instances, and proofs checked by TLAPS. The
repository deploys a stack of services built elsewhere; what it contains of its own is
the compose graph, the operator scripts, the monitoring exporters with their rules, the
Redis configuration and the acceptance harnesses. Those are the subject.

    tlc -workers 2 -config RedisMonitorExporter.cfg MCRedisMonitorExporter.tla
    tlapm RedisMonitorExporterProofs.tla

The other modules of proofs are `RedisCountingProofs`, `AlertSinkProofs`,
`E2EQualifyProofs`, `ArchiveAcceptanceProofs`, `QueueWatchProofs`,
`Spec037HarnessProofs` and `Spec037SheetProofs`.

## Inventory

| Part | State | Operations | What is hard | Module |
|---|---|---|---|---|
| Redis exporter (`config/monitoring/exporters/redis_monitor_exporter.py`) | published metrics; accumulated ACL counters and last count of each log entry; binding members; edge detector of the default user | one poll: connect, gauges, scan bindings, ACL LOG, DRYRUN, publish; note the protected-mode refusal; HTTP render | published state is written without the lock while it is rendered; a poll may fail at any command; Redis and the exporter restart; the log is a ring | `RedisMonitorExporter` |
| Redis as the exporter sees it (`config/redis/*`) | ACL log and its ids, posture of the default user, binding sets | log or group an event, restart, change of posture or bindings | ids start again after a restart; the log groups, rolls over and is longer than what is read | `RedisServer` |
| Alert sink (`alert_sink.py`) | the log file on a volume; a counter | POST: size check, keep the newest half, append, answer; GET | a thread for each delivery, no lock on the file; crash, full disk; client retries | `AlertSink` |
| PostgreSQL collector (`pg_monitor_collector.sh`) | `.last_success`, `metrics.txt`, an error counter | collect, loop, httpd | a crash between the truncation and the writing of a file, `set -e` in the loop behind httpd, a stale page that is still served | `QueueWatch` |
| Prometheus and Alertmanager configuration | firing alerts, inhibition | evaluate, inhibit | rules that join two collectors; an inhibition across services; the collectors watched by what they feed | `QueueWatch`, in part |
| Qualification harness (`scripts/e2e_qualify.py`) | evidence directory, job followed, verdict | validate, upload, chat or direct start, find the job, poll, results, bindings, artifacts, acceptance | a gateway that forgets, expires, fails or never answers; many exits | `E2EQualify` |
| Archive acceptance (`scripts/e2e_archive_acceptance.py`) | pre-state, checks, evidence, verdict | qualify, snapshot, recreate, observe, verify, approve, retry | was it the archive that answered? restarts nobody asked for, reviewers who decide meanwhile, partly failed approvals | `ArchiveAcceptance` |
| Spec 037 harness (`scripts/spec037_acceptance_harness.py`) | rows in the deployed database; a mock provider and a budget guard in each process | seed fixtures, six scenarios with checks, a refresh, commands that print or seed | commands in any order, repeated and interrupted, over a database that remembers all of them | `Spec037Harness` |
| Compose graph and `scripts/manage.sh` | containers, migrations | up, down, rebuild, recreate, run | commands that bypass `depends_on` | not modelled |
| Redis entrypoint and `redis-ops.sh` | the rendered ACL file | validate secrets, render, check, start | - | not modelled |
| Other shell helpers, static settings | none | - | - | not modelled |

Interactions. Redis clients cause ACL events and bindings, which the exporter reads; its
HTTP threads publish what the poll thread writes; Prometheus scrapes it and the
PostgreSQL collector and evaluates rules that join both; Alertmanager inhibits and
delivers to the sink, which appends to its volume. The two end-to-end harnesses are
clients of the gateway, whose job registry lives in one process and whose archive
outlives it; the archive harness restarts that process. The Spec 037 harness runs inside
the service and shares only its database with it.

`PROJECT.json` lists the hazards of this code line by line, with the properties that
watch them.

## Modules

`RedisServer` is external to the repository: the part of Redis the exporter reads.
`GroupEvent` is Redis's grouping of similar entries, which looks at the newest
`GroupMax` of them only, `NewEvent` its ring of `acllog-max-len` entries;
`RestartServer` forgets the log, takes the ids from 0, brings back the bindings of some
snapshot (`appendonly no`) and the posture that `config/redis/entrypoint.sh` renders.

`RedisMonitorExporter` EXTENDS it. One poll is one action for each command whose result
matters; `pc` is the next one.

| Code | Definition |
|---|---|
| `poll_once`, connection and first commands | `Connect`, `RefusedNopass`, `PollError`, `PollAuthError` |
| `_note_protected_mode_nopass` | `NoteNopass` |
| bindings in `_collect`: `scan_match`, `SMEMBERS`, the comparison | `ScanKey`, `EndScan`; `ReadMembers`; `CollectBindings`, `Additions` |
| `_collect_acl_log` | `AdoptAclLog`, `ReadAclLog`, `CountEntry`, `Delta`, `SeriesOf`, `StartPublish`, `Publish`, `PublishOrder` |
| DRYRUN probe | `Probe`, `ProbeError`, `RecordProbe`, `Rises` |
| end of a successful poll | `Finish` |
| process start | `ProcessInit`, `ExporterRestart` |

`up`, `authFailures` and `scrapeErrors` are the fields of `METRICS` written under the
lock; `counters` and `usable` those written without it. `render()` holds the lock, and
copies the counters in one call: a scrape sees `up` and the counters of one state, which
may be any state of a poll. Hence there is no action for a scrape, and a statement about
what Prometheus sees is an invariant. The variables `happened`, `readAt`, `complete`,
`added`, `regressions` and `closedProbes` are history: no action reads them to decide
what the program does. An event is a unit of the count of a log entry. `linked` is the
poll's connection; once Redis restarts, every further command fails, and at the probe
that failure is taken for a usable default user.

The bindings are not read at one moment. `ScanKey` is the cursor coming to a key, which
is listed if it exists at that moment; `ReadMembers` is one `SMEMBERS`; clients add and
remove members between any two of them, in the scan that adopts the bindings too. So a
member added during that scan may be missed by it and counted by the next poll: `added`
counts the creations since the poll of the first complete scan *began*. `ScanTruncates`
lets a scan stop before its cursor is back at 0 (`MAX_SCAN_PAGES`).

`AlertSink` has one action for each system call of `_record`. The file is a sequence of
records; a delivery has one alert and one unit of length, and the half that is kept may
begin inside a record (`Fragment`). `Post`, `GiveUp` and the retry implied by both are
Alertmanager. `overlap`, `collision` and `ioError` record, as history, the disturbances
under which the code loses its guarantees; the properties say that it keeps them
otherwise, so together they say exactly what goes wrong when.

`QueueWatch` composes the collector, the key gauge of the Redis exporter and the rules.
`Query`, `Truncate`, `Stamp` and `Publish` are the writes of `collect`; `WriteFails` is
`set -e` ending the loop while httpd goes on serving; `Restart` keeps the files and
`Recreate` does not. The time of the last success is one of four: none, the empty file
that a truncation leaves, one within the 120 s of the staleness rule, and an older one.
An empty value makes Prometheus refuse the whole page. The page is the world as the
rules see it: `Condition` evaluates the expression of each alert on it, `Fire` and
`Resolve` are Prometheus, `Inhibited` and `Told` are the inhibition of Alertmanager.

`EvidenceRun` is abstract: what both end-to-end harnesses promise of their evidence
directory, with no word of gateways and requests. A file is written once, the verdict
last, and verdict and exit code agree; an interrupted run leaves no verdict. Both
harnesses instantiate it (`ImplementsEvidenceRun`) and implement it, which TLC checks
and TLAPS proves.

`E2EQualify` has one action for each request or decision of `run_qualification` and
`poll_job`; the gateway changes its jobs between any two of them. `RequestFails` is a
request that ends in one of the handlers of the stages, `Raises` what reaches the
catch-all of `main` instead (an unreadable prompt or acceptance file, an answer that is
no JSON object or breaks off); either may leave the file `AtHand` of its stage. `args`
ranges over every command line that matters, `ArtifactLists` over the artifact lists a
job may end with, and the contents of a result are one of two verdicts for each check.
In the refinement, `evidence` maps to the files, and `End` names how the run ended.

`ArchiveAcceptance` has one action for each request of `main`, and `RequestFails` for
every request that raises, with the evidence it leaves (`LeftBehind`: the exits of one
code may differ in it, as the upload does before and after its answer). `Gateway`
interleaves: a job ends and is archived, well or badly; the process restarts, unasked,
and forgets its memory; a reviewer decides a draft. `Recreate` kills the process only if
the command line names the service behind the gateway; a job is answered from memory
while it is there and from the archive after that, which is what the field `archived` of
an answer tells. `mine` is history: what this run has approved.

| Code | Definition |
|---|---|
| `main`, to the job | `Start`, `NoWorkbook`, `Upload`, `Qualify`, `Poll` |
| `fetch_pre_state` | `PreStatus`, `PreResults`, `PreArchive`, `PreArtifacts` |
| `recreate_service`, `wait_restart_observed` | `Recreate`, `RecreateFails`, `Healthy`, `Observe` |
| `verify_post_state` | `PostStatus`, `PostResults`, `FetchReport`, `EvidenceExists`, `SessionJobs`, `ListDrafts`, `ApproveDraft`, `NothingApproved`, `Assessment`, `Rows` |
| `verify_retry_lineage` | `Retry`, `RetryPoll`, `Lineage` |
| exits | `GiveVerdict`, `Abort` |

`Spec037Harness` runs commands, each a process of its own, one after the other. A
scenario is a list of runs of the enrichment stage (`Script`), a mock (`Responders`,
whose last one stays), a guard with the two budgets of the deployment (`limit.search` and
`limit.report`, which need not be equal), and a sheet of checks
(`Green`). The stage and its store are external: `StageStatus`, `Stored` and `Reported`
are what the scenarios rely on. What nothing in the code enforces, the state each
scenario needs to begin with, is `Prepared`, in terms of each budget; `GreenIffPrepared`
says that the checks find out. One case is `open`: whether the stage searches before it
finds the report budget empty is its own business, and decides whether `zero-budget` is
green when only that budget is 0. `Begin`, `Redeploy`, `TimePasses` and `Interrupted` are
the operator and the world.

Six checks are left out because the runs cannot turn them red: `history_retains_run1`
(the external store only appends), `exact_decimal_score`, `provider_scale_kept` and
`no_zero_score_written` (conversions of the values the mocks offer, none of which is 0),
`cross_tenant_reads_empty` (row security of the database), `stale_was_marked_stale_input`
(a value compared with itself).

`MC*` modules give model values: entry kinds, binding sets, artifact lists, command
lines, pairs of budgets, symmetry sets. Definitions marked *a mutated form* are wrong
variants, used to confirm that a property can fail; nothing else refers to them.

## Runs

| Run | Properties | What it shows |
|---|---|---|
| `redis_exporter_safety` | `TypeOK`, `AdoptedNotCounted`, `NothingMissed`, `PublishedAsRead`, `EmergencyAccounted`, `OneAlarmPerRegression`, `BindingEventsReal`, `CountersNeverDrop` | counters neither overcount nor, when the log kept the entries, undercount; outside a publication a scrape shows exactly the last reply, whatever failed since; no published state is inconsistent; a regression alarms once |
| `redis_exporter_live` | `EventsReachPrometheus`, `StandingRegressionFlagged` | events reach the published counters, and a standing regression stays flagged |
| `redis_default_counter` (violation) | `DefaultCounterNeverDrops` | the publication loop resets the default-user counter to 0 for part of every poll |
| `alert_sink` | `TypeOK`, `AckedMeansAppended`, `LostOnlyInOverlap`, `NoForgedCopies`, `SizeBounded`, `EventuallyAcked` | what a 200 means, the only ways to lose or multiply a record or to outgrow the bound, and that deliveries get through failures, restarts and files too short to seek in |
| `alert_sink_loss` (violation) | `AckedStored` | two deliveries at once lose an acknowledged one, with no failure |
| `queue_watch` | `TypeOK`, `ForgetsNoSuccess`, `QueueLossTold`, `StalledGaugeTold` | a queue lost while jobs are open is told, directly or by an alert that says why not; a collector that stops is told |
| `queue_gauge_retained` (violation) | `GaugeRetained` | a failed query publishes the gauge of open jobs as 0, which the documents say is retained |
| `qualify` | `TypeOK`, `SuccessMeansAccepted`, `VerdictAgrees`, `WrittenOnce`, `ImplementsEvidenceRun`, `Terminates` | outcome, evidence and verdict agree on every path, and the run ends |
| `qualify_fallback` (violation) | `FallbackReported` | a fallback job completed with warnings exits like an ordinary pass |
| `archive_acceptance` | `TypeOK`, `PassMeansOutlived`, `PassMeansFaithful`, `PassNeedsApproval`, `ApprovesOneEligible`, `ImplementsEvidenceRun`, `Terminates` | a pass shows what the script is for, whatever restarts and reviewers do between two requests; the run approves at most one draft, and ends |
| `archive_skip_approval` (violation) | `SkipApprovalIsReadOnly` | `--skip-approval` is parsed and never read |
| `spec037` | `TypeOK`, `GreenIffPrepared`, `SeededMeansComplete`, `BudgetHolds` | no order, repetition or interruption of commands makes a sheet green by accident or a prepared one red, with equal budgets or unequal ones; both budgets hold |

The five violations are disagreements between the code and what its comments or
documents say; each is quoted under `findings`.

### Bounds

* Exporter: `MaxDisturbances` bounds ACL events, failures, restarts, changes of posture
  and of bindings together; the poll itself is unbounded. It is 3 in the liveness run
  (enough for an event, its growth and a failed poll or a change of posture between them)
  and 4 in the safety run, enough for an entry, its growth, a restart of Redis and the
  reuse of its id, or for two regressions with a failed probe between them. `LogLen` = 3
  and `ReadMax` = 2, as the code reads 128 of 256 entries: an entry can be below the
  window when the log is adopted, or leave it unread, and with four events it can roll out
  of the log (in the liveness run both are 2). `GroupMax` = 2 is the window of grouping,
  within the read as in Redis, so an entry below it never grows; two kinds of entry, a
  denial and a failed authentication of the emergency identity, move all three counters
  apart. One member of one binding set is enough for it to be added, removed and added
  again between the steps of one scan and of the next (the proof takes any number of
  sets and members). `MaxErrors` only folds the failure counters.
* Sink: two threads, two deliveries, a limit of three records and two failures. The
  file may be too large from the start, so that retention happens at once and again
  after the deliveries, and each delivery may be sent more than once; two threads exhibit
  every overlap of two retentions. More threads are the business of the proofs: a third
  thread can write its half over the file in which another one has just sought, which two
  threads never do, and `overlap` counts it. Only with three records can a truncated file
  be too short to seek in.
* Queue: `MaxFaults` = 2, so that a restart can follow a failed write and the other way
  round. Changes of the world and passing time are not bounded.
* Qualification: three jobs (an agent that calls the tool twice, and a direct one), the
  error limit of the code, and seven artifact lists: none, both reports, a bad one in
  either place, two of a kind, a workbook of unknown media type, and a foreign file.
* Archive: every command line (`--skip-approval` in the violation, since nothing reads
  it); four artifact lists: both reports, an altered one behind a foreign file, one
  that is not served, two of a kind; and drafts none, blocked before eligible, two
  eligible, each decided or not. Nothing else is bounded: every restart and decision may
  come between any two requests.
* Spec 037: `MaxCommands` = 5 and eight pairs of budgets: 0, 1, 2 and 4 twice, which are
  those the scenarios ask for and one between, and 0 or 1 beside 4, in either place.
  Five commands reach every scenario that is prepared (`conflicts` needs `seed-fixtures`
  and `budget-boundary` before it), its repetition, and an interrupted command in front
  of them.

### Fairness

* Exporter: weak fairness of the poll (`PollStep`). `main` loops for ever and every
  socket operation has a timeout, so the poll thread always takes another step. Nothing
  is assumed of Redis, clients or Docker; disturbances are finite because they are
  bounded, that is: failures eventually pause.
* Sink: weak fairness of each thread, and of Alertmanager posting what it has to deliver.
  Again failures are bounded.
* Queue: weak fairness of the collector (its query has a statement timeout), of the Redis
  poll, of time, and of Prometheus evaluating each rule. An alert has a `for` duration: it
  fires if its condition holds long enough, so the liveness properties have premises of
  the form `<>[]`. That the database settles is one of them: every page of a failed query
  publishes the gauge as 0, and a query that fails now and then starts `for: 5m` again
  each time.
* Qualification and archive: weak fairness of the harness's own steps (requests have
  socket timeouts, waits have deadlines) and of the clock. The timeout of 60 s is one of
  each wait of a socket, not of a request: an answer that trickles in for ever is assumed
  away. `docker compose` has no timeout and is assumed to end. Nothing of the gateway: it
  may never finish a job.
* Spec 037: none. The operator stops after the last command, and deadlock is not checked.

## Proofs

`RedisMonitorExporterProofs` proves, for every value of the constants that satisfies
`ServerAssumption` and `ExporterAssumption` (a positive log length and window, grouping
within the window, finitely many binding members):

* `TypeCorrect`. `TypeOK` is not inductive, since `seen` is indexed by the ids that can
  occur: `TypeInv` adds that the ids in the log and in a reply were given by Redis, and
  that Redis has given no more than there were disturbances.
* `AlarmsAreRegressions`. `AlarmInv` adds to the counter the one rise that is still due
  while the exporter has not noticed a usable default user (or is about to note a
  refusal).
* `EmergencyIsAccounted`. `PublishInv` says what the suffix still to be published implies
  about the prefix: which counters already have the value of `total`. It holds because
  the denial and authentication counters come before the emergency counter in the order
  of publication, and `total` does not change meanwhile; the mutated order breaks it.
* `BindingEventsAreReal`. `BindInv` adds to the counter the members that this scan or a
  later one may still count: `churn + Cardinality(Pending) <= added`. Once bindings are
  adopted, these are the members that exist or were read and are not `known`; during the
  first scan, those that exist and whose set the scan has already passed. A step of the
  scan only shrinks `Pending`, a failed poll forgets what was read, and what a client or a
  restart of Redis brings adds at most itself. The theorem is of complete scans.
* `CountersAreMonotone`, the action property, from `TypeInv`, `PublishInv` and `BindInv`.
  It assumes nothing about how much is read or whether scans are complete.

`RedisCountingProofs`, from the same assumptions, proves what the accumulated counters
count, whatever the length of the log and of a read. It counts sets of events instead of
summing over entries: `Unseen(c)` are the events of the log, in reach of a read, that no
reply accounts for yet, `Replied(c)` those of a reply that `CountEntry` has not reached.
An ACL event adds at most its own unit to `Unseen` (`EventIsUnseen`), a read moves units
from there to `Replied` (`ReadMovesEvents`), and `CountEntry` from there to `total` by
exactly the difference that `Delta` computes (`CountTakesEvents`). `ReadInv` is what
this rests on: the log and a reply have one entry for each id, and a reply is consumed
before the next.

* `AdoptedAreNotCounted`. `CountInv`: `total`, `Replied` and `Unseen` together are at
  most `happened`. Adoption establishes it. `Unseen` is of the entries in reach of a
  read: one below them neither grows nor comes back, because Redis groups among the
  newest entries only (`GroupMax <= ReadMax`). A restart of Redis empties the log and so
  `Unseen`; an entry that reuses an id contributes only what exceeds the count seen
  under it.
* `PublishedAreNotAhead`, the same of what is published, since `counters` trail `total`.
* `NothingIsMissed`. While `complete` holds, the sum is exactly `happened` (`MissInv`),
  and `total` and `Replied` are exactly `readAt` while a reply is accounted. It needs
  `InStep`: nothing in `seen` is newer than the log, and each entry with unread events
  is in reach of a read. `complete` falls as soon as either could fail.
* `PublishedIsRead`. `ShownInv` links the three stages: when `toPublish` has only the
  counter after the emergency series left, the ACL series are all published
  (`PublishInv` has the other two), `MissInv` equates `total` with `readAt` at that
  moment, and until the next reply nothing changes one of the three. An adoption starts
  from zeros, and a restart of the exporter goes back to them.

`AlertSinkProofs`, under `SinkAssumption`: at least one thread, finitely many, and no
more than half the limit in records plus one. The limit is 5 MiB and a record some
hundred bytes, so this only excludes thousands of simultaneous deliveries; without it the
half that is kept and one record for each thread would not fit.

* `TypeCorrect`. `TypeInv` adds that a thread that runs serves a delivery.
* `AckedWereAppended`. `AckInv` adds the same of the thread that is about to answer.
* `SizeIsBounded`. `SizeInv` counts the records of the threads that have passed the size
  check (`Appending`) as if they were in the file. A thread that is about to read has a
  file larger than the limit, so nobody passes the check meanwhile; hence the half it
  reads is at most `Half` and a record for each other thread, and fits when it is written.
* `LossNeedsOverlap`. `CoverInv` says that, until a disturbance, the file, every half
  read and not yet written, and what lies behind the position of every thread about to
  read each contain every delivery that was ever appended and has not aged; the file may
  be empty instead while a half is about to be written.
* `NothingForged`. `CopyInv` counts positions: a half that was read holds no more copies
  of a delivery than were appended, and once its thread has truncated the file, half and
  file together do not. It rests on lemmas about how appending, overwriting and reading
  from a position change the number of copies, and on there being one such thread.

`E2EQualifyProofs`, under `QualifyAssumption`:

* `EvidenceIsWrittenOnce`. `OnceInv` gives the files still unwritten at each label.
* `VerdictIsReported`. No verdict is written before the last step of any exit.
* `RunImplements`, the refinement of `EvidenceRun`. A step that goes on maps to `Collect`
  or a stutter because it writes what `OnceInv` says is unwritten, and not the verdict;
  one that ends the run maps to `Pass` or `Fail`.
* `SuccessIsAccepted`. `StageInv` collects what each label knows; in the loop over the
  artifacts, every one is still to do or `Validated`.
* `TypeCorrect`. The newest job of `find_session_job` exists because a nonempty set of
  numbers up to `MaxJobs` has a greatest one (from the well-foundedness of the naturals).

`ArchiveAcceptanceProofs`, under `ArchiveAssumption` (any command lines, artifact and
draft lists):

* `TypeCorrect`. The lists keep their element types through every decision and approval.
* `RunImplements`, as above; `Once` gives what is unwritten at each label, the two
  reports excepted, which `EvidenceExists` protects.
* `PassOutlives`. `OutlivedInv`: past the status check, `passed` means that the job is not
  in memory, and nothing brings it back there; past the last check, one row. A failed
  check is never made up for (`passed` does not rise), so the verdict inherits both.
* `PassIsFaithful`. `FaithfulInv` with `Compared`: from the listing on, every report of
  the archive is intact or still to be fetched, as long as all checks passed.
* `PassIsApproved`. `ApprovalInv`: what the harness listed stands in the gateway but for
  later decisions (`ListedStands`), and decisions are for good, so a draft that was
  approved when the check passed is approved in the end.
* `OneApproval`. `OneInv`: until an approval can have reached the archive, `mine` is
  empty, and each step that adds to it leaves the loop.

`QueueWatchProofs`, under `WatchAssumption`, for any number of faults:

* `TypeCorrect`.
* `SuccessRemembered`, the action property. `MemoryInv`: what is published is what was
  stamped, and while the page knows of a success, `.last_success` exists, and what was
  read from it before its truncation does too.

`Spec037HarnessProofs`, under `HarnessAssumption` (any set of pairs of budgets, any number
of commands):

* `BudgetIsKept`. `BudgetInv` relates the requests made and the units left of each budget:
  `calls.search + guard.search <= limit.search` and
  `calls.report + 2 * guard.report <= 2 * limit.report`, because a retry of a report costs
  no unit.
* `SeededIsComplete`. `SeedInv`: the rows before `step` are there, since rows are only
  ever added, and the fixtures list exactly the parts of each organization.
* `TypeCorrect`, from both: `TypeOK` alone does not keep the guard from falling below 0.

`Spec037SheetProofs` proves `GreenMeansPrepared` from the same assumption, over every
database that any number of commands can leave. The invariant is one of each scenario
and run: `BeginInv` says that `before.prepared` is `Prepared` of a database nobody has
changed yet, and `SuccessInv`, `BoundaryInv`, `RecoverInv`, `ConflictInv` and `StaleInv`
what is left of that after some of the runs, in terms of what they have noted, stored and
used up; `EndInv` is what the sheet then comes to. That a conflict is the one the scenario
means needs `IdsInv`: an organization only ever has the connect id it is offered. That
five commands do not do more harm than any number of them is what the proof adds to the
run.

Model-checked only: the liveness properties, which no proof here can reach (fairness and
ENABLED). Every invariant and action property of the runs is a theorem.

## Known departures

What the models show beside the five findings, or take as a premise because the code
does not do it:

* The denial, authentication and emergency counters are seeded so that "a restart never
  leaves a scrape gap" (`redis_monitor_exporter.py:200-203`), but the poll that adopts the
  log returns (362) before it publishes any: after the first successful poll Prometheus
  sees `up` without them, until the second.
* Since a failed query publishes 0 for the gauge (the finding), `QueueLossTold` needs
  `PostgresGaugeStale`, and a first success: the rule is silent as long as the time of the
  last one is 0. No rule uses `retriva_pg_monitor_up`.
* `redis_up` and the key gauge keep their values while Redis cannot be reached, and no
  rule uses `exporter_up`: `QueueLossTold` assumes that the exporter reads or is down.
* A collector whose loop has died goes on serving its last page: an alert that its gauge
  holds up stays until somebody restarts it.
* If the gateway has restarted before the archive acceptance looks at the job, it compares
  the archive with itself; `PassMeansFaithful` says that the results are the live ones
  only for a job that was live then. A job without reports passes the comparison of
  reports.
* The archive acceptance approves a draft also when checks before it have failed, and a
  second run approves a further one if there is one.
* A second report of one kind ends a run of either harness as an infrastructure error.
* The Spec 037 harness exits with 0 whatever its sheet says, and `failure-recover`
  without a state row raises where it should report.

## Not modelled

* Compose graph and `manage.sh`: which service waits for which is a static graph that
  Docker Compose interprets; the scripts send it single commands and keep no state. A
  model would check Compose, which is not here. That `up --no-deps` bypasses the
  migrations is one constant of a command line.
* Redis entrypoint and `redis-ops.sh`: linear; the first renders the ACL file, checks it
  and starts Redis or stops, the second is a menu of single calls.
* Rules of Prometheus beside the four in `QueueWatch`: thresholds on single gauges and
  rates. The inhibition of authentication alerts, notification groups, repetition and
  silences: Alertmanager's own.
* In the exporter, gauges that copy one reply and labels of the denial counter other than
  the emergency identity; in the sink, the GET handlers, threads beyond `Handlers`, and
  appends split into several writes by a payload larger than the buffer. Weak memory:
  CPython's dictionary writes are taken as atomic.
* In the Spec 037 harness, `query`, which prints, and `seed-assessments`, `seed-cohort`
  and `report-artifacts`, which fill or read stores that no other command reads.
* In the archive acceptance, an I/O error once `acceptance_result.json` exists (509-512, a
  full disk): the handler raises too, and the run exits with 1 beside any verdict.
* Logging, wording, hashes and manifests everywhere. The ingestion service, the gateway,
  the enrichment stage and the other images live in other repositories.

## Plan

Done: the exporter with Redis, the sink, the collector with the rules it feeds, both
end-to-end harnesses with their common abstract specification, the Spec 037 harness, and
the proofs above. Left: a `for` duration in `QueueWatch` instead of the premises of its
liveness properties.
