------------------------ MODULE RedisMonitorExporter ------------------------
(***************************************************************************)
(* The Redis metrics exporter of the monitoring stack                      *)
(* (config/monitoring/exporters/redis_monitor_exporter.py).                *)
(*                                                                         *)
(* Two kinds of thread share the METRICS object. The main thread polls     *)
(* Redis for ever: poll_once() connects, _collect() issues one command     *)
(* after the other, and each result is written to METRICS at once, WITHOUT *)
(* the lock. HTTP threads render METRICS under the lock, which only the    *)
(* last write of a poll (up, last_success, the failure counters) takes.    *)
(* render() copies the counters in one call of sorted() and up cannot      *)
(* change meanwhile, so a scrape reports the counters and up of one state, *)
(* and that may be ANY state of a poll: there is no action for a scrape,   *)
(* and a property of what Prometheus sees is one of every state.           *)
(*                                                                         *)
(* Left out, being copies of single replies: the keyspace, persistence,    *)
(* queue and result gauges, the role and category labels of the denial     *)
(* counter, and the timestamp of the last success.                         *)
(***************************************************************************)
EXTENDS RedisServer, FiniteSets

CONSTANTS
  ReadMax,         \* ACL LOG <ReadMax>: how many entries one poll reads
  ScanTruncates,   \* may a SCAN stop at MAX_SCAN_PAGES before its cursor is 0?
  MaxDisturbances, \* bound of the environment: how many ACL events, failures,
                   \*   posture and binding changes, and restarts there are
  MaxErrors        \* the failure counters are told apart up to this value

ASSUME ExporterAssumption ==
  /\ ReadMax \in Nat \ {0}
  /\ GroupMax <= ReadMax
  /\ ScanTruncates \in BOOLEAN
  /\ MaxDisturbances \in Nat
  /\ MaxErrors \in Nat

VARIABLES
  pc,              \* the next command of the poll
  linked,          \* is the connection of the poll open?
  unscanned,       \* binding sets the SCAN cursor has yet to come to
  listed,          \* binding sets SCAN found, and SMEMBERS has yet to read
  current,         \* the members read so far
  reply,           \* ACL LOG entries read and not yet accounted
  toPublish,       \* counters of _acl_counters not yet published
  bootAcl,         \* _acl_bootstrapped
  seen,            \* _acl_entry_counts
  total,           \* _acl_counters
  bootBind,        \* _binding_bootstrapped
  known,           \* _binding_members
  churn,           \* _binding_churn
  usablePrev,      \* _default_usable_prev
  defaultSuccess   \* _default_success

scanVars == <<unscanned, listed, current>>
pollVars == <<pc, linked, scanVars, reply, toPublish>>
aclVars == <<bootAcl, seen, total>>
bindVars == <<bootBind, known, churn>>
defaultVars == <<usablePrev, defaultSuccess>>

VARIABLES
  up,              \* METRICS.up
  authFailures,    \* METRICS.auth_failures
  scrapeErrors,    \* METRICS.scrape_errors
  counters,        \* METRICS.counters: the published counters
  usable           \* METRICS.values: redis_acl_default_usable

statusVars == <<up, authFailures, scrapeErrors>>
metricVars == <<counters, usable>>

VARIABLES
  \* History, which no action reads except to bound the environment.
  happened,        \* ACL events by series since the exporter adopted the log
  readAt,          \* happened, when ACL LOG was last read
  complete,        \* no event since then was lost before it could be read
  added,           \* members added to binding sets since the poll whose scan
                   \*   is the first complete one began
  regressions,     \* times the default user became (or was found) usable
  closedProbes,    \* ACL DRYRUN probes that ended with an error
  disturbances     \* disturbances so far

historyVars == <<happened, readAt, complete, added, regressions, closedProbes>>

vars == <<serverVars, pollVars, aclVars, bindVars, defaultVars, statusVars,
          metricVars, historyVars, disturbances>>

-----------------------------------------------------------------------------
Absent == -1                   \* of a series: not in METRICS; of an id: unseen
Ids == 0 .. MaxDisturbances          \* the entry-ids that can occur
AclSeries == {"denied", "auth", "emergency"}
\* The counters _acl_counters is pre-seeded with, and the one _collect adds.
AclCounters == AclSeries \cup {"default"}
Series == AclCounters \cup {"binding"}

\* The counters that an ACL LOG entry of kind k feeds.
SeriesOf(k) ==
  (IF k.reason = "auth" THEN {"auth"} ELSE {"denied"})
    \cup (IF k.emergency THEN {"emergency"} ELSE {})

TypeOK ==
  /\ ServerTypeOK
  /\ pc \in {"sleep", "scan", "members", "acllog", "count", "publish",
             "dryrun", "finish", "note"}
  /\ linked \in BOOLEAN
  /\ unscanned \subseteq Keys /\ listed \subseteq Keys
  /\ current \subseteq Bindings
  /\ reply \in Seq(Entries)
  /\ toPublish \in Seq(AclCounters)
  /\ bootAcl \in BOOLEAN
  /\ seen \in [Ids -> Nat \cup {Absent}]
  /\ total \in [AclCounters -> Nat]
  /\ bootBind \in BOOLEAN
  /\ known \subseteq Bindings
  /\ churn \in Nat
  /\ usablePrev \in {0, 1}
  /\ defaultSuccess \in Nat
  /\ up \in {0, 1}
  /\ authFailures \in Nat
  /\ scrapeErrors \in Nat
  /\ counters \in [Series -> Nat \cup {Absent}]
  /\ usable \in {0, 1, Absent}
  /\ happened \in [AclSeries -> Nat]
  /\ readAt \in [AclSeries -> Nat]
  /\ complete \in BOOLEAN
  /\ added \in Nat /\ regressions \in Nat /\ closedProbes \in Nat
  /\ disturbances \in Nat

NoCounters == [c \in Series |-> Absent]
NoEvents == [c \in AclSeries |-> 0]
\* What ACL DRYRUN finds under posture p: 1 if the default user is usable.
FoundNopassOnly(p) == IF p = "nopass" THEN 1 ELSE 0   \* a mutated form
Found(p) == IF p = "off" THEN 0 ELSE 1

\* A new exporter process: Exporter.__init__ and Metrics.__init__.
ProcessInit ==
  /\ pc = "sleep" /\ linked = FALSE /\ reply = <<>> /\ toPublish = <<>>
  /\ unscanned = {} /\ listed = {} /\ current = {}
  /\ bootAcl = FALSE
  /\ seen = [i \in Ids |-> Absent]
  /\ total = [c \in AclCounters |-> 0]
  /\ bootBind = FALSE /\ known = {} /\ churn = 0
  /\ usablePrev = 0 /\ defaultSuccess = 0
  /\ up = 0 /\ authFailures = 0 /\ scrapeErrors = 0
  /\ counters = NoCounters
  /\ usable = Absent
  /\ happened = NoEvents /\ readAt = NoEvents
  /\ complete = TRUE
  /\ added = 0 /\ regressions = Found(posture) /\ closedProbes = 0

Init ==
  /\ ServerInit
  /\ ProcessInit
  /\ disturbances = 0

\* Every action of the environment, and every failure, is a disturbance.
Disturb ==
  /\ disturbances < MaxDisturbances
  /\ disturbances' = disturbances + 1

\* A failure counter after one more failure (polls can fail for ever).
Counted(n) == IF n < MaxErrors THEN n + 1 ELSE n

\* The edge detector of the default-user counter.
RisesWhileUsable(now) == now = 1                      \* a mutated form
Rises(now) == now = 1 /\ usablePrev = 0

-----------------------------------------------------------------------------
(* poll_once: the connection.                                              *)

\* RedisClient() connects and authenticates, and _collect issues the PING, INFO,
\* EXISTS and LLEN commands whose gauges are left out, and opens a SCAN.
Connect ==
  /\ pc = "sleep"
  /\ posture # "nopass"
  /\ pc' = "scan"
  /\ linked' = TRUE
  /\ unscanned' = Keys
  /\ added' = IF bootBind THEN added ELSE 0
  /\ UNCHANGED <<serverVars, listed, current, reply, toPublish, aclVars, bindVars,
                 defaultVars, statusVars, metricVars, happened, readAt, complete,
                 regressions, closedProbes, disturbances>>

\* Protected mode refuses the connection with an error text that
\* _note_protected_mode_nopass recognises.
RefusedNopass ==
  /\ pc = "sleep"
  /\ posture = "nopass"
  /\ up' = 0
  /\ scrapeErrors' = Counted(scrapeErrors)
  /\ pc' = "note"
  /\ UNCHANGED <<serverVars, linked, scanVars, reply, toPublish, aclVars, bindVars,
                 defaultVars, authFailures, metricVars, historyVars, disturbances>>

NoteNopass ==
  /\ pc = "note"
  /\ defaultSuccess' = IF Rises(1) THEN defaultSuccess + 1 ELSE defaultSuccess
  /\ usablePrev' = 1
  /\ usable' = 1
  /\ counters' = [counters EXCEPT !["default"] = defaultSuccess']
  /\ pc' = "sleep"
  /\ UNCHANGED <<serverVars, linked, scanVars, reply, toPublish, aclVars, bindVars,
                 statusVars, historyVars, disturbances>>

Commands == {"scan", "members", "acllog", "dryrun"}

\* A command on a connection that a restart of Redis has broken fails.
BrokenLink == pc \in Commands /\ ~linked /\ UNCHANGED disturbances

DropPoll ==
  /\ pc' = "sleep"
  /\ linked' = FALSE
  /\ unscanned' = {} /\ listed' = {} /\ current' = {}

\* A refused or timed-out connection, a timed-out command, or (before the
\* DRYRUN probe, which catches it) an error reply or a closed connection. What
\* was scanned of the bindings is lost with the call.
PollError ==
  /\ pc \in Commands \cup {"sleep"}
  /\ BrokenLink \/ Disturb
  /\ up' = 0
  /\ scrapeErrors' = Counted(scrapeErrors)
  /\ DropPoll
  /\ UNCHANGED <<serverVars, reply, toPublish, aclVars, bindVars, defaultVars,
                 authFailures, metricVars, historyVars>>

\* WRONGPASS at the connection, NOAUTH or NOPERM at a command.
PollAuthError ==
  /\ pc = "sleep" \/ (pc \in {"scan", "members", "acllog"} /\ linked)
  /\ Disturb
  /\ up' = 0
  /\ authFailures' = Counted(authFailures)
  /\ DropPoll
  /\ UNCHANGED <<serverVars, reply, toPublish, aclVars, bindVars, defaultVars,
                 scrapeErrors, metricVars, historyVars>>

-----------------------------------------------------------------------------
(* _collect.                                                               *)

\* scan_match: Redis goes on changing between the pages of a SCAN. The cursor
\* comes to every key at least once, and returns it if it exists at that moment:
\* a key that is there all the time is listed, one that comes or goes may be.
ScanKey ==
  /\ pc = "scan" /\ linked
  /\ \E k \in Keys :
       /\ unscanned' = unscanned \ {k}
       /\ listed' = IF MembersOf(k) # {} THEN listed \cup {k} ELSE listed
  /\ UNCHANGED <<serverVars, pc, linked, current, reply, toPublish, aclVars, bindVars,
                 defaultVars, statusVars, metricVars, historyVars, disturbances>>

EndScan ==
  /\ pc = "scan" /\ linked
  /\ unscanned = {} \/ ScanTruncates
  /\ unscanned' = {}
  /\ pc' = "members"
  /\ UNCHANGED <<serverVars, linked, listed, current, reply, toPublish, aclVars, bindVars,
                 defaultVars, statusVars, metricVars, historyVars, disturbances>>

\* One SMEMBERS for each key listed (for a key listed twice, the last one).
ReadMembers ==
  /\ pc = "members" /\ linked
  /\ \E k \in listed :
       /\ listed' = listed \ {k}
       /\ current' = current \cup MembersOf(k)
  /\ UNCHANGED <<serverVars, pc, linked, unscanned, reply, toPublish, aclVars, bindVars,
                 defaultVars, statusVars, metricVars, historyVars, disturbances>>

\* Members are creation events, except those found by the first scan.
AdditionsAtOnce(found) == found \ known               \* a mutated form
Additions(found) == IF bootBind THEN found \ known ELSE {}

CollectBindings ==
  /\ pc = "members" /\ listed = {}
  /\ churn' = churn + Cardinality(Additions(current))
  /\ known' = current
  /\ current' = {}
  /\ bootBind' = TRUE
  /\ counters' = [counters EXCEPT !["binding"] = churn']
  /\ pc' = "acllog"
  /\ UNCHANGED <<serverVars, linked, unscanned, listed, reply, toPublish, aclVars,
                 defaultVars, statusVars, usable, historyVars, disturbances>>

\* The order in which _acl_counters was seeded is that of its publication.
EmergencyUnseeded == <<"denied", "auth", "default">>             \* mutated forms
EmergencyFirst == <<"emergency", "denied", "auth", "default">>
PublishOrder == <<"denied", "auth", "emergency", "default">>

\* The first ACL LOG reply is adopted without counting it: the function
\* returns before it publishes anything.
AdoptAclLog ==
  /\ pc = "acllog" /\ linked
  /\ ~bootAcl
  /\ bootAcl' = TRUE
  /\ seen' = [i \in Ids |->
       LET old == {e \in Range(Newest(ReadMax)) : e.id = i}
       IN IF old = {} THEN seen[i] ELSE (CHOOSE e \in old : TRUE).count]
  /\ complete' = TRUE
  /\ pc' = "dryrun"
  /\ UNCHANGED <<serverVars, linked, scanVars, reply, toPublish, total, bindVars,
                 defaultVars, statusVars, metricVars, happened, readAt, added, regressions,
                 closedProbes, disturbances>>

\* Every later reply is walked entry by entry.
ReadAclLog ==
  /\ pc = "acllog" /\ linked
  /\ bootAcl
  /\ reply' = Newest(ReadMax)
  /\ readAt' = happened
  /\ pc' = "count"
  /\ UNCHANGED <<serverVars, linked, scanVars, toPublish, aclVars, bindVars, defaultVars,
                 statusVars, metricVars, happened, complete, added, regressions,
                 closedProbes, disturbances>>

\* What an entry adds: all of it when its id is new, else its growth.
DeltaUnclamped(e) ==                                  \* mutated forms
  IF seen[e.id] = Absent THEN e.count ELSE e.count - seen[e.id]
DeltaForgetful(e) == e.count
DeltaGrowthOnly(e) ==
  IF seen[e.id] # Absent /\ e.count > seen[e.id] THEN e.count - seen[e.id] ELSE 0
Delta(e) ==
  IF seen[e.id] = Absent THEN e.count
  ELSE IF e.count > seen[e.id] THEN e.count - seen[e.id] ELSE 0

CountEntry ==
  /\ pc = "count"
  /\ reply # <<>>
  /\ LET e == Head(reply) IN
       /\ seen' = [seen EXCEPT ![e.id] = e.count]
       /\ total' = [c \in AclCounters |-> IF c \in SeriesOf(e.kind) THEN total[c] + Delta(e) ELSE total[c]]
  /\ reply' = Tail(reply)
  /\ UNCHANGED <<serverVars, pc, linked, scanVars, toPublish, bootAcl, bindVars,
                 defaultVars, statusVars, metricVars, historyVars, disturbances>>

StartPublish ==
  /\ pc = "count"
  /\ reply = <<>>
  /\ toPublish' = PublishOrder
  /\ pc' = "publish"
  /\ UNCHANGED <<serverVars, linked, scanVars, reply, aclVars, bindVars, defaultVars,
                 statusVars, metricVars, historyVars, disturbances>>

\* One set_counter of the loop over _acl_counters.
Publish ==
  /\ pc = "publish"
  /\ toPublish # <<>>
  /\ counters' = [counters EXCEPT ![Head(toPublish)] = total[Head(toPublish)]]
  /\ toPublish' = Tail(toPublish)
  /\ pc' = IF Len(toPublish) = 1 THEN "dryrun" ELSE "publish"
  /\ UNCHANGED <<serverVars, linked, scanVars, reply, aclVars, bindVars, defaultVars,
                 statusVars, usable, historyVars, disturbances>>

\* The outcome of the default-user probe: a gauge, and a counter of its rises.
RecordProbe(now) ==
  /\ defaultSuccess' = IF Rises(now) THEN defaultSuccess + 1 ELSE defaultSuccess
  /\ usablePrev' = now
  /\ usable' = now
  /\ counters' = [counters EXCEPT !["default"] = defaultSuccess']
  /\ pc' = "finish"
  /\ UNCHANGED <<serverVars, linked, scanVars, reply, toPublish, aclVars, bindVars,
                 statusVars>>

\* ACL DRYRUN default PING: OK, or a refusal as a plain reply.
Probe ==
  /\ pc = "dryrun" /\ linked
  /\ RecordProbe(Found(posture))
  /\ UNCHANGED <<historyVars, disturbances>>

\* Any RespError counts as usable: an error reply, NOPERM, and also a
\* connection closed by Redis.
ProbeError ==
  /\ pc = "dryrun"
  /\ BrokenLink \/ Disturb
  /\ RecordProbe(1)
  /\ closedProbes' = closedProbes + 1
  /\ UNCHANGED <<happened, readAt, complete, added, regressions>>

Finish ==
  /\ pc = "finish"
  /\ up' = 1
  /\ pc' = "sleep"
  /\ linked' = FALSE
  /\ UNCHANGED <<serverVars, scanVars, reply, toPublish, aclVars, bindVars, defaultVars,
                 authFailures, scrapeErrors, metricVars,
                 historyVars, disturbances>>

-----------------------------------------------------------------------------
(* The environment: clients of Redis, Redis, and Docker.                   *)

exporterVars == <<pollVars, aclVars, bindVars, defaultVars, statusVars, counters,
                  usable>>

Unread(e) == e.count # seen[e.id]
Reach(log) == {log[i] : i \in {j \in DOMAIN log : j <= ReadMax}}
InReach(log, e) == \E f \in Reach(log) : f.id = e.id

\* A denied command or a failed authentication.
AclEvent ==
  /\ Disturb
  /\ \E k \in Kinds :
       /\ LogEvent(k)
       /\ happened' = [c \in AclSeries |->
            IF bootAcl /\ c \in SeriesOf(k) THEN happened[c] + 1 ELSE happened[c]]
  /\ complete' = (complete /\ \A e \in Reach(aclLog) : Unread(e) => InReach(aclLog', e))
  /\ UNCHANGED <<exporterVars, readAt, added, regressions, closedProbes>>

\* A restart may bring back bindings, or a default user that can be used.
RedisRestart ==
  /\ Disturb
  /\ RestartServer
  /\ linked' = FALSE
  /\ complete' = FALSE
  /\ added' = added + Cardinality(bindings' \ bindings)
  /\ regressions' = IF posture = "off" /\ posture' # "off" THEN regressions + 1 ELSE regressions
  /\ UNCHANGED <<pc, scanVars, reply, toPublish, aclVars, bindVars, defaultVars,
                 statusVars, metricVars, happened, readAt, closedProbes>>

PostureChange ==
  /\ Disturb
  /\ \E p \in Postures : SetPosture(p)
  /\ regressions' = IF posture = "off" THEN regressions + 1 ELSE regressions
  /\ UNCHANGED <<exporterVars, happened, readAt, complete, added, closedProbes>>

BindingChange ==
  /\ Disturb
  /\ \E b \in Bindings :
       \/ AddBinding(b) /\ added' = added + 1
       \/ RemoveBinding(b) /\ UNCHANGED added
  /\ UNCHANGED <<exporterVars, happened, readAt, complete, regressions, closedProbes>>

\* The container is restarted; Prometheus keeps what it scraped.
ExporterRestart ==
  /\ Disturb
  /\ DropPoll /\ reply' = <<>> /\ toPublish' = <<>>
  /\ bootAcl' = FALSE
  /\ seen' = [i \in Ids |-> Absent]
  /\ total' = [c \in AclCounters |-> 0]
  /\ bootBind' = FALSE /\ known' = {} /\ churn' = 0
  /\ usablePrev' = 0 /\ defaultSuccess' = 0
  /\ up' = 0 /\ authFailures' = 0 /\ scrapeErrors' = 0
  /\ counters' = NoCounters
  /\ usable' = Absent
  /\ happened' = NoEvents /\ readAt' = NoEvents
  /\ complete' = TRUE
  /\ added' = 0 /\ regressions' = Found(posture) /\ closedProbes' = 0
  /\ UNCHANGED <<serverVars>>

-----------------------------------------------------------------------------
PollStep ==
  \/ Connect \/ RefusedNopass \/ NoteNopass \/ PollError \/ PollAuthError
  \/ ScanKey \/ EndScan \/ ReadMembers \/ CollectBindings \/ AdoptAclLog \/ ReadAclLog \/ CountEntry
  \/ StartPublish \/ Publish \/ Probe \/ ProbeError \/ Finish

Environment ==
  \/ AclEvent \/ RedisRestart \/ PostureChange \/ BindingChange \/ ExporterRestart

Next == PollStep \/ Environment

Spec == Init /\ [][Next]_vars

\* The poll loop never stops: every socket operation has a timeout.
FairSpec == Spec /\ WF_vars(PollStep)
-----------------------------------------------------------------------------
(* Properties.                                                             *)

\* The ACL counters never run ahead of the events that happened since the
\* exporter adopted the log: no event of an entry that was there before is
\* counted (neither of the newest 128, which the snapshot holds, nor of the
\* older ones, which it does not), and a re-read, an entry read in two polls
\* or an entry-id reused by a restarted Redis counts nothing twice (the
\* snapshot and max(0, count - previous) of _collect_acl_log).
AdoptedNotCounted ==
  \A c \in AclSeries : total[c] <= happened[c]

\* When a poll has accounted its reply, the counters equal the number of
\* events at the moment of the read, unless Redis restarted or the log
\* rolled over an entry before it was read ("growth survives ring-buffer
\* aging").
NothingMissed ==
  (pc = "publish" /\ complete) => \A c \in AclSeries : total[c] = readAt[c]

\* Outside a publication every scrape shows, for each series, exactly the
\* events of the last reply: the loop over _acl_counters, which nothing can
\* interrupt, leaves no series behind, and no failed poll, probe or refusal
\* before or after it touches one.
Shown(c) == IF counters[c] = Absent THEN 0 ELSE counters[c]
PublishedAsRead ==
  (pc \notin {"count", "publish"} /\ complete) =>
    \A c \in AclSeries : Shown(c) = readAt[c]

\* An emergency use is at the same time a denial or an auth failure. A scrape
\* that lands in the middle of the publication loop never shows the first
\* without the second.
EmergencyAccounted ==
  counters["emergency"] # Absent =>
    /\ counters["denied"] # Absent /\ counters["auth"] # Absent
    /\ counters["emergency"] <= counters["denied"] + counters["auth"]

\* Prometheus never sees an ACL or binding counter of one exporter process go
\* down or disappear, whatever happens to Redis: increase() takes a drop for
\* a restart and adds the whole counter again.
NeverDrops(c) == ExporterRestart \/ counters'[c] >= counters[c]
CountersNeverDrop == [][\A c \in AclSeries \cup {"binding"} : NeverDrops(c)]_vars

\* The default-user counter rises at most once for each time the default user
\* became usable and each probe that failed: polling a standing regression
\* again, by DRYRUN or through the protected-mode refusal, adds nothing.
OneAlarmPerRegression == defaultSuccess <= regressions + closedProbes

\* Complete scans count no more bindings than were created since the poll of
\* the first of them began, although SCAN and the SMEMBERS after it see the
\* binding sets at different moments: one that is created, or deleted and
\* created again, while they run is counted by a later poll, and only once.
BindingEventsReal == ~ScanTruncates => churn <= added

\* Every event after adoption reaches Prometheus, unless its entry was lost in
\* Redis or the exporter restarted, provided the default user does not stay
\* passwordless (which keeps the exporter out).
EventsReachPrometheus ==
  <>[](posture # "nopass") =>
    \A c \in AclSeries : \A n \in 1 .. MaxDisturbances :
      (happened[c] >= n) ~>
        \/ counters[c] >= n
        \/ ~complete
        \/ happened[c] < n

\* A default user that stays usable is eventually, and then for ever, flagged
\* by the published gauge, even when protected mode locks the exporter out.
StandingRegressionFlagged ==
  <>[](posture # "off") => <>[](usable = 1)

-----------------------------------------------------------------------------
(* What comments and documents say, and the code does not do.              *)

\* The default-user counter is a counter too ("increase() stays correct").
DefaultCounterNeverDrops == [][NeverDrops("default")]_vars
=============================================================================
