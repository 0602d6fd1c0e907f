--------------------------- MODULE Spec037Harness ---------------------------
(***************************************************************************)
(* The acceptance harness of the Creditsafe enrichment                     *)
(* (scripts/spec037_acceptance_harness.py): a set of commands, each a      *)
(* process of its own, which seed synthetic organizations into the         *)
(* deployed database and run the enrichment stage on them against a mock   *)
(* of the provider. Each scenario prints a sheet of checks.                *)
(*                                                                         *)
(* The stage, its client, its budget guard and its store belong to another *)
(* repository: run_creditsafe_stage is taken here as the scenarios use it. *)
(* The database outlives the commands; the mock and the guard do not. The  *)
(* operator runs the commands in any order, redeploys with other budgets   *)
(* between them, and a command may be interrupted between two steps.       *)
(*                                                                         *)
(* Left out: the evidence that is printed with the checks, and the         *)
(* commands that only print or only seed other stores. Of the checks,      *)
(* those that the runs cannot turn red: history_retains_run1 (the external *)
(* store only appends), exact_decimal_score, provider_scale_kept and       *)
(* no_zero_score_written (conversions of the values that the mocks offer,  *)
(* none of which is 0), cross_tenant_reads_empty (row security of the      *)
(* database) and stale_was_marked_stale_input (a value just written is     *)
(* compared with itself).                                                  *)
(***************************************************************************)
EXTENDS Integers, Sequences, FiniteSets, SequencesExt

CONSTANTS
  Budgets,      \* the budgets a deployment may set: units for searches, for reports
  MaxCommands   \* bound: how many commands are run

Counts == [search : Nat, report : Nat]

ASSUME HarnessAssumption ==
  /\ Budgets \subseteq Counts
  /\ MaxCommands \in Nat

TenantA == {"A1", "A2", "A3", "A4"}
Orgs == TenantA \cup {"B1"}
Tenant(o) == IF o \in TenantA THEN TenantA ELSE Orgs \ TenantA
ConnectIds == {"CS-S037-A1", "CS-S037-A2", "CS-S037-A4"}

VARIABLES
  \* What outlives a command.
  limit,     \* the two budgets of the deployment
  rows,      \* the fixture rows of each organization
  scores,    \* of each organization: its connect ids, its score observations and
             \* whether the last is stale, and whether it has a state row
  \* The command that runs.
  cmd,
  step,      \* its next step
  mock,      \* the responders of the report route
  guard,     \* the budget units left
  calls,     \* the requests the mock has recorded
  before,    \* what the command found when it began
  log,       \* what it noted after each run of the stage
  \* The environment and history.
  commands,  \* how many commands were begun
  sheet      \* the sheet of the last command that printed one

database == <<limit, rows, scores>>
process == <<cmd, step, mock, guard, calls, before, log>>
vars == <<database, process, commands, sheet>>

-----------------------------------------------------------------------------
(* The commands.                                                           *)

\* The fixture rows of an organization, in the order of their transactions.
Parts(o) ==
  <<"org">> \o (IF o \in {"A1", "A2", "B1"} THEN <<"address">> ELSE <<>>)
    \o <<"registration", "vat">> \o (IF o \in {"A1", "A2"} THEN <<"role">> ELSE <<>>)
RowsOf(o) == [i \in DOMAIN Parts(o) |-> [org |-> o, part |-> Parts(o)[i]]]
Fixtures == RowsOf("A1") \o RowsOf("A2") \o RowsOf("A3") \o RowsOf("A4") \o RowsOf("B1")

\* A run of the stage. mock: the responders of the provider that is made for it;
\* <<>> if it shares that of the run before.
Run(o, offer, force, responders) ==
  [org |-> o, offer |-> offer, force |-> force, mock |-> responders]
Ok == <<"ok">>
Unrouted == <<"off">>      \* a mock without routes

SuccessRuns ==
  <<Run("A1", "CS-S037-A1", FALSE, Ok), Run("A1", "CS-S037-A1", FALSE, <<>>),
    Run("A1", "CS-S037-A1", TRUE, <<>>)>>
ZeroBudgetRuns == <<Run("A2", "CS-S037-A2", FALSE, Unrouted)>>
BoundaryRuns == <<Run("A2", "CS-S037-A2", FALSE, Ok), Run("A2", "CS-S037-A2", TRUE, <<>>)>>
RecoverRuns ==
  <<Run("A1", "CS-S037-A1", TRUE, <<"failed section">>),
    Run("A1", "CS-S037-A1", TRUE, <<"503", "ok">>)>>
ConflictRuns == <<Run("A3", "CS-S037-A2", FALSE, Ok), Run("B1", "CS-S037-A2", FALSE, Ok)>>
StaleRuns == <<Run("A4", "CS-S037-A4", FALSE, Ok)>>
RefreshRuns == <<Run("A4", "CS-S037-A4", TRUE, Ok)>>

Script ==
  [success |-> SuccessRuns, zero_budget |-> ZeroBudgetRuns,
   budget_boundary |-> BoundaryRuns, failure_recover |-> RecoverRuns,
   conflicts |-> ConflictRuns, stale |-> StaleRuns, refresh_a4 |-> RefreshRuns]
Scenarios == DOMAIN Script
Commands == Scenarios \cup {"seed_fixtures"}

Statuses == {"REFRESHED", "REUSED", "SKIPPED_BUDGET_EXHAUSTED", "UNAVAILABLE",
             "IDENTITY_CONFLICT", "OTHER"}
Zero == [search |-> 0, report |-> 0]
Notes == [status : Statuses, score : Nat, calls : Counts, guard : Counts]
Scores == [ids : SUBSET ConnectIds, last : Nat, stale : BOOLEAN, state : BOOLEAN]
Responders == {"ok", "503", "failed section", "off"}

TypeOK ==
  /\ limit \in Budgets
  /\ rows \in [Orgs -> SUBSET {"org", "address", "registration", "vat", "role"}]
  /\ scores \in [Orgs -> Scores]
  /\ cmd \in Commands \cup {"none"}
  /\ step \in Nat \ {0}
  /\ mock \in Seq(Responders)
  /\ guard \in Counts
  /\ calls \in Counts
  /\ before \in [scores : [Orgs -> Scores], prepared : BOOLEAN]
  /\ log \in Seq(Notes)
  /\ commands \in 0 .. MaxCommands
  /\ sheet.cmd \in Commands \cup {"none"} /\ sheet.prepared \in BOOLEAN
  /\ sheet.open \in BOOLEAN /\ sheet.green \in BOOLEAN

NoScore == [ids |-> {}, last |-> 0, stale |-> FALSE, state |-> FALSE]
NoSheet == [cmd |-> "none", prepared |-> FALSE, open |-> FALSE, green |-> FALSE]
Nothing == [scores |-> [o \in Orgs |-> NoScore], prepared |-> FALSE]

Init ==
  /\ limit \in Budgets
  /\ rows = [o \in Orgs |-> {}]
  /\ scores = [o \in Orgs |-> NoScore]
  /\ cmd = "none" /\ step = 1 /\ mock = <<>> /\ guard = Zero /\ calls = Zero
  /\ before = Nothing /\ log = <<>>
  /\ commands = 0
  /\ sheet = NoSheet

-----------------------------------------------------------------------------
Complete(o) == rows[o] = Range(Parts(o))
Fresh(o) == scores[o].last > 0 /\ ~scores[o].stale
\* Another organization of the tenant has the connect id.
Taken(o, id) == \E p \in Tenant(o) \ {o} : id \in scores[p].ids

\* What a scenario relies on when it begins, and nothing in the code enforces.
Searchable(o) == scores[o].ids # {} \/ limit.search >= 1
Prepared(c) ==
  CASE c = "success" ->
         /\ Complete("A1") /\ ~Fresh("A1")
         /\ Searchable("A1") /\ limit.report >= 2
    [] c = "zero_budget" ->
         Complete("A2") /\ scores["A2"].last = 0 /\ limit.search = 0
    [] c = "budget_boundary" ->
         /\ Complete("A2") /\ ~Fresh("A2") /\ scores["A2"].ids = {}
         /\ ~Taken("A2", "CS-S037-A2") /\ limit.search = 1 /\ limit.report = 1
    [] c = "failure_recover" ->
         /\ Complete("A1") /\ scores["A1"].state
         /\ Searchable("A1") /\ limit.report = 4
    [] c = "conflicts" ->
         /\ Complete("A3") /\ Complete("B1") /\ limit.search >= 1 /\ limit.report >= 1
         /\ Taken("A3", "CS-S037-A2") /\ scores["A2"].last > 0
         /\ scores["A3"].ids = {} /\ scores["A3"].last = 0 /\ ~Fresh("B1")
    [] c = "stale" -> Complete("A4") /\ Searchable("A4") /\ limit.report >= 1
    [] OTHER -> FALSE

\* With units for searches and none for reports, it is the stage's own affair
\* whether it spends a search before it skips.
Open(c) == c = "zero_budget" /\ limit.search >= 1 /\ limit.report = 0

Begin(c) ==
  /\ cmd = "none" /\ commands < MaxCommands
  /\ commands' = commands + 1
  /\ cmd' = c
  /\ before' = [scores |-> scores, prepared |-> Prepared(c)]
  /\ sheet' = NoSheet
  /\ UNCHANGED <<database, step, mock, guard, calls, log>>

\* The process ends, with all it held: it has returned, raised or was killed.
Ends ==
  /\ cmd' = "none" /\ step' = 1
  /\ mock' = <<>> /\ guard' = Zero /\ calls' = Zero
  /\ before' = Nothing /\ log' = <<>>

Interrupted ==
  /\ cmd # "none"
  /\ Ends
  /\ UNCHANGED <<database, commands, sheet>>

\* Other budgets, or the observations grow older than the freshness window.
Redeploy ==
  /\ cmd = "none"
  /\ limit' \in Budgets \ {limit}
  /\ UNCHANGED <<rows, scores, process, commands, sheet>>

TimePasses ==
  /\ cmd = "none"
  /\ scores' = [o \in Orgs |-> [scores[o] EXCEPT !.stale = scores[o].last > 0]]
  /\ UNCHANGED <<limit, rows, process, commands, sheet>>

-----------------------------------------------------------------------------
(* seed-fixtures: a transaction for each row, in order.                    *)

Seeding == cmd = "seed_fixtures" /\ step <= Len(Fixtures)
Row == Fixtures[step]

SkipsPresent ==                                       \* a mutated form
  /\ Seeding
  /\ step' = IF Row.part = "org" /\ "org" \in rows[Row.org]
             THEN step + Len(Parts(Row.org)) ELSE step + 1
  /\ rows' = [rows EXCEPT ![Row.org] = @ \cup {Row.part}]
  /\ UNCHANGED <<limit, scores, cmd, mock, guard, calls, before, log, commands, sheet>>
InsertRow ==
  /\ Seeding
  /\ Row.part \notin rows[Row.org]
  /\ rows' = [rows EXCEPT ![Row.org] = @ \cup {Row.part}]
  /\ step' = step + 1
  /\ UNCHANGED <<limit, scores, cmd, mock, guard, calls, before, log, commands, sheet>>

\* The organization is there (no other row is met twice): its key raises, and the
\* command ends.
RowExists ==
  /\ Seeding
  /\ Row.part \in rows[Row.org]
  /\ Ends
  /\ UNCHANGED <<database, commands, sheet>>

ReportSeeded ==
  /\ cmd = "seed_fixtures" /\ step > Len(Fixtures)
  /\ sheet' = [cmd |-> cmd, prepared |-> before.prepared, open |-> FALSE, green |-> TRUE]
  /\ Ends
  /\ UNCHANGED <<database, commands>>

-----------------------------------------------------------------------------
(* The mock and the provider.                                              *)

\* The responder that answers a request to the report route, and those left: the
\* last one stays.
Reply(m) == IF m = <<>> THEN "unrouted" ELSE Head(m)
AlwaysPops(m) == IF m = <<>> THEN m ELSE Tail(m)      \* a mutated form
Left(m) == IF Len(m) > 1 THEN Tail(m) ELSE m

\* A report is fetched again, once and for the same unit, after a transient error.
Attempts(m) == IF Reply(m) = "503" THEN 2 ELSE 1
Fetched(m) == IF Reply(m) = "503" THEN Reply(Left(m)) ELSE Reply(m)
AfterFetch(m) == IF Reply(m) = "503" THEN Left(Left(m)) ELSE Left(m)

UnitLess(r) ==                                        \* a mutated form
  IF r.mock = <<>> THEN [mock |-> mock, guard |-> guard, calls |-> calls]
  ELSE [mock |-> r.mock, guard |-> [limit EXCEPT !.report = @ - 1], calls |-> Zero]
Swapped(r) ==                                         \* a mutated form
  IF r.mock = <<>> THEN [mock |-> mock, guard |-> guard, calls |-> calls]
  ELSE [mock |-> r.mock, guard |-> [search |-> limit.report, report |-> limit.search],
        calls |-> Zero]
\* make_mock_provider, unless the run shares the provider of the one before.
Provider(r) ==
  IF r.mock = <<>> THEN [mock |-> mock, guard |-> guard, calls |-> calls]
  ELSE [mock |-> r.mock, guard |-> limit, calls |-> Zero]

-----------------------------------------------------------------------------
(* run_creditsafe_stage, as the scenarios use it.                          *)

Searches(r) == scores[r.org].ids = {}

\* early: it looks for a report unit before it searches, which the scenarios leave
\* open.
StageStatus(r, p, early) ==
  IF ~Complete(r.org) THEN "OTHER"
  ELSE IF ~r.force /\ Fresh(r.org) THEN "REUSED"
  ELSE IF IF Searches(r) THEN p.guard.search = 0 \/ (early /\ p.guard.report = 0)
          ELSE p.guard.report = 0
       THEN "SKIPPED_BUDGET_EXHAUSTED"
  ELSE IF Searches(r) /\ p.mock = Unrouted THEN "UNAVAILABLE"
  ELSE IF Searches(r) /\ Taken(r.org, r.offer) THEN "IDENTITY_CONFLICT"
  ELSE IF p.guard.report = 0 THEN "SKIPPED_BUDGET_EXHAUSTED"
  ELSE IF Fetched(p.mock) = "ok" THEN "REFRESHED" ELSE "UNAVAILABLE"

\* What a run uses up of the provider, and what it stores: an attempt leaves a
\* state row, a skipped one may.
Attempted == {"REFRESHED", "UNAVAILABLE", "IDENTITY_CONFLICT"}
SearchedInVain(p, status, early) ==
  status = "SKIPPED_BUDGET_EXHAUSTED" /\ p.guard.search # 0 /\ ~early
Searched(r, p, status, early) ==
  IF Searches(r) /\ (status \in Attempted \/ SearchedInVain(p, status, early)) THEN 1 ELSE 0
Reported(r, p, status) ==
  status \in {"REFRESHED", "UNAVAILABLE"} /\ ~(Searches(r) /\ p.mock = Unrouted)

Stored(r, status, state) ==
  CASE status = "REFRESHED" ->
         [ids |-> IF Searches(r) THEN {r.offer} ELSE scores[r.org].ids,
          last |-> scores[r.org].last + 1, stale |-> FALSE, state |-> TRUE]
    [] status # "REFRESHED" ->
         [scores[r.org] EXCEPT !.state = @ \/ state
            \/ status \in Attempted]

\* The stale observation that the scenario records itself, before the stage runs.
RecordStale ==
  /\ cmd = "stale" /\ step = 1 /\ before.scores["A4"] = scores["A4"]
  /\ "org" \in rows["A4"]
  /\ scores' = [scores EXCEPT !["A4"] =
       [ids |-> @.ids, last |-> @.last + 1, stale |-> TRUE, state |-> TRUE]]
  /\ UNCHANGED <<limit, rows, process, commands, sheet>>

RunStage ==
  /\ cmd \in Scenarios /\ step <= Len(Script[cmd])
  /\ cmd = "stale" => before.scores["A4"] # scores["A4"]
  /\ \E early \in BOOLEAN :
     LET r == Script[cmd][step]
         p == Provider(r)
         status == StageStatus(r, p, early)
         searches == Searched(r, p, status, early)
         fetches == IF Reported(r, p, status) THEN Attempts(p.mock) ELSE 0
     IN /\ \E state \in IF status = "SKIPPED_BUDGET_EXHAUSTED" THEN BOOLEAN ELSE {FALSE} :
             scores' = [scores EXCEPT ![r.org] = Stored(r, status, state)]
        /\ mock' = IF Reported(r, p, status) THEN AfterFetch(p.mock) ELSE p.mock
        /\ guard' = [search |-> p.guard.search - searches,
                     report |-> p.guard.report - (IF Reported(r, p, status) THEN 1 ELSE 0)]
        /\ calls' = [search |-> p.calls.search + searches,
                     report |-> p.calls.report + fetches]
        /\ log' = Append(log, [status |-> status, score |-> scores'[r.org].last,
                               calls |-> calls', guard |-> guard'])
  /\ step' = step + 1
  /\ UNCHANGED <<limit, rows, cmd, before, commands, sheet>>

-----------------------------------------------------------------------------
(* The checks of a scenario, on what it noted and on the database.         *)

SuccessChecks ==
  /\ log[1].status = "REFRESHED" /\ log[2].status = "REUSED"
  /\ log[2].calls = log[1].calls /\ log[2].guard = log[1].guard
  /\ log[3].status = "REFRESHED" /\ log[3].score # log[1].score
  /\ Cardinality(scores["A1"].ids) = 1
ZeroBudgetChecks ==
  /\ log[1].status = "SKIPPED_BUDGET_EXHAUSTED"
  /\ log[1].calls = Zero
  /\ log[1].score = before.scores["A2"].last /\ scores["A2"].last = 0
BoundaryChecks ==
  /\ log[1].status = "REFRESHED" /\ log[2].status = "SKIPPED_BUDGET_EXHAUSTED"
  /\ log[2].calls = log[1].calls
  /\ limit.search = 1 /\ limit.report = 1 /\ guard = Zero
RecoverChecks ==
  /\ log[1].status = "UNAVAILABLE"
  /\ log[1].score = before.scores["A1"].last
  /\ log[2].status = "REFRESHED"
  /\ log[2].calls.report = 2 /\ log[2].guard.report = 3
ConflictChecks ==
  /\ log[1].status = "IDENTITY_CONFLICT"
  /\ scores["A3"].ids = {} /\ log[1].score = 0
  /\ scores["A2"].last > 0
  /\ log[2].status = "REFRESHED" /\ Cardinality(scores["B1"].ids) = 1
StaleChecks ==
  /\ log[1].status = "REFRESHED"
  /\ log[1].score # before.scores["A4"].last + 1

Green(c) ==
  CASE c = "success"         -> SuccessChecks
    [] c = "zero_budget"     -> ZeroBudgetChecks
    [] c = "budget_boundary" -> BoundaryChecks
    [] c = "failure_recover" -> RecoverChecks
    [] c = "conflicts"       -> ConflictChecks
    [] c = "stale"           -> StaleChecks
    [] OTHER                 -> TRUE      \* refresh-a4 prints no checks

Finished == cmd \in Scenarios /\ step > Len(Script[cmd])
\* before_state is None: comparing with its fields is a TypeError.
NoStateBefore == cmd = "failure_recover" /\ ~before.scores["A1"].state

\* The sheet is printed, and the exit code is 0 whatever it says.
Report ==
  /\ Finished /\ ~NoStateBefore
  /\ sheet' = [cmd |-> cmd, prepared |-> before.prepared, open |-> Open(cmd),
                green |-> Green(cmd)]
  /\ Ends
  /\ UNCHANGED <<database, commands>>

ReportRaises ==
  /\ Finished /\ NoStateBefore
  /\ Ends
  /\ UNCHANGED <<database, commands, sheet>>

-----------------------------------------------------------------------------
Harness ==
  \/ InsertRow \/ RowExists \/ ReportSeeded
  \/ RecordStale \/ RunStage \/ Report \/ ReportRaises

Operator ==
  \/ \E c \in Commands : Begin(c)
  \/ Redeploy \/ TimePasses \/ Interrupted

Next == Harness \/ Operator

Spec == Init /\ [][Next]_vars

-----------------------------------------------------------------------------
(* Properties.                                                             *)

\* Whatever was run before, in whatever order, with whatever interruptions and
\* budgets: a scenario that prints its sheet prints a green one exactly if it was
\* prepared when it began. A second run, or one out of order, is never green by
\* accident, and a prepared one never red. Left open is zero_budget where only
\* the report budget is zero: the stage decides whether it searches first.
GreenIffPrepared ==
  sheet.cmd \in Scenarios \ {"refresh_a4"} /\ ~sheet.open
    => (sheet.green <=> sheet.prepared)

\* seed-fixtures reports only fixtures that are all there, though an interrupted
\* one may have left some of them.
SeededMeansComplete ==
  sheet.cmd = "seed_fixtures" => \A o \in Orgs : Complete(o)

\* No provider spends more of either budget than its deployment gives, the retries
\* of a report aside: searches are not paid with report units, nor reports with
\* search units.
BudgetHolds ==
  /\ calls.search <= limit.search
  /\ calls.report <= 2 * limit.report
=============================================================================
