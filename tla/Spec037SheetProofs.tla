------------------------- MODULE Spec037SheetProofs -------------------------
(***************************************************************************)
(* Proof that the sheet of a scenario is green exactly if the scenario was *)
(* prepared, for every set of budgets and any number of commands in any    *)
(* order. The invariant says of each scenario what its runs so far have    *)
(* decided of its sheet.                                                   *)
(***************************************************************************)
EXTENDS Spec037HarnessProofs, FiniteSetTheorems

-----------------------------------------------------------------------------
(* The invariant.                                                          *)

\* An organization only ever has the connect id that it is offered, and has it with
\* its first score.
Offer(o) ==
  CASE o = "A1" -> "CS-S037-A1"
    [] o = "A4" -> "CS-S037-A4"
    [] OTHER    -> "CS-S037-A2"
IdsInv ==
  \A o \in Orgs : /\ scores[o].ids \in {{}, {Offer(o)}}
                  /\ scores[o].ids # {} => scores[o].last > 0

\* success, budget_boundary: the first run has fetched a report.
Enriched == log[1].status = "REFRESHED"

\* All runs of success share one provider: the observation of the first is fresh for
\* the second, and the third needs a second unit.
SuccessInv ==
  /\ step \in {2, 3} =>
       /\ before.prepared <=> Enriched /\ limit.report >= 2
       /\ Enriched =>
            /\ Complete("A1") /\ Fresh("A1") /\ scores["A1"].ids # {}
            /\ mock = Ok /\ guard.report = limit.report - 1
            /\ log[1].score = scores["A1"].last
            /\ log[1].calls = calls /\ log[1].guard = guard
  /\ step = 3 /\ Enriched =>
       log[2].status = "REUSED" /\ log[2].calls = calls /\ log[2].guard = guard

\* What the first run has left of the one unit of each kind.
BoundaryInv ==
  step = 2 =>
    /\ before.prepared <=>
         Enriched /\ limit.search = 1 /\ limit.report = 1 /\ guard.search = 0
    /\ Enriched =>
         /\ Complete("A2") /\ scores["A2"].ids # {}
         /\ guard.report = limit.report - 1
         /\ log[1].calls = calls

\* The first run fails on its section and keeps what was there.
RecoverInv ==
  step = 2 =>
    /\ before.prepared <=>
         /\ Complete("A1") /\ before.scores["A1"].state
         /\ Searchable("A1") /\ limit.report = 4
    /\ Complete("A1") /\ Searchable("A1") /\ limit.report >= 1 =>
         log[1].status = "UNAVAILABLE"
    /\ log[1].score = before.scores["A1"].last

\* The second run is of the other tenant, and leaves the first alone.
ConflictInv ==
  step = 2 =>
    /\ before.prepared <=>
         /\ log[1].status = "IDENTITY_CONFLICT" /\ log[1].score = 0
         /\ scores["A2"].last > 0 /\ Complete("B1") /\ ~Fresh("B1")
         /\ limit.report >= 1
    /\ log[1].status = "IDENTITY_CONFLICT" => scores["A3"].ids = {} /\ limit.search >= 1

\* The scenario has recorded its own stale observation.
StaleInv ==
  step = 1 /\ scores["A4"] # before.scores["A4"] =>
    scores["A4"].last = before.scores["A4"].last + 1 /\ scores["A4"].stale

\* Before its first run.
BeginInv ==
  step = 1 =>
    /\ before.prepared <=> Prepared(cmd)
    /\ cmd # "stale" => scores = before.scores

\* After its last run.
EndInv ==
  step > Len(Script[cmd]) /\ cmd # "refresh_a4" =>
    NoStateBefore \/ Open(cmd) \/ (before.prepared <=> Green(cmd))

ScenarioInv ==
  /\ cmd = "none" => log = <<>>
  /\ cmd \in Scenarios =>
       /\ step <= Len(Script[cmd]) + 1 /\ Len(log) = step - 1
       /\ BeginInv /\ EndInv
       /\ cmd = "success" => SuccessInv
       /\ cmd = "budget_boundary" => BoundaryInv
       /\ cmd = "failure_recover" => RecoverInv
       /\ cmd = "conflicts" => ConflictInv
       /\ cmd = "stale" => StaleInv

SheetInv == IdsInv /\ ScenarioInv /\ GreenIffPrepared

-----------------------------------------------------------------------------
(* The scripts and the mocks, run by run.                                  *)

LEMMA ScenarioNames ==
  /\ Scenarios = {"success", "zero_budget", "budget_boundary", "failure_recover",
                  "conflicts", "stale", "refresh_a4"}
  /\ "none" \notin Commands /\ "seed_fixtures" \notin Scenarios
  BY DEF Scenarios, Commands, Script

LEMMA Mocks ==
  /\ Ok # <<>> /\ Unrouted # <<>> /\ <<"failed section">> # <<>> /\ <<"503", "ok">> # <<>>
  /\ Ok # Unrouted /\ <<"failed section">> # Unrouted /\ <<"503", "ok">> # Unrouted
  /\ Fetched(Ok) = "ok" /\ Attempts(Ok) = 1 /\ AfterFetch(Ok) = Ok
  /\ Fetched(<<"failed section">>) = "failed section"
  /\ Fetched(<<"503", "ok">>) = "ok" /\ Attempts(<<"503", "ok">>) = 2
  <1>1. /\ Ok # <<>> /\ Unrouted # <<>> /\ <<"failed section">> # <<>> /\ <<"503", "ok">> # <<>>
    BY DEF Ok, Unrouted
  <1>2. /\ Ok # Unrouted /\ <<"failed section">> # Unrouted /\ <<"503", "ok">> # Unrouted
    BY DEF Ok, Unrouted
  <1>3. /\ Reply(Ok) = "ok" /\ Left(Ok) = Ok
        /\ Reply(<<"failed section">>) = "failed section"
        /\ Reply(<<"503", "ok">>) = "503" /\ Left(<<"503", "ok">>) = Ok
    BY <1>1 DEF Reply, Left, Ok
  <1>4. QED
    BY <1>1, <1>2, <1>3 DEF Fetched, Attempts, AfterFetch

LEMMA Scripts ==
  /\ Script["success"] = SuccessRuns /\ Script["zero_budget"] = ZeroBudgetRuns
  /\ Script["budget_boundary"] = BoundaryRuns /\ Script["failure_recover"] = RecoverRuns
  /\ Script["conflicts"] = ConflictRuns /\ Script["stale"] = StaleRuns
  /\ Script["refresh_a4"] = RefreshRuns
  BY DEF Script

LEMMA ScriptLengths ==
  /\ Len(Script["success"]) = 3 /\ Len(Script["zero_budget"]) = 1
  /\ Len(Script["budget_boundary"]) = 2 /\ Len(Script["failure_recover"]) = 2
  /\ Len(Script["conflicts"]) = 2 /\ Len(Script["stale"]) = 1
  /\ Len(Script["refresh_a4"]) = 1
  BY Scripts DEF SuccessRuns, ZeroBudgetRuns, BoundaryRuns, RecoverRuns, ConflictRuns,
     StaleRuns, RefreshRuns

LEMMA RunFields ==
  \A o, i, f, m : /\ Run(o, i, f, m).org = o /\ Run(o, i, f, m).offer = i
                  /\ Run(o, i, f, m).force = f /\ Run(o, i, f, m).mock = m
  BY DEF Run

LEMMA ScriptRuns ==
  /\ Script["success"][1] = Run("A1", "CS-S037-A1", FALSE, Ok)
  /\ Script["success"][2] = Run("A1", "CS-S037-A1", FALSE, <<>>)
  /\ Script["success"][3] = Run("A1", "CS-S037-A1", TRUE, <<>>)
  /\ Script["zero_budget"][1] = Run("A2", "CS-S037-A2", FALSE, Unrouted)
  /\ Script["budget_boundary"][1] = Run("A2", "CS-S037-A2", FALSE, Ok)
  /\ Script["budget_boundary"][2] = Run("A2", "CS-S037-A2", TRUE, <<>>)
  /\ Script["failure_recover"][1] = Run("A1", "CS-S037-A1", TRUE, <<"failed section">>)
  /\ Script["failure_recover"][2] = Run("A1", "CS-S037-A1", TRUE, <<"503", "ok">>)
  /\ Script["conflicts"][1] = Run("A3", "CS-S037-A2", FALSE, Ok)
  /\ Script["conflicts"][2] = Run("B1", "CS-S037-A2", FALSE, Ok)
  /\ Script["stale"][1] = Run("A4", "CS-S037-A4", FALSE, Ok)
  /\ Script["refresh_a4"][1] = Run("A4", "CS-S037-A4", TRUE, Ok)
  <1>1. /\ SuccessRuns[1] = Run("A1", "CS-S037-A1", FALSE, Ok)
        /\ SuccessRuns[2] = Run("A1", "CS-S037-A1", FALSE, <<>>)
        /\ SuccessRuns[3] = Run("A1", "CS-S037-A1", TRUE, <<>>)
    BY DEF SuccessRuns
  <1>2. ZeroBudgetRuns[1] = Run("A2", "CS-S037-A2", FALSE, Unrouted)
    BY DEF ZeroBudgetRuns
  <1>3. /\ BoundaryRuns[1] = Run("A2", "CS-S037-A2", FALSE, Ok)
        /\ BoundaryRuns[2] = Run("A2", "CS-S037-A2", TRUE, <<>>)
    BY DEF BoundaryRuns
  <1>4. /\ RecoverRuns[1] = Run("A1", "CS-S037-A1", TRUE, <<"failed section">>)
        /\ RecoverRuns[2] = Run("A1", "CS-S037-A1", TRUE, <<"503", "ok">>)
    BY DEF RecoverRuns
  <1>5. /\ ConflictRuns[1] = Run("A3", "CS-S037-A2", FALSE, Ok)
        /\ ConflictRuns[2] = Run("B1", "CS-S037-A2", FALSE, Ok)
    BY DEF ConflictRuns
  <1>6. /\ StaleRuns[1] = Run("A4", "CS-S037-A4", FALSE, Ok)
        /\ RefreshRuns[1] = Run("A4", "CS-S037-A4", TRUE, Ok)
    BY DEF StaleRuns, RefreshRuns
  <1>7. QED
    BY <1>1, <1>2, <1>3, <1>4, <1>5, <1>6, Scripts

-----------------------------------------------------------------------------
(* One run of the stage.                                                   *)

\* The run that comes next, its provider and how it ends.
Now == Script[cmd][step]
Used == Provider(Now)
Outcome == log'[step].status
\* What is noted of it.
Noted == [status |-> Outcome, score |-> scores'[Now.org].last,
          calls |-> calls', guard |-> guard']

NowHas(o, id, f, m) ==
  Now.org = o /\ Now.offer = id /\ Now.force = f /\ Now.mock = m

LEMMA NowIs ==
  /\ cmd = "success" /\ step = 1 => NowHas("A1", "CS-S037-A1", FALSE, Ok)
  /\ cmd = "success" /\ step = 2 => NowHas("A1", "CS-S037-A1", FALSE, <<>>)
  /\ cmd = "success" /\ step = 3 => NowHas("A1", "CS-S037-A1", TRUE, <<>>)
  /\ cmd = "zero_budget" /\ step = 1 => NowHas("A2", "CS-S037-A2", FALSE, Unrouted)
  /\ cmd = "budget_boundary" /\ step = 1 => NowHas("A2", "CS-S037-A2", FALSE, Ok)
  /\ cmd = "budget_boundary" /\ step = 2 => NowHas("A2", "CS-S037-A2", TRUE, <<>>)
  /\ cmd = "failure_recover" /\ step = 1 =>
       NowHas("A1", "CS-S037-A1", TRUE, <<"failed section">>)
  /\ cmd = "failure_recover" /\ step = 2 =>
       NowHas("A1", "CS-S037-A1", TRUE, <<"503", "ok">>)
  /\ cmd = "conflicts" /\ step = 1 => NowHas("A3", "CS-S037-A2", FALSE, Ok)
  /\ cmd = "conflicts" /\ step = 2 => NowHas("B1", "CS-S037-A2", FALSE, Ok)
  /\ cmd = "stale" /\ step = 1 => NowHas("A4", "CS-S037-A4", FALSE, Ok)
  /\ cmd = "refresh_a4" /\ step = 1 => NowHas("A4", "CS-S037-A4", TRUE, Ok)
  <1>1. \A o, id, f, m : Now = Run(o, id, f, m) => NowHas(o, id, f, m)
    BY RunFields DEF NowHas
  <1>2. QED
    BY <1>1, ScriptRuns, Zenon DEF Now

LEMMA NowIsRun ==
  ASSUME TypeInv, RunStage
  PROVE  /\ Now \in RunType /\ Now.org \in Orgs /\ Now.offer = Offer(Now.org)
         /\ step \in 1 .. Len(Script[cmd]) /\ cmd \in Scenarios
  <1>1. cmd \in Scenarios /\ step <= Len(Script[cmd]) /\ step \in Nat \ {0}
    BY DEF RunStage, TypeInv, CommandType
  <1>2. Len(Script[cmd]) \in Nat
    BY <1>1, RunsAreTyped, LenProperties
  <1>3. step \in 1 .. Len(Script[cmd])
    BY <1>1, <1>2
  <1>4. Now \in RunType
    BY <1>1, <1>3, RunsAreTyped, ElementOfSeq DEF Now
  <1>5. Now.offer = Offer(Now.org)
    <2>1. \/ cmd = "success" /\ step \in {1, 2, 3}
          \/ cmd \in {"budget_boundary", "failure_recover", "conflicts"} /\ step \in {1, 2}
          \/ cmd \in {"zero_budget", "stale", "refresh_a4"} /\ step = 1
      <3>1. \A k \in 1 .. 3 : k \in {1, 2, 3}
        OBVIOUS
      <3>2. \A k \in 1 .. 2 : k \in {1, 2}
        OBVIOUS
      <3>3. \A k \in 1 .. 1 : k = 1
        OBVIOUS
      <3>4. QED
        BY <1>1, <1>3, <3>1, <3>2, <3>3, ScenarioNames, ScriptLengths
    <2>2. \/ \E f, m : Now = Run("A1", "CS-S037-A1", f, m)
          \/ \E f, m : Now = Run("A2", "CS-S037-A2", f, m)
          \/ \E f, m : Now = Run("A3", "CS-S037-A2", f, m)
          \/ \E f, m : Now = Run("A4", "CS-S037-A4", f, m)
          \/ \E f, m : Now = Run("B1", "CS-S037-A2", f, m)
      <3>1. cmd \in {"success", "failure_recover"} =>
              \E f, m : Now = Run("A1", "CS-S037-A1", f, m)
        BY <2>1, ScriptRuns DEF Now
      <3>2. cmd \in {"zero_budget", "budget_boundary"} =>
              \E f, m : Now = Run("A2", "CS-S037-A2", f, m)
        BY <2>1, ScriptRuns DEF Now
      <3>3. cmd = "conflicts" => \/ \E f, m : Now = Run("A3", "CS-S037-A2", f, m)
                                \/ \E f, m : Now = Run("B1", "CS-S037-A2", f, m)
        BY <2>1, ScriptRuns DEF Now
      <3>4. cmd \in {"stale", "refresh_a4"} =>
              \E f, m : Now = Run("A4", "CS-S037-A4", f, m)
        BY <2>1, ScriptRuns DEF Now
      <3>5. QED
        BY <2>1, <3>1, <3>2, <3>3, <3>4
    <2>3. QED
      BY <2>2, RunFields DEF Offer
  <1>6. QED
    BY <1>1, <1>3, <1>4, <1>5 DEF RunType

\* The stage, with or without a look at the report budget before it searches, in
\* these terms.
LEMMA StageRan ==
  ASSUME TypeInv, ScenarioInv, RunStage
  PROVE  /\ Len(log) = step - 1
         /\ \E early \in BOOLEAN :
              /\ Outcome = StageStatus(Now, Used, early)
              /\ guard' = [search |-> Used.guard.search - Searched(Now, Used, Outcome, early),
                           report |-> Used.guard.report
                                        - (IF Reported(Now, Used, Outcome) THEN 1 ELSE 0)]
              /\ calls' = [search |-> Used.calls.search + Searched(Now, Used, Outcome, early),
                           report |-> Used.calls.report
                             + (IF Reported(Now, Used, Outcome)
                                THEN Attempts(Used.mock) ELSE 0)]
         /\ \E state \in BOOLEAN :
              scores' = [scores EXCEPT ![Now.org] = Stored(Now, Outcome, state)]
         /\ mock' = IF Reported(Now, Used, Outcome) THEN AfterFetch(Used.mock) ELSE Used.mock
         /\ log' = Append(log, Noted)
         /\ UNCHANGED <<limit, rows, cmd, before, commands, sheet>> /\ step' = step + 1
  <1> DEFINE Noting(status) == [status |-> status, score |-> scores'[Now.org].last,
                                calls |-> calls', guard |-> guard']
  <1>1. PICK early, status :
          /\ early \in BOOLEAN /\ status = StageStatus(Now, Used, early)
          /\ \E state \in BOOLEAN :
               scores' = [scores EXCEPT ![Now.org] = Stored(Now, status, state)]
          /\ mock' = IF Reported(Now, Used, status) THEN AfterFetch(Used.mock) ELSE Used.mock
          /\ guard' = [search |-> Used.guard.search - Searched(Now, Used, status, early),
                       report |-> Used.guard.report
                                    - (IF Reported(Now, Used, status) THEN 1 ELSE 0)]
          /\ calls' = [search |-> Used.calls.search + Searched(Now, Used, status, early),
                       report |-> Used.calls.report
                         + (IF Reported(Now, Used, status) THEN Attempts(Used.mock) ELSE 0)]
          /\ log' = Append(log, Noting(status))
    BY DEF RunStage, Used, Now
  <1>2. log \in Seq(Notes) /\ step \in Nat \ {0} /\ Len(log) = step - 1
    BY NowIsRun DEF TypeInv, CommandType, ScenarioInv
  <1>3. log \in Seq(Notes \cup {Noting(status)}) /\ Noting(status) \in Notes \cup {Noting(status)}
    BY <1>2
  <1>4. log'[step] = Noting(status)
    <2> HIDE DEF Noting
    <2>1. log'[Len(log) + 1] = Noting(status)
      BY <1>1, <1>3, AppendProperties
    <2>2. QED
      BY <1>2, <2>1
  <1>5. Outcome = status
    BY <1>4 DEF Outcome
  <1>6. Noting(status) = Noted
    BY <1>5 DEF Noted
  <1> HIDE DEF Noting
  <1>7. UNCHANGED <<limit, rows, cmd, before, commands, sheet>> /\ step' = step + 1
    BY DEF RunStage
  <1>8. QED
    BY <1>1, <1>2, <1>5, <1>6, <1>7

\* Its note is added, and only its organization changes.
LEMMA StageFacts ==
  ASSUME TypeInv, ScenarioInv, RunStage
  PROVE  /\ Len(log') = step /\ log'[step] = Noted
         /\ \A i \in 1 .. step - 1 : log'[i] = log[i]
         /\ \A o \in Orgs \ {Now.org} : scores'[o] = scores[o]
         /\ UNCHANGED <<limit, rows, cmd, before, commands, sheet>> /\ step' = step + 1
  <1>1. /\ log' = Append(log, Noted) /\ Len(log) = step - 1
        /\ \E v : scores' = [scores EXCEPT ![Now.org] = v]
        /\ UNCHANGED <<limit, rows, cmd, before, commands, sheet>> /\ step' = step + 1
    BY StageRan
  <1>2. log \in Seq(Notes) /\ scores \in [Orgs -> Scores] /\ step \in Nat \ {0}
    BY DEF TypeInv, CommandType, DataType
  <1>4. \A o \in Orgs \ {Now.org} : scores'[o] = scores[o]
    BY <1>1, <1>2
  <1>5. log \in Seq(Notes \cup {Noted}) /\ Noted \in Notes \cup {Noted}
    BY <1>2
  <1>6. /\ Len(log') = step /\ log'[step] = Noted
        /\ \A i \in 1 .. step - 1 : log'[i] = log[i]
    BY <1>1, <1>2, <1>5, AppendProperties
  <1>7. QED
    BY <1>1, <1>4, <1>6

\* How it ends. Where both kinds of units are left, or it need not search, it does
\* not matter when it looks at the report budget.
LEMMA StageEnds ==
  ASSUME TypeInv, ScenarioInv, RunStage
  PROVE  /\ ~Complete(Now.org) => Outcome = "OTHER"
         /\ Complete(Now.org) /\ ~Now.force /\ Fresh(Now.org) => Outcome = "REUSED"
         /\ Complete(Now.org) /\ (Now.force \/ ~Fresh(Now.org)) =>
              /\ (IF Searches(Now) THEN Used.guard.search = 0 ELSE Used.guard.report = 0)
                   => Outcome = "SKIPPED_BUDGET_EXHAUSTED"
              /\ Searches(Now) /\ Used.guard.search # 0 /\ Used.guard.report # 0 =>
                   IF Used.mock = Unrouted THEN Outcome = "UNAVAILABLE"
                   ELSE IF Taken(Now.org, Now.offer) THEN Outcome = "IDENTITY_CONFLICT"
                   ELSE Outcome = IF Fetched(Used.mock) = "ok" THEN "REFRESHED"
                                  ELSE "UNAVAILABLE"
              /\ Searches(Now) /\ Used.guard.search # 0 /\ Used.guard.report = 0 =>
                   \/ Outcome = "SKIPPED_BUDGET_EXHAUSTED"
                   \/ Outcome = "UNAVAILABLE" /\ Used.mock = Unrouted
                   \/ Outcome = "IDENTITY_CONFLICT" /\ Taken(Now.org, Now.offer)
              /\ ~Searches(Now) /\ Used.guard.report # 0 =>
                   Outcome = IF Fetched(Used.mock) = "ok" THEN "REFRESHED" ELSE "UNAVAILABLE"
  <1>1. PICK early \in BOOLEAN : Outcome = StageStatus(Now, Used, early)
    BY StageRan
  <1>2. QED
    BY <1>1 DEF StageStatus

\* What it stores of the organization: everything if it has refreshed, at most the
\* state row if not.
LEMMA StageScore ==
  ASSUME TypeInv, ScenarioInv, RunStage
  PROVE  /\ Outcome = "REFRESHED" =>
              /\ scores'[Now.org].ids =
                   IF Searches(Now) THEN {Now.offer} ELSE scores[Now.org].ids
              /\ scores'[Now.org].last = scores[Now.org].last + 1
              /\ scores'[Now.org].stale = FALSE
         /\ Outcome # "REFRESHED" =>
              /\ scores'[Now.org].ids = scores[Now.org].ids
              /\ scores'[Now.org].last = scores[Now.org].last
              /\ scores'[Now.org].stale = scores[Now.org].stale
  <1>1. PICK state \in BOOLEAN :
          scores' = [scores EXCEPT ![Now.org] = Stored(Now, Outcome, state)]
    BY StageRan
  <1>2. scores \in [Orgs -> Scores] /\ Now.org \in Orgs
    BY NowIsRun DEF TypeInv, DataType
  <1>3. scores'[Now.org] = Stored(Now, Outcome, state)
    BY <1>1, <1>2
  <1>4. CASE Outcome = "REFRESHED"
    BY <1>3, <1>4 DEF Stored
  <1>5. CASE Outcome # "REFRESHED"
    <2>1. PICK u \in BOOLEAN : u = (scores[Now.org].state \/ state \/ Outcome \in Attempted)
      OBVIOUS
    <2>2. scores'[Now.org] = [scores[Now.org] EXCEPT !.state = u]
      BY <1>3, <1>5, <2>1 DEF Stored
    <2>3. scores[Now.org] \in Scores
      BY <1>2
    <2>4. QED
      BY <1>5, <2>2, <2>3 DEF Scores
  <1>6. QED
    BY <1>4, <1>5

\* What it takes of the provider: a unit and a search for each organization that it
\* has to find, a unit and one or two requests for each report.
LEMMA StageUse ==
  ASSUME TypeInv, ScenarioInv, RunStage
  PROVE  /\ \E n \in {0, 1} :
              /\ guard'.search = Used.guard.search - n
              /\ calls'.search = Used.calls.search + n
              /\ Outcome \in Attempted => n = IF Searches(Now) THEN 1 ELSE 0
              /\ Outcome \in {"OTHER", "REUSED"} => n = 0
              /\ Outcome = "SKIPPED_BUDGET_EXHAUSTED"
                   /\ (Used.guard.search = 0 \/ ~Searches(Now)) => n = 0
         /\ guard'.report = Used.guard.report
                              - (IF Reported(Now, Used, Outcome) THEN 1 ELSE 0)
         /\ calls'.report = Used.calls.report
                + (IF Reported(Now, Used, Outcome) THEN Attempts(Used.mock) ELSE 0)
         /\ mock' = IF Reported(Now, Used, Outcome) THEN AfterFetch(Used.mock) ELSE Used.mock
         /\ Used.guard \in Counts /\ Used.calls \in Counts
         /\ guard' \in Counts /\ calls' \in Counts
  <1>1. PICK early \in BOOLEAN :
        /\ guard' = [search |-> Used.guard.search - Searched(Now, Used, Outcome, early),
                     report |-> Used.guard.report
                                  - (IF Reported(Now, Used, Outcome) THEN 1 ELSE 0)]
        /\ calls' = [search |-> Used.calls.search + Searched(Now, Used, Outcome, early),
                     report |-> Used.calls.report
                       + (IF Reported(Now, Used, Outcome) THEN Attempts(Used.mock) ELSE 0)]
    BY StageRan
  <1>2. Solvent(Used)
    BY ProviderIsSolvent DEF Used, TypeInv
  <1>3. BudgetInv'
    BY BudgetStep DEF TypeInv, Next, Harness
  <1> DEFINE n == Searched(Now, Used, Outcome, early)
  <1>4. /\ n \in {0, 1}
        /\ Outcome \in Attempted => n = IF Searches(Now) THEN 1 ELSE 0
        /\ Outcome \in {"OTHER", "REUSED"} => n = 0
        /\ Outcome = "SKIPPED_BUDGET_EXHAUSTED"
             /\ (Used.guard.search = 0 \/ ~Searches(Now)) => n = 0
    BY DEF Searched, SearchedInVain, Attempted
  <1> HIDE DEF n
  <1>5. /\ guard'.search = Used.guard.search - n /\ calls'.search = Used.calls.search + n
        /\ guard'.report = Used.guard.report
                             - (IF Reported(Now, Used, Outcome) THEN 1 ELSE 0)
        /\ calls'.report = Used.calls.report
               + (IF Reported(Now, Used, Outcome) THEN Attempts(Used.mock) ELSE 0)
    BY <1>1 DEF n
  <1>6. mock' = IF Reported(Now, Used, Outcome) THEN AfterFetch(Used.mock) ELSE Used.mock
    BY StageRan
  <1>7. /\ Used.guard \in Counts /\ Used.calls \in Counts
        /\ guard' \in Counts /\ calls' \in Counts
    BY <1>2, <1>3 DEF Solvent, BudgetInv
  <1>8. QED
    BY <1>4, <1>5, <1>6, <1>7

LEMMA UsedIs ==
  /\ Now.mock # <<>> => /\ Used.mock = Now.mock
                        /\ Used.guard = limit
                        /\ Used.calls.search = 0 /\ Used.calls.report = 0
  /\ Now.mock = <<>> => Used.mock = mock /\ Used.guard = guard /\ Used.calls = calls
  <1>1. Now.mock # <<>> => Used = [mock |-> Now.mock, guard |-> limit, calls |-> Zero]
    BY DEF Used, Provider
  <1>2. Now.mock = <<>> => Used = [mock |-> mock, guard |-> guard, calls |-> calls]
    BY DEF Used, Provider
  <1>3. QED
    BY <1>1, <1>2 DEF Zero

\* A connect id is only taken by an organization that it is offered to.
LEMMA NotTaken ==
  ASSUME IdsInv
  PROVE  /\ ~Taken("A1", "CS-S037-A1") /\ ~Taken("A4", "CS-S037-A4")
         /\ ~Taken("B1", "CS-S037-A2")
  <1>1. ASSUME NEW o \in Orgs, NEW id \in scores[o].ids PROVE id = Offer(o)
    BY DEF IdsInv
  <1>2. \A o \in Orgs : /\ Offer(o) = "CS-S037-A1" => o = "A1"
                        /\ Offer(o) = "CS-S037-A4" => o = "A4"
    BY DEF Offer
  <1>3. /\ Tenant("A1") \subseteq Orgs /\ Tenant("A4") \subseteq Orgs
        /\ Tenant("B1") \subseteq {"B1"}
    BY DEF Tenant, Orgs, TenantA
  <1>4. QED
    BY <1>1, <1>2, <1>3 DEF Taken

\* A run that refreshes leaves one connect id, any other run those that were there.
LEMMA IdsStage ==
  ASSUME TypeInv, IdsInv, ScenarioInv, RunStage
  PROVE  /\ IdsInv'
         /\ Outcome = "REFRESHED" => scores'[Now.org].ids = {Offer(Now.org)}
  <1>1. Now.org \in Orgs /\ Now.offer = Offer(Now.org)
    BY NowIsRun
  <1>2. /\ scores[Now.org].ids \in {{}, {Offer(Now.org)}}
        /\ scores[Now.org].ids # {} => scores[Now.org].last > 0
    BY <1>1 DEF IdsInv
  <1>3. Outcome = "REFRESHED" => scores'[Now.org].ids = {Offer(Now.org)}
    BY <1>1, <1>2, StageScore DEF Searches
  <1>4. /\ scores'[Now.org].ids \in {{}, {Offer(Now.org)}}
        /\ scores'[Now.org].ids # {} => scores'[Now.org].last > 0
    <2>1. CASE Outcome = "REFRESHED"
      <3>1. scores[Now.org].last \in Nat
        BY <1>1 DEF TypeInv, DataType, Scores
      <3>2. scores'[Now.org].last = scores[Now.org].last + 1
        BY <2>1, StageScore
      <3>3. QED
        BY <1>3, <2>1, <3>1, <3>2
    <2>2. CASE Outcome # "REFRESHED"
      BY <1>1, <1>2, <2>2, StageScore DEF IdsInv
    <2>3. QED
      BY <2>1, <2>2
  <1>5. \A o \in Orgs \ {Now.org} : scores'[o] = scores[o]
    BY StageFacts
  <1>6. QED
    BY <1>3, <1>4, <1>5 DEF IdsInv

-----------------------------------------------------------------------------
(* The scenarios.                                                          *)

\* What every run keeps and notes, in the terms of the checks.
LEMMA RunFacts ==
  ASSUME TypeInv, ScenarioInv, RunStage
  PROVE  /\ limit.search \in Nat /\ limit.report \in Nat /\ limit' = limit
         /\ cmd' = cmd /\ before' = before /\ step' = step + 1
         /\ \A o : Complete(o)' <=> Complete(o)
         /\ log'[step].status = Outcome /\ log'[step].score = scores'[Now.org].last
         /\ log'[step].calls = calls' /\ log'[step].guard = guard'
         /\ \A i \in 1 .. step - 1 : log'[i] = log[i]
         /\ scores[Now.org].last \in Nat
  <1>1. limit.search \in Nat /\ limit.report \in Nat /\ scores[Now.org] \in Scores
    BY NowIsRun DEF TypeInv, BudgetInv, DataType, Counts
  <1>2. scores[Now.org].last \in Nat
    BY <1>1 DEF Scores
  <1>3. /\ log'[step].status = Outcome /\ log'[step].score = scores'[Now.org].last
        /\ log'[step].calls = calls' /\ log'[step].guard = guard'
    BY StageFacts DEF Noted
  <1>4. QED
    BY <1>1, <1>2, <1>3, StageFacts DEF Complete

LEMMA SuccessStep ==
  ASSUME TypeInv, IdsInv, ScenarioInv, RunStage, cmd = "success"
  PROVE  SuccessInv' /\ EndInv'
  <1>1. step \in {1, 2, 3} /\ Len(Script[cmd]) = 3
    BY NowIsRun, ScriptLengths
  <1>2. /\ Now.org = "A1" /\ Now.offer = "CS-S037-A1"
        /\ step = 1 => Now.force = FALSE /\ Now.mock = Ok
        /\ step = 2 => Now.force = FALSE /\ Now.mock = <<>>
        /\ step = 3 => Now.force = TRUE /\ Now.mock = <<>>
    BY <1>1, NowIs DEF NowHas
  <1>l. Len(Script[cmd']) = 3
    BY <1>1, RunFacts
  <1>3. ~Taken("A1", "CS-S037-A1") /\ ~Taken(Now.org, Now.offer)
    BY <1>2, NotTaken
  <1>4. CASE step = 1
    <2>1. Used.mock = Ok /\ Used.guard = limit
      BY <1>2, <1>4, UsedIs, Mocks
    <2>2. Outcome = "REFRESHED" <=>
            Complete("A1") /\ ~Fresh("A1") /\ Searchable("A1") /\ limit.report # 0
      <3>1. Searches(Now) <=> scores["A1"].ids = {}
        BY <1>2 DEF Searches
      <3>2. limit.search # 0 <=> limit.search >= 1
        BY RunFacts
      <3>3. QED
        BY <1>2, <1>3, <1>4, <2>1, <3>1, <3>2, StageEnds, Mocks DEF Searchable
    <2>3. before.prepared <=>
            Complete("A1") /\ ~Fresh("A1") /\ Searchable("A1") /\ limit.report >= 2
      BY <1>4, ScenarioNames DEF ScenarioInv, BeginInv, Prepared
    <2>4. Enriched' <=> Outcome = "REFRESHED"
      BY <1>4, RunFacts DEF Enriched
    <2>5. ASSUME Outcome = "REFRESHED"
          PROVE  /\ Fresh("A1")' /\ scores'["A1"].ids # {}
                 /\ mock' = Ok /\ guard'.report = limit.report - 1
      <3>1. Reported(Now, Used, Outcome)
        BY <2>1, <2>5, Mocks DEF Reported
      <3>2. mock' = Ok /\ guard'.report = limit.report - 1
        BY <2>1, <3>1, StageUse, Mocks
      <3>3. scores'["A1"].last > 0 /\ ~scores'["A1"].stale
        <4>1. scores["A1"].last \in Nat
          BY <1>2, RunFacts
        <4>2. scores'["A1"].last = scores["A1"].last + 1 /\ scores'["A1"].stale = FALSE
          BY <1>2, <2>5, StageScore
        <4>3. QED
          BY <4>1, <4>2
      <3>4. QED
        BY <1>2, <2>5, <3>2, <3>3, IdsStage DEF Fresh
    <2>6. step' = 2
      BY <1>4, RunFacts
    <2>7. SuccessInv'
      BY <1>2, <1>4, <2>2, <2>3, <2>4, <2>5, <2>6, RunFacts DEF SuccessInv
    <2>8. QED
      BY <1>l, <2>6, <2>7 DEF EndInv
  <1>5. CASE step = 2
    <2>1. Enriched' <=> Enriched
      BY <1>5, RunFacts DEF Enriched
    <2>2. SuccessInv
      BY <1>5, ScenarioNames DEF ScenarioInv
    <2>3. ASSUME Enriched
          PROVE  /\ Outcome = "REUSED" /\ mock' = mock /\ guard' = guard /\ calls' = calls
                 /\ scores'["A1"].ids = scores["A1"].ids
                 /\ scores'["A1"].last = scores["A1"].last
                 /\ scores'["A1"].stale = scores["A1"].stale
      <3>1. Outcome = "REUSED"
        BY <1>2, <1>5, <2>2, <2>3, StageEnds DEF SuccessInv
      <3>2. ~Reported(Now, Used, Outcome)
        BY <3>1 DEF Reported
      <3>3. /\ mock' = mock /\ guard'.search = guard.search /\ guard'.report = guard.report
            /\ calls'.search = calls.search /\ calls'.report = calls.report
            /\ guard' \in Counts /\ calls' \in Counts /\ guard \in Counts /\ calls \in Counts
        BY <1>2, <1>5, <3>1, <3>2, StageUse, UsedIs DEF Counts
      <3>4. guard' = guard /\ calls' = calls
        BY <3>3 DEF Counts
      <3>5. QED
        BY <1>2, <3>1, <3>3, <3>4, StageScore
    <2>4. step' = 3 /\ log'[1] = log[1]
      BY <1>5, RunFacts
    <2>5. SuccessInv'
      BY <1>5, <2>1, <2>2, <2>3, <2>4, RunFacts DEF SuccessInv, Fresh
    <2>6. QED
      BY <1>l, <2>4, <2>5 DEF EndInv
  <1>6. CASE step = 3
    <2>1. SuccessInv /\ (Enriched' <=> Enriched)
      BY <1>6, RunFacts, ScenarioNames DEF Enriched, ScenarioInv
    <2>2. step' = 4 /\ log'[1] = log[1] /\ log'[2] = log[2]
      BY <1>6, RunFacts
    <2>3. ASSUME Enriched
          PROVE  /\ Outcome = "REFRESHED" <=> limit.report >= 2
                 /\ Outcome = "REFRESHED" =>
                      scores'["A1"].last # log[1].score /\ Cardinality(scores'["A1"].ids) = 1
      <3>1. /\ Used.mock = Ok /\ Used.guard.report = limit.report - 1 /\ ~Searches(Now)
            /\ Complete(Now.org) /\ Now.force
        BY <1>2, <1>6, <2>1, <2>3, UsedIs DEF SuccessInv, Searches
      <3>2. Outcome = "REFRESHED" <=> limit.report - 1 # 0
        BY <3>1, StageEnds, Mocks
      <3>3. limit.report >= 1
        <4>1. guard.report \in Nat /\ guard.report = limit.report - 1
          BY <1>6, <2>1, <2>3 DEF SuccessInv, TypeInv, BudgetInv, Counts
        <4>2. QED
          BY <4>1, RunFacts
      <3>4. Outcome = "REFRESHED" => scores'["A1"].last # log[1].score
        BY <1>2, <1>6, <2>1, <2>3, StageScore, RunFacts DEF SuccessInv
      <3>5. Outcome = "REFRESHED" => Cardinality(scores'["A1"].ids) = 1
        BY <1>2, IdsStage, FS_Singleton
      <3>6. QED
        BY <3>2, <3>3, <3>4, <3>5, RunFacts
    <2>4. SuccessChecks' <=> Enriched /\ Outcome = "REFRESHED"
      BY <1>2, <1>6, <2>1, <2>2, <2>3, RunFacts DEF SuccessChecks, SuccessInv, Enriched
    <2>5. Green(cmd)' <=> SuccessChecks'
      BY RunFacts DEF Green
    <2>6. before.prepared <=> Enriched /\ limit.report >= 2
      BY <1>6, <2>1 DEF SuccessInv
    <2>7. QED
      BY <2>2, <2>3, <2>4, <2>5, <2>6, RunFacts DEF SuccessInv, EndInv
  <1>7. QED
    BY <1>1, <1>4, <1>5, <1>6

LEMMA ZeroBudgetStep ==
  ASSUME TypeInv, IdsInv, ScenarioInv, RunStage, cmd = "zero_budget"
  PROVE  EndInv'
  <1>1. step = 1 /\ Len(Script[cmd]) = 1
    BY NowIsRun, ScriptLengths
  <1>2. /\ Now.org = "A2" /\ Now.force = FALSE /\ Now.mock = Unrouted
    BY <1>1, NowIs DEF NowHas
  <1>3. Used.mock = Unrouted /\ Used.guard = limit /\ Used.calls.search = 0 /\ Used.calls.report = 0
    BY <1>2, UsedIs, Mocks
  <1>4. before.prepared <=> Complete("A2") /\ scores["A2"].last = 0 /\ limit.search = 0
    BY <1>1, ScenarioNames DEF ScenarioInv, BeginInv, Prepared
  <1>5. before.scores["A2"] = scores["A2"]
    BY <1>1, ScenarioNames DEF ScenarioInv, BeginInv
  <1>6. /\ log'[1].status = Outcome /\ log'[1].score = scores'["A2"].last
        /\ log'[1].calls = calls' /\ before' = before /\ step' = 2
    BY <1>1, <1>2, RunFacts
  <1>7. scores["A2"].last = 0 => ~Fresh("A2") /\ Searches(Now)
    <2>1. "A2" \in Orgs
      BY DEF Orgs, TenantA
    <2>2. QED
      BY <1>2, <2>1 DEF Fresh, Searches, IdsInv
  \* Without a score, only a missing unit makes the stage skip: a search unit, unless
  \* the question is open.
  <1>8. ASSUME ~Open("zero_budget"), scores["A2"].last = 0
        PROVE  Outcome = "SKIPPED_BUDGET_EXHAUSTED" <=> Complete("A2") /\ limit.search = 0
    <2>1. limit.search # 0 => limit.report # 0
      BY <1>8, RunFacts DEF Open
    <2>2. QED
      BY <1>2, <1>3, <1>7, <1>8, <2>1, StageEnds
  <1>9. ASSUME Outcome = "SKIPPED_BUDGET_EXHAUSTED"
        PROVE  scores'["A2"].last = scores["A2"].last
    BY <1>2, <1>9, StageScore
  <1>10. ASSUME Outcome = "SKIPPED_BUDGET_EXHAUSTED", limit.search = 0
         PROVE  calls' = Zero
    <2>1. ~Reported(Now, Used, Outcome)
      BY <1>10 DEF Reported
    <2>2. calls'.search = 0 /\ calls'.report = 0 /\ calls' \in Counts
      BY <1>3, <1>10, <2>1, StageUse
    <2>3. QED
      BY <2>2 DEF Counts, Zero
  <1>11. ZeroBudgetChecks' <=>
           /\ Outcome = "SKIPPED_BUDGET_EXHAUSTED" /\ calls' = Zero
           /\ scores["A2"].last = 0
    BY <1>5, <1>6, <1>9 DEF ZeroBudgetChecks
  <1>12. ~Open("zero_budget") => (before.prepared <=> ZeroBudgetChecks')
    BY <1>4, <1>8, <1>10, <1>11
  <1>13. Green(cmd)' <=> ZeroBudgetChecks'
    BY RunFacts DEF Green
  <1>14. Open(cmd)' <=> Open("zero_budget")
    BY RunFacts DEF Open
  <1>15. QED
    BY <1>6, <1>12, <1>13, <1>14 DEF EndInv

LEMMA BoundaryStep ==
  ASSUME TypeInv, IdsInv, ScenarioInv, RunStage, cmd = "budget_boundary"
  PROVE  BoundaryInv' /\ EndInv'
  <1>1. step \in {1, 2} /\ Len(Script[cmd]) = 2
    BY NowIsRun, ScriptLengths
  <1>2. /\ Now.org = "A2" /\ Now.offer = "CS-S037-A2"
        /\ step = 1 => Now.force = FALSE /\ Now.mock = Ok
        /\ step = 2 => Now.force = TRUE /\ Now.mock = <<>>
    BY <1>1, NowIs DEF NowHas
  <1>l. Len(Script[cmd']) = 2 /\ limit.search \in Nat /\ limit.report \in Nat
    BY <1>1, RunFacts
  <1>s. Searches(Now) <=> scores["A2"].ids = {}
    BY <1>2 DEF Searches
  <1>3. CASE step = 1
    <2>1. Used.mock = Ok /\ Used.guard = limit
      BY <1>2, <1>3, UsedIs, Mocks
    <2>2. Outcome = "REFRESHED" <=>
            /\ Complete("A2") /\ ~Fresh("A2") /\ limit.report # 0
            /\ scores["A2"].ids = {} => limit.search # 0 /\ ~Taken("A2", "CS-S037-A2")
      BY <1>2, <1>3, <1>s, <2>1, StageEnds, Mocks
    <2>3. before.prepared <=>
            /\ Complete("A2") /\ ~Fresh("A2") /\ scores["A2"].ids = {}
            /\ ~Taken("A2", "CS-S037-A2") /\ limit.search = 1 /\ limit.report = 1
      BY <1>3, ScenarioNames DEF ScenarioInv, BeginInv, Prepared
    <2>4. Enriched' <=> Outcome = "REFRESHED"
      BY <1>3, RunFacts DEF Enriched
    <2>5. ASSUME Outcome = "REFRESHED"
          PROVE  /\ scores'["A2"].ids # {} /\ guard'.report = limit.report - 1
                 /\ scores["A2"].ids = {} <=> guard'.search = limit.search - 1
      <3>1. Reported(Now, Used, Outcome)
        BY <2>1, <2>5, Mocks DEF Reported
      <3>2. guard'.report = limit.report - 1
        BY <2>1, <3>1, StageUse
      <3>3. Outcome \in Attempted
        BY <2>5 DEF Attempted
      <3>4. PICK n \in {0, 1} :
              /\ guard'.search = limit.search - n
              /\ n = IF scores["A2"].ids = {} THEN 1 ELSE 0
        BY <1>s, <2>1, <3>3, StageUse
      <3>5. scores["A2"].ids = {} <=> guard'.search = limit.search - 1
        BY <1>l, <3>4
      <3>6. QED
        BY <1>2, <2>5, <3>2, <3>5, IdsStage
    <2>6. step' = 2 /\ log'[1].calls = calls'
      BY <1>3, RunFacts
    <2>7. before.prepared <=>
            Enriched' /\ limit.search = 1 /\ limit.report = 1 /\ guard'.search = 0
      BY <1>l, <2>2, <2>3, <2>4, <2>5
    <2>8. BoundaryInv'
      BY <2>2, <2>4, <2>5, <2>6, <2>7, RunFacts DEF BoundaryInv
    <2>9. QED
      BY <1>l, <2>6, <2>8 DEF EndInv
  <1>4. CASE step = 2
    <2>1. BoundaryInv /\ step' = 3 /\ log'[1] = log[1] /\ limit' = limit /\ before' = before
      BY <1>4, RunFacts, ScenarioNames DEF ScenarioInv
    <2>2. /\ log'[2].status = Outcome /\ log'[2].calls = calls'
      BY <1>4, RunFacts
    <2>3. /\ Used.guard = guard /\ Used.calls = calls
      BY <1>2, <1>4, UsedIs
    <2>4. ASSUME Enriched, limit.report = 1
          PROVE  /\ Outcome = "SKIPPED_BUDGET_EXHAUSTED" /\ calls' = calls
                 /\ guard' = Zero <=> guard.search = 0
      <3>1. /\ Complete("A2") /\ guard.report = 0 /\ scores["A2"].ids # {}
        BY <1>4, <2>1, <2>4 DEF BoundaryInv
      <3>2. Outcome = "SKIPPED_BUDGET_EXHAUSTED"
        BY <1>2, <1>4, <1>s, <2>3, <3>1, StageEnds
      <3>3. ~Reported(Now, Used, Outcome)
        BY <3>2 DEF Reported
      <3>4. /\ guard'.search = guard.search /\ guard'.report = guard.report
            /\ calls'.search = calls.search /\ calls'.report = calls.report
            /\ guard' \in Counts /\ calls' \in Counts /\ calls \in Counts
        BY <1>s, <2>3, <3>1, <3>2, <3>3, StageUse DEF Counts
      <3>5. calls' = calls
        BY <3>4 DEF Counts
      <3>6. guard' = Zero <=> guard.search = 0
        BY <3>1, <3>4 DEF Counts, Zero
      <3>7. QED
        BY <3>2, <3>5, <3>6
    <2>5. BoundaryChecks' <=>
            Enriched /\ limit.search = 1 /\ limit.report = 1 /\ guard.search = 0
      <3>1. BoundaryChecks' => Enriched /\ limit.search = 1 /\ limit.report = 1
        BY <2>1 DEF BoundaryChecks, Enriched
      <3>2. ASSUME Enriched, limit.search = 1, limit.report = 1
            PROVE  BoundaryChecks' <=> guard.search = 0
        <4>1. log[1].calls = calls
          BY <1>4, <2>1, <3>2 DEF BoundaryInv
        <4>2. QED
          BY <2>1, <2>2, <2>4, <3>2, <4>1 DEF BoundaryChecks, Enriched
      <3>3. QED
        BY <3>1, <3>2
    <2>6. before.prepared <=> BoundaryChecks'
      BY <1>4, <2>1, <2>5 DEF BoundaryInv
    <2>7. Green(cmd)' <=> BoundaryChecks'
      BY RunFacts DEF Green
    <2>8. QED
      BY <2>1, <2>6, <2>7 DEF BoundaryInv, EndInv
  <1>5. QED
    BY <1>1, <1>3, <1>4

LEMMA RecoverStep ==
  ASSUME TypeInv, IdsInv, ScenarioInv, RunStage, cmd = "failure_recover"
  PROVE  RecoverInv' /\ EndInv'
  <1>1. step \in {1, 2} /\ Len(Script[cmd]) = 2
    BY NowIsRun, ScriptLengths
  <1>2. /\ Now.org = "A1" /\ Now.offer = "CS-S037-A1" /\ Now.force = TRUE
        /\ step = 1 => Now.mock = <<"failed section">>
        /\ step = 2 => Now.mock = <<"503", "ok">>
    BY <1>1, NowIs DEF NowHas
  <1>3. /\ Len(Script[cmd']) = 2 /\ limit.search \in Nat /\ limit.report \in Nat
        /\ ~Taken(Now.org, Now.offer)
    BY <1>1, <1>2, RunFacts, NotTaken
  <1>4. /\ Used.mock = Now.mock /\ Used.guard = limit
        /\ Used.calls.report = 0 /\ Used.mock # Unrouted
    BY <1>1, <1>2, UsedIs, Mocks
  \* Both runs have the same needs.
  <1>5. /\ Complete("A1") /\ Searchable("A1") /\ limit.report >= 1 =>
             Outcome = IF Fetched(Used.mock) = "ok" THEN "REFRESHED" ELSE "UNAVAILABLE"
        /\ Outcome = "REFRESHED" =>
             /\ Complete("A1") /\ Searchable("A1") /\ limit.report >= 1
             /\ Fetched(Used.mock) = "ok"
    <2>1. Searches(Now) <=> scores["A1"].ids = {}
      BY <1>2 DEF Searches
    <2>2. /\ limit.search # 0 <=> limit.search >= 1
          /\ limit.report # 0 <=> limit.report >= 1
      BY <1>3
    <2>3. QED
      BY <1>2, <1>3, <1>4, <2>1, <2>2, StageEnds DEF Searchable
  <1>6. CASE step = 1
    <2>1. Fetched(Used.mock) = "failed section"
      BY <1>2, <1>4, <1>6, Mocks
    <2>2. /\ Outcome # "REFRESHED"
          /\ Complete("A1") /\ Searchable("A1") /\ limit.report >= 1 =>
               Outcome = "UNAVAILABLE"
      BY <1>5, <2>1
    <2>3. before.prepared <=>
            /\ Complete("A1") /\ scores["A1"].state
            /\ Searchable("A1") /\ limit.report = 4
      BY <1>6, ScenarioNames DEF ScenarioInv, BeginInv, Prepared
    <2>4. before.scores = scores
      BY <1>6, ScenarioNames DEF ScenarioInv, BeginInv
    <2>5. /\ log'[1].status = Outcome /\ log'[1].score = scores["A1"].last
          /\ scores'["A1"].ids = scores["A1"].ids
      BY <1>2, <1>6, <2>2, StageScore, RunFacts
    <2>6. step' = 2 /\ before' = before
      BY <1>6, RunFacts
    <2>7. Searchable("A1")' <=> Searchable("A1")
      BY <2>5, RunFacts DEF Searchable
    <2>8. RecoverInv'
      BY <2>2, <2>3, <2>4, <2>5, <2>6, <2>7, RunFacts DEF RecoverInv
    <2>9. QED
      BY <1>3, <2>6, <2>8 DEF EndInv
  <1>7. CASE step = 2
    <2>1. RecoverInv /\ step' = 3 /\ log'[1] = log[1] /\ before' = before
      BY <1>7, RunFacts, ScenarioNames DEF ScenarioInv
    <2>2. /\ Fetched(Used.mock) = "ok" /\ Attempts(Used.mock) = 2
      BY <1>2, <1>4, <1>7, Mocks
    <2>3. Outcome = "REFRESHED" <=>
            Complete("A1") /\ Searchable("A1") /\ limit.report >= 1
      BY <1>5, <2>2
    <2>4. ASSUME Outcome = "REFRESHED"
          PROVE  calls'.report = 2 /\ guard'.report = limit.report - 1
      <3>1. Reported(Now, Used, Outcome)
        BY <1>4, <2>4 DEF Reported
      <3>2. QED
        BY <1>4, <2>2, <3>1, StageUse
    <2>5. /\ log'[2].status = Outcome /\ log'[2].calls = calls' /\ log'[2].guard = guard'
      BY <1>7, RunFacts
    <2>6. /\ log[1].score = before.scores["A1"].last
          /\ Complete("A1") /\ Searchable("A1") /\ limit.report >= 1 =>
               log[1].status = "UNAVAILABLE"
          /\ before.prepared <=>
               /\ Complete("A1") /\ before.scores["A1"].state
               /\ Searchable("A1") /\ limit.report = 4
      BY <1>7, <2>1 DEF RecoverInv
    <2>7. RecoverChecks' <=> Complete("A1") /\ Searchable("A1") /\ limit.report = 4
      BY <1>3, <2>1, <2>3, <2>4, <2>5, <2>6 DEF RecoverChecks
    <2>8. Green(cmd)' <=> RecoverChecks'
      BY RunFacts DEF Green
    <2>9. NoStateBefore' <=> ~before.scores["A1"].state
      BY RunFacts DEF NoStateBefore
    <2>10. QED
      BY <2>1, <2>6, <2>7, <2>8, <2>9 DEF RecoverInv, EndInv
  <1>8. QED
    BY <1>1, <1>6, <1>7

LEMMA ConflictStep ==
  ASSUME TypeInv, IdsInv, ScenarioInv, RunStage, cmd = "conflicts"
  PROVE  ConflictInv' /\ EndInv'
  <1>1. step \in {1, 2} /\ Len(Script[cmd]) = 2
    BY NowIsRun, ScriptLengths
  <1>2. /\ Now.offer = "CS-S037-A2" /\ Now.force = FALSE /\ Now.mock = Ok
        /\ step = 1 => Now.org = "A3"
        /\ step = 2 => Now.org = "B1"
    BY <1>1, NowIs DEF NowHas
  <1>3. Len(Script[cmd']) = 2 /\ limit.search \in Nat /\ limit.report \in Nat
    BY <1>1, RunFacts
  <1>4. /\ Used.mock = Ok /\ Used.guard = limit
        /\ Used.mock # Unrouted /\ Fetched(Used.mock) = "ok"
    BY <1>1, <1>2, UsedIs, Mocks
  <1>5. Searches(Now) <=> scores[Now.org].ids = {}
    BY DEF Searches
  <1>n. /\ limit.search # 0 <=> limit.search >= 1
        /\ limit.report # 0 <=> limit.report >= 1
    BY <1>3
  <1>o. /\ "A2" \in Orgs /\ "A3" \in Orgs /\ "B1" \in Orgs
    BY DEF Orgs, TenantA
  <1>6. CASE step = 1
    <2>1. /\ Complete("A3") /\ ~Fresh("A3") /\ limit.search >= 1 /\ limit.report >= 1
             /\ scores["A3"].ids = {} /\ Taken("A3", "CS-S037-A2")
               => Outcome = "IDENTITY_CONFLICT"
          /\ Outcome = "IDENTITY_CONFLICT" =>
               /\ Complete("A3") /\ ~Fresh("A3") /\ limit.search >= 1
               /\ scores["A3"].ids = {} /\ Taken("A3", "CS-S037-A2")
      <3>1. Now.org = "A3" /\ (Searches(Now) <=> scores["A3"].ids = {})
        BY <1>2, <1>5, <1>6
      <3>2. /\ ~Complete("A3") => Outcome = "OTHER"
            /\ Complete("A3") /\ Fresh("A3") => Outcome = "REUSED"
        BY <1>2, <3>1, StageEnds
      <3>3. ASSUME Complete("A3"), ~Fresh("A3")
            PROVE  /\ scores["A3"].ids # {} /\ limit.report # 0 => Outcome = "REFRESHED"
                   /\ scores["A3"].ids # {} /\ limit.report = 0
                        => Outcome = "SKIPPED_BUDGET_EXHAUSTED"
                   /\ scores["A3"].ids = {} /\ limit.search = 0
                        => Outcome = "SKIPPED_BUDGET_EXHAUSTED"
        BY <1>4, <3>1, <3>3, StageEnds
      <3>4. ASSUME Complete("A3"), ~Fresh("A3"), scores["A3"].ids = {}, limit.search # 0
            PROVE  /\ Taken("A3", "CS-S037-A2") /\ limit.report # 0
                        => Outcome = "IDENTITY_CONFLICT"
                   /\ ~Taken("A3", "CS-S037-A2") => Outcome # "IDENTITY_CONFLICT"
        <4>1. /\ Complete(Now.org) /\ ~Fresh(Now.org) /\ Searches(Now)
              /\ Taken(Now.org, Now.offer) <=> Taken("A3", "CS-S037-A2")
              /\ Used.guard.search # 0 /\ Used.guard.report = limit.report
          BY <1>2, <1>4, <3>1, <3>4
        <4>2. CASE limit.report # 0
          BY <1>4, <4>1, <4>2, StageEnds
        <4>3. CASE limit.report = 0
          BY <1>4, <4>1, <4>3, StageEnds
        <4>4. QED
          BY <4>2, <4>3
      <3>5. QED
        BY <1>n, <3>2, <3>3, <3>4
    <2>2. before.prepared <=>
            /\ Complete("A3") /\ Complete("B1") /\ limit.search >= 1 /\ limit.report >= 1
            /\ Taken("A3", "CS-S037-A2") /\ scores["A2"].last > 0
            /\ scores["A3"].ids = {} /\ scores["A3"].last = 0 /\ ~Fresh("B1")
      BY <1>6, ScenarioNames DEF ScenarioInv, BeginInv, Prepared
    <2>3. scores'["A2"] = scores["A2"] /\ scores'["B1"] = scores["B1"]
      BY <1>2, <1>6, <1>o, StageFacts
    <2>4. /\ log'[1].status = Outcome /\ log'[1].score = scores'["A3"].last
          /\ step' = 2 /\ before' = before
      BY <1>2, <1>6, RunFacts
    <2>5. Outcome = "IDENTITY_CONFLICT" =>
            scores'["A3"].ids = {} /\ scores'["A3"].last = scores["A3"].last
      BY <1>2, <1>6, <2>1, StageScore
    <2>6. scores["A3"].last = 0 => ~Fresh("A3")
      BY DEF Fresh
    <2>7. before.prepared <=>
            /\ Outcome = "IDENTITY_CONFLICT" /\ scores'["A3"].last = 0
            /\ scores'["A2"].last > 0 /\ Complete("B1") /\ ~Fresh("B1")
            /\ limit.report >= 1
      BY <2>1, <2>2, <2>3, <2>5, <2>6
    <2>8. Fresh("B1")' <=> Fresh("B1")
      BY <2>3 DEF Fresh
    <2>9. ConflictInv'
      BY <2>1, <2>4, <2>5, <2>7, <2>8, RunFacts DEF ConflictInv
    <2>10. QED
      BY <1>3, <2>4, <2>9 DEF EndInv
  <1>7. CASE step = 2
    <2>1. ConflictInv /\ step' = 3 /\ log'[1] = log[1] /\ before' = before
      BY <1>7, RunFacts, ScenarioNames DEF ScenarioInv
    <2>2. /\ /\ Complete("B1") /\ ~Fresh("B1") /\ limit.search >= 1 /\ limit.report >= 1
               => Outcome = "REFRESHED"
          /\ Outcome = "REFRESHED" => Complete("B1") /\ ~Fresh("B1") /\ limit.report >= 1
      BY <1>2, <1>4, <1>5, <1>7, <1>n, StageEnds, NotTaken
    <2>3. scores'["A2"] = scores["A2"] /\ scores'["A3"] = scores["A3"]
      BY <1>2, <1>7, <1>o, StageFacts
    <2>4. Outcome = "REFRESHED" => Cardinality(scores'["B1"].ids) = 1
      BY <1>2, <1>7, IdsStage, FS_Singleton
    <2>5. log'[2].status = Outcome
      BY <1>7, RunFacts
    <2>6. log[1].status = "IDENTITY_CONFLICT" => scores["A3"].ids = {} /\ limit.search >= 1
      BY <1>7, <2>1 DEF ConflictInv
    <2>7. ConflictChecks' <=>
            /\ log[1].status = "IDENTITY_CONFLICT" /\ log[1].score = 0
            /\ scores["A2"].last > 0 /\ Outcome = "REFRESHED"
      BY <2>1, <2>3, <2>4, <2>5, <2>6 DEF ConflictChecks
    <2>8. before.prepared <=> ConflictChecks'
      BY <1>7, <2>1, <2>2, <2>6, <2>7 DEF ConflictInv
    <2>9. Green(cmd)' <=> ConflictChecks'
      BY RunFacts DEF Green
    <2>10. QED
      BY <2>1, <2>8, <2>9 DEF ConflictInv, EndInv
  <1>8. QED
    BY <1>1, <1>6, <1>7

LEMMA StaleStep ==
  ASSUME TypeInv, IdsInv, ScenarioInv, RunStage, cmd = "stale"
  PROVE  StaleInv' /\ EndInv'
  <1>1. step = 1 /\ Len(Script[cmd]) = 1
    BY NowIsRun, ScriptLengths
  <1>2. /\ Now.org = "A4" /\ Now.offer = "CS-S037-A4" /\ Now.force = FALSE /\ Now.mock = Ok
    BY <1>1, NowIs DEF NowHas
  <1>3. /\ limit.search \in Nat /\ limit.report \in Nat
        /\ ~Taken(Now.org, Now.offer)
    BY <1>2, RunFacts, NotTaken
  <1>4. Used.mock = Ok /\ Used.guard = limit
    BY <1>2, UsedIs, Mocks
  <1>5. /\ scores["A4"].last = before.scores["A4"].last + 1 /\ scores["A4"].stale
    BY <1>1, ScenarioNames DEF RunStage, ScenarioInv, StaleInv
  <1>6. Outcome = "REFRESHED" <=> Complete("A4") /\ Searchable("A4") /\ limit.report >= 1
    <2>1. (Searches(Now) <=> scores["A4"].ids = {}) /\ ~Fresh("A4")
      BY <1>2, <1>5 DEF Searches, Fresh
    <2>2. /\ limit.search # 0 <=> limit.search >= 1
          /\ limit.report # 0 <=> limit.report >= 1
      BY <1>3
    <2>3. QED
      BY <1>2, <1>3, <1>4, <2>1, <2>2, StageEnds, Mocks DEF Searchable
  <1>7. before.prepared <=> Complete("A4") /\ Searchable("A4") /\ limit.report >= 1
    BY <1>1, ScenarioNames DEF ScenarioInv, BeginInv, Prepared
  <1>8. /\ log'[1].status = Outcome /\ log'[1].score = scores'["A4"].last
        /\ step' = 2 /\ before' = before /\ scores["A4"].last \in Nat
    BY <1>1, <1>2, RunFacts
  <1>9. Outcome = "REFRESHED" => scores'["A4"].last = scores["A4"].last + 1
    BY <1>2, StageScore
  <1>10. StaleChecks' <=> Outcome = "REFRESHED"
    BY <1>5, <1>8, <1>9 DEF StaleChecks
  <1>11. before.prepared <=> StaleChecks'
    BY <1>3, <1>6, <1>7, <1>10
  <1>12. Green(cmd)' <=> StaleChecks'
    BY RunFacts DEF Green
  <1>13. QED
    BY <1>8, <1>11, <1>12 DEF StaleInv, EndInv

-----------------------------------------------------------------------------
(* The invariant is kept.                                                  *)

LEMMA ScenarioStage ==
  ASSUME TypeInv, IdsInv, ScenarioInv, RunStage
  PROVE  ScenarioInv'
  <1>1. /\ cmd' = cmd /\ cmd \in Scenarios /\ step \in 1 .. Len(Script[cmd])
        /\ step' = step + 1 /\ Len(log') = step
    BY NowIsRun, StageFacts
  <1>2. Len(Script[cmd]) \in Nat
    BY <1>1, RunsAreTyped, LenProperties
  <1>3. step' <= Len(Script[cmd]) + 1 /\ Len(log') = step' - 1 /\ step' # 1
    BY <1>1, <1>2
  <1>4. BeginInv'
    BY <1>3 DEF BeginInv
  <1>5. EndInv'
    <2>1. CASE cmd = "refresh_a4"
      BY <1>1, <2>1 DEF EndInv
    <2>2. QED
      BY <1>1, <2>1, ScenarioNames, SuccessStep, ZeroBudgetStep, BoundaryStep, RecoverStep,
         ConflictStep, StaleStep
  <1>6. /\ cmd = "success" => SuccessInv'
        /\ cmd = "budget_boundary" => BoundaryInv'
        /\ cmd = "failure_recover" => RecoverInv'
        /\ cmd = "conflicts" => ConflictInv'
        /\ cmd = "stale" => StaleInv'
    BY SuccessStep, BoundaryStep, RecoverStep, ConflictStep, StaleStep
  <1>7. cmd' # "none"
    BY <1>1, ScenarioNames
  <1>8. QED
    BY <1>1, <1>3, <1>4, <1>5, <1>6, <1>7 DEF ScenarioInv

LEMMA SheetInit == Init => SheetInv
  BY ScenarioNames DEF Init, NoScore, NoSheet, SheetInv, IdsInv, ScenarioInv, GreenIffPrepared,
     Commands

LEMMA IdsStep == TypeInv /\ IdsInv /\ ScenarioInv /\ [Next]_vars => IdsInv'
  <1> SUFFICES ASSUME TypeInv, IdsInv, ScenarioInv, [Next]_vars PROVE IdsInv'
    OBVIOUS
  <1>1. CASE RunStage
    BY <1>1, IdsStage
  <1>2. CASE RecordStale
    <2>1. /\ scores \in [Orgs -> Scores]
          /\ scores' = [scores EXCEPT !["A4"] = [ids |-> @.ids, last |-> @.last + 1,
                                                 stale |-> TRUE, state |-> TRUE]]
      BY <1>2 DEF RecordStale, TypeInv, DataType
    <2>2. \A o \in Orgs : scores'[o].ids = scores[o].ids
      BY <2>1
    <2>3. ASSUME NEW o \in Orgs PROVE scores[o].last > 0 => scores'[o].last > 0
      <3>1. scores[o] \in Scores
        BY <2>1
      <3>2. scores[o].last \in Nat
        BY <3>1 DEF Scores
      <3>3. scores'[o].last \in {scores[o].last, scores[o].last + 1}
        BY <2>1
      <3>4. QED
        BY <3>2, <3>3
    <2>4. QED
      BY <2>2, <2>3 DEF IdsInv
  <1>3. CASE TimePasses
    <2>1. scores \in [Orgs -> Scores]
      BY DEF TypeInv, DataType
    <2>2. ASSUME NEW o \in Orgs
          PROVE  scores'[o].ids = scores[o].ids /\ scores'[o].last = scores[o].last
      <3>1. scores'[o] = [scores[o] EXCEPT !.stale = scores[o].last > 0]
        BY <1>3 DEF TimePasses
      <3>2. scores[o] \in Scores
        BY <2>1
      <3>3. QED
        BY <3>1, <3>2 DEF Scores
    <2>3. QED
      BY <2>2 DEF IdsInv
  <1>4. CASE UNCHANGED scores
    BY <1>4 DEF IdsInv
  <1>5. QED
    BY <1>1, <1>2, <1>3, <1>4 DEF Next, Harness, Operator, vars, database, InsertRow,
       RowExists, ReportSeeded, Report, ReportRaises, Begin, Redeploy, Interrupted

LEMMA ScenarioStep == TypeInv /\ IdsInv /\ ScenarioInv /\ [Next]_vars => ScenarioInv'
  <1> SUFFICES ASSUME TypeInv, IdsInv, ScenarioInv, [Next]_vars PROVE ScenarioInv'
    OBVIOUS
  <1>1. CASE RunStage
    BY <1>1, ScenarioStage
  <1>2. CASE Ends
    BY <1>2, ScenarioNames DEF Ends, ScenarioInv, Commands
  <1>3. CASE cmd = "seed_fixtures" /\ cmd' = cmd
    BY <1>3, ScenarioNames DEF ScenarioInv
  <1>4. CASE cmd = "none" /\ cmd' = cmd /\ log' = log
    BY <1>4, ScenarioNames DEF ScenarioInv, Commands
  <1>5. ASSUME NEW c \in Commands, Begin(c) PROVE ScenarioInv'
    <2>1. /\ cmd = "none" /\ cmd' = c /\ UNCHANGED <<limit, rows, scores, step, log>>
          /\ before'.scores = scores /\ before'.prepared = Prepared(c)
      BY <1>5 DEF Begin, database
    <2>2. step = 1 /\ log = <<>>
      BY <2>1 DEF TypeInv, SeedInv, ScenarioInv
    <2>3. ASSUME c \in Scenarios
          PROVE  /\ 1 <= Len(Script[c]) /\ Len(log') = 0 /\ Len(Script[c]) \in Nat
      <3>1. Len(Script[c]) \in {1, 2, 3}
        BY <2>3, ScriptLengths, ScenarioNames
      <3>2. Len(log') = 0
        BY <2>1, <2>2
      <3>3. \A n \in {1, 2, 3} : 1 <= n /\ n \in Nat
        OBVIOUS
      <3>4. QED
        BY <3>1, <3>2, <3>3
    <2>4. (Prepared(c) <=> Prepared(c)') /\ step' = 1 /\ cmd' # "none"
      BY <1>5, <2>1, <2>2, ScenarioNames DEF Prepared, Complete, Fresh, Taken, Searchable
    <2>5. ASSUME c \in Scenarios PROVE BeginInv' /\ EndInv'
      BY <2>1, <2>3, <2>4, <2>5 DEF BeginInv, EndInv
    <2>6. SuccessInv' /\ BoundaryInv' /\ RecoverInv' /\ ConflictInv' /\ StaleInv'
      BY <2>1, <2>4 DEF SuccessInv, BoundaryInv, RecoverInv, ConflictInv, StaleInv
    <2>7. QED
      BY <2>1, <2>3, <2>4, <2>5, <2>6 DEF ScenarioInv
  <1>6. CASE RecordStale
    <2>1. /\ cmd = "stale" /\ step = 1 /\ before.scores["A4"] = scores["A4"]
          /\ cmd' = cmd /\ step' = step /\ before' = before /\ log' = log
          /\ rows' = rows /\ limit' = limit
      BY <1>6 DEF RecordStale, process
    <2>2. /\ scores'["A4"].last = scores["A4"].last + 1 /\ scores'["A4"].stale = TRUE
          /\ scores'["A4"].ids = scores["A4"].ids
      <3>1. scores \in [Orgs -> Scores] /\ "A4" \in Orgs
        BY DEF TypeInv, DataType, Orgs, TenantA
      <3>2. scores'["A4"] = [ids |-> scores["A4"].ids, last |-> scores["A4"].last + 1,
                             stale |-> TRUE, state |-> TRUE]
        BY <1>6, <3>1 DEF RecordStale
      <3>3. QED
        BY <3>2
    <2>3. StaleInv'
      BY <2>1, <2>2 DEF StaleInv
    <2>4. BeginInv'
      <3>1. BeginInv
        BY <2>1, ScenarioNames DEF ScenarioInv
      <3>2. Prepared("stale")' <=> Prepared("stale")
        BY <2>1, <2>2 DEF Prepared, Complete, Searchable
      <3>3. QED
        BY <2>1, <3>1, <3>2 DEF BeginInv
    <2>5. step <= Len(Script[cmd]) + 1 /\ Len(log) = step - 1 /\ ~(step > Len(Script[cmd]))
      BY <2>1, ScenarioNames, ScriptLengths DEF ScenarioInv
    <2>6. EndInv'
      BY <2>1, <2>5 DEF EndInv
    <2>7. QED
      BY <2>1, <2>3, <2>4, <2>5, <2>6 DEF ScenarioInv
  <1>7. CASE UNCHANGED vars
    <2>1. UNCHANGED <<limit, rows, scores, cmd, step, mock, guard, calls, before, log>>
      BY <1>7 DEF vars, database, process
    <2>2. /\ BeginInv' <=> BeginInv
          /\ EndInv' <=> EndInv
      BY <2>1 DEF BeginInv, EndInv, Prepared, Complete, Fresh, Taken, Searchable, Open,
         NoStateBefore, Green, SuccessChecks, ZeroBudgetChecks, BoundaryChecks,
         RecoverChecks, ConflictChecks, StaleChecks
    <2>3. /\ SuccessInv' <=> SuccessInv
          /\ BoundaryInv' <=> BoundaryInv
          /\ RecoverInv' <=> RecoverInv
          /\ ConflictInv' <=> ConflictInv
          /\ StaleInv' <=> StaleInv
      BY <2>1 DEF SuccessInv, BoundaryInv, RecoverInv, ConflictInv, StaleInv, Enriched,
         Complete, Fresh, Searchable
    <2>4. QED
      BY <2>1, <2>2, <2>3 DEF ScenarioInv
  <1>8. CASE Report \/ ReportRaises \/ Interrupted \/ RowExists \/ ReportSeeded
    BY <1>2, <1>8 DEF Report, ReportRaises, Interrupted, RowExists, ReportSeeded
  <1>9. CASE InsertRow
    BY <1>3, <1>9 DEF InsertRow, Seeding
  <1>10. CASE Redeploy \/ TimePasses
    <2>1. cmd = "none" /\ cmd' = cmd /\ log' = log
      BY <1>10 DEF Redeploy, TimePasses, process
    <2>2. QED
      BY <2>1, <1>4
  <1>11. QED
    BY <1>1, <1>5, <1>6, <1>7, <1>8, <1>9, <1>10 DEF Next, Harness, Operator

LEMMA GreenStep == ScenarioInv /\ GreenIffPrepared /\ [Next]_vars => GreenIffPrepared'
  <1> SUFFICES ASSUME ScenarioInv, GreenIffPrepared, [Next]_vars PROVE GreenIffPrepared'
    OBVIOUS
  <1>1. CASE Report
    <2>1. /\ cmd \in Scenarios /\ step > Len(Script[cmd]) /\ ~NoStateBefore
          /\ sheet'.cmd = cmd /\ sheet'.prepared = before.prepared
          /\ sheet'.open = Open(cmd) /\ sheet'.green = Green(cmd)
      BY <1>1 DEF Report, Finished
    <2>2. cmd # "refresh_a4" /\ ~Open(cmd) => (before.prepared <=> Green(cmd))
      BY <2>1 DEF ScenarioInv, EndInv
    <2>3. QED
      BY <2>1, <2>2 DEF GreenIffPrepared
  <1>2. CASE ReportSeeded
    <2>1. sheet'.cmd = "seed_fixtures"
      BY <1>2 DEF ReportSeeded
    <2>2. QED
      BY <2>1, ScenarioNames DEF GreenIffPrepared
  <1>3. CASE \E c \in Commands : Begin(c)
    <2>1. sheet'.cmd = "none"
      BY <1>3 DEF Begin, NoSheet
    <2>2. QED
      BY <2>1, ScenarioNames DEF GreenIffPrepared, Commands
  <1>4. CASE UNCHANGED sheet
    BY <1>4 DEF GreenIffPrepared
  <1>5. QED
    BY <1>1, <1>2, <1>3, <1>4 DEF Next, Harness, Operator, vars, InsertRow, RowExists,
       RecordStale, RunStage, ReportRaises, Redeploy, TimePasses, Interrupted

\* Whatever was run before, in whatever order, with whatever interruptions and
\* budgets: a scenario that prints its sheet prints a green one exactly if it was
\* prepared when it began, or is zero_budget with a search budget above zero.
THEOREM GreenMeansPrepared == Spec => []GreenIffPrepared
  <1>1. Init => TypeInv /\ SheetInv
    BY TypeInit, SheetInit
  <1>2. TypeInv /\ SheetInv /\ [Next]_vars => (TypeInv /\ SheetInv)'
    BY TypeStep, IdsStep, ScenarioStep, GreenStep DEF SheetInv
  <1>3. SheetInv => GreenIffPrepared
    BY DEF SheetInv
  <1>4. QED
    BY <1>1, <1>2, <1>3, PTL DEF Spec
=============================================================================
