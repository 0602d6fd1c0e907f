------------------------ MODULE Spec037HarnessProofs ------------------------
(***************************************************************************)
(* Proofs about Spec037Harness, for every set of budgets and any number of *)
(* commands.                                                               *)
(***************************************************************************)
EXTENDS Spec037Harness, SequenceTheorems, TLAPS

-----------------------------------------------------------------------------
(* The budget.                                                             *)

\* What a provider has requested and what it has left never exceed what it was
\* given; a report may take two requests. No provider outlives its command.
BudgetInv ==
  /\ limit \in Counts
  /\ guard \in Counts /\ calls \in Counts
  /\ calls.search + guard.search <= limit.search
  /\ calls.report + 2 * guard.report <= 2 * limit.report
  /\ cmd = "none" => guard = Zero /\ calls = Zero

Solvent(p) ==
  /\ p.guard \in Counts /\ p.calls \in Counts
  /\ p.calls.search + p.guard.search <= limit.search
  /\ p.calls.report + 2 * p.guard.report <= 2 * limit.report

LEMMA ProviderIsSolvent ==
  ASSUME BudgetInv, NEW r
  PROVE  Solvent(Provider(r))
  <1>1. CASE r.mock = <<>>
    BY <1>1 DEF Provider, BudgetInv, Solvent
  <1>2. CASE r.mock # <<>>
    <2>1. Provider(r).guard = limit /\ Provider(r).calls = Zero
      BY <1>2 DEF Provider
    <2>2. limit \in Counts
      BY DEF BudgetInv
    <2>3. QED
      BY <2>1, <2>2 DEF Zero, Counts, Solvent
  <1>3. QED
    BY <1>1, <1>2

\* Nothing is requested without the units for it.
LEMMA AttemptIsPaid ==
  ASSUME NEW r, NEW p, NEW early \in BOOLEAN, NEW status, status = StageStatus(r, p, early)
  PROVE  /\ Searched(r, p, status, early) \in {0, 1}
         /\ Searched(r, p, status, early) = 1 => p.guard.search # 0
         /\ Reported(r, p, status) => p.guard.report # 0
  <1>1. status \in Attempted => (Searches(r) => p.guard.search # 0)
    BY DEF StageStatus, Attempted
  <1>2. Reported(r, p, status) => p.guard.report # 0
    BY DEF StageStatus, Reported
  <1>3. QED
    BY <1>1, <1>2 DEF Searched, SearchedInVain

LEMMA BudgetInit == Init => BudgetInv
  BY HarnessAssumption DEF Init, BudgetInv, Zero, Counts

LEMMA BudgetStep == BudgetInv /\ [Next]_vars => BudgetInv'
  <1> SUFFICES ASSUME BudgetInv, [Next]_vars PROVE BudgetInv'
    OBVIOUS
  <1>0. Zero \in Counts /\ Zero.search = 0 /\ Zero.report = 0
    BY DEF Zero, Counts
  <1>1. CASE Ends /\ UNCHANGED limit
    <2>1. limit \in Counts /\ limit.search \in Nat /\ limit.report \in Nat
      BY DEF BudgetInv, Counts
    <2>2. limit' = limit /\ guard' = Zero /\ calls' = Zero
      BY <1>1 DEF Ends
    <2>3. QED
      BY <1>0, <2>1, <2>2 DEF BudgetInv
  <1>2. CASE RunStage
    <2>1. PICK r, p, status, early :
            /\ early \in BOOLEAN
            /\ p = Provider(r) /\ status = StageStatus(r, p, early)
            /\ guard' = [search |-> p.guard.search - Searched(r, p, status, early),
                         report |-> p.guard.report
                                      - (IF Reported(r, p, status) THEN 1 ELSE 0)]
            /\ calls' = [search |-> p.calls.search + Searched(r, p, status, early),
                         report |-> p.calls.report
                                      + (IF Reported(r, p, status)
                                         THEN Attempts(p.mock) ELSE 0)]
      BY <1>2 DEF RunStage
    <2>2. Solvent(p)
      BY <2>1, ProviderIsSolvent
    <2>3. /\ Searched(r, p, status, early) \in {0, 1}
          /\ Searched(r, p, status, early) = 1 => p.guard.search # 0
          /\ Reported(r, p, status) => p.guard.report # 0
      BY <2>1, AttemptIsPaid
    <2>4. Attempts(p.mock) \in {1, 2}
      BY DEF Attempts
    <2>5. /\ p.guard.search \in Nat /\ p.guard.report \in Nat
          /\ p.calls.search \in Nat /\ p.calls.report \in Nat
          /\ p.calls.search + p.guard.search <= limit.search
          /\ p.calls.report + 2 * p.guard.report <= 2 * limit.report
      BY <2>2 DEF Solvent, Counts
    <2>6. /\ limit' = limit /\ cmd' = cmd /\ cmd # "none"
          /\ limit \in Counts /\ limit.search \in Nat /\ limit.report \in Nat
      <3>1. "none" \notin Scenarios
        BY DEF Scenarios, Script
      <3>2. QED
        BY <1>2, <3>1 DEF RunStage, BudgetInv, Counts
    <2>7. /\ guard'.search \in Nat /\ calls'.search \in Nat
          /\ calls'.search + guard'.search <= limit.search
      <3>1. /\ guard'.search = p.guard.search - Searched(r, p, status, early)
            /\ calls'.search = p.calls.search + Searched(r, p, status, early)
        BY <2>1
      <3>2. CASE Searched(r, p, status, early) = 0
        BY <2>5, <2>6, <3>1, <3>2
      <3>3. CASE Searched(r, p, status, early) = 1
        BY <2>3, <2>5, <2>6, <3>1, <3>3
      <3>4. QED
        BY <2>3, <3>2, <3>3
    <2>8. /\ guard'.report \in Nat /\ calls'.report \in Nat
          /\ calls'.report + 2 * guard'.report <= 2 * limit.report
      <3>1. CASE Reported(r, p, status)
        <4>1. guard'.report = p.guard.report - 1 /\ calls'.report = p.calls.report + Attempts(p.mock)
          BY <2>1, <3>1
        <4>2. QED
          BY <2>3, <2>4, <2>5, <2>6, <3>1, <4>1
      <3>2. CASE ~Reported(r, p, status)
        <4>1. guard'.report = p.guard.report /\ calls'.report = p.calls.report
          BY <2>1, <2>5, <3>2
        <4>2. QED
          BY <2>5, <4>1
      <3>3. QED
        BY <3>1, <3>2
    <2>9. guard' \in Counts /\ calls' \in Counts
      <3>1. \A x, y : x \in Nat /\ y \in Nat => [search |-> x, report |-> y] \in Counts
        BY DEF Counts
      <3>2. /\ guard' = [search |-> guard'.search, report |-> guard'.report]
            /\ calls' = [search |-> calls'.search, report |-> calls'.report]
        BY <2>1
      <3>3. QED
        BY <2>7, <2>8, <3>1, <3>2
    <2>10. limit' \in Counts /\ cmd' # "none"
      BY <2>6
    <2>11. /\ calls'.search + guard'.search <= limit'.search
           /\ calls'.report + 2 * guard'.report <= 2 * limit'.report
      BY <2>6, <2>7, <2>8
    <2>12. QED
      BY <2>9, <2>10, <2>11, Zenon DEF BudgetInv
  <1>3. CASE Redeploy
    BY <1>3, HarnessAssumption DEF Redeploy, process, BudgetInv, Zero, Counts
  <1>4. CASE UNCHANGED <<limit, guard, calls>> /\ (cmd' = "none" => cmd = "none")
    BY <1>4 DEF BudgetInv
  <1>5. CASE \E c \in Commands : Begin(c)
    BY <1>4, <1>5 DEF Begin, database
  <1>6. QED
    BY <1>1, <1>2, <1>3, <1>4, <1>5 DEF Next, Harness, Operator, vars, database, process,
       InsertRow, RowExists, ReportSeeded, RecordStale, Report, ReportRaises, TimePasses,
       Interrupted

\* No provider spends more than the budgets of its deployment, the retries of a
\* report aside, in whatever order commands and deployments come.
THEOREM BudgetIsKept == Spec => []BudgetHolds
  <1>1. BudgetInv => BudgetHolds
    BY DEF BudgetInv, BudgetHolds, Counts
  <1>2. QED
    BY <1>1, BudgetInit, BudgetStep, PTL DEF Spec

-----------------------------------------------------------------------------
(* The fixtures.                                                           *)

PartNames == {"org", "address", "registration", "vat", "role"}
FixtureType == [org : Orgs, part : PartNames]

LEMMA RangeMembers ==
  ASSUME NEW S, NEW s \in Seq(S)
  PROVE  \A x : x \in Range(s) <=> \E i \in 1 .. Len(s) : x = s[i]
  <1>1. DOMAIN s = 1 .. Len(s)
    BY LenProperties
  <1>2. QED
    BY <1>1 DEF Range

LEMMA RangeOfConcat ==
  ASSUME NEW S, NEW s \in Seq(S), NEW t \in Seq(S)
  PROVE  /\ s \o t \in Seq(S)
         /\ Range(s \o t) = Range(s) \cup Range(t)
  <1> DEFINE u == s \o t
  <1>1. /\ u \in Seq(S) /\ Len(u) = Len(s) + Len(t)
        /\ \A i \in 1 .. Len(s) + Len(t) : u[i] = IF i <= Len(s) THEN s[i] ELSE t[i - Len(s)]
    BY ConcatProperties
  <1>2. Len(s) \in Nat /\ Len(t) \in Nat
    BY LenProperties
  <1> HIDE DEF u
  <1>3. /\ \A x : x \in Range(s) <=> \E i \in 1 .. Len(s) : x = s[i]
        /\ \A x : x \in Range(t) <=> \E i \in 1 .. Len(t) : x = t[i]
        /\ \A x : x \in Range(u) <=> \E i \in 1 .. Len(u) : x = u[i]
    BY <1>1, RangeMembers
  <1>4. ASSUME NEW i \in 1 .. Len(s) PROVE s[i] \in Range(u)
    BY <1>1, <1>2, <1>3
  <1>5. ASSUME NEW i \in 1 .. Len(t) PROVE t[i] \in Range(u)
    <2>1. i + Len(s) \in 1 .. Len(u) /\ u[i + Len(s)] = t[i]
      BY <1>1, <1>2
    <2>2. QED
      BY <1>3, <2>1
  <1>6. ASSUME NEW i \in 1 .. Len(u) PROVE u[i] \in Range(s) \cup Range(t)
    <2>1. CASE i <= Len(s)
      BY <1>1, <1>2, <1>3, <2>1
    <2>2. CASE ~(i <= Len(s))
      <3>1. i - Len(s) \in 1 .. Len(t) /\ u[i] = t[i - Len(s)]
        BY <1>1, <1>2, <2>2
      <3>2. QED
        BY <1>3, <3>1
    <2>3. QED
      BY <2>1, <2>2
  <1>7. Range(u) = Range(s) \cup Range(t)
    BY <1>3, <1>4, <1>5, <1>6
  <1>8. QED
    BY <1>1, <1>7 DEF u

LEMMA PartsAreNames ==
  ASSUME NEW o \in Orgs PROVE Parts(o) \in Seq(PartNames)
  <1>1. /\ <<"org">> \in Seq(PartNames) /\ <<"registration", "vat">> \in Seq(PartNames)
        /\ <<"address">> \in Seq(PartNames) /\ <<"role">> \in Seq(PartNames)
    BY DEF PartNames
  <1>2. <<>> \in Seq(PartNames)
    BY EmptySeq
  <1>3. \A b \in BOOLEAN, s \in Seq(PartNames) :
          (IF b THEN s ELSE <<>>) \in Seq(PartNames)
    BY <1>2
  <1>4. \A s, t \in Seq(PartNames) : s \o t \in Seq(PartNames)
    BY RangeOfConcat
  <1>5. QED
    BY <1>1, <1>2, <1>4 DEF Parts

LEMMA RowsAreParts ==
  ASSUME NEW o \in Orgs
  PROVE  /\ RowsOf(o) \in Seq(FixtureType)
         /\ Range(RowsOf(o)) = {[org |-> o, part |-> x] : x \in Range(Parts(o))}
  <1>1. Parts(o) \in Seq(PartNames)
    BY PartsAreNames
  <1>2. /\ Len(Parts(o)) \in Nat /\ DOMAIN Parts(o) = 1 .. Len(Parts(o))
        /\ \A i \in 1 .. Len(Parts(o)) : Parts(o)[i] \in PartNames
    BY <1>1, LenProperties, ElementOfSeq
  <1>3. RowsOf(o) = [i \in 1 .. Len(Parts(o)) |-> [org |-> o, part |-> Parts(o)[i]]]
    BY <1>2 DEF RowsOf
  <1>4. RowsOf(o) \in [1 .. Len(Parts(o)) -> FixtureType]
    BY <1>2, <1>3 DEF FixtureType
  <1>5. RowsOf(o) \in Seq(FixtureType)
    BY <1>2, <1>4, SeqDef
  <1>6. Range(RowsOf(o)) = {[org |-> o, part |-> x] : x \in Range(Parts(o))}
    BY <1>2, <1>3 DEF Range
  <1>7. QED
    BY <1>5, <1>6

\* The fixtures are the parts of the organizations.
LEMMA FixtureRows ==
  /\ Len(Fixtures) \in Nat
  /\ \A k \in 1 .. Len(Fixtures) :
       Fixtures[k].org \in Orgs /\ Fixtures[k].part \in Range(Parts(Fixtures[k].org))
  /\ \A o \in Orgs : \A x \in Range(Parts(o)) :
       \E k \in 1 .. Len(Fixtures) : Fixtures[k].org = o /\ Fixtures[k].part = x
  <1>1. Orgs = {"A1", "A2", "A3", "A4", "B1"}
    BY DEF Orgs, TenantA
  <1>2. \A o \in Orgs : RowsOf(o) \in Seq(FixtureType)
    BY RowsAreParts
  <1> DEFINE s1 == RowsOf("A1") \o RowsOf("A2")
             s2 == s1 \o RowsOf("A3")
             s3 == s2 \o RowsOf("A4")
             s4 == s3 \o RowsOf("B1")
  <1>3. s1 \in Seq(FixtureType) /\ Range(s1) = Range(RowsOf("A1")) \cup Range(RowsOf("A2"))
    BY <1>1, <1>2, RangeOfConcat
  <1> HIDE DEF s1
  <1>4. s2 \in Seq(FixtureType) /\ Range(s2) = Range(s1) \cup Range(RowsOf("A3"))
    BY <1>1, <1>2, <1>3, RangeOfConcat
  <1> HIDE DEF s2
  <1>5. s3 \in Seq(FixtureType) /\ Range(s3) = Range(s2) \cup Range(RowsOf("A4"))
    BY <1>1, <1>2, <1>4, RangeOfConcat
  <1> HIDE DEF s3
  <1>6. s4 \in Seq(FixtureType) /\ Range(s4) = Range(s3) \cup Range(RowsOf("B1"))
    BY <1>1, <1>2, <1>5, RangeOfConcat
  <1> HIDE DEF s4
  <1>7. Fixtures = s4
    BY DEF Fixtures, s1, s2, s3, s4
  <1>8. \A y : y \in Range(s4) <=> \E o \in Orgs : y \in Range(RowsOf(o))
    BY <1>1, <1>3, <1>4, <1>5, <1>6
  <1>9. \A y : y \in Range(s4) <=> \E o \in Orgs : \E x \in Range(Parts(o)) :
                                     y = [org |-> o, part |-> x]
    BY <1>8, RowsAreParts
  <1>10. \A y : y \in Range(s4) <=> \E k \in 1 .. Len(s4) : y = s4[k]
    BY <1>6, RangeMembers
  <1>11. Len(s4) \in Nat
    BY <1>6, LenProperties
  <1>12. ASSUME NEW k \in 1 .. Len(s4)
         PROVE  s4[k].org \in Orgs /\ s4[k].part \in Range(Parts(s4[k].org))
    <2>1. PICK o \in Orgs : \E x \in Range(Parts(o)) : s4[k] = [org |-> o, part |-> x]
      BY <1>9, <1>10
    <2>2. QED
      BY <2>1
  <1>13. ASSUME NEW o \in Orgs, NEW x \in Range(Parts(o))
         PROVE  \E k \in 1 .. Len(s4) : s4[k].org = o /\ s4[k].part = x
    <2>1. PICK k \in 1 .. Len(s4) : s4[k] = [org |-> o, part |-> x]
      BY <1>9, <1>10
    <2>2. QED
      BY <2>1
  <1>14. QED
    BY <1>7, <1>11, <1>12, <1>13

\* Rows are only ever added, in order while the command runs, and a sheet is
\* printed when the last is there.
SeedInv ==
  /\ rows \in [Orgs -> SUBSET PartNames]
  /\ \A o \in Orgs : rows[o] \subseteq Range(Parts(o))
  /\ cmd = "none" => step = 1
  /\ cmd = "seed_fixtures" =>
       /\ step \in Nat \ {0}
       /\ \A k \in 1 .. Len(Fixtures) :
            k < step => Fixtures[k].part \in rows[Fixtures[k].org]
  /\ SeededMeansComplete

LEMMA SeedInit == Init => SeedInv
  BY DEF Init, SeedInv, SeededMeansComplete, NoSheet

LEMMA SeedStep == SeedInv /\ [Next]_vars => SeedInv'
  <1> SUFFICES ASSUME SeedInv, [Next]_vars PROVE SeedInv'
    OBVIOUS
  <1>f. Len(Fixtures) \in Nat
    BY FixtureRows
  <1>1. CASE Ends /\ UNCHANGED <<rows, sheet>>
    BY <1>1 DEF Ends, SeedInv, SeededMeansComplete, Complete
  <1>2. CASE InsertRow
    <2>1. /\ cmd = "seed_fixtures" /\ cmd' = cmd /\ sheet' = sheet
          /\ step \in 1 .. Len(Fixtures) /\ step' = step + 1
          /\ rows' = [rows EXCEPT ![Row.org] = @ \cup {Row.part}]
      BY <1>2, <1>f DEF InsertRow, Seeding, SeedInv
    <2>2. Row.org \in Orgs /\ Row.part \in Range(Parts(Row.org))
      BY <2>1, FixtureRows DEF Row
    <2>3. Row.part \in PartNames
      BY <2>2, PartsAreNames, RangeMembers, ElementOfSeq
    <2>4. /\ rows' \in [Orgs -> SUBSET PartNames]
          /\ \A o \in Orgs : rows[o] \subseteq rows'[o] /\ rows'[o] \subseteq Range(Parts(o))
          /\ Row.part \in rows'[Row.org]
      BY <2>1, <2>2, <2>3 DEF SeedInv
    <2>5. ASSUME NEW k \in 1 .. Len(Fixtures), k < step'
          PROVE  Fixtures[k].part \in rows'[Fixtures[k].org]
      <3>1. CASE k = step
        BY <2>4, <3>1 DEF Row
      <3>2. CASE k # step
        <4>1. k < step
          BY <1>f, <2>1, <2>5, <3>2
        <4>2. Fixtures[k].part \in rows[Fixtures[k].org] /\ Fixtures[k].org \in Orgs
          BY <2>1, <4>1, FixtureRows DEF SeedInv
        <4>3. QED
          BY <2>4, <4>2
      <3>3. QED
        BY <3>1, <3>2
    <2>6. SeededMeansComplete'
      BY <2>1, <2>4 DEF SeedInv, SeededMeansComplete, Complete
    <2>7. step' \in Nat \ {0}
      BY <1>f, <2>1
    <2>8. QED
      BY <2>1, <2>4, <2>5, <2>6, <2>7 DEF SeedInv
  <1>3. CASE ReportSeeded
    <2>1. cmd = "seed_fixtures" /\ step > Len(Fixtures) /\ step \in Nat /\ rows' = rows
          /\ cmd' = "none" /\ step' = 1
      BY <1>3 DEF ReportSeeded, Ends, database, SeedInv
    <2>2. ASSUME NEW o \in Orgs, NEW x \in Range(Parts(o)) PROVE x \in rows[o]
      <3>1. PICK k \in 1 .. Len(Fixtures) : Fixtures[k].org = o /\ Fixtures[k].part = x
        BY FixtureRows
      <3>2. k < step
        BY <1>f, <2>1
      <3>3. QED
        BY <2>1, <3>1, <3>2 DEF SeedInv
    <2>3. \A o \in Orgs : rows[o] = Range(Parts(o))
      BY <2>2 DEF SeedInv
    <2>4. QED
      BY <2>1, <2>3 DEF SeedInv, SeededMeansComplete, Complete
  <1>4. CASE Report
    <2>1. cmd # "seed_fixtures" /\ Ends /\ rows' = rows /\ sheet'.cmd = cmd
      <3>1. "seed_fixtures" \notin Scenarios
        BY DEF Scenarios, Script
      <3>2. QED
        BY <1>4, <3>1 DEF Report, Finished, database
    <2>2. QED
      BY <2>1 DEF Ends, SeedInv, SeededMeansComplete
  <1>5. CASE \E c \in Commands : Begin(c)
    <2>1. /\ cmd = "none" /\ step' = step /\ rows' = rows /\ sheet'.cmd = "none"
          /\ cmd' \in Commands
      BY <1>5 DEF Begin, database, NoSheet
    <2>2. cmd' # "none" /\ step' = 1
      BY <2>1 DEF SeedInv, Commands, Scenarios, Script
    <2>3. QED
      BY <2>1, <2>2, <1>f DEF SeedInv, SeededMeansComplete
  <1>6. CASE RunStage
    <2>1. cmd # "seed_fixtures" /\ cmd # "none" /\ cmd' = cmd /\ UNCHANGED <<rows, sheet>>
      <3>1. "seed_fixtures" \notin Scenarios /\ "none" \notin Scenarios
        BY DEF Scenarios, Script
      <3>2. QED
        BY <1>6, <3>1 DEF RunStage
    <2>2. QED
      BY <2>1 DEF SeedInv, SeededMeansComplete, Complete
  <1>7. CASE UNCHANGED <<rows, cmd, step, sheet>>
    BY <1>7 DEF SeedInv, SeededMeansComplete, Complete
  <1>8. QED
    BY <1>1, <1>2, <1>3, <1>4, <1>5, <1>6, <1>7 DEF Next, Harness, Operator, vars, database,
       process, RowExists, RecordStale, ReportRaises, Redeploy, TimePasses, Interrupted

\* seed-fixtures reports only fixtures that are all there, though an interrupted
\* one may have left some of them.
THEOREM SeededIsComplete == Spec => []SeededMeansComplete
  <1>1. SeedInv => SeededMeansComplete
    BY DEF SeedInv
  <1>2. QED
    BY <1>1, SeedInit, SeedStep, PTL DEF Spec
-----------------------------------------------------------------------------
(* Types.                                                                  *)

RunType == [org : Orgs, offer : ConnectIds, force : BOOLEAN, mock : Seq(Responders)]

LEMMA MocksAreSeq ==
  /\ Ok \in Seq(Responders) /\ Unrouted \in Seq(Responders) /\ <<>> \in Seq(Responders)
  /\ <<"failed section">> \in Seq(Responders) /\ <<"503", "ok">> \in Seq(Responders)
  <1>1. <<>> \in Seq(Responders)
    BY EmptySeq
  <1>2. /\ <<"ok">> \in Seq(Responders) /\ <<"off">> \in Seq(Responders)
        /\ <<"failed section">> \in Seq(Responders) /\ <<"503", "ok">> \in Seq(Responders)
    BY DEF Responders
  <1>3. QED
    BY <1>1, <1>2 DEF Ok, Unrouted

LEMMA RunsAreTyped ==
  ASSUME NEW c \in Scenarios
  PROVE  Script[c] \in Seq(RunType)
  <1>1. ASSUME NEW o \in Orgs, NEW f \in BOOLEAN, NEW i \in ConnectIds,
               NEW m \in Seq(Responders)
        PROVE  Run(o, i, f, m) \in RunType
    BY <1>1 DEF Run, RunType
  <1>2. /\ "A1" \in Orgs /\ "A2" \in Orgs /\ "A3" \in Orgs /\ "A4" \in Orgs /\ "B1" \in Orgs
        /\ "CS-S037-A1" \in ConnectIds /\ "CS-S037-A2" \in ConnectIds
        /\ "CS-S037-A4" \in ConnectIds
    BY DEF Orgs, TenantA, ConnectIds
  <1>3. /\ \A a \in RunType : <<a>> \in Seq(RunType)
        /\ \A a, b \in RunType : <<a, b>> \in Seq(RunType)
        /\ \A a, b, d \in RunType : <<a, b, d>> \in Seq(RunType)
    OBVIOUS
  <1>4. SuccessRuns \in Seq(RunType)
    BY <1>1, <1>2, <1>3, MocksAreSeq DEF SuccessRuns
  <1>5. ZeroBudgetRuns \in Seq(RunType) /\ BoundaryRuns \in Seq(RunType)
    BY <1>1, <1>2, <1>3, MocksAreSeq DEF ZeroBudgetRuns, BoundaryRuns
  <1>6. RecoverRuns \in Seq(RunType) /\ ConflictRuns \in Seq(RunType)
    BY <1>1, <1>2, <1>3, MocksAreSeq DEF RecoverRuns, ConflictRuns
  <1>7. StaleRuns \in Seq(RunType) /\ RefreshRuns \in Seq(RunType)
    BY <1>1, <1>2, <1>3, MocksAreSeq DEF StaleRuns, RefreshRuns
  <1>8. QED
    BY <1>4, <1>5, <1>6, <1>7 DEF Scenarios, Script

LEMMA FetchKeepsMock == \A m \in Seq(Responders) : AfterFetch(m) \in Seq(Responders)
  <1>1. ASSUME NEW s \in Seq(Responders) PROVE Left(s) \in Seq(Responders)
    <2>1. CASE Len(s) > 1
      <3>1. s # <<>>
        BY <2>1
      <3>2. Tail(s) \in Seq(Responders)
        BY <3>1, HeadTailProperties
      <3>3. QED
        BY <2>1, <3>2 DEF Left
    <2>2. QED
      BY <2>1 DEF Left
  <1>2. QED
    BY <1>1 DEF AfterFetch

DataType ==
  /\ limit \in Budgets
  /\ rows \in [Orgs -> SUBSET PartNames]
  /\ scores \in [Orgs -> Scores]

CommandType ==
  /\ cmd \in Commands \cup {"none"}
  /\ step \in Nat \ {0}
  /\ mock \in Seq(Responders)
  /\ before \in [scores : [Orgs -> Scores], prepared : BOOLEAN]
  /\ log \in Seq(Notes)

SheetType ==
  /\ commands \in 0 .. MaxCommands
  /\ sheet.cmd \in Commands \cup {"none"} /\ sheet.prepared \in BOOLEAN
  /\ sheet.open \in BOOLEAN /\ sheet.green \in BOOLEAN

TypeInv == BudgetInv /\ SeedInv /\ DataType /\ CommandType /\ SheetType

LEMMA TypeInvIsType == TypeInv => TypeOK
  BY DEF TypeInv, BudgetInv, DataType, CommandType, SheetType, TypeOK, PartNames

LEMMA ScoreUpdates ==
  ASSUME NEW s \in Scores, NEW b \in BOOLEAN
  PROVE  [s EXCEPT !.stale = b] \in Scores
  BY DEF Scores

LEMMA StoredIsScore ==
  ASSUME NEW r \in RunType, NEW status \in Statuses, NEW state \in BOOLEAN,
         scores \in [Orgs -> Scores]
  PROVE  Stored(r, status, state) \in Scores
  <1>1. r.org \in Orgs /\ r.offer \in ConnectIds
    BY DEF RunType
  <1>2. /\ scores[r.org] \in Scores /\ scores[r.org].ids \in SUBSET ConnectIds
        /\ scores[r.org].last \in Nat
    BY <1>1 DEF Scores
  <1>3. CASE status = "REFRESHED"
    <2>1. (IF Searches(r) THEN {r.offer} ELSE scores[r.org].ids) \in SUBSET ConnectIds
      BY <1>1, <1>2
    <2>2. scores[r.org].last + 1 \in Nat
      BY <1>2
    <2>3. Stored(r, status, state) =
            [ids |-> IF Searches(r) THEN {r.offer} ELSE scores[r.org].ids,
             last |-> scores[r.org].last + 1, stale |-> FALSE, state |-> TRUE]
      BY <1>3 DEF Stored
    <2>4. QED
      BY <2>1, <2>2, <2>3 DEF Scores
  <1>4. CASE status # "REFRESHED"
    <2>1. PICK b \in BOOLEAN : b = (scores[r.org].state \/ state \/ status \in Attempted)
      OBVIOUS
    <2>2. Stored(r, status, state) = [scores[r.org] EXCEPT !.state = b]
      BY <1>4, <2>1 DEF Stored
    <2>3. QED
      BY <1>2, <2>1, <2>2 DEF Scores
  <1>5. QED
    BY <1>3, <1>4

LEMMA StageTypes ==
  ASSUME TypeInv, RunStage, BudgetInv'
  PROVE  scores' \in [Orgs -> Scores] /\ mock' \in Seq(Responders) /\ log' \in Seq(Notes)
  <1> DEFINE r == Script[cmd][step]
             p == Provider(r)
  <1>1. r \in RunType
    <2>1. cmd \in Scenarios /\ step \in 1 .. Len(Script[cmd])
      <3>1. cmd \in Scenarios /\ step <= Len(Script[cmd]) /\ step \in Nat \ {0}
        BY DEF RunStage, TypeInv, CommandType
      <3>2. Len(Script[cmd]) \in Nat
        BY <3>1, RunsAreTyped, LenProperties
      <3>3. QED
        BY <3>1, <3>2
    <2>2. QED
      BY <2>1, RunsAreTyped, ElementOfSeq
  <1>2. \A early \in BOOLEAN : StageStatus(r, p, early) \in Statuses
    BY DEF StageStatus, Statuses
  <1>3. p.mock \in Seq(Responders)
    BY <1>1 DEF Provider, RunType, TypeInv, CommandType
  <1> HIDE DEF r, p
  <1>4. AfterFetch(p.mock) \in Seq(Responders)
    BY <1>3, FetchKeepsMock
  <1> DEFINE st(early) == StageStatus(r, p, early)
  <1>5. PICK status \in {st(TRUE), st(FALSE)} :
        /\ \E state \in BOOLEAN :
             scores' = [scores EXCEPT ![r.org] = Stored(r, status, state)]
        /\ mock' = IF Reported(r, p, status) THEN AfterFetch(p.mock) ELSE p.mock
        /\ log' = Append(log, [status |-> status, score |-> scores'[r.org].last,
                               calls |-> calls', guard |-> guard'])
    BY DEF RunStage, r, p
  <1>s. status \in Statuses
    BY <1>2, <1>5
  <1> HIDE DEF st
  <1>6. r.org \in Orgs
    BY <1>1 DEF RunType
  <1>7. scores \in [Orgs -> Scores]
    BY DEF TypeInv, DataType
  <1>8. scores' \in [Orgs -> Scores]
    <2>1. PICK state \in BOOLEAN :
             scores' = [scores EXCEPT ![r.org] = Stored(r, status, state)]
      BY <1>5
    <2>2. Stored(r, status, state) \in Scores
      BY <1>1, <1>s, <1>7, StoredIsScore
    <2>3. QED
      BY <1>6, <1>7, <2>1, <2>2
  <1>9. scores'[r.org].last \in Nat
    BY <1>6, <1>8 DEF Scores
  <1>10. [status |-> status, score |-> scores'[r.org].last, calls |-> calls',
          guard |-> guard'] \in Notes
    BY <1>s, <1>9 DEF Notes, BudgetInv
  <1>11. log' \in Seq(Notes)
    BY <1>5, <1>10, AppendProperties DEF TypeInv, CommandType
  <1>12. QED
    BY <1>3, <1>4, <1>5, <1>8, <1>11

LEMMA TypeInit == Init => TypeInv
  <1> SUFFICES ASSUME Init PROVE TypeInv
    OBVIOUS
  <1>1. BudgetInv /\ SeedInv
    BY BudgetInit, SeedInit
  <1>2. NoScore \in Scores
    BY DEF NoScore, Scores
  <1>3. Nothing \in [scores : [Orgs -> Scores], prepared : BOOLEAN]
    BY <1>2 DEF Nothing
  <1>4. <<>> \in Seq(Responders) /\ <<>> \in Seq(Notes)
    BY EmptySeq
  <1>5. DataType
    BY <1>2 DEF Init, DataType
  <1>6. CommandType
    BY <1>3, <1>4 DEF Init, CommandType
  <1>7. SheetType
    BY HarnessAssumption DEF Init, SheetType, NoSheet
  <1>8. QED
    BY <1>1, <1>5, <1>6, <1>7 DEF TypeInv

LEMMA TypeStep == TypeInv /\ [Next]_vars => TypeInv'
  <1> SUFFICES ASSUME TypeInv, [Next]_vars PROVE TypeInv'
    OBVIOUS
  <1>1. BudgetInv' /\ SeedInv'
    BY BudgetStep, SeedStep DEF TypeInv
  <1>t. DataType /\ CommandType /\ SheetType
    BY DEF TypeInv
  <1>e. <<>> \in Seq(Responders) /\ <<>> \in Seq(Notes)
    BY EmptySeq
  <1>2. NoScore \in Scores /\ Nothing \in [scores : [Orgs -> Scores], prepared : BOOLEAN]
    BY DEF NoScore, Scores, Nothing
  <1>3. ASSUME Ends PROVE CommandType'
    BY <1>e, <1>2, <1>3 DEF Ends, CommandType
  <1>4. CASE InsertRow
    <2>1. step' \in Nat \ {0} /\ UNCHANGED <<limit, scores, cmd, mock, before, log, commands, sheet>>
      BY <1>t, <1>4 DEF InsertRow, CommandType
    <2>2. rows' \in [Orgs -> SUBSET PartNames]
      BY <1>1 DEF SeedInv
    <2>3. QED
      BY <1>1, <1>t, <2>1, <2>2 DEF TypeInv, DataType, CommandType, SheetType
  <1>5. CASE RowExists \/ ReportRaises \/ Interrupted
    <2>1. CommandType' /\ UNCHANGED <<database, commands, sheet>>
      BY <1>3, <1>5 DEF RowExists, ReportRaises, Interrupted
    <2>2. QED
      BY <1>1, <1>t, <2>1 DEF TypeInv, DataType, SheetType, database
  <1>6. CASE ReportSeeded \/ Report
    <2>1. CommandType' /\ UNCHANGED <<database, commands>>
      BY <1>3, <1>6 DEF ReportSeeded, Report
    <2>2. before.prepared \in BOOLEAN
      BY <1>t DEF CommandType
    <2>3. Green(cmd) \in BOOLEAN
      BY DEF Green, SuccessChecks, ZeroBudgetChecks, BoundaryChecks, RecoverChecks,
         ConflictChecks, StaleChecks
    <2>4. /\ sheet'.cmd = cmd /\ sheet'.prepared = before.prepared
          /\ sheet'.open \in BOOLEAN /\ sheet'.green \in BOOLEAN
      <3>1. PICK n \in BOOLEAN, g \in BOOLEAN :
              sheet' = [cmd |-> cmd, prepared |-> before.prepared, open |-> n, green |-> g]
        <4>1. CASE ReportSeeded
          BY <4>1 DEF ReportSeeded
        <4>2. CASE Report
          BY <2>3, <4>2 DEF Report, Open
        <4>3. QED
          BY <1>6, <4>1, <4>2
      <3>2. QED
        BY <3>1
    <2>5. QED
      BY <1>1, <1>t, <2>1, <2>2, <2>4 DEF TypeInv, DataType, CommandType, SheetType, database
  <1>7. CASE RecordStale
    <2>1. scores' \in [Orgs -> Scores]
      <3>1. "A4" \in Orgs /\ scores \in [Orgs -> Scores]
        BY <1>t DEF Orgs, TenantA, DataType
      <3>2. PICK v : v = [ids |-> scores["A4"].ids, last |-> scores["A4"].last + 1,
                          stale |-> TRUE, state |-> TRUE]
        OBVIOUS
      <3>3. v \in Scores
        <4>1. scores["A4"] \in Scores
          BY <3>1
        <4>2. scores["A4"].ids \in SUBSET ConnectIds /\ scores["A4"].last + 1 \in Nat
          BY <4>1 DEF Scores
        <4>3. QED
          BY <3>2, <4>2 DEF Scores
      <3>4. scores' = [scores EXCEPT !["A4"] = v]
        BY <1>7, <3>2 DEF RecordStale
      <3>5. QED
        BY <3>1, <3>3, <3>4
    <2>2. QED
      BY <1>1, <1>t, <1>7, <2>1 DEF RecordStale, process, TypeInv, DataType, CommandType, SheetType
  <1>8. CASE RunStage
    <2>1. scores' \in [Orgs -> Scores] /\ mock' \in Seq(Responders) /\ log' \in Seq(Notes)
      BY <1>1, <1>8, StageTypes
    <2>2. step' \in Nat \ {0} /\ UNCHANGED <<limit, rows, cmd, before, commands, sheet>>
      BY <1>t, <1>8 DEF RunStage, CommandType
    <2>3. QED
      BY <1>1, <1>t, <2>1, <2>2 DEF TypeInv, DataType, CommandType, SheetType
  <1>9. ASSUME NEW c \in Commands, Begin(c) PROVE TypeInv'
    <2>1. Prepared(c) \in BOOLEAN
      BY DEF Prepared, Fresh, Taken, Complete, Searchable
    <2>2. before' \in [scores : [Orgs -> Scores], prepared : BOOLEAN]
      BY <1>t, <1>9, <2>1 DEF Begin, DataType
    <2>3. commands' \in 0 .. MaxCommands
      BY <1>t, <1>9, HarnessAssumption DEF Begin, SheetType
    <2>4. /\ sheet'.cmd = "none" /\ sheet'.prepared = FALSE /\ sheet'.green = FALSE
          /\ sheet'.open = FALSE
          /\ cmd' = c /\ UNCHANGED <<limit, rows, scores, step, mock, log>>
      BY <1>9 DEF Begin, database, NoSheet
    <2>5. SheetType'
      BY <2>3, <2>4 DEF SheetType
    <2>6. QED
      BY <1>1, <1>t, <2>2, <2>4, <2>5 DEF TypeInv, DataType, CommandType
  <1>10. CASE Redeploy
    BY <1>1, <1>t, <1>10 DEF Redeploy, process, TypeInv, DataType, CommandType, SheetType
  <1>11. CASE TimePasses
    <2>1. scores' = [o \in Orgs |-> [scores[o] EXCEPT !.stale = scores[o].last > 0]]
      BY <1>11 DEF TimePasses
    <2>2. \A o \in Orgs : [scores[o] EXCEPT !.stale = scores[o].last > 0] \in Scores
      <3> SUFFICES ASSUME NEW o \in Orgs
                   PROVE  [scores[o] EXCEPT !.stale = scores[o].last > 0] \in Scores
        OBVIOUS
      <3>1. scores[o] \in Scores
        BY <1>t DEF DataType
      <3>2. (scores[o].last > 0) \in BOOLEAN
        OBVIOUS
      <3>3. QED
        BY <3>1, <3>2, ScoreUpdates
    <2>3. scores' \in [Orgs -> Scores]
      BY <2>1, <2>2
    <2>4. QED
      BY <1>1, <1>t, <1>11, <2>3 DEF TimePasses, process, TypeInv, DataType, CommandType, SheetType
  <1>12. CASE UNCHANGED vars
    BY <1>1, <1>t, <1>12 DEF vars, database, process, TypeInv, DataType, CommandType, SheetType
  <1>13. QED
    BY <1>4, <1>5, <1>6, <1>7, <1>8, <1>9, <1>10, <1>11, <1>12 DEF Next, Harness, Operator

\* Every variable keeps its type.
THEOREM TypeCorrect == Spec => []TypeOK
  BY TypeInit, TypeStep, TypeInvIsType, PTL DEF Spec
=============================================================================
