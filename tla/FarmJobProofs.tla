--------------------------- MODULE FarmJobProofs ----------------------------
(***************************************************************************)
(* No job is given up on while it runs, unless it was queued for the whole *)
(* of the grace period: for every time limit, every cap, every clock.      *)
(* And the exit code is the job's verdict: for every command, whatever the *)
(* tests print and whichever logs arrive.                                  *)
(***************************************************************************)
EXTENDS FarmJob, FiniteSetTheorems, TLAPS

(* The job's own time, in ticks. *)
Limit == cmd.timeout * Minute

ClockOK ==
  /\ cmd \in Commands
  /\ {clock, deadline, startedAt} \subseteq Int
  /\ gaveUp \in BOOLEAN

(* Past submit's own check of its argument. *)
Checked ==
  at \in {"upload", "submit_job", "wait", "poll", "cap", "asleep", "fetch", "check"}
    \/ job # "none"
    => InRange(cmd.timeout)

(* Once wait has begun, its cap covers the job's time and the grace.       *)
CapCovers ==
  at \in {"poll", "cap", "asleep"} \/ gaveUp => deadline >= Limit + Grace

WaitInv ==
  /\ ClockOK
  /\ Checked
  /\ CapCovers
  /\ clock >= 0
  /\ gaveUp => clock >= deadline /\ at \in {"fetch", "done"}
  /\ job = "running" => clock <= TimeLimit

(* A time limit that was accepted is no negative number of ticks.          *)
LEMMA LimitIsNat ==
  ASSUME ClockOK
  PROVE  Limit \in Int /\ (InRange(cmd.timeout) => Limit \in Nat)
<1>1. cmd.timeout \in Int /\ Minute \in Nat /\ MinTimeout \in Nat
  BY FarmAssumption DEF ClockOK
<1>2. Limit \in Int  BY <1>1 DEF Limit
<1>3. ASSUME InRange(cmd.timeout) PROVE Limit \in Nat
  <2>1. cmd.timeout \in Nat  BY <1>1, <1>3 DEF InRange
  <2> QED  BY <1>1, <2>1 DEF Limit
<1> QED  BY <1>2, <1>3

(* The invariant implies the property, by adding up the three bounds.      *)
LEMMA WaitInvImplies == WaitInv => NeverAbandonsRunning
<1> SUFFICES ASSUME WaitInv, gaveUp, job = "running" PROVE startedAt >= Grace
  BY DEF NeverAbandonsRunning
<1>1. Limit \in Int  BY LimitIsNat DEF WaitInv
<1>2. clock <= startedAt + Limit  BY DEF WaitInv, TimeLimit, Limit
<1>3. clock >= deadline /\ deadline >= Limit + Grace  BY DEF WaitInv, CapCovers
<1> HIDE DEF Limit
<1> QED  BY <1>1, <1>2, <1>3, FarmAssumption DEF WaitInv, ClockOK

LEMMA WaitInvInit == FarmInit => WaitInv
<1> SUFFICES ASSUME FarmInit PROVE WaitInv
  OBVIOUS
<1>1. at \in {"submit", "command"}  BY DEF FarmInit
<1>2. ClockOK
  <2>1. cmd \in Commands /\ clock = 0 /\ deadline = 0 /\ startedAt = 0 /\ gaveUp = FALSE
    BY DEF FarmInit
  <2>2. {clock, deadline, startedAt} \subseteq Int  BY <2>1
  <2>3. gaveUp \in BOOLEAN  BY <2>1
  <2> QED  BY <2>1, <2>2, <2>3 DEF ClockOK
<1>3. Checked /\ CapCovers  BY <1>1 DEF FarmInit, Checked, CapCovers
<1> QED  BY <1>2, <1>3 DEF FarmInit, WaitInv

(* The command before it waits: nothing has been given up, no clock read.  *)
LEMMA BeforeWait ==
  ASSUME WaitInv,
         \/ CheckCommand \/ CheckAgain \/ OpenClient \/ SubmitJob
         \/ Prepare("build", "stage") \/ Prepare("stage", "client")
         \/ Prepare("upload", "submit_job")
  PROVE  WaitInv'
<1>1. CASE CheckCommand
  BY <1>1 DEF CheckCommand, Stop, Go, farmVars, WaitInv, ClockOK, Checked, CapCovers, TimeLimit, Limit
<1>2. CASE CheckAgain
  BY <1>2 DEF CheckAgain, Stop, Go, farmVars, WaitInv, ClockOK, Checked, CapCovers, TimeLimit, Limit
<1>3. CASE OpenClient
  BY <1>3 DEF OpenClient, Stop, Go, farmVars, WaitInv, ClockOK, Checked, CapCovers, TimeLimit, Limit
<1>4. CASE SubmitJob
  BY <1>4 DEF SubmitJob, Stop, Go, WaitInv, ClockOK, Checked, CapCovers, TimeLimit, Limit
<1>5. CASE Prepare("build", "stage")
  BY <1>5 DEF Prepare, Stop, Go, farmVars, WaitInv, ClockOK, Checked, CapCovers, TimeLimit, Limit
<1>6. CASE Prepare("stage", "client")
  BY <1>6 DEF Prepare, Stop, Go, farmVars, WaitInv, ClockOK, Checked, CapCovers, TimeLimit, Limit
<1>7. CASE Prepare("upload", "submit_job")
  BY <1>7 DEF Prepare, Stop, Go, farmVars, WaitInv, ClockOK, Checked, CapCovers, TimeLimit, Limit
<1> QED  BY <1>1, <1>2, <1>3, <1>4, <1>5, <1>6, <1>7

(* wait: the cap is set from the limit, and giving up reads the clock.     *)
LEMMA DuringWait ==
  ASSUME WaitInv, StartWait \/ PollLogs \/ TestCap \/ Wake
  PROVE  WaitInv'
<1>1. CASE StartWait
  <2>1. deadline' = clock + (Limit + Grace)
    BY <1>1, LimitIsNat, FarmAssumption DEF StartWait, WaitCap, Limit, WaitInv, ClockOK
  <2>2. Limit \in Int /\ Limit' = Limit
    BY <1>1, LimitIsNat DEF StartWait, Limit, WaitInv
  <2>3. deadline' \in Int /\ deadline' >= Limit' + Grace
    <3> HIDE DEF Limit
    <3> QED  BY <2>1, <2>2, FarmAssumption DEF WaitInv, ClockOK
  <2>4. CapCovers'  BY <2>3 DEF CapCovers
  <2>5. ClockOK' /\ Checked'
    BY <1>1, <2>3 DEF StartWait, Go, farmVars, WaitInv, ClockOK, Checked
  <2> QED
    BY <1>1, <2>4, <2>5 DEF StartWait, Go, farmVars, WaitInv, TimeLimit
<1>2. CASE PollLogs
  BY <1>2 DEF PollLogs, Go, farmVars, WaitInv, ClockOK, Checked, CapCovers, TimeLimit, Limit
<1>3. CASE TestCap
  BY <1>3 DEF TestCap, Go, farmVars, WaitInv, ClockOK, Checked, CapCovers, TimeLimit, Limit
<1>4. CASE Wake
  BY <1>4 DEF Wake, Go, farmVars, WaitInv, ClockOK, Checked, CapCovers, TimeLimit, Limit
<1> QED  BY <1>1, <1>2, <1>3, <1>4

LEMMA AfterWait ==
  ASSUME WaitInv, Fetch \/ CheckResults
  PROVE  WaitInv'
<1>1. CASE Fetch
  BY <1>1 DEF Fetch, Stop, Go, farmVars, WaitInv, ClockOK, Checked, CapCovers, TimeLimit, Limit
<1>2. CASE CheckResults
  BY <1>2 DEF CheckResults, Stop, farmVars, WaitInv, ClockOK, Checked, CapCovers, TimeLimit, Limit
<1> QED  BY <1>1, <1>2

(* The farm: a job has all of its time before it when it starts.           *)
LEMMA FarmPreserves ==
  ASSUME WaitInv, FarmStep
  PROVE  WaitInv'
<1>1. CASE StartJob
  <2>1. Limit \in Nat
    BY <1>1, LimitIsNat DEF StartJob, WaitInv, Checked
  <2>2. TimeLimit' = clock + Limit
    BY <1>1 DEF StartJob, cliVars, TimeLimit, Limit
  <2>3. clock' <= TimeLimit'
    <3> HIDE DEF Limit
    <3> QED  BY <1>1, <2>1, <2>2 DEF StartJob, WaitInv, ClockOK
  <2> QED
    BY <1>1, <2>3 DEF StartJob, cliVars, WaitInv, ClockOK, Checked, CapCovers, Limit
<1>2. CASE \E t \in TestNames : RunTest(t)
  BY <1>2 DEF RunTest, cliVars, WaitInv, ClockOK, Checked, CapCovers, TimeLimit, Limit
<1>3. CASE EndSession
  BY <1>3 DEF EndSession, cliVars, WaitInv, ClockOK, Checked, CapCovers, TimeLimit, Limit
<1>4. CASE CutOff
  BY <1>4 DEF CutOff, cliVars, WaitInv, ClockOK, Checked, CapCovers, TimeLimit, Limit
<1>5. CASE \E f \in Reports \union TestNames \union {"stale"} : Publish(f)
  BY <1>5 DEF Publish, cliVars, WaitInv, ClockOK, Checked, CapCovers, TimeLimit, Limit
<1> QED  BY <1>1, <1>2, <1>3, <1>4, <1>5 DEF FarmStep

(* Time does not run past the end of a running job, nor once wait is over. *)
LEMMA TickPreserves ==
  ASSUME WaitInv, Tick
  PROVE  WaitInv'
<1>1. UNCHANGED <<cmd, at, deadline, gaveUp, job, startedAt>> /\ clock' = clock + 1
  BY DEF Tick, cliVars, farmVars
<1>2. ~gaveUp  BY DEF Tick, WaitInv
<1>3. ClockOK' /\ Checked' /\ CapCovers'
  <2>1. ClockOK'  BY <1>1 DEF WaitInv, ClockOK
  <2>2. Checked'  BY <1>1 DEF WaitInv, Checked
  <2>3. Limit' = Limit  BY <1>1 DEF Limit
  <2>4. CapCovers'  BY <1>1, <2>3 DEF WaitInv, CapCovers
  <2> QED  BY <2>1, <2>2, <2>4
<1>4. ASSUME job = "running" PROVE clock' <= TimeLimit'
  <2>1. TimeLimit' = TimeLimit /\ TimeLimit \in Int
    BY <1>1, LimitIsNat DEF TimeLimit, Limit, WaitInv, ClockOK
  <2>2. clock < TimeLimit  BY <1>4 DEF Tick
  <2> HIDE DEF TimeLimit
  <2> QED  BY <1>1, <2>1, <2>2 DEF WaitInv, ClockOK
<1> QED  BY <1>1, <1>2, <1>3, <1>4 DEF WaitInv, ClockOK

LEMMA WaitInvNext == WaitInv /\ [FarmNext]_vars => WaitInv'
<1> SUFFICES ASSUME WaitInv, [FarmNext]_vars PROVE WaitInv'
  OBVIOUS
<1>1. CASE CliStep  BY <1>1, BeforeWait, DuringWait, AfterWait DEF CliStep
<1>2. CASE FarmStep  BY <1>2, FarmPreserves
<1>3. CASE Tick  BY <1>3, TickPreserves
<1>4. CASE UNCHANGED vars
  BY <1>4 DEF vars, cliVars, farmVars, WaitInv, ClockOK, Checked, CapCovers, TimeLimit, Limit
<1> QED  BY <1>1, <1>2, <1>3, <1>4 DEF FarmNext, Returned

(* wait, with the cap that the command derives from --timeout-min, never   *)
(* stops watching a job that runs, unless the farm kept it queued for the  *)
(* whole of the grace period (cli.py:342-348, job.py:379).                 *)
THEOREM RunningNeverAbandoned == FarmSpec => []NeverAbandonsRunning
<1>1. FarmInit => WaitInv  BY WaitInvInit
<1>2. WaitInv /\ [FarmNext]_vars => WaitInv'  BY WaitInvNext
<1>3. WaitInv => NeverAbandonsRunning  BY WaitInvImplies
<1> QED  BY <1>1, <1>2, <1>3, PTL DEF FarmSpec

-----------------------------------------------------------------------------
(* The verdict.                                                            *)

(* What pytest writes when it ends by itself.                              *)
TrueReport ==
  [parses |-> TRUE, tests |-> Cardinality(DOMAIN ran),
   failures |-> Count("fail"), skipped |-> Count("skip")]

(* A test passed only with its line and a positive count; the self test    *)
(* comes first.                                                            *)
RanOK ==
  /\ DOMAIN ran \subseteq TestNames
  /\ DOMAIN ran # {} => "selftest" \in DOMAIN ran
  /\ \A t \in DOMAIN ran :
       /\ ran[t].verdict \in {"pass", "fail", "skip"}
       /\ ran[t].verdict = "pass" => ran[t].out.ok /\ ran[t].out.cycles = "positive"

(* A report counts the tests that its session has run, and no more follow. *)
ReportOK ==
  \/ report = NoReport
  \/ job = "over" /\ report = TrueReport

(* The condition of the check.                                             *)
Passing ==
  /\ Cardinality(paths \intersect Reports) = 1
  /\ CountsClean(report)
  /\ \E f \in paths : Evidence(f).pass
  /\ \E f \in paths : Evidence(f).cycles = "positive"

(* Only the check passes a job, and it is not reached without a fetch that *)
(* came through; what it decided on has not changed since.                 *)
CodeOK ==
  /\ code = ExitPass => at = "done" /\ CountsClean(report)
  /\ at \notin {"check", "done"} => paths = {}
  /\ at = "check" => ~gaveUp
  /\ at = "done" /\ ~gaveUp /\ paths # {} => (Passing => code = ExitPass)

(* No job before it is submitted.                                          *)
NotYetOK ==
  at \in {"command", "submit", "build", "stage", "client", "upload", "submit_job"}
    => job = "none"

VerdictInv == RanOK /\ ReportOK /\ CodeOK /\ NotYetOK

LEMMA NamesOfTests == TestNames = {"selftest", "coherency"} /\ IsFiniteSet(TestNames)
<1>1. TestNames = {"selftest", "coherency"}  BY DEF TestNames, Tests
<1>2. IsFiniteSet({"selftest"}) /\ IsFiniteSet({"selftest"} \union {"coherency"})
  BY FS_Singleton, FS_AddElement
<1>3. {"selftest", "coherency"} = {"selftest"} \union {"coherency"}  OBVIOUS
<1> QED  BY <1>1, <1>2, <1>3

(* Nothing is counted exactly when there is nothing to count.              *)
LEMMA CountZero ==
  ASSUME RanOK, NEW v
  PROVE  Count(v) = 0 <=> \A t \in DOMAIN ran : ran[t].verdict # v
<1> DEFINE those == {t \in DOMAIN ran : ran[t].verdict = v}
<1>1. IsFiniteSet(those)  BY NamesOfTests, FS_Subset DEF RanOK
<1>2. Cardinality(those) = 0 <=> those = {}
  <2> HIDE DEF those
  <2> QED  BY <1>1, FS_EmptySet
<1> QED  BY <1>2 DEF Count

(* A clean count is of a session in which every test that ran passed, the  *)
(* self test among them, and which ran them all unless it was              *)
(* interrupted...                                                          *)
LEMMA CleanMeansPassed ==
  ASSUME RanOK, ReportOK, CountsClean(report)
  PROVE  /\ \A t \in DOMAIN ran : ran[t].verdict = "pass"
         /\ "selftest" \in DOMAIN ran
         /\ ~Interrupted => AllPassed
<1>1. report = TrueReport
  BY DEF ReportOK, CountsClean, NoReport
<1>2. Cardinality(DOMAIN ran) > 0 /\ Count("fail") = 0 /\ Count("skip") = 0
  BY <1>1 DEF CountsClean, TrueReport
<1>3. "selftest" \in DOMAIN ran
  <2>1. Cardinality({}) = 0  BY FS_EmptySet
  <2> QED  BY <1>2, <2>1 DEF RanOK
<1>4. \A t \in DOMAIN ran : ran[t].verdict = "pass"
  <2>1. \A t \in DOMAIN ran : ran[t].verdict # "fail" /\ ran[t].verdict # "skip"
    BY <1>2, CountZero
  <2> QED  BY <2>1 DEF RanOK
<1>5. ASSUME ~Interrupted
      PROVE  AllPassed
  <2>1. ~(Cardinality(DOMAIN ran) < Cardinality(TestNames))
    BY <1>1, <1>5 DEF Interrupted, TrueReport
  <2>2. /\ Cardinality(DOMAIN ran) \in Nat /\ Cardinality(TestNames) \in Nat
        /\ Cardinality(DOMAIN ran) <= Cardinality(TestNames)
        /\ Cardinality(DOMAIN ran) = Cardinality(TestNames) => DOMAIN ran = TestNames
    BY NamesOfTests, FS_Subset, FS_CardinalityType DEF RanOK
  <2>3. DOMAIN ran = TestNames
    BY <2>1, <2>2
  <2> QED  BY <1>4, <2>3 DEF AllPassed
<1> QED  BY <1>3, <1>4, <1>5

(* ... and a report of a session in which every test passed counts clean.  *)
LEMMA PassedMeansClean ==
  ASSUME RanOK, ReportOK, AllPassed, report.parses
  PROVE  CountsClean(report)
<1>1. DOMAIN ran = TestNames  BY DEF RanOK, AllPassed
<1>2. report = TrueReport  BY DEF ReportOK, NoReport
<1>3. Count("fail") = 0 /\ Count("skip") = 0  BY <1>1, CountZero DEF AllPassed
<1>4. Cardinality(DOMAIN ran) > 0
  <2>1. Cardinality(TestNames) \in Nat /\ Cardinality(TestNames) # 0
    BY NamesOfTests, FS_CardinalityType, FS_EmptySet
  <2> QED  BY <1>1, <2>1
<1> QED  BY <1>2, <1>3, <1>4 DEF CountsClean, TrueReport

LEMMA VerdictInvImplies == VerdictInv => ExitMatchesJob
<1> SUFFICES ASSUME VerdictInv PROVE ExitMatchesJob
  OBVIOUS
<1>1. ASSUME code = ExitPass
      PROVE  /\ \A t \in DOMAIN ran : ran[t].verdict = "pass"
             /\ "selftest" \in DOMAIN ran /\ ran["selftest"].out.cycles = "positive"
             /\ ~Interrupted => AllPassed
  <2>1. CountsClean(report)  BY <1>1 DEF VerdictInv, CodeOK
  <2>2. /\ \A t \in DOMAIN ran : ran[t].verdict = "pass"
        /\ "selftest" \in DOMAIN ran
        /\ ~Interrupted => AllPassed
    BY <2>1, CleanMeansPassed DEF VerdictInv
  <2> QED  BY <2>2 DEF VerdictInv, RanOK
<1>2. ASSUME Delivered PROVE code = ExitPass
  <2>1. paths \intersect Reports = {"report"}  BY <1>2 DEF Delivered, Reports
  <2>2. Cardinality(paths \intersect Reports) = 1  BY <2>1, FS_Singleton
  <2>3. CountsClean(report)  BY <1>2, PassedMeansClean DEF VerdictInv, Delivered
  <2>4. "selftest" \in paths /\ "selftest" \in DOMAIN ran /\ ran["selftest"].verdict = "pass"
    BY <1>2, NamesOfTests DEF Delivered, AllPassed
  <2>5. ran["selftest"].out.ok /\ ran["selftest"].out.cycles = "positive"
    BY <2>4 DEF VerdictInv, RanOK
  <2>6. Evidence("selftest").pass /\ Evidence("selftest").cycles = "positive"
    BY <2>5, NamesOfTests DEF Evidence
  <2>7. Passing  BY <2>2, <2>3, <2>4, <2>6 DEF Passing
  <2> QED  BY <1>2, <2>4, <2>7 DEF Delivered, VerdictInv, CodeOK
<1> QED  BY <1>1, <1>2 DEF ExitMatchesJob

LEMMA VerdictInvInit == FarmInit => VerdictInv
<1> SUFFICES ASSUME FarmInit PROVE VerdictInv
  OBVIOUS
<1>1. DOMAIN ran = {} /\ report = NoReport  BY DEF FarmInit
<1>2. code = Running /\ at \in {"submit", "command"} /\ paths = {}  BY DEF FarmInit
<1>3. CodeOK  BY <1>2 DEF CodeOK, Running, ExitPass
<1>4. NotYetOK  BY DEF FarmInit, NotYetOK
<1> QED  BY <1>1, <1>3, <1>4 DEF VerdictInv, RanOK, ReportOK

(* Steps that leave the session, its report and the files alone.           *)
LEMMA SessionUntouched ==
  ASSUME VerdictInv, UNCHANGED <<ran, report, paths>>, job' = job \/ report = NoReport
  PROVE  RanOK' /\ ReportOK' /\ Passing' = Passing
<1>1. RanOK'  BY DEF VerdictInv, RanOK
<1>2. TrueReport' = TrueReport  BY DEF TrueReport, Count
<1>3. ReportOK'  BY <1>2 DEF VerdictInv, ReportOK
<1>4. Passing' = Passing
  <2>1. CountsClean(report)' = CountsClean(report)  BY DEF CountsClean
  <2>2. \A f : Evidence(f)' = Evidence(f)  BY DEF Evidence
  <2> QED  BY <2>1, <2>2 DEF Passing
<1> QED  BY <1>1, <1>3, <1>4

(* The command up to the fetch: it refuses, fails or goes on.              *)
LEMMA VerdictBeforeFetch ==
  ASSUME VerdictInv,
         \/ CheckCommand \/ CheckAgain \/ OpenClient \/ SubmitJob
         \/ Prepare("build", "stage") \/ Prepare("stage", "client")
         \/ Prepare("upload", "submit_job")
         \/ StartWait \/ PollLogs \/ TestCap \/ Wake
  PROVE  VerdictInv'
<1> USE DEF Stop, Go, farmVars
<1>1. UNCHANGED <<ran, report, paths>> /\ (job' = job \/ job = "none")
  BY DEF VerdictInv, NotYetOK, CheckCommand, CheckAgain, OpenClient, SubmitJob, Prepare,
         StartWait, PollLogs, TestCap, Wake
<1>2. RanOK' /\ ReportOK'
  BY <1>1, SessionUntouched DEF VerdictInv, ReportOK
<1>3. paths = {} /\ at \notin {"check", "done"} /\ at' # "check"
  BY DEF VerdictInv, CodeOK, CheckCommand, CheckAgain, OpenClient, SubmitJob, Prepare,
         StartWait, PollLogs, TestCap, Wake
<1>4. code' # ExitPass
  BY <1>3 DEF VerdictInv, CodeOK, CheckCommand, CheckAgain, OpenClient, SubmitJob, Prepare,
              StartWait, PollLogs, TestCap, Wake, ExitPass, ExitFail, ExitRefused
<1>5. CodeOK'  BY <1>1, <1>3, <1>4 DEF CodeOK
<1>6. NotYetOK'
  BY DEF VerdictInv, NotYetOK, CheckCommand, CheckAgain, OpenClient, SubmitJob, Prepare,
         StartWait, PollLogs, TestCap, Wake
<1> QED  BY <1>2, <1>5, <1>6 DEF VerdictInv

(* The fetch brings files or fails; the check decides on them.             *)
LEMMA VerdictAtEnd ==
  ASSUME VerdictInv, Fetch \/ CheckResults
  PROVE  VerdictInv'
<1>1. UNCHANGED <<ran, report, job, gaveUp>>  BY DEF Fetch, CheckResults, farmVars
<1>2. RanOK' /\ ReportOK'
  <2>1. TrueReport' = TrueReport  BY <1>1 DEF TrueReport, Count
  <2> QED  BY <1>1, <2>1 DEF VerdictInv, RanOK, ReportOK
<1>3. NotYetOK'  BY DEF NotYetOK, Fetch, CheckResults, Stop, Go
<1>4. CASE Fetch
  <2>1. code # ExitPass /\ paths = {}  BY <1>4 DEF Fetch, VerdictInv, CodeOK
  <2>2. \/ at' = "check" /\ ~gaveUp' /\ code' = code
        \/ at' = "done" /\ code' = ExitFail /\ (gaveUp' \/ paths' = {})
    BY <1>1, <1>4, <2>1 DEF Fetch, Stop, Go
  <2>3. CodeOK'  BY <2>1, <2>2 DEF CodeOK, ExitPass, ExitFail
  <2> QED  BY <1>2, <1>3, <2>3 DEF VerdictInv
<1>5. CASE CheckResults
  <2>1. at' = "done" /\ code' = (IF Passing THEN ExitPass ELSE ExitFail) /\ paths' = paths
    BY <1>5 DEF CheckResults, Stop, Passing
  <2>2. Passing' = Passing  BY <1>1, <2>1, SessionUntouched
  <2>3. CountsClean(report)' = CountsClean(report)  BY <1>1 DEF CountsClean
  <2>4. CodeOK'  BY <2>1, <2>2, <2>3 DEF CodeOK, ExitPass, ExitFail, Passing
  <2> QED  BY <1>2, <1>3, <2>4 DEF VerdictInv
<1> QED  BY <1>4, <1>5

(* While the farm works, nothing has been decided; the tests run before    *)
(* the report is written, and none after.                                  *)
LEMMA VerdictFarm ==
  ASSUME VerdictInv, FarmStep
  PROVE  VerdictInv'
<1>1. at \notin {"check", "done"} /\ UNCHANGED <<at, code, paths, gaveUp>>
  BY DEF FarmStep, StartJob, RunTest, EndSession, CutOff, Publish, cliVars
<1>2. CodeOK'  BY <1>1 DEF VerdictInv, CodeOK
<1>3. NotYetOK'
  BY <1>1 DEF VerdictInv, NotYetOK, FarmStep, StartJob, RunTest, EndSession, CutOff, Publish
<1>4. CASE StartJob
  BY <1>2, <1>3, <1>4, SessionUntouched DEF StartJob, cliVars, VerdictInv, ReportOK
<1>5. ASSUME NEW t \in TestNames, RunTest(t) PROVE VerdictInv'
  <2>1. report = NoReport /\ report' = report
    BY <1>5 DEF RunTest, VerdictInv, ReportOK
  <2>2. PICK r \in {Result(Verdict(out), out) : out \in Outputs(t)} \union {Result("skip", Nothing)} :
          ran' = [u \in DOMAIN ran \union {t} |-> IF u = t THEN r ELSE ran[u]]
    BY <1>5 DEF RunTest
  <2>3. /\ r.verdict \in {"pass", "fail", "skip"}
        /\ r.verdict = "pass" => r.out.ok /\ r.out.cycles = "positive"
    BY DEF Result, Verdict
  <2>4. DOMAIN ran = {} => t = "selftest"
    <3>1. t = Tests[Cardinality(DOMAIN ran) + 1]
      BY <1>5 DEF RunTest
    <3>2. Cardinality({}) = 0  BY FS_EmptySet
    <3> QED  BY <3>1, <3>2 DEF Tests
  <2>5. "selftest" \in DOMAIN ran'
    BY <2>2, <2>4 DEF VerdictInv, RanOK
  <2>6. RanOK'  BY <2>2, <2>3, <2>5 DEF VerdictInv, RanOK
  <2> QED  BY <1>2, <1>3, <2>1, <2>6 DEF VerdictInv, ReportOK
<1>6. CASE EndSession
  <2>1. RanOK' /\ TrueReport' = TrueReport
    BY <1>6 DEF EndSession, VerdictInv, RanOK, TrueReport, Count
  <2>2. ReportOK'  BY <1>6, <2>1 DEF EndSession, ReportOK, TrueReport
  <2> QED  BY <1>2, <1>3, <2>1, <2>2 DEF VerdictInv
<1>7. CASE CutOff
  BY <1>2, <1>3, <1>7, SessionUntouched DEF CutOff, cliVars, VerdictInv, ReportOK
<1>8. CASE \E f \in Reports \union TestNames \union {"stale"} : Publish(f)
  BY <1>2, <1>3, <1>8, SessionUntouched DEF Publish, cliVars, VerdictInv
<1> QED  BY <1>4, <1>5, <1>6, <1>7, <1>8 DEF FarmStep

LEMMA VerdictInvNext == VerdictInv /\ [FarmNext]_vars => VerdictInv'
<1> SUFFICES ASSUME VerdictInv, [FarmNext]_vars PROVE VerdictInv'
  OBVIOUS
<1>1. CASE CliStep  BY <1>1, VerdictBeforeFetch, VerdictAtEnd DEF CliStep
<1>2. CASE FarmStep  BY <1>2, VerdictFarm
<1>3. CASE Tick \/ UNCHANGED vars
  <2>1. UNCHANGED <<at, code, gaveUp, paths, job, ran, report>>
    BY <1>3 DEF Tick, vars, cliVars, farmVars
  <2>2. RanOK' /\ ReportOK' /\ Passing' = Passing  BY <2>1, SessionUntouched
  <2>3. CountsClean(report)' = CountsClean(report)  BY <2>1 DEF CountsClean
  <2>4. CodeOK' /\ NotYetOK'
    BY <2>1, <2>2, <2>3 DEF VerdictInv, CodeOK, NotYetOK
  <2> QED  BY <2>2, <2>4 DEF VerdictInv
<1> QED  BY <1>1, <1>2, <1>3 DEF FarmNext, Returned

(* ExitMatchesJob: a session that was cut off, in which a test failed or   *)
(* was skipped, or that ran nothing, never counts as passed, whatever logs *)
(* of other jobs lie about, and one that ran and passed everything does    *)
(* once its report and logs came (cli.py:635-803).                         *)
THEOREM ExitIsTheVerdict == FarmSpec => []ExitMatchesJob
<1>1. FarmInit => VerdictInv  BY VerdictInvInit
<1>2. VerdictInv /\ [FarmNext]_vars => VerdictInv'  BY VerdictInvNext
<1>3. VerdictInv => ExitMatchesJob  BY VerdictInvImplies
<1> QED  BY <1>1, <1>2, <1>3, PTL DEF FarmSpec

=============================================================================
