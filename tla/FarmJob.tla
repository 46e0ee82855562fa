------------------------------ MODULE FarmJob -------------------------------
(***************************************************************************)
(* hexlib test --device qdc: the command (cli.py), the driver of one job   *)
(* on the device farm (device/qdc/job.py) and, external, the farm, which   *)
(* queues the job, runs the tests staged in it (device/qdc/test_on_device  *)
(* .py) and lists its log files one by one.                                *)
(*                                                                         *)
(* Time is counted in ticks from the submission.  It passes while the      *)
(* command sleeps and while any call of it is under way; only the farm     *)
(* bounds it, by stopping a job at its time limit.  The contents of a log  *)
(* are what the check looks for in it.                                     *)
(***************************************************************************)
EXTENDS Integers, Sequences, FiniteSets

CONSTANTS
  Commands,       \* the calls: [kernel, timeout, yes, budget, key, direct]
  MinTimeout, MaxTimeout,     \* MIN_TIMEOUT_MIN, MAX_TIMEOUT_MIN
  YesThreshold,   \* _QDC_YES_THRESHOLD_MIN
  Minute,         \* a minute, in ticks
  Poll,           \* POLL_S, in ticks
  Grace,          \* _QDC_WAIT_GRACE_S, in ticks
  Lag,            \* how long wait() may take to start: bounds the clock
  Outputs(_)      \* what hexlib_run may print in a test

ASSUME FarmAssumption ==
  /\ {MinTimeout, MaxTimeout, YesThreshold, Grace, Lag} \subseteq Nat
  /\ {Minute, Poll, MinTimeout} \subseteq Nat \ {0}
  /\ Poll <= Lag + 1     \* no sleep outlasts the bounded clock
  /\ \A c \in Commands : c.timeout \in Int

VARIABLES
  cmd,        \* the arguments, the environment and who called _qdc_submit
  at,         \* where the command is
  code,       \* its exit code, or Running
  clock,
  deadline,   \* wait's
  wakeAt,     \* the end of wait's sleep, or 0
  gaveUp,     \* wait returned False
  paths,      \* the files fetch has downloaded
  job,        \* the farm's: "none", "queued", "running", "over"
  startedAt,  \* when it started to run
  ran,        \* the tests run so far: their verdicts and outputs
  report,     \* what pytest wrote to results.xml
  listed      \* the farm's listing

cliVars == <<cmd, at, code, deadline, wakeAt, gaveUp, paths>>
farmVars == <<job, startedAt, ran, report, listed>>
vars == <<cliVars, clock, farmVars>>

Running == -1
ExitPass == 0
ExitFail == 1
ExitRefused == 2

NoTimeout == -1   \* --timeout-min absent
Unset == -1       \* QDC_BUDGET_MIN absent
Malformed == -2   \* QDC_BUDGET_MIN not a number

(* The tests that measure; the three others only assert a line of theirs.  *)
Tests == <<"selftest", "coherency">>
TestNames == {Tests[i] : i \in DOMAIN Tests}
Nothing == [ok |-> FALSE, cycles |-> "none"]

NoReport == [parses |-> FALSE, tests |-> 0, failures |-> 0, skipped |-> 0]

(* The names ending in TestLogs/results.xml: the framework's, and the same *)
(* report listed a second time.  "stale" is a log another job left behind. *)
Reports == {"report", "twin"}

-----------------------------------------------------------------------------
(* The guards, before anything is spent.                                   *)

InRange(t) == MinTimeout <= t /\ t <= MaxTimeout

(* _qdc_budget_refusal *)
BudgetRefused(c) ==
  \/ c.timeout = NoTimeout
  \/ c.budget = Malformed
  \/ c.budget # Unset /\ c.timeout > c.budget

(* _qdc_confirm_refusal *)
ConfirmRefused(c) == c.timeout > YesThreshold /\ ~c.yes

Stop(c) == at' = "done" /\ code' = c
Go(place) == at' = place /\ UNCHANGED code

(* _cmd_test_qdc *)
CheckCommand ==
  /\ at = "command"
  /\ IF ~cmd.kernel \/ cmd.timeout = NoTimeout \/ ~InRange(cmd.timeout)
          \/ BudgetRefused(cmd) \/ ConfirmRefused(cmd)
     THEN Stop(ExitRefused) ELSE Go("submit")
  /\ UNCHANGED <<cmd, deadline, wakeAt, gaveUp, paths, clock, farmVars>>

(* _qdc_submit repeats the guards that cost money. *)
CheckAgain ==
  /\ at = "submit"
  /\ IF ~cmd.kernel \/ BudgetRefused(cmd) \/ ConfirmRefused(cmd)
     THEN Stop(ExitRefused) ELSE Go("build")
  /\ UNCHANGED <<cmd, deadline, wakeAt, gaveUp, paths, clock, farmVars>>

(* build_device_binary, artifact.stage, upload_artifact: each may fail. *)
Prepare(here, next) ==
  /\ at = here
  /\ Go(next) \/ Stop(ExitFail)
  /\ UNCHANGED <<cmd, deadline, wakeAt, gaveUp, paths, clock, farmVars>>

(* submit, down to its client. *)
OpenClient ==
  /\ at = "client"
  /\ IF InRange(cmd.timeout) /\ cmd.key THEN Go("upload") ELSE Stop(ExitFail)
  /\ UNCHANGED <<cmd, deadline, wakeAt, gaveUp, paths, clock, farmVars>>

(* submit_job: refused, accepted, or accepted with the answer lost. *)
SubmitJob ==
  /\ at = "submit_job"
  /\ \/ Go("wait") /\ job' = "queued"
     \/ Stop(ExitFail) /\ job' \in {"none", "queued"}
  /\ UNCHANGED <<cmd, deadline, wakeAt, gaveUp, paths, clock,
                 startedAt, ran, report, listed>>

-----------------------------------------------------------------------------
(* wait                                                                    *)

(* Mutant: the cap does not know the job's own limit. *)
WaitCapFixed(timeout) == MinTimeout * Minute + Grace

(* _qdc_wait_cap_s *)
WaitCap(timeout) == timeout * Minute + Grace

StartWait ==
  /\ at = "wait"
  /\ deadline' = clock + WaitCap(cmd.timeout)
  /\ Go("poll")
  /\ UNCHANGED <<cmd, wakeAt, gaveUp, paths, clock, farmVars>>

(* Mutant: after a failed poll the cap is not looked at. *)
PollOnError ==
  /\ at = "poll"
  /\ \/ Go(IF listed \intersect Reports # {} THEN "fetch" ELSE "cap") /\ UNCHANGED wakeAt
     \/ Go("asleep") /\ wakeAt' = clock + Poll
  /\ UNCHANGED <<cmd, deadline, gaveUp, paths, clock, farmVars>>

(* A poll that fails is no verdict. *)
PollLogs ==
  /\ at = "poll"
  /\ \/ Go(IF listed \intersect Reports # {} THEN "fetch" ELSE "cap")
     \/ Go("cap")
  /\ UNCHANGED <<cmd, deadline, wakeAt, gaveUp, paths, clock, farmVars>>

TestCap ==
  /\ at = "cap"
  /\ IF clock >= deadline
     THEN gaveUp' = TRUE /\ Go("fetch") /\ UNCHANGED wakeAt
     ELSE wakeAt' = clock + Poll /\ Go("asleep") /\ UNCHANGED gaveUp
  /\ UNCHANGED <<cmd, deadline, paths, clock, farmVars>>

Wake ==
  /\ at = "asleep" /\ clock >= wakeAt
  /\ wakeAt' = 0
  /\ Go("poll")
  /\ UNCHANGED <<cmd, deadline, gaveUp, paths, clock, farmVars>>

-----------------------------------------------------------------------------
(* fetch and the check.                                                    *)

(* One listing, then a download of each name in it.  A download that       *)
(* answers False is passed over; one that raises ends the fetch, and what  *)
(* was downloaded is not reported.  A listed file no longer changes.       *)
Fetch ==
  /\ at = "fetch"
  /\ \/ /\ paths' \in SUBSET listed
        /\ IF gaveUp THEN Stop(ExitFail) ELSE Go("check")
     \/ Stop(ExitFail) /\ UNCHANGED paths
  /\ UNCHANGED <<cmd, deadline, wakeAt, gaveUp, clock, farmVars>>

(* What the check finds in a file. *)
Evidence(f) ==
  IF f \in TestNames THEN [pass |-> f = "selftest" /\ ran[f].out.ok, cycles |-> ran[f].out.cycles]
  ELSE [pass |-> f = "stale", cycles |-> IF f = "stale" THEN "positive" ELSE "none"]

(* Mutant: a skipped test is as good as a passed one. *)
CountsCleanButSkips(r) == r.parses /\ r.tests > 0 /\ r.failures = 0

(* _qdc_parse_results_xml and the counts it must show. *)
CountsClean(r) == r.parses /\ r.tests > 0 /\ r.failures = 0 /\ r.skipped = 0

(* _qdc_check_results, _qdc_cycles_total_verdict *)
CheckResults ==
  /\ at = "check"
  /\ Stop(IF /\ Cardinality(paths \intersect Reports) = 1
             /\ CountsClean(report)
             /\ \E f \in paths : Evidence(f).pass
             /\ \E f \in paths : Evidence(f).cycles = "positive"
          THEN ExitPass ELSE ExitFail)
  /\ UNCHANGED <<cmd, deadline, wakeAt, gaveUp, paths, clock, farmVars>>

-----------------------------------------------------------------------------
(* The farm, and the tests it runs.                                        *)

TimeLimit == startedAt + cmd.timeout * Minute

(* The asserts of a test: its own line and a positive cycle count.         *)
Verdict(out) ==
  IF out.ok /\ out.cycles = "positive" THEN "pass" ELSE "fail"

Result(verdict, out) == [verdict |-> verdict, out |-> out]
Count(v) == Cardinality({t \in DOMAIN ran : ran[t].verdict = v})

StartJob ==
  /\ job = "queued"
  /\ job' = "running" /\ startedAt' = clock
  /\ UNCHANGED <<cliVars, clock, ran, report, listed>>

(* The next test prints, or is skipped. *)
RunTest(t) ==
  /\ job = "running" /\ DOMAIN ran # TestNames
  /\ t = Tests[Cardinality(DOMAIN ran) + 1]
  /\ \E r \in {Result(Verdict(out), out) : out \in Outputs(t)} \union {Result("skip", Nothing)} :
       ran' = [u \in DOMAIN ran \union {t} |-> IF u = t THEN r ELSE ran[u]]
  /\ UNCHANGED <<cliVars, clock, job, startedAt, report, listed>>

(* pytest ends: with the counts of all tests, having collected nothing, or *)
(* interrupted by a signal, when it reports the tests it has finished.     *)
EndSession ==
  /\ job = "running"
  /\ job' = "over"
  /\ report' = [parses |-> TRUE, tests |-> Cardinality(DOMAIN ran),
                failures |-> Count("fail"), skipped |-> Count("skip")]
  /\ UNCHANGED <<cliVars, clock, startedAt, ran, listed>>

(* The session is cut off: a test that never returns, the device gone, the *)
(* time limit.  A report there is none, or half of one.                    *)
CutOff ==
  /\ job = "running"
  /\ job' = "over"
  /\ UNCHANGED <<cliVars, clock, startedAt, ran, report, listed>>

Produced ==
  (IF job = "over" THEN Reports ELSE {})
    \union {t \in DOMAIN ran : ran[t].verdict # "skip"}
    \union {"stale"}

Publish(f) ==
  /\ job = "over" /\ f \in Produced \ listed
  /\ listed' = listed \union {f}
  /\ UNCHANGED <<cliVars, clock, job, startedAt, ran, report>>

(* Time passes; Lag bounds how far it runs ahead of the command.  Nothing  *)
(* after wait looks at it.                                                 *)
Tick ==
  /\ job # "none" /\ at \in {"wait", "poll", "cap", "asleep"}
  /\ clock < IF at = "wait" THEN Lag ELSE deadline + Lag
  /\ job = "running" => clock < TimeLimit
  /\ clock' = clock + 1
  /\ UNCHANGED <<cliVars, farmVars>>

-----------------------------------------------------------------------------

FarmInit ==
  /\ cmd \in Commands
  /\ at = IF cmd.direct THEN "submit" ELSE "command"
  /\ code = Running
  /\ clock = 0 /\ deadline = 0 /\ wakeAt = 0
  /\ gaveUp = FALSE /\ paths = {}
  /\ job = "none" /\ startedAt = 0
  /\ ran = [t \in {} |-> Result("skip", Nothing)]
  /\ report = NoReport /\ listed = {}

CliStep ==
  \/ CheckCommand
  \/ CheckAgain
  \/ Prepare("build", "stage")
  \/ Prepare("stage", "client")
  \/ OpenClient
  \/ Prepare("upload", "submit_job")
  \/ SubmitJob
  \/ StartWait
  \/ PollLogs
  \/ TestCap
  \/ Wake
  \/ Fetch
  \/ CheckResults

(* What the farm does after the fetch, when nobody looks, is left out.     *)
FarmStep ==
  /\ at \notin {"check", "done"}
  /\ \/ StartJob
     \/ \E t \in TestNames : RunTest(t)
     \/ EndSession
     \/ CutOff
     \/ \E f \in Reports \union TestNames \union {"stale"} : Publish(f)

Returned == at = "done" /\ UNCHANGED vars

FarmNext == CliStep \/ FarmStep \/ Tick \/ Returned

FarmSpec == FarmInit /\ [][FarmNext]_vars

(* The command runs, time passes, and the farm enforces the time limit.    *)
(* That the job ever starts, or that a log is ever listed, is not assumed. *)
FairFarmSpec ==
  /\ FarmSpec
  /\ WF_vars(CliStep)
  /\ WF_vars(Tick)
  /\ WF_vars(at \notin {"check", "done"} /\ clock >= TimeLimit /\ CutOff)

-----------------------------------------------------------------------------
(* Properties.                                                             *)

AllPassed == \A t \in TestNames : t \in DOMAIN ran /\ ran[t].verdict = "pass"

(* The report is of a session that ended before its last test.             *)
Interrupted == report.parses /\ report.tests < Cardinality(TestNames)

(* The check was reached with one report and every log in hand, and all    *)
(* tests passed.                                                           *)
Delivered ==
  /\ at = "done" /\ ~gaveUp /\ AllPassed /\ report.parses
  /\ "report" \in paths /\ "twin" \notin paths /\ TestNames \subseteq paths

(* Exit code 0 means that this very job ran tests, that none it ran failed *)
(* or was skipped, that the DSP counted cycles, and, unless pytest was     *)
(* interrupted, that every test ran, whatever the farm lists, leaves out   *)
(* or has lying around.  (The check asks for tests > 0, cli.py:728, so it  *)
(* takes an interrupted session's report of passed tests for a pass.)  And *)
(* a job that passed every test is reported as passed once its report and  *)
(* its logs have been fetched.                                             *)
ExitMatchesJob ==
  /\ code = ExitPass =>
       /\ \A t \in DOMAIN ran : ran[t].verdict = "pass"
       /\ "selftest" \in DOMAIN ran /\ ran["selftest"].out.cycles = "positive"
       /\ ~Interrupted => AllPassed
  /\ (Delivered => code = ExitPass)

(* A job is given up on while it runs only if it was queued for the whole  *)
(* of the grace period: otherwise its own time limit has run out by then.  *)
NeverAbandonsRunning == gaveUp /\ job = "running" => startedAt >= Grace

(* The command always returns: polls that fail, a job that never starts    *)
(* and a report that never comes only last until the cap.                  *)
VerdictReached == <>(at = "done")
=============================================================================
