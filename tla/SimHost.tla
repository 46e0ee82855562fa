------------------------------- MODULE SimHost -------------------------------
(***************************************************************************)
(* The simulator's stand-in for hexlib_run (runtime/simhost/simhost.c): it *)
(* calls the skel's entry points directly, with one buffer for everything  *)
(* and the fd of that buffer patched into every descriptor.  Then, what    *)
(* holds of both host programs.                                            *)
(***************************************************************************)
EXTENDS HostRun

(* A failed step is exit code k + 1; only the payload buffer is undone.    *)
SimSteps == <<"handle", "session", "hwinfo", "blob", "rpc", "input", "dsp",
              "invoke">>

SimOutcomes(step) ==
  CASE step = "blob" -> {run.tmpl # "unreadable"}
    [] step = "input" -> {run.in_len # -1}
    [] step = "dsp" /\ SkipsRegister -> {TRUE}
    [] OTHER -> BOOLEAN

SimTakes(step) ==
  CASE step \in {"handle", "session"} -> {Res(step)}
    [] step = "rpc" -> {Buf("rpc", 1)}
    [] step = "dsp" /\ ~SkipsRegister -> {Buf("dsp", 1)}
    [] OTHER -> {}

SimClose == <<Res("session"), Res("handle"), Buf("rpc", 1)>>

SimUnwind(step) ==
  CASE step \in {"input", "dsp"} -> <<Buf("rpc", 1)>>
    [] step = "invoke" -> SimClose
    [] OTHER -> << >>

(* The skel's answer: a blob whose buffer table runs past its end is sent  *)
(* unpatched and refused; HAP_mmap2 of the simulator (sim_shims.c) cannot  *)
(* tell a mapped fd from another, only the skel's table can.               *)
SimAnswers ==
  IF run.tmpl = "malformed"
  THEN {[Unwritten EXCEPT !.magic = TRUE, !.status = StatusFailed]}
  ELSE Answers \ {RpcFailed}

(* main: the steps, up to and including the invoke.                        *)
SimStep ==
  /\ at = "sim"
  /\ LET step == SimSteps[k]
     IN  \E ok \in SimOutcomes(step) :
           /\ ledger' = IF ok THEN ledger \union SimTakes(step) ELSE ledger
           /\ CASE ok /\ step # "invoke" ->
                     GoTo("sim", k + 1, 1) /\ UNCHANGED <<todo, exit, answer>>
                [] ok /\ step = "invoke" ->
                     /\ GoTo("report", 1, 1)
                     /\ answer' \in SimAnswers
                     /\ UNCHANGED <<todo, exit>>
                [] ~ok ->
                     /\ Leave(k + 1, SimUnwind(step))
                     /\ answer' = IF step = "invoke" THEN RpcFailed ELSE answer
                     /\ UNCHANGED <<k, i>>
  /\ UNCHANGED <<run, ptrs, staged, in_off, lanes, file>>

(* main, after the invoke: no look at the magic, and files written without *)
(* a look at whether it worked.                                            *)
SimReport ==
  /\ at = "report"
  /\ IF answer.status = StatusOk
     THEN file' \in {"old", "partial", "whole"} /\ Leave(0, SimClose)
     ELSE UNCHANGED file /\ Leave(1, SimClose)
  /\ UNCHANGED <<run, k, i, ledger, ptrs, staged, in_off, answer, lanes>>

Next == HostNext \/ SimStep \/ SimReport

Spec == HostInit /\ [][Next]_hostVars

-----------------------------------------------------------------------------
(* The state of a run is of the kinds its variables are meant for; --in is *)
(* never read past its end (main.c:926-984).                               *)
HostTypeOK ==
  /\ run \in CommandLines
  /\ at \in {"open", "template", "input", "alloc", "stage", "build",
             "response", "invoke", "judge", "sim", "report", "done"}
  /\ k \in 1 .. Len(OpenSteps) /\ i \in 1 .. MaxBufs
  /\ \A r \in ToSet(todo) \union ledger :
       \/ r \in {Res(kind) : kind \in {"session", "handle", "ctx", "tmpl", "in",
                                      "array", "blob", "rsp"}}
       \/ r \in {Buf(kind, b) : kind \in {"rpc", "fast", "dsp", "node"},
                                b \in 1 .. MaxBufs}
  /\ ptrs \subseteq ToSet(Symbols)
  /\ staged \in [1 .. MaxBufs -> 0 .. IntMax]
  /\ run.mode = "batch" /\ in_off > 0 => in_off \in 1 .. run.in_len
  /\ lanes \in [Lanes -> LaneOutcomes]
  /\ file \in {"old", "partial", "whole", "lost"}
  /\ exit \in -2 .. 9

(* Whatever fails and wherever, hexlib_run has given everything back when  *)
(* it exits: unwinding in hexlib_open and hexlib_alloc, clean-up in every  *)
(* mode.  The simulator's host does so from its invoke on; on codes 2 to 8 *)
(* it exits with its session open.                                         *)
CleanExit ==
  Done /\ exit # Killed => \/ ledger = {}
                           \/ InSim /\ exit \in 3 .. 8

(* Nothing is released twice, or before it was acquired, or while what was *)
(* built on it still stands: no memory goes back while the driver or the   *)
(* DSP maps it, no mapping outlives the session that made it.              *)
OnlyHeldReleased ==
  todo # << >> =>
    LET r == Head(todo)
    IN  /\ r \in ledger
        /\ r[1] = "rpc" => {Buf("fast", r[2]), Buf("dsp", r[2])} \intersect ledger = {}
        /\ r[1] = "fast" => Buf("dsp", r[2]) \notin ledger
        /\ r[1] = "ctx" => Res("handle") \notin ledger
        /\ r[1] = "session" /\ ~InSim =>
             \A b \in 1 .. MaxBufs : Buf("dsp", b) \notin ledger

(* When a batch goes to the DSP, every byte of --in is in exactly one      *)
(* buffer, every input is full, and the last buffer is full or untouched.  *)
StagedExactly ==
  run.mode = "batch" /\ answer # NotAsked =>
    /\ \A b \in 1 .. NBufs - 1 : staged[b] = run.sizes[b]
    /\ staged[NBufs] \in {0, run.sizes[NBufs]}
    /\ run.in_len = SumFunction(staged)

(* Exit 0 is only for a run that did all it was asked: a response arrived, *)
(* is a batch response, says OK and covers every op; the output is right   *)
(* or written; and the driver it ran on had every required symbol.  A run  *)
(* that withheld its registration never gets it, and no output file is     *)
(* touched before a response of OK (main.c:18-25, 1080).  The coherency    *)
(* check's three verdicts are never confused: a buffer the DSP never wrote *)
(* is a miss, a right result a pass whatever the signs of its zeros, and   *)
(* anything mixed neither (main.c:700-840).                                *)
ExitTruthful ==
  LET all(kinds) == \A l \in Lanes : lanes[l] \in kinds
  IN  /\ file # "old" => answer.magic /\ answer.status = StatusOk
      /\ Done /\ exit = ExitOk =>
           /\ run.mode \notin {"usage", "unmapped", "simunmapped"}
           /\ ~InSim => Required \subseteq ptrs
           /\ run.mode # "caps" => answer.magic /\ answer.status = StatusOk
           /\ run.mode = "self" =>
                /\ OpResultOk
                /\ all({"computed", "computed_minus"})
           /\ run.mode = "batch" =>
                answer.nops = run.nops /\ file \in {"whole", "lost"}
      /\ Done /\ run.mode = "coherency" /\ exit \in {0, 6, 7} =>
           /\ exit = ExitOk <=> all({"computed", "computed_minus"})
           /\ exit = ExitCoherencyMiss <=> all({"untouched"})

(* What the skel sees of a run: its session, its mappings, its batch.      *)
SessionPhase ==
  CASE Res("handle") \notin ledger -> "closed"
    [] Res("handle") \in ledger /\ Res("session") \in ledger -> "started"
    [] OTHER -> "open"
MappedBufs == {b \in 1 .. MaxBufs : Buf("dsp", b) \in ledger}
Asked == answer # NotAsked

(* Both programs keep the protocol the skel relies on, on every path.      *)
Protocol == INSTANCE HostProtocol WITH
  Buffers <- 1 .. MaxBufs, phase <- SessionPhase, mapped <- MappedBufs,
  invoked <- Asked

ProtocolKept == Protocol!ProtocolSpec

=============================================================================
