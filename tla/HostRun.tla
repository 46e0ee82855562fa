------------------------------- MODULE HostRun -------------------------------
(***************************************************************************)
(* One run of hexlib_run (hexlib/runtime/host): main.c's modes over        *)
(* hexlib_open, hexlib_alloc, hexlib_invoke, hexlib_free and hexlib_close. *)
(* Every external call is a step that may fail.  What a run has acquired   *)
(* is in ledger; the releases a return path makes, in the code's order,    *)
(* are queued in todo and made one per step.                               *)
(***************************************************************************)
EXTENDS Integers, Sequences, FiniteSets, SequencesExt

CONSTANTS
  CommandLines,  \* the runs considered
  MaxBufs,       \* HEXLIB_MAX_BUFS
  IntMax,        \* INT_MAX, in the units of sizes
  Lanes          \* groups of lanes of the self-test's output

Modes == {"usage", "caps", "self", "unmapped", "coherency", "batch",
          "sim", "simunmapped"}

(* tmpl, sizes, nops: the batch template and its declared buffers and ops. *)
(* in_len: bytes in the --in file, -1 when it cannot be read.  arch_ver:   *)
(* the driver's packed capability; skel: what hwinfo reports.              *)
CommandLine == [mode : Modes, tmpl : {"unreadable", "malformed", "good"},
                sizes : Seq(Nat), nops : Nat, in_len : Nat \union {-1},
                unsigned_pd : BOOLEAN, arch_ver : Nat, skel : Nat]

ASSUME HostAssumption ==
  /\ CommandLines \subseteq CommandLine
  /\ MaxBufs \in Nat \ {0, 1}   \* the self-test has two buffers
  /\ IntMax \in Nat
  /\ Lanes # {}
  /\ \A r \in CommandLines : Len(r.sizes) \in 1 .. MaxBufs

VARIABLES
  run,      \* the command line and the world it meets
  at,       \* where in its function the program is
  k,        \* step within hexlib_open or hexlib_alloc
  i,        \* index of the buffer at hand
  todo,     \* releases the current return path still has to make
  ledger,   \* what the run has acquired and not yet given back
  ptrs,     \* driver entry points that are not NULL
  staged,   \* bytes of --in copied to each buffer
  in_off,   \* bytes of --in consumed
  answer,   \* what hexlib_invoke left in the response buffer
  lanes,    \* what became of each group of output lanes
  file,     \* the --out file: old (untouched), partial or whole
  exit      \* exit code

hostVars == <<run, at, k, i, todo, ledger, ptrs, staged, in_off, answer,
              lanes, file, exit>>

-----------------------------------------------------------------------------
(* Exit codes of main.c; a run still going, and one killed by a signal.    *)
ExitOk == 0
ExitUsage == 1
ExitSessionFailed == 2
ExitNoResponse == 3
ExitOpFailed == 4
ExitMismatch == 5
ExitCoherencyMiss == 6
ExitCoherencyGarbled == 7
Running == -1
Killed == -2

(* struct hexlib_batch_rsp_hdr and the op results after it: bad when some  *)
(* op's own status is not OK.  Unwritten is the calloc'd buffer no DSP     *)
(* ever touched; status numbers are hexlib_dsp.h's, where OK is 1.         *)
StatusOk == 1
StatusUnmapped == 7
StatusFailed == 2
Unwritten == [rpc |-> TRUE, magic |-> FALSE, status |-> 0, nops |-> 0,
              bad |-> FALSE]
RpcFailed == [Unwritten EXCEPT !.rpc = FALSE]
NotAsked == [RpcFailed EXCEPT !.bad = TRUE]

InSim == run.mode \in {"sim", "simunmapped"}
SkipsRegister == run.mode \in {"unmapped", "simunmapped"}
NBufs == CASE run.mode = "batch" -> Len(run.sizes)
           [] InSim -> 1
           [] OTHER -> 2
Done == at = "done" /\ todo = << >>

Res(kind) == <<kind, 0>>
Buf(kind, b) == <<kind, b>>

(* hexlib_decode_bcd_arch: the low byte as two decimal digits.             *)
DecodeBcdArch(v) == ((v % 256) \div 16) * 10 + (v % 16)

(* HEXLIB_DLSYM's symbols, in the order hexlib_drv_init looks them up.     *)
Symbols == <<"rpcmem_alloc", "rpcmem_alloc2", "rpcmem_free", "rpcmem_to_fd",
             "fastrpc_mmap", "fastrpc_munmap", "remote_handle64_open",
             "remote_handle64_invoke", "remote_handle64_close",
             "remote_handle_control", "remote_session_control">>
Required == ToSet(Symbols) \ {"rpcmem_alloc2"}

-----------------------------------------------------------------------------
(* What the return paths release, in their order.                          *)
CloseCalls == <<Res("session"), Res("handle"), Res("ctx")>>

(* Mutant: a mismatched arch closes the handle of a session still running. *)
OpenUnwindForgetsStop(step) ==
  CASE step = "handle" -> <<Res("ctx")>>
    [] step \in {"session", "arch"} -> <<Res("handle"), Res("ctx")>>
    [] step = "hwinfo" -> CloseCalls
    [] OTHER -> << >>

(* hexlib_open: what it undoes when a step fails.                          *)
OpenUnwind(step) ==
  CASE step = "handle" -> <<Res("ctx")>>
    [] step = "session" -> <<Res("handle"), Res("ctx")>>
    [] step \in {"hwinfo", "arch"} -> CloseCalls
    [] OTHER -> << >>

Registered(b) == IF SkipsRegister THEN << >> ELSE <<Buf("dsp", b)>>

(* Mutant: the failed allocation forgets the rpcmem behind the mapping.    *)
AllocUnwindLeaks(step, b) ==
  CASE step = "dsp" -> <<Buf("fast", b)>>
    [] step \in {"fd", "fast"} -> <<Buf("rpc", b)>>
    [] step = "node" -> Registered(b) \o <<Buf("fast", b), Buf("rpc", b)>>
    [] OTHER -> << >>

(* hexlib_alloc and alloc_maybe_unmapped: the same for one buffer.         *)
AllocUnwind(step, b) ==
  CASE step \in {"fd", "fast"} -> <<Buf("rpc", b)>>
    [] step = "dsp" -> <<Buf("fast", b), Buf("rpc", b)>>
    [] step = "node" -> Registered(b) \o <<Buf("fast", b), Buf("rpc", b)>>
    [] OTHER -> << >>

(* Mutant: the memory goes back before the driver's mapping of it.         *)
FreeCallsSwapped(b) ==
  Registered(b) \o <<Buf("rpc", b), Buf("fast", b), Buf("node", b)>>

(* hexlib_free and free_maybe_unmapped.                                    *)
FreeCalls(b) ==
  Registered(b) \o <<Buf("fast", b), Buf("rpc", b), Buf("node", b)>>

(* Every buffer whose pointer is not NULL, in order.                       *)
FreeAll ==
  FlattenSeq([b \in 1 .. NBufs |->
                IF Buf("node", b) \in ledger THEN FreeCalls(b) ELSE << >>])

(* free() of a temporary: free(NULL) does nothing.                         *)
Free(kind) == IF Res(kind) \in ledger THEN <<Res(kind)>> ELSE << >>

(* A return path: set the exit code and queue the releases.                *)
Leave(code, releases) ==
  /\ at' = "done"
  /\ exit' = code
  /\ todo' = releases

GoTo(place, step, b) == at' = place /\ k' = step /\ i' = b

-----------------------------------------------------------------------------
HostInit ==
  /\ run \in CommandLines
  /\ at = CASE run.mode = "batch" -> "template"
            [] InSim -> "sim"
            [] OTHER -> "open"
  /\ k = 1 /\ i = 1
  /\ todo = << >> /\ ledger = {} /\ ptrs = {}
  /\ staged = [b \in 1 .. MaxBufs |-> 0] /\ in_off = 0
  /\ answer = NotAsked
  /\ lanes = [l \in Lanes |-> "untouched"]
  /\ file = "old"
  /\ exit = Running

(* One release call.  Its return code is ignored by every caller; closing  *)
(* the handle makes the skel drop the mappings it still has.               *)
Release ==
  /\ todo # << >>
  /\ todo' = Tail(todo)
  /\ ledger' = (ledger \ {Head(todo)})
                  \ (IF Head(todo) = Res("handle")
                     THEN {Buf("dsp", b) : b \in 1 .. MaxBufs} ELSE {})
  /\ UNCHANGED <<run, at, k, i, ptrs, staged, in_off, answer, lanes, file, exit>>

(* main without a known mode: usage().                                     *)
Usage ==
  /\ at = "open" /\ run.mode = "usage"
  /\ Leave(ExitUsage, << >>)
  /\ UNCHANGED <<run, k, i, ledger, ptrs, staged, in_off, answer, lanes, file>>

(* run_batch_file, up to hexlib_open: the template is read and its header  *)
(* and buffer table checked.                                               *)
ReadTemplate ==
  /\ at = "template" /\ todo = << >>
  /\ IF run.tmpl = "good"
     THEN /\ ledger' = ledger \union {Res("tmpl")}
          /\ GoTo("open", 1, 1)
          /\ UNCHANGED <<todo, exit>>
     ELSE /\ ledger' = IF run.tmpl = "malformed" THEN {Res("tmpl")} ELSE {}
          /\ Leave(ExitUsage,
                   IF run.tmpl = "malformed" THEN <<Res("tmpl")>> ELSE << >>)
          /\ UNCHANGED <<k, i>>
  /\ UNCHANGED <<run, ptrs, staged, in_off, answer, lanes, file>>

-----------------------------------------------------------------------------
(* hexlib_open, one call per step; hexlib_query_caps is its second.        *)
OpenSteps == <<"driver", "caps", "pd", "unsigned", "ctx", "handle",
               "session", "hwinfo", "arch">>

(* Which steps the world may refuse; the two checks are the code's own.    *)
OpenOutcomes(step) ==
  CASE step = "pd" -> {run.unsigned_pd}
    [] step = "arch" -> {run.skel = DecodeBcdArch(run.arch_ver)}
    [] OTHER -> BOOLEAN

(* Where the caller goes on: print_caps needs no session.                  *)
OpenStepDone ==
  IF run.mode = "caps" /\ OpenSteps[k] = "caps"
  THEN Leave(ExitOk, << >>) /\ UNCHANGED <<k, i>>
  ELSE /\ CASE k < Len(OpenSteps) -> GoTo("open", k + 1, 1)
            [] run.mode = "batch" /\ k = Len(OpenSteps) -> GoTo("input", 1, 1)
            [] OTHER -> GoTo("alloc", 1, 1)
       /\ UNCHANGED <<todo, exit>>

OpenFailed(step) ==
  /\ Leave(ExitSessionFailed, OpenUnwind(step) \o Free("tmpl"))
  /\ UNCHANGED <<k, i>>

OpenStep ==
  /\ at = "open" /\ k > 1
  /\ LET step == OpenSteps[k]
     IN  \E ok \in OpenOutcomes(step) :
           IF ok
           THEN /\ ledger' = ledger \union
                     ({Res(step)} \intersect {CloseCalls[c] : c \in 1 .. 3})
                /\ OpenStepDone
           ELSE OpenFailed(step) /\ UNCHANGED ledger
  /\ UNCHANGED <<run, ptrs, staged, in_off, answer, lanes, file>>

(* The entry points hexlib_drv_init has set when it returns.               *)
Resolved(missing) ==
  LET lost == {s \in 1 .. Len(Symbols) : Symbols[s] \in missing \intersect Required}
  IN  {Symbols[s] : s \in {t \in 1 .. Len(Symbols) : \A l \in lost : t < l}}
        \ missing

(* hexlib_drv_init: two places to load the driver from, then every symbol. *)
DrvInit(loads, missing) ==
  /\ ptrs' = IF loads[1] \/ loads[2] THEN Resolved(missing) ELSE {}
  /\ IF (loads[1] \/ loads[2]) /\ missing \intersect Required = {}
     THEN OpenStepDone
     ELSE OpenFailed("driver")

LoadDriver ==
  /\ at = "open" /\ k = 1 /\ run.mode # "usage"
  /\ \E loads \in [1 .. 2 -> BOOLEAN] :
       \E a, b \in ToSet(Symbols) \union {"none"} : DrvInit(loads, {a, b})
  /\ UNCHANGED <<run, ledger, staged, in_off, answer, lanes, file>>

-----------------------------------------------------------------------------
(* The one way out once a session is open: temporaries, buffers, session.  *)
CleanUp(code, first) ==
  Leave(code, first \o Free("in") \o Free("rsp") \o Free("blob") \o FreeAll
                \o Free("array") \o Free("tmpl") \o CloseCalls)

(* Dereferencing the NULL an unchecked calloc returned.                    *)
Die == at' = "done" /\ exit' = Killed /\ todo' = << >>

(* run_batch_file after hexlib_open: calloc of the pointer array, which is *)
(* not checked, and the --in file.                                         *)
ReadInput ==
  /\ at = "input"
  /\ \E array \in BOOLEAN :
       LET got == IF array THEN <<Res("array")>> ELSE << >>
       IN  /\ ledger' = ledger \union ToSet(got)
                          \union (IF run.in_len = -1 THEN {} ELSE {Res("in")})
           /\ CASE run.in_len = -1 ->
                      /\ Leave(ExitUsage, got \o Free("tmpl") \o CloseCalls)
                      /\ UNCHANGED <<k, i>>
                [] run.in_len # -1 /\ array ->
                      GoTo("alloc", 1, 1) /\ UNCHANGED <<todo, exit>>
                [] OTHER -> Die /\ UNCHANGED <<k, i>>
  /\ UNCHANGED <<run, ptrs, staged, in_off, answer, lanes, file>>

(* hexlib_alloc; alloc_maybe_unmapped checks no size and may not register. *)
AllocSteps ==
  IF run.mode = "unmapped" THEN <<"rpc", "fd", "fast", "node">>
  ELSE <<"size", "rpc", "fd", "fast", "dsp", "node">>

AllocOutcomes(step) ==
  IF step = "size"
  THEN {run.mode = "batch" => run.sizes[i] \in 1 .. IntMax}
  ELSE BOOLEAN

AllocStepDone ==
  CASE k < Len(AllocSteps) -> GoTo("alloc", k + 1, i)
    [] k = Len(AllocSteps) /\ run.mode = "batch" -> GoTo("stage", 1, i)
    [] k = Len(AllocSteps) /\ run.mode # "batch" /\ i < NBufs ->
         GoTo("alloc", 1, i + 1)
    [] OTHER -> GoTo("build", 1, 1)

AllocStep ==
  /\ at = "alloc"
  /\ LET step == AllocSteps[k]
     IN  \E ok \in AllocOutcomes(step) :
           IF ok
           THEN /\ ledger' = IF step \in {"size", "fd"} THEN ledger
                             ELSE ledger \union {Buf(step, i)}
                /\ AllocStepDone
                /\ UNCHANGED <<todo, exit>>
           ELSE /\ CleanUp(IF run.mode = "batch" THEN ExitUsage
                           ELSE ExitSessionFailed, AllocUnwind(step, i))
                /\ UNCHANGED <<ledger, k, i>>
  /\ UNCHANGED <<run, ptrs, staged, in_off, answer, lanes, file>>

(* Mutant: the last buffer takes as much as is left.                       *)
TakeWhatIsLeft(size, left) ==
  IF i < NBufs THEN IF size <= left THEN size ELSE -1
  ELSE IF left <= size THEN left ELSE size

(* Mutant: an input file that is too short is not noticed.                 *)
TakeUnchecked(size, left) ==
  IF i < NBufs THEN size
  ELSE IF left \in {0, size} THEN left ELSE -1

(* How many bytes of --in go to buffer i, or -1 to refuse: inputs in       *)
(* order; the last buffer takes nothing or exactly what is left.           *)
Take(size, left) ==
  IF i < NBufs THEN IF size <= left THEN size ELSE -1
  ELSE IF left \in {0, size} THEN left ELSE -1

(* run_batch_file's loop over the buffers.  The check after the loop that  *)
(* nothing of --in is left cannot fail: the last buffer's already did.     *)
StageBuffer ==
  /\ at = "stage"
  /\ LET n == Take(run.sizes[i], run.in_len - in_off)
     IN  IF n = -1
         THEN /\ CleanUp(ExitUsage, << >>)
              /\ UNCHANGED <<k, i, staged, in_off>>
         ELSE /\ staged' = [staged EXCEPT ![i] = n]
              /\ in_off' = in_off + n
              /\ IF i < NBufs
                 THEN GoTo("alloc", 1, i + 1) /\ UNCHANGED todo
                 ELSE GoTo("response", 1, 1) /\ todo' = Free("in")
              /\ UNCHANGED exit
  /\ UNCHANGED <<run, ledger, ptrs, answer, lanes, file>>

(* build_scale_batch.                                                      *)
BuildBatch ==
  /\ at = "build"
  /\ \/ /\ ledger' = ledger \union {Res("blob")}
        /\ GoTo("response", 1, 1)
        /\ UNCHANGED <<todo, exit>>
     \/ CleanUp(ExitSessionFailed, << >>) /\ UNCHANGED <<ledger, k, i>>
  /\ UNCHANGED <<run, ptrs, staged, in_off, answer, lanes, file>>

(* calloc of the response buffer, not checked.                             *)
AllocResponse ==
  /\ at = "response" /\ todo = << >>
  /\ \/ ledger' = ledger \union {Res("rsp")}
     \/ UNCHANGED ledger
  /\ GoTo("invoke", 1, 1)
  /\ UNCHANGED <<run, todo, ptrs, staged, in_off, answer, lanes, file, exit>>

-----------------------------------------------------------------------------
(* External: the DSP.  The skel refuses a batch that names a buffer it has *)
(* not mapped; otherwise it may say anything its wire format can carry,    *)
(* a status of OK over unfinished work included.  The call itself can fail *)
(* before anything ran or after, and can return with nothing written.      *)
NOps == IF run.mode = "batch" THEN run.nops ELSE 1
Mapped == {b \in 1 .. NBufs : Buf("dsp", b) \in ledger}

Answers ==
  {RpcFailed, Unwritten} \union
  IF Mapped = 1 .. NBufs
  THEN [rpc : {TRUE}, magic : {TRUE}, status : {StatusOk, StatusFailed},
        nops : 0 .. NOps, bad : BOOLEAN]
  ELSE {[Unwritten EXCEPT !.magic = TRUE, !.status = StatusUnmapped]}

(* What a lane may hold afterwards: the right value, of either sign where  *)
(* it is zero; what was there before; something else.                      *)
LaneOutcomes == {"computed", "computed_minus", "untouched", "garbled"}

(* hexlib_invoke.                                                          *)
Invoke ==
  /\ at = "invoke"
  /\ \/ /\ answer' \in (IF Res("rsp") \in ledger THEN Answers ELSE {RpcFailed})
        /\ IF run.mode \in {"self", "coherency"} /\ Mapped = 1 .. NBufs
           THEN lanes' \in [Lanes -> LaneOutcomes]
           ELSE UNCHANGED lanes
        /\ at' = "judge"
        /\ UNCHANGED <<todo, exit>>
     \/ /\ Res("rsp") \notin ledger
        /\ Die
        /\ UNCHANGED <<answer, lanes>>
  /\ UNCHANGED <<run, k, i, ledger, ptrs, staged, in_off, file>>

(* response_is_valid, over what hexlib_invoke returned.                    *)
ResponseIsValid == answer.rpc /\ answer.magic

(* fp16 bits of a lane of the coherency check: x * 0.0 has the sign of x,  *)
(* COHERENCY_SENTINEL is 1.0.                                              *)
SentinelBits == 15360
LaneBits(l) ==
  CASE l = "computed" -> 0
    [] l = "computed_minus" -> 32768
    [] l = "untouched" -> SentinelBits
    [] l = "garbled" -> 31744

(* hexlib_classify_coherency_lane: the sign bit is masked off.             *)
Classify(bits) ==
  IF bits % 32768 = 0 THEN "zero"
  ELSE IF bits = SentinelBits THEN "sentinel" ELSE "other"

(* run_coherency_check's verdict over all lanes.                           *)
CoherencyCode ==
  LET seen == {Classify(LaneBits(lanes[l])) : l \in Lanes}
  IN  CASE seen = {"zero"} -> ExitOk
        [] seen = {"sentinel"} -> ExitCoherencyMiss
        [] OTHER -> ExitCoherencyGarbled

(* run_self_test's comparison, bit for bit: no lane of x * 0.125 is zero   *)
(* with a sign to lose, so both signs of computed are the expected value.  *)
SelfTestCode ==
  IF \A l \in Lanes : lanes[l] \in {"computed", "computed_minus"}
  THEN ExitOk ELSE ExitMismatch

OpResultOk == answer.nops >= 1 /\ ~answer.bad

(* Mutant: a batch that reports fewer ops than the template is a success.  *)
BatchCodeTrusting == IF run.nops = 0 THEN ExitOpFailed ELSE ExitOk

(* run_batch_file, after the status: ops reported against the template's.  *)
BatchCode == IF answer.nops = run.nops THEN ExitOk ELSE ExitOpFailed

(* The output file: not opened, short, or written whole.  fclose's result  *)
(* is not looked at, so a whole file may still lose its tail there.        *)
WriteOut ==
  \/ file' = "old" /\ CleanUp(ExitUsage, << >>)
  \/ file' = "partial" /\ CleanUp(ExitUsage, << >>)
  \/ file' \in {"whole", "lost"} /\ CleanUp(BatchCode, << >>)

Judge ==
  /\ at = "judge"
  /\ CASE ~ResponseIsValid -> CleanUp(ExitNoResponse, << >>) /\ UNCHANGED file
       [] ResponseIsValid /\ answer.status # StatusOk ->
            CleanUp(ExitOpFailed, << >>) /\ UNCHANGED file
       [] OTHER ->
            IF run.mode = "batch" THEN WriteOut
            ELSE /\ CleanUp(CASE ~OpResultOk -> ExitOpFailed
                              [] OpResultOk /\ run.mode = "coherency" -> CoherencyCode
                              [] OTHER -> SelfTestCode, << >>)
                 /\ UNCHANGED file
  /\ UNCHANGED <<run, k, i, ledger, ptrs, staged, in_off, answer, lanes>>

(* The process has ended.                                                  *)
Ended == Done /\ UNCHANGED hostVars

HostNext ==
  \/ Release \/ Usage \/ ReadTemplate \/ LoadDriver \/ OpenStep \/ ReadInput
  \/ AllocStep \/ StageBuffer \/ BuildBatch \/ AllocResponse \/ Invoke
  \/ Judge \/ Ended

=============================================================================
