# A verification project for hexlib

hexlib compiles small neural networks for a Qualcomm Hexagon DSP and runs them
there. A Python compiler turns a graph into a plan over the DSP's on-chip memory
(VTCM), a Python executor packs the plan into one binary *batch*, a C host
process sends the batch over FastRPC, and a C library on the DSP (the *skel*)
maps the buffers, takes VTCM, keeps the data cache coherent and runs the kernels.

This directory holds TLA+ modules, TLC configurations that check them on small
instances, and TLAPS proofs that the central properties hold for every instance.
The modules model the skel; the two host programs that drive it; the way of a graph
through the compiler's memory planning to the interpreter and to the batch; the
kernels with the harnesses that judge them; and the command that runs a job on a
device farm. All line numbers below are of the repository; the paths in
this file are relative to `src/`.

## 1. Inventory

### 1.1 Components

| Component | Code | State it keeps | Operations |
|---|---|---|---|
| Buffer table | `hexlib/runtime/skel/skel_bufs.c` | `ctx->mmap[32]` of base, size, fd; static working copies of a batch's buffer and tensor tables | register, unregister, `hexlib_bufs_map`, `hexlib_tensors_resolve`, cache invalidate and flush over all slots |
| VTCM | `hexlib/runtime/skel/skel_vtcm.c` | `vtcm_rctx`, `vtcm_valid`, `vtcm_needs_release`, base and size | alloc, acquire, release, free, and `release_callback` on the resource manager's own thread |
| Session and dispatcher | `hexlib/runtime/skel/skel.c`, `skel_dispatch.c` | `g_ctx`, `started`, the response being written | open, start, mmap, munmap, invoke, stop, close, hwinfo; header checks, op loop, reclaim, reply |
| Host session and buffers | `hexlib/runtime/host/session.c`, `buffers.c`, `driver.c` | handle, `started`, list of buffers with fd and pointer; table of driver symbols | `hexlib_open` with unwinding, `hexlib_alloc` (four resources), `hexlib_free`, `hexlib_invoke`, `hexlib_close` |
| `hexlib_run` | `hexlib/runtime/host/main.c` | one run's buffers, blob, exit code | self test, coherency check, batch-file mode |
| Simulator host | `hexlib/runtime/simhost/*.c` | one arena, one blob | the same calls with a stand-in for the resource manager |
| Wire format, generated entries | `hexlib/runtime/wire.py`, `genentry.py`, `idl/hexlib_iface.idl` | none (pure) | pack a batch, unpack a response, emit a kernel entry with its argument checks |
| Graph IR and passes | `hexlib/graph/{ir,shapes,fuse,order,liveness,pipeline}.py`, `opdefs/` | none (pure) | validate, fuse, order under a policy, live intervals |
| VTCM planner, DMA scheduler | `hexlib/graph/{vtcm,dma,plan,compiled}.py` | none (pure) | place intervals, insert transfers and tilings, check a plan |
| Executors | `hexlib/exec/{vtcm,interpreter,wholeplan,runner,dsp,hexagon}.py` | a byte image of VTCM, arrays in DDR, a work directory | run a plan step by step; pack a plan into one arena and one batch; select a kernel |
| Quantised formats | `hexlib/exec/quant.py` | none | block quantise, dequantise |
| Device-farm driver | `hexlib/device/qdc/` | a remote job and its log listing | stage, submit, wait, fetch, judge |
| Command line, verification | `hexlib/cli.py`, `verify.py`, `anticheat.py`, `contract.py` | exit codes and reports | gates in order |
| Build and simulator drivers | `hexlib/{build,toolchain,sim,hostload}.py`, `runtime/build.py` | files | run compilers and the simulator |
| Models | `hexlib/models/` | none | build graphs |
| Kernels, HVX headers | `kernels/`, `include/hexlib/` | none | numeric vector code |

### 1.2 How they interact

* The host reaches the skel only through the IDL's calls. FastRPC serialises the
  calls of one handle, so the skel has one call thread. It allocates a buffer,
  gets an fd, and registers **the fd**, never an address; a batch names buffers
  by fd and tensors by buffer index and offset.
* The skel's context is shared by that thread and by the resource manager's
  callback thread: `vtcm_needs_release` is the one variable both write.
* Memory is shared by two processors that are not coherent for these buffers:
  host writes go to memory, the DSP reads through its own data cache.
* VTCM is shared with other sessions of the device, through the manager.
* Compiler, executor and dispatcher share an unchecked convention: the offsets in
  the batch are the plan's, and the ops run in the plan's order.

### 1.3 What is hard here, and what correctness means

* **Buffer table** - stale addresses: fd numbers are reused, an unmap can fail in
  the OS, `mmap` of a known fd answers OK without mapping, batches carry a base,
  sizes and offsets that nobody has checked. *Correct*: the table holds exactly
  what the host holds, each slot backed by its own live mapping of the object the
  fd names now; every address a kernel gets lies within such a mapping.
* **VTCM** - an asynchronous reclaim, a manager call that can time out, and a
  two-step hand-over of ownership in each direction. *Correct*: no kernel without
  ownership, no ownership change under a kernel, nothing kept after stop, a
  waiting competitor is served, a reclaim is not lost.
* **Dispatcher** - a batch can end in a dozen ways, half way through, with a
  failing flush on top. *Correct*: status, number of ops and per-op results agree
  with each other and with memory; OK means memory is what the batch computes
  from what the host wrote.
* **Session** - the order of start, stop, close and failed calls.
* **Host** - unwinding of four resources in `hexlib_alloc` and of a half-opened
  session; an output file only after a good response. *Correct*: each resource
  given back exactly once on every path.
* **Planner and executors** - two live values in the same bytes; a transfer into
  a region that is still to be read; storage shared through reshapes. *Correct*:
  running the plan over VTCM computes what the graph means.
* **Device farm** - a poll that fails, a results file that appears after the last
  poll, a verdict from a file name. *Correct*: no pass without results.

## 2. Plan

The skel comes first: it is the only concurrent part, and everything else is
ultimately judged by what it answers.

| # | Module | Models | State |
|---|---|---|---|
| 1 | `SkelBufs` (proofs in `SkelProofs`) | buffer table, with the OS's mappings and fd reuse | done |
| 2 | `SkelVtcm` | VTCM with manager, callback thread, competitor | done |
| 3 | `VtcmLease` | abstract specification: one holder, never changed under a kernel | done |
| 4 | `Skel` (EXTENDS 1 and 2, implements 3), `SkelProofs` | session, dispatcher, memory, cache | done |
| 5 | `VtcmAlloc`, `VtcmAllocProofs` | placement scan of `graph/vtcm.py` | done |
| 6 | `GraphIR`, `PlanRun` (EXTENDS 5), `PlanRunProofs` | `ir.py`, `liveness.py`, `graph/dma.py`, `pipeline.py` and `exec/interpreter.py`: from a graph to its outputs through a byte image of VTCM | done |
| 7 | `WholeBatch` (EXTENDS 6), `WholeBatchProofs` | `exec/wholeplan.py`: arena, reshape aliases, the alias check, and the batch's run | done |
| 8 | `HostProtocol`, `HostRun`, `SimHost` (implements `HostProtocol`), `HostProofs` | `session.c`, `buffers.c`, `driver.c`, `main.c`, `simhost.c`: every failure point and its unwinding | done |
| 9 | `HvxLanes`, `KernelsMove`, `KernelsMap`, `KernelsReduce`, `KernelsMatmul`, `KernelHarnesses`, `KernelRun`, `KernelProofs` | twelve kernels, their baselines, near misses, harnesses and runners | done |
| 10 | `FarmJob`, `FarmJobProofs` | `job.py` and the farm half of `cli.py` | done |
| 11 | `WireBatch` | `wire.py` offsets against the dispatcher's section checks | planned |
| 12 | `Passes` | `shapes.py`, `order.py` and `fuse.py` against the graph's meaning, over all small graphs | planned |

Abstract specifications: `VtcmLease` (what a competitor may expect of the skel) and
`HostProtocol` (what the skel may expect of a host). `PlanRun` and `WholeBatch` need none
of their own: both are held to the meaning of the same graph, byte by byte, by
`OutputsRight`.

`FiniteInduction` models nothing: it holds the induction the other proofs use, see
section 5.

## 3. The modules

### SkelBufs - `skel_bufs.c`

`mmap` is `ctx->mmap`, `work` the dispatcher's static copies. `osmap` (the OS's
live mappings), `obj` (which object an fd number names today) and `held` (what the
host has allocated and believes mapped) are the surroundings. An address is a
mapping and an offset in it, because the OS keeps mappings disjoint.

| Definition | Code |
|---|---|
| `FindByFd`, `Register`, `Unregister` | `find_by_fd`, `hexlib_bufs_register`, `hexlib_bufs_unregister`, with every outcome of `HAP_mmap` and `HAP_munmap` |
| `MapStatus`, `Mapped`, `ResolveStatus`, `InBounds`, `Resolved`, `MapAndResolve` | the loops of `hexlib_bufs_map` and `hexlib_tensors_resolve`; the first failing element decides |
| `Mmap`, `Munmap`, `Prologue` | the calls; `hexlib_free` ignores what munmap answers, so `held` does too |
| `ReuseFd` | external: a freed fd number is given to a new object |

### SkelVtcm - `skel_vtcm.c`

`vtcm_valid`, `vtcm_needs_release` and `vtcm_rctx` are the context's fields;
`owner`, `waiting`, `notified` and `callback` are the manager, one competing
session and the callback's thread. Functions that touch both the flag and the
manager are split where the callback can run in between: `AcquireCached` /
`AcquireRecord`, `ReleaseRecord` / `ReleaseCached`. Base and size of VTCM, and the
unit requests, are abstracted to "the alloc succeeds or fails".

### Skel - `skel.c`, `skel_dispatch.c`

One thread walks the control points of `at`: `dispatch`, `acquire`, `acquired`,
`invalidate`, `ops`, `kernel`, `reclaim`, `flush`, and `release`, `free` for stop
and close. `phase` is where the host's session stands; the host makes calls in the
order of `hexlib_open`, `hexlib_alloc`, `hexlib_free` and `hexlib_close`, and may
also invoke in a session that never started. A batch's header is the set of its
defects, tested in the code's order; buffer and tensor tables and ops are real.

Memory is `ddr`, with the cache `line` and `dirty` in front of it. A cell holds
the *set of writes and kernels its value came from*, so that a stale input or a
skipped op shows in the result whatever the kernels compute. The cache evicts and
prefetches whenever it likes. A failing kernel leaves junk in any part of its
targets. Cycle counts, arch, dtype, layout and params are not modelled.

`Open` is a fresh process: buffers are new and zero, the context is cleared.

### VtcmLease

Four actions over `holder` and `running`: take, give back, kernel begins, kernel
ends. `Skel` maps `holder` to `owner` and `running` to `at = "kernel"`.

### VtcmAlloc - `graph/vtcm.py`

One call of `allocate`. The two policies are the same two loops over differently
sorted intervals, so they share their actions and differ in `Before`.

| Definition | Code |
|---|---|
| `Allocate`, `FirstVerdict` | the call and its early returns, in their order |
| `NextTensor`, `PassBusy`, `Settle` | an iteration of the outer loop begins; one of the inner loop; the inner loop ends, by its `break` or by running out, and the slot is recorded |
| `Answer`, `LastVerdict`, `AllocationProblems` | high water against the budget, then the allocator's check of itself |

`left` is the rest of the sorted list `busy`; two entries with the same offset and
end are taken in either order, which changes nothing. `scanned` is `offset`.
Names are numbers in alphabetical order, the last sort key.

### GraphIR - `graph/ir.py`, `graph/liveness.py`

Pure operators: what makes a graph well formed, and the live interval of each
activation. Shapes and element types are reduced to three facts a decision depends
on: a tensor's bytes, whether it has two dimensions, whether it is q4_0.

### PlanRun - `graph/pipeline.py`, `graph/dma.py`, `exec/interpreter.py`, `exec/vtcm.py`

`compile_graph` from the ordered graph on, then `run` on the plan. `stage` is where
either is, or the reason of its Err.

| Definition | Code |
|---|---|
| `Compile`, `PlaceActivations` | liveness, and the whole of `VtcmAlloc` |
| `InsertTransfers` with `ConstOffsets`, `ConstSlots`, `Addresses`, `StepOf` | `insert_transfers`: constants after the activations, tiled weights in the double buffer, each one-shot transfer at its first reader |
| `CheckPlan` with `AllocationProblems`, `PlanProblems` | the two checks of `_compile` on slots and schedule |
| `StartReplay`, `StageIn`, `StreamWeight`, `RunOp`, `WriteBack`, `NextStep`, `Deliver` | the interpreter's loop over steps, one action per transfer |

`vtcm` is `VtcmImage._buf`, byte by byte. A byte holds *the name of the tensor whose
right value it is part of*, or `Junk`; a result is right when every operand read
was, so a single overwritten byte anywhere shows in the outputs. Within a step,
transfers may be made in any order: an over-approximation the properties survive.
Transfer ids and `dma_wait` are left out, because each transfer is issued and
awaited in its own step; backends are assumed to return the shapes declared.

### WholeBatch - `exec/wholeplan.py`

The other way to run an accepted plan: `Pack` is `build_whole_plan_batch`, in either
mode (`alias_activations`), with its refusals in the code's order; `RunBatchOp` one op of
the batch on the DSP; `ReadBack` the outputs. The arena is a byte image with the same
contents as `vtcm`, except that a byte names the *owner* of its storage: `Owners` is
`storage_owner` followed through chains of reshapes. Sizes on the wire depend on the form
a kernel wants of its operand (`Form`); only the ratios of the element sizes are kept.
`LivesWithReshapes` is the loop of `_refuse_unsafe_aliasing`, in plan order, one pair at
a time. Feeds are dense; the refusal of an activation retyped on its own is modelled and
occurs in no graph of the run.

### HostProtocol, HostRun, SimHost - `runtime/host/`, `runtime/simhost/`

`HostRun` is one run of `hexlib_run`, in any mode. `at` and `k` are the place in the
code: the steps of `hexlib_open` (`OpenSteps`), of `hexlib_alloc` (`AllocSteps`, for
buffer `i`), then the staging of `--in`, the invoke, the verdict and the output file.
Every external call is a step with every outcome it can have. What has been acquired is
in `ledger`; a return path queues its releases in `todo`, in the code's order, and
`Release` makes one per step, so a path that skips, doubles or reorders one shows.

| Definition | Code |
|---|---|
| `LoadDriver`, `DrvInit`, `Resolved` | `hexlib_drv_init`, which stops at the first required symbol that is missing |
| `OpenStep`, `OpenUnwind`, `DecodeBcdArch` | `hexlib_open` and its labels |
| `AllocStep`, `AllocUnwind`, `FreeCalls` | `hexlib_alloc`, `hexlib_free` and main.c's variants that leave the fd unregistered |
| `StageBuffer` with `Take` | the loop that cuts `--in` into buffers, in `int` arithmetic |
| `Invoke`, `Answers` | external: a response that never comes, is not one, refuses, or covers fewer ops |
| `SelfTestCode`, `CoherencyCode`, `Classify`, `BatchCode`, `WriteOut` | the verdicts and exit codes; a lane is its fp16 bits |

`SimHost` adds `simhost.c`, which calls the skel directly with one buffer, and holds the
properties of both programs. A run killed by a signal keeps what it holds (`Killed`).
`HostProtocol` is what `Skel` takes for granted about its caller; `SimHost` is shown to
implement it, the session's phase being read off the ledger.

### HvxLanes, the four Kernels modules, KernelHarnesses, KernelRun - `kernels/`, `include/hexlib/hvx/`

Values are **terms**: an element of an input, or an operation on terms; a reduction is
the bag of what it reduces, a product the sequence of its factor pairs. A kernel is the
stores of each iteration of its outer loop, and may be compared with its baseline for
equality, since both combine the same elements or do not. Rounding is left out. A vector
is a function from lanes; `Vmem` drops the low bits of an address as the instruction
does, and `WidenOrdered`, `NarrowOrdered`, `AddRotated` are the headers' routines
with their interleaving of lanes.

| Definition | Code |
|---|---|
| `KernelsMove` | `transpose_th_fp16`, `transpose_hd_fp16`, `patchify_fp32` |
| `KernelsMap` | `add_fp16`, `scale_fp16`, `cast_f32_f16`, `rope_2d_fp16` |
| `KernelsReduce` | `softmax_fp16`, `layernorm_fp16`, `rmsnorm_fp16` |
| `KernelsMatmul` | `matmul_fp16`, `matmul_epilogue_fp16` with its q4_0 blocks |
| `KernelHarnesses` | each harness's shapes, near misses, fills and tolerance; each runner's header and room |
| `KernelRun` | the binary: `HarnessShape`, `KernelStep`, `HarnessCompare`, or `RunnerLoad`, `KernelStep`, `RunnerStore` |

A near miss (`neg_*.c`) is modelled like the kernel it imitates. Whether the harness
tells them apart depends on its inputs: `Filled` gives elements the value the harness
fills them with, where the fill repeats or is crafted, and terms that still differ
are taken to differ in value (softmax, rmsnorm, add and scale compare terms as they
are); it looks under the three operations a term here can have over its elements. Near
misses that are numeric (a dropped epsilon, an unbiased variance) mark their result as
`Flawed`, and `Shows` names the cells where the harness's inputs were built to bring the
flaw above the tolerance.

### FarmJob - `cli.py`, `device/qdc/`

`hexlib test --device qdc` from the guards that protect the budget to the exit code.
`at` is the command's place, `job`, `ran`, `report` and `listed` are the farm's.

| Definition | Code |
|---|---|
| `CheckCommand`, `CheckAgain` | `_cmd_test_qdc`, and the guards `_qdc_submit` repeats for callers of its own |
| `Prepare`, `OpenClient`, `SubmitJob` | build, stage, `job.submit`; the answer to a submission may be lost |
| `StartWait`, `PollLogs`, `TestCap`, `Wake` | `job.wait`, with the cap of `_qdc_wait_cap_s` |
| `Fetch`, `CheckResults` | `job.fetch`, `_qdc_check_results` |
| `StartJob`, `RunTest`, `EndSession`, `CutOff`, `Publish` | external: the queue, pytest on the device, the time limit, the listing that grows file by file |

Time is counted in ticks and passes at any moment of `wait`; `Lag` bounds how long after
the cap the clock is still followed. A report that is listed may be whole, half
written or listed twice; a log of an earlier job may lie among the others. It is assumed
that a listed file no longer changes and that a results.xml belongs to this job: the code
does not check the latter either. A session that is cut off leaves no report, or half of
one, while pytest interrupted by a signal writes a whole report of the tests it has
finished (`EndSession`). `cli.py:728` asks only for `tests > 0` and takes that one for a
pass when those tests passed, so `ExitMatchesJob` says of exit 0 that every test that ran
passed, and that all ran unless the session was `Interrupted`. The listing is read once,
so a job that passed but whose logs are listed after its report is reported as failed;
`ExitMatchesJob` therefore asks for a pass only when report and logs came.

### Definitions named "Mutant"

Each property is accompanied by a definition that changes one piece of the model
the way a plausible bug would; substituted for the original it must make TLC
report the property. They are listed in `PROJECT.json` and are used nowhere else.

## 4. What is checked

| Run | Instance | Shows |
|---|---|---|
| `bufs` | 3 fds each reusable once, 2 slots, 3 addresses, sizes 2 and 3; 214,624 states | `BufsTypeOK`, `OneSlotPerFd`, `HostViewAgrees`, `SlotsBacked`, `AddressesSound` |
| `control` | 1 buffer, 2 invokes, a competitor, batches that fail at each stage, under `FairSkelSpec`; 133,996 states | `SkelTypeOK`, `KernelOwnsVtcm`, `HoldingIsRecorded`, `SessionReturnsVtcm`, `ReclaimedMeansReturned`, `ResponseHonest`, `RivalServed`, `CallReturns`, and that `Skel` implements `VtcmLease` |
| `data` | 2 buffers, a cache that does what it likes, chained and in-place ops, 2 invokes; 1,195,376 states | `OkMeansComputed`, `RefusedTouchesNothing`, `NoStaleLine` |
| `alloc` | 4 tensors, every interval over steps 0 to 2, one or two units each, both policies, a budget of 3 units; malformed requests; 583,955 states | `AllocTypeOK`, `LiveApart`, `LowestGap`, `SelfCheckSilent`, `AcceptedIsComplete` |
| `plan` | graphs of 1 to 5 plain, tiled, fused or reshape ops over an input, 3 constants and their results, 2 sets of sizes, 3 budgets, both policies; the interpreter, and the batch in both modes; 288,252 states | `LiveBytesKept`, `PlanReplays`, `OutputsRight`, `BytesAsPredicted`, `OwnChecksSilent` |
| `host` | 8 modes of both host programs, 1 to 3 buffers, every call free to fail; 23,790 states | `HostTypeOK`, `CleanExit`, `OnlyHeldReleased`, `StagedExactly`, `ExitTruthful`, and that the hosts implement `HostProtocol` |
| `kernels` | 12 kernels, their near misses, 5 runners; 2,293 states, each a whole output array | `KernelMeetsBaseline`, `StoresStayInside`, `NearMissesRejected`, `RunnerHonest` |
| `farm` | 2 commands that go through and every one that is refused, limits of 1 and 2 minutes, 5 log files; 856,995 states | `ExitMatchesJob`, `NeverAbandonsRunning`, `VerdictReached` |
| `reclaim` | as `control`, without fairness | **violation**: `ReclaimNotForgotten` |
| `plan_consts` | the graphs of `plan` in which a constant is both a tiled weight and a plain operand | **violation**: `ConstsKeepTheirOwnRegion` |
| `plan_alias` | the graphs of `plan` with reshapes | **violation**: `AliasedStorageApart` |
| `kernel_widths` | `transpose_th_fp16` on rows of 96 elements | **violation**: `KernelMeetsBaseline` |

Bounds, and why they are enough:

* `MaxMmaps = 2` with three fds: the table can be full with one buffer more to
  come, and a freed slot can be taken by another fd. 3 addresses leave room for a
  mapping whose unmap failed.
* `MaxObj = 1` (`bufs`): each fd number is reused once, which is what a stale slot
  needs. In `Skel`'s runs it is 0: the table's own run covers reuse, and the
  theorem `BatchAddressesSound` puts the two together for every bound.
* `MaxInvokes = 2` per session: the stale-line hazard and the idle reclaim need a
  second invoke. Sessions are not bounded; open and close can repeat for ever.
* `CellsPerBuf = 1`, buffers of one cell: cache operations work on whole slots, so
  a second cell of the same buffer only repeats the first.
* Batches are enumerated by hand in `MCSkel` and `MCSkelBufs`: each way to be
  refused, each way to stop, chains of two ops.
* `data` leaves the competitor out (`DataSpec`), which removes VTCM reclaims and
  no step of the memory; `control` has both.

* Four tensors over three steps (`alloc`): a gap between two busy slots, below a
  third that is not busy, is the smallest case in which the scan can go wrong; the
  theorems take over from there.
* Three ops (`plan`) give a value that is read at once, late, twice or never, and
  one that is an output half way; `Chunk = 2` makes weights of two or three chunks
  with a partial last one; budgets of 8, 12 and 24 are too small for the
  activations, for the double buffer or the constants, or for nothing.

* Graphs with reshapes (`plan`): chains of one and two reshapes, an owner read late and
  a result that could take its place. `OutputsRight` leaves chains of reshapes in the
  aliasing mode to the run `plan_alias`; all else, chains in the default mode
  included, is in.
* Up to 3 buffers and `IntMax = 3` (`host`): an input file that ends inside a buffer,
  between two, or after the last, and sizes whose sum overflows an `int`. Two groups of
  lanes: the response of a kernel that did the body and not the tail.
* The kernels' widths are the harnesses', with the machine's 64 lanes, since whether a
  loop over vectors and its scalar rest meet is a matter of widths. Counts that only
  repeat the same code are cut: patchify's image 8 x 64 with 4 x 4 patches in a 2 x 16
  grid, matmul 2 x 6 x 3 x 200, the epilogue's rows 2 or 3 and its depth 3, a runner's
  room 300 elements. `MCUntried` adds shapes no harness runs.
* A tick is a minute, a poll and the grace period (`farm`): a job may start at once, in
  the grace period or after it, and end before, at or after the cap. Of the tests of
  `test_on_device.py` the two that measure are kept; the others can only fail or pass.

Deadlock is checked in every run but `alloc`, where a call of the allocator ends
with its answer, and `kernels` with `kernel_widths`, where a binary that has reported or
exited is gone. In `plan` every end of the compiler and the interpreter is a
`Returned` that repeats, so the deadlock check says that neither gets stuck; both are
loops over finite lists, and no liveness property is stated of them.

`PlanReplays` and the second half of `OwnChecksSilent` are about *ordinary* graphs: no
input is a constant, no output is an input or a constant, and no constant is one op's
tiled weight and another's plain operand. The run has graphs of each other kind, which
the compiler or the interpreter refuses; `LiveBytesKept`, `OutputsRight` and
`BytesAsPredicted` hold for those too, and so does the first half of `OwnChecksSilent`:
the checks on a plan's slots never find anything. Both halves carry one more condition
each, which the proofs brought to light and the run has graphs for or cannot reach:

* The check of the schedule may refuse a plan that fits (`Overcounted`), because an op's
  working set counts too much: an operand read twice is summed twice
  (`opdefs/elementwise.py:29`, `opdefs/structural.py:23`), and a streamed weight in full
  when it is not the second operand (`dma.py:47`).
* `check_layouts` lets a q4_0 constant be the second operand of a tiled op whose first
  operand is itself a wide constant. The first is then streamed and the second moved
  whole, which the image's `put` refuses. `BlocksStreamed` leaves such graphs out of
  `PlanReplays`.

### Fairness

`FairSkelSpec` assumes `WF(DspStep)`: the DSP thread runs, kernels terminate and
`acquire_cached` returns after its timeout of a second; `WF(Stop)`: every path of
`main.c` after a successful `hexlib_open` ends in `hexlib_close`, which stops the
session (`MaxInvokes` bounds what comes before); `SF(GrantRival)`: the manager,
given VTCM free again and again while the rival waits, grants it. Nothing is
assumed about the callback being delivered, the host opening again or the rival
giving VTCM back. So `RivalServed` holds through `Stop` even when the reclaim is
lost; how *soon* is what the `reclaim` run is about.

`FairFarmSpec` assumes `WF(CliStep)`: the command runs and each of its calls returns;
`WF(Tick)`: time passes; and that the farm stops a job at its time limit. That a job is
ever started, that a poll ever succeeds or that any log is ever listed is not assumed, and
`VerdictReached` holds without it, through the cap. A call of the SDK that never returns
would hang the command: the code gives those calls no timeout of its own.

### Findings

* **A reclaim can be forgotten** (`reclaim`, `skel_vtcm.c:150`).
  `hexlib_vtcm_acquire` resets `vtcm_needs_release` after `acquire_cached` has
  made the skel the holder. A callback delivered in between is erased, and the
  skel keeps VTCM until the session stops, with the competitor waiting.
  `skel_internal.h:43` calls the flag one-way with a single writer.
* **A shared constant has no place of its own** (`plan_consts`, `dma.py:388`). A
  constant met first as a tiled weight keeps the double buffer as its offset when
  another op reads it as a plain operand; it is moved there once, as resident, and the
  next weight's chunks land on it. The comment at `dma.py:99` promises an offset of
  its own. The compiler accepts the plan; the interpreter refuses it, since
  `_const_slots` gives it no slot.
* **A chain of reshapes escapes the alias check** (`plan_alias`, `wholeplan.py:382`).
  Lives are extended one pair at a time in plan order, so the owner of a chain gets the
  first reshape's planned life and not the last one's; another result is let over
  bytes that are still to be read, and an output is wrong. Only
  `alias_activations=True` is affected.
* **`transpose_th_fp16` needs rows on vector boundaries** (`kernel_widths`,
  `transpose_th_fp16/kernel.c:39`). For D above 64 that is no multiple of 64 the aligned
  accesses of the second row on move the wrong elements, and `kernel_api.h` says that D*2
  need not be a multiple of 128. `patchify_fp32` (W = 40) and `softmax_fp16` (C = 100,
  two rows) have the same loop and the same promise; the aligned loop of
  `matmul_fp16` was repaired for this (its `harness.c:15-30`).

Smaller disagreements met on the way, which no run shows: the IDL says of `start` that
`max_vmem` caps how much host memory may stay mapped (`hexlib_iface.idl:30`), and
`skel.c:54` stores it and nothing reads it; the harness of `transpose_hd_fp16` calls its
values distinct (`harness.c:16`), and 2240 elements take 2048 values; the rope harness's
"distinct" tables (`harness.c:111`) have 23 values; the runners check sizes with products
of `long`, which has 32 bits there; `fclose` of the output file is not checked
(`main.c:1091`); `cli.py` calls collected-but-not-run "not passed", which the
report of an interrupted session escapes, since it does not count what was not run.

## 5. What is proved

All theorems are about the specifications TLC runs, with the constants constrained
only by the modules' assumptions: slots, fds, sizes, addresses, batches, buffers,
graphs, budgets and limits may be of any number, and a kernel's shapes of any size. The
assumptions state what the code fixes or checks before the model starts:
`BufsAssumption` and `SkelAssumption`; `AllocAssumption` (intervals are made of integers); `FarmAssumption`; `HostAssumption`
(the self test has two buffers, so `MaxBufs` is at least 2, and the comparison has
lanes); `PlanAssumption` (a graph has the form the constructors of `ir.py` give it,
`IsGraph`, and a tiled op has two operands, `Shaped`, since `infer_shapes` answers Err
when one is missing); `LanesAssumption` (a vector has 4 to 64 half-precision lanes, a power
of two: the machine has 64, and the proofs follow the doubling of the reductions through
each of the five widths), `SizesAssumption` and `RunAssumption` (a harness has shapes, a
runner's file has as many dimensions as its kernel reads, each any integer).

**Induction** (`FiniteInduction`). No backend can instantiate the library's induction
theorems, which take a predicate as a parameter. They are not needed: the library also
states that strict inclusion between finite subsets is well founded, and a *set* with
a minimal element is a first-order fact. A number is the interval below it, which
gives `LeastNat` and from it `NatSetInduction` and `SubsetInduction`, with the predicate given
as a set. By these the folds of the community modules exist and are sums (`SumsExist`,
`SumOverFacts`): a sum does not depend on the order of its terms, grows with its
set (`SumGrows`), splits (`SumSplits`), and of things that lie apart below a bound is
at most the bound (`Packed`).

**The buffer table** (`SkelProofs`, first part). `BufsInv` is typing together with
`OneSlotPerFd`, `SlotsBacked`, `HostViewAgrees` and `AddressesSound`. None of
these is inductive alone: `HostViewAgrees` needs `OneSlotPerFd` (otherwise
`Unregister` clears one of two slots and the fd still answers), `SlotsBacked` needs
`HostViewAgrees` (an fd number may be reused only when no slot has it), and
`AddressesSound` follows from `SlotsBacked` at the moment of the prologue. There is
one lemma per call (`MmapPreserves`, `MunmapPreserves`, `ReuseFdPreserves`,
`PrologueSound`), on top of what `FindByFd` returns (`FindByFdFinds`), which in turn
rests on a finite set of slot numbers having a least element (`LeastElement`).

**VTCM and the lease** (`SkelProofs`). `ControlInv` strengthens the invariants of the
`control` run with `PhaseAllows` (which control points a phase admits),
`NothingHeldOutside` (nothing held outside a started session), `WindowsHeld` (inside the windows the
manager still counts the skel) and `ReclaimRecorded` (a batch about to answer
VTCM_RECLAIMED has dropped VTCM). `SkelImplementsLease` is the refinement: every
step is a lease step or leaves `owner` and "a kernel runs" alone, because
`ControlInv` says the competitor is not granted, and nothing released, under a
kernel.

**Batches** (`SkelProofs`). `BatchAddressesSound` carries `BufsInv` through whole
sessions. `ResponseAlwaysHonest` needs `ResultsHonest`, what results and status look
like at each point of the loop, and that only `Return` publishes them.
`NeverAStaleLine` needs that the lines of unmapped buffers cannot matter and that
the invalidate before the loop covered all slots. `SkelTypeCorrect` completes the
typing.

`OkAlwaysMeansComputed` and `RefusedAlwaysTouchesNothing` put these together. `Content`
is memory as it would be with every dirty line written back, and `MemoryInv` says that
in the op loop it is the reference applied as far as the ops have come
(`MemoryFollows`): `KernelComputes` is the step, since with no stale line a kernel's
reads through the cache are reads of `Content`, at the cells the descriptors name
(`BatchAccepted`, from `ProloguePlaces`). `DirtyConfined` says that the flush can reach
every dirty line, so that afterwards memory *is* `Content`, and that none is left to
come out over memory while the host holds the response. A failed cache operation breaks
exactly this conjunct, which is why the claims stop there (`flushFailed`). The reference
is a recursive function; that it exists is `AfterOpsFacts`. `SkelAssumption` says that a
missing line is no value (`Marks`).

**The allocator** (`VtcmAllocProofs`). `AllocInv` is typing with `LiveApart` and
`SelfCheckSilent`, strengthened with `ScanInv` (every position below `scanned` meets a busy
slot already looked at, and what was looked at ends at or below `scanned`),
`AlignedInv` (offsets and `scanned` are multiples of the alignment), `AcceptedInv` and
`IdleInv`. `LiveApart` needs `ScanInv` because a tensor is settled against the slots
looked at by their ends and against the rest by where the next one starts, which
is enough only as they are sorted. Nothing in the argument uses `Before`: the theorems
hold for any order of visit, so for any policy of this form. `SelfCheckNeverFires`
then says that one of `allocate`'s refusals is unreachable.

**The farm** (`FarmJobProofs`). `RunningNeverAbandoned` adds up three bounds, which are
`WaitInv`: wait gives up only at the deadline, the deadline is the job's time and the
grace after a moment that is not negative, and a running job is within its time of its
start. `Checked` (a job that was submitted has a time limit in range) is needed for the
step that starts the job, since only then is its time not negative.

`ExitIsTheVerdict` carries `VerdictInv`, what the command knows of the job at each of
its places. Its core is arithmetic on finite sets: counts of a report can be clean only
if the self test ran and nothing that ran failed (`CleanMeansPassed`), a report of as many
tests as there are is of all of them, and when all pass the counts are clean
(`PassedMeansClean`).

**The hosts** (`HostProofs`). Four invariants, each over every action of both programs.

* `HeldInv` says exactly what the ledger holds at each place, as a function of `at`, `k`
  and `i`, and that on a return path `todo` names exactly that, each once, with nothing
  before what is built on it (`Clash`). That the code's clean-up lists have this form is a
  lemma per list, put together by concatenation (`CleansBoth`, `CleansFlatten`: `free`
  of any number of buffers). `ExitIsClean` and `ReleasesInOrder` follow.
* `HostsKeepProtocol` is the refinement: with `HeldInv` and `Nested` (of a session, its
  handle and its buffers' mappings, the outer is held while the inner is) each step is
  one of `HostProtocol` or leaves the phase and the registered buffers alone.
* `TruthInv` carries what has been established on the way to an exit code: a
  response was read, the lanes of its body and tail were seen. `ExitMeansIt` follows.
* `StageInv` is that the bytes staged so far and the bytes of `--in` left add up, and
  that the sizes staged are whole up to the buffer at hand; `InputAllStaged` and
  `HostTypes` follow.

**The plan and its replay** (`PlanRunProofs`). The argument has three layers.

* *What a plan is* (`PlanSlots`, `PlanFacts`): every tensor has at most one slot, its
  slot's life spans each of its uses, and slots in use at one step lie apart and within
  the budget. This comes from the allocator's `AllocInv` for the activations and from
  the bump pointer for the constants: constants are met in an order (`ResidentsOrdered`),
  and what lies before a constant grows with that order (`BumpGrows`). It does not use the
  compiler's check, so `OwnChecksPass` can say that the check finds nothing: in the
  slots of any graph (`SlotsPass`), and in the schedule of an ordinary one
  (`SchedulePasses`: moves of one step lie apart, operands have come, feeds and results
  move, and a working set, being made of things that have a slot at one step, is packed
  below the budget).
* *What the replay keeps* (`ReplayInv`): `Kept`, every value put and still live is intact.
  `PutKeeps` is its heart, that what is put at a step lies apart from everything live
  there. `LiveValuesSurvive` is `Kept`; with host memory right (`ddr[t] = t`) it
  gives `ReplayComputes`, the interpreter's half of `OutputsRight` (the batch's half is below).
* *That the replay goes through* (`ReadyInv`, `BytesInv`): `PlansReplay` needs every
  operand to be in VTCM or host memory when its op runs, and every transfer to have a slot
  where it is sent (`TransfersHoused`); `BytesPredicted` adds up what has been moved,
  step by step and transfer by transfer, against the plan's sum.

**The batch** (`WholeBatchProofs`). `OutputsAlwaysRight` is the whole of `OutputsRight`;
its other half follows storage instead of tensors.

* *Who owns a tensor's bytes* (`OwnerFacts`): the owner is never a reshape's result, is
  written before whatever is kept in it is read, and owns itself. `Owners` goes through
  the ops in plan order, so the facts are proved of it op by op (`IntervalInduction`; that
  the recursive function exists is `StepsExist`).
* *Where owners lie* (`PlacesApart`): bump pointers place things clear of each other
  (`BumpPlaces`); two activations put at the plan's own addresses may meet, but then
  the alias check has found their lives apart (`ActivationPlaces`).
* *What the check's lives are worth* (`LiveFacts`, `OperandStorageLives`): they span every
  use of the owner and, when no reshape reads another's result, of every tensor kept in
  it. With a chain of reshapes this is false, which is the finding of `plan_alias`; the
  hypothesis of `OutputsRight` is needed at exactly this lemma.
* *The run* (`BatchInv`): before each op, every owner that was written and is still wanted
  holds its own value (`StorageIntact`, `Wanted`). The ops passed over are reshapes, which
  write nothing of their own (`PassedOver`); what an op writes misses everything wanted
  after it (`ResultsMissTheWanted`).

**The kernels** (`KernelProofs`). The runs look at the shapes of the harnesses; the
theorems are about every shape, and the argument has three parts.

* *What a kernel's definition says* (`Faithful`): no step stores outside the output, every
  store is the baseline's term for its element, and every element the baseline has is
  stored by some step. There is one lemma per kernel, `AddFaithful` to `EpilogueFaithful`.
  The flat kernels are a vector loop and a scalar loop that divide the elements between
  them (`FlatFaithful`); the others are runs of a row (`RunsFaithful`, and
  `ShortRunsFaithful` for rope, whose odd last element nobody stores), blocks behind a
  masked store (`MaskedStore`: the two masks around a boundary touch exactly n elements),
  or patches, where an element's index is taken apart into seven digits and put together
  again in another order (`PatchifyFaithful`). What holds the vector loops together is
  `InOrder` and `BackInOrder`: the shuffle before the widening, and the deal after the
  narrowing, undo the interleaving of lanes.
* *Reductions* are bags of what was taken in. A lane of an accumulator holds its own columns,
  each once (`SoftmaxAccIs`, `SquaresAccIs`); a rotation by k lanes doubles what a lane has
  seen, without overlap (`FromDoubles` upwards, `EveryHalves` downwards), so lane 0 ends
  with the whole row and no element twice (`WholeVectorSummed`, `WholeVectorReduced`).
* *What the run keeps* (`MemInv`): between two steps an element is the baseline's, or still
  what the array was filled with and stored by no step so far. With `RefInv` (what the
  harness holds against it is the baseline's) this gives `DoneIsBaseline`, and
  `FittingShapesComputed`. `FittingShapesStayInside` needs less: the domain of the array
  never grows (`InsideInv`).

The theorems say on which shapes: `Fits`. Extents are positive (those of flat kernels may be
zero). A kernel that loads or stores its rows through aligned pointers needs a single row,
rows shorter than a vector, or rows that are whole vectors (`Rowwise`): `transpose_th_fp16`,
`layernorm_fp16`, `patchify_fp32`, and `softmax_fp16` up to the size of its scratch. The run
`kernel_widths` violates exactly this. `rmsnorm_fp16` has no tail loop and needs whole
vectors. An image must be made of whole merge blocks and fit the row buffer. Every shape of
`kernels` fits, those no harness runs included; `transpose_hd_fp16`, `rope_2d_fp16` and the
two matmuls are right on every shape.

`RunnersAreHonest` adds what the runner checks before its kernel (`RunnerAccepts`: what is
not refused is there, whole, and has positive extents, which is all that four of the five
kernels need; `transpose_th_fp16`'s runner does not look at its row width, so the theorem is
stated for `RowsStartAligned`). `KernelsAccepted` is the half of `NearMissesRejected` that
accepts: a harness whose shapes fit has found nothing wrong at its verdict. `Filled` is not
expanded in it: equal terms have equal values whatever the fills are.

Only model-checked:

* `RivalServed`, `CallReturns` and `VerdictReached`: liveness is outside the proof
  system's reach.
* That a near miss is rejected, the other half of `NearMissesRejected`: it is true because
  of the values that particular harnesses fill in, which a run evaluates.

## 6. What is not modelled

* The wire format, shape inference, fusion and ordering in the compiler: planned, see
  section 2. The per-op device runners and their selection of kernels.
* Two concurrent invokes: the dispatcher's working copies are static and the code
  relies on FastRPC to serialise the calls of the one handle.
* A second `start` on a started session: `hexlib_open` is the only caller and starts
  each handle once.
* `HAP_mmap` of an fd of the wrong size, and host pointers: not observable here.
* Build, toolchain, simulator launching and models: no state of their own.
* `hmx_matmul_fp16`: one packet of the matrix engine, which its `kernel_api.h` says
  cannot be gated standalone. Rounding, and the numerics of the quantised formats.
* The rest of `include/hexlib/hvx/`: no kernel calls it. `patchify_fp32` returns silently
  for W above 256, in the model as in the code.
* Log names, artifact layout and `adb` helpers of the farm driver; the gates of
  `verify.py` and the scan of `anticheat.py`: sequential.
