-------------------------------- MODULE Skel --------------------------------
(***************************************************************************)
(* The DSP skel as a whole: the session calls of hexlib_iface (skel.c) and *)
(* the batch dispatcher (skel_dispatch.c) over the buffer table (SkelBufs) *)
(* and VTCM (SkelVtcm), together with the memory both processors share and *)
(* this DSP's data cache in front of it.                                   *)
(*                                                                         *)
(* FastRPC serialises the calls of a handle, so one DSP thread walks the   *)
(* control points of `at`.  What runs beside it are the release callback,  *)
(* the resource manager with a competing session, and the data cache,      *)
(* which may evict or prefetch a line whenever it likes.                   *)
(*                                                                         *)
(* Data is provenance: a cell holds the set of the host writes and kernels *)
(* its value came from, so a stale input or a skipped operation shows.     *)
(***************************************************************************)
EXTENDS SkelBufs, SkelVtcm

CONSTANTS
  Batches,      \* what the host may put in an invoke
  KernelTable,  \* the op kinds hexlib_kernel_table has
  MaxBufs,      \* HEXLIB_MAX_BUFS
  MaxTensors,   \* HEXLIB_MAX_TENSORS
  MaxInvokes,   \* bound: invokes of one session
  CellsPerBuf,  \* cache lines of a buffer object
  Junk,         \* what a failed kernel leaves behind
  NoLine        \* a line the cache does not hold

VARIABLES
  at,           \* where the DSP thread is; "idle" between calls
  phase,        \* the host's session: closed, open, started, stopped
  started,      \* struct hexlib_ctx.started
  batch,        \* the batch of the invoke in flight
  results,      \* its op results written so far: n_ops of the response
  status,       \* its batch_status
  rsp,          \* the response the host has and has not acted on yet
  invokes,      \* bound counter: invokes of this session
  ddr,          \* shared memory
  line,         \* the DSP's data cache
  dirty,        \* the lines not written back
  snap,         \* history: memory when the invoke in flight began
  flushFailed   \* history: a cache operation failed in this session

callVars == <<batch, results, status, snap>>
memVars == <<ddr, line, dirty, flushFailed>>
vars == <<bufVars, vtcmVars, at, phase, started, callVars, rsp, invokes,
          memVars>>

Cells == Fds \X (0 .. CellsPerBuf - 1)
NoMemory == [c \in Cells |-> {}]
NoBatch == [faults |-> {}, bufs |-> << >>, tens |-> << >>, ops |-> << >>]

(* A response as the host has it: what hexlib_write_rsp_hdr wrote, with    *)
(* n_ops = Len(results), and what it answers: the batch and memory as it   *)
(* was when the batch was sent.                                            *)
Response(s, res, b, mem) ==
  [status |-> s, results |-> res, batch |-> b, before |-> mem]

NoRsp == Response("NONE", << >>, NoBatch, NoMemory)

-----------------------------------------------------------------------------
(* The checks on the batch header, in the order the dispatcher makes them. *)

HeaderChecks ==
  << [fault |-> "header_len", status |-> "TRUNCATED"],
     [fault |-> "magic",      status |-> "BAD_MAGIC"],
     [fault |-> "version",    status |-> "BAD_VERSION"],
     [fault |-> "total_size", status |-> "TRUNCATED"],
     [fault |-> "counts",     status |-> "INVAL_PARAMS"],
     [fault |-> "sections",   status |-> "TRUNCATED"],
     [fault |-> "rsp_room",   status |-> "TRUNCATED"] >>

(* What the host may send: struct hexlib_op, and a batch with the defects  *)
(* of its header, besides the counts that are wrong in the lists.          *)
Defects == {HeaderChecks[i].fault : i \in DOMAIN HeaderChecks}
             \union {"result_len", "batch_len"}
OpDesc == [kind : Nat, src : Seq(Nat), dst : Seq(Nat)]
BatchDesc == [faults : SUBSET Defects, bufs : Seq(BufDesc), tens : Seq(TenDesc),
              ops : Seq(OpDesc)]

(* What a value can come from: an op kind, a host write, a failed kernel.  *)
Marks == KernelTable \union (0 .. MaxInvokes) \union {Junk}

ASSUME SkelAssumption ==
  /\ Batches \subseteq BatchDesc
  /\ MaxInvokes \in Nat
  /\ CellsPerBuf \in Nat
  /\ Sizes \subseteq 1 .. CellsPerBuf
  /\ \A v \in SUBSET Marks : v # NoLine

Faults(b) ==
  b.faults \union
    (IF Len(b.bufs) > MaxBufs \/ Len(b.tens) > MaxTensors
     THEN {"counts"} ELSE {})

HeaderStatus(b) ==
  LET failed == {i \in DOMAIN HeaderChecks : HeaderChecks[i].fault \in Faults(b)}
  IN  IF failed = {} THEN "OK" ELSE HeaderChecks[First(failed)].status

-----------------------------------------------------------------------------
(* Memory as the DSP sees it. *)

SlotCells(s) == {<<mmap[s].fd, o>> : o \in 0 .. mmap[s].size - 1}
MappedCells(S) == UNION {SlotCells(s) : s \in S}

(* The cells behind a resolved address. *)
TensorCells(t) ==
  {<<osmap[t.va].fd, o>> : o \in t.offset .. t.offset + t.nbytes - 1}

OpCells(indices) == UNION {TensorCells(work.tens[i]) : i \in indices}

Elements(s) == {s[i] : i \in DOMAIN s}
Sources(op) == OpCells(Elements(op.src))
Targets(op) == OpCells(Elements(op.dst))

Read(c) == IF line[c] = NoLine THEN ddr[c] ELSE line[c]

KernelValue(op, values) == {op.kind} \union UNION values

(* A kernel reads through the cache and leaves what it wrote there.        *)
KernelWrites(op, cells, value) ==
  /\ line' = [c \in Cells |-> CASE c \in cells -> value
                                [] c \in Sources(op) \ cells -> Read(c)
                                [] OTHER -> line[c]]
  /\ dirty' = dirty \union cells
  /\ UNCHANGED <<ddr, flushFailed>>

(* Mutants: no invalidate before the batch; no flush after it.             *)
NoInvalidate(failing) == UNCHANGED memVars
NoFlush(failing) == UNCHANGED memVars

(* cache_op_all with QURT_MEM_CACHE_INVALIDATE: the lines of the slots     *)
(* where the call succeeded are dropped, unwritten.                        *)
Invalidate(failing) ==
  LET done == MappedCells(Occupied \ failing)
  IN  /\ line' = [c \in Cells |-> IF c \in done THEN NoLine ELSE line[c]]
      /\ dirty' = dirty \ done
      /\ flushFailed' = (flushFailed \/ failing # {})
      /\ UNCHANGED ddr

(* cache_op_all with QURT_MEM_CACHE_FLUSH: written back, and still cached. *)
Flush(failing) ==
  LET done == MappedCells(Occupied \ failing)
  IN  /\ ddr' = [c \in Cells |-> IF c \in done \cap dirty THEN line[c] ELSE ddr[c]]
      /\ dirty' = dirty \ done
      /\ flushFailed' = (flushFailed \/ failing # {})
      /\ UNCHANGED line

(* External: the cache on its own. *)
Evict(c) ==
  /\ line[c] # NoLine
  /\ ddr' = IF c \in dirty THEN [ddr EXCEPT ![c] = line[c]] ELSE ddr
  /\ line' = [line EXCEPT ![c] = NoLine]
  /\ dirty' = dirty \ {c}
  /\ UNCHANGED <<bufVars, vtcmVars, at, phase, started, callVars, rsp,
                 invokes, flushFailed>>

Prefetch(c) ==
  /\ c \in MappedCells(Occupied)
  /\ line[c] = NoLine
  /\ line' = [line EXCEPT ![c] = ddr[c]]
  /\ UNCHANGED <<bufVars, vtcmVars, at, phase, started, callVars, rsp,
                 invokes, ddr, dirty, flushFailed>>

-----------------------------------------------------------------------------
(* The session calls (skel.c), in the order hexlib_open and hexlib_close   *)
(* make them (session.c).                                                  *)

SkelInit ==
  /\ BufsInit /\ VtcmInit
  /\ at = "idle" /\ phase = "closed" /\ started = FALSE
  /\ batch = NoBatch /\ results = << >> /\ status = "OK"
  /\ rsp = NoRsp /\ invokes = 0
  /\ ddr = NoMemory /\ line = [c \in Cells |-> NoLine]
  /\ dirty = {} /\ snap = NoMemory /\ flushFailed = FALSE

(* hexlib_iface_open in a process (and protection domain) of its own: the  *)
(* context is cleared, and so is what the OS held for an earlier one; its  *)
(* buffers are new.                                                        *)
Open ==
  /\ at = "idle" /\ phase = "closed"
  /\ phase' = "open"
  /\ mmap' = [s \in Slots |-> FreeSlot]
  /\ osmap' = [v \in Vas |-> FreeVa]
  /\ held' = {} /\ work' = NoWork
  /\ vtcm_valid' = FALSE /\ vtcm_needs_release' = FALSE /\ vtcm_rctx' = FALSE
  /\ callback' = FALSE /\ notified' = FALSE
  /\ started' = FALSE /\ invokes' = 0 /\ rsp' = NoRsp
  /\ line' = [c \in Cells |-> NoLine] /\ dirty' = {} /\ flushFailed' = FALSE
  /\ ddr' = NoMemory
  /\ UNCHANGED <<obj, owner, waiting, at, callVars>>

(* hexlib_iface_start.  When it fails hexlib_open closes the handle.       *)
Start ==
  /\ at = "idle" /\ phase = "open"
  /\ \E rc \in {"OK", "INTERNAL", "VTCM_TOO_SMALL"} :
       /\ VtcmAlloc(rc)
       /\ started' = (rc = "OK")
       /\ phase' = IF rc = "OK" THEN "started" ELSE "stopped"
  /\ rsp' = NoRsp
  /\ UNCHANGED <<bufVars, at, callVars, invokes, memVars>>

(* Mutant: stop frees the context without releasing VTCM first.            *)
LeaveWithoutRelease(from, to) ==
  /\ at = "idle" /\ phase = from
  /\ phase' = to
  /\ at' = "free"
  /\ rsp' = NoRsp
  /\ UNCHANGED <<bufVars, vtcmVars, started, callVars, invokes, memVars>>

(* hexlib_iface_stop and hexlib_iface_close: hexlib_vtcm_release, which    *)
(* does nothing when VTCM is not held, then hexlib_vtcm_free.              *)
Leave(from, to) ==
  /\ at = "idle" /\ phase = from
  /\ phase' = to
  /\ \/ /\ ReleaseRecord
        /\ at' = "release"
     \/ /\ ~vtcm_valid
        /\ at' = "free"
        /\ UNCHANGED vtcmVars
  /\ rsp' = NoRsp
  /\ UNCHANGED <<bufVars, started, callVars, invokes, memVars>>

Stop == Leave("started", "stopped")
Close == Leave("stopped", "closed")

LeaveRelease ==
  /\ at = "release"
  /\ ReleaseCached
  /\ at' = "free"
  /\ UNCHANGED <<bufVars, phase, started, callVars, rsp, invokes, memVars>>

LeaveFree ==
  /\ at = "free"
  /\ VtcmFree
  /\ started' = FALSE
  /\ at' = "idle"
  /\ UNCHANGED <<bufVars, phase, callVars, rsp, invokes, memVars>>

(* hexlib_iface_mmap and hexlib_iface_munmap. *)
MapBuffer(fd, size) ==
  /\ at = "idle" /\ phase = "started"
  /\ fd \notin held
  /\ Mmap(fd, size)
  /\ rsp' = NoRsp
  /\ UNCHANGED <<vtcmVars, at, phase, started, callVars, invokes, memVars>>

UnmapBuffer(fd) ==
  /\ at = "idle" /\ phase = "started"
  /\ fd \in held
  /\ Munmap(fd)
  /\ rsp' = NoRsp
  /\ UNCHANGED <<vtcmVars, at, phase, started, callVars, invokes, memVars>>

(* External: the host fills a cell of a buffer between invokes. *)
HostWrites(c) ==
  /\ at = "idle" /\ phase = "started"
  /\ c[1] \in held
  /\ ddr' = [ddr EXCEPT ![c] = {invokes}]
  /\ rsp' = NoRsp
  /\ UNCHANGED <<bufVars, vtcmVars, at, phase, started, callVars, invokes,
                 line, dirty, flushFailed>>

-----------------------------------------------------------------------------
(* hexlib_iface_invoke: what it refuses itself, and the dispatcher's start.*)

(* Every way back to the host; what the call kept on the side is dead.     *)
Return(s, res) ==
  /\ rsp' = Response(s, res, batch, snap)
  /\ at' = "idle"
  /\ batch' = NoBatch /\ results' = << >> /\ status' = "OK" /\ snap' = NoMemory

(* A refusal before the op loop: a header and no results.                  *)
Refuse(s) == Return(s, << >>)

Proceed(to) ==
  /\ at' = to
  /\ UNCHANGED <<callVars, rsp>>

(* What hexlib_iface_invoke answers by itself, or "OK". *)
InvokeStatus(b) ==
  CASE "result_len" \in b.faults -> "AEE_EFAILED"
    [] "result_len" \notin b.faults /\ "batch_len" \in b.faults -> "INVAL_PARAMS"
    [] OTHER -> IF started THEN "OK" ELSE "NOT_STARTED"

Invoke(b) ==
  /\ at = "idle" /\ phase \in {"open", "started", "stopped"}
  /\ invokes < MaxInvokes
  /\ invokes' = invokes + 1
  /\ IF InvokeStatus(b) = "OK"
     THEN /\ rsp' = NoRsp
          /\ at' = "dispatch"
          /\ batch' = b
          /\ snap' = ddr
     ELSE /\ rsp' = Response(InvokeStatus(b), << >>, b, ddr)
          /\ UNCHANGED <<at, batch, snap>>
  /\ UNCHANGED <<bufVars, vtcmVars, phase, started, results, status, memVars>>

Dispatch ==
  /\ at = "dispatch"
  /\ \/ /\ HeaderStatus(batch) # "OK"
        /\ Refuse(HeaderStatus(batch))
        /\ UNCHANGED bufVars
     \/ /\ HeaderStatus(batch) = "OK"
        /\ Prologue(batch.bufs, batch.tens)
        /\ IF work'.rc = "OK" THEN Proceed("acquire") ELSE Refuse(work'.rc)
  /\ UNCHANGED <<vtcmVars, phase, started, invokes, memVars>>

(* Mutant: acquire_cached is called without a timeout.                     *)
AcquireWithoutTimeout ==
  /\ at = "acquire"
  /\ \/ vtcm_valid /\ Proceed("invalidate") /\ UNCHANGED vtcmVars
     \/ ~vtcm_valid /\ AcquireCached /\ Proceed("acquired")
  /\ UNCHANGED <<bufVars, phase, started, invokes, memVars>>

(* hexlib_vtcm_acquire. *)
Acquire ==
  /\ at = "acquire"
  /\ \/ /\ vtcm_valid
        /\ Proceed("invalidate")
        /\ UNCHANGED vtcmVars
     \/ /\ ~vtcm_valid
        /\ AcquireCached
        /\ Proceed("acquired")
     \/ /\ ~vtcm_valid
        /\ Refuse("VTCM_TOO_SMALL")
        /\ UNCHANGED vtcmVars
  /\ UNCHANGED <<bufVars, phase, started, invokes, memVars>>

Acquired ==
  /\ at = "acquired"
  /\ AcquireRecord
  /\ at' = "invalidate"
  /\ UNCHANGED <<bufVars, phase, started, callVars, rsp, invokes, memVars>>

InvalidateCache ==
  /\ at = "invalidate"
  /\ \E failing \in SUBSET Occupied :
       /\ Invalidate(failing)
       /\ IF failing = {} THEN Proceed("ops") ELSE Refuse("CACHE")
  /\ UNCHANGED <<bufVars, vtcmVars, phase, started, invokes>>

-----------------------------------------------------------------------------
(* The op loop.  An op's result is ERR_INTERNAL from the moment it is      *)
(* reached; `results` grows there, so its length is `done`.                *)

CurrentOp == batch.ops[Len(results)]

(* The operands fit hexlib_args and name tensors of this batch. *)
OperandsOK(op) ==
  /\ Len(op.src) + Len(op.dst) <= MaxBufs
  /\ Elements(op.src) \union Elements(op.dst) \subseteq DOMAIN batch.tens

OpStatus(op) ==
  CASE op.kind \notin KernelTable -> "NO_KERNEL"
    [] op.kind \in KernelTable /\ ~OperandsOK(op) -> "INVAL_PARAMS"
    [] OTHER -> "INTERNAL"

(* Mutant: an op's result starts out as OK.                                *)
NextOpOptimistic ==
  /\ at = "ops"
  /\ Len(results) < Len(batch.ops)
  /\ LET s == OpStatus(batch.ops[Len(results) + 1])
     IN  /\ results' = Append(results, IF s = "INTERNAL" THEN "OK" ELSE s)
         /\ IF s = "INTERNAL"
            THEN at' = "kernel" /\ UNCHANGED status
            ELSE at' = "flush" /\ status' = s
  /\ UNCHANGED <<bufVars, vtcmVars, phase, started, batch, snap, rsp, invokes,
                 memVars>>

NextOp ==
  /\ at = "ops"
  /\ Len(results) < Len(batch.ops)
  /\ LET s == OpStatus(batch.ops[Len(results) + 1])
     IN  /\ results' = Append(results, s)
         /\ IF s = "INTERNAL"
            THEN at' = "kernel" /\ UNCHANGED status
            ELSE at' = "flush" /\ status' = s
  /\ UNCHANGED <<bufVars, vtcmVars, phase, started, batch, snap, rsp, invokes,
                 memVars>>

LastOpDone ==
  /\ at = "ops"
  /\ Len(results) = Len(batch.ops)
  /\ at' = "flush"
  /\ UNCHANGED <<bufVars, vtcmVars, phase, started, callVars, rsp, invokes,
                 memVars>>

(* Mutant: a reclaim stops the batch but VTCM is kept.                     *)
ReclaimKeepsVtcm ==
  /\ at = "kernel"
  /\ KernelWrites(CurrentOp, Targets(CurrentOp),
                  KernelValue(CurrentOp, {Read(c) : c \in Sources(CurrentOp)}))
  /\ results' = [results EXCEPT ![Len(results)] = "OK"]
  /\ status' = IF vtcm_needs_release THEN "VTCM_RECLAIMED" ELSE status
  /\ at' = IF vtcm_needs_release THEN "flush" ELSE "ops"
  /\ UNCHANGED <<bufVars, vtcmVars, phase, started, batch, snap, rsp, invokes>>

(* A kernel returns OK, and the loop looks at the reclaim flag.            *)
KernelSucceeds ==
  /\ at = "kernel"
  /\ KernelWrites(CurrentOp, Targets(CurrentOp),
                  KernelValue(CurrentOp, {Read(c) : c \in Sources(CurrentOp)}))
  /\ results' = [results EXCEPT ![Len(results)] = "OK"]
  /\ \/ /\ vtcm_needs_release
        /\ ReleaseRecord
        /\ status' = "VTCM_RECLAIMED"
        /\ at' = "reclaim"
     \/ /\ ~vtcm_needs_release
        /\ at' = "ops"
        /\ UNCHANGED <<vtcmVars, status>>
  /\ UNCHANGED <<bufVars, phase, started, batch, snap, rsp, invokes>>

(* Mutant: the loop does not stop at a failed kernel.                      *)
KernelFailureIgnored ==
  /\ at = "kernel"
  /\ \E cells \in SUBSET Targets(CurrentOp) : KernelWrites(CurrentOp, cells, {Junk})
  /\ results' = [results EXCEPT ![Len(results)] = "REQUIRES"]
  /\ at' = "ops"
  /\ UNCHANGED <<bufVars, vtcmVars, phase, started, batch, snap, status, rsp,
                 invokes>>

(* A kernel returns anything else, having written some of its output.      *)
KernelFails ==
  /\ at = "kernel"
  /\ \E cells \in SUBSET Targets(CurrentOp) : KernelWrites(CurrentOp, cells, {Junk})
  /\ results' = [results EXCEPT ![Len(results)] = "REQUIRES"]
  /\ status' = "REQUIRES"
  /\ at' = "flush"
  /\ UNCHANGED <<bufVars, vtcmVars, phase, started, batch, snap, rsp, invokes>>

(* Mutant: the context forgets VTCM but the manager is not told.           *)
ReclaimUntold ==
  /\ at = "reclaim"
  /\ at' = "flush"
  /\ UNCHANGED <<bufVars, vtcmVars, phase, started, callVars, rsp, invokes, memVars>>

Reclaim ==
  /\ at = "reclaim"
  /\ ReleaseCached
  /\ at' = "flush"
  /\ UNCHANGED <<bufVars, phase, started, callVars, rsp, invokes, memVars>>

(* Mutant: the flush is skipped when the batch failed.                     *)
ReplyFlushesOnlyOk ==
  /\ at = "flush"
  /\ IF status = "OK" THEN Flush({}) ELSE UNCHANGED memVars
  /\ Return(status, results)
  /\ UNCHANGED <<bufVars, vtcmVars, phase, started, invokes>>

(* The flush runs on every way out of the loop; a failure of it is the     *)
(* batch's status only when nothing else went wrong.                       *)
Reply ==
  /\ at = "flush"
  /\ \E failing \in SUBSET Occupied :
       /\ Flush(failing)
       /\ Return(IF failing # {} /\ status = "OK" THEN "CACHE" ELSE status, results)
  /\ UNCHANGED <<bufVars, vtcmVars, phase, started, invokes>>

-----------------------------------------------------------------------------
DspStep ==
  \/ LeaveRelease \/ LeaveFree
  \/ Dispatch \/ Acquire \/ Acquired \/ InvalidateCache
  \/ NextOp \/ LastOpDone \/ KernelSucceeds \/ KernelFails \/ Reclaim \/ Reply

HostStep ==
  \/ Open \/ Start \/ Stop \/ Close
  \/ \E fd \in Fds : UnmapBuffer(fd) \/ \E size \in Sizes : MapBuffer(fd, size)
  \/ \E c \in Cells : HostWrites(c)
  \/ \E b \in Batches : Invoke(b)

BesideTheThread ==
  UNCHANGED <<bufVars, at, phase, started, callVars, rsp, invokes, memVars>>

GrantRival == RivalGranted /\ BesideTheThread

ManagerStep ==
  \/ (ReleaseCallback \/ RivalAsks \/ ManagerNotifies \/ RivalReturns) /\ BesideTheThread
  \/ GrantRival

CacheStep == \E c \in Cells : Evict(c) \/ Prefetch(c)

SkelNext == DspStep \/ HostStep \/ ManagerStep \/ CacheStep

SkelSpec == SkelInit /\ [][SkelNext]_vars

-----------------------------------------------------------------------------
(* Fairness.  The DSP thread runs on and kernels terminate; the manager    *)
(* dispatches callbacks and, given repeated chances, serves the waiting    *)
(* session; and the host closes what it opened: every path of main.c after *)
(* a successful hexlib_open ends in hexlib_close, and MaxInvokes bounds    *)
(* what comes before.  The host need not open again, and the rival need    *)
(* not ask or return anything.                                             *)
Fairness ==
  /\ WF_vars(DspStep)
  /\ WF_vars(Stop)
  /\ SF_vars(GrantRival)

FairSkelSpec == SkelSpec /\ Fairness

-----------------------------------------------------------------------------
Controls == {"idle", "release", "free", "dispatch", "acquire", "acquired",
             "invalidate", "ops", "kernel", "reclaim", "flush"}

(* Between these points a batch holds VTCM on behalf of its kernels. *)
Running == {"invalidate", "ops", "kernel"}

(* The types of the control state; while a kernel runs, its op already has *)
(* a result, and that result is a failure.                                 *)
SkelTypeOK ==
  /\ VtcmTypeOK
  /\ at \in Controls
  /\ phase \in {"closed", "open", "started", "stopped"}
  /\ started \in BOOLEAN
  /\ batch \in Batches \union {NoBatch}
  /\ invokes \in 0 .. MaxInvokes
  /\ results \in Seq({"OK", "INTERNAL", "REQUIRES", "NO_KERNEL", "INVAL_PARAMS"})
  /\ at = "kernel" => results # << >> /\ results[Len(results)] = "INTERNAL"

(* No kernel runs, and no batch is between acquiring VTCM and leaving its  *)
(* op loop, unless the manager says the skel is the holder: the reclaim    *)
(* callback must not give VTCM away under a batch in flight.               *)
KernelOwnsVtcm ==
  at \in Running => owner = "skel" /\ vtcm_valid

(* What the context says and what the manager says differ only inside the  *)
(* three windows around the manager's calls.                               *)
HoldingIsRecorded ==
  /\ vtcm_valid => owner = "skel"
  /\ owner = "skel" => vtcm_valid \/ at \in {"acquired", "release", "reclaim"}

(* A session that has been stopped or closed holds no VTCM and no context, *)
(* however its batches ended: nothing is left reserved that no later call  *)
(* would return.                                                           *)
SessionReturnsVtcm ==
  at = "idle" /\ phase \in {"closed", "stopped"} =>
    owner # "skel" /\ ~vtcm_rctx /\ ~started

(* "VTCM_RECLAIMED" on the wire means VTCM was actually given back, not    *)
(* just that the batch stopped.                                            *)
ReclaimedMeansReturned ==
  rsp.status = "VTCM_RECLAIMED" => ~vtcm_valid /\ owner # "skel"

(* The response a host acts on tells the truth about the ops: OK means     *)
(* every op ran and returned OK; any other status comes with the results   *)
(* of a prefix, all OK but possibly the last, and the last agrees with the *)
(* batch status unless the batch ended for a reason outside its ops.       *)
ResponseHonest ==
  rsp # NoRsp =>
    LET n == Len(rsp.results)
    IN  /\ n <= Len(rsp.batch.ops)
        /\ \A i \in 1 .. n - 1 : rsp.results[i] = "OK"
        /\ rsp.status = "OK" => n = Len(rsp.batch.ops) /\ (n > 0 => rsp.results[n] = "OK")
        /\ n > 0 /\ rsp.status \notin {"OK", "CACHE", "VTCM_RECLAIMED"} =>
             rsp.results[n] = rsp.status
        /\ n > 0 /\ rsp.status \in {"CACHE", "VTCM_RECLAIMED"} =>
             rsp.results[n] = "OK"

-----------------------------------------------------------------------------
(* The batch as a pure function of memory: its ops in order, tensors found *)
(* by the fd their descriptor names, with no cache and no mapping.         *)

NamedCells(b, i) ==
  LET t == b.tens[i]
  IN  {<<b.bufs[t.bi].fd, o>> : o \in t.offset .. t.offset + t.nbytes - 1}

AfterOp(b, op, mem) ==
  LET src == UNION {NamedCells(b, i) : i \in Elements(op.src)}
      dst == UNION {NamedCells(b, i) : i \in Elements(op.dst)}
      value == {op.kind} \union UNION {mem[c] : c \in src}
  IN  [c \in Cells |-> IF c \in dst THEN value ELSE mem[c]]

AfterBatch(b, mem) ==
  LET after[n \in 0 .. Len(b.ops)] ==
        IF n = 0 THEN mem ELSE AfterOp(b, b.ops[n], after[n - 1])
  IN  after[Len(b.ops)]

(* OK means that what the host now finds in memory is the batch applied to *)
(* what the host had put there: no op read a stale line, every result was  *)
(* written back, nothing else changed, and no malformed batch got through. *)
(* A session one of whose cache operations has failed is outside this: its *)
(* dirty lines may still come out over a later input.                      *)
OkMeansComputed ==
  rsp.status = "OK" /\ ~flushFailed =>
    /\ Faults(rsp.batch) = {}
    /\ ddr = AfterBatch(rsp.batch, rsp.before)

(* A batch that was refused before its first op has changed no memory.     *)
RefusedTouchesNothing ==
  rsp # NoRsp /\ rsp.results = << >> /\ ~flushFailed =>
    ddr = rsp.before

(* While kernels run, every clean line of a mapped buffer equals memory:   *)
(* the host's writes since the last invoke are visible to them.            *)
NoStaleLine ==
  at \in {"ops", "kernel"} =>
    \A c \in MappedCells(Occupied) :
      line[c] # NoLine /\ c \notin dirty => line[c] = ddr[c]

-----------------------------------------------------------------------------
(* The skel implements the lease. *)
Lease == INSTANCE VtcmLease WITH holder <- owner, running <- (at = "kernel")
LeaseImplemented == Lease!LeaseSpec

(* A competing session that asks for VTCM while the skel's session lives   *)
(* gets it in the end, whatever became of the callback.                    *)
RivalServed == waiting ~> owner = "rival"

(* Every call the host makes comes back, whatever the competitor and the   *)
(* callback do meanwhile: the thread waits for nothing it could miss.      *)
CallReturns == at # "idle" ~> at = "idle"

(* skel_internal.h calls vtcm_needs_release "a one-way 0 -> 1 flag with a  *)
(* single writer" and skel_vtcm.c says that noticing a reclaim is this     *)
(* file's job: a request that was recorded while its competitor still      *)
(* waits is dropped only on the way to giving VTCM back.                   *)
ReclaimNotForgotten ==
  [][waiting /\ notified /\ vtcm_needs_release /\ ~vtcm_needs_release'
       => ~vtcm_valid' ]_vars
=============================================================================
