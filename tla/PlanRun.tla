------------------------------ MODULE PlanRun -------------------------------
(***************************************************************************)
(* From an ordered graph to its outputs: the allocator places the          *)
(* activations (VtcmAlloc), insert_transfers places the constants and      *)
(* schedules the DMA (graph/dma.py), the compiler checks the result        *)
(* (graph/pipeline.py), and the interpreter replays the plan in one flat   *)
(* buffer of VTCM bytes (exec/interpreter.py, exec/vtcm.py).               *)
(*                                                                         *)
(* A byte holds the name of the tensor whose right value it is part of, or *)
(* Junk.  Transfer ids and dma_wait are left out: every transfer of a step *)
(* is issued and awaited in that step.                                     *)
(***************************************************************************)
EXTENDS VtcmAlloc, GraphIR

CONSTANTS
  Graphs,     \* the ordered graphs compiled
  Budgets,    \* the VTCM budgets
  Chunk,      \* WEIGHT_CHUNK_BYTES
  Buffers     \* WEIGHT_BUFFERS

RequestFor(g, budget, policy) ==
  [ivs |-> LiveIntervals(g), budget |-> budget, policy |-> policy]

TiledKinds == {"matmul", "matmul_epilogue"}

(* What infer_shapes lets through: a tiled op has two operands at least, a *)
(* reshape one and one result.                                             *)
Shaped(g) ==
  \A i \in DOMAIN g.ops :
    /\ g.ops[i].kind \in TiledKinds => Len(g.ops[i].ins) >= 2
    /\ g.ops[i].kind = "reshape" => Len(g.ops[i].ins) >= 1 /\ Len(g.ops[i].outs) = 1

ASSUME PlanAssumption ==
  /\ Chunk \in Nat \ {0} /\ Buffers \in Nat \ {0}
  /\ \A g \in Graphs : IsGraph(g) /\ Shaped(g)
  /\ \A g \in Graphs, n \in Budgets, p \in Policies :
       WellFormed(g) => RequestFor(g, n, p) \in Requests

VARIABLES
  graph,      \* the graph being compiled or run
  asked,      \* the budget and allocation policy compile_model was given
  plan,       \* [steps, moved, slots], once compiled
  stage,      \* where the compiler or the interpreter is, or its Err
  step,       \* the step being replayed
  pending,    \* the transfers of the step's dma_in or dma_out still to do
  vtcm,       \* VtcmImage._buf
  written,    \* VtcmImage._written
  ddr,        \* host memory: the tensors in it and their values
  bytes       \* report.bytes_in + report.bytes_out

planVars == <<graph, asked, plan, stage, step, pending, vtcm, written, ddr, bytes>>
vars == <<allocVars, planVars>>

Junk == -2
Scratch == -3        \* __weight_scratch__
NoPlan == [steps |-> <<>>, moved |-> 0, slots |-> {}]

-----------------------------------------------------------------------------
(* Placing the constants.                                                  *)

(* _weight_name: the first wide constant a tiled op reads, in a set. *)
WeightAt(g, op) ==
  {k \in DOMAIN op.ins : op.kind \in TiledKinds /\ op.ins[k] \in g.const \intersect g.wide}
Weight(g, op) == {op.ins[k] : k \in {j \in WeightAt(g, op) : \A i \in WeightAt(g, op) : j <= i}}

Weights(g) == UNION {Weight(g, g.ops[i]) : i \in DOMAIN g.ops}

Region == Chunk * Buffers
HighWater(slots) == Max({0} \union {SlotEnd(s) : s \in slots})
ScratchBase(slots) == AlignUp(HighWater(slots))

(* Where _plan_offsets meets a constant: op by op, the weight (place 0)    *)
(* before the operands (places 1, 2, ...).                                 *)
Meets(g, c) ==
  UNION {IF c \in Weight(g, g.ops[i]) THEN {<<i, 0>>}
         ELSE {<<i, k>> : k \in {j \in DOMAIN g.ops[i].ins : g.ops[i].ins[j] = c}} :
           i \in DOMAIN g.ops}

Earlier(p, q) == p[1] < q[1] \/ (p[1] = q[1] /\ p[2] < q[2])
FirstMeet(g, c) == CHOOSE p \in Meets(g, c) : \A q \in Meets(g, c) : ~Earlier(q, p)

ReadConsts(g) == {c \in g.const : Meets(g, c) # {}}
StreamedFirst(g, c) == FirstMeet(g, c)[2] = 0

(* offsets, and the bump pointer after the last constant. *)
BumpBytes(g, S) == SumFunction([c \in S |-> AlignUp(g.nbytes[c])])
Resident(g) == {c \in ReadConsts(g) : ~StreamedFirst(g, c)}

(* Mutant: the constants start where the chunks do. *)
ConstStartAtScratch(base) == base

ConstStart(base) == AlignUp(base + Region)
ConstOffsets(g, base) ==
  [c \in ReadConsts(g) |->
     IF StreamedFirst(g, c) THEN base
     ELSE ConstStart(base) +
            BumpBytes(g, {d \in Resident(g) : Earlier(FirstMeet(g, d), FirstMeet(g, c))})]
ConstEnd(g, base) == ConstStart(base) + BumpBytes(g, Resident(g))

(* _const_slots *)
WholePlan(g, t, at, size) ==
  [tensor |-> t, offset |-> at, size |-> size, first_use |-> 0, last_use |-> Len(g.ops)]

(* Mutant: only the chunks get a slot. *)
ConstSlotsScratchOnly(g, base) == {WholePlan(g, Scratch, base, Region)}

ConstSlots(g, base) ==
  {WholePlan(g, Scratch, base, Region)}
    \union {WholePlan(g, c, ConstOffsets(g, base)[c], AlignUp(g.nbytes[c])) :
              c \in ReadConsts(g) \ Weights(g)}

-----------------------------------------------------------------------------
(* insert_transfers.                                                       *)

Transfer(g, at, t, dir) ==
  [tensor |-> t, at |-> at[t], nbytes |-> g.nbytes[t], direction |-> dir]

(* Constants and graph inputs an op reads other than as its tiled weight. *)
OneShots(g, op) == (Reads(op) \ Weight(g, op)) \intersect (g.const \union g.inputs)
OneShotsBefore(g, i) == UNION {OneShots(g, g.ops[j]) : j \in 1 .. i - 1}

UnreadInputs(g, at) == {t \in g.inputs \intersect DOMAIN at :
                          t \notin OneShotsBefore(g, Len(g.ops) + 1)}
UnwrittenOutputs(g, at) == {t \in g.outputs \intersect DOMAIN at :
                              \A i \in DOMAIN g.ops : t \notin Writes(g.ops[i])}

PerChunk(g, w) == IF g.nbytes[w] < Chunk THEN g.nbytes[w] ELSE Chunk
Chunks(g, w) == (g.nbytes[w] + Chunk - 1) \div Chunk

(* The step of op i, with the transfers added to the first and last step. *)
StepOf(g, at, i) ==
  LET op == g.ops[i]
      in == (OneShots(g, op) \ OneShotsBefore(g, i))
              \union (IF i = 1 THEN UnreadInputs(g, at) ELSE {})
      out == (Writes(op) \intersect g.outputs)
              \union (IF i = Len(g.ops) THEN UnwrittenOutputs(g, at) ELSE {})
  IN  [dma_in |-> {Transfer(g, at, t, "in") : t \in in},
       tiling |-> {[tensor |-> w, at |-> at[w], nbytes |-> PerChunk(g, w),
                    direction |-> "in", count |-> Chunks(g, w)] : w \in Weight(g, op)},
       dma_out |-> {Transfer(g, at, t, "out") : t \in out}]

(* Mutant: a tiled weight counts as one chunk. *)
MovedOneChunk(s) ==
  SumFunction([t \in s.dma_in |-> t.nbytes]) + SumFunction([t \in s.dma_out |-> t.nbytes])
    + SumFunction([t \in s.tiling |-> t.nbytes])

Moved(s) ==
  SumFunction([t \in s.dma_in |-> t.nbytes]) + SumFunction([t \in s.dma_out |-> t.nbytes])
    + SumFunction([t \in s.tiling |-> t.nbytes * t.count])

(* Where a transfer of each tensor goes. *)
Addresses(g, slots) ==
  LET acts == {s.tensor : s \in slots}
      consts == ConstOffsets(g, ScratchBase(slots))
  IN  [t \in acts \union DOMAIN consts |->
         IF t \in acts THEN (CHOOSE s \in slots : s.tensor = t).offset ELSE consts[t]]

(* The plan made of an accepted allocation. *)
Scheduled(g, slots) ==
  LET at == Addresses(g, slots)
      steps == [i \in DOMAIN g.ops |-> StepOf(g, at, i)]
  IN  [steps |-> steps,
       moved |-> SumFunction([i \in DOMAIN steps |-> Moved(steps[i])]),
       slots |-> slots \union ConstSlots(g, ScratchBase(slots))]

-----------------------------------------------------------------------------
(* The compiler's checks on a plan.                                        *)

(* check_layouts: a q4_0 constant is accepted only as a matmul's weight. *)
LayoutMismatch(g) ==
  \E i \in DOMAIN g.ops : \E k \in DOMAIN g.ops[i].ins :
    /\ g.ops[i].ins[k] \in g.q4 \intersect g.const
    /\ ~(g.ops[i].kind \in TiledKinds /\ k = 2)

Cells(t) == t.at .. t.at + t.nbytes - 1

AllIntervals(g, p) ==
  LET acts == LiveIntervals(g)
      consts == {s \in p.slots : s.tensor \notin DOMAIN acts}
      slotOf(t) == CHOOSE s \in consts : s.tensor = t
  IN  [t \in DOMAIN acts \union {s.tensor : s \in consts} |->
         IF t \in DOMAIN acts THEN acts[t]
         ELSE [first_use |-> slotOf(t).first_use, last_use |-> slotOf(t).last_use,
               nbytes |-> slotOf(t).size]]

WorkingSet(g, op) ==
  LET size(T) == SumFunction([k \in DOMAIN T |-> g.nbytes[T[k]]])
  IN  size(op.outs) + IF op.kind \in TiledKinds
                      THEN g.nbytes[op.ins[1]] + Region + size(SubSeq(op.ins, 3, Len(op.ins)))
                      ELSE size(op.ins)

(* plan_problems *)
PlanProblems(g, p, budget) ==
  LET moves(s) == s.dma_in \union s.tiling \union s.dma_out
      in(i) == {t.tensor : t \in p.steps[i].dma_in \union p.steps[i].tiling}
      out(i) == {t.tensor : t \in p.steps[i].dma_out}
      ready(i) == (UNION {in(j) : j \in 1 .. i}) \union UNION {Writes(g.ops[j]) : j \in 1 .. i - 1}
  IN  \/ \E i \in DOMAIN p.steps : \E a, b \in moves(p.steps[i]) :
           a # b /\ Cells(a) \intersect Cells(b) # {}
      \/ \E i \in DOMAIN p.steps : ~(Reads(g.ops[i]) \subseteq ready(i))
      \/ \E i \in DOMAIN p.steps : WorkingSet(g, g.ops[i]) > budget
      \/ \E t \in g.inputs : \A i \in DOMAIN p.steps : t \notin in(i)
      \/ \E t \in g.outputs : \A i \in DOMAIN p.steps : t \notin out(i)

(* The first of the Errs of insert_transfers that applies. *)
TransferVerdict(g, slots, budget) ==
  LET base == ScratchBase(slots)
  IN  IF budget < Region THEN "budget_too_small_to_double_buffer"
      ELSE IF base + Region > budget THEN "no_VTCM_left_for_weight_streaming"
      ELSE IF ConstEnd(g, base) > budget THEN "no_VTCM_left_for_the_resident_consts"
      ELSE IF LayoutMismatch(g) THEN "layout_mismatch"
      ELSE "scheduled"

(* What _compile makes of the schedule. *)
CompileVerdict(g, p, budget) ==
  IF AllocationProblems(p.slots, AllIntervals(g, p), budget)
  THEN "allocation_violates_its_invariants"
  ELSE IF PlanProblems(g, p, budget) THEN "schedule_violates_its_invariants"
  ELSE "compiled"

-----------------------------------------------------------------------------
(* VtcmImage.                                                              *)

InImage(t) == \E s \in plan.slots : s.tensor = t
SlotFor(t) == CHOOSE s \in plan.slots : s.tensor = t
Bytes(t) == SlotFor(t).offset .. SlotFor(t).offset + graph.nbytes[t] - 1
Dense(t) == t \notin graph.q4
CanPut(t) == InImage(t) /\ Dense(t) /\ graph.nbytes[t] <= SlotFor(t).size
CanGet(t) == InImage(t) /\ t \in written

(* The buffer after the values f[t] were put into the slots of DOMAIN f. *)
PutAll(f) ==
  [b \in DOMAIN vtcm |->
     IF \E t \in DOMAIN f : b \in Bytes(t)
     THEN f[CHOOSE t \in DOMAIN f : b \in Bytes(t)]
     ELSE vtcm[b]]

Get(t) == IF \A b \in Bytes(t) : vtcm[b] = t THEN t ELSE Junk

(* _read_input *)
CanRead(t) == CanGet(t) \/ t \in DOMAIN ddr
ReadInput(t) == IF CanGet(t) THEN Get(t) ELSE ddr[t]

(* overlapping_slots *)
OverlappingSlots(slots) ==
  \E a, b \in slots : a # b /\ Clash(a, b) /\ Overlaps(a, b)

Hold(mem, t, v) == [u \in DOMAIN mem \union {t} |-> IF u = t THEN v ELSE mem[u]]

-----------------------------------------------------------------------------

PlanInit ==
  /\ AllocInit
  /\ graph \in Graphs
  /\ asked \in [budget : Budgets, policy : Policies]
  /\ plan = NoPlan
  /\ stage = "idle"
  /\ step = 0 /\ pending = {}
  /\ vtcm = <<>> /\ written = {} /\ ddr = <<>> /\ bytes = 0

RunVars == <<step, pending, vtcm, written, ddr, bytes>>

Compile ==
  /\ stage = "idle"
  /\ IF WellFormed(graph)
     THEN /\ Allocate(RequestFor(graph, asked.budget, asked.policy))
          /\ stage' = "allocating"
     ELSE /\ stage' = "graph_is_structurally_invalid"
          /\ UNCHANGED allocVars
  /\ UNCHANGED <<graph, asked, plan, RunVars>>

PlaceActivations ==
  /\ Place
  /\ UNCHANGED planVars

InsertTransfers ==
  /\ stage = "allocating" /\ outcome = "accepted"
  /\ stage' = TransferVerdict(graph, Slots, request.budget)
  /\ plan' = IF stage' = "scheduled" THEN Scheduled(graph, Slots) ELSE NoPlan
  /\ UNCHANGED <<allocVars, graph, asked, RunVars>>

CheckPlan ==
  /\ stage = "scheduled"
  /\ stage' = CompileVerdict(graph, plan, request.budget)
  /\ UNCHANGED <<allocVars, graph, asked, plan, RunVars>>

(* run: the image is built, the feeds are in host memory. *)
StartReplay ==
  /\ stage = "compiled"
  /\ IF OverlappingSlots(plan.slots)
     THEN /\ stage' = "VTCM_allocation_aliases_live_tensors"
          /\ UNCHANGED RunVars
     ELSE /\ stage' = "dma_in"
          /\ step' = 1
          /\ pending' = plan.steps[1].dma_in
          /\ vtcm' = [b \in 0 .. request.budget - 1 |-> Junk]
          /\ ddr' = [t \in graph.inputs \union graph.const |-> t]
          /\ UNCHANGED <<written, bytes>>
  /\ UNCHANGED <<allocVars, graph, asked, plan>>

Disagrees(t) == InImage(t.tensor) /\ t.at # SlotFor(t.tensor).offset

StageIn(t) ==
  /\ stage = "dma_in" /\ t \in pending
  /\ pending' = pending \ {t}
  /\ IF Disagrees(t) \/ t.tensor \notin DOMAIN ddr \/ ~CanPut(t.tensor)
     THEN /\ stage' = "staging_failed"
          /\ UNCHANGED <<vtcm, written, bytes>>
     ELSE /\ vtcm' = PutAll([u \in {t.tensor} |-> ddr[u]])
          /\ written' = written \union {t.tensor}
          /\ bytes' = bytes + t.nbytes
          /\ UNCHANGED stage
  /\ UNCHANGED <<allocVars, graph, asked, plan, step, ddr>>

(* _do_tiling: the whole weight is moved at once if it has a slot. *)
StreamWeight ==
  /\ stage = "dma_in" /\ pending = {}
  /\ IF \E w \in plan.steps[step].tiling :
          \/ w.count * w.nbytes < graph.nbytes[w.tensor]
          \/ w.tensor \notin DOMAIN ddr
          \/ InImage(w.tensor) /\ ~CanPut(w.tensor)
     THEN /\ stage' = "tiled_transfer_failed"
          /\ UNCHANGED <<vtcm, written, bytes>>
     ELSE LET put == {w.tensor : w \in {x \in plan.steps[step].tiling : InImage(x.tensor)}}
          IN  /\ stage' = "op"
              /\ vtcm' = PutAll([t \in put |-> ddr[t]])
              /\ written' = written \union put
              /\ bytes' = bytes + SumFunction([w \in plan.steps[step].tiling |->
                                               w.count * w.nbytes])
  /\ UNCHANGED <<allocVars, graph, asked, plan, step, pending, ddr>>

(* _run_op: a result is right if every operand was. *)
RunOp ==
  LET op == graph.ops[step]
      right == \A t \in Reads(op) : ReadInput(t) = t
      value(t) == IF right THEN t ELSE Junk
      slotted == {t \in Writes(op) : InImage(t)}
  IN  /\ stage = "op"
      /\ IF (\E t \in Reads(op) : ~CanRead(t)) \/ (\E t \in slotted : ~CanPut(t))
         THEN /\ stage' = "op_failed"
              /\ UNCHANGED <<vtcm, written, ddr, pending>>
         ELSE /\ stage' = "dma_out"
              /\ vtcm' = PutAll([t \in slotted |-> value(t)])
              /\ written' = written \union slotted
              /\ ddr' = [t \in DOMAIN ddr \union (Writes(op) \ slotted) |->
                           IF t \in DOMAIN ddr THEN ddr[t] ELSE value(t)]
              /\ pending' = plan.steps[step].dma_out
      /\ UNCHANGED <<allocVars, graph, asked, plan, step, bytes>>

WriteBack(t) ==
  /\ stage = "dma_out" /\ t \in pending
  /\ pending' = pending \ {t}
  /\ IF Disagrees(t) \/ ~CanGet(t.tensor)
     THEN /\ stage' = "write_back_failed"
          /\ UNCHANGED <<ddr, bytes>>
     ELSE /\ ddr' = Hold(ddr, t.tensor, Get(t.tensor))
          /\ bytes' = bytes + t.nbytes
          /\ UNCHANGED stage
  /\ UNCHANGED <<allocVars, graph, asked, plan, step, vtcm, written>>

NextStep ==
  /\ stage = "dma_out" /\ pending = {} /\ step < Len(plan.steps)
  /\ step' = step + 1
  /\ pending' = plan.steps[step + 1].dma_in
  /\ stage' = "dma_in"
  /\ UNCHANGED <<allocVars, graph, asked, plan, vtcm, written, ddr, bytes>>

Deliver ==
  /\ stage = "dma_out" /\ pending = {} /\ step = Len(plan.steps)
  /\ stage' = IF \A t \in graph.outputs : t \in DOMAIN ddr \/ CanGet(t)
              THEN "finished" ELSE "output_never_materialized"
  /\ UNCHANGED <<allocVars, graph, asked, plan, RunVars>>

(* compile_model or run has returned. *)
Returned ==
  /\ \/ stage \notin {"idle", "allocating", "scheduled", "compiled", "dma_in", "op", "dma_out", "batch"}
     \/ stage = "allocating" /\ outcome \notin {"placing", "accepted"}
  /\ UNCHANGED vars

PlanNext ==
  \/ Compile
  \/ PlaceActivations
  \/ InsertTransfers
  \/ CheckPlan
  \/ StartReplay
  \/ \E t \in pending : StageIn(t)
  \/ StreamWeight
  \/ RunOp
  \/ \E t \in pending : WriteBack(t)
  \/ NextStep
  \/ Deliver
  \/ Returned

PlanSpec == PlanInit /\ [][PlanNext]_vars

-----------------------------------------------------------------------------
(* Properties.                                                             *)

Replaying == stage \in {"dma_in", "op", "dma_out"}

(* Between any two actions of the replay, every activation and constant    *)
(* that was put into VTCM and is still live at this step is intact there:  *)
(* neither a result nor a transfer of any step lands on it.                *)
LiveBytesKept ==
  Replaying =>
    \A s \in plan.slots :
      s.tensor \in written /\ step - 1 <= s.last_use => Get(s.tensor) = s.tensor

(* Every output is computed, no input is a constant, and no constant is    *)
(* one op's streamed weight and another's plain operand.                   *)
SharedUse(g) ==
  \E c \in Weights(g) : \E i \in DOMAIN g.ops : c \in OneShots(g, g.ops[i])

Ordinary(g) ==
  /\ g.inputs \intersect g.const = {}
  /\ g.outputs \intersect (g.inputs \union g.const) = {}
  /\ ~SharedUse(g)

(* q4_0 blocks, which the image cannot put, are only ever streamed.        *)
BlocksStreamed(g) ==
  \A t \in g.q4 : t \in g.const /\ \A i \in DOMAIN g.ops : t \notin OneShots(g, g.ops[i])

(* The plan accepted for an ordinary graph whose q4_0 blocks are streamed  *)
(* can be replayed: no transfer, op or output of it is refused for want of *)
(* a slot, a value or agreement about an address.                          *)
PlanReplays ==
  stage \in {"staging_failed", "tiled_transfer_failed", "op_failed",
            "write_back_failed", "output_never_materialized"}
    => ~(Ordinary(graph) /\ BlocksStreamed(graph))

(* The bytes the replay moved are those the compiler predicted. *)
BytesAsPredicted == stage = "finished" => bytes = plan.moved

(* An op's working set is not what it keeps resident: an operand it reads  *)
(* twice is counted twice, and its streamed weight in full unless it is    *)
(* the second operand.                                                     *)
Overcounted(g) ==
  \E i \in DOMAIN g.ops :
    LET op == g.ops[i]
    IN  \/ \E j, k \in DOMAIN op.ins : j # k /\ op.ins[j] = op.ins[k]
        \/ Weight(g, op) # {} /\ Weight(g, op) # {op.ins[2]}

(* The checks the compiler and the replay run on a plan's slots never find *)
(* anything.  Those on the schedule find nothing in the plan of an         *)
(* ordinary graph, except that a working set that counts too much may be   *)
(* found too large for the budget its plan fits.                           *)
OwnChecksSilent ==
  /\ stage \notin {"allocation_violates_its_invariants", "VTCM_allocation_aliases_live_tensors"}
  /\ stage = "schedule_violates_its_invariants" => ~Ordinary(graph) \/ Overcounted(graph)

(* dma.py, insert_transfers: "every other const is small enough to move    *)
(* once and stay resident for the rest of the plan, so each gets its OWN   *)
(* offset past that region": the bytes of a constant moved once are no     *)
(* chunk's and no other constant's.                                        *)
ConstsKeepTheirOwnRegion ==
  stage = "compiled" =>
    \A i, j \in DOMAIN plan.steps :
      \A a \in plan.steps[i].dma_in : \A b \in plan.steps[j].dma_in \union plan.steps[j].tiling :
        a.tensor \in graph.const /\ b.tensor \in graph.const /\ a.tensor # b.tensor
          => Cells(a) \intersect Cells(b) = {}
=============================================================================
