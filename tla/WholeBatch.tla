---------------------------- MODULE WholeBatch ------------------------------
(***************************************************************************)
(* The other way to run a compiled plan: build_whole_plan_batch packs all  *)
(* of its ops into one batch over one arena (exec/wholeplan.py), and the   *)
(* outputs are read back when the DSP has run the batch.                   *)
(*                                                                         *)
(* A reshape emits no op: its result is given the storage of its operand,  *)
(* and through a chain of reshapes that of the chain's owner.  A byte of   *)
(* the arena holds the name of the owner whose right value it is part of,  *)
(* or Junk.  Feeds are dense arrays, quantised or converted on staging.    *)
(***************************************************************************)
EXTENDS PlanRun

VARIABLES
  pack,      \* [at, nbytes, aliased]: WholePlanBatch.placements, and the mode
  arena      \* WholePlanBatch.payload, then the DSP's buffer

batchVars == <<pack, arena>>
wholeVars == <<vars, batchVars>>

NoPack == [at |-> <<>>, nbytes |-> <<>>, aliased |-> FALSE]
IsReshape(op) == op.kind = "reshape"

-----------------------------------------------------------------------------
(* Storage and forms.                                                      *)

ReshapeOuts(g) == UNION {Writes(g.ops[i]) : i \in {j \in DOMAIN g.ops : IsReshape(g.ops[j])}}

(* reshape_src and storage_owner: whose bytes each tensor is, the reshapes *)
(* followed in plan order.                                                 *)
KeptBy(op, own) ==
  IF IsReshape(op) THEN [own EXCEPT ![op.outs[1]] = own[op.ins[1]]] ELSE own
Owners(g) ==
  LET own[n \in 0 .. Len(g.ops)] ==
        IF n = 0 THEN [t \in g.tensors |-> t] ELSE KeptBy(g.ops[n], own[n - 1])
  IN  own[Len(g.ops)]

(* The dtype and layout the kernel of a kind wants of its k-th operand. *)
Form(kind, k) ==
  IF kind = "matmul_epilogue" /\ k > 1 THEN (IF k = 2 THEN "q4_0" ELSE "fp32") ELSE "fp16"

(* claim_layout, claim_dtype *)
Claims(g, t) ==
  UNION {{Form(op.kind, k) : k \in {j \in DOMAIN op.ins : op.ins[j] = t}}
           \union (IF t \in Writes(op) THEN {"fp16"} ELSE {}) :
             op \in {g.ops[i] : i \in {j \in DOMAIN g.ops : ~IsReshape(g.ops[j])}}}

Declared(g, t) == IF t \in g.q4 THEN "q4_0" ELSE "fp16"
WireForm(g, t) == IF Claims(g, t) = {} THEN Declared(g, t) ELSE CHOOSE f \in Claims(g, t) : TRUE

ElementSize == [q4_0 |-> 1, fp16 |-> 2, fp32 |-> 4]
WireBytes(g, t) ==
  (g.nbytes[t] * ElementSize[WireForm(g, t)] + ElementSize[Declared(g, t)] - 1)
     \div ElementSize[Declared(g, t)]

-----------------------------------------------------------------------------
(* The arena.                                                              *)

IoNames(g) == g.inputs \union g.outputs
ActNames(g) == g.tensors \ (g.const \union IoNames(g) \union ReshapeOuts(g))

(* One place after the other in the order of the names, each rounded up. *)
BumpFrom(g, T, start) ==
  [t \in T |-> start + SumFunction([u \in {s \in T : s < t} |-> AlignUp(WireBytes(g, u))])]
BumpEnd(g, T, start) == start + SumFunction([u \in T |-> AlignUp(WireBytes(g, u))])

SlotAt(p, t) == CHOOSE s \in p.slots : s.tensor = t

ActPlaces(g, p, alias, start) ==
  IF alias THEN [t \in ActNames(g) |-> start + SlotAt(p, t).offset]
  ELSE BumpFrom(g, ActNames(g), start)

ActEnd(g, p, alias, start) ==
  IF alias
  THEN AlignUp(start + Max({0} \union {SlotAt(p, t).offset + WireBytes(g, t) : t \in ActNames(g)}))
  ELSE BumpEnd(g, ActNames(g), start)

(* The constants first, then the activations, then the inputs and outputs. *)
OwnPlaces(g, p, alias) ==
  LET constEnd == BumpEnd(g, g.const, 0)
  IN  [t \in IoNames(g) \union ActNames(g) \union g.const |->
         IF t \in IoNames(g) THEN BumpFrom(g, IoNames(g), ActEnd(g, p, alias, constEnd))[t]
         ELSE IF t \in ActNames(g) THEN ActPlaces(g, p, alias, constEnd)[t]
         ELSE BumpFrom(g, g.const, 0)[t]]

Placements(g, p, alias) ==
  LET own == OwnPlaces(g, p, alias)
      owner == Owners(g)
  IN  [t \in g.tensors |-> own[owner[t]]]

ArenaBytes(g, p, alias) ==
  BumpEnd(g, IoNames(g), ActEnd(g, p, alias, BumpEnd(g, g.const, 0)))

Span(pk, t) == pk.at[t] .. pk.at[t] + pk.nbytes[t] - 1

-----------------------------------------------------------------------------
(* The refusals, in the order of the code.                                 *)

PlannedLife(p, t) == [first_use |-> SlotAt(p, t).first_use, last_use |-> SlotAt(p, t).last_use]
LeastOf(m, n) == IF m < n THEN m ELSE n
MostOf(m, n) == IF m > n THEN m ELSE n

(* Mutant: the lives the allocator was told. *)
LivesAsPlanned(g, p) == [t \in {s.tensor : s \in p.slots} |-> PlannedLife(p, t)]

(* A reshape's operand also lives as long as the result, the reshapes      *)
(* taken in plan order.                                                    *)
LongerBy(op, live) ==
  IF IsReshape(op) /\ {op.ins[1], op.outs[1]} \subseteq DOMAIN live
  THEN [live EXCEPT ![op.ins[1]] =
          [first_use |-> LeastOf(@.first_use, live[op.outs[1]].first_use),
           last_use |-> MostOf(@.last_use, live[op.outs[1]].last_use)]]
  ELSE live
LivesWithReshapes(g, p) ==
  LET live[n \in 0 .. Len(g.ops)] ==
        IF n = 0 THEN [t \in {s.tensor : s \in p.slots} |-> PlannedLife(p, t)]
        ELSE LongerBy(g.ops[n], live[n - 1])
  IN  live[Len(g.ops)]

ShareAddress(g, p, a, b) ==
  /\ SlotAt(p, a).offset < SlotAt(p, b).offset + WireBytes(g, b)
  /\ SlotAt(p, b).offset < SlotAt(p, a).offset + WireBytes(g, a)

(* _refuse_unsafe_aliasing *)
UnsafeAliasing(g, p) ==
  LET live == LivesWithReshapes(g, p)
  IN  \E a, b \in ActNames(g) :
        a # b /\ ShareAddress(g, p, a, b) /\ Overlaps(live[a], live[b])

PackVerdict(g, p, alias) ==
  IF ReshapeOuts(g) \intersect IoNames(g) # {} THEN "a_graph_output_would_be_aliased_away"
  ELSE IF \E t \in g.tensors : Cardinality(Claims(g, t)) > 1 THEN "one_arena_cannot_hold_both"
  ELSE IF \E t \in ActNames(g) : WireForm(g, t) # Declared(g, t) THEN "activation_retyped"
  ELSE IF \E t \in ActNames(g) : ~\E s \in p.slots : s.tensor = t THEN "no_VTCM_slot_in_the_plan"
  ELSE IF alias /\ UnsafeAliasing(g, p) THEN "activation_pairs_share_an_address"
  ELSE IF \E t \in g.tensors : WireBytes(g, t) # WireBytes(g, Owners(g)[t])
  THEN "a_reshape_must_preserve_byte_count"
  ELSE "batch"

-----------------------------------------------------------------------------

(* The plan's ops that are in the batch, and those of them still to run. *)
BatchOps(g) == {i \in DOMAIN g.ops : ~IsReshape(g.ops[i])}
Unrun == {i \in BatchOps(graph) : step <= i}
Holds(t) == LET owner == Owners(graph)[t]
            IN  \A b \in Span(pack, t) : arena[b] = owner

(* build_whole_plan_batch: the constants and the inputs are staged. *)
Pack(alias) ==
  /\ stage = "compiled"
  /\ stage' = PackVerdict(graph, plan, alias)
  /\ IF stage' = "batch"
     THEN LET fed == graph.const \union graph.inputs
          IN  /\ pack' = [at |-> Placements(graph, plan, alias),
                          nbytes |-> [t \in graph.tensors |-> WireBytes(graph, t)],
                          aliased |-> alias]
              /\ arena' = [b \in 0 .. ArenaBytes(graph, plan, alias) - 1 |->
                             IF \E t \in fed : b \in Span(pack', t)
                             THEN CHOOSE t \in fed : b \in Span(pack', t) ELSE Junk]
              /\ step' = 1
     ELSE UNCHANGED <<batchVars, step>>
  /\ UNCHANGED <<allocVars, graph, asked, plan, pending, vtcm, written, ddr, bytes>>

(* The DSP runs the next op of the batch. *)
RunBatchOp ==
  /\ stage = "batch" /\ Unrun # {}
  /\ LET op == graph.ops[Min(Unrun)]
         right == \A t \in Reads(op) : Holds(t)
     IN  arena' = [b \in DOMAIN arena |->
                     IF \E t \in Writes(op) : b \in Span(pack, t)
                     THEN IF right THEN CHOOSE t \in Writes(op) : b \in Span(pack, t)
                          ELSE Junk
                     ELSE arena[b]]
  /\ step' = Min(Unrun) + 1
  /\ UNCHANGED <<allocVars, graph, asked, plan, stage, pending, vtcm, written, ddr, bytes, pack>>

(* The outputs, at their placements. *)
ReadBack ==
  /\ stage = "batch" /\ Unrun = {}
  /\ stage' = "batch_finished"
  /\ ddr' = [t \in graph.outputs |-> IF Holds(t) THEN t ELSE Junk]
  /\ UNCHANGED <<allocVars, graph, asked, plan, step, pending, vtcm, written, bytes, batchVars>>

WholeInit == PlanInit /\ pack = NoPack /\ arena = <<>>

WholeNext ==
  \/ PlanNext /\ UNCHANGED batchVars
  \/ \E alias \in BOOLEAN : Pack(alias)
  \/ RunBatchOp
  \/ ReadBack

WholeSpec == WholeInit /\ [][WholeNext]_wholeVars

-----------------------------------------------------------------------------
(* Properties.                                                             *)

(* A reshape of a reshape: the alias check does not follow it. *)
Chained(g) ==
  \E i, j \in DOMAIN g.ops :
    IsReshape(g.ops[i]) /\ IsReshape(g.ops[j]) /\ g.ops[i].ins[1] = g.ops[j].outs[1]

(* Whichever way the plan is run, op by op in VTCM or as one batch, with   *)
(* or without the plan's own addresses: what is delivered is what the      *)
(* graph computes.  Every output is its own right value, each op having    *)
(* read the right value of each operand.                                   *)
OutputsRight ==
  /\ stage = "finished" => \A t \in graph.outputs : t \in DOMAIN ddr /\ ddr[t] = t
  /\ stage = "batch_finished" /\ ~(pack.aliased /\ Chained(graph)) =>
       \A t \in graph.outputs : ddr[t] = t

(* From the first op of an activation's storage to the last that touches   *)
(* any tensor kept in it.                                                  *)
StorageLife(t) ==
  LET kept == {u \in graph.tensors : Owners(graph)[u] = t}
  IN  [first_use |-> Min({SlotAt(plan, u).first_use : u \in kept}),
       last_use |-> Max({SlotAt(plan, u).last_use : u \in kept})]

(* wholeplan.py, _refuse_unsafe_aliasing: "every pair of activations       *)
(* sharing an address is disjoint in time ONCE reshape aliasing is         *)
(* accounted for".                                                         *)
AliasedStorageApart ==
  stage = "batch" /\ pack.aliased =>
    \A a, b \in ActNames(graph) :
      a # b /\ Span(pack, a) \intersect Span(pack, b) # {}
        => ~Overlaps(StorageLife(a), StorageLife(b))
=============================================================================
