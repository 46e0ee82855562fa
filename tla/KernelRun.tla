------------------------------ MODULE KernelRun ------------------------------
(***************************************************************************)
(* A kernel binary on the simulator.  Linked with its harness it is run on *)
(* the harness's shapes and judged against the baseline; the near misses   *)
(* are linked the same way, and must be judged wrong.  Linked with its     *)
(* runner it reads hexlib_in.bin and leaves hexlib_out.bin.  The output    *)
(* array is watched store by store; memory past its end is part of mem     *)
(* once something is stored there.                                         *)
(***************************************************************************)
EXTENDS KernelHarnesses

CONSTANTS
  Harnesses,      \* [kernel |-> name, variant |-> name, shapes |-> sequence]
  RunnerInputs    \* what hexlib_in.bin may be: [kernel |-> name, exists |-> BOOLEAN,
                  \*  words |-> of the header it holds, dims |-> tuple,
                  \*  payload |-> elements that follow the header]

(* A header word may be any number: the runner is what refuses it.         *)
ASSUME RunAssumption ==
  /\ \A j \in Harnesses :
       j.shapes \in Seq({j.shapes[n] : n \in DOMAIN j.shapes}) \ {<< >>}
  /\ \A i \in RunnerInputs :
       /\ i.kernel \in DOMAIN Runners
       /\ i.words \in Nat /\ i.payload \in Nat
       /\ i.dims \in [1 .. Runners[i.kernel].dims -> Int]

VARIABLES
  job,     \* the binary and what it is given
  at,      \* "start", "kernel", "verdict" or "exited"
  shape,   \* the shape being run, counting from 1
  step,    \* steps of the kernel done on this shape
  mem,     \* the output array, and whatever is stored around it
  ref,     \* REF: the baseline's output on this shape; an element it leaves
           \*  alone is the poison both arrays are taken to start from
  wrong,   \* n_wrong: the elements the harness found wrong, over the shapes
  out      \* [code, file]: what a runner leaves

vars == <<job, at, shape, step, mem, ref, wrong, out>>

KERNEL == "kernel"   \* the variant that is kernel.c
Jobs == {[kernel |-> i.kernel, variant |-> KERNEL, shapes |-> <<i.dims>>,
          runner |-> TRUE, input |-> i] : i \in RunnerInputs}
        \union {[kernel |-> h.kernel, variant |-> h.variant, shapes |-> h.shapes,
                 runner |-> FALSE, input |-> <<"harness">>] : h \in Harnesses}

-----------------------------------------------------------------------------
(* Each binary: the size of its output, the steps it takes and the stores  *)
(* of each step, and what its baseline computes.                           *)
Size(k, d) ==
  CASE k = "transpose_th_fp16" -> ThSize(d)
    [] k = "transpose_hd_fp16" -> HdSize(d)
    [] k = "patchify_fp32" -> PatchSize(d)
    [] k \in {"add_fp16", "scale_fp16", "cast_f32_f16"} -> d[1]
    [] k = "rope_2d_fp16" -> RopeSize(d)
    [] k \in {"softmax_fp16", "layernorm_fp16", "rmsnorm_fp16"} -> RowSize(d)
    [] k = "matmul_fp16" -> MmSize(d)
    [] k = "matmul_epilogue_fp16" -> EpSize(d)

Baseline(k, d) ==
  CASE k = "transpose_th_fp16" -> ThBaseline(d)
    [] k = "transpose_hd_fp16" -> HdBaseline(d)
    [] k = "patchify_fp32" -> PatchifyBaseline(d)
    [] k = "add_fp16" -> AddBaseline(d)
    [] k = "scale_fp16" -> ScaleBaseline(d)
    [] k = "cast_f32_f16" -> CastBaseline(d)
    [] k = "rope_2d_fp16" -> RopeBaseline(d)
    [] k = "softmax_fp16" -> SoftmaxBaseline(d)
    [] k = "layernorm_fp16" -> LayerNormBaseline(d)
    [] k = "rmsnorm_fp16" -> RmsNormBaseline(d)
    [] k = "matmul_fp16" -> MatmulBaseline(d)
    [] k = "matmul_epilogue_fp16" -> EpilogueBaseline(d)

PATCHIFY_ROWBUF_MAX == 256

Steps(k, v, d) ==
  CASE v = "plain_copy" -> 1
    [] k = "transpose_th_fp16" -> d[1] * d[2]
    [] k = "transpose_hd_fp16" -> (CASE v = "swapped_stride" -> d[1] * d[2]
                                     [] v = "wrong_batch_stride" -> d[1]
                                     [] v = KERNEL -> d[1] * d[3])
    [] k = "patchify_fp32" -> IF d[4] > PATCHIFY_ROWBUF_MAX THEN 0
                              ELSE d[1] * d[2] * d[3]
    [] k \in {"add_fp16", "scale_fp16", "cast_f32_f16"} -> FlatSteps
    [] k = "rope_2d_fp16" -> d[1] * d[2]
    [] k \in {"softmax_fp16", "layernorm_fp16", "rmsnorm_fp16"} ->
         IF v = "wrong_axis" THEN d[2] ELSE d[1]
    [] k = "matmul_fp16" -> d[1] * d[2]
    [] k = "matmul_epilogue_fp16" -> EpSteps(d)

Stores(k, v, d, s) ==
  CASE v = "plain_copy" -> CopyOf(Size(k, d))
    [] k = "transpose_th_fp16" -> IF v = KERNEL THEN transpose_th_fp16(d, s)
                                  ELSE th_swapped_stride(d, s)
    [] k = "transpose_hd_fp16" ->
        (CASE v = KERNEL -> transpose_hd_fp16(d, s)
           [] v = "swapped_stride" -> hd_swapped_stride(d, s)
           [] v = "wrong_batch_stride" -> hd_wrong_batch_stride(d, s))
    [] k = "patchify_fp32" ->
        (CASE v = KERNEL -> patchify_fp32(d, s)
           [] v = "channel_temporal_swap" -> channel_temporal_swap(d, s)
           [] v = "merge_ignored" -> merge_ignored(d, s)
           [] v = "patch_interior_swap" -> patch_interior_swap(d, s))
    [] k = "add_fp16" ->
        (CASE v = KERNEL -> add_fp16(d, s)
           [] v = "drops_the_tail" -> add_drops_the_tail(d, s)
           [] v = "integer_add" -> integer_add(d, s))
    [] k = "scale_fp16" ->
        (CASE v = KERNEL -> scale_fp16(d, s)
           [] v = "drops_the_tail" -> scale_drops_the_tail(d, s)
           [] v = "splats_the_numeric_value" -> splats_the_numeric_value(d, s))
    [] k = "cast_f32_f16" ->
        (CASE v = KERNEL -> cast_f32_f16(d, s)
           [] v = "forgets_the_deal" -> forgets_the_deal(d, s)
           [] v = "reads_one_vector_per_output" -> reads_one_vector_per_output(d, s)
           [] v = "swapped_halves" -> swapped_halves(d, s))
    [] k = "rope_2d_fp16" ->
        (CASE v = KERNEL -> rope_2d_fp16(d, s)
           [] v = "adjacent_pairing" -> adjacent_pairing(d, s)
           [] v = "fp16_accumulate" -> rope_fp16_accumulate(d, s)
           [] v = "negated_term" -> negated_term(d, s)
           [] v = "partial_rotation" -> partial_rotation(d, s)
           [] v = "swapped_cos_sin" -> swapped_cos_sin(d, s)
           [] v = "table_indexed_by_head" -> table_indexed_by_head(d, s))
    [] k = "softmax_fp16" ->
        (CASE v = KERNEL -> softmax_fp16(d, s)
           [] v = "wrong_axis" -> wrong_axis(d, s)
           [] v = "no_max_subtraction" -> no_max_subtraction(d, s)
           [] v = "sum_fp16" -> sum_fp16(d, s))
    [] k = "layernorm_fp16" ->
        (CASE v = KERNEL -> layernorm_fp16(d, s)
           [] v = "permuted_affine_lanes" -> permuted_affine_lanes(d, s)
           [] v = "unbiased_variance" -> unbiased_variance(d, s))
    [] k = "rmsnorm_fp16" ->
        (CASE v = KERNEL -> rmsnorm_fp16(d, s)
           [] v = "mean_not_rms" -> mean_not_rms(d, s)
           [] v = "no_eps" -> no_eps(d, s))
    [] k = "matmul_fp16" ->
        (CASE v = KERNEL -> matmul_fp16(d, s)
           [] v = "fp16_accumulate" -> mm_fp16_accumulate(d, s)
           [] v = "transposed_operand" -> transposed_operand(d, s)
           [] v = "wrong_batch_stride" -> mm_wrong_batch_stride(d, s))
    [] k = "matmul_epilogue_fp16" ->
        (CASE v = KERNEL -> matmul_epilogue_fp16(d, s)
           [] v = "bias_after_activation" -> bias_after_activation(d, s)
           [] v = "fp16_accumulation" -> ep_fp16_accumulation(d, s)
           [] v = "gelu_swap" -> gelu_swap(d, s)
           [] v = "scale_off_by_one_block" -> scale_off_by_one_block(d, s)
           [] v = "swapped_nibble_order" -> swapped_nibble_order(d, s))

-----------------------------------------------------------------------------
Dims == job.shapes[shape]
Elements == 0 .. Size(job.kernel, Dims) - 1
KernelDone == at = "kernel" /\ step = Steps(job.kernel, job.variant, Dims)

(* The output array alone. *)
Output == [q \in Elements |-> mem[q]]

-----------------------------------------------------------------------------
NoFile == <<"no file">>

Init ==
  /\ job \in Jobs
  /\ at = "start" /\ shape = 1 /\ step = 0
  /\ mem = << >> /\ ref = << >>
  /\ wrong = 0
  /\ out = [code |-> -1, file |-> NoFile]

(* harness main, check, fill: one shape, its output poisoned.              *)
HarnessShape ==
  /\ at = "start" /\ ~job.runner
  /\ mem' = [q \in Elements |-> <<"poison">>]
  /\ ref' = [q \in Elements |-> Baseline(job.kernel, Dims)[q]]
  /\ step' = 0 /\ at' = "kernel"
  /\ UNCHANGED <<job, shape, wrong, out>>

(* One iteration of the kernel's outer loops.                              *)
KernelStep ==
  /\ at = "kernel" /\ ~KernelDone
  /\ mem' = Over(Stores(job.kernel, job.variant, Dims, step), mem)
  /\ step' = step + 1
  /\ UNCHANGED <<job, at, shape, ref, wrong, out>>

(* compare, and hexlib_report after the last shape.                        *)
HarnessCompare ==
  /\ KernelDone /\ ~job.runner
  /\ wrong' = wrong + Cardinality({q \in Elements :
                         ~SameValue(job.kernel, Dims, q, mem[q], ref[q])})
  /\ IF shape < Len(job.shapes) THEN shape' = shape + 1 /\ at' = "start"
                                ELSE shape' = shape /\ at' = "verdict"
  /\ UNCHANGED <<job, step, mem, ref, out>>

(* Mutant: one array is expected of a runner that reads two. *)
RefusalOneArray(i) ==
  LET n == Size(i.kernel, i.dims)
      runner == Runners[i.kernel]
  IN  IF ~i.exists THEN 2
      ELSE IF i.words < runner.words THEN 3
      ELSE IF (\E c \in DOMAIN i.dims : i.dims[c] <= 0) \/ n > runner.room THEN 4
      ELSE IF i.payload < n THEN 5
      ELSE 0

(* runner main up to the kernel: the refusals, in order, and the arrays.   *)
Refusal(i) ==
  LET n == Size(i.kernel, i.dims)
      runner == Runners[i.kernel]
  IN  IF ~i.exists THEN 2
      ELSE IF i.words < runner.words THEN 3
      ELSE IF (\E c \in DOMAIN i.dims : i.dims[c] <= 0) \/ n > runner.room THEN 4
      ELSE IF i.payload < runner.arrays * n THEN 5
      ELSE 0

RunnerLoad ==
  /\ at = "start" /\ job.runner
  /\ IF Refusal(job.input) # 0
     THEN /\ out' = [out EXCEPT !.code = Refusal(job.input)]
          /\ at' = "exited" /\ UNCHANGED <<mem, ref>>
     ELSE /\ mem' = [q \in Elements |-> <<"zero">>]
          /\ ref' = [q \in Elements |-> Baseline(job.kernel, Dims)[q]]
          /\ at' = "kernel" /\ UNCHANGED out
  /\ UNCHANGED <<job, shape, step, wrong>>

(* The rest of it: the output cannot be opened, is cut short, or is whole. *)
RunnerStore ==
  /\ KernelDone /\ job.runner
  /\ \/ out' = [out EXCEPT !.code = 6]
     \/ out' = [code |-> 7, file |-> [q \in 0 .. Size(job.kernel, Dims) - 2 |-> mem[q]]]
     \/ out' = [code |-> 0, file |-> Output]
  /\ at' = "exited"
  /\ UNCHANGED <<job, shape, step, mem, ref, wrong>>

Next == HarnessShape \/ KernelStep \/ HarnessCompare \/ RunnerLoad \/ RunnerStore

Spec == Init /\ [][Next]_vars

-----------------------------------------------------------------------------
(* A kernel that has run has computed what its baseline computes, element  *)
(* by element, on every shape it is run on: the vector loops and the       *)
(* scalar loops that finish them meet, and no lane is out of place.        *)
KernelMeetsBaseline ==
  KernelDone /\ job.variant = KERNEL => Output = ref

(* No kernel stores outside its output, not even for a moment: a vector    *)
(* store would take its neighbour's bytes with it.                         *)
StoresStayInside ==
  at = "kernel" /\ job.variant = KERNEL => DOMAIN mem = Elements

(* The harness's shapes tell the kernel from every near miss: the verdict  *)
(* is correct exactly when the binary holds the kernel.                    *)
NearMissesRejected ==
  at = "verdict" => (wrong = 0 <=> job.variant = KERNEL)

(* A runner that says ok leaves the whole result of a whole input; one     *)
(* that refused its input has not run the kernel and leaves no output.     *)
RunnerHonest ==
  at = "exited" =>
    /\ out.code = 0 => /\ job.input.exists
                       /\ job.input.words >= Runners[job.kernel].words
                       /\ job.input.payload >= Runners[job.kernel].arrays
                                               * Size(job.kernel, Dims)
                       /\ out.file = Baseline(job.kernel, Dims)
    /\ out.code \in 2 .. 6 => out.file = NoFile
    /\ out.code \in 2 .. 5 => step = 0

=============================================================================
