------------------------------ MODULE MCKernels ------------------------------
(***************************************************************************)
(* The harnesses of src/kernels with the shapes their kernel_api.h gives   *)
(* them (a product's inner dimension, the number of heads, rows or batches *)
(* and patchify's image cut down, the widths kept), each with its kernel   *)
(* and with its near misses; shapes no harness runs; and the runners.      *)
(***************************************************************************)
EXTENDS KernelRun

H(kernel, shapes, variants) ==
  {[kernel |-> kernel, variant |-> v, shapes |-> shapes] : v \in variants \union {KERNEL}}

MCHarnesses == UNION {H(h.kernel, h.shapes, h.nearmisses) : h \in Suite}

(* Shapes the kernels accept and no harness runs: a tail beside a vector   *)
(* in one row, no whole vector at all, the scalar paths, unaligned rows of *)
(* the kernels that allow them, and what the kernels refuse.               *)
MCUntried ==
  H("transpose_th_fp16", << <<1, 1, 100>>, <<2, 2, 128>> >>, {})
  \union H("transpose_hd_fp16", << <<2, 100, 3>> >>, {})
  \union H("patchify_fp32", << <<1, 1, 1, 40, 1, 1, 1, 40>> >>, {})
  \union H("rope_2d_fp16", << <<2, 2, 6>>, <<2, 2, 5>>, <<1, 1, 128>> >>, {})
  \union H("softmax_fp16", << <<3, 40>>, <<1, 100>>, <<1, 1030>> >>, {})
  \union H("layernorm_fp16", << <<3, 40>>, <<1, 100>> >>, {})
  \union H("rmsnorm_fp16", << <<3, 64>> >>, {})
  \union H("matmul_fp16", << <<1, 2, 2, 40>>, <<1, 2, 1, 580>> >>, {})
  \union H("matmul_epilogue_fp16", << <<2, 2, 48, "none">>, <<2, 2, 32, "gelu_erf">> >>, {})

MCKernelHarnesses == MCHarnesses \union MCUntried

(* What a runner may find: no file, a cut header, dimensions it refuses,   *)
(* too few elements, as many as it needs, more.                            *)
Input(kernel, dims, payload) ==
  [kernel |-> kernel, exists |-> TRUE, words |-> Runners[kernel].words,
   dims |-> dims, payload |-> payload]
Inputs(kernel, dims, n) ==
  {Input(kernel, dims, p) : p \in {n - 1, n, n + 1}}
  \union {[Input(kernel, dims, n) EXCEPT !.exists = FALSE],
          [Input(kernel, dims, n) EXCEPT !.words = @ - 1]}
MCRunnerInputs ==
  Inputs("add_fp16", <<70>>, 140) \union Inputs("scale_fp16", <<64>>, 64)
  \union Inputs("cast_f32_f16", <<130>>, 130)
  \union Inputs("transpose_th_fp16", <<2, 3, 40>>, 240)
  \union Inputs("transpose_hd_fp16", <<1, 70, 3>>, 210)
  \union {Input("add_fp16", <<0>>, 2), Input("add_fp16", <<70>>, 70),
          Input("scale_fp16", <<RUNNER_MAX_N + 1>>, RUNNER_MAX_N + 1),
          Input("cast_f32_f16", <<2 * RUNNER_MAX_N + 1>>, 2 * RUNNER_MAX_N + 1),
          Input("transpose_th_fp16", <<2, 0, 3>>, 9),
          Input("transpose_hd_fp16", <<1, 101, 3>>, 303), Input("cast_f32_f16", <<1>>, 1)}

(* A row that holds a whole vector and is no whole number of them: the     *)
(* rows after the first do not start on a vector boundary.                 *)
MCWidths == H("transpose_th_fp16", << <<2, 2, 96>> >>, {})
MCNone == {}

=============================================================================
