--------------------------- MODULE KernelHarnesses ---------------------------
(***************************************************************************)
(* What is particular to each kernel's harness and runner: the shapes a    *)
(* harness runs, the near misses it must reject, the inputs it makes up    *)
(* and where it can tell two values apart; and the header a runner reads,  *)
(* the arrays that follow it and the room it has.  The loops that are the  *)
(* same in all of them are the actions of KernelRun.                       *)
(***************************************************************************)
EXTENDS KernelsMove, KernelsMap, KernelsReduce, KernelsMatmul
LOCAL INSTANCE Functions

CONSTANTS
  PF_H, PF_W, PF_PATCH, PF_GRID_H, PF_GRID_W,   \* patchify's image
  MM_B, MM_M, MM_K,                             \* matmul's batch, rows, depth
  T1_M, T2_M, T3_M, EP_K,                       \* the epilogue tests' rows, depth
  RUNNER_MAX_N                                  \* elements a runner has room for

ASSUME SizesAssumption ==
  /\ {PF_H, PF_W, PF_PATCH, PF_GRID_H, PF_GRID_W} \subseteq Nat \ {0}
  /\ {MM_B, MM_M, MM_K, T1_M, T2_M, T3_M, EP_K, RUNNER_MAX_N} \subseteq Nat \ {0}

Harness(kernel, shapes, nearmisses) ==
  [kernel |-> kernel, shapes |-> shapes, nearmisses |-> nearmisses]

-----------------------------------------------------------------------------
(* Each harness main: its shapes in order, a rest beside the whole vectors *)
(* wherever the kernel has a path for one.                                 *)
ThHarness == Harness("transpose_th_fp16", << <<8, 3, 64>>, <<8, 3, 40>> >>,
                     {"swapped_stride", "plain_copy"})

HdHarness == Harness("transpose_hd_fp16", << <<5, 64, 7>>, <<5, 40, 7>> >>,
                     {"plain_copy", "swapped_stride", "wrong_batch_stride"})

PatchifyHarness ==
  Harness("patchify_fp32",
          << <<3, 2, PF_H, PF_W, PF_PATCH, 2, PF_GRID_H, PF_GRID_W>>,
             <<2, 3, 12, 12, 3, 2, 4, 4>> >>,
          {"channel_temporal_swap", "merge_ignored", "patch_interior_swap"})

AddHarness == Harness("add_fp16", << <<4100>> >>, {"drops_the_tail", "integer_add"})

ScaleHarness == Harness("scale_fp16", << <<4100>> >>,
                        {"drops_the_tail", "splats_the_numeric_value"})

CastHarness == Harness("cast_f32_f16", << <<4160>>, <<4133>> >>,
                       {"forgets_the_deal", "reads_one_vector_per_output", "swapped_halves"})

RopeHarness == Harness("rope_2d_fp16", << <<6, 3, 64>> >>,
                       {"adjacent_pairing", "fp16_accumulate", "negated_term",
                        "partial_rotation", "swapped_cos_sin", "table_indexed_by_head"})

SoftmaxHarness == Harness("softmax_fp16", << <<6, 256>> >>,
                          {"wrong_axis", "no_max_subtraction", "sum_fp16"})

LN_C_NARROW == 64

(* Mutant: without the narrow width. *)
LayerNormOneWidth == Harness("layernorm_fp16", << <<4, 768>> >>,
                             {"permuted_affine_lanes", "unbiased_variance"})

LayerNormHarness == Harness("layernorm_fp16", << <<4, 768>>, <<4, LN_C_NARROW>> >>,
                            {"permuted_affine_lanes", "unbiased_variance"})

RmsNormHarness == Harness("rmsnorm_fp16", << <<8, 128>> >>, {"mean_not_rms", "no_eps"})

MatmulHarness ==
  Harness("matmul_fp16", << <<MM_B, MM_M, MM_K, 200>> >>,
          {"transposed_operand", "wrong_batch_stride", "fp16_accumulate"})

EpilogueHarness ==
  Harness("matmul_epilogue_fp16",
          << <<T1_M, EP_K, 128, "none">>, <<T2_M, EP_K, 160, "gelu_tanh">>,
             <<T3_M, EP_K, 96, "gelu_erf">> >>,
          {"bias_after_activation", "fp16_accumulation", "gelu_swap",
           "scale_off_by_one_block", "swapped_nibble_order"})

Suite == {ThHarness, HdHarness, PatchifyHarness, AddHarness, ScaleHarness, CastHarness,
          RopeHarness, SoftmaxHarness, LayerNormHarness, RmsNormHarness, MatmulHarness,
          EpilogueHarness}

-----------------------------------------------------------------------------
(* The inputs, as whole numbers of a unit small enough for them all.       *)
TransposeFill(p) == p % 2048
CastFill(p) == 29 * p - 60000

(* x, and the two tables: two functions of angles that repeat where (t+1)  *)
(* times (i+1) does.  The last token's first pair is set by hand.          *)
RopeCell(d) == (d[1] - 1) * d[2] * d[3]

RopeXFill(d, p) ==
  LET t == p \div (d[2] * d[3])   h == (p \div d[3]) % d[2]   i == p % d[3]
  IN  IF p \in {RopeCell(d), RopeCell(d) + (d[3] \div 2)} THEN 10000
      ELSE 3 * (((t * 7 + h * 13 + i * 3) % 23) - 11)

RopeTableFill(d, name, p) ==
  LET t == p \div d[3]   i == p % d[3]   half == d[3] \div 2
      part == IF i < half THEN "low" ELSE "high"
  IN  IF t = d[1] - 1 /\ i \in {0, half}
      THEN << "set", part, CASE name = "cos" -> 5000
                             [] name = "sin" -> IF i = 0 THEN 5001 ELSE -4999 >>
      ELSE << name, part, (t + 1) * ((i % half) + 1) >>

LayerNormXFill(d, p) ==
  LET c == p % d[2]
  IN  CASE p \div d[2] = 0 -> 20000 + 500 * ((c % 13) - 6)
        [] p \div d[2] = 1 -> 250 * ((c % 17) - 8)
        [] p \div d[2] = 2 -> (c % 7) - 3
        [] OTHER -> 125 * (c % 31)

LayerNormAffineFill(name, c) ==
  IF name = "w" THEN 75 + (c % 23) ELSE 2 * (c % 11) - 50

(* The row and the column of two operands meet in one adversarial element. *)
MM_ADV_B == 1
MM_ADV_M == 5
MM_ADV_N == 7

MatmulFill(d, name, p) ==
  LET M == d[2]   K == d[3]   N == d[4]
  IN  IF name = "A"
      THEN LET b == p \div (M * K)   m == (p \div K) % M   k == p % K
           IN  IF b = MM_ADV_B /\ m = MM_ADV_M THEN (IF k = 0 THEN 2048 ELSE 1)
               ELSE 256 * (((b * 131 + m * 17 + k * 7) % 13) - 6)
      ELSE LET b == p \div (K * N)   k == (p \div N) % K   n == p % N
           IN  IF b = MM_ADV_B /\ n = MM_ADV_N THEN 4
               ELSE ((b * 89 + k * 13 + n * 5) % 15) - 7

(* The three tests of the epilogue, told apart by their activation: the    *)
(* rows of a, the bias, and the values a block of weights is made from.    *)
fill_test1(name, r, c) ==
  CASE name = "a" -> IF r = 0 THEN 100 ELSE 5 * (((r * 7 + c * 3) % 23) - 11)
    [] name = "bias" -> ((c * 5) % 19) - 9

fill_test2(name, r, c) ==
  CASE name = "a" -> 4 * (((r * 11 + c * 5) % 29) - 14)
    [] name = "bias" -> 2 * (((c * 7) % 23) - 11)

fill_test3(name, r, c) ==
  CASE name = "a" -> IF r = 0 THEN 0 ELSE 3 * (((r * 13 + c * 3) % 31) - 15)
    [] name = "bias" -> IF c = 0 THEN -270 ELSE 5 * (((c * 9) % 27) - 13)

EpilogueFill(d, name, p) ==
  LET r == p \div d[2]   c == p % (IF name = "a" THEN d[2] ELSE d[3])
  IN  CASE d[4] = "none" -> fill_test1(name, r, c)
        [] d[4] = "gelu_tanh" -> fill_test2(name, r, c)
        [] d[4] = "gelu_erf" -> fill_test3(name, r, c)

WeightValue(act, k, bb, j) ==
  CASE act = "none" -> ((k * 3 + bb * 7 + j) % 13) - 6
    [] act = "gelu_tanh" -> ((k * 5 + bb * 3 + j * 2) % 17) - 8
    [] act = "gelu_erf" -> ((k * 7 + bb * 5 + j * 3) % 19) - 9

(* A block is scaled by its greatest magnitude, its codes clamped to 4     *)
(* bits; test 1 writes the scale and codes of its first blocks itself.     *)
Magnitude(n) == IF n < 0 THEN -n ELSE n

mm_quantize_block(act, k, bb) ==
  LET vals == [j \in 0 .. MM_Q4_0_BLOCK - 1 |-> WeightValue(act, k, bb, j)]
      amax == CHOOSE m \in {Magnitude(vals[j]) : j \in DOMAIN vals} :
                \A j \in DOMAIN vals : Magnitude(vals[j]) <= m
      code(v) == (17 * amax - 16 * v) \div (2 * amax)
  IN  [scale |-> <<"amax", amax>>,
       codes |-> [j \in DOMAIN vals |-> IF code(vals[j]) > 15 THEN 15 ELSE code(vals[j])]]

mm_build_block(k) ==
  [scale |-> <<"one over", IF k = 0 THEN 1 ELSE 4096>>,
   codes |-> [j \in 0 .. MM_Q4_0_BLOCK - 1 |-> IF j = 0 THEN 9 ELSE (j * 5 + k * 3) % 16]]

WeightBlock(d, blk) ==
  LET k == blk \div EpBlocks(d)   bb == blk % EpBlocks(d)
  IN  IF d[4] = "none" /\ bb = 0 THEN mm_build_block(k)
      ELSE mm_quantize_block(d[4], k, bb)

WeightFill(d, scale, place) ==
  << WeightBlock(d, scale).scale,
     WeightBlock(d, place \div MM_Q4_0_BLOCK).codes[place % MM_Q4_0_BLOCK] >>

-----------------------------------------------------------------------------
(* What is told apart.  Two numbers, rel in thousandths.                   *)
hexlib_close_f16(a, b, rel, abs_tol) ==
  LET diff == Magnitude(a - b)
  IN  \/ diff <= abs_tol
      \/ \E m \in {Magnitude(a), Magnitude(b)} : 1000 * diff <= rel * m

(* A term with its input elements replaced by the values they are given.   *)
(* Terms that still differ are taken to have different values.             *)
LeafValue(k, d, t) ==
  CASE k \in {"transpose_th_fp16", "transpose_hd_fp16"} -> TransposeFill(t[2])
    [] k = "rope_2d_fp16" -> IF t[1] = "x" THEN RopeXFill(d, t[2])
                             ELSE RopeTableFill(d, t[1], t[2])
    [] k = "layernorm_fp16" -> IF t[1] = "x" THEN LayerNormXFill(d, t[2])
                               ELSE LayerNormAffineFill(t[1], t[2])
    [] k = "matmul_epilogue_fp16" -> IF t[1] = "w" THEN WeightFill(d, t[2], t[3])
                                     ELSE EpilogueFill(d, t[1], t[2])
    [] OTHER -> t[2]

FilledBy(k, d, t, inside(_)) ==
  CASE t[1] \in {"x", "a", "b", "w", "bias", "cos", "sin"} -> <<"is", LeafValue(k, d, t)>>
    [] t[1] \in {"add", "sub", "mul", "integer add", "softmax", "layernorm", "rmsnorm",
                 "gelu_tanh", "gelu_erf"} ->
         [i \in DOMAIN t |-> IF i = 1 THEN t[1] ELSE inside(t[i])]
    [] t[1] = "dot" ->
         <<"dot", [j \in DOMAIN t[2] |-> <<inside(t[2][j][1]), inside(t[2][j][2])>>]>>
    [] OTHER -> t

(* At most three operations stand over an element: an activation, the      *)
(* addition of the bias, a product.                                        *)
Filled(k, d, t) ==
  LET element(u) == FilledBy(k, d, u, LAMBDA e : e)
      once(u)    == FilledBy(k, d, u, element)
      twice(u)   == FilledBy(k, d, u, once)
  IN  FilledBy(k, d, t, twice)

MmValue(d, t) ==
  LET product == [j \in DOMAIN t[2] |-> MatmulFill(d, "A", t[2][j][1][2])
                                        * MatmulFill(d, "B", t[2][j][2][2])]
  IN  FoldFunction(+, 0, product)

(* Where a numeric defect is larger than the tolerance: a row or a cell    *)
(* the inputs were made for, or a width small enough.                      *)
Defects == {"unbiased", "no eps", "no max", "fp16 sum", "fp16 products", "gelu swapped"}

LayerNormRel(C) == IF C = LN_C_NARROW THEN 4 ELSE 20

Shows(k, d, defect, q) ==
  CASE defect = "unbiased" -> 1000 > LayerNormRel(d[2]) * 2 * d[2]
    [] defect \in {"no eps", "no max"} -> q \div d[2] = 0
    [] defect = "fp16 products" -> q \in {RopeCell(d), RopeCell(d) + (d[3] \div 2)}
    [] defect = "gelu swapped" -> d[4] = "gelu_erf" /\ q = 0
    [] defect = "fp16 sum" ->
        (CASE k = "softmax_fp16" -> q = d[2]
           [] k = "matmul_fp16" -> q = (MM_ADV_B * d[2] + MM_ADV_M) * d[4] + MM_ADV_N
           [] k = "matmul_epilogue_fp16" -> d[4] = "none" /\ q = 0)

SameValue(k, d, q, t, u) ==
  \/ t = u
  \/ /\ t[1] \in Defects
     /\ t[2] = u /\ ~Shows(k, d, t[1], q)
  \/ /\ k = "cast_f32_f16" /\ t[1] = "x"
     /\ hexlib_close_f16(CastFill(t[2]), CastFill(u[2]), 1, 0)
  \/ /\ k = "matmul_fp16" /\ t[1] = "dot"
     /\ hexlib_close_f16(MmValue(d, t), MmValue(d, u), 10, 4)
  \/ /\ k \notin {"cast_f32_f16", "matmul_fp16"}
     /\ Filled(k, d, t) = Filled(k, d, u)

-----------------------------------------------------------------------------
(* The runners that exist: words in the header and how many of them are    *)
(* dimensions, arrays read after it, and the elements there is room for.   *)
Runner(words, dims, arrays, room) ==
  [words |-> words, dims |-> dims, arrays |-> arrays, room |-> room]

AddRunner   == Runner(1, 1, 2, RUNNER_MAX_N)
ScaleRunner == Runner(2, 1, 1, RUNNER_MAX_N)
CastRunner  == Runner(1, 1, 1, 2 * RUNNER_MAX_N)
ThRunner    == Runner(3, 3, 1, RUNNER_MAX_N)
HdRunner    == Runner(3, 3, 1, RUNNER_MAX_N)

Runners == [add_fp16 |-> AddRunner, scale_fp16 |-> ScaleRunner, cast_f32_f16 |-> CastRunner,
            transpose_th_fp16 |-> ThRunner, transpose_hd_fp16 |-> HdRunner]

=============================================================================
