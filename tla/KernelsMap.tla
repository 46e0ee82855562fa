------------------------------ MODULE KernelsMap ------------------------------
(***************************************************************************)
(* The kernels that compute each output element from a few input elements: *)
(* add_fp16, scale_fp16, cast_f32_f16 and rope_2d_fp16, with baselines and *)
(* near misses as in KernelsMove.  The three flat kernels share a loop: a  *)
(* first step is the loop over whole vectors, the second the scalar rest.  *)
(***************************************************************************)
EXTENDS HvxLanes

FlatSteps == 2

VectorLoop(d, vector(_)) ==
  [q \in 0 .. (d[1] \div LANES_FP16) * LANES_FP16 - 1 |->
     vector(q \div LANES_FP16)[q % LANES_FP16]]

ScalarLoop(d, elem(_)) ==
  [q \in (d[1] \div LANES_FP16) * LANES_FP16 .. d[1] - 1 |-> elem(q)]

FlatStep(d, s, vector(_), elem(_)) ==
  IF s = 0 THEN VectorLoop(d, vector) ELSE ScalarLoop(d, elem)

(* What a kernel without its scalar loop stores. *)
WholeVectorsOnly(d, s, vector(_)) ==
  IF s = 0 THEN VectorLoop(d, vector) ELSE << >>

-----------------------------------------------------------------------------
(* add_fp16: d = <<n>>; both operands are widened to a pair, the halves    *)
(* added, the pair narrowed.                                               *)
AddBaseline(d) ==
  [q \in 0 .. d[1] - 1 |-> <<"add", Elem("a", d[1], q), Elem("b", d[1], q)>>]

add_hf(d, i) ==
  LET ap == Q6_Wqf32_vmpy(Vmem("a", d[1], 0, i, LANES_FP16))
      bp == Q6_Wqf32_vmpy(Vmem("b", d[1], 0, i, LANES_FP16))
  IN  Q6_Vhf_equals_Wqf32(Lanes("add", ap[1], bp[1]), Lanes("add", ap[2], bp[2]))

add_fp16(d, s) ==
  FlatStep(d, s, LAMBDA i : add_hf(d, i),
           LAMBDA q : <<"add", Elem("a", d[1], q), Elem("b", d[1], q)>>)

integer_add(d, s) ==
  FlatStep(d, s,
    LAMBDA i : Lanes("integer add", Vmem("a", d[1], 0, i, LANES_FP16),
                     Vmem("b", d[1], 0, i, LANES_FP16)),
    LAMBDA q : <<"add", Elem("a", d[1], q), Elem("b", d[1], q)>>)

add_drops_the_tail(d, s) == WholeVectorsOnly(d, s, LAMBDA i : add_hf(d, i))

-----------------------------------------------------------------------------
(* scale_fp16: d = <<n>>; the widening multiply by the factor, narrowed.   *)
Scaled(t) == <<"mul", t, <<"factor">> >>

ScaleBaseline(d) == [q \in 0 .. d[1] - 1 |-> Scaled(Elem("x", d[1], q))]

scale_vector(d, i) ==
  LET x == Vmem("x", d[1], 0, i, LANES_FP16)
      p == Q6_Wqf32_vmpy([l \in DOMAIN x |-> Scaled(x[l])])
  IN  Q6_Vhf_equals_Wqf32(p[1], p[2])

scale_fp16(d, s) ==
  FlatStep(d, s, LAMBDA i : scale_vector(d, i),
           LAMBDA q : Scaled(Elem("x", d[1], q)))

splats_the_numeric_value(d, s) ==
  FlatStep(d, s,
    LAMBDA i : [l \in 0 .. LANES_FP16 - 1 |->
                  <<"mul", Elem("x", d[1], i * LANES_FP16 + l), <<"(int) factor">> >>],
    LAMBDA q : Scaled(Elem("x", d[1], q)))

scale_drops_the_tail(d, s) == WholeVectorsOnly(d, s, LAMBDA i : scale_vector(d, i))

-----------------------------------------------------------------------------
(* cast_f32_f16: d = <<n>>; two fp32 vectors make one fp16 vector, whose   *)
(* lanes the narrowing interleaves and the deal puts in order.             *)
CastBaseline(d) == [q \in 0 .. d[1] - 1 |-> Elem("x", d[1], q)]

CastIn(d, i) == Vmem("x", d[1], 0, i, LANES_FP32)
CastTail(d, q) == Elem("x", d[1], q)

cast_f32_f16(d, s) ==
  FlatStep(d, s,
    LAMBDA i : Q6_Vh_vdeal(Q6_Vhf_equals_Wqf32(CastIn(d, 2 * i), CastIn(d, 2 * i + 1))),
    LAMBDA q : CastTail(d, q))

forgets_the_deal(d, s) ==
  FlatStep(d, s,
    LAMBDA i : Q6_Vhf_equals_Wqf32(CastIn(d, 2 * i), CastIn(d, 2 * i + 1)),
    LAMBDA q : CastTail(d, q))

reads_one_vector_per_output(d, s) ==
  FlatStep(d, s, LAMBDA i : Q6_Vhf_equals_Wqf32(CastIn(d, i), CastIn(d, i)),
           LAMBDA q : CastTail(d, q))

swapped_halves(d, s) ==
  FlatStep(d, s,
    LAMBDA i : Q6_Vh_vdeal(Q6_Vhf_equals_Wqf32(CastIn(d, 2 * i + 1), CastIn(d, 2 * i))),
    LAMBDA q : CastTail(d, q))

-----------------------------------------------------------------------------
(* rope_2d_fp16: d = <<T, H, D>>; a step is one (t, h), whose D elements   *)
(* start at s * D and rotate in pairs (i, i + D/2) by the table row of t.  *)
RopeSize(d) == d[1] * d[2] * d[3]
RopeX(d, s, i) == Elem("x", RopeSize(d), s * d[3] + i)
Table(name, d, row, i) == Elem(name, d[1] * d[3], row * d[3] + i)

(* x0 * c - x1 * s and x1 * c + x0 * s. *)
Turned(op, x, c, y, s) == << op, <<"mul", x, c>>, <<"mul", y, s>> >>

(* One head, element by element, for a pairing distance, a table row and   *)
(* the names the two tables are read under; past width nothing is stored.  *)
RopeScalar(d, s, width, half, row, cosine, sine, low) ==
  [q \in s * d[3] .. s * d[3] + width - 1 |->
     LET i == q - s * d[3]
     IN  IF i < half
         THEN Turned(low, RopeX(d, s, i), Table(cosine, d, row, i),
                     RopeX(d, s, i + half), Table(sine, d, row, i))
         ELSE Turned("add", RopeX(d, s, i), Table(cosine, d, row, i),
                     RopeX(d, s, i - half), Table(sine, d, row, i))]

(* The whole head, the two halves of an odd D leaving its last element.    *)
RopeHead(d, s) ==
  RopeScalar(d, s, 2 * (d[3] \div 2), d[3] \div 2, s \div d[2], "cos", "sin", "sub")

RopeBaseline(d) ==
  [q \in 0 .. RopeSize(d) - 1 |->
     IF q % d[3] \in 0 .. 2 * (d[3] \div 2) - 1
     THEN RopeHead(d, q \div d[3])[q] ELSE <<"poison">>]

rope_vector(d, s) ==
  LET D == d[3]   t == s \div d[2]
      table(name, i) == Vmem(name, d[1] * D, t * D, i, LANES_FP32)
      part == WidenOrdered(Vmem("x", RopeSize(d), s * D, 0, LANES_FP16))
      turn(op, x, c, y, sn) == Lanes(op, Lanes("mul", x, c), Lanes("mul", y, sn))
      y == NarrowOrdered(turn("sub", part[1], table("cos", 0), part[2], table("sin", 0)),
                         turn("add", part[2], table("cos", 1), part[1], table("sin", 1)))
  IN  [q \in AlignDown(s * D, D) .. AlignDown(s * D, D) + D - 1 |-> y[q % D]]

rope_2d_fp16(d, s) == IF d[3] = LANES_FP16 THEN rope_vector(d, s) ELSE RopeHead(d, s)

rope_fp16_accumulate(d, s) == Flawed("fp16 products", RopeHead(d, s))

adjacent_pairing(d, s) ==
  LET row == s \div d[2]
      at(op, i, j) == Turned(op, RopeX(d, s, i), Table("cos", d, row, i),
                             RopeX(d, s, j), Table("sin", d, row, i))
  IN  [q \in s * d[3] .. s * d[3] + 2 * (d[3] \div 2) - 1 |->
         LET i == q - s * d[3]
         IN  IF i % 2 = 0 THEN at("sub", i, i + 1) ELSE at("add", i, i - 1)]

negated_term(d, s) ==
  RopeScalar(d, s, 2 * (d[3] \div 2), d[3] \div 2, s \div d[2], "cos", "sin", "add")

partial_rotation(d, s) ==
  LET rotary == d[3] \div 2
  IN  Over(RopeScalar(d, s, 2 * (rotary \div 2), rotary \div 2, s \div d[2],
                      "cos", "sin", "sub"),
           [q \in s * d[3] + rotary .. s * d[3] + d[3] - 1 |-> RopeX(d, s, q - s * d[3])])

swapped_cos_sin(d, s) ==
  RopeScalar(d, s, 2 * (d[3] \div 2), d[3] \div 2, s \div d[2], "sin", "cos", "sub")

table_indexed_by_head(d, s) ==
  RopeScalar(d, s, 2 * (d[3] \div 2), d[3] \div 2, s % d[2], "cos", "sin", "sub")

=============================================================================
