---------------------------- MODULE KernelsReduce ----------------------------
(***************************************************************************)
(* The kernels that reduce a row before they compute it: softmax_fp16,     *)
(* layernorm_fp16 and rmsnorm_fp16, with baselines and near misses as in   *)
(* KernelsMove.  d = <<R, C>>; a step is one row.  What a row is reduced   *)
(* to is <<op, r * C>>, the reduction op of the row that starts there.     *)
(***************************************************************************)
EXTENDS HvxLanes

RowSize(d) == d[1] * d[2]
RowX(d, r, c) == Elem("x", RowSize(d), r * d[2] + c)
RowVector(d, r, i) == Vmem("x", RowSize(d), r * d[2], i, LANES_FP16)

Whole(d) == (d[2] \div LANES_FP16) * LANES_FP16   \* columns in whole vectors

(* Row by row, one element a time. *)
RowsOf(d, value(_, _)) ==
  [q \in 0 .. RowSize(d) - 1 |-> value(q \div d[2], q % d[2])]
RowOf(d, r, value(_, _)) ==
  [q \in r * d[2] .. (r + 1) * d[2] - 1 |-> value(r, q - r * d[2])]

(* The values of f over S, as often as they occur. *)
BagOf(S, f(_)) ==
  LET values == {f(j) : j \in S}
  IN  [e \in values |-> Cardinality({j \in S : f(j) = e})]

TailBag(d, r) == BagOf(Whole(d) .. d[2] - 1, LAMBDA c : RowX(d, r, c))

-----------------------------------------------------------------------------
(* softmax_fp16: exp(x - max) over its sum.  Dividing by the sum and       *)
(* multiplying by its inverse are the same term.                           *)
SOFTMAX_SCRATCH_CAP == 1024

Softmax(x, m, s) == <<"softmax", x, m, s>>

SoftmaxBaseline(d) ==
  RowsOf(d, LAMBDA r, c : Softmax(RowX(d, r, c), <<"max", r * d[2]>>, <<"sum", r * d[2]>>))

softmax_row_scalar(d, r) ==
  RowOf(d, r, LAMBDA i, c : Softmax(RowX(d, i, c), <<"max", i * d[2]>>, <<"sum", i * d[2]>>))

(* Both passes accumulate the two halves of every vector lane by lane,     *)
(* reduce the lanes, read lane 0 and take in the rest one by one; with no  *)
(* vector the maximum starts from the row's first element.                 *)
softmax_row(d, r) ==
  LET C == d[2]
      nvec16 == C \div LANES_FP16
      acc == [l \in 0 .. LANES_FP32 - 1 |->
                BagOf((0 .. nvec16 - 1) \X {1, 2},
                      LAMBDA j : WidenOrdered(RowVector(d, r, j[1]))[j[2]][l])]
      seen == (IF nvec16 > 0 THEN ReduceSumF32(acc)[0] ELSE EmptyBag) (+) TailBag(d, r)
      m == Reduced("max", [e \in DOMAIN seen |-> 1], "x", r * C, C)
      s == Reduced("sum", seen, "x", r * C, C)
      half(i, h) == LET v == WidenOrdered(RowVector(d, r, i))[h]
                    IN  [l \in DOMAIN v |-> Softmax(v[l], m, s)]
      lane(i, l) == NarrowOrdered(half(i, 1), half(i, 2))[l]
      elem(c) == Softmax(RowX(d, r, c), m, s)
  IN  AlignedRun(r * C, C, LANES_FP16, lane, elem)

softmax_fp16(d, r) ==
  IF d[2] > SOFTMAX_SCRATCH_CAP THEN softmax_row_scalar(d, r) ELSE softmax_row(d, r)

no_max_subtraction(d, r) == Flawed("no max", softmax_row_scalar(d, r))
sum_fp16(d, r) == Flawed("fp16 sum", softmax_row_scalar(d, r))

(* A step of this near miss is one column, reduced over the rows. *)
wrong_axis(d, c) ==
  [q \in {r * d[2] + c : r \in 0 .. d[1] - 1} |->
     Softmax(Elem("x", RowSize(d), q), <<"column max", c>>, <<"column sum", c>>)]

-----------------------------------------------------------------------------
(* layernorm_fp16: mean and variance in a scalar loop over the row, then   *)
(* (x - mean) * inv * w + b by vectors, w and b in fp32.                   *)
LayerNorm(d, r, x, w, b) == <<"layernorm", x, <<"mean", r * d[2]>>, w, b>>

Affine(name, d, c) == Elem(name, d[2], c)

LayerNormElem(d, r, c) ==
  LayerNorm(d, r, RowX(d, r, c), Affine("w", d, c), Affine("b", d, c))

LayerNormBaseline(d) == RowsOf(d, LAMBDA r, c : LayerNormElem(d, r, c))

(* The vector part, for a way of widening a vector of the row. *)
LayerNormRow(d, r, widen(_)) ==
  LET out(i, h) ==
        LET part == widen(RowVector(d, r, i))[h]
            w == Vmem("w", d[2], 0, 2 * i + h - 1, LANES_FP32)
            b == Vmem("b", d[2], 0, 2 * i + h - 1, LANES_FP32)
        IN  [l \in DOMAIN part |-> LayerNorm(d, r, part[l], w[l], b[l])]
      lane(i, l) == NarrowOrdered(out(i, 1), out(i, 2))[l]
  IN  AlignedRun(r * d[2], d[2], LANES_FP16, lane, LAMBDA c : LayerNormElem(d, r, c))

layernorm_fp16(d, r) == LayerNormRow(d, r, WidenOrdered)

unbiased_variance(d, r) ==
  Flawed("unbiased", RowOf(d, r, LAMBDA i, c : LayerNormElem(d, i, c)))

permuted_affine_lanes(d, r) == LayerNormRow(d, r, Q6_Wqf32_vmpy)

-----------------------------------------------------------------------------
(* rmsnorm_fp16: x * w over the root of the mean square.  The sum of       *)
(* squares is lane 0 of the reduced accumulator; only whole blocks of      *)
(* LANES_FP16 columns are read or written.                                 *)
RmsNorm(x, stat, w) == <<"rmsnorm", x, stat, w>>

RmsNormBaseline(d) ==
  RowsOf(d, LAMBDA r, c : RmsNorm(RowX(d, r, c), <<"squares", r * d[2]>>, Affine("w", d, c)))

rmsnorm_fp16(d, r) ==
  LET C == d[2]
      nb == C \div LANES_FP16
      accSq == [l \in 0 .. LANES_FP16 - 1 |->
                  BagOf(0 .. nb - 1, LAMBDA b : RowVector(d, r, b)[l])]
      sumsq == Reduced("squares", hreduce_qf16(accSq)[0], "x", r * C, C)
      lane(b, l) == RmsNorm(RowVector(d, r, b)[l], sumsq,
                            Vmem("w", C, 0, b, LANES_FP16)[l])
  IN  StoresFrom(AlignDown(r * C, LANES_FP16), r * C, nb * LANES_FP16, LANES_FP16,
                 lane, LAMBDA c : <<"poison">>)

no_eps(d, r) ==
  Flawed("no eps", RowOf(d, r, LAMBDA i, c :
    RmsNorm(RowX(d, i, c), <<"squares", i * d[2]>>, Affine("w", d, c))))

mean_not_rms(d, r) ==
  RowOf(d, r, LAMBDA i, c : RmsNorm(RowX(d, i, c), <<"total", i * d[2]>>, Affine("w", d, c)))

=============================================================================
