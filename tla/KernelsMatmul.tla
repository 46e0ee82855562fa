---------------------------- MODULE KernelsMatmul ----------------------------
(***************************************************************************)
(* The two matrix products: matmul_fp16 and matmul_epilogue_fp16 (4-bit    *)
(* weights, bias, activation), with baselines and near misses as in        *)
(* KernelsMove.  A product is the sequence of its factor pairs over k, in  *)
(* the order they are accumulated.                                         *)
(***************************************************************************)
EXTENDS HvxLanes

Dot(K, factors(_)) == <<"dot", [k \in 0 .. K - 1 |-> factors(k)]>>

-----------------------------------------------------------------------------
(* matmul_fp16: d = <<Bn, M, K, N>>; a step is one (b, m), a row of C.     *)
MM_MAX_NVEC64 == 8

MmSize(d) == d[1] * d[2] * d[4]
MmA(d, p) == Elem("A", d[1] * d[2] * d[3], p)
MmB(d, p) == Elem("B", d[1] * d[3] * d[4], p)

(* C[row, n], for the rows of A and the places of B's elements given.      *)
MmElem(d, arow, place(_)) ==
  LET K == d[3] IN Dot(K, LAMBDA k : <<MmA(d, arow * K + k), MmB(d, place(k))>>)

MatmulBaseline(d) ==
  LET M == d[2]   K == d[3]   N == d[4]
  IN  [q \in 0 .. MmSize(d) - 1 |->
         MmElem(d, q \div N, LAMBDA k : ((q \div (M * N)) * K + k) * N + (q % N))]

(* Scalar when the accumulators would not fit; otherwise B's rows are read *)
(* unaligned, a vector of columns at a time, and C's rows stored so.       *)
matmul_fp16(d, s) ==
  LET M == d[2]   K == d[3]   N == d[4]
      b == s \div M
      elem(n) == MmElem(d, s, LAMBDA k : (b * K + k) * N + n)
      brow(k, i) == WidenOrdered(Vmemu("B", d[1] * K * N,
                                       (b * K + k) * N + i * LANES_FP16, LANES_FP16))
      acc(i, h) == [l \in 0 .. LANES_FP32 - 1 |->
                      Dot(K, LAMBDA k : <<MmA(d, s * K + k), brow(k, i)[h][l]>>)]
      lane(i, l) == NarrowOrdered(acc(i, 1), acc(i, 2))[l]
  IN  IF N \div LANES_FP16 > MM_MAX_NVEC64
      THEN [q \in s * N .. (s + 1) * N - 1 |-> elem(q - s * N)]
      ELSE UnalignedRun(s * N, N, LANES_FP16, lane, elem)

mm_fp16_accumulate(d, s) ==
  LET M == d[2]   K == d[3]   N == d[4]
  IN  Flawed("fp16 sum",
        [q \in s * N .. (s + 1) * N - 1 |->
           MmElem(d, s, LAMBDA k : ((s \div M) * K + k) * N + (q - s * N))])

transposed_operand(d, s) ==
  LET M == d[2]   K == d[3]   N == d[4]
  IN  [q \in s * N .. (s + 1) * N - 1 |->
         MmElem(d, s, LAMBDA k : (s \div M) * K * N + (q - s * N) * K + k)]

mm_wrong_batch_stride(d, s) ==
  LET M == d[2]   K == d[3]   N == d[4]
  IN  [q \in s * N .. (s + 1) * N - 1 |->
         MmElem(d, s % M, LAMBDA k : ((s \div M) * K + k) * N + (q - s * N))]

-----------------------------------------------------------------------------
(* matmul_epilogue_fp16: d = <<M, K, N, act>>; a step is one (m, bb), a    *)
(* block of MM_Q4_0_BLOCK output columns.                                  *)
MM_Q4_0_BLOCK == LANES_FP32
HalfBlock == MM_Q4_0_BLOCK \div 2

EpSize(d) == d[1] * d[3]
EpBlocks(d) == d[3] \div MM_Q4_0_BLOCK
EpSteps(d) == IF d[3] % MM_Q4_0_BLOCK = 0 THEN d[1] * EpBlocks(d) ELSE 0

(* mm_build_block: byte j of block blk holds its values j and j + 16.      *)
nibble(blk, j, which) ==
  blk * MM_Q4_0_BLOCK + (IF which = "low" THEN j ELSE j + HalfBlock)

(* A dequantized value: the code of a value, scaled by a block's scale.    *)
mm_dequant_block(scale, blk) ==
  [i \in 0 .. MM_Q4_0_BLOCK - 1 |->
     << "w", scale, IF i < HalfBlock THEN nibble(blk, i, "low")
                    ELSE nibble(blk, i - HalfBlock, "high") >>]

dequant_nibbles_swapped(blk) ==
  [i \in 0 .. MM_Q4_0_BLOCK - 1 |->
     << "w", blk, IF i < HalfBlock THEN nibble(blk, i, "high")
                  ELSE nibble(blk, i - HalfBlock, "low") >>]

mm_act(act, t) ==
  IF act = "none" THEN t ELSE <<act, t>>

EpA(d, m, k) == Elem("a", d[1] * d[2], m * d[2] + k)
Biased(t, b) == <<"add", t, b>>

EpilogueBaseline(d) ==
  LET N == d[3]   nblocks == EpBlocks(d)
      value(q) == LET m == q \div N   n == q % N   bb == n \div MM_Q4_0_BLOCK
                      w(k) == mm_dequant_block(k * nblocks + bb, k * nblocks + bb)
                                [n % MM_Q4_0_BLOCK]
                  IN  mm_act(d[4], Biased(Dot(d[2], LAMBDA k : <<EpA(d, m, k), w(k)>>),
                                          Elem("bias", N, n)))
  IN  [q \in 0 .. EpSize(d) - 1 |->
         IF N % MM_Q4_0_BLOCK = 0 THEN value(q) ELSE <<"poison">>]

(* One block, for a way of dequantizing and an epilogue.  The upper half   *)
(* of the 64 lanes multiplied is zero and stays out of the store.          *)
EpilogueBlock(d, s, dequant(_, _), epilogue(_, _)) ==
  LET N == d[3]   nblocks == EpBlocks(d)
      m == s \div nblocks   bb == s % nblocks
      wbuf(k) == LET w == dequant(k, bb)
                 IN  [l \in 0 .. LANES_FP16 - 1 |->
                        IF l < MM_Q4_0_BLOCK THEN w[l] ELSE <<"zero">>]
      acc == [l \in 0 .. LANES_FP32 - 1 |->
                Dot(d[2], LAMBDA k : <<EpA(d, m, k), WidenOrdered(wbuf(k))[1][l]>>)]
      biasv == Vmemu("bias", N, bb * MM_Q4_0_BLOCK, LANES_FP32)
      r == [l \in 0 .. LANES_FP32 - 1 |-> epilogue(acc[l], biasv[l])]
      zero == [l \in 0 .. LANES_FP32 - 1 |-> <<"zero">>]
  IN  hvx_vec_store_u(m * N + bb * MM_Q4_0_BLOCK, MM_Q4_0_BLOCK, NarrowOrdered(r, zero))

DequantAt(d, k, bb) ==
  LET blk == k * EpBlocks(d) + bb IN mm_dequant_block(blk, blk)

matmul_epilogue_fp16(d, s) ==
  EpilogueBlock(d, s, LAMBDA k, bb : DequantAt(d, k, bb),
                LAMBDA t, b : mm_act(d[4], Biased(t, b)))

bias_after_activation(d, s) ==
  EpilogueBlock(d, s, LAMBDA k, bb : DequantAt(d, k, bb),
                LAMBDA t, b : Biased(mm_act(d[4], t), b))

(* Only blocks with an activation are computed otherwise. *)
gelu_swap(d, s) ==
  LET right == matmul_epilogue_fp16(d, s)
  IN  IF d[4] = "none" THEN right ELSE Flawed("gelu swapped", right)

ep_fp16_accumulation(d, s) == Flawed("fp16 sum", matmul_epilogue_fp16(d, s))

scale_off_by_one_block(d, s) ==
  LET nblocks == EpBlocks(d)
  IN  EpilogueBlock(d, s,
        LAMBDA k, bb : mm_dequant_block(k * nblocks + ((bb - 1 + nblocks) % nblocks),
                                        k * nblocks + bb),
        LAMBDA t, b : mm_act(d[4], Biased(t, b)))

swapped_nibble_order(d, s) ==
  EpilogueBlock(d, s, LAMBDA k, bb : dequant_nibbles_swapped(k * EpBlocks(d) + bb),
                LAMBDA t, b : mm_act(d[4], Biased(t, b)))

=============================================================================
