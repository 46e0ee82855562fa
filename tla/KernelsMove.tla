----------------------------- MODULE KernelsMove -----------------------------
(***************************************************************************)
(* The kernels that only move data: transpose_th_fp16, transpose_hd_fp16   *)
(* and patchify_fp32, the baseline each is measured against and the near   *)
(* misses that must not pass for it.  A shape d is the tuple of the        *)
(* kernel's integer arguments.  A kernel is a number of steps, one per     *)
(* iteration of its outer loops, and the stores of each step; a baseline   *)
(* is the whole output.                                                    *)
(***************************************************************************)
EXTENDS HvxLanes

X(size, p) == Elem("x", size, p)

(* A loop in the order of the flat output or input, one element a time.    *)
CopyOf(n) == [q \in 0 .. n - 1 |-> X(n, q)]

-----------------------------------------------------------------------------
(* transpose_th_fp16: d = <<T, H, D>>, x[T, H, D] to y[H, T, D]; a step is *)
(* one (h, t), t innermost, and moves a run of D elements.                 *)
ThSize(d) == d[1] * d[2] * d[3]

ThBaseline(d) ==
  LET T == d[1]   H == d[2]   D == d[3]
  IN  [q \in 0 .. ThSize(d) - 1 |->
         LET h == q \div (T * D)   t == (q \div D) % T
         IN  X(ThSize(d), (t * H + h) * D + (q % D))]

transpose_th_fp16(d, s) ==
  LET T == d[1]   H == d[2]   D == d[3]
      h == s \div T   t == s % T
      src == (t * H + h) * D
      lane(v, l) == Vmem("x", ThSize(d), src, v, LANES_FP16)[l]
      elem(i) == X(ThSize(d), src + i)
  IN  AlignedRun((h * T + t) * D, D, LANES_FP16, lane, elem)

th_swapped_stride(d, s) ==
  LET T == d[1]   H == d[2]   D == d[3]
      h == s \div T   t == s % T
      dst == (h * H + t) * D
  IN  [q \in dst .. dst + D - 1 |-> X(ThSize(d), (t * H + h) * D + (q - dst))]

-----------------------------------------------------------------------------
(* transpose_hd_fp16: d = <<B, T, D>>, x[B, T, D] to y[B, D, T]; a step is *)
(* one (b, d): a gather over t, stored unaligned a vector at a time.       *)
HdSize(d) == d[1] * d[2] * d[3]

HdBaseline(d) ==
  LET T == d[2]   D == d[3]
  IN  [q \in 0 .. HdSize(d) - 1 |->
         LET b == q \div (D * T)   j == (q \div T) % D
         IN  X(HdSize(d), (b * T + (q % T)) * D + j)]

transpose_hd_fp16(d, s) ==
  LET T == d[2]   D == d[3]
      b == s \div D   j == s % D
      col(t) == X(HdSize(d), b * T * D + j + t * D)
      lane(v, l) == col(v * LANES_FP16 + l)
  IN  UnalignedRun(b * D * T + j * T, T, LANES_FP16, lane, col)

(* A step of the first near miss is one (b, t), of the second one b.       *)
hd_swapped_stride(d, s) ==
  LET T == d[2]   D == d[3]
      b == s \div T   t == s % T
  IN  [q \in {(b * D + j) * D + t : j \in 0 .. D - 1} |->
         X(HdSize(d), (b * T + t) * D + ((q - t) \div D - b * D))]

hd_wrong_batch_stride(d, b) ==
  LET B == d[1]   T == d[2]   D == d[3]
  IN  [q \in {k * B + b : k \in 0 .. T * D - 1} |->
         X(HdSize(d), b * T * D + q \div B)]

-----------------------------------------------------------------------------
(* patchify_fp32: d = <<C, T, H, W, patch, merge, grid_h, grid_w>>,        *)
(* img[C, T, H, W] to one row of C*T*patch*patch features for each patch,  *)
(* the patches of a merge block together.                                  *)
PatchSize(d) == d[7] * d[8] * d[1] * d[2] * d[5] * d[5]
ImageSize(d) == d[1] * d[2] * d[3] * d[4]

token(d, gh, gw) ==
  LET merge == d[6]   Bw == d[8] \div merge
  IN  ((((gh \div merge) * Bw + (gw \div merge)) * merge + (gh % merge)) * merge)
      + (gw % merge)

(* The row and column of the grid whose patch is number k.                 *)
PatchAt(d, k) ==
  LET merge == d[6]   Bw == d[8] \div merge   block == k \div (merge * merge)
  IN  << (block \div Bw) * merge + ((k \div merge) % merge),
         (block % Bw) * merge + (k % merge) >>

PatchifyBaseline(d) ==
  LET C == d[1]   T == d[2]   H == d[3]   W == d[4]   patch == d[5]
      cols == C * T * patch * patch
  IN  [q \in 0 .. PatchSize(d) - 1 |->
         LET g == PatchAt(d, q \div cols)
             f == q % cols
             ct == f \div (patch * patch)
             h == g[1] * patch + ((f \div patch) % patch)
         IN  X(ImageSize(d), (ct * H + h) * W + g[2] * patch + (f % patch))]

(* A step is one (c, t, h): the image row is staged in rowbuf, vector by   *)
(* vector, and dealt out to the patches it crosses.  chan is the channel   *)
(* plane read, number the patch's place, feat the place of (ph, pw).       *)
PatchifyRow(d, s, chan(_, _), number(_, _), feat(_, _), stage(_, _)) ==
  LET T == d[2]   H == d[3]   W == d[4]   patch == d[5]
      cols == d[1] * T * patch * patch
      c == s \div (T * H)   t == (s \div H) % T   h == s % H
      src == (chan(c, t) * H + h) * W
      at(gw, pw) == number(h \div patch, gw) * cols
                    + (c * T + t) * patch * patch + feat(h % patch, pw)
      cells == {<<gw, pw>> : gw \in 0 .. d[8] - 1, pw \in 0 .. patch - 1}
      written == [q \in {at(g[1], g[2]) : g \in cells} |->
                    CHOOSE g \in cells : at(g[1], g[2]) = q]
  IN  [q \in DOMAIN written |->
         stage(src, written[q][1] * patch + written[q][2])]

patchify_fp32(d, s) ==
  LET W == d[4]
      nvec == W \div LANES_FP32
      rowbuf(src, w) ==
        IF w < nvec * LANES_FP32
        THEN Vmem("x", ImageSize(d), src, w \div LANES_FP32, LANES_FP32)[w % LANES_FP32]
        ELSE X(ImageSize(d), src + w)
  IN  PatchifyRow(d, s, LAMBDA c, t : c * d[2] + t, LAMBDA gh, gw : token(d, gh, gw),
                  LAMBDA ph, pw : ph * d[5] + pw, rowbuf)

channel_temporal_swap(d, s) ==
  PatchifyRow(d, s, LAMBDA c, t : t * d[1] + c, LAMBDA gh, gw : token(d, gh, gw),
              LAMBDA ph, pw : ph * d[5] + pw, LAMBDA src, w : X(ImageSize(d), src + w))

merge_ignored(d, s) ==
  PatchifyRow(d, s, LAMBDA c, t : c * d[2] + t, LAMBDA gh, gw : gh * d[8] + gw,
              LAMBDA ph, pw : ph * d[5] + pw, LAMBDA src, w : X(ImageSize(d), src + w))

patch_interior_swap(d, s) ==
  PatchifyRow(d, s, LAMBDA c, t : c * d[2] + t, LAMBDA gh, gw : token(d, gh, gw),
              LAMBDA ph, pw : pw * d[5] + ph, LAMBDA src, w : X(ImageSize(d), src + w))

=============================================================================
