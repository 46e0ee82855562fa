------------------------------ MODULE HvxLanes ------------------------------
(***************************************************************************)
(* HVX vectors as the kernels use them: where each lane of a vector comes  *)
(* from, and which elements of memory an access touches.  A vector is a    *)
(* function from lanes.  A value is a term: <<name, p>> is element p of    *)
(* the input array name, <<op, t, u>> an operation on two terms; two ways  *)
(* of computing an element agree when they combine the same elements in    *)
(* the same way.  Rounding is left out.                                    *)
(*                                                                         *)
(* An address is an index into an array, and every array a kernel is given *)
(* starts on a vector boundary (HEXLIB_ALIGN).                             *)
(***************************************************************************)
EXTENDS Integers, Sequences, FiniteSets, Bags, TLC

CONSTANT LANES_FP16   \* 16-bit elements per vector

ASSUME LanesAssumption == LANES_FP16 \in {4, 8, 16, 32, 64}

LANES_FP32 == LANES_FP16 \div 2

-----------------------------------------------------------------------------
(* Memory.  An access through HVX_Vector * drops the low bits of the       *)
(* address; one through HVX_UVector * does not.                            *)
AlignDown(p, width) == p - (p % width)

(* Element p of an input of the given size; past its end it is nobody's.   *)
Elem(name, size, p) ==
  IF p \in 0 .. size - 1 THEN <<name, p>> ELSE <<"outside">>

(* Vector i of the array that starts at p, read through an aligned pointer *)
(* and through an unaligned one.                                           *)
Vmem(name, size, p, i, width) ==
  [l \in 0 .. width - 1 |-> Elem(name, size, AlignDown(p, width) + i * width + l)]
Vmemu(name, size, p, width) == [l \in 0 .. width - 1 |-> Elem(name, size, p + l)]

(* Stores made over what was stored before. *)
Over(later, earlier) ==
  [q \in DOMAIN later \union DOMAIN earlier |->
     IF q \in DOMAIN later THEN later[q] ELSE earlier[q]]

(* The stores of a run of n elements from dst on: whole vectors through an *)
(* aligned pointer, lane(i, l) being lane l of vector i, and then a scalar *)
(* loop over what is left.  The same with unaligned vector stores.         *)
StoresFrom(base, dst, n, width, lane(_, _), elem(_)) ==
  LET covered == (n \div width) * width
  IN  Over([q \in dst + covered .. dst + n - 1 |-> elem(q - dst)],
           [q \in base .. base + covered - 1 |->
              lane((q - base) \div width, (q - base) % width)])

AlignedRun(dst, n, width, lane(_, _), elem(_)) ==
  StoresFrom(AlignDown(dst, width), dst, n, width, lane, elem)
UnalignedRun(dst, n, width, lane(_, _), elem(_)) ==
  StoresFrom(dst, dst, n, width, lane, elem)

(* Mutant: the whole vector is stored. *)
StoreWholeVector(dst, n, v) ==
  [q \in dst .. dst + LANES_FP16 - 1 |-> v[q - dst]]

(* hvx_vec_store_u of the first n elements of v: a masked store into the   *)
(* vector dst lies in and, when they do not all fit, one into the next.    *)
hvx_vec_store_u(dst, n, v) ==
  LET left  == dst % LANES_FP16
      right == left + n
      base  == AlignDown(dst, LANES_FP16)
      first == {l \in 0 .. LANES_FP16 - 1 :
                  l >= left /\ (l < right \/ right > LANES_FP16)}
      next  == IF right > LANES_FP16 THEN 0 .. right - LANES_FP16 - 1 ELSE {}
  IN  [q \in {base + l : l \in first} \union {base + LANES_FP16 + l : l \in next}
         |-> v[q - dst]]

-----------------------------------------------------------------------------
(* External: the permutations inside the instructions.  The widening       *)
(* multiply puts the even lanes of its product in the low vector of a pair *)
(* and the odd ones in the high; narrowing a pair interleaves it; deal and *)
(* shuffle move even and odd lanes apart and together within a vector.     *)
Q6_Wqf32_vmpy(v) == << [l \in 0 .. LANES_FP32 - 1 |-> v[2 * l]],
                       [l \in 0 .. LANES_FP32 - 1 |-> v[2 * l + 1]] >>
Q6_Vhf_equals_Wqf32(lo, hi) ==
  [l \in 0 .. LANES_FP16 - 1 |-> IF l % 2 = 0 THEN lo[l \div 2] ELSE hi[l \div 2]]
Q6_Vh_vdeal(v) ==
  [l \in 0 .. LANES_FP16 - 1 |->
     IF l < LANES_FP32 THEN v[2 * l] ELSE v[2 * (l - LANES_FP32) + 1]]
Q6_Vh_vshuff(v) ==
  [l \in 0 .. LANES_FP16 - 1 |->
     IF l % 2 = 0 THEN v[l \div 2] ELSE v[LANES_FP32 + (l \div 2)]]
Q6_V_vror(v, n, by) == [l \in 0 .. n - 1 |-> v[(l + by) % n]]

(* One operation on every lane. *)
Lanes(op, u, v) == [l \in DOMAIN u |-> <<op, u[l], v[l]>>]

(* hvx_vec_f16_to_f32, widen_ordered: both halves in element order.        *)
WidenOrdered(v) == Q6_Wqf32_vmpy(Q6_Vh_vshuff(v))

(* hvx_vec_f32_to_f16, narrow_ordered: one vector, in element order.       *)
NarrowOrdered(lo, hi) == Q6_Vh_vdeal(Q6_Vhf_equals_Wqf32(lo, hi))

-----------------------------------------------------------------------------
(* Reductions.  A lane that accumulates holds the bag of elements it has   *)
(* taken in; adding a vector to itself rotated by k lanes doubles what     *)
(* each lane has seen.                                                     *)
AddRotated(v, n, by) ==
  LET r == Q6_V_vror(v, n, by) IN [l \in 0 .. n - 1 |-> v[l] (+) r[l]]

(* The distances a vector is rotated by on the way, in lanes.              *)
Rotations == {by \in {1, 2, 4, 8, 16, 32} : by <= LANES_FP32}

(* Mutant: the last rotation is missing. *)
ReduceStopsEarly(v) ==
  LET step[by \in Rotations] ==
        AddRotated(IF by = 1 THEN v ELSE step[by \div 2], LANES_FP32, by)
  IN  step[LANES_FP32 \div 4]

(* hvx_vec_reduce_sum_n_f32 over a whole vector: 4, 8, 16, ... bytes.      *)
ReduceSumF32(v) ==
  LET step[by \in Rotations] ==
        AddRotated(IF by = 1 THEN v ELSE step[by \div 2], LANES_FP32, by)
  IN  step[LANES_FP32 \div 2]

(* hreduce_qf16: 64, 32, ..., 2 bytes, so half the lanes down to one lane. *)
hreduce_qf16(v) ==
  LET step[by \in Rotations] ==
        AddRotated(IF by = LANES_FP32 THEN v ELSE step[2 * by], LANES_FP16, by)
  IN  step[1]

(* The stores of a kernel that computes what it should with a numeric      *)
(* defect: whether that shows in a value depends on the inputs.            *)
Flawed(defect, stores) == [q \in DOMAIN stores |-> <<defect, stores[q]>>]

(* What a reduction over bag is: the whole row of C elements that starts   *)
(* at p0, each once, is <<op, p0>>; anything else is the bag itself.       *)
Reduced(op, bag, name, p0, C) ==
  IF bag = SetToBag({<<name, p>> : p \in p0 .. p0 + C - 1})
  THEN <<op, p0>> ELSE <<op, "of", bag>>

=============================================================================
