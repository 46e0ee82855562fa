---------------------------- MODULE KernelProofs ----------------------------
(***************************************************************************)
(* The kernels compute their baselines on every shape that fits them, for  *)
(* vectors of any of the widths allowed, and store nothing beside their    *)
(* output; a runner tells the truth about it, and a harness accepts it.    *)
(*                                                                         *)
(* The argument has two parts.  About the definitions: every lane of every *)
(* vector a kernel stores holds the term the baseline has for its element, *)
(* and the vector and scalar loops meet (Faithful, kernel by kernel).      *)
(* About the run: between two steps an element is the baseline's or still  *)
(* what the array was filled with (MemInv).                                *)
(***************************************************************************)
EXTENDS KernelRun, FiniteSetTheorems, TLAPS

(* A product grows with its first factor.                                  *)
LEMMA ProductGrows ==
  ASSUME NEW x \in Int, NEW y \in Int, NEW b \in Nat, x <= y
  PROVE  x * b \in Int /\ y * b \in Int /\ x * b <= y * b
<1>1. (y - x) * b >= 0
  OBVIOUS
<1> QED BY <1>1

(* What is left of a division, and what it leaves.                         *)
LEMMA Division ==
  ASSUME NEW a \in Int, NEW b \in Nat \ {0}
  PROVE  /\ a \div b \in Int /\ a % b \in 0 .. b - 1
         /\ a = (a \div b) * b + (a % b)
OBVIOUS

(* A number has one quotient and one remainder.                            *)
LEMMA NoMultipleBetween ==
  ASSUME NEW b \in Nat \ {0}, NEW q \in Int, NEW r \in 0 .. b - 1,
         NEW p \in Int, NEW t \in 0 .. b - 1, q * b + r = p * b + t
  PROVE  q = p /\ r = t
<1>1. CASE q > p
  <2>1. (q - p) * b >= b
   BY <1>1
  <2> QED BY <2>1
<1>2. CASE q < p
  <2>1. (p - q) * b >= b
   BY <1>2
  <2> QED BY <2>1
<1> QED BY <1>1, <1>2

(* The quotient and the remainder of a number put together from them.      *)
LEMMA Divided ==
  ASSUME NEW b \in Nat \ {0}, NEW q \in Int, NEW r \in 0 .. b - 1
  PROVE  (q * b + r) \div b = q /\ (q * b + r) % b = r
<1> DEFINE a == q * b + r
<1>1. a \in Int
  OBVIOUS
<1>2. a \div b \in Int /\ a % b \in 0 .. b-1 /\ a = (a \div b) * b + (a % b)
  <2> HIDE DEF a
  <2> QED BY <1>1, Division
<1>3. q * b + r = (a \div b) * b + (a % b)
  BY <1>2
<1> QED BY <1>2, <1>3, NoMultipleBetween

(* A number below m * b divided by b is below m.                           *)
LEMMA Quotient ==
  ASSUME NEW a \in Nat, NEW b \in Nat \ {0}, NEW m \in Nat, a < m * b
  PROVE  a \div b \in 0 .. m - 1
<1> DEFINE c == a \div b
<1>1. c \in Int /\ c * b <= a /\ a < c * b + b
  BY Division
<1> HIDE DEF c
<1>2. c < m
  <2>1. SUFFICES ASSUME c >= m PROVE FALSE
    BY <1>1
  <2> QED  BY <1>1, <2>1, ProductGrows
<1>3. c >= 0
  <2>1. SUFFICES ASSUME c <= -1 PROVE FALSE
    BY <1>1
  <2>2. c * b <= -1 * b  BY <1>1, <2>1, ProductGrows
  <2> QED  BY <1>1, <2>2
<1> QED BY <1>1, <1>2, <1>3 DEF c

(* Place q as a vector and a lane, and back.                               *)
Splits(q, w) ==
  /\ q \div w \in Nat /\ q % w \in 0 .. w - 1
  /\ (q \div w) * w + (q % w) = q

(* A place has a vector and a lane, and is found again from them.          *)
LEMMA PlaceInVector ==
  ASSUME NEW q \in Nat, NEW w \in Nat \ {0}
  PROVE  Splits(q, w)
<1>1. q < (q + 1) * w
  <2>1. q * (w - 1) >= 0
    OBVIOUS
  <2> QED  BY <2>1
<1>2. q \div w \in 0 .. (q + 1) - 1
  BY <1>1, Quotient
<1> QED  BY <1>2, Division DEF Splits

(* The elements in whole vectors are no more than there are.               *)
LEMMA WholeOnes ==
  ASSUME NEW n \in Nat, NEW w \in Nat \ {0}
  PROVE  /\ n \div w \in Nat
         /\ (n \div w) * w \in 0 .. n
<1> DEFINE c == n \div w
           r == n % w
<1>1. c \in Nat /\ r \in 0 .. w - 1 /\ c * w + r = n
  BY PlaceInVector DEF Splits
<1> HIDE DEF c, r
<1>2. c * w \in Nat
  BY <1>1
<1>3. c * w \in 0 .. n
  BY <1>1, <1>2
<1> QED  BY <1>1, <1>3 DEF c

(* A vector has twice as many 16-bit lanes as 32-bit lanes, and some of    *)
(* each.                                                                   *)
LEMMA LanesFacts ==
  /\ LANES_FP16 \in Nat \ {0} /\ LANES_FP32 \in Nat \ {0}
  /\ LANES_FP16 = 2 * LANES_FP32
BY LanesAssumption DEF LANES_FP32

(* A multiple of the width is aligned.                                     *)
LEMMA Aligned ==
  ASSUME NEW m \in Int, NEW w \in Nat \ {0}
  PROVE  AlignDown(m * w, w) = m * w
<1>1. (m * w + 0) % w = 0
  BY Divided
<1>2. m * w \in Int  OBVIOUS
<1> QED  BY <1>1, <1>2 DEF AlignDown

(* So is the start of an array.                                            *)
LEMMA AlignedZero ==
  ASSUME NEW w \in Nat \ {0}
  PROVE  AlignDown(0, w) = 0
BY DEF AlignDown

(* A load counted from the start of an array reads the elements from       *)
(* there.                                                                  *)
LEMMA FirstLoad ==
  ASSUME NEW name, NEW size, NEW w \in Nat \ {0}, NEW i \in Int, NEW l \in 0 .. w - 1
  PROVE  Vmem(name, size, 0, i, w)[l] = Elem(name, size, i * w + l)
<1>1. Vmem(name, size, 0, i, w)[l] = Elem(name, size, 0 + i * w + l)
  BY AlignedZero DEF Vmem
<1>2. 0 + i * w + l = i * w + l
  OBVIOUS
<1> QED  BY <1>1, <1>2

(* The widening multiply puts even lanes in the low half and odd ones in   *)
(* the high.                                                               *)
LEMMA Widened ==
  ASSUME NEW v, NEW l \in 0 .. LANES_FP32 - 1
  PROVE  /\ Q6_Wqf32_vmpy(v)[1][l] = v[2 * l]
         /\ Q6_Wqf32_vmpy(v)[2][l] = v[2 * l + 1]
BY DEF Q6_Wqf32_vmpy

(* Each half has the lanes of a 32-bit vector.                             *)
LEMMA WidenedLanes ==
  ASSUME NEW v
  PROVE  /\ DOMAIN (Q6_Wqf32_vmpy(v)[1]) = 0 .. LANES_FP32 - 1
         /\ DOMAIN (Q6_Wqf32_vmpy(v)[2]) = 0 .. LANES_FP32 - 1
BY DEF Q6_Wqf32_vmpy

(* An even lane and the odd one after it.                                  *)
LEMMA EvenOdd ==
  ASSUME NEW h \in 0 .. LANES_FP32 - 1
  PROVE  /\ 2 * h \in 0 .. LANES_FP16 - 1 /\ (2 * h) % 2 = 0 /\ (2 * h) \div 2 = h
         /\ 2 * h + 1 \in 0 .. LANES_FP16 - 1
         /\ (2 * h + 1) % 2 = 1 /\ (2 * h + 1) \div 2 = h
BY LanesFacts

(* Narrowing puts the low half in the even lanes and the high half in the  *)
(* odd ones.                                                               *)
LEMMA Narrowed ==
  ASSUME NEW lo, NEW hi, NEW l \in 0 .. LANES_FP16 - 1, NEW h \in 0 .. LANES_FP32 - 1
  PROVE  /\ l = 2 * h => Q6_Vhf_equals_Wqf32(lo, hi)[l] = lo[h]
         /\ l = 2 * h + 1 => Q6_Vhf_equals_Wqf32(lo, hi)[l] = hi[h]
<1>1. l = 2 * h => l % 2 = 0 /\ l \div 2 = h
  BY EvenOdd
<1>2. l = 2 * h + 1 => l % 2 # 0 /\ l \div 2 = h
  BY EvenOdd
<1> QED  BY <1>1, <1>2 DEF Q6_Vhf_equals_Wqf32

(* Every lane is an even one or an odd one.                                *)
LEMMA HalfLane ==
  ASSUME NEW l \in 0 .. LANES_FP16 - 1
  PROVE  \E h \in 0 .. LANES_FP32 - 1 : l = 2 * h \/ l = 2 * h + 1
<1>1. l \div 2 \in 0 .. LANES_FP32 - 1 /\ (l = 2 * (l \div 2) \/ l = 2 * (l \div 2) + 1)
  BY LanesFacts
<1> QED  BY <1>1

(* Widening a shuffled vector leaves both halves in element order.         *)
LEMMA InOrder ==
  ASSUME NEW v, NEW l \in 0 .. LANES_FP32 - 1
  PROVE  /\ WidenOrdered(v)[1][l] = v[l]
         /\ WidenOrdered(v)[2][l] = v[LANES_FP32 + l]
<1>1. /\ Q6_Vh_vshuff(v)[2 * l] = v[l]
      /\ Q6_Vh_vshuff(v)[2 * l + 1] = v[LANES_FP32 + l]
  BY EvenOdd DEF Q6_Vh_vshuff
<1> QED  BY <1>1, Widened DEF WidenOrdered

(* Dealing a narrowed pair puts the two halves one after the other.        *)
LEMMA BackInOrder ==
  ASSUME NEW lo, NEW hi, NEW l \in 0 .. LANES_FP32 - 1
  PROVE  /\ NarrowOrdered(lo, hi)[l] = lo[l]
         /\ NarrowOrdered(lo, hi)[LANES_FP32 + l] = hi[l]
<1> DEFINE v == Q6_Vhf_equals_Wqf32(lo, hi)
<1>1. v[2 * l] = lo[l] /\ v[2 * l + 1] = hi[l]
  BY EvenOdd DEF Q6_Vhf_equals_Wqf32
<1> HIDE DEF v
<1>2. Q6_Vh_vdeal(v)[l] = v[2 * l]
  <2>1. l \in 0 .. LANES_FP16 - 1 /\ l < LANES_FP32
    BY LanesFacts
  <2> QED  BY <2>1 DEF Q6_Vh_vdeal
<1>3. Q6_Vh_vdeal(v)[LANES_FP32 + l] = v[2 * l + 1]
  <2> DEFINE u == LANES_FP32 + l
  <2>1. /\ u \in 0 .. LANES_FP16 - 1 /\ ~(u < LANES_FP32)
        /\ 2 * (u - LANES_FP32) + 1 = 2 * l + 1
    BY LanesFacts
  <2> HIDE DEF u
  <2>2. Q6_Vh_vdeal(v)[u] = v[2 * (u - LANES_FP32) + 1]
    BY <2>1 DEF Q6_Vh_vdeal
  <2> QED  BY <2>1, <2>2 DEF u
<1> QED  BY <1>1, <1>2, <1>3 DEF NarrowOrdered, v

(* The stores of step s of kernel.c, and the number of its last step.      *)
Step(k, d, s) == Stores(k, KERNEL, d, s)
Last(k, d) == Steps(k, KERNEL, d) - 1

(* Every step of the kernel stores elements of the output only.            *)
StaysInside(k, d) ==
  /\ Steps(k, KERNEL, d) \in Nat
  /\ \A s \in 0 .. Last(k, d) : DOMAIN Step(k, d, s) \subseteq 0 .. Size(k, d) - 1

(* What it stores is what the baseline has there.                          *)
StoresRight(k, d) ==
  \A s \in 0 .. Last(k, d) : \A q \in DOMAIN Step(k, d, s) :
    Step(k, d, s)[q] = Baseline(k, d)[q]

(* It stores every element, but for those the baseline leaves alone; the   *)
(* kernels with a runner have none of those.                               *)
StoresAll(k, d) ==
  \A q \in 0 .. Size(k, d) - 1 :
    \/ \E s \in 0 .. Last(k, d) : q \in DOMAIN Step(k, d, s)
    \/ k \notin DOMAIN Runners /\ Baseline(k, d)[q] = <<"poison">>

(* Such a kernel computes its baseline and touches nothing else.           *)
Faithful(k, d) == StaysInside(k, d) /\ StoresRight(k, d) /\ StoresAll(k, d)

(* A kernel over a flat array is faithful when its vector loop and its     *)
(* scalar loop each store what the baseline has, in the elements that are  *)
(* theirs.                                                                 *)
LEMMA FlatFaithful ==
  ASSUME NEW k \in {"add_fp16", "scale_fp16", "cast_f32_f16"}, NEW d, d[1] \in Nat,
         DOMAIN Step(k, d, 0) = 0 .. (d[1] \div LANES_FP16) * LANES_FP16 - 1,
         DOMAIN Step(k, d, 1) = (d[1] \div LANES_FP16) * LANES_FP16 .. d[1] - 1,
         \A s \in {0, 1} : \A q \in DOMAIN Step(k, d, s) :
           Step(k, d, s)[q] = Baseline(k, d)[q]
  PROVE  Faithful(k, d)
<1>1. Steps(k, KERNEL, d) = 2 /\ Size(k, d) = d[1]
  BY DEF Steps, Size, KERNEL, FlatSteps
<1>2. (d[1] \div LANES_FP16) * LANES_FP16 \in 0 .. d[1]
  BY WholeOnes, LanesFacts
<1> DEFINE covered == (d[1] \div LANES_FP16) * LANES_FP16
<1> HIDE DEF covered
<1>3. StaysInside(k, d)
  BY <1>1, <1>2 DEF StaysInside, Last, covered
<1>4. StoresRight(k, d)
  BY <1>1 DEF StoresRight, Last
<1>5. StoresAll(k, d)
  BY <1>1, <1>2 DEF StoresAll, Last, covered
<1> QED  BY <1>3, <1>4, <1>5 DEF Faithful

(* A lane of add_fp16's vector is the sum of its two elements.             *)
LEMMA AddVector ==
  ASSUME NEW d, d[1] \in Nat, NEW i \in Nat, NEW l \in 0 .. LANES_FP16 - 1
  PROVE  add_hf(d, i)[l] = <<"add", Elem("a", d[1], i * LANES_FP16 + l),
                                    Elem("b", d[1], i * LANES_FP16 + l)>>
<1> DEFINE a == Vmem("a", d[1], 0, i, LANES_FP16)
           b == Vmem("b", d[1], 0, i, LANES_FP16)
           ap == Q6_Wqf32_vmpy(a)
           bp == Q6_Wqf32_vmpy(b)
           lo == Lanes("add", ap[1], bp[1])
           hi == Lanes("add", ap[2], bp[2])
<1>1. PICK h \in 0 .. LANES_FP32 - 1 : l = 2 * h \/ l = 2 * h + 1
  BY HalfLane
<1>2. a[l] = Elem("a", d[1], i * LANES_FP16 + l) /\ b[l] = Elem("b", d[1], i * LANES_FP16 + l)
  BY FirstLoad, LanesFacts
<1>3. add_hf(d, i) = Q6_Vhf_equals_Wqf32(lo, hi)
  BY DEF add_hf
<1> HIDE DEF a, b
<1>4. lo[h] = <<"add", a[2 * h], b[2 * h]>> /\ hi[h] = <<"add", a[2 * h + 1], b[2 * h + 1]>>
  BY Widened, WidenedLanes DEF Lanes
<1> HIDE DEF lo, hi
<1> HIDE DEF ap, bp
<1>5. CASE l = 2 * h
  <2>1. Q6_Vhf_equals_Wqf32(lo, hi)[l] = lo[h]
    <3>1. l % 2 = 0 /\ l \div 2 = h
      BY <1>5, EvenOdd
    <3> QED  BY <3>1 DEF Q6_Vhf_equals_Wqf32
  <2> QED  BY <1>2, <1>3, <1>4, <1>5, <2>1
<1>6. CASE l = 2 * h + 1
  <2>1. Q6_Vhf_equals_Wqf32(lo, hi)[l] = hi[h]
    <3>1. l % 2 # 0 /\ l \div 2 = h
      BY <1>6, EvenOdd
    <3> QED  BY <3>1 DEF Q6_Vhf_equals_Wqf32
  <2> QED  BY <1>2, <1>3, <1>4, <1>6, <2>1
<1> QED  BY <1>1, <1>5, <1>6

(* What add_fp16's two loops store.                                        *)
LEMMA AddStores ==
  ASSUME NEW d, d[1] \in Nat
  PROVE  /\ DOMAIN add_fp16(d, 0) = 0 .. (d[1] \div LANES_FP16) * LANES_FP16 - 1
         /\ DOMAIN add_fp16(d, 1) = (d[1] \div LANES_FP16) * LANES_FP16 .. d[1] - 1
         /\ \A q \in DOMAIN add_fp16(d, 0) :
              add_fp16(d, 0)[q] = add_hf(d, q \div LANES_FP16)[q % LANES_FP16]
         /\ \A q \in DOMAIN add_fp16(d, 1) :
              add_fp16(d, 1)[q] = <<"add", Elem("a", d[1], q), Elem("b", d[1], q)>>
BY DEF add_fp16, FlatStep, VectorLoop, ScalarLoop

(* add_fp16 computes its baseline at every length.                         *)
LEMMA AddFaithful ==
  ASSUME NEW d, d[1] \in Nat
  PROVE  Faithful("add_fp16", d)
<1> DEFINE k == "add_fp16"
           covered == (d[1] \div LANES_FP16) * LANES_FP16
<1>1. \A s : Step(k, d, s) = add_fp16(d, s)
  BY DEF Step, Stores, KERNEL
<1>2. \A q \in 0 .. d[1] - 1 :
         Baseline(k, d)[q] = <<"add", Elem("a", d[1], q), Elem("b", d[1], q)>>
  BY DEF Baseline, AddBaseline
<1>3. /\ DOMAIN add_fp16(d, 0) = 0 .. covered - 1
      /\ DOMAIN add_fp16(d, 1) = covered .. d[1] - 1
  BY AddStores
<1>4. covered \in 0 .. d[1]
  BY WholeOnes, LanesFacts
<1> HIDE DEF covered
<1>5. ASSUME NEW q \in DOMAIN add_fp16(d, 0)
      PROVE  add_fp16(d, 0)[q] = Baseline(k, d)[q]
  <2>1. q \in 0 .. d[1] - 1 /\ q \in Nat
    BY <1>3, <1>4
  <2>2. add_fp16(d, 0)[q] = add_hf(d, q \div LANES_FP16)[q % LANES_FP16]
    BY AddStores
  <2>3. /\ q \div LANES_FP16 \in Nat /\ q % LANES_FP16 \in 0 .. LANES_FP16 - 1
        /\ (q \div LANES_FP16) * LANES_FP16 + (q % LANES_FP16) = q
    BY <2>1, PlaceInVector, LanesFacts DEF Splits
  <2>4. add_hf(d, q \div LANES_FP16)[q % LANES_FP16]
          = <<"add", Elem("a", d[1], q), Elem("b", d[1], q)>>
    BY <2>3, AddVector
  <2> QED  BY <1>2, <2>1, <2>2, <2>4
<1>6. ASSUME NEW q \in DOMAIN add_fp16(d, 1)
      PROVE  add_fp16(d, 1)[q] = Baseline(k, d)[q]
  <2>1. q \in 0 .. d[1] - 1
    BY <1>3, <1>4
  <2> QED  BY <1>2, <2>1, AddStores
<1> QED  BY <1>1, <1>3, <1>5, <1>6, FlatFaithful DEF covered

(* A lane of scale_fp16's vector is its element scaled.                    *)
LEMMA ScaleVector ==
  ASSUME NEW d, d[1] \in Nat, NEW i \in Nat, NEW l \in 0 .. LANES_FP16 - 1
  PROVE  scale_vector(d, i)[l] = Scaled(Elem("x", d[1], i * LANES_FP16 + l))
<1> DEFINE x == Vmem("x", d[1], 0, i, LANES_FP16)
           v == [j \in DOMAIN x |-> Scaled(x[j])]
           p == Q6_Wqf32_vmpy(v)
<1>1. PICK h \in 0 .. LANES_FP32 - 1 : l = 2 * h \/ l = 2 * h + 1
  BY HalfLane
<1>2. /\ x[l] = Elem("x", d[1], i * LANES_FP16 + l)
      /\ DOMAIN x = 0 .. LANES_FP16 - 1
  <2>1. x[l] = Elem("x", d[1], i * LANES_FP16 + l)
    BY FirstLoad, LanesFacts
  <2>2. DOMAIN x = 0 .. LANES_FP16 - 1
    BY DEF Vmem
  <2> QED  BY <2>1, <2>2
<1>3. scale_vector(d, i) = Q6_Vhf_equals_Wqf32(p[1], p[2])
  BY DEF scale_vector
<1> HIDE DEF x
<1>4. v[l] = Scaled(Elem("x", d[1], i * LANES_FP16 + l))
  BY <1>2
<1> HIDE DEF v
<1>5. p[1][h] = v[2 * h] /\ p[2][h] = v[2 * h + 1]
  BY Widened
<1> HIDE DEF p
<1>6. CASE l = 2 * h
  <2>1. Q6_Vhf_equals_Wqf32(p[1], p[2])[l] = p[1][h]
    BY <1>6, Narrowed
  <2> QED  BY <1>3, <1>4, <1>5, <1>6, <2>1
<1>7. CASE l = 2 * h + 1
  <2>1. Q6_Vhf_equals_Wqf32(p[1], p[2])[l] = p[2][h]
    BY <1>7, Narrowed
  <2> QED  BY <1>3, <1>4, <1>5, <1>7, <2>1
<1> QED  BY <1>1, <1>6, <1>7

(* What scale_fp16's two loops store.                                      *)
LEMMA ScaleStores ==
  ASSUME NEW d, d[1] \in Nat
  PROVE  /\ DOMAIN scale_fp16(d, 0) = 0 .. (d[1] \div LANES_FP16) * LANES_FP16 - 1
         /\ DOMAIN scale_fp16(d, 1) = (d[1] \div LANES_FP16) * LANES_FP16 .. d[1] - 1
         /\ \A q \in DOMAIN scale_fp16(d, 0) :
              scale_fp16(d, 0)[q] = scale_vector(d, q \div LANES_FP16)[q % LANES_FP16]
         /\ \A q \in DOMAIN scale_fp16(d, 1) :
              scale_fp16(d, 1)[q] = Scaled(Elem("x", d[1], q))
BY DEF scale_fp16, FlatStep, VectorLoop, ScalarLoop

(* scale_fp16 computes its baseline at every length.                       *)
LEMMA ScaleFaithful ==
  ASSUME NEW d, d[1] \in Nat
  PROVE  Faithful("scale_fp16", d)
<1> DEFINE k == "scale_fp16"
           covered == (d[1] \div LANES_FP16) * LANES_FP16
<1>1. \A s : Step(k, d, s) = scale_fp16(d, s)
  BY DEF Step, Stores, KERNEL
<1>2. \A q \in 0 .. d[1] - 1 : Baseline(k, d)[q] = Scaled(Elem("x", d[1], q))
  BY DEF Baseline, ScaleBaseline
<1>3. /\ DOMAIN scale_fp16(d, 0) = 0 .. covered - 1
      /\ DOMAIN scale_fp16(d, 1) = covered .. d[1] - 1
  BY ScaleStores
<1>4. covered \in 0 .. d[1]
  BY WholeOnes, LanesFacts
<1> HIDE DEF covered
<1>5. ASSUME NEW q \in DOMAIN scale_fp16(d, 0)
      PROVE  scale_fp16(d, 0)[q] = Baseline(k, d)[q]
  <2>1. q \in 0 .. d[1] - 1 /\ q \in Nat
    BY <1>3, <1>4
  <2>2. scale_fp16(d, 0)[q] = scale_vector(d, q \div LANES_FP16)[q % LANES_FP16]
    BY ScaleStores
  <2>3. /\ q \div LANES_FP16 \in Nat /\ q % LANES_FP16 \in 0 .. LANES_FP16 - 1
        /\ (q \div LANES_FP16) * LANES_FP16 + (q % LANES_FP16) = q
    BY <2>1, PlaceInVector, LanesFacts DEF Splits
  <2>4. scale_vector(d, q \div LANES_FP16)[q % LANES_FP16] = Scaled(Elem("x", d[1], q))
    BY <2>3, ScaleVector
  <2> QED  BY <1>2, <2>1, <2>2, <2>4
<1>6. ASSUME NEW q \in DOMAIN scale_fp16(d, 1)
      PROVE  scale_fp16(d, 1)[q] = Baseline(k, d)[q]
  <2>1. q \in 0 .. d[1] - 1
    BY <1>3, <1>4
  <2> QED  BY <1>2, <2>1, ScaleStores
<1> QED  BY <1>1, <1>3, <1>5, <1>6, FlatFaithful DEF covered

(* A lane of cast_f32_f16's vector is its element: the deal puts the pair  *)
(* back in order.                                                          *)
LEMMA CastVector ==
  ASSUME NEW d, d[1] \in Nat, NEW i \in Nat, NEW l \in 0 .. LANES_FP16 - 1
  PROVE  Q6_Vh_vdeal(Q6_Vhf_equals_Wqf32(CastIn(d, 2 * i), CastIn(d, 2 * i + 1)))[l]
           = Elem("x", d[1], i * LANES_FP16 + l)
<1> DEFINE lo == CastIn(d, 2 * i)
           hi == CastIn(d, 2 * i + 1)
<1>1. Q6_Vh_vdeal(Q6_Vhf_equals_Wqf32(lo, hi)) = NarrowOrdered(lo, hi)
  BY DEF NarrowOrdered
<1> SUFFICES NarrowOrdered(lo, hi)[l] = Elem("x", d[1], i * LANES_FP16 + l)
  BY <1>1
<1>2. CASE l < LANES_FP32
  <2>1. l \in 0 .. LANES_FP32 - 1
    BY <1>2, LanesFacts
  <2>2. lo[l] = Elem("x", d[1], (2 * i) * LANES_FP32 + l)
    BY <2>1, FirstLoad, LanesFacts DEF CastIn
  <2>3. (2 * i) * LANES_FP32 + l = i * LANES_FP16 + l
    BY LanesFacts
  <2> HIDE DEF lo, hi
  <2>4. NarrowOrdered(lo, hi)[l] = lo[l]
    BY <2>1, BackInOrder
  <2> QED  BY <2>2, <2>3, <2>4
<1>3. CASE l >= LANES_FP32
  <2> DEFINE u == l - LANES_FP32
  <2>1. u \in 0 .. LANES_FP32 - 1 /\ l = LANES_FP32 + u
    BY <1>3, LanesFacts
  <2> HIDE DEF u
  <2>2. hi[u] = Elem("x", d[1], (2 * i + 1) * LANES_FP32 + u)
    BY <2>1, FirstLoad, LanesFacts DEF CastIn
  <2>3. (2 * i + 1) * LANES_FP32 + u = i * LANES_FP16 + l
    BY <2>1, LanesFacts
  <2> HIDE DEF lo, hi
  <2>4. NarrowOrdered(lo, hi)[LANES_FP32 + u] = hi[u]
    BY <2>1, BackInOrder
  <2> QED  BY <2>1, <2>2, <2>3, <2>4
<1> QED  BY <1>2, <1>3, LanesFacts

(* What cast_f32_f16's two loops store.                                    *)
LEMMA CastStores ==
  ASSUME NEW d, d[1] \in Nat
  PROVE  /\ DOMAIN cast_f32_f16(d, 0) = 0 .. (d[1] \div LANES_FP16) * LANES_FP16 - 1
         /\ DOMAIN cast_f32_f16(d, 1) = (d[1] \div LANES_FP16) * LANES_FP16 .. d[1] - 1
         /\ \A q \in DOMAIN cast_f32_f16(d, 0) :
              cast_f32_f16(d, 0)[q]
                = Q6_Vh_vdeal(Q6_Vhf_equals_Wqf32(CastIn(d, 2 * (q \div LANES_FP16)),
                                CastIn(d, 2 * (q \div LANES_FP16) + 1)))[q % LANES_FP16]
         /\ \A q \in DOMAIN cast_f32_f16(d, 1) :
              cast_f32_f16(d, 1)[q] = Elem("x", d[1], q)
BY DEF cast_f32_f16, FlatStep, VectorLoop, ScalarLoop, CastTail

(* cast_f32_f16 computes its baseline at every length.                     *)
LEMMA CastFaithful ==
  ASSUME NEW d, d[1] \in Nat
  PROVE  Faithful("cast_f32_f16", d)
<1> DEFINE k == "cast_f32_f16"
           covered == (d[1] \div LANES_FP16) * LANES_FP16
<1>1. \A s : Step(k, d, s) = cast_f32_f16(d, s)
  BY DEF Step, Stores, KERNEL
<1>2. \A q \in 0 .. d[1] - 1 : Baseline(k, d)[q] = Elem("x", d[1], q)
  BY DEF Baseline, CastBaseline
<1>3. /\ DOMAIN cast_f32_f16(d, 0) = 0 .. covered - 1
      /\ DOMAIN cast_f32_f16(d, 1) = covered .. d[1] - 1
  BY CastStores
<1>4. covered \in 0 .. d[1]
  BY WholeOnes, LanesFacts
<1> HIDE DEF covered
<1>5. ASSUME NEW q \in DOMAIN cast_f32_f16(d, 0)
      PROVE  cast_f32_f16(d, 0)[q] = Baseline(k, d)[q]
  <2>1. q \in 0 .. d[1] - 1 /\ q \in Nat
    BY <1>3, <1>4
  <2>2. cast_f32_f16(d, 0)[q]
          = Q6_Vh_vdeal(Q6_Vhf_equals_Wqf32(CastIn(d, 2 * (q \div LANES_FP16)),
                          CastIn(d, 2 * (q \div LANES_FP16) + 1)))[q % LANES_FP16]
    BY CastStores
  <2>3. /\ q \div LANES_FP16 \in Nat /\ q % LANES_FP16 \in 0 .. LANES_FP16 - 1
        /\ (q \div LANES_FP16) * LANES_FP16 + (q % LANES_FP16) = q
    BY <2>1, PlaceInVector, LanesFacts DEF Splits
  <2>4. Q6_Vh_vdeal(Q6_Vhf_equals_Wqf32(CastIn(d, 2 * (q \div LANES_FP16)),
                      CastIn(d, 2 * (q \div LANES_FP16) + 1)))[q % LANES_FP16]
          = Elem("x", d[1], q)
    BY <2>3, CastVector
  <2> QED  BY <1>2, <2>1, <2>2, <2>4
<1>6. ASSUME NEW q \in DOMAIN cast_f32_f16(d, 1)
      PROVE  cast_f32_f16(d, 1)[q] = Baseline(k, d)[q]
  <2>1. q \in 0 .. d[1] - 1
    BY <1>3, <1>4
  <2> QED  BY <1>2, <2>1, CastStores
<1> QED  BY <1>1, <1>3, <1>5, <1>6, FlatFaithful DEF covered

(* A run of n elements from dst on: the whole vectors from base on and the *)
(* rest after them.                                                        *)
JoinedRun(dst, n, width, base, rest, vectors) ==
  /\ DOMAIN Over(rest, vectors) = dst .. dst + n - 1
  /\ \A i \in 0 .. n - 1 :
       /\ i < (n \div width) * width => /\ base = dst
                                        /\ dst + i \in DOMAIN vectors
                                        /\ Over(rest, vectors)[dst + i] = vectors[dst + i]
       /\ ~(i < (n \div width) * width) => /\ dst + i \in DOMAIN rest
                                           /\ Over(rest, vectors)[dst + i] = rest[dst + i]

(* The stores of a run cover it, when its vectors start where it does or   *)
(* it holds none.                                                          *)
LEMMA RunStored ==
  ASSUME NEW dst \in Nat, NEW n \in Nat, NEW width \in Nat \ {0}, NEW base \in Int,
         base = dst \/ n < width, NEW rest, NEW vectors,
         DOMAIN rest = dst + (n \div width) * width .. dst + n - 1,
         DOMAIN vectors = base .. base + (n \div width) * width - 1
  PROVE  JoinedRun(dst, n, width, base, rest, vectors)
<1> DEFINE covered == (n \div width) * width
<1>1. covered \in 0 .. n
  BY WholeOnes
<1>2. n < width => covered = 0
  <2> SUFFICES ASSUME n < width
               PROVE  n \div width = 0
    BY WholeOnes
  <2> QED  BY Divided
<1>3. /\ DOMAIN rest = dst + covered .. dst + n - 1
      /\ DOMAIN vectors = base .. base + covered - 1
  OBVIOUS
<1> HIDE DEF covered
<1>4. DOMAIN Over(rest, vectors) = dst .. dst + n - 1
  BY <1>1, <1>2, <1>3 DEF Over
<1>5. ASSUME NEW i \in 0 .. n - 1
      PROVE  /\ i < covered => /\ base = dst
                               /\ dst + i \in DOMAIN vectors
                               /\ Over(rest, vectors)[dst + i] = vectors[dst + i]
             /\ ~(i < covered) => /\ dst + i \in DOMAIN rest
                                  /\ Over(rest, vectors)[dst + i] = rest[dst + i]
  <2>1. dst + i \in dst .. dst + n - 1
    OBVIOUS
  <2>2. CASE i < covered
    <3>1. base = dst /\ dst + i \in DOMAIN vectors /\ dst + i \notin DOMAIN rest
      BY <1>1, <1>2, <1>3, <2>2
    <3> QED  BY <2>1, <2>2, <3>1 DEF Over
  <2>3. CASE ~(i < covered)
    <3>1. dst + i \in DOMAIN rest
      BY <1>1, <1>3, <2>3
    <3> QED  BY <2>1, <2>3, <3>1 DEF Over
  <2> QED  BY <2>2, <2>3
<1> QED  BY <1>4, <1>5 DEF covered, JoinedRun

(* A kernel each of whose steps stores one run of C elements, the steps'   *)
(* runs one after the other.                                               *)
RunRight(k, d, C, s) ==
  /\ DOMAIN Step(k, d, s) = s * C .. s * C + C - 1
  /\ \A i \in 0 .. C - 1 : Step(k, d, s)[s * C + i] = Baseline(k, d)[s * C + i]

(* A kernel whose steps are runs of C elements, one after the other, is    *)
(* faithful when each run is right.                                        *)
LEMMA RunsFaithful ==
  ASSUME NEW k, NEW d, NEW R \in Nat, NEW C \in Nat \ {0},
         Steps(k, KERNEL, d) = R, Size(k, d) = R * C,
         \A s \in 0 .. R - 1 : RunRight(k, d, C, s)
  PROVE  Faithful(k, d)
<1> USE DEF RunRight
<1>1. ASSUME NEW s \in 0 .. R - 1
      PROVE  s * C \in Nat /\ s * C + C <= R * C
  <2>1. (s + 1) * C <= R * C
    BY ProductGrows
  <2> QED  BY <2>1
<1>2. StaysInside(k, d)
  <2> SUFFICES ASSUME NEW s \in 0 .. R - 1, NEW q \in DOMAIN Step(k, d, s)
               PROVE  q \in 0 .. R * C - 1
    BY DEF StaysInside, Last
  <2> DEFINE a == s * C
             e == R * C
  <2>1. q \in a .. a + C - 1 /\ a \in Nat /\ a + C <= e /\ e \in Nat
    BY <1>1
  <2> HIDE DEF a, e
  <2>2. q \in 0 .. e - 1
    BY <2>1
  <2> QED  BY <2>2 DEF e
<1>3. StoresRight(k, d)
  <2> SUFFICES ASSUME NEW s \in 0 .. R - 1, NEW q \in DOMAIN Step(k, d, s)
               PROVE  Step(k, d, s)[q] = Baseline(k, d)[q]
    BY DEF StoresRight, Last
  <2>1. q \in s * C .. s * C + C - 1
    OBVIOUS
  <2>2. q - s * C \in 0 .. C - 1 /\ q = s * C + (q - s * C)
    BY <1>1, <2>1
  <2> QED  BY <2>2
<1>4. StoresAll(k, d)
  <2> SUFFICES ASSUME NEW q \in 0 .. R * C - 1
               PROVE  \E s \in 0 .. R - 1 : q \in DOMAIN Step(k, d, s)
    BY DEF StoresAll, Last
  <2>1. R * C \in Nat /\ q \in Nat /\ q < R * C
    OBVIOUS
  <2>2. q \div C \in 0 .. R - 1
    BY <2>1, Quotient
  <2>3. q \in (q \div C) * C .. (q \div C) * C + C - 1
    <3> DEFINE c == q \div C
               r == q % C
    <3>1. c \in Nat /\ r \in 0 .. C - 1 /\ c * C + r = q
      BY <2>1, PlaceInVector DEF Splits
    <3> HIDE DEF c, r
    <3>2. c * C \in Nat
      BY <3>1
    <3>3. q \in c * C .. c * C + C - 1
      BY <3>1, <3>2
    <3> QED  BY <3>3 DEF c
  <2> QED  BY <2>2, <2>3
<1> QED  BY <1>2, <1>3, <1>4 DEF Faithful

(* Row r of rows of C elements starts on a vector boundary; it does, or it *)
(* holds no whole vector, and so do all R of them.                         *)
Starts(r, C, w) == r = 0 \/ C % w = 0
Meets(r, C, w) == C < w \/ Starts(r, C, w)
Rowwise(R, C, w) == C < w \/ R = 1 \/ C % w = 0

(* Element i of row m, loaded with a vector of its row.                    *)
RowVectorAt(name, size, m, C, w, i) ==
  Vmem(name, size, m * C, i \div w, w)[i % w] = Elem(name, size, m * C + i)

AlignedRow(m, C, w) == AlignDown(m * C, w) = m * C

(* A row that starts on a vector boundary has an aligned address.          *)
LEMMA RowAligned ==
  ASSUME NEW C \in Nat \ {0}, NEW w \in Nat \ {0}, NEW m \in Int, Starts(m, C, w)
  PROVE  AlignedRow(m, C, w)
<1>1. CASE C % w = 0
  <2> DEFINE c == C \div w
  <2>1. c \in Nat /\ C = c * w
    BY <1>1, PlaceInVector DEF Splits
  <2> HIDE DEF c
  <2>2. m * C = (m * c) * w /\ m * c \in Int
    BY <2>1
  <2> QED  BY <2>2, Aligned DEF AlignedRow
<1>2. CASE m = 0
  <2>1. m * C = 0
    BY <1>2
  <2>2. AlignDown(0, w) = 0
    BY AlignedZero
  <2> QED  BY <2>1, <2>2 DEF AlignedRow
<1> QED  BY <1>1, <1>2 DEF Starts

(* An element of such a row is the lane of the vector it is loaded with.   *)
LEMMA VectorOfRow ==
  ASSUME NEW C \in Nat \ {0}, NEW w \in Nat \ {0}, NEW m \in Int, Starts(m, C, w),
         NEW i \in Nat, NEW name, NEW size
  PROVE  RowVectorAt(name, size, m, C, w, i)
<1> DEFINE v == i \div w
           l == i % w
           a == m * C
           b == v * w
<1>1. v \in Nat /\ l \in 0 .. w - 1 /\ b + l = i
  BY PlaceInVector DEF Splits
<1>2. a \in Int /\ b \in Int /\ AlignDown(a, w) = a
  <2>1. AlignedRow(m, C, w)
    BY RowAligned
  <2> QED  BY <1>1, <2>1 DEF AlignedRow
<1> HIDE DEF l, a
<1>3. Vmem(name, size, a, v, w)[l] = Elem(name, size, a + b + l)
  BY <1>1, <1>2 DEF Vmem
<1> HIDE DEF b
<1>4. a + b + l = a + i
  BY <1>1, <1>2
<1>5. Vmem(name, size, a, v, w)[l] = Elem(name, size, a + i)
  BY <1>3, <1>4
<1> QED  BY <1>5 DEF RowVectorAt, v, l, a

(* A run of less than a vector holds no whole one.                         *)
LEMMA NoVectors ==
  ASSUME NEW C \in Nat, NEW w \in Nat \ {0}, C < w
  PROVE  C \div w = 0 /\ (C \div w) * w = 0
<1>1. (0 * w + C) \div w = 0
  BY Divided
<1> QED  BY <1>1

(* An element of run s, of rows that come in groups of T.                  *)
InRun(R, T, D, s, i) ==
  /\ s * D \in Nat
  /\ s * D + i \in 0 .. R * D - 1
  /\ (s * D + i) \div D = s /\ (s * D + i) % D = i
  /\ (s * D + i) \div (T * D) = s \div T

(* Where an element of a run lies in the whole output.                     *)
LEMMA PlaceInRun ==
  ASSUME NEW R \in Nat, NEW T \in Nat \ {0}, NEW D \in Nat \ {0},
         NEW s \in 0 .. R - 1, NEW i \in 0 .. D - 1
  PROVE  InRun(R, T, D, s, i)
<1>1. s \in Nat /\ s * D \in Nat
  OBVIOUS
<1>2. s * D + i \in 0 .. R * D - 1
  <2>1. (s + 1) * D <= R * D
    BY ProductGrows
  <2>2. s * D + D <= R * D /\ R * D \in Nat
    BY <2>1
  <2> DEFINE a == s * D
             e == R * D
  <2>3. a \in Nat /\ a + D <= e /\ e \in Nat
    BY <1>1, <2>2
  <2> HIDE DEF a, e
  <2>4. a + i \in 0 .. e - 1
    BY <2>3
  <2> QED  BY <2>4 DEF a, e
<1>3. (s * D + i) \div D = s /\ (s * D + i) % D = i
  BY <1>1, Divided
<1>4. (s * D + i) \div (T * D) = s \div T
  <2> DEFINE h == s \div T
             t == s % T
  <2>1. h \in Nat /\ t \in 0 .. T - 1 /\ h * T + t = s
    BY <1>1, PlaceInVector DEF Splits
  <2> HIDE DEF h, t
  <2>2. s * D + i = h * (T * D) + (t * D + i) /\ T * D \in Nat \ {0}
    BY <2>1
  <2>3. (t + 1) * D <= T * D
    BY <2>1, ProductGrows
  <2> DEFINE a == t * D
             e == T * D
  <2>4. a \in Nat /\ a + D <= e /\ e \in Nat \ {0}
    BY <2>1, <2>2, <2>3
  <2>5. a + i \in 0 .. e - 1
    <3> HIDE DEF a, e
    <3> QED  BY <2>4
  <2>6. (h * e + (a + i)) \div e = h
    <3> HIDE DEF a, e
    <3> QED  BY <2>1, <2>4, <2>5, Divided
  <2>7. s * D + i = h * e + (a + i)
    BY <2>2
  <2> HIDE DEF a, e
  <2>8. (s * D + i) \div e = h
    BY <2>6, <2>7
  <2> QED  BY <2>8 DEF h, e
<1> QED  BY <1>1, <1>2, <1>3, <1>4 DEF InRun

(* transpose_th_fp16: the run of a step is a row of the input.             *)
ThRow(d, T, H, D, s) ==
  /\ DOMAIN transpose_th_fp16(d, s) = s * D .. s * D + D - 1
  /\ \A i \in 0 .. D - 1 :
       transpose_th_fp16(d, s)[s * D + i]
         = X(ThSize(d), ((s % T) * H + (s \div T)) * D + i)

(* The stores of one (h, t) of transpose_th_fp16 are a row of the input.   *)
LEMMA ThStored ==
  ASSUME NEW d, NEW T \in Nat \ {0}, NEW H \in Nat \ {0}, NEW D \in Nat \ {0},
         d[1] = T, d[2] = H, d[3] = D, NEW s \in Nat, NEW size, size = ThSize(d),
         Meets(s, D, LANES_FP16)
  PROVE  ThRow(d, T, H, D, s)
<1> DEFINE h == s \div T
           t == s % T
           m == t * H + h
           src == m * D
           dst == (h * T + t) * D
           base == AlignDown(dst, LANES_FP16)
           covered == (D \div LANES_FP16) * LANES_FP16
           rest == [q \in dst + covered .. dst + D - 1 |-> X(ThSize(d), src + (q - dst))]
           vectors == [q \in base .. base + covered - 1 |->
                         Vmem("x", ThSize(d), src, (q - base) \div LANES_FP16,
                              LANES_FP16)[(q - base) % LANES_FP16]]
<1>1. transpose_th_fp16(d, s) = Over(rest, vectors)
  BY DEF transpose_th_fp16, AlignedRun, StoresFrom
<1>2. h \in Nat /\ t \in Nat /\ h * T + t = s
  <2>1. Splits(s, T)
    BY PlaceInVector
  <2> QED  BY <2>1 DEF Splits
<1>3. dst = s * D /\ s * D \in Nat
  BY <1>2
<1> HIDE DEF h, t
<1>4. m \in Nat /\ (s = 0 => m = 0)
  <2>1. s = 0 => h = 0 /\ t = 0
    BY <1>2
  <2> QED  BY <1>2, <2>1
<1>5. Starts(s, D, LANES_FP16) => AlignDown(s * D, LANES_FP16) = s * D
  <2>1. Starts(s, D, LANES_FP16) => AlignedRow(s, D, LANES_FP16)
    BY RowAligned, LanesFacts
  <2> QED  BY <2>1 DEF AlignedRow
<1> HIDE DEF m, dst
<1>6. dst \in Nat /\ base \in Int
  BY <1>3, LanesFacts DEF AlignDown
<1>7. base = dst \/ D < LANES_FP16
  BY <1>3, <1>5 DEF Meets
<1> HIDE DEF base, src
<1>8. /\ DOMAIN rest = dst + covered .. dst + D - 1
      /\ DOMAIN vectors = base .. base + covered - 1
  OBVIOUS
<1>9. D < LANES_FP16 => covered = 0
  BY NoVectors, LanesFacts
<1>10. ASSUME NEW i \in 0 .. D - 1, NEW p \in Int, p = dst + i,
              i < covered, base = dst, p \in DOMAIN vectors
       PROVE  vectors[p] = X(size, src + i)
  <2>1. p - base = i
    BY <1>6, <1>10
  <2>2. vectors[p] = Vmem("x", ThSize(d), src, (p - base) \div LANES_FP16,
                          LANES_FP16)[(p - base) % LANES_FP16]
    <3> HIDE DEF covered
    <3> QED  BY <1>10
  <2>3. Starts(m, D, LANES_FP16)
    <3>1. Starts(s, D, LANES_FP16)
      BY <1>9, <1>10 DEF Meets
    <3> QED  BY <3>1, <1>4 DEF Starts
  <2>4. RowVectorAt("x", size, m, D, LANES_FP16, i)
    BY <1>4, <2>3, VectorOfRow, LanesFacts
  <2> HIDE DEF vectors
  <2> QED  BY <2>1, <2>2, <2>4 DEF X, RowVectorAt, src
<1>11. ASSUME NEW i \in 0 .. D - 1, NEW p \in Int, p = dst + i, p \in DOMAIN rest
       PROVE  rest[p] = X(size, src + i)
  <2>1. p - dst = i
    BY <1>6, <1>11
  <2>2. rest[p] = X(ThSize(d), src + (p - dst))
    <3> HIDE DEF covered
    <3> QED  BY <1>11
  <2> HIDE DEF rest
  <2> QED  BY <2>1, <2>2
<1>12. JoinedRun(dst, D, LANES_FP16, base, rest, vectors)
  <2> HIDE DEF rest, vectors
  <2> QED  BY <1>6, <1>7, <1>8, RunStored, LanesFacts
<1> HIDE DEF rest, vectors
<1>13. /\ DOMAIN Over(rest, vectors) = dst .. dst + D - 1
       /\ \A i \in 0 .. D - 1 : Over(rest, vectors)[dst + i] = X(size, src + i)
  <2>1. ASSUME NEW i \in 0 .. D - 1
        PROVE  Over(rest, vectors)[dst + i] = X(size, src + i)
    <3> DEFINE p == dst + i
    <3>1. p \in Int
      BY <1>6
    <3> HIDE DEF covered
    <3>2. /\ i < covered => /\ base = dst
                            /\ p \in DOMAIN vectors
                            /\ Over(rest, vectors)[p] = vectors[p]
          /\ ~(i < covered) => /\ p \in DOMAIN rest
                               /\ Over(rest, vectors)[p] = rest[p]
      BY <1>12 DEF JoinedRun, covered
    <3> QED  BY <1>10, <1>11, <3>1, <3>2
  <2> QED  BY <1>12, <2>1 DEF JoinedRun
<1> QED  BY <1>1, <1>3, <1>13 DEF src, m, h, t, ThRow

(* transpose_th_fp16 computes its baseline when its rows start on vector   *)
(* boundaries or hold no whole vector.                                     *)
LEMMA ThFaithful ==
  ASSUME NEW d, NEW T \in Nat \ {0}, NEW H \in Nat \ {0}, NEW D \in Nat \ {0},
         d[1] = T, d[2] = H, d[3] = D, Rowwise(T * H, D, LANES_FP16)
  PROVE  Faithful("transpose_th_fp16", d)
<1> DEFINE k == "transpose_th_fp16"
           R == T * H
           size == ThSize(d)
<1>1. \A s : Step(k, d, s) = transpose_th_fp16(d, s)
  BY DEF Step, Stores, KERNEL
<1>2. R \in Nat /\ Steps(k, KERNEL, d) = R /\ Size(k, d) = R * D /\ size = R * D
  BY DEF Steps, Size, ThSize, KERNEL
<1>3. \A q \in 0 .. R * D - 1 :
        Baseline(k, d)[q]
          = X(size, (((q \div D) % T) * H + (q \div (T * D))) * D + (q % D))
  BY <1>2 DEF Baseline, ThBaseline
<1> HIDE DEF R, k
<1>4. ASSUME NEW s \in 0 .. R - 1
      PROVE  RunRight(k, d, D, s)
  <2>1. s \in Nat
    BY <1>2
  <2>2. /\ DOMAIN transpose_th_fp16(d, s) = s * D .. s * D + D - 1
        /\ \A i \in 0 .. D - 1 :
             transpose_th_fp16(d, s)[s * D + i]
               = X(size, ((s % T) * H + (s \div T)) * D + i)
    <3>1. Meets(s, D, LANES_FP16)
      BY <1>2 DEF Rowwise, Meets, Starts, R
    <3>2. ThRow(d, T, H, D, s)
      BY <2>1, <3>1, ThStored
    <3> QED  BY <3>2 DEF ThRow
  <2>3. ASSUME NEW i \in 0 .. D - 1
        PROVE  Step(k, d, s)[s * D + i] = Baseline(k, d)[s * D + i]
    <3>1. InRun(R, T, D, s, i)
      BY <1>2, PlaceInRun
    <3> DEFINE q == s * D + i
    <3>2. q \in 0 .. R * D - 1 /\ q \div D = s /\ q % D = i /\ q \div (T * D) = s \div T
      BY <3>1 DEF InRun
    <3>3. transpose_th_fp16(d, s)[q] = X(size, ((s % T) * H + (s \div T)) * D + i)
      BY <2>2
    <3> HIDE DEF q
    <3>4. Baseline(k, d)[q] = X(size, ((s % T) * H + (s \div T)) * D + i)
      BY <1>3, <3>2
    <3> QED  BY <1>1, <3>3, <3>4 DEF q
  <2> QED  BY <1>1, <2>2, <2>3 DEF RunRight
<1>5. Faithful(k, d)
  BY <1>2, <1>4, RunsFaithful
<1> QED  BY <1>5 DEF k

(* f is a run of n elements from dst on with the values val.               *)
Holds(f, dst, n, val) ==
  /\ DOMAIN f = dst .. dst + n - 1
  /\ \A i \in 0 .. n - 1 : f[dst + i] = val[i]

(* Where f is given at all, it is the values val from dst on.              *)
GivenBy(f, dst, n, val) ==
  \A i \in 0 .. n - 1 : \A p \in Int : p = dst + i /\ p \in DOMAIN f => f[p] = val[i]

(* A run joined from vectors and a rest holds the values that both give.   *)
LEMMA RunHolds ==
  ASSUME NEW dst \in Int, NEW n \in Nat, NEW width \in Nat \ {0}, NEW base,
         NEW rest, NEW vectors, NEW val,
         JoinedRun(dst, n, width, base, rest, vectors),
         base = dst => GivenBy(vectors, dst, n, val), GivenBy(rest, dst, n, val)
  PROVE  Holds(Over(rest, vectors), dst, n, val)
<1> DEFINE covered == (n \div width) * width
<1>1. ASSUME NEW i \in 0 .. n - 1
      PROVE  Over(rest, vectors)[dst + i] = val[i]
  <2> DEFINE p == dst + i
  <2>1. p \in Int /\ p = dst + i
    OBVIOUS
  <2>2. /\ i < covered => /\ base = dst
                          /\ p \in DOMAIN vectors
                          /\ Over(rest, vectors)[p] = vectors[p]
        /\ ~(i < covered) => /\ p \in DOMAIN rest
                             /\ Over(rest, vectors)[p] = rest[p]
    BY DEF JoinedRun
  <2>3. p \in DOMAIN vectors /\ base = dst => vectors[p] = val[i]
    BY <2>1 DEF GivenBy
  <2>4. p \in DOMAIN rest => rest[p] = val[i]
    BY <2>1 DEF GivenBy
  <2> HIDE DEF covered
  <2> QED  BY <2>2, <2>3, <2>4
<1> QED  BY <1>1 DEF JoinedRun, Holds

-----------------------------------------------------------------------------
(* transpose_hd_fp16: the run of a step is a column of the input.          *)
LEMMA HdRun ==
  ASSUME NEW d, NEW T \in Nat \ {0}, NEW D \in Nat \ {0}, d[2] = T, d[3] = D, NEW s \in Nat,
         NEW val, val = [i \in 0 .. T - 1 |->
                           X(HdSize(d), (s \div D) * T * D + (s % D) + i * D)]
  PROVE  Holds(transpose_hd_fp16(d, s), s * T, T, val)
<1> DEFINE b == s \div D
           j == s % D
           dst == b * D * T + j * T
           covered == (T \div LANES_FP16) * LANES_FP16
           col(t) == X(HdSize(d), b * T * D + j + t * D)
           rest == [q \in dst + covered .. dst + T - 1 |-> col(q - dst)]
           vectors == [q \in dst .. dst + covered - 1 |->
                         col(((q - dst) \div LANES_FP16) * LANES_FP16
                               + ((q - dst) % LANES_FP16))]
<1>1. transpose_hd_fp16(d, s) = Over(rest, vectors)
  BY DEF transpose_hd_fp16, UnalignedRun, StoresFrom
<1>2. b \in Nat /\ j \in Nat /\ b * D + j = s
  <2>1. Splits(s, D)
    BY PlaceInVector
  <2> QED  BY <2>1 DEF Splits
<1>3. val = [i \in 0 .. T - 1 |-> col(i)]
  OBVIOUS
<1> HIDE DEF b, j
<1>4. dst = s * T /\ s * T \in Nat
  BY <1>2
<1> HIDE DEF dst, col
<1>5. /\ DOMAIN rest = dst + covered .. dst + T - 1
      /\ DOMAIN vectors = dst .. dst + covered - 1
  OBVIOUS
<1>6. ASSUME NEW i \in 0 .. T - 1, NEW p \in Int, p = dst + i, p \in DOMAIN vectors
      PROVE  vectors[p] = val[i]
  <2>1. p - dst = i
    BY <1>4, <1>6
  <2>2. vectors[p] = col(((p - dst) \div LANES_FP16) * LANES_FP16 + ((p - dst) % LANES_FP16))
    <3> HIDE DEF covered
    <3> QED  BY <1>6
  <2>3. Splits(i, LANES_FP16)
    BY PlaceInVector, LanesFacts
  <2>4. (i \div LANES_FP16) * LANES_FP16 + (i % LANES_FP16) = i
    BY <2>3 DEF Splits
  <2> HIDE DEF vectors
  <2> QED  BY <1>3, <2>1, <2>2, <2>4
<1>7. ASSUME NEW i \in 0 .. T - 1, NEW p \in Int, p = dst + i, p \in DOMAIN rest
      PROVE  rest[p] = val[i]
  <2>1. p - dst = i
    BY <1>4, <1>7
  <2>2. rest[p] = col(p - dst)
    <3> HIDE DEF covered
    <3> QED  BY <1>7
  <2> HIDE DEF rest
  <2> QED  BY <1>3, <2>1, <2>2
<1>8. JoinedRun(dst, T, LANES_FP16, dst, rest, vectors)
  <2> HIDE DEF rest, vectors
  <2>1. dst \in Nat /\ dst \in Int /\ (dst = dst \/ T < LANES_FP16)
    BY <1>4
  <2>2. T \in Nat /\ LANES_FP16 \in Nat \ {0}
    BY LanesFacts
  <2> QED  BY <1>5, <2>1, <2>2, RunStored
<1> HIDE DEF rest, vectors
<1>9. Holds(Over(rest, vectors), dst, T, val)
  <2>1. GivenBy(vectors, dst, T, val)
    <3> HIDE DEF covered
    <3> QED  BY <1>6 DEF GivenBy
  <2>2. GivenBy(rest, dst, T, val)
    BY <1>7 DEF GivenBy
  <2>3. dst \in Int /\ T \in Nat /\ LANES_FP16 \in Nat \ {0}
    BY <1>4, LanesFacts
  <2> HIDE DEF covered
  <2> QED  BY <1>8, <2>1, <2>2, <2>3, RunHolds
<1> QED  BY <1>1, <1>4, <1>9

(* transpose_hd_fp16 computes its baseline at every shape: it stores       *)
(* through unaligned pointers.                                             *)
LEMMA HdFaithful ==
  ASSUME NEW d, NEW B \in Nat \ {0}, NEW T \in Nat \ {0}, NEW D \in Nat \ {0},
         d[1] = B, d[2] = T, d[3] = D
  PROVE  Faithful("transpose_hd_fp16", d)
<1> DEFINE k == "transpose_hd_fp16"
           R == B * D
           size == HdSize(d)
           from(b, j, i) == b * T * D + j + i * D
<1>1. \A s : Step(k, d, s) = transpose_hd_fp16(d, s)
  BY DEF Step, Stores, KERNEL
<1>2. R \in Nat /\ Steps(k, KERNEL, d) = R /\ Size(k, d) = R * T /\ size = R * T
  BY DEF Steps, Size, HdSize, KERNEL
<1>3. \A q \in 0 .. R * T - 1 :
        Baseline(k, d)[q]
          = X(size, ((q \div (D * T)) * T + (q % T)) * D + ((q \div T) % D))
  BY <1>2 DEF Baseline, HdBaseline
<1> HIDE DEF R, k, size
<1>4. ASSUME NEW s \in 0 .. R - 1
      PROVE  RunRight(k, d, T, s)
  <2> DEFINE val == [i \in 0 .. T - 1 |-> X(HdSize(d), (s \div D) * T * D + (s % D) + i * D)]
  <2>1. s \in Nat
    BY <1>2
  <2>2. Holds(transpose_hd_fp16(d, s), s * T, T, val)
    <3> HIDE DEF val
    <3>1. val = [i \in 0 .. T - 1 |-> X(HdSize(d), (s \div D) * T * D + (s % D) + i * D)]
      BY DEF val
    <3> QED  BY <2>1, <3>1, HdRun
  <2>3. ASSUME NEW i \in 0 .. T - 1
        PROVE  Baseline(k, d)[s * T + i] = val[i]
    <3>1. InRun(R, D, T, s, i)
      BY <1>2, PlaceInRun
    <3> DEFINE q == s * T + i
               b == s \div D
               j == s % D
    <3>2. /\ q \in 0 .. R * T - 1 /\ q \div T = s /\ q % T = i /\ q \div (D * T) = b
      BY <3>1 DEF InRun
    <3>3. b \in Nat /\ j \in Nat
      <4>1. Splits(s, D)
        BY <2>1, PlaceInVector
      <4> QED  BY <4>1 DEF Splits
    <3>4. val[i] = X(HdSize(d), b * T * D + j + i * D)
      OBVIOUS
    <3> HIDE DEF q, b, val
    <3>5. Baseline(k, d)[q] = X(size, (b * T + i) * D + j)
      BY <1>3, <3>2
    <3> HIDE DEF j
    <3>6. (b * T + i) * D + j = b * T * D + j + i * D
      BY <3>3
    <3> QED  BY <3>4, <3>5, <3>6 DEF q, size
  <2> HIDE DEF val
  <2>4. Holds(Step(k, d, s), s * T, T, val)
    BY <1>1, <2>2
  <2>5. DOMAIN Step(k, d, s) = s * T .. s * T + T - 1
    BY <2>4 DEF Holds
  <2>6. \A i \in 0 .. T - 1 : Step(k, d, s)[s * T + i] = Baseline(k, d)[s * T + i]
    BY <2>3, <2>4 DEF Holds
  <2> QED  BY <2>5, <2>6 DEF RunRight
<1>5. Faithful(k, d)
  BY <1>2, <1>4, RunsFaithful
<1> QED  BY <1>5 DEF k

(* The same when a step leaves the end of its run, from element E on, as   *)
(* the baseline does.                                                      *)
ShortRunRight(k, d, C, E, s) ==
  /\ DOMAIN Step(k, d, s) = s * C .. s * C + E - 1
  /\ \A q \in DOMAIN Step(k, d, s) : Step(k, d, s)[q] = Baseline(k, d)[q]

(* The elements past the first E of each row are left alone.               *)
RestLeft(k, d, n, C, E) ==
  \A q \in 0 .. n - 1 : ~(q % C < E) => Baseline(k, d)[q] = <<"poison">>

(* The same for a kernel whose runs leave a rest of each row alone, as its *)
(* baseline does.                                                          *)
LEMMA ShortRunsFaithful ==
  ASSUME NEW k, k \notin DOMAIN Runners, NEW d,
         NEW R \in Nat, NEW C \in Nat \ {0}, NEW E \in 0 .. C,
         Steps(k, KERNEL, d) = R, Size(k, d) = R * C,
         \A s \in 0 .. R - 1 : ShortRunRight(k, d, C, E, s),
         RestLeft(k, d, R * C, C, E)
  PROVE  Faithful(k, d)
<1> USE DEF ShortRunRight, RestLeft
<1>1. ASSUME NEW s \in 0 .. R - 1
      PROVE  s * C \in Nat /\ s * C + C <= R * C
  <2>1. (s + 1) * C <= R * C
    BY ProductGrows
  <2> QED  BY <2>1
<1>2. StaysInside(k, d)
  <2> SUFFICES ASSUME NEW s \in 0 .. R - 1, NEW q \in DOMAIN Step(k, d, s)
               PROVE  q \in 0 .. R * C - 1
    BY DEF StaysInside, Last
  <2> DEFINE a == s * C
             e == R * C
  <2>1. q \in a .. a + E - 1 /\ a \in Nat /\ a + C <= e /\ e \in Nat
    BY <1>1
  <2> HIDE DEF a, e
  <2>2. q \in 0 .. e - 1
    BY <2>1
  <2> QED  BY <2>2 DEF e
<1>3. StoresRight(k, d)
  BY DEF StoresRight, Last
<1>4. StoresAll(k, d)
  <2> SUFFICES ASSUME NEW q \in 0 .. R * C - 1, q % C < E
               PROVE  \E s \in 0 .. R - 1 : q \in DOMAIN Step(k, d, s)
    BY DEF StoresAll, Last
  <2>1. R * C \in Nat /\ q \in Nat /\ q < R * C
    OBVIOUS
  <2>2. q \div C \in 0 .. R - 1
    BY <2>1, Quotient
  <2>3. q \in (q \div C) * C .. (q \div C) * C + E - 1
    <3> DEFINE c == q \div C
               r == q % C
    <3>1. c \in Nat /\ r \in 0 .. C - 1 /\ c * C + r = q /\ r < E
      BY <2>1, PlaceInVector DEF Splits
    <3> HIDE DEF c, r
    <3>2. c * C \in Nat
      BY <3>1
    <3>3. q \in c * C .. c * C + E - 1
      BY <3>1, <3>2
    <3> QED  BY <3>3 DEF c
  <2> QED  BY <2>2, <2>3
<1> QED  BY <1>2, <1>3, <1>4 DEF Faithful

-----------------------------------------------------------------------------
(* rope_2d_fp16.  A load at an address that is aligned.                    *)
LEMMA LoadAt ==
  ASSUME NEW name, NEW size, NEW p \in Int, NEW w \in Nat \ {0}, AlignDown(p, w) = p,
         NEW i \in Int, NEW l \in 0 .. w - 1
  PROVE  Vmem(name, size, p, i, w)[l] = Elem(name, size, p + i * w + l)
BY DEF Vmem

(* One element of a head of D elements, half of them in each half.         *)
RopeElem(d, s, i, half) ==
  LET row == s \div d[2]
  IN  IF i < half
      THEN Turned("sub", RopeX(d, s, i), Table("cos", d, row, i),
                  RopeX(d, s, i + half), Table("sin", d, row, i))
      ELSE Turned("add", RopeX(d, s, i), Table("cos", d, row, i),
                  RopeX(d, s, i - half), Table("sin", d, row, i))

(* What the scalar path stores of head s.                                  *)
RopeHeadAt(d, s, D) ==
  /\ DOMAIN RopeHead(d, s) = s * D .. s * D + 2 * (D \div 2) - 1
  /\ \A q \in DOMAIN RopeHead(d, s) :
       RopeHead(d, s)[q] = RopeElem(d, s, q - s * D, D \div 2)

(* Both halves of a head, and nothing past them, by the scalar path.       *)
LEMMA RopeHeadHolds ==
  ASSUME NEW d, NEW D \in Nat \ {0}, d[3] = D, NEW s \in Nat
  PROVE  RopeHeadAt(d, s, D)
BY DEF RopeHead, RopeScalar, RopeElem, RopeHeadAt

(* What the scalar path stores of a head is what the baseline has there.   *)
LEMMA RopeHeadOf ==
  ASSUME NEW d, NEW R \in Nat, NEW D \in Nat \ {0}, d[3] = D, R * D = RopeSize(d),
         NEW s \in 0 .. R - 1, NEW q \in DOMAIN RopeHead(d, s)
  PROVE  RopeBaseline(d)[q] = RopeHead(d, s)[q]
<1> DEFINE i == q - s * D
<1>1. s \in Nat /\ s * D \in Nat /\ q \in s * D .. s * D + 2 * (D \div 2) - 1
  <2>1. RopeHeadAt(d, s, D)
    BY RopeHeadHolds
  <2> QED  BY <2>1 DEF RopeHeadAt
<1>2. 2 * (D \div 2) <= D
  OBVIOUS
<1>3. i \in 0 .. D - 1 /\ i \in 0 .. 2 * (D \div 2) - 1 /\ q = s * D + i
  BY <1>1, <1>2
<1> HIDE DEF i
<1>4. InRun(R, D, D, s, i)
  BY <1>3, PlaceInRun
<1>5. q \in 0 .. RopeSize(d) - 1 /\ q \div D = s /\ q % D = i
  BY <1>3, <1>4 DEF InRun
<1> QED  BY <1>3, <1>5 DEF RopeBaseline

(* The head as one vector, its two halves the widened pair.                *)
RopeVectorAt(d, s, D) ==
  /\ DOMAIN rope_vector(d, s) = s * D .. s * D + D - 1
  /\ \A q \in DOMAIN rope_vector(d, s) :
       rope_vector(d, s)[q] = RopeElem(d, s, q - s * D, D \div 2)

(* The vector path stores the same head.                                   *)
LEMMA RopeVectorHolds ==
  ASSUME NEW d, NEW H \in Nat \ {0}, NEW D \in Nat \ {0}, D = LANES_FP16,
         d[2] = H, d[3] = D, NEW s \in Nat
  PROVE  RopeVectorAt(d, s, D)
<1> DEFINE F == LANES_FP32
           t == s \div H
           table(name, i) == Vmem(name, d[1] * D, t * D, i, LANES_FP32)
           x == Vmem("x", RopeSize(d), s * D, 0, LANES_FP16)
           part == WidenOrdered(x)
           mul(u, v) == Lanes("mul", u, v)
           lo == Lanes("sub", mul(part[1], table("cos", 0)), mul(part[2], table("sin", 0)))
           hi == Lanes("add", mul(part[2], table("cos", 1)), mul(part[1], table("sin", 1)))
           y == NarrowOrdered(lo, hi)
           base == AlignDown(s * D, D)
<1>1. rope_vector(d, s) = [q \in base .. base + D - 1 |-> y[q % D]]
  BY DEF rope_vector
<1>2. F \in Nat \ {0} /\ D = 2 * F /\ D \div 2 = F
  BY LanesFacts
<1>3. t \in Nat
  <2>1. Splits(s, H)
    BY PlaceInVector
  <2> QED  BY <2>1 DEF Splits
<1> HIDE DEF t, F
<1>4. base = s * D /\ s * D \in Nat
  BY Aligned
<1>5. ASSUME NEW l \in 0 .. F - 1
      PROVE  /\ part[1][l] = RopeX(d, s, l)
             /\ part[2][l] = RopeX(d, s, F + l)
  <2>1. l \in 0 .. LANES_FP16 - 1 /\ F + l \in 0 .. LANES_FP16 - 1
    BY <1>2
  <2>2. ASSUME NEW j \in 0 .. LANES_FP16 - 1
        PROVE  x[j] = RopeX(d, s, j)
    <3> DEFINE a == s * D
    <3>1. a \in Int /\ AlignDown(a, LANES_FP16) = a
      BY <1>4
    <3> HIDE DEF a
    <3>2. Vmem("x", RopeSize(d), a, 0, LANES_FP16)[j]
            = Elem("x", RopeSize(d), a + 0 * LANES_FP16 + j)
      BY <3>1, LoadAt, LanesFacts
    <3>3. a + 0 * LANES_FP16 + j = a + j
      BY <3>1, LanesFacts
    <3> QED  BY <3>2, <3>3 DEF a, RopeX
  <2> HIDE DEF x
  <2>3. part[1][l] = x[l] /\ part[2][l] = x[F + l]
    BY InOrder DEF F
  <2> QED  BY <2>1, <2>2, <2>3
<1>6. ASSUME NEW l \in 0 .. F - 1, NEW name
      PROVE  /\ table(name, 0)[l] = Table(name, d, t, l)
             /\ table(name, 1)[l] = Table(name, d, t, F + l)
  <2> DEFINE a == t * D
  <2>1. a \in Int /\ AlignDown(a, F) = a
    <3>1. t * D = (2 * t) * F
      BY <1>2, <1>3
    <3> DEFINE m == 2 * t
    <3>2. m \in Int /\ a = m * F
      BY <1>3, <3>1
    <3> HIDE DEF m, a
    <3>3. AlignDown(m * F, F) = m * F /\ m * F \in Int
      BY <1>2, <3>2, Aligned
    <3> QED  BY <3>2, <3>3
  <2> HIDE DEF a
  <2>2. /\ Vmem(name, d[1] * D, a, 0, F)[l] = Elem(name, d[1] * D, a + 0 * F + l)
        /\ Vmem(name, d[1] * D, a, 1, F)[l] = Elem(name, d[1] * D, a + 1 * F + l)
    BY <1>2, <2>1, LoadAt
  <2>3. a + 0 * F + l = a + l /\ a + 1 * F + l = a + (F + l)
    BY <1>2, <2>1
  <2> QED  BY <2>2, <2>3 DEF a, F, Table
<1>7. DOMAIN part[1] = 0 .. F - 1 /\ DOMAIN part[2] = 0 .. F - 1
  BY WidenedLanes DEF WidenOrdered, F
<1> HIDE DEF part, table
<1>8. ASSUME NEW l \in 0 .. F - 1
      PROVE  /\ y[l] = RopeElem(d, s, l, F)
             /\ y[F + l] = RopeElem(d, s, F + l, F)
  <2>1. lo[l] = << "sub", <<"mul", part[1][l], table("cos", 0)[l]>>,
                          <<"mul", part[2][l], table("sin", 0)[l]>> >>
    BY <1>7 DEF Lanes
  <2>2. hi[l] = << "add", <<"mul", part[2][l], table("cos", 1)[l]>>,
                          <<"mul", part[1][l], table("sin", 1)[l]>> >>
    BY <1>7 DEF Lanes
  <2> HIDE DEF lo, hi
  <2>3. y[l] = lo[l] /\ y[F + l] = hi[l]
    BY BackInOrder DEF F
  <2> HIDE DEF y
  <2>4. l < F /\ ~(F + l < F) /\ l + F = F + l /\ (F + l) - F = l
    BY <1>2
  <2>5. y[l] = RopeElem(d, s, l, F)
    <3>1. RopeElem(d, s, l, F)
            = Turned("sub", RopeX(d, s, l), Table("cos", d, t, l),
                     RopeX(d, s, F + l), Table("sin", d, t, l))
      BY <2>4 DEF RopeElem, t
    <3> QED  BY <1>5, <1>6, <2>1, <2>3, <3>1 DEF Turned
  <2>6. y[F + l] = RopeElem(d, s, F + l, F)
    <3>1. RopeElem(d, s, F + l, F)
            = Turned("add", RopeX(d, s, F + l), Table("cos", d, t, F + l),
                     RopeX(d, s, l), Table("sin", d, t, F + l))
      BY <2>4 DEF RopeElem, t
    <3> QED  BY <1>5, <1>6, <2>2, <2>3, <3>1 DEF Turned
  <2> QED  BY <2>5, <2>6
<1> HIDE DEF y, base
<1>9. ASSUME NEW i \in 0 .. D - 1
      PROVE  y[i] = RopeElem(d, s, i, F)
  <2>1. CASE i < F
    BY <1>2, <1>8, <2>1
  <2>2. CASE ~(i < F)
    <3>1. i - F \in 0 .. F - 1 /\ F + (i - F) = i
      BY <1>2, <2>2
    <3> QED  BY <1>8, <3>1
  <2> QED  BY <2>1, <2>2
<1>10. ASSUME NEW q \in s * D .. s * D + D - 1
       PROVE  q - s * D \in 0 .. D - 1 /\ q % D = q - s * D
  <2> DEFINE i == q - s * D
  <2>1. i \in 0 .. D - 1 /\ q = s * D + i
    BY <1>4
  <2> HIDE DEF i
  <2>2. InRun(s + 1, D, D, s, i)
    BY <2>1, PlaceInRun
  <2>3. (s * D + i) % D = i
    BY <2>2 DEF InRun
  <2> QED  BY <2>1, <2>3 DEF i
<1>11. DOMAIN rope_vector(d, s) = s * D .. s * D + D - 1
  BY <1>1, <1>4
<1>12. ASSUME NEW q \in s * D .. s * D + D - 1
       PROVE  rope_vector(d, s)[q] = RopeElem(d, s, q - s * D, D \div 2)
  <2>1. rope_vector(d, s)[q] = y[q % D]
    BY <1>1, <1>4
  <2> QED  BY <1>2, <1>9, <1>10, <2>1
<1> QED  BY <1>11, <1>12 DEF RopeVectorAt

(* rope_2d_fp16 computes its baseline at every shape: a head of one vector *)
(* by the vector path, any other by the scalar one, an odd last element    *)
(* left alone.                                                             *)
LEMMA RopeFaithful ==
  ASSUME NEW d, NEW T \in Nat \ {0}, NEW H \in Nat \ {0}, NEW D \in Nat \ {0},
         d[1] = T, d[2] = H, d[3] = D
  PROVE  Faithful("rope_2d_fp16", d)
<1> DEFINE k == "rope_2d_fp16"
           R == T * H
           E == 2 * (D \div 2)
<1>1. \A s : Step(k, d, s) = rope_2d_fp16(d, s)
  BY DEF Step, Stores, KERNEL
<1>2. /\ R \in Nat /\ Steps(k, KERNEL, d) = R
      /\ Size(k, d) = R * D /\ RopeSize(d) = R * D
  BY DEF Steps, Size, RopeSize, KERNEL
<1>3. k \notin DOMAIN Runners
  BY DEF Runners
<1>4. E \in 0 .. D
  OBVIOUS
<1>5. Baseline(k, d) = RopeBaseline(d)
  BY DEF Baseline
<1>6. ASSUME NEW q \in 0 .. R * D - 1, ~(q % D < E)
      PROVE  Baseline(k, d)[q] = <<"poison">>
  <2>1. q \in 0 .. RopeSize(d) - 1 /\ q % D \notin 0 .. E - 1
    <3> HIDE DEF E, R
    <3> QED  BY <1>2, <1>4, <1>6
  <2> QED  BY <1>5, <2>1 DEF RopeBaseline
<1> HIDE DEF k, R
<1>7. ASSUME NEW s \in 0 .. R - 1
      PROVE  /\ DOMAIN Step(k, d, s) = s * D .. s * D + E - 1
             /\ \A q \in DOMAIN Step(k, d, s) : Step(k, d, s)[q] = Baseline(k, d)[q]
  <2>1. s \in Nat
    BY <1>2
  <2>2. RopeHeadAt(d, s, D)
    BY <2>1, RopeHeadHolds
  <2>3. \A q \in DOMAIN RopeHead(d, s) : RopeBaseline(d)[q] = RopeHead(d, s)[q]
    BY <1>2, RopeHeadOf
  <2>4. CASE D = LANES_FP16
    <3>1. RopeVectorAt(d, s, D)
      BY <2>1, <2>4, RopeVectorHolds
    <3>2. E = D
      BY <2>4, LanesFacts
    <3>3. Step(k, d, s) = rope_vector(d, s)
      BY <1>1, <2>4 DEF rope_2d_fp16
    <3>4. DOMAIN rope_vector(d, s) = s * D .. s * D + E - 1
      BY <3>1, <3>2 DEF RopeVectorAt
    <3>5. DOMAIN RopeHead(d, s) = s * D .. s * D + E - 1
      BY <2>2 DEF RopeHeadAt
    <3> HIDE DEF E
    <3>6. \A q \in DOMAIN rope_vector(d, s) : rope_vector(d, s)[q] = RopeHead(d, s)[q]
      BY <2>2, <3>1, <3>4, <3>5 DEF RopeHeadAt, RopeVectorAt
    <3> QED  BY <1>5, <2>3, <3>3, <3>4, <3>5, <3>6
  <2>5. CASE D # LANES_FP16
    <3>1. Step(k, d, s) = RopeHead(d, s)
      BY <1>1, <2>5 DEF rope_2d_fp16
    <3>2. DOMAIN RopeHead(d, s) = s * D .. s * D + E - 1
      BY <2>2 DEF RopeHeadAt
    <3> HIDE DEF E
    <3> QED  BY <1>5, <2>3, <3>1, <3>2
  <2> QED  BY <2>4, <2>5
<1> HIDE DEF E
<1>8. RestLeft(k, d, R * D, D, E)
  BY <1>6 DEF RestLeft
<1>9. \A s \in 0 .. R - 1 : ShortRunRight(k, d, D, E, s)
  BY <1>7 DEF ShortRunRight
<1>10. Faithful(k, d)
  BY <1>2, <1>3, <1>4, <1>8, <1>9, ShortRunsFaithful
<1> QED  BY <1>10 DEF k

(* Lane by lane, the values val of a run whose vectors start at base.      *)
LanesAt(vectors, base, w, val) ==
  \A q \in DOMAIN vectors :
    vectors[q] = val[((q - base) \div w) * w + ((q - base) % w)]

(* Element by element, the values val of the rest of a run.                *)
ElemsAt(rest, dst, val) == \A q \in DOMAIN rest : rest[q] = val[q - dst]

(* A run whose lanes and whose rest are the values val holds val.          *)
LEMMA RunAt ==
  ASSUME NEW dst \in Nat, NEW n \in Nat, NEW w \in Nat \ {0}, NEW base \in Int,
         base = dst \/ n < w, NEW rest, NEW vectors, NEW val,
         DOMAIN rest = dst + (n \div w) * w .. dst + n - 1,
         DOMAIN vectors = base .. base + (n \div w) * w - 1,
         base = dst => LanesAt(vectors, base, w, val), ElemsAt(rest, dst, val)
  PROVE  Holds(Over(rest, vectors), dst, n, val)
<1>1. JoinedRun(dst, n, w, base, rest, vectors)
  BY RunStored
<1>2. GivenBy(rest, dst, n, val)
  <2> SUFFICES ASSUME NEW i \in 0 .. n - 1, NEW p \in Int, p = dst + i, p \in DOMAIN rest
               PROVE  rest[p] = val[i]
    BY DEF GivenBy
  <2>1. p - dst = i
    OBVIOUS
  <2> QED  BY <2>1 DEF ElemsAt
<1>3. base = dst => GivenBy(vectors, dst, n, val)
  <2> SUFFICES ASSUME base = dst, NEW i \in 0 .. n - 1, NEW p \in Int, p = dst + i,
                      p \in DOMAIN vectors
               PROVE  vectors[p] = val[i]
    BY DEF GivenBy
  <2>1. p - base = i
    OBVIOUS
  <2>2. vectors[p] = val[(i \div w) * w + (i % w)]
    BY <2>1 DEF LanesAt
  <2>3. Splits(i, w)
    BY PlaceInVector
  <2>4. (i \div w) * w + (i % w) = i
    BY <2>3 DEF Splits
  <2> QED  BY <2>2, <2>4
<1> QED  BY <1>1, <1>2, <1>3, RunHolds

(* A place in a vector of the whole vectors of a run.                      *)
InVector(n, w, q) ==
  /\ q \div w \in Nat /\ q % w \in 0 .. w - 1
  /\ (q \div w) * w + (q % w) = q /\ q \in 0 .. n - 1

(* A place in the whole vectors of a run has a vector and a lane.          *)
LEMMA WholeVectors ==
  ASSUME NEW n \in Nat, NEW w \in Nat \ {0}, NEW base \in Nat,
         NEW q \in base .. base + (n \div w) * w - 1
  PROVE  InVector(n, w, q - base)
<1> DEFINE covered == (n \div w) * w
           r == q - base
<1>1. covered \in 0 .. n
  BY WholeOnes
<1> HIDE DEF covered
<1>2. q \in base .. base + covered - 1
  BY DEF covered
<1>3. r \in Nat /\ r \in 0 .. n - 1
  BY <1>1, <1>2
<1> HIDE DEF r
<1>4. Splits(r, w)
  BY <1>3, PlaceInVector
<1>5. InVector(n, w, r)
  BY <1>3, <1>4 DEF Splits, InVector
<1> QED  BY <1>5 DEF r

-----------------------------------------------------------------------------
(* layernorm_fp16.  A vector of an aligned row, and one of its lanes.      *)
LEMMA RowLoad ==
  ASSUME NEW d, NEW C \in Nat \ {0}, d[2] = C, NEW r \in Nat, Starts(r, C, LANES_FP16),
         NEW i \in Nat, NEW l \in 0 .. LANES_FP16 - 1
  PROVE  RowVector(d, r, i)[l] = RowX(d, r, i * LANES_FP16 + l)
<1> DEFINE a == r * C
           b == i * LANES_FP16
<1>1. AlignedRow(r, C, LANES_FP16)
  BY RowAligned, LanesFacts
<1>2. a \in Int /\ AlignDown(a, LANES_FP16) = a /\ b \in Int
  BY <1>1, LanesFacts DEF AlignedRow
<1> HIDE DEF a
<1>3. Vmem("x", RowSize(d), a, i, LANES_FP16)[l] = Elem("x", RowSize(d), a + i * LANES_FP16 + l)
  BY <1>2, LoadAt, LanesFacts
<1> HIDE DEF b
<1>4. a + b + l = a + (b + l)
  BY <1>2
<1> QED  BY <1>3, <1>4 DEF a, b, RowVector, RowX

(* Half h of vector i of a row, and the vector stored for it.              *)
LayerNormHalf(d, r, i, h) ==
  LET part == WidenOrdered(RowVector(d, r, i))[h]
      w == Vmem("w", d[2], 0, 2 * i + h - 1, LANES_FP32)
      b == Vmem("b", d[2], 0, 2 * i + h - 1, LANES_FP32)
  IN  [l \in DOMAIN part |-> LayerNorm(d, r, part[l], w[l], b[l])]
LayerNormVector(d, r, i) == NarrowOrdered(LayerNormHalf(d, r, i, 1), LayerNormHalf(d, r, i, 2))

(* A lane of one half: its element, with its weight and its bias.          *)
LEMMA LayerNormHalfLane ==
  ASSUME NEW d, NEW C \in Nat \ {0}, d[2] = C, NEW r \in Nat, Starts(r, C, LANES_FP16),
         NEW i \in Nat, NEW h \in {1, 2}, NEW l \in 0 .. LANES_FP32 - 1
  PROVE  LayerNormHalf(d, r, i, h)[l]
           = LayerNormElem(d, r, i * LANES_FP16 + (h - 1) * LANES_FP32 + l)
<1> DEFINE v == 2 * i + h - 1
           u == (h - 1) * LANES_FP32 + l
           part == WidenOrdered(RowVector(d, r, i))[h]
           c == i * LANES_FP16 + u
<1>1. /\ u \in 0 .. LANES_FP16 - 1 /\ v \in Int /\ v * LANES_FP32 + l = c
      /\ h = 1 => u = l
      /\ h = 2 => u = LANES_FP32 + l
      /\ c = i * LANES_FP16 + (h - 1) * LANES_FP32 + l
  BY LanesFacts
<1>2. part[l] = RowVector(d, r, i)[u]
  BY <1>1, InOrder
<1>3. part[l] = RowX(d, r, c)
  <2> HIDE DEF u, part
  <2> QED  BY <1>1, <1>2, RowLoad
<1>4. l \in DOMAIN part
  BY WidenedLanes DEF WidenOrdered
<1> HIDE DEF v, part, c
<1>5. \A name : Vmem(name, C, 0, v, LANES_FP32)[l] = Affine(name, d, c)
  BY <1>1, FirstLoad, LanesFacts DEF Affine
<1>6. LayerNormHalf(d, r, i, h)[l]
        = LayerNorm(d, r, part[l], Vmem("w", C, 0, v, LANES_FP32)[l],
                    Vmem("b", C, 0, v, LANES_FP32)[l])
  BY <1>4 DEF LayerNormHalf, part, v
<1> QED  BY <1>1, <1>3, <1>5, <1>6 DEF LayerNormElem

(* A lane of the vector that layernorm_fp16 stores.                        *)
LEMMA LayerNormLane ==
  ASSUME NEW d, NEW C \in Nat \ {0}, d[2] = C, NEW r \in Nat, Starts(r, C, LANES_FP16),
         NEW i \in Nat, NEW l \in 0 .. LANES_FP16 - 1
  PROVE  LayerNormVector(d, r, i)[l] = LayerNormElem(d, r, i * LANES_FP16 + l)
<1>1. CASE l < LANES_FP32
  <2>1. /\ l \in 0 .. LANES_FP32 - 1
        /\ i * LANES_FP16 + (1 - 1) * LANES_FP32 + l = i * LANES_FP16 + l
    BY <1>1, LanesFacts
  <2> DEFINE lo == LayerNormHalf(d, r, i, 1)
             hi == LayerNormHalf(d, r, i, 2)
  <2>2. LayerNormVector(d, r, i)[l] = LayerNormHalf(d, r, i, 1)[l]
    <3>1. LayerNormVector(d, r, i) = NarrowOrdered(lo, hi)
      BY DEF LayerNormVector
    <3> HIDE DEF lo, hi
    <3>2. NarrowOrdered(lo, hi)[l] = lo[l]
      BY <2>1, BackInOrder
    <3> QED  BY <3>1, <3>2 DEF lo
  <2>3. LayerNormHalf(d, r, i, 1)[l]
          = LayerNormElem(d, r, i * LANES_FP16 + (1 - 1) * LANES_FP32 + l)
    BY <2>1, LayerNormHalfLane
  <2> QED  BY <2>1, <2>2, <2>3
<1>2. CASE ~(l < LANES_FP32)
  <2> DEFINE u == l - LANES_FP32
  <2>1. /\ u \in 0 .. LANES_FP32 - 1 /\ LANES_FP32 + u = l
        /\ i * LANES_FP16 + (2 - 1) * LANES_FP32 + u = i * LANES_FP16 + l
    BY <1>2, LanesFacts
  <2> HIDE DEF u
  <2>2. LayerNormVector(d, r, i)[LANES_FP32 + u] = LayerNormHalf(d, r, i, 2)[u]
    BY <2>1, BackInOrder DEF LayerNormVector
  <2>3. LayerNormHalf(d, r, i, 2)[u]
          = LayerNormElem(d, r, i * LANES_FP16 + (2 - 1) * LANES_FP32 + u)
    BY <2>1, LayerNormHalfLane
  <2> QED  BY <2>1, <2>2, <2>3
<1> QED  BY <1>1, <1>2

(* The stores of one row of layernorm_fp16.                                *)
LEMMA LayerNormStored ==
  ASSUME NEW d, NEW C \in Nat \ {0}, d[2] = C, NEW r \in Nat, Meets(r, C, LANES_FP16), NEW val,
         val = [c \in 0 .. C - 1 |-> LayerNormElem(d, r, c)]
  PROVE  Holds(layernorm_fp16(d, r), r * C, C, val)
<1> DEFINE dst == r * C
           base == AlignDown(dst, LANES_FP16)
           covered == (C \div LANES_FP16) * LANES_FP16
           rest == [q \in dst + covered .. dst + C - 1 |-> LayerNormElem(d, r, q - dst)]
           vectors == [q \in base .. base + covered - 1 |->
                         LayerNormVector(d, r, (q - base) \div LANES_FP16)
                           [(q - base) % LANES_FP16]]
<1>1. layernorm_fp16(d, r) = Over(rest, vectors)
  BY DEF layernorm_fp16, LayerNormRow, AlignedRun, StoresFrom, LayerNormVector, LayerNormHalf
<1>2. dst \in Nat /\ base \in Int
  BY LanesFacts DEF AlignDown
<1>3. Starts(r, C, LANES_FP16) => base = dst
  <2>1. Starts(r, C, LANES_FP16) => AlignedRow(r, C, LANES_FP16)
    BY RowAligned, LanesFacts
  <2> QED  BY <2>1 DEF AlignedRow
<1>4. base = dst \/ C < LANES_FP16
  BY <1>3 DEF Meets
<1> HIDE DEF base, dst
<1>5. /\ DOMAIN rest = dst + covered .. dst + C - 1
      /\ DOMAIN vectors = base .. base + covered - 1
  OBVIOUS
<1>6. covered \in 0 .. C
  BY WholeOnes, LanesFacts
<1>7. ElemsAt(rest, dst, val)
  <2> SUFFICES ASSUME NEW q \in DOMAIN rest
               PROVE  rest[q] = val[q - dst]
    BY DEF ElemsAt
  <2>1. q - dst \in 0 .. C - 1
    <3> HIDE DEF covered
    <3> QED  BY <1>2, <1>5, <1>6
  <2>2. rest[q] = LayerNormElem(d, r, q - dst)
    <3> HIDE DEF covered
    <3> QED  OBVIOUS
  <2> QED  BY <2>1, <2>2
<1>8. base = dst => LanesAt(vectors, base, LANES_FP16, val)
  <2> SUFFICES ASSUME base = dst, NEW q \in DOMAIN vectors
               PROVE  vectors[q] = val[((q - base) \div LANES_FP16) * LANES_FP16
                                         + ((q - base) % LANES_FP16)]
    BY DEF LanesAt
  <2> DEFINE i == (q - base) \div LANES_FP16
             l == (q - base) % LANES_FP16
  <2>1. vectors[q] = LayerNormVector(d, r, i)[l]
    <3> HIDE DEF covered
    <3> QED  OBVIOUS
  <2>2. InVector(C, LANES_FP16, q - base)
    BY <1>2, <1>5, WholeVectors, LanesFacts
  <2>3. i \in Nat /\ l \in 0 .. LANES_FP16 - 1 /\ i * LANES_FP16 + l \in 0 .. C - 1
    BY <2>2 DEF InVector
  <2>4. Starts(r, C, LANES_FP16)
    <3>1. C < LANES_FP16 => covered = 0
      BY NoVectors, LanesFacts
    <3> HIDE DEF covered
    <3> QED  BY <1>2, <1>5, <3>1 DEF Meets
  <2> HIDE DEF i, l, vectors
  <2>5. LayerNormVector(d, r, i)[l] = LayerNormElem(d, r, i * LANES_FP16 + l)
    BY <2>3, <2>4, LayerNormLane
  <2> QED  BY <2>1, <2>3, <2>5 DEF i, l
<1> HIDE DEF rest, vectors
<1>9. Holds(Over(rest, vectors), dst, C, val)
  BY <1>2, <1>4, <1>5, <1>7, <1>8, RunAt, LanesFacts
<1> QED  BY <1>1, <1>9 DEF dst

(* layernorm_fp16 computes its baseline when its rows start on vector      *)
(* boundaries or hold no whole vector.                                     *)
LEMMA LayerNormFaithful ==
  ASSUME NEW d, NEW R \in Nat \ {0}, NEW C \in Nat \ {0}, d[1] = R, d[2] = C,
         Rowwise(R, C, LANES_FP16)
  PROVE  Faithful("layernorm_fp16", d)
<1> DEFINE k == "layernorm_fp16"
<1>1. \A s : Step(k, d, s) = layernorm_fp16(d, s)
  BY DEF Step, Stores, KERNEL
<1>2. R \in Nat /\ Steps(k, KERNEL, d) = R /\ Size(k, d) = R * C /\ RowSize(d) = R * C
  BY DEF Steps, Size, RowSize, KERNEL
<1>3. \A q \in 0 .. R * C - 1 :
        Baseline(k, d)[q] = LayerNormElem(d, q \div C, q % C)
  BY <1>2 DEF Baseline, LayerNormBaseline, RowsOf
<1> HIDE DEF k
<1>4. ASSUME NEW s \in 0 .. R - 1
      PROVE  RunRight(k, d, C, s)
  <2> DEFINE val == [c \in 0 .. C - 1 |-> LayerNormElem(d, s, c)]
  <2>1. ASSUME NEW i \in 0 .. C - 1
        PROVE  Baseline(k, d)[s * C + i] = val[i]
    <3>1. InRun(R, C, C, s, i)
      BY <1>2, PlaceInRun
    <3> DEFINE q == s * C + i
    <3>2. q \in 0 .. R * C - 1 /\ q \div C = s /\ q % C = i
      BY <3>1 DEF InRun
    <3> HIDE DEF q
    <3>3. Baseline(k, d)[q] = LayerNormElem(d, s, i)
      BY <1>3, <3>2
    <3> QED  BY <3>3 DEF q
  <2> HIDE DEF val
  <2>2. Holds(layernorm_fp16(d, s), s * C, C, val)
    <3>1. val = [c \in 0 .. C - 1 |-> LayerNormElem(d, s, c)]
      BY DEF val
    <3>2. Meets(s, C, LANES_FP16)
      BY <1>2 DEF Rowwise, Meets, Starts
    <3> QED  BY <3>1, <3>2, LayerNormStored
  <2>3. s \in Nat /\ Holds(Step(k, d, s), s * C, C, val)
    BY <1>1, <1>2, <2>2
  <2>4. DOMAIN Step(k, d, s) = s * C .. s * C + C - 1
    BY <2>3 DEF Holds
  <2>5. \A i \in 0 .. C - 1 : Step(k, d, s)[s * C + i] = Baseline(k, d)[s * C + i]
    BY <2>1, <2>3 DEF Holds
  <2> QED  BY <2>4, <2>5 DEF RunRight
<1>5. Faithful(k, d)
  BY <1>2, <1>4, RunsFaithful
<1> QED  BY <1>5 DEF k

(* matmul_fp16.  One element of C: row s of A and column n of batch b of B. *)
MmAt(d, s, b, n) ==
  MmElem(d, s, LAMBDA k : (b * d[3] + k) * d[4] + n)

(* A vector of a row of B, the accumulators over the rows, and the vector  *)
(* stored from them.                                                       *)
MmRow(d, b, k, i) ==
  Vmemu("B", d[1] * d[3] * d[4], (b * d[3] + k) * d[4] + i * LANES_FP16, LANES_FP16)
MmAcc(d, s, b, i, h) ==
  [l \in 0 .. LANES_FP32 - 1 |->
     Dot(d[3], LAMBDA k : <<MmA(d, s * d[3] + k), WidenOrdered(MmRow(d, b, k, i))[h][l]>>)]
MmVector(d, s, b, i) == NarrowOrdered(MmAcc(d, s, b, i, 1), MmAcc(d, s, b, i, 2))

(* Their lanes.                                                            *)
MmRowAt(d, b, k, i, u) ==
  MmRow(d, b, k, i)[u] = MmB(d, (b * d[3] + k) * d[4] + (i * LANES_FP16 + u))
MmVectorAt(d, s, b, i, l) ==
  MmVector(d, s, b, i)[l] = MmAt(d, s, b, i * LANES_FP16 + l)

(* A lane of a vector of a row of B.                                       *)
LEMMA MmRowLane ==
  ASSUME NEW d, NEW K \in Nat, NEW N \in Nat \ {0}, d[3] = K, d[4] = N,
         NEW b \in Nat, NEW k \in 0 .. K - 1, NEW i \in Nat, NEW u \in 0 .. LANES_FP16 - 1
  PROVE  MmRowAt(d, b, k, i, u)
<1> DEFINE a == (b * K + k) * N
           c == i * LANES_FP16
<1>1. a \in Nat /\ c \in Nat
  BY LanesFacts
<1>2. MmRow(d, b, k, i)[u] = Elem("B", d[1] * K * N, a + c + u)
  BY DEF MmRow, Vmemu
<1> HIDE DEF a, c
<1>3. a + c + u = a + (c + u)
  BY <1>1
<1> QED  BY <1>2, <1>3 DEF MmB, a, c, MmRowAt

(* A lane of an accumulator is the whole dot product of its column.        *)
LEMMA MmAccLane ==
  ASSUME NEW d, NEW K \in Nat, NEW N \in Nat \ {0}, d[3] = K, d[4] = N, NEW s \in Nat,
         NEW b \in Nat, NEW i \in Nat, NEW h \in {1, 2}, NEW l \in 0 .. LANES_FP32 - 1
  PROVE  MmAcc(d, s, b, i, h)[l]
           = MmAt(d, s, b, i * LANES_FP16 + ((h - 1) * LANES_FP32 + l))
<1> DEFINE u == (h - 1) * LANES_FP32 + l
           n == i * LANES_FP16 + u
<1>1. /\ u \in 0 .. LANES_FP16 - 1
      /\ h = 1 => u = l
      /\ h = 2 => u = LANES_FP32 + l
  BY LanesFacts
<1>2. ASSUME NEW k \in 0 .. K - 1
      PROVE  WidenOrdered(MmRow(d, b, k, i))[h][l] = MmB(d, (b * K + k) * N + n)
  <2>1. WidenOrdered(MmRow(d, b, k, i))[h][l] = MmRow(d, b, k, i)[u]
    BY <1>1, InOrder
  <2> HIDE DEF u
  <2>2. MmRowAt(d, b, k, i, u)
    BY <1>1, MmRowLane
  <2> QED  BY <2>1, <2>2 DEF MmRowAt
<1>3. MmAcc(d, s, b, i, h)[l]
        = <<"dot", [k \in 0 .. K - 1 |->
                      <<MmA(d, s * K + k), WidenOrdered(MmRow(d, b, k, i))[h][l]>>]>>
  BY DEF MmAcc, Dot
<1> HIDE DEF n
<1>4. MmAt(d, s, b, n)
        = <<"dot", [k \in 0 .. K - 1 |->
                      <<MmA(d, s * K + k), MmB(d, (b * K + k) * N + n)>>]>>
  BY DEF MmAt, MmElem, Dot
<1>5. [k \in 0 .. K - 1 |-> <<MmA(d, s * K + k), WidenOrdered(MmRow(d, b, k, i))[h][l]>>]
        = [k \in 0 .. K - 1 |-> <<MmA(d, s * K + k), MmB(d, (b * K + k) * N + n)>>]
  BY <1>2
<1> QED  BY <1>3, <1>4, <1>5 DEF n, u

(* A lane of the vector that matmul_fp16 stores.                           *)
LEMMA MmLane ==
  ASSUME NEW d, NEW K \in Nat, NEW N \in Nat \ {0}, d[3] = K, d[4] = N, NEW s \in Nat,
         NEW b \in Nat, NEW i \in Nat, NEW l \in 0 .. LANES_FP16 - 1
  PROVE  MmVectorAt(d, s, b, i, l)
<1> USE DEF MmVectorAt
<1> DEFINE lo == MmAcc(d, s, b, i, 1)
           hi == MmAcc(d, s, b, i, 2)
<1>1. MmVector(d, s, b, i) = NarrowOrdered(lo, hi)
  BY DEF MmVector
<1>2. CASE l < LANES_FP32
  <2>1. l \in 0 .. LANES_FP32 - 1 /\ (1 - 1) * LANES_FP32 + l = l
    BY <1>2, LanesFacts
  <2>2. lo[l] = MmAt(d, s, b, i * LANES_FP16 + ((1 - 1) * LANES_FP32 + l))
    BY <2>1, MmAccLane
  <2> HIDE DEF lo, hi
  <2>3. NarrowOrdered(lo, hi)[l] = lo[l]
    BY <2>1, BackInOrder
  <2> QED  BY <1>1, <2>1, <2>2, <2>3
<1>3. CASE ~(l < LANES_FP32)
  <2> DEFINE u == l - LANES_FP32
  <2>1. u \in 0 .. LANES_FP32 - 1 /\ LANES_FP32 + u = l /\ (2 - 1) * LANES_FP32 + u = l
    BY <1>3, LanesFacts
  <2> HIDE DEF u
  <2>2. hi[u] = MmAt(d, s, b, i * LANES_FP16 + ((2 - 1) * LANES_FP32 + u))
    BY <2>1, MmAccLane
  <2> HIDE DEF lo, hi
  <2>3. NarrowOrdered(lo, hi)[LANES_FP32 + u] = hi[u]
    BY <2>1, BackInOrder
  <2> QED  BY <1>1, <2>1, <2>2, <2>3
<1> QED  BY <1>2, <1>3

(* What one row of matmul_fp16 stores, by accumulators or, when there are  *)
(* too many, column by column.                                             *)
LEMMA MmStores ==
  ASSUME NEW d, NEW s
  PROVE  matmul_fp16(d, s)
           = IF d[4] \div LANES_FP16 > MM_MAX_NVEC64
             THEN [q \in s * d[4] .. (s + 1) * d[4] - 1 |->
                     MmAt(d, s, s \div d[2], q - s * d[4])]
             ELSE Over([q \in s * d[4] + (d[4] \div LANES_FP16) * LANES_FP16
                                .. s * d[4] + d[4] - 1 |->
                          MmAt(d, s, s \div d[2], q - s * d[4])],
                       [q \in s * d[4]
                                .. s * d[4] + (d[4] \div LANES_FP16) * LANES_FP16 - 1 |->
                          MmVector(d, s, s \div d[2], (q - s * d[4]) \div LANES_FP16)
                            [(q - s * d[4]) % LANES_FP16]])
BY Zenon DEF matmul_fp16, UnalignedRun, StoresFrom, MmVector, MmAcc, MmRow, MmAt

(* What the baseline has at an element.                                    *)
LEMMA MmBaselineAt ==
  ASSUME NEW d, NEW q \in 0 .. MmSize(d) - 1
  PROVE  MatmulBaseline(d)[q] = MmAt(d, q \div d[4], q \div (d[2] * d[4]), q % d[4])
BY Zenon DEF MatmulBaseline, MmAt

(* The stores of one row of matmul_fp16.                                   *)
LEMMA MmStored ==
  ASSUME NEW d, NEW M \in Nat \ {0}, NEW K \in Nat, NEW N \in Nat \ {0},
         d[2] = M, d[3] = K, d[4] = N, NEW s \in Nat, NEW b \in Nat, b = s \div M, NEW val,
         val = [n \in 0 .. N - 1 |-> MmAt(d, s, b, n)]
  PROVE  Holds(matmul_fp16(d, s), s * N, N, val)
<1> DEFINE dst == s * N
           covered == (N \div LANES_FP16) * LANES_FP16
           rest == [q \in dst + covered .. dst + N - 1 |-> MmAt(d, s, b, q - dst)]
           vectors == [q \in dst .. dst + covered - 1 |->
                         MmVector(d, s, b, (q - dst) \div LANES_FP16)
                           [(q - dst) % LANES_FP16]]
           scalar == [q \in dst .. (s + 1) * N - 1 |-> MmAt(d, s, b, q - dst)]
<1>1. matmul_fp16(d, s)
        = IF N \div LANES_FP16 > MM_MAX_NVEC64 THEN scalar ELSE Over(rest, vectors)
  BY MmStores
<1>2. dst \in Nat /\ dst \in Int /\ (s + 1) * N = dst + N
  OBVIOUS
<1> HIDE DEF dst
<1>3. /\ DOMAIN rest = dst + covered .. dst + N - 1
      /\ DOMAIN vectors = dst .. dst + covered - 1
  OBVIOUS
<1>4. covered \in 0 .. N
  BY WholeOnes, LanesFacts
<1>5. ElemsAt(rest, dst, val)
  <2> SUFFICES ASSUME NEW q \in DOMAIN rest
               PROVE  rest[q] = val[q - dst]
    BY DEF ElemsAt
  <2>1. q - dst \in 0 .. N - 1
    <3> HIDE DEF covered
    <3> QED  BY <1>2, <1>3, <1>4
  <2>2. rest[q] = MmAt(d, s, b, q - dst)
    <3> HIDE DEF covered
    <3> QED  OBVIOUS
  <2> QED  BY <2>1, <2>2
<1>6. LanesAt(vectors, dst, LANES_FP16, val)
  <2> SUFFICES ASSUME NEW q \in DOMAIN vectors
               PROVE  vectors[q] = val[((q - dst) \div LANES_FP16) * LANES_FP16
                                         + ((q - dst) % LANES_FP16)]
    BY DEF LanesAt
  <2> DEFINE i == (q - dst) \div LANES_FP16
             l == (q - dst) % LANES_FP16
  <2>1. vectors[q] = MmVector(d, s, b, i)[l]
    <3> HIDE DEF covered
    <3> QED  OBVIOUS
  <2>2. InVector(N, LANES_FP16, q - dst)
    BY <1>2, <1>3, WholeVectors, LanesFacts
  <2>3. i \in Nat /\ l \in 0 .. LANES_FP16 - 1 /\ i * LANES_FP16 + l \in 0 .. N - 1
    BY <2>2 DEF InVector
  <2> HIDE DEF i, l, vectors
  <2>4. MmVectorAt(d, s, b, i, l)
    BY <2>3, MmLane
  <2> QED  BY <2>1, <2>3, <2>4 DEF i, l, MmVectorAt
<1>7. Holds(scalar, dst, N, val)
  <2>1. scalar = [q \in dst .. dst + N - 1 |-> MmAt(d, s, b, q - dst)]
    BY <1>2
  <2>2. ASSUME NEW i \in 0 .. N - 1
        PROVE  scalar[dst + i] = val[i]
    <3> DEFINE p == dst + i
    <3>1. p \in dst .. dst + N - 1 /\ p - dst = i
      BY <1>2
    <3> HIDE DEF p
    <3>2. scalar[p] = MmAt(d, s, b, p - dst)
      BY <2>1, <3>1
    <3> QED  BY <3>1, <3>2 DEF p
  <2> QED  BY <2>1, <2>2 DEF Holds
<1> HIDE DEF rest, vectors, scalar
<1>8. Holds(Over(rest, vectors), dst, N, val)
  <2>1. dst = dst => LanesAt(vectors, dst, LANES_FP16, val)
    BY <1>6
  <2> QED  BY <1>2, <1>3, <1>5, <2>1, RunAt, LanesFacts
<1> QED  BY <1>1, <1>7, <1>8 DEF dst

(* matmul_fp16 computes its baseline at every shape, an empty inner        *)
(* dimension included.                                                     *)
LEMMA MatmulFaithful ==
  ASSUME NEW d, NEW B \in Nat \ {0}, NEW M \in Nat \ {0}, NEW K \in Nat, NEW N \in Nat \ {0},
         d[1] = B, d[2] = M, d[3] = K, d[4] = N
  PROVE  Faithful("matmul_fp16", d)
<1> DEFINE k == "matmul_fp16"
           R == B * M
<1>1. \A s : Step(k, d, s) = matmul_fp16(d, s)
  BY DEF Step, Stores, KERNEL
<1>2. R \in Nat /\ Steps(k, KERNEL, d) = R /\ Size(k, d) = R * N /\ MmSize(d) = R * N
  BY DEF Steps, Size, MmSize, KERNEL
<1>3. ASSUME NEW q \in 0 .. R * N - 1, NEW s, NEW b, NEW n,
             q \div N = s, q \div (M * N) = b, q % N = n
      PROVE  Baseline(k, d)[q] = MmAt(d, s, b, n)
  <2>1. Baseline(k, d) = MatmulBaseline(d)
    BY DEF Baseline
  <2>2. q \in 0 .. MmSize(d) - 1
    BY <1>2
  <2> QED  BY <1>3, <2>1, <2>2, MmBaselineAt
<1> HIDE DEF k, R
<1>4. ASSUME NEW s \in 0 .. R - 1
      PROVE  RunRight(k, d, N, s)
  <2> DEFINE b == s \div M
             val == [n \in 0 .. N - 1 |-> MmAt(d, s, b, n)]
  <2>1. s \in Nat /\ b \in Nat
    <3>1. s \in Nat
      BY <1>2
    <3>2. Splits(s, M)
      BY <3>1, PlaceInVector
    <3> QED  BY <3>1, <3>2 DEF Splits
  <2>2. ASSUME NEW i \in 0 .. N - 1
        PROVE  Baseline(k, d)[s * N + i] = val[i]
    <3>1. InRun(R, M, N, s, i)
      BY <1>2, PlaceInRun
    <3> DEFINE q == s * N + i
    <3>2. q \in 0 .. R * N - 1 /\ q \div N = s /\ q % N = i /\ q \div (M * N) = b
      BY <3>1 DEF InRun
    <3> HIDE DEF q
    <3>3. Baseline(k, d)[q] = MmAt(d, s, b, i)
      BY <1>3, <3>2
    <3> QED  BY <3>3 DEF q
  <2>3. Holds(matmul_fp16(d, s), s * N, N, val)
    BY <2>1, MmStored
  <2> HIDE DEF val
  <2>4. Holds(Step(k, d, s), s * N, N, val)
    BY <1>1, <2>3
  <2>5. DOMAIN Step(k, d, s) = s * N .. s * N + N - 1
    BY <2>4 DEF Holds
  <2>6. \A i \in 0 .. N - 1 : Step(k, d, s)[s * N + i] = Baseline(k, d)[s * N + i]
    BY <2>2, <2>4 DEF Holds
  <2> QED  BY <2>5, <2>6 DEF RunRight
<1>5. Faithful(k, d)
  BY <1>2, <1>4, RunsFaithful
<1> QED  BY <1>5 DEF k

(* A masked store of n elements, at most a vector of them, touches just    *)
(* those.                                                                  *)
MaskFirst(dst, n) ==
  LET left == dst % LANES_FP16
      right == left + n
  IN  {l \in 0 .. LANES_FP16 - 1 : l >= left /\ (l < right \/ right > LANES_FP16)}
MaskNext(dst, n) ==
  LET right == (dst % LANES_FP16) + n
  IN  IF right > LANES_FP16 THEN 0 .. right - LANES_FP16 - 1 ELSE {}

(* The elements the two masked stores touch.                               *)
LEMMA MaskTouches ==
  ASSUME NEW dst, NEW n, NEW v
  PROVE  DOMAIN hvx_vec_store_u(dst, n, v)
           = {AlignDown(dst, LANES_FP16) + l : l \in MaskFirst(dst, n)}
               \union {AlignDown(dst, LANES_FP16) + LANES_FP16 + l : l \in MaskNext(dst, n)}
BY Zenon DEF hvx_vec_store_u, MaskFirst, MaskNext

(* They are the first n elements of the vector, at dst and in order,       *)
(* wherever dst lies.                                                      *)
LEMMA MaskedStore ==
  ASSUME NEW dst \in Nat, NEW n \in 0 .. LANES_FP16, NEW v
  PROVE  hvx_vec_store_u(dst, n, v) = [q \in dst .. dst + n - 1 |-> v[q - dst]]
<1> DEFINE left == dst % LANES_FP16
           base == AlignDown(dst, LANES_FP16)
           first == MaskFirst(dst, n)
           next == MaskNext(dst, n)
           touched == DOMAIN hvx_vec_store_u(dst, n, v)
<1>1. hvx_vec_store_u(dst, n, v) = [q \in touched |-> v[q - dst]]
  BY DEF hvx_vec_store_u
<1>a. \A q : q \in touched <=> \/ \E l \in first : q = base + l
                               \/ \E l \in next : q = base + LANES_FP16 + l
  <2>1. touched = {base + l : l \in first} \union {base + LANES_FP16 + l : l \in next}
    BY MaskTouches
  <2> HIDE DEF touched, first, next, base
  <2> QED  BY <2>1
<1> HIDE DEF touched
<1>2. left \in 0 .. LANES_FP16 - 1 /\ LANES_FP16 \in Nat \ {0} /\ base = dst - left
  <2>1. LANES_FP16 \in Nat \ {0}
    BY LanesFacts
  <2> QED  BY <2>1, Division DEF AlignDown
<1>b. /\ \A l : l \in first <=> /\ l \in 0 .. LANES_FP16 - 1 /\ l >= left
                                /\ l < left + n \/ left + n > LANES_FP16
      /\ left + n > LANES_FP16 => next = 0 .. (left + n) - LANES_FP16 - 1
      /\ ~(left + n > LANES_FP16) => next = {}
  <2>1. \A l : l \in first <=> /\ l \in 0 .. LANES_FP16 - 1 /\ l >= left
                               /\ l < left + n \/ left + n > LANES_FP16
    BY DEF MaskFirst
  <2>2. left + n > LANES_FP16 => next = 0 .. (left + n) - LANES_FP16 - 1
    BY DEF MaskNext
  <2>3. ~(left + n > LANES_FP16) => next = {}
    BY DEF MaskNext
  <2> QED  BY <2>1, <2>2, <2>3
<1> HIDE DEF left, base, first, next
<1>3. touched = dst .. dst + n - 1
  <2>1. ASSUME NEW q \in touched
        PROVE  q \in dst .. dst + n - 1
    <3>1. CASE \E l \in first : q = base + l
      BY <1>2, <1>b, <3>1
    <3>2. CASE \E l \in next : q = base + LANES_FP16 + l
      BY <1>2, <1>b, <3>2
    <3> QED  BY <1>a, <2>1, <3>1, <3>2
  <2>2. ASSUME NEW q \in dst .. dst + n - 1
        PROVE  q \in touched
    <3> DEFINE l == q - base
    <3>1. l \in Int /\ l >= left /\ l < left + n /\ q = base + l
      BY <1>2
    <3>2. CASE l < LANES_FP16
      <4>1. l \in first
        BY <1>2, <1>b, <3>1, <3>2
      <4> QED  BY <1>a, <3>1, <4>1
    <3>3. CASE ~(l < LANES_FP16)
      <4>1. l - LANES_FP16 \in next /\ q = base + LANES_FP16 + (l - LANES_FP16)
        BY <1>2, <1>b, <3>1, <3>3
      <4> QED  BY <1>a, <4>1
    <3> QED  BY <3>2, <3>3
  <2> QED  BY <2>1, <2>2
<1> QED  BY <1>1, <1>3

-----------------------------------------------------------------------------
(* matmul_epilogue_fp16.  Column i of block bb of row m.                   *)
EpAt(d, m, bb, i) ==
  mm_act(d[4], Biased(Dot(d[2], LAMBDA k : <<EpA(d, m, k), DequantAt(d, k, bb)[i]>>),
                      Elem("bias", d[3], bb * MM_Q4_0_BLOCK + i)))

(* The lanes of a block: weights, sums, bias, and what is stored.          *)
EpWeights(d, k, bb) ==
  [l \in 0 .. LANES_FP16 - 1 |->
     IF l < MM_Q4_0_BLOCK THEN DequantAt(d, k, bb)[l] ELSE <<"zero">>]
EpSum(d, m, bb) ==
  [l \in 0 .. LANES_FP32 - 1 |->
     Dot(d[2], LAMBDA k : <<EpA(d, m, k), WidenOrdered(EpWeights(d, k, bb))[1][l]>>)]
EpBias(d, bb) == Vmemu("bias", d[3], bb * MM_Q4_0_BLOCK, LANES_FP32)
EpValues(d, m, bb) ==
  [l \in 0 .. LANES_FP32 - 1 |->
     mm_act(d[4], Biased(EpSum(d, m, bb)[l], EpBias(d, bb)[l]))]
EpZeros == [l \in 0 .. LANES_FP32 - 1 |-> <<"zero">>]

(* What one block of matmul_epilogue_fp16 stores.                          *)
LEMMA EpStores ==
  ASSUME NEW d, NEW s
  PROVE  matmul_epilogue_fp16(d, s)
           = hvx_vec_store_u((s \div EpBlocks(d)) * d[3] + (s % EpBlocks(d)) * MM_Q4_0_BLOCK,
                             MM_Q4_0_BLOCK,
                             NarrowOrdered(EpValues(d, s \div EpBlocks(d), s % EpBlocks(d)),
                                           EpZeros))
BY Zenon DEF matmul_epilogue_fp16, EpilogueBlock, EpValues, EpZeros, EpSum, EpBias, EpWeights

(* A lane of what it stores.                                               *)
LEMMA EpLane ==
  ASSUME NEW d, NEW m, NEW bb, NEW i \in 0 .. LANES_FP32 - 1
  PROVE  NarrowOrdered(EpValues(d, m, bb), EpZeros)[i] = EpAt(d, m, bb, i)
<1> DEFINE r == EpValues(d, m, bb)
           z == EpZeros
<1>1. NarrowOrdered(r, z)[i] = r[i]
  <2> HIDE DEF r, z
  <2> QED  BY BackInOrder
<1>2. r[i] = mm_act(d[4], Biased(EpSum(d, m, bb)[i], EpBias(d, bb)[i]))
  BY DEF EpValues
<1>3. EpBias(d, bb)[i] = Elem("bias", d[3], bb * MM_Q4_0_BLOCK + i)
  BY DEF EpBias, Vmemu
<1>4. EpSum(d, m, bb)[i]
        = <<"dot", [k \in 0 .. d[2] - 1 |->
                      <<EpA(d, m, k), WidenOrdered(EpWeights(d, k, bb))[1][i]>>]>>
  BY DEF EpSum, Dot
<1>5. ASSUME NEW k
      PROVE  WidenOrdered(EpWeights(d, k, bb))[1][i] = DequantAt(d, k, bb)[i]
  <2>1. WidenOrdered(EpWeights(d, k, bb))[1][i] = EpWeights(d, k, bb)[i]
    BY InOrder
  <2>2. i \in 0 .. LANES_FP16 - 1 /\ i < MM_Q4_0_BLOCK
    BY LanesFacts DEF MM_Q4_0_BLOCK
  <2> QED  BY <2>1, <2>2 DEF EpWeights
<1>6. [k \in 0 .. d[2] - 1 |-> <<EpA(d, m, k), WidenOrdered(EpWeights(d, k, bb))[1][i]>>]
        = [k \in 0 .. d[2] - 1 |-> <<EpA(d, m, k), DequantAt(d, k, bb)[i]>>]
  BY <1>5
<1>7. Dot(d[2], LAMBDA k : <<EpA(d, m, k), DequantAt(d, k, bb)[i]>>)
        = <<"dot", [k \in 0 .. d[2] - 1 |-> <<EpA(d, m, k), DequantAt(d, k, bb)[i]>>]>>
  BY DEF Dot
<1>8. EpSum(d, m, bb)[i] = Dot(d[2], LAMBDA k : <<EpA(d, m, k), DequantAt(d, k, bb)[i]>>)
  BY <1>4, <1>6, <1>7
<1> HIDE DEF r
<1> QED  BY <1>1, <1>2, <1>3, <1>8 DEF EpAt, r

(* What the baseline has at an element of a block.                         *)
LEMMA EpBaselineAt ==
  ASSUME NEW d, d[3] % MM_Q4_0_BLOCK = 0, NEW q \in 0 .. EpSize(d) - 1,
         NEW m, m = q \div d[3], NEW n, n = q % d[3],
         NEW bb, bb = n \div MM_Q4_0_BLOCK, NEW i, i = n % MM_Q4_0_BLOCK,
         n = bb * MM_Q4_0_BLOCK + i
  PROVE  EpilogueBaseline(d)[q] = EpAt(d, m, bb, i)
<1> DEFINE value(p) ==
             LET mm == p \div d[3]   nn == p % d[3]   b == nn \div MM_Q4_0_BLOCK
                 w(k) == mm_dequant_block(k * EpBlocks(d) + b, k * EpBlocks(d) + b)
                           [nn % MM_Q4_0_BLOCK]
             IN  mm_act(d[4], Biased(Dot(d[2], LAMBDA k : <<EpA(d, mm, k), w(k)>>),
                                     Elem("bias", d[3], nn)))
<1>1. EpilogueBaseline(d)[q] = value(q)
  BY DEF EpilogueBaseline
<1>2. value(q)
        = mm_act(d[4], Biased(Dot(d[2], LAMBDA k :
                                <<EpA(d, q \div d[3], k),
                                  DequantAt(d, k, (q % d[3]) \div MM_Q4_0_BLOCK)
                                    [(q % d[3]) % MM_Q4_0_BLOCK]>>),
                              Elem("bias", d[3], q % d[3])))
  BY Zenon DEF DequantAt
<1>3. ASSUME NEW k
      PROVE  <<EpA(d, q \div d[3], k),
               DequantAt(d, k, (q % d[3]) \div MM_Q4_0_BLOCK)[(q % d[3]) % MM_Q4_0_BLOCK]>>
               = <<EpA(d, m, k), DequantAt(d, k, bb)[i]>>
  OBVIOUS
<1>4. [k \in 0 .. d[2] - 1 |->
         <<EpA(d, q \div d[3], k),
           DequantAt(d, k, (q % d[3]) \div MM_Q4_0_BLOCK)[(q % d[3]) % MM_Q4_0_BLOCK]>>]
        = [k \in 0 .. d[2] - 1 |-> <<EpA(d, m, k), DequantAt(d, k, bb)[i]>>]
  BY <1>3
<1> HIDE DEF value
<1> QED  BY <1>1, <1>2, <1>4 DEF EpAt, Dot

(* Element i of block s of the output, in rows of n blocks of w.           *)
InBlock(n, w, s, i) ==
  /\ (s \div n) * (n * w) + (s % n) * w = s * w
  /\ (s * w + i) % (n * w) = (s % n) * w + i
  /\ ((s % n) * w + i) \div w = s % n
  /\ ((s % n) * w + i) % w = i

(* Where an element of a block lies in the whole output.                   *)
LEMMA PlaceInBlock ==
  ASSUME NEW n \in Nat \ {0}, NEW w \in Nat \ {0}, NEW s \in Nat, NEW i \in 0 .. w - 1
  PROVE  InBlock(n, w, s, i)
<1> DEFINE m == s \div n
           bb == s % n
<1>1. m \in Nat /\ bb \in 0 .. n - 1 /\ m * n + bb = s
  <2>1. Splits(s, n)
    BY PlaceInVector
  <2> QED  BY <2>1 DEF Splits
<1> HIDE DEF m, bb
<1>2. m * (n * w) + bb * w = s * w /\ n * w \in Nat \ {0}
  BY <1>1
<1>3. InRun(bb + 1, n, w, bb, i)
  BY <1>1, PlaceInRun
<1>4. InRun(n, n, w, bb, i)
  BY <1>1, PlaceInRun
<1> DEFINE a == bb * w
           e == n * w
<1>5. a + i \in 0 .. e - 1
  BY <1>4 DEF InRun
<1>6. s * w + i = m * e + (a + i)
  <2>1. a \in Int /\ m * e \in Int /\ s * w = m * e + a
    BY <1>1, <1>2
  <2> HIDE DEF a, e
  <2> QED  BY <2>1
<1>7. (m * e + (a + i)) % e = a + i
  <2> DEFINE j == a + i
  <2>1. e \in Nat \ {0} /\ m \in Nat /\ j \in 0 .. e - 1
    BY <1>1, <1>2, <1>5
  <2> HIDE DEF a, e, j
  <2>2. InRun(m + 1, e, e, m, j)
    BY <2>1, PlaceInRun
  <2> QED  BY <2>2 DEF InRun, j
<1>8. (s * w + i) % e = a + i
  BY <1>6, <1>7
<1> QED  BY <1>2, <1>3, <1>8 DEF InRun, InBlock, m, bb

(* matmul_epilogue_fp16 computes its baseline at every shape; where it     *)
(* refuses one, both leave the output alone.                               *)
LEMMA EpilogueFaithful ==
  ASSUME NEW d, NEW M \in Nat \ {0}, NEW N \in Nat \ {0}, d[1] = M, d[3] = N
  PROVE  Faithful("matmul_epilogue_fp16", d)
<1> DEFINE k == "matmul_epilogue_fp16"
           W == MM_Q4_0_BLOCK
           n == N \div W
           R == M * n
<1>1. \A s : Step(k, d, s) = matmul_epilogue_fp16(d, s)
  BY DEF Step, Stores, KERNEL
<1>2. W \in Nat \ {0} /\ W <= LANES_FP16 /\ W = LANES_FP32
  BY LanesFacts DEF MM_Q4_0_BLOCK
<1>3. k \notin DOMAIN Runners /\ Baseline(k, d) = EpilogueBaseline(d)
  BY DEF Runners, Baseline
<1>4. CASE N % W # 0
  <2>1. Steps(k, KERNEL, d) = 0
    BY <1>4 DEF Steps, EpSteps, KERNEL
  <2>2. ASSUME NEW q \in 0 .. Size(k, d) - 1
        PROVE  Baseline(k, d)[q] = <<"poison">>
    <3>1. q \in 0 .. EpSize(d) - 1
      BY DEF Size
    <3> QED  BY <1>3, <1>4, <3>1 DEF EpilogueBaseline
  <2> QED  BY <1>3, <2>1, <2>2 DEF Faithful, StaysInside, StoresRight, StoresAll, Last
<1>5. CASE N % W = 0
  <2>1. n \in Nat \ {0} /\ N = n * W
    <3>1. Splits(N, W)
      BY <1>2, PlaceInVector
    <3> HIDE DEF W
    <3>2. n \in Nat /\ n * W = N
      BY <1>2, <1>5, <3>1 DEF Splits
    <3> HIDE DEF n
    <3>3. n # 0
      BY <1>2, <3>2
    <3> QED  BY <3>2, <3>3
  <2>2. EpBlocks(d) = n
    BY DEF EpBlocks
  <2>3. /\ Steps(k, KERNEL, d) = R /\ R \in Nat
        /\ Size(k, d) = EpSize(d) /\ EpSize(d) = M * N
    <3>1. Steps(k, KERNEL, d) = EpSteps(d) /\ Size(k, d) = EpSize(d) /\ EpSize(d) = M * N
      BY DEF Steps, Size, EpSize, KERNEL
    <3>2. EpSteps(d) = M * EpBlocks(d)
      BY <1>5 DEF EpSteps
    <3> HIDE DEF n
    <3> QED  BY <2>1, <2>2, <3>1, <3>2
  <2>4. M * N = R * W
    <3> HIDE DEF n, W
    <3> QED  BY <1>2, <2>1
  <2> HIDE DEF n, W, R, k
  <2>5. ASSUME NEW s \in 0 .. R - 1
        PROVE  RunRight(k, d, W, s)
    <3> DEFINE m == s \div n
               bb == s % n
               v == NarrowOrdered(EpValues(d, m, bb), EpZeros)
    <3>1. s \in Nat /\ s * W \in Nat
      BY <1>2, <2>3
    <3>2. \A i \in 0 .. W - 1 : InBlock(n, W, s, i)
      BY <1>2, <2>1, <3>1, PlaceInBlock
    <3>3. m * N + bb * W = s * W
      <4>1. InBlock(n, W, s, 0)
        BY <1>2, <3>2
      <4> QED  BY <2>1, <4>1 DEF InBlock
    <3> HIDE DEF m, bb
    <3>4. Step(k, d, s) = hvx_vec_store_u(s * W, W, v)
      <4>1. matmul_epilogue_fp16(d, s) = hvx_vec_store_u(m * N + bb * W, W, v)
        BY <2>2, EpStores DEF W, m, bb
      <4> QED  BY <1>1, <3>3, <4>1
    <3> HIDE DEF v
    <3>5. Step(k, d, s) = [q \in s * W .. s * W + W - 1 |-> v[q - s * W]]
      <4> DEFINE a == s * W
      <4>1. W \in 0 .. LANES_FP16 /\ a \in Nat
        BY <1>2, <3>1, LanesFacts
      <4>2. Step(k, d, s) = hvx_vec_store_u(a, W, v)
        BY <3>4
      <4> HIDE DEF a
      <4>3. hvx_vec_store_u(a, W, v) = [q \in a .. a + W - 1 |-> v[q - a]]
        BY <4>1, MaskedStore
      <4> QED  BY <4>2, <4>3 DEF a
    <3>6. ASSUME NEW i \in 0 .. W - 1
          PROVE  Step(k, d, s)[s * W + i] = Baseline(k, d)[s * W + i]
      <4> DEFINE q == s * W + i
      <4>1. InRun(R, n, W, s, i)
        BY <1>2, <2>1, <2>3, PlaceInRun
      <4>2. /\ q \in 0 .. EpSize(d) - 1 /\ q \div N = m
            /\ q % N = bb * W + i /\ (bb * W + i) \div W = bb /\ (bb * W + i) % W = i
        BY <2>1, <2>3, <2>4, <3>2, <4>1 DEF InRun, InBlock, m, bb
      <4>3. q \in s * W .. s * W + W - 1 /\ q - s * W = i
        <5> DEFINE a == s * W
        <5>1. a \in Nat
          BY <3>1
        <5> HIDE DEF a
        <5>2. a + i \in a .. a + W - 1 /\ (a + i) - a = i
          BY <1>2, <5>1
        <5> QED  BY <5>2 DEF a
      <4> HIDE DEF q
      <4>4. Step(k, d, s)[q] = v[i]
        BY <3>5, <4>3
      <4>5. v[i] = EpAt(d, m, bb, i)
        BY <1>2, EpLane DEF v
      <4>6. EpilogueBaseline(d)[q] = EpAt(d, m, bb, i)
        BY <1>5, <4>2, EpBaselineAt DEF W
      <4> QED  BY <1>3, <4>4, <4>5, <4>6 DEF q, k
    <3>7. DOMAIN Step(k, d, s) = s * W .. s * W + W - 1
      BY <3>5
    <3> QED  BY <3>6, <3>7 DEF RunRight
  <2>6. Faithful(k, d)
    BY <1>2, <2>3, <2>4, <2>5, RunsFaithful
  <2> QED  BY <2>6 DEF k
<1> QED  BY <1>4, <1>5

(* Two digits in one number, and back.                                     *)
Packed(n, w, s, i) ==
  s * w + i \in 0 .. n * w - 1 /\ (s * w + i) \div w = s /\ (s * w + i) % w = i
Unpacked(n, w, q) ==
  q \div w \in 0 .. n - 1 /\ q % w \in 0 .. w - 1 /\ (q \div w) * w + (q % w) = q

(* Dividing q by x and then by y.                                          *)
DividedTwice(q, x, y) == q \div (y * x) = (q \div x) \div y

(* A digit and a lower one make a number below the product of their bases. *)
LEMMA Pack ==
  ASSUME NEW n \in Nat, NEW w \in Nat \ {0}, NEW s \in 0 .. n - 1, NEW i \in 0 .. w - 1
  PROVE  Packed(n, w, s, i)
<1>1. InRun(n, 1, w, s, i)
  BY PlaceInRun
<1> QED  BY <1>1 DEF InRun, Packed

(* Every such number is made of two digits.                                *)
LEMMA Unpack ==
  ASSUME NEW n \in Nat, NEW w \in Nat \ {0}, NEW q \in 0 .. n * w - 1
  PROVE  Unpacked(n, w, q)
<1>1. q \in Nat /\ q < n * w
  OBVIOUS
<1>2. q \div w \in 0 .. n - 1
  BY <1>1, Quotient
<1>3. Splits(q, w)
  BY <1>1, PlaceInVector
<1> QED  BY <1>2, <1>3 DEF Splits, Unpacked

(* Dividing by a product is dividing twice.                                *)
LEMMA DivideTwice ==
  ASSUME NEW q \in Nat, NEW x \in Nat \ {0}, NEW y \in Nat \ {0}
  PROVE  DividedTwice(q, x, y)
<1> DEFINE s == q \div x
           i == q % x
<1>1. s \in Nat /\ i \in 0 .. x - 1 /\ s * x + i = q
  <2>1. Splits(q, x)
    BY PlaceInVector
  <2> QED  BY <2>1 DEF Splits
<1> HIDE DEF s, i
<1>2. InRun(s + 1, y, x, s, i)
  BY <1>1, PlaceInRun
<1>3. (s * x + i) \div (y * x) = s \div y
  BY <1>2 DEF InRun
<1> QED  BY <1>1, <1>3 DEF DividedTwice, s

-----------------------------------------------------------------------------
(* patchify_fp32.  A patch by its merge block (a, c) and its place (b, e)  *)
(* in the block, and the number it gets.                                   *)
PatchNumber(G, Bw, a, b, c, e) == ((a * Bw + c) * G + b) * G + e

(* token gives it that number, and no number is too great.                 *)
TokenAt(d, G, Bh, Bw, a, b, c, e) ==
  /\ PatchNumber(G, Bw, a, b, c, e) \in 0 .. Bh * Bw * G * G - 1
  /\ token(d, a * G + b, c * G + e) = PatchNumber(G, Bw, a, b, c, e)
  /\ PatchAt(d, PatchNumber(G, Bw, a, b, c, e)) = <<a * G + b, c * G + e>>

(* token gives a patch the number of its place.                            *)
LEMMA TokenNumbers ==
  ASSUME NEW d, NEW G \in Nat \ {0}, NEW Bh \in Nat \ {0}, NEW Bw \in Nat \ {0},
         d[6] = G, d[8] = Bw * G,
         NEW a \in 0 .. Bh - 1, NEW b \in 0 .. G - 1,
         NEW c \in 0 .. Bw - 1, NEW e \in 0 .. G - 1
  PROVE  TokenAt(d, G, Bh, Bw, a, b, c, e)
<1> DEFINE block == a * Bw + c
           row == block * G + b
           k == row * G + e
<1>1. d[8] \div d[6] = Bw
  <2>1. Packed(Bw + 1, G, Bw, 0)
    BY Pack
  <2> QED  BY <2>1 DEF Packed
<1>2. /\ (a * G + b) \div G = a /\ (a * G + b) % G = b
      /\ (c * G + e) \div G = c /\ (c * G + e) % G = e
  <2>1. Packed(Bh, G, a, b) /\ Packed(Bw, G, c, e)
    BY Pack
  <2> QED  BY <2>1 DEF Packed
<1>3. block \in 0 .. Bh * Bw - 1 /\ block \div Bw = a /\ block % Bw = c
  <2>1. Packed(Bh, Bw, a, c)
    BY Pack
  <2> QED  BY <2>1 DEF Packed
<1> HIDE DEF block
<1>4. row \in 0 .. Bh * Bw * G - 1 /\ row \div G = block /\ row % G = b
  <2> DEFINE n == Bh * Bw
  <2>1. n \in Nat
    OBVIOUS
  <2>2. n * G = Bh * Bw * G
    OBVIOUS
  <2> HIDE DEF n
  <2>3. Packed(n, G, block, b)
    BY <1>3, <2>1, Pack DEF n
  <2> QED  BY <2>2, <2>3 DEF Packed
<1> HIDE DEF row
<1>5. k \in 0 .. Bh * Bw * G * G - 1 /\ k \div G = row /\ k % G = e
  <2> DEFINE n == Bh * Bw * G
  <2>1. n \in Nat
    OBVIOUS
  <2>2. n * G = Bh * Bw * G * G
    OBVIOUS
  <2> HIDE DEF n
  <2>3. Packed(n, G, row, e)
    BY <1>4, <2>1, Pack DEF n
  <2> QED  BY <2>2, <2>3 DEF Packed
<1>6. k \in Nat
  <2>1. row \in Nat
    BY <1>4
  <2> QED  BY <2>1
<1> HIDE DEF k
<1>7. k \div (G * G) = block
  <2>1. DividedTwice(k, G, G)
    BY <1>6, DivideTwice
  <2> QED  BY <1>4, <1>5, <2>1 DEF DividedTwice
<1>8. PatchNumber(G, Bw, a, b, c, e) = k
  BY DEF PatchNumber, k, row, block
<1>9. token(d, a * G + b, c * G + e) = k
  <2> DEFINE gh == a * G + b
             gw == c * G + e
  <2>1. gh \div G = a /\ gh % G = b /\ gw \div G = c /\ gw % G = e
    BY <1>2
  <2> HIDE DEF gh, gw
  <2>2. token(d, gh, gw) = ((a * Bw + c) * G + b) * G + e
    BY <1>1, <2>1 DEF token
  <2> QED  BY <2>2 DEF gh, gw, k, row, block
<1>10. PatchAt(d, k) = <<a * G + b, c * G + e>>
  BY <1>1, <1>3, <1>4, <1>5, <1>7 DEF PatchAt
<1> QED  BY <1>5, <1>8, <1>9, <1>10 DEF TokenAt

(* Every number is some patch's.                                           *)
NumberOf(G, Bh, Bw, k) ==
  \E a \in 0 .. Bh - 1, b \in 0 .. G - 1, c \in 0 .. Bw - 1, e \in 0 .. G - 1 :
    k = PatchNumber(G, Bw, a, b, c, e)

(* Every number below the number of patches is some patch's.               *)
LEMMA NumbersTaken ==
  ASSUME NEW G \in Nat \ {0}, NEW Bh \in Nat \ {0}, NEW Bw \in Nat \ {0},
         NEW k \in 0 .. Bh * Bw * G * G - 1
  PROVE  NumberOf(G, Bh, Bw, k)
<1> DEFINE n1 == Bh * Bw
           n2 == n1 * G
           row == k \div G
           block == row \div G
<1>1. n1 \in Nat /\ n2 \in Nat
  OBVIOUS
<1>2. row \in 0 .. n2 - 1 /\ k % G \in 0 .. G - 1 /\ row * G + (k % G) = k
  <2> HIDE DEF n2
  <2>1. k \in 0 .. n2 * G - 1
    BY DEF n2
  <2>2. Unpacked(n2, G, k)
    BY <1>1, <2>1, Unpack
  <2> QED  BY <2>2 DEF Unpacked
<1> HIDE DEF row
<1>3. block \in 0 .. n1 - 1 /\ row % G \in 0 .. G - 1 /\ block * G + (row % G) = row
  <2> HIDE DEF n1
  <2>1. Unpacked(n1, G, row)
    BY <1>1, <1>2, Unpack
  <2> QED  BY <2>1 DEF Unpacked
<1> HIDE DEF block
<1>4. /\ block \div Bw \in 0 .. Bh - 1 /\ block % Bw \in 0 .. Bw - 1
      /\ (block \div Bw) * Bw + (block % Bw) = block
  <2>1. Unpacked(Bh, Bw, block)
    BY <1>3, Unpack
  <2> QED  BY <2>1 DEF Unpacked
<1>5. k = PatchNumber(G, Bw, block \div Bw, row % G, block % Bw, k % G)
  BY <1>2, <1>3, <1>4 DEF PatchNumber
<1> QED  BY <1>2, <1>3, <1>4, <1>5 DEF NumberOf

(* What a step of patchify_fp32 stores, and where.                         *)
PfChannel(d, s) == (s \div (d[2] * d[3])) * d[2] + ((s \div d[3]) % d[2])
PfAt(d, s, gw, pw) ==
  token(d, (s % d[3]) \div d[5], gw) * (d[1] * d[2] * d[5] * d[5])
    + PfChannel(d, s) * d[5] * d[5] + (((s % d[3]) % d[5]) * d[5] + pw)
PfSource(d, s) == (PfChannel(d, s) * d[3] + (s % d[3])) * d[4]
PfCells(d) == {<<gw, pw>> : gw \in 0 .. d[8] - 1, pw \in 0 .. d[5] - 1}
PfWritten(d, s) ==
  [q \in {PfAt(d, s, g[1], g[2]) : g \in PfCells(d)} |->
     CHOOSE g \in PfCells(d) : PfAt(d, s, g[1], g[2]) = q]
PfStage(d, src, w) ==
  IF w < (d[4] \div LANES_FP32) * LANES_FP32
  THEN Vmem("x", ImageSize(d), src, w \div LANES_FP32, LANES_FP32)[w % LANES_FP32]
  ELSE X(ImageSize(d), src + w)

(* What a step of patchify_fp32 stores.                                    *)
LEMMA PfStores ==
  ASSUME NEW d, NEW s
  PROVE  patchify_fp32(d, s)
           = [q \in DOMAIN PfWritten(d, s) |->
                PfStage(d, PfSource(d, s), PfWritten(d, s)[q][1] * d[5] + PfWritten(d, s)[q][2])]
<1>1. patchify_fp32(d, s)
        = PatchifyRow(d, s, LAMBDA c, t : c * d[2] + t, LAMBDA gh, gw : token(d, gh, gw),
                      LAMBDA ph, pw : ph * d[5] + pw, LAMBDA src, w : PfStage(d, src, w))
  BY Zenon DEF patchify_fp32, PfStage
<1>2. PatchifyRow(d, s, LAMBDA c, t : c * d[2] + t, LAMBDA gh, gw : token(d, gh, gw),
                  LAMBDA ph, pw : ph * d[5] + pw, LAMBDA src, w : PfStage(d, src, w))
        = [q \in DOMAIN PfWritten(d, s) |->
             PfStage(d, PfSource(d, s), PfWritten(d, s)[q][1] * d[5] + PfWritten(d, s)[q][2])]
  BY SMT DEF PatchifyRow, PfWritten, PfSource, PfCells, PfAt, PfChannel
<1> QED  BY Zenon, <1>1, <1>2

PfCell(d, s, q, gw, pw) ==
  /\ gw \in 0 .. d[8] - 1 /\ pw \in 0 .. d[5] - 1 /\ q = PfAt(d, s, gw, pw)
  /\ patchify_fp32(d, s)[q] = PfStage(d, PfSource(d, s), gw * d[5] + pw)

(* The elements it touches are those of its cells.                         *)
LEMMA PfTouches ==
  ASSUME NEW d, NEW s
  PROVE  /\ \A q \in DOMAIN patchify_fp32(d, s) : \E gw, pw : PfCell(d, s, q, gw, pw)
         /\ \A gw \in 0 .. d[8] - 1, pw \in 0 .. d[5] - 1 :
              PfAt(d, s, gw, pw) \in DOMAIN patchify_fp32(d, s)
<1>1. DOMAIN patchify_fp32(d, s) = {PfAt(d, s, g[1], g[2]) : g \in PfCells(d)}
  <2>1. DOMAIN patchify_fp32(d, s) = DOMAIN PfWritten(d, s)
    BY PfStores
  <2>2. DOMAIN PfWritten(d, s) = {PfAt(d, s, g[1], g[2]) : g \in PfCells(d)}
    BY DEF PfWritten
  <2> QED  BY <2>1, <2>2
<1>2. ASSUME NEW q \in DOMAIN patchify_fp32(d, s)
      PROVE  \E gw, pw : PfCell(d, s, q, gw, pw)
  <2> DEFINE g == CHOOSE g \in PfCells(d) : PfAt(d, s, g[1], g[2]) = q
  <2>1. PICK c \in PfCells(d) : q = PfAt(d, s, c[1], c[2])
    BY <1>1
  <2>2. g \in PfCells(d) /\ PfAt(d, s, g[1], g[2]) = q
    BY <2>1
  <2>3. PfWritten(d, s)[q] = g
    BY <1>1 DEF PfWritten
  <2> HIDE DEF g
  <2>4. patchify_fp32(d, s)[q] = PfStage(d, PfSource(d, s), g[1] * d[5] + g[2])
    BY <2>3, PfStores
  <2>5. g[1] \in 0 .. d[8] - 1 /\ g[2] \in 0 .. d[5] - 1
    BY <2>2 DEF PfCells
  <2> QED  BY <2>2, <2>4, <2>5 DEF PfCell
<1>3. ASSUME NEW gw \in 0 .. d[8] - 1, NEW pw \in 0 .. d[5] - 1
      PROVE  PfAt(d, s, gw, pw) \in DOMAIN patchify_fp32(d, s)
  <2> DEFINE g == <<gw, pw>>
  <2>1. g \in PfCells(d) /\ g[1] = gw /\ g[2] = pw
    BY DEF PfCells
  <2> HIDE DEF g
  <2> QED  BY <1>1, <2>1
<1> QED  BY <1>2, <1>3

-----------------------------------------------------------------------------
(* Shapes whose patches fill the image and whose merge blocks fill the     *)
(* grid, given by the numbers of blocks.                                   *)
PatchShape(d, C, T, P, G, Bh, Bw) ==
  /\ d[1] = C /\ d[2] = T /\ d[3] = Bh * G * P /\ d[4] = Bw * G * P
  /\ d[5] = P /\ d[6] = G /\ d[7] = Bh * G /\ d[8] = Bw * G

(* The place of a feature, and what the baseline has there.                *)
PfFeature(P, ct, ph, pw) == (ct * P + ph) * P + pw

PfFeatureAt(n, P, ct, ph, pw) ==
  /\ PfFeature(P, ct, ph, pw) \in 0 .. n * P * P - 1
  /\ PfFeature(P, ct, ph, pw) \div (P * P) = ct
  /\ (PfFeature(P, ct, ph, pw) \div P) % P = ph
  /\ PfFeature(P, ct, ph, pw) % P = pw

(* A feature is found again from its number.                               *)
LEMMA FeatureDigits ==
  ASSUME NEW n \in Nat, NEW P \in Nat \ {0},
         NEW ct \in 0 .. n - 1, NEW ph \in 0 .. P - 1, NEW pw \in 0 .. P - 1
  PROVE  PfFeatureAt(n, P, ct, ph, pw)
<1> DEFINE m == n * P
           line == ct * P + ph
           f == line * P + pw
<1>1. m \in Nat /\ m * P = n * P * P
  OBVIOUS
<1>2. line \in 0 .. m - 1 /\ line \div P = ct /\ line % P = ph
  <2>1. Packed(n, P, ct, ph)
    BY Pack
  <2> QED  BY <2>1 DEF Packed
<1> HIDE DEF m, line
<1>3. f \in 0 .. m * P - 1 /\ f \div P = line /\ f % P = pw
  <2>1. Packed(m, P, line, pw)
    BY <1>1, <1>2, Pack
  <2> QED  BY <2>1 DEF Packed
<1>4. f \in Nat
  <2>1. line \in Nat
    BY <1>1, <1>2
  <2> QED  BY <2>1
<1> HIDE DEF f
<1>5. f \div (P * P) = ct
  <2>1. DividedTwice(f, P, P)
    BY <1>4, DivideTwice
  <2> QED  BY <1>2, <1>3, <2>1 DEF DividedTwice
<1>6. PfFeature(P, ct, ph, pw) = f
  BY DEF PfFeature, f, line
<1> QED  BY <1>1, <1>2, <1>3, <1>5, <1>6 DEF PfFeatureAt

FeatureOf(n, P, f) ==
  \E ct \in 0 .. n - 1, ph \in 0 .. P - 1, pw \in 0 .. P - 1 : f = PfFeature(P, ct, ph, pw)

(* Every number below the number of features is some feature's.            *)
LEMMA FeaturesTaken ==
  ASSUME NEW n \in Nat, NEW P \in Nat \ {0}, NEW f \in 0 .. n * P * P - 1
  PROVE  FeatureOf(n, P, f)
<1> DEFINE m == n * P
           line == f \div P
<1>1. m \in Nat
  OBVIOUS
<1>2. line \in 0 .. m - 1 /\ f % P \in 0 .. P - 1 /\ line * P + (f % P) = f
  <2> HIDE DEF m
  <2>1. f \in 0 .. m * P - 1
    BY DEF m
  <2>2. Unpacked(m, P, f)
    BY <1>1, <2>1, Unpack
  <2> QED  BY <2>2 DEF Unpacked
<1> HIDE DEF line
<1>3. /\ line \div P \in 0 .. n - 1 /\ line % P \in 0 .. P - 1
      /\ (line \div P) * P + (line % P) = line
  <2>1. Unpacked(n, P, line)
    BY <1>2, Unpack
  <2> QED  BY <2>1 DEF Unpacked
<1>4. f = PfFeature(P, line \div P, line % P, f % P)
  BY <1>2, <1>3 DEF PfFeature
<1> QED  BY <1>2, <1>3, <1>4 DEF FeatureOf

(* The step of image line (a, b, ph) of channel and frame ct.              *)
PfLine(G, Bh, P, ct, a, b, ph) == ct * (Bh * G * P) + ((a * G + b) * P + ph)

(* Its number, and the digits found in it.                                 *)
LineAt(d, n, G, Bh, P, ct, a, b, ph) ==
  /\ PfLine(G, Bh, P, ct, a, b, ph) \in 0 .. n * (Bh * G * P) - 1
  /\ PfChannel(d, PfLine(G, Bh, P, ct, a, b, ph)) = ct
  /\ PfLine(G, Bh, P, ct, a, b, ph) % d[3] = (a * G + b) * P + ph
  /\ ((a * G + b) * P + ph) \div P = a * G + b
  /\ ((a * G + b) * P + ph) % P = ph
  /\ (a * G + b) * P + ph \in 0 .. Bh * G * P - 1

(* The channel, the frame and the line of a step.                          *)
LEMMA LineDigits ==
  ASSUME NEW d, NEW C \in Nat \ {0}, NEW T \in Nat \ {0}, NEW P \in Nat \ {0},
         NEW G \in Nat \ {0}, NEW Bh \in Nat \ {0}, d[2] = T, d[3] = Bh * G * P,
         NEW ct \in 0 .. C * T - 1, NEW a \in 0 .. Bh - 1, NEW b \in 0 .. G - 1,
         NEW ph \in 0 .. P - 1
  PROVE  LineAt(d, C * T, G, Bh, P, ct, a, b, ph)
<1> DEFINE n == C * T
           m == Bh * G
           H == m * P
           gh == a * G + b
           h == gh * P + ph
           s == ct * H + h
<1>1. n \in Nat /\ m \in Nat \ {0} /\ H \in Nat \ {0} /\ H = Bh * G * P /\ d[3] = H
  OBVIOUS
<1>2. gh \in 0 .. m - 1
  <2>1. Packed(Bh, G, a, b)
    BY Pack
  <2> QED  BY <2>1 DEF Packed
<1>3. h \in 0 .. H - 1 /\ h \div P = gh /\ h % P = ph
  <2> HIDE DEF m, gh
  <2>1. Packed(m, P, gh, ph)
    BY <1>1, <1>2, Pack
  <2> QED  BY <2>1 DEF Packed
<1> HIDE DEF n, h, H
<1>4. s \in 0 .. n * H - 1 /\ s \div H = ct /\ s % H = h
  <2>1. ct \in 0 .. n - 1
    BY DEF n
  <2>2. Packed(n, H, ct, h)
    BY <1>1, <1>3, <2>1, Pack
  <2> QED  BY <2>2 DEF Packed
<1>5. s \in Nat /\ ct \in Nat
  <2>1. ct \in Nat /\ h \in Nat
    BY <1>1, <1>3
  <2> QED  BY <1>1, <2>1
<1> HIDE DEF s
<1>6. PfChannel(d, s) = ct
  <2>1. DividedTwice(s, H, T)
    BY <1>1, <1>5, DivideTwice
  <2>2. Splits(ct, T)
    BY <1>5, PlaceInVector
  <2>3. s \div (T * H) = ct \div T
    BY <1>4, <2>1 DEF DividedTwice
  <2> QED  BY <1>1, <1>4, <2>2, <2>3 DEF PfChannel, Splits
<1>7. PfLine(G, Bh, P, ct, a, b, ph) = s
  BY <1>1 DEF PfLine, s, h
<1> QED  BY <1>1, <1>3, <1>4, <1>6, <1>7 DEF LineAt, n, h

(* Some line has step s.                                                   *)
LineOf(n, G, Bh, P, s) ==
  \E ct \in 0 .. n - 1, a \in 0 .. Bh - 1, b \in 0 .. G - 1, ph \in 0 .. P - 1 :
    s = PfLine(G, Bh, P, ct, a, b, ph)

(* Every step has some line.                                               *)
LEMMA LinesTaken ==
  ASSUME NEW n \in Nat, NEW P \in Nat \ {0}, NEW G \in Nat \ {0}, NEW Bh \in Nat \ {0},
         NEW s \in 0 .. n * (Bh * G * P) - 1
  PROVE  LineOf(n, G, Bh, P, s)
<1> DEFINE m == Bh * G
           H == Bh * G * P
           h == s % H
           gh == h \div P
<1>1. m \in Nat \ {0} /\ H \in Nat \ {0} /\ H = m * P
  OBVIOUS
<1>2. s \div H \in 0 .. n - 1 /\ h \in 0 .. H - 1 /\ (s \div H) * H + h = s
  <2> HIDE DEF H
  <2>1. s \in 0 .. n * H - 1
    BY DEF H
  <2>2. Unpacked(n, H, s)
    BY <1>1, <2>1, Unpack
  <2> QED  BY <2>2 DEF Unpacked
<1> HIDE DEF h
<1>3. gh \in 0 .. m - 1 /\ h % P \in 0 .. P - 1 /\ gh * P + (h % P) = h
  <2> HIDE DEF H, m
  <2>1. Unpacked(m, P, h)
    BY <1>1, <1>2, Unpack
  <2> QED  BY <2>1 DEF Unpacked
<1> HIDE DEF gh
<1>4. gh \div G \in 0 .. Bh - 1 /\ gh % G \in 0 .. G - 1 /\ (gh \div G) * G + (gh % G) = gh
  <2>1. Unpacked(Bh, G, gh)
    BY <1>3, Unpack
  <2> QED  BY <2>1 DEF Unpacked
<1>5. s = PfLine(G, Bh, P, s \div H, gh \div G, gh % G, h % P)
  <2> DEFINE ct == s \div H
  <2>1. ct * H + h = s
    BY <1>2
  <2> HIDE DEF ct, H
  <2>2. ct * H + ((((gh \div G) * G) + (gh % G)) * P + (h % P)) = s
    BY <1>3, <1>4, <2>1
  <2> QED  BY <2>2 DEF PfLine, ct, H
<1> QED  BY <1>2, <1>3, <1>4, <1>5 DEF LineOf

-----------------------------------------------------------------------------
(* The element of a feature of a patch, and what the baseline has there.   *)
PfElement(P, n, k, ct, ph, pw) == k * (n * P * P) + PfFeature(P, ct, ph, pw)

(* Its number, and the digits found in it.                                 *)
ElementAt(N, n, P, k, ct, ph, pw) ==
  /\ PfElement(P, n, k, ct, ph, pw) \in 0 .. N * (n * P * P) - 1
  /\ PfElement(P, n, k, ct, ph, pw) \div (n * P * P) = k
  /\ PfElement(P, n, k, ct, ph, pw) % (n * P * P) = PfFeature(P, ct, ph, pw)

(* The patch and the feature of an element.                                *)
LEMMA ElementDigits ==
  ASSUME NEW N \in Nat, NEW n \in Nat \ {0}, NEW P \in Nat \ {0}, NEW k \in 0 .. N - 1,
         NEW ct \in 0 .. n - 1, NEW ph \in 0 .. P - 1, NEW pw \in 0 .. P - 1
  PROVE  ElementAt(N, n, P, k, ct, ph, pw)
<1> DEFINE cols == n * P * P
           f == PfFeature(P, ct, ph, pw)
<1>1. cols \in Nat \ {0}
  OBVIOUS
<1>2. f \in 0 .. cols - 1
  <2>1. PfFeatureAt(n, P, ct, ph, pw)
    BY FeatureDigits
  <2> QED  BY <2>1 DEF PfFeatureAt
<1> HIDE DEF cols, f
<1>3. Packed(N, cols, k, f)
  BY <1>1, <1>2, Pack
<1>4. PfElement(P, n, k, ct, ph, pw) = k * cols + f
  BY DEF PfElement, cols, f
<1> QED  BY <1>3, <1>4 DEF Packed, ElementAt, cols, f

(* The pixel of a cell, and where the baseline has it.                     *)
PfPixel(d, G, P, ct, a, b, ph, c, e, pw) ==
  X(ImageSize(d), (ct * d[3] + ((a * G + b) * P + ph)) * d[4] + ((c * G + e) * P + pw))

PixelAt(d, G, P, ct, a, b, ph, c, e, pw, q) ==
  /\ q \in 0 .. PatchSize(d) - 1
  /\ PatchifyBaseline(d)[q] = PfPixel(d, G, P, ct, a, b, ph, c, e, pw)

(* The baseline has a pixel's element at the place of its feature.         *)
LEMMA PfBaselineAt ==
  ASSUME NEW d, NEW C \in Nat \ {0}, NEW T \in Nat \ {0}, NEW P \in Nat \ {0},
         NEW G \in Nat \ {0}, NEW Bh \in Nat \ {0}, NEW Bw \in Nat \ {0},
         PatchShape(d, C, T, P, G, Bh, Bw),
         NEW ct \in 0 .. C * T - 1, NEW a \in 0 .. Bh - 1, NEW b \in 0 .. G - 1,
         NEW ph \in 0 .. P - 1, NEW c \in 0 .. Bw - 1, NEW e \in 0 .. G - 1,
         NEW pw \in 0 .. P - 1, NEW q,
         q = PfElement(P, C * T, PatchNumber(G, Bw, a, b, c, e), ct, ph, pw)
  PROVE  PixelAt(d, G, P, ct, a, b, ph, c, e, pw, q)
<1> DEFINE N == Bh * Bw * G * G
           n == C * T
           cols == n * P * P
           k == PatchNumber(G, Bw, a, b, c, e)
           f == PfFeature(P, ct, ph, pw)
           g == PatchAt(d, k)
<1>1. N \in Nat /\ n \in Nat \ {0}
  OBVIOUS
<1>2. d[1] = C /\ d[2] = T /\ d[5] = P /\ d[6] = G /\ d[7] = Bh * G /\ d[8] = Bw * G
  BY DEF PatchShape
<1>3. k \in 0 .. N - 1 /\ g = <<a * G + b, c * G + e>>
  <2>1. TokenAt(d, G, Bh, Bw, a, b, c, e)
    BY <1>2, TokenNumbers
  <2> QED  BY <2>1 DEF TokenAt
<1>4. f \div (P * P) = ct /\ (f \div P) % P = ph /\ f % P = pw
  <2>1. PfFeatureAt(n, P, ct, ph, pw)
    BY <1>1, FeatureDigits
  <2> QED  BY <2>1 DEF PfFeatureAt
<1>5. q \in 0 .. N * cols - 1 /\ q \div cols = k /\ q % cols = f
  <2> HIDE DEF N, k, f
  <2>1. ct \in 0 .. n - 1 /\ q = PfElement(P, n, k, ct, ph, pw)
    BY DEF k
  <2> HIDE DEF n
  <2>2. ElementAt(N, n, P, k, ct, ph, pw)
    BY <1>1, <1>3, <2>1, ElementDigits
  <2> QED  BY <2>1, <2>2 DEF ElementAt, f
<1>6. PatchSize(d) = N * cols
  <2>1. PatchSize(d) = (Bh * G) * (Bw * G) * C * T * P * P
    BY <1>2 DEF PatchSize
  <2> QED  BY <2>1
<1> HIDE DEF N, k, f, g
<1>7. PatchifyBaseline(d)[q]
        = X(ImageSize(d), ((f \div (P * P)) * d[3] + (g[1] * P + ((f \div P) % P))) * d[4]
                            + g[2] * P + (f % P))
  <2>1. cols = C * T * P * P
    OBVIOUS
  <2> HIDE DEF cols
  <2> QED  BY <1>2, <1>5, <1>6, <2>1 DEF PatchifyBaseline, g
<1>8. q \in 0 .. PatchSize(d) - 1
  BY <1>5, <1>6
<1>9. PatchifyBaseline(d)[q]
        = X(ImageSize(d), (ct * d[3] + ((a * G + b) * P + ph)) * d[4] + (c * G + e) * P + pw)
  BY <1>3, <1>4, <1>7
<1>10. (ct * d[3] + ((a * G + b) * P + ph)) * d[4] + (c * G + e) * P + pw
         = (ct * d[3] + ((a * G + b) * P + ph)) * d[4] + ((c * G + e) * P + pw)
  <2> DEFINE u == (ct * d[3] + ((a * G + b) * P + ph)) * d[4]
             v == (c * G + e) * P
  <2>1. v \in Int
    OBVIOUS
  <2>2. u \in Int
    <3>1. d[3] \in Int /\ d[4] \in Int /\ (a * G + b) * P + ph \in Int /\ ct \in Int
      BY <1>1 DEF PatchShape
    <3> QED  BY <3>1
  <2> HIDE DEF u, v
  <2>3. u + v + pw = u + (v + pw)
    BY <2>1, <2>2
  <2> QED  BY <2>3 DEF u, v
<1> QED  BY <1>8, <1>9, <1>10 DEF PfPixel, PixelAt

(* A staged element of a row that starts on a vector boundary, or holds    *)
(* less than a vector.                                                     *)
StageAt(d, W, m, w) == PfStage(d, m * W, w) = X(ImageSize(d), m * W + w)

(* What is staged of such a row is the row.                                *)
LEMMA StageIsRow ==
  ASSUME NEW d, NEW W \in Nat \ {0}, d[4] = W, NEW m \in Nat, Meets(m, W, LANES_FP32),
         NEW w \in 0 .. W - 1
  PROVE  StageAt(d, W, m, w)
<1> USE DEF StageAt
<1> DEFINE covered == (W \div LANES_FP32) * LANES_FP32
<1>1. CASE w < covered
  <2>1. Starts(m, W, LANES_FP32)
    <3>1. W < LANES_FP32 => covered = 0
      BY NoVectors, LanesFacts
    <3> HIDE DEF covered
    <3> QED  BY <1>1, <3>1 DEF Meets
  <2>2. RowVectorAt("x", ImageSize(d), m, W, LANES_FP32, w)
    BY <2>1, VectorOfRow, LanesFacts
  <2>3. PfStage(d, m * W, w)
          = Vmem("x", ImageSize(d), m * W, w \div LANES_FP32, LANES_FP32)[w % LANES_FP32]
    BY <1>1 DEF PfStage
  <2> QED  BY <2>2, <2>3 DEF RowVectorAt, X
<1>2. CASE ~(w < covered)
  BY <1>2 DEF PfStage
<1> QED  BY <1>1, <1>2

(* Where a step puts a cell of a patch, and what it puts there.            *)
Placed(d, n, P, G, Bw, ct, a, b, ph, c, e, pw, s) ==
  /\ PfAt(d, s, c * G + e, pw)
       = PfElement(P, n, PatchNumber(G, Bw, a, b, c, e), ct, ph, pw)
  /\ PfStage(d, PfSource(d, s), (c * G + e) * P + pw)
       = PfPixel(d, G, P, ct, a, b, ph, c, e, pw)

(* A cell is put where its patch and its feature say, and is its pixel.    *)
LEMMA CellAt ==
  ASSUME NEW d, NEW C \in Nat \ {0}, NEW T \in Nat \ {0}, NEW P \in Nat \ {0},
         NEW G \in Nat \ {0}, NEW Bh \in Nat \ {0}, NEW Bw \in Nat \ {0},
         PatchShape(d, C, T, P, G, Bh, Bw), Rowwise(C * T * d[3], d[4], LANES_FP32),
         NEW ct \in 0 .. C * T - 1, NEW a \in 0 .. Bh - 1, NEW b \in 0 .. G - 1,
         NEW ph \in 0 .. P - 1, NEW c \in 0 .. Bw - 1, NEW e \in 0 .. G - 1,
         NEW pw \in 0 .. P - 1, NEW s, s = PfLine(G, Bh, P, ct, a, b, ph)
  PROVE  Placed(d, C * T, P, G, Bw, ct, a, b, ph, c, e, pw, s)
<1> DEFINE n == C * T
           h == (a * G + b) * P + ph
           gw == c * G + e
           w == gw * P + pw
           k == PatchNumber(G, Bw, a, b, c, e)
           m == ct * d[3] + h
           W == Bw * G * P
<1>1. /\ d[1] = C /\ d[2] = T /\ d[3] = Bh * G * P /\ d[4] = W
      /\ d[5] = P /\ d[6] = G /\ d[7] = Bh * G /\ d[8] = Bw * G
  BY DEF PatchShape
<1>2. /\ PfChannel(d, s) = ct /\ s % d[3] = h /\ h \div P = a * G + b /\ h % P = ph
      /\ h \in Nat
  <2>1. LineAt(d, n, G, Bh, P, ct, a, b, ph)
    BY <1>1, LineDigits
  <2> QED  BY <2>1 DEF LineAt
<1>3. token(d, a * G + b, gw) = k
  <2>1. TokenAt(d, G, Bh, Bw, a, b, c, e)
    BY <1>1, TokenNumbers
  <2> QED  BY <2>1 DEF TokenAt
<1>4. PfAt(d, s, gw, pw) = PfElement(P, n, k, ct, ph, pw)
  <2> HIDE DEF h, k
  <2>1. PfAt(d, s, gw, pw) = k * (C * T * P * P) + ct * P * P + (ph * P + pw)
    <3> HIDE DEF gw
    <3> QED  BY <1>1, <1>2, <1>3 DEF PfAt
  <2>2. k \in Int
    <3>1. TokenAt(d, G, Bh, Bw, a, b, c, e)
      BY <1>1, TokenNumbers
    <3> QED  BY <3>1 DEF TokenAt, k
  <2>3. k * (C * T * P * P) + ct * P * P + (ph * P + pw)
          = k * (C * T * P * P) + ((ct * P + ph) * P + pw)
    <3> DEFINE u == k * (C * T * P * P)
    <3>1. u \in Int
      BY <2>2
    <3> HIDE DEF u
    <3>2. ct * P * P + (ph * P + pw) = (ct * P + ph) * P + pw /\ ct * P * P \in Int
      OBVIOUS
    <3>3. u + ct * P * P + (ph * P + pw) = u + ((ct * P + ph) * P + pw)
      BY <3>1, <3>2
    <3> QED  BY <3>3 DEF u
  <2> QED  BY <2>1, <2>3 DEF PfElement, PfFeature
<1>5. w \in 0 .. W - 1
  <2>1. Packed(Bw, G, c, e)
    BY Pack
  <2> DEFINE z == Bw * G
  <2>2. gw \in 0 .. z - 1 /\ z \in Nat
    BY <2>1 DEF Packed
  <2> HIDE DEF gw, z
  <2>3. Packed(z, P, gw, pw)
    BY <2>2, Pack
  <2> QED  BY <2>3 DEF Packed, z
<1>6. W \in Nat \ {0} /\ m \in Nat
  BY <1>1, <1>2
<1>7. Meets(m, W, LANES_FP32)
  <2> DEFINE lines == n * (Bh * G * P)
  <2>1. m \in 0 .. lines - 1
    <3>1. LineAt(d, n, G, Bh, P, ct, a, b, ph)
      BY <1>1, LineDigits
    <3>2. PfLine(G, Bh, P, ct, a, b, ph) \in 0 .. n * (Bh * G * P) - 1
      BY <3>1 DEF LineAt
    <3>3. m = PfLine(G, Bh, P, ct, a, b, ph)
      BY <1>1 DEF PfLine
    <3> QED  BY <3>2, <3>3
  <2>2. Rowwise(lines, W, LANES_FP32)
    BY <1>1
  <2>3. lines \in Int
    OBVIOUS
  <2> HIDE DEF lines, m, W
  <2> QED  BY <2>1, <2>2, <2>3 DEF Rowwise, Meets, Starts
<1>8. PfSource(d, s) = m * d[4]
  <2> HIDE DEF h
  <2> QED  BY <1>2 DEF PfSource
<1> HIDE DEF w, m, W
<1>9. StageAt(d, W, m, w)
  BY <1>1, <1>5, <1>6, <1>7, StageIsRow
<1>10. PfPixel(d, G, P, ct, a, b, ph, c, e, pw) = X(ImageSize(d), m * d[4] + w)
  BY DEF PfPixel, m, w
<1> QED  BY <1>1, <1>4, <1>8, <1>9, <1>10 DEF w, StageAt, Placed

(* A step of patchify_fp32 that stores cell (gw, pw) of image line s: the  *)
(* element is inside and is the baseline's.                                *)
CellRight(d, s, q) ==
  q \in 0 .. PatchSize(d) - 1 /\ patchify_fp32(d, s)[q] = PatchifyBaseline(d)[q]

(* Every store of patchify_fp32 is the baseline's.                         *)
LEMMA PatchStoresRight ==
  ASSUME NEW d, NEW C \in Nat \ {0}, NEW T \in Nat \ {0}, NEW P \in Nat \ {0},
         NEW G \in Nat \ {0}, NEW Bh \in Nat \ {0}, NEW Bw \in Nat \ {0},
         PatchShape(d, C, T, P, G, Bh, Bw), Rowwise(C * T * d[3], d[4], LANES_FP32),
         NEW s \in 0 .. C * T * (Bh * G * P) - 1,
         NEW q \in DOMAIN patchify_fp32(d, s)
  PROVE  CellRight(d, s, q)
<1> DEFINE n == C * T
<1>1. n \in Nat
  OBVIOUS
<1>2. PICK ct \in 0 .. C * T - 1, a \in 0 .. Bh - 1, b \in 0 .. G - 1, ph \in 0 .. P - 1 :
        s = PfLine(G, Bh, P, ct, a, b, ph)
  <2>1. s \in 0 .. n * (Bh * G * P) - 1
    OBVIOUS
  <2> HIDE DEF n
  <2>2. LineOf(n, G, Bh, P, s)
    BY <1>1, <2>1, LinesTaken
  <2> QED  BY <2>2 DEF LineOf, n
<1>3. PICK gw, pw : PfCell(d, s, q, gw, pw)
  BY PfTouches
<1>4. /\ gw \in 0 .. Bw * G - 1 /\ pw \in 0 .. P - 1 /\ q = PfAt(d, s, gw, pw)
      /\ patchify_fp32(d, s)[q] = PfStage(d, PfSource(d, s), gw * P + pw)
  <2>1. d[5] = P /\ d[8] = Bw * G
    BY DEF PatchShape
  <2> QED  BY <1>3, <2>1 DEF PfCell
<1> DEFINE c == gw \div G
           e == gw % G
<1>5. c \in 0 .. Bw - 1 /\ e \in 0 .. G - 1 /\ gw = c * G + e
  <2>1. Unpacked(Bw, G, gw)
    BY <1>4, Unpack
  <2> QED  BY <2>1 DEF Unpacked
<1> HIDE DEF c, e
<1>6. /\ PfAt(d, s, c * G + e, pw)
           = PfElement(P, C * T, PatchNumber(G, Bw, a, b, c, e), ct, ph, pw)
      /\ PfStage(d, PfSource(d, s), (c * G + e) * P + pw)
           = PfPixel(d, G, P, ct, a, b, ph, c, e, pw)
  <2>1. Placed(d, C * T, P, G, Bw, ct, a, b, ph, c, e, pw, s)
    BY <1>2, <1>4, <1>5, CellAt
  <2> QED  BY <2>1 DEF Placed
<1>7. q = PfElement(P, C * T, PatchNumber(G, Bw, a, b, c, e), ct, ph, pw)
  BY <1>4, <1>5, <1>6
<1>8. patchify_fp32(d, s)[q] = PfPixel(d, G, P, ct, a, b, ph, c, e, pw)
  BY <1>4, <1>5, <1>6
<1>9. /\ q \in 0 .. PatchSize(d) - 1
      /\ PatchifyBaseline(d)[q] = PfPixel(d, G, P, ct, a, b, ph, c, e, pw)
  <2>1. PixelAt(d, G, P, ct, a, b, ph, c, e, pw, q)
    BY <1>4, <1>5, <1>7, PfBaselineAt
  <2> QED  BY <2>1 DEF PixelAt
<1> QED  BY <1>8, <1>9 DEF CellRight

(* Some step stores element q.                                             *)
CellStored(d, n, q) == \E s \in 0 .. n - 1 : q \in DOMAIN patchify_fp32(d, s)

(* Every element of the output is stored by some step.                     *)
LEMMA PatchStoresAll ==
  ASSUME NEW d, NEW C \in Nat \ {0}, NEW T \in Nat \ {0}, NEW P \in Nat \ {0},
         NEW G \in Nat \ {0}, NEW Bh \in Nat \ {0}, NEW Bw \in Nat \ {0},
         PatchShape(d, C, T, P, G, Bh, Bw), Rowwise(C * T * d[3], d[4], LANES_FP32),
         NEW q \in 0 .. PatchSize(d) - 1
  PROVE  CellStored(d, C * T * (Bh * G * P), q)
<1> DEFINE N == Bh * Bw * G * G
           n == C * T
           cols == n * P * P
           k == q \div cols
           f == q % cols
<1>1. N \in Nat /\ n \in Nat \ {0} /\ cols \in Nat \ {0}
  OBVIOUS
<1>2. d[1] = C /\ d[2] = T /\ d[5] = P /\ d[6] = G /\ d[7] = Bh * G /\ d[8] = Bw * G
  BY DEF PatchShape
<1>3. PatchSize(d) = N * cols
  <2>1. PatchSize(d) = (Bh * G) * (Bw * G) * C * T * P * P
    BY <1>2 DEF PatchSize
  <2> QED  BY <2>1
<1>4. k \in 0 .. N - 1 /\ f \in 0 .. cols - 1 /\ q = k * cols + f
  <2> HIDE DEF N, cols
  <2>1. Unpacked(N, cols, q)
    BY <1>1, <1>3, Unpack
  <2> QED  BY <2>1 DEF Unpacked
<1> HIDE DEF k, f
<1>5. PICK a \in 0 .. Bh - 1, b \in 0 .. G - 1, c \in 0 .. Bw - 1, e \in 0 .. G - 1 :
        k = PatchNumber(G, Bw, a, b, c, e)
  <2>1. NumberOf(G, Bh, Bw, k)
    BY <1>4, NumbersTaken
  <2> QED  BY <2>1 DEF NumberOf
<1>6. PICK ct \in 0 .. C * T - 1, ph \in 0 .. P - 1, pw \in 0 .. P - 1 :
        f = PfFeature(P, ct, ph, pw)
  <2> HIDE DEF n
  <2>1. FeatureOf(n, P, f)
    BY <1>1, <1>4, FeaturesTaken
  <2> QED  BY <2>1 DEF FeatureOf, n
<1> DEFINE s == PfLine(G, Bh, P, ct, a, b, ph)
<1>7. s \in 0 .. C * T * (Bh * G * P) - 1
  <2>1. d[3] = Bh * G * P
    BY DEF PatchShape
  <2>2. LineAt(d, C * T, G, Bh, P, ct, a, b, ph)
    BY <1>2, <2>1, LineDigits
  <2> QED  BY <2>2 DEF LineAt
<1> HIDE DEF s
<1>8. PfAt(d, s, c * G + e, pw)
        = PfElement(P, C * T, PatchNumber(G, Bw, a, b, c, e), ct, ph, pw)
  <2>1. Placed(d, C * T, P, G, Bw, ct, a, b, ph, c, e, pw, s)
    BY CellAt DEF s
  <2> QED  BY <2>1 DEF Placed
<1>9. PfElement(P, C * T, PatchNumber(G, Bw, a, b, c, e), ct, ph, pw) = q
  <2>1. PfElement(P, n, k, ct, ph, pw) = k * cols + f
    BY <1>6 DEF PfElement
  <2> QED  BY <1>4, <1>5, <2>1
<1>10. c * G + e \in 0 .. d[8] - 1
  <2>1. Packed(Bw, G, c, e)
    BY Pack
  <2> QED  BY <1>2, <2>1 DEF Packed
<1>11. q \in DOMAIN patchify_fp32(d, s)
  <2> DEFINE gw == c * G + e
  <2>1. gw \in 0 .. d[8] - 1 /\ pw \in 0 .. d[5] - 1 /\ PfAt(d, s, gw, pw) = q
    BY <1>2, <1>8, <1>9, <1>10
  <2> HIDE DEF gw
  <2> QED  BY <2>1, PfTouches
<1> QED  BY <1>7, <1>11 DEF CellStored

(* patchify_fp32 computes its baseline for whole merge blocks of whole     *)
(* patches and rows that fit its buffer and start on vector boundaries or  *)
(* hold no whole vector.                                                   *)
THEOREM PatchifyFaithful ==
  ASSUME NEW d, NEW C \in Nat \ {0}, NEW T \in Nat \ {0}, NEW P \in Nat \ {0},
         NEW G \in Nat \ {0}, NEW Bh \in Nat \ {0}, NEW Bw \in Nat \ {0},
         PatchShape(d, C, T, P, G, Bh, Bw), Rowwise(C * T * d[3], d[4], LANES_FP32),
         d[4] <= PATCHIFY_ROWBUF_MAX
  PROVE  Faithful("patchify_fp32", d)
<1> DEFINE n == C * T * (Bh * G * P)
<1>1. n \in Nat
  OBVIOUS
<1>2. Steps("patchify_fp32", KERNEL, d) = n
  <2>1. d[1] = C /\ d[2] = T /\ d[3] = Bh * G * P
    BY DEF PatchShape
  <2>2. ~(d[4] > PATCHIFY_ROWBUF_MAX)
    <3>1. d[4] = Bw * G * P
      BY DEF PatchShape
    <3> QED  BY <3>1 DEF PATCHIFY_ROWBUF_MAX
  <2>3. Steps("patchify_fp32", KERNEL, d) = d[1] * d[2] * d[3]
    BY <2>2 DEF Steps, KERNEL
  <2> QED  BY <2>1, <2>3
<1>3. /\ Size("patchify_fp32", d) = PatchSize(d)
      /\ Baseline("patchify_fp32", d) = PatchifyBaseline(d)
  BY DEF Size, Baseline
<1>4. \A s : Step("patchify_fp32", d, s) = patchify_fp32(d, s)
  BY DEF Step, Stores, KERNEL
<1> HIDE DEF n
<1>5. \A s \in 0 .. n - 1 : \A q \in DOMAIN patchify_fp32(d, s) : CellRight(d, s, q)
  BY PatchStoresRight DEF n
<1>6. \A q \in 0 .. PatchSize(d) - 1 : CellStored(d, n, q)
  BY PatchStoresAll DEF n
<1>7. StaysInside("patchify_fp32", d)
  BY <1>1, <1>2, <1>3, <1>4, <1>5 DEF StaysInside, Last, CellRight
<1>8. StoresRight("patchify_fp32", d)
  BY <1>2, <1>3, <1>4, <1>5 DEF StoresRight, Last, CellRight
<1>9. StoresAll("patchify_fp32", d)
  BY <1>2, <1>3, <1>4, <1>6 DEF StoresAll, Last, CellStored
<1> QED  BY <1>7, <1>8, <1>9 DEF Faithful

(* Bags of elements that occur once.                                       *)
LEMMA BagsJoin ==
  ASSUME NEW A, NEW B, A \intersect B = {}
  PROVE  SetToBag(A) (+) SetToBag(B) = SetToBag(A \union B)
BY SMT DEF SetToBag, (+)

(* The bag of the values of g over S, and when no two are the same.        *)
ValueBag(S, g) == [e \in {g[j] : j \in S} |-> Cardinality({j \in S : g[j] = e})]
Distinct(S, g) == \A i, j \in S : g[i] = g[j] => i = j

(* A bag of distinct values is the bag of their set.                       *)
LEMMA BagOfDistinct ==
  ASSUME NEW S, NEW g, Distinct(S, g)
  PROVE  ValueBag(S, g) = SetToBag({g[j] : j \in S})
<1>1. ASSUME NEW e \in {g[j] : j \in S}
      PROVE  Cardinality({j \in S : g[j] = e}) = 1
  <2>1. PICK i \in S : g[i] = e
    OBVIOUS
  <2>2. {j \in S : g[j] = e} = {i}
    BY <2>1 DEF Distinct
  <2> QED  BY <2>2, FS_Singleton
<1> QED  BY <1>1 DEF SetToBag, ValueBag

(* What the lanes of a vector have seen: S gives what each lane held, no   *)
(* two the same; L gives the lanes each has been added the values of.      *)
Held(S, lanes) == UNION {S[m] : m \in lanes}
Apart(S, n) == \A l, m \in 0 .. n - 1 : l # m => S[l] \intersect S[m] = {}
HasSeen(v, n, S, L) == \A l \in 0 .. n - 1 : v[l] = SetToBag(Held(S, L[l]))

(* Adding what two sets of lanes have seen.                                *)
LEMMA HeldJoins ==
  ASSUME NEW S, NEW n \in Nat, Apart(S, n), NEW A, NEW B, A \subseteq 0 .. n - 1,
         B \subseteq 0 .. n - 1, A \intersect B = {}
  PROVE  SetToBag(Held(S, A)) (+) SetToBag(Held(S, B)) = SetToBag(Held(S, A \union B))
<1>1. Held(S, A) \intersect Held(S, B) = {}
  <2> SUFFICES ASSUME NEW l \in A, NEW m \in B, NEW e, e \in S[l], e \in S[m]
               PROVE  FALSE
    BY DEF Held
  <2>1. l # m
    OBVIOUS
  <2>2. S[l] \intersect S[m] = {}
    BY <2>1 DEF Apart
  <2> QED  BY <2>2
<1>2. Held(S, A) \union Held(S, B) = Held(S, A \union B)
  BY DEF Held
<1> QED  BY <1>1, <1>2, BagsJoin

(* One rotation by b lanes: lane l is added what lane (l + b) % n has seen. *)
Joins(n, b, L, M) ==
  \A l \in 0 .. n - 1 :
    /\ (l + b) % n \in 0 .. n - 1
    /\ L[l] \subseteq 0 .. n - 1 /\ L[(l + b) % n] \subseteq 0 .. n - 1
    /\ L[l] \intersect L[(l + b) % n] = {}
    /\ M[l] = L[l] \union L[(l + b) % n]

(* What the lanes have seen after one more rotation.                       *)
LEMMA RotationSees ==
  ASSUME NEW v, NEW n \in Nat, NEW b, NEW S, Apart(S, n), NEW L, NEW M,
         HasSeen(v, n, S, L), Joins(n, b, L, M)
  PROVE  HasSeen(AddRotated(v, n, b), n, S, M)
<1> SUFFICES ASSUME NEW l \in 0 .. n - 1
             PROVE  AddRotated(v, n, b)[l] = SetToBag(Held(S, M[l]))
  BY DEF HasSeen
<1> DEFINE m == (l + b) % n
<1>1. AddRotated(v, n, b)[l] = v[l] (+) v[m]
  BY DEF AddRotated, Q6_V_vror
<1>2. /\ m \in 0 .. n - 1 /\ L[l] \subseteq 0 .. n - 1 /\ L[m] \subseteq 0 .. n - 1
      /\ L[l] \intersect L[m] = {} /\ M[l] = L[l] \union L[m]
  BY DEF Joins
<1> HIDE DEF m
<1>3. v[l] = SetToBag(Held(S, L[l])) /\ v[m] = SetToBag(Held(S, L[m]))
  BY <1>2 DEF HasSeen
<1>4. SetToBag(Held(S, L[l])) (+) SetToBag(Held(S, L[m]))
        = SetToBag(Held(S, L[l] \union L[m]))
  BY <1>2, HeldJoins
<1> QED  BY <1>1, <1>2, <1>3, <1>4

(* The w lanes from l on, around the end of the vector.                    *)
From(n, w) == [l \in 0 .. n - 1 |->
                 {m \in 0 .. n - 1 : m \in l .. l + w - 1 \/ m + n \in l .. l + w - 1}]

(* Lane a, at most one turn too far.                                       *)
Around(n, a) == a % n \in 0 .. n - 1 /\ (a % n = a \/ a % n = a - n)

(* A lane number that runs over the end comes back in at the start.        *)
LEMMA AroundOnce ==
  ASSUME NEW n \in Nat \ {0}, NEW a \in 0 .. 2 * n - 1
  PROVE  Around(n, a)
<1>1. a < n => (0 * n + a) % n = a
  BY Divided
<1>2. a >= n => (1 * n + (a - n)) % n = a - n
  <2>1. a >= n => a - n \in 0 .. n - 1
    OBVIOUS
  <2> QED  BY <2>1, Divided
<1>3. (0 * n + a) = a /\ (1 * n + (a - n)) = a
  OBVIOUS
<1> QED  BY <1>1, <1>2, <1>3 DEF Around

(* Rotating by w doubles the w lanes each lane has seen.                   *)
LEMMA FromDoubles ==
  ASSUME NEW n \in Nat \ {0}, NEW w \in Nat \ {0}, 2 * w <= n
  PROVE  Joins(n, w, From(n, w), From(n, 2 * w))
<1> SUFFICES ASSUME NEW l \in 0 .. n - 1
             PROVE  /\ (l + w) % n \in 0 .. n - 1
                    /\ From(n, w)[l] \subseteq 0 .. n - 1
                    /\ From(n, w)[(l + w) % n] \subseteq 0 .. n - 1
                    /\ From(n, w)[l] \intersect From(n, w)[(l + w) % n] = {}
                    /\ From(n, 2 * w)[l] = From(n, w)[l] \union From(n, w)[(l + w) % n]
  BY DEF Joins
<1> DEFINE m == (l + w) % n
<1>1. (m = l + w \/ m = (l + w) - n) /\ m \in 0 .. n - 1
  <2> DEFINE a == l + w
  <2>1. a \in 0 .. 2 * n - 1
    OBVIOUS
  <2> HIDE DEF a
  <2>2. Around(n, a)
    BY <2>1, AroundOnce
  <2> QED  BY <2>2 DEF Around, a
<1>2. m \in 0 .. n - 1
  BY <1>1
<1> HIDE DEF m
<1>3. /\ From(n, w)[l] = {i \in 0 .. n - 1 : i \in l .. l + w - 1 \/ i + n \in l .. l + w - 1}
      /\ From(n, w)[m] = {i \in 0 .. n - 1 : i \in m .. m + w - 1 \/ i + n \in m .. m + w - 1}
      /\ From(n, 2 * w)[l] = {i \in 0 .. n - 1 : i \in l .. l + 2 * w - 1
                                                \/ i + n \in l .. l + 2 * w - 1}
  BY <1>2 DEF From
<1>4. From(n, w)[l] \intersect From(n, w)[m] = {}
  BY <1>1, <1>2, <1>3
<1>5. From(n, 2 * w)[l] = From(n, w)[l] \union From(n, w)[m]
  BY <1>1, <1>2, <1>3
<1> QED  BY <1>2, <1>3, <1>4, <1>5 DEF m

(* The steps of hvx_vec_reduce_sum_n_f32: every lane ends with the whole.  *)
UpSteps(turn, v) ==
  \A by \in Rotations :
    turn[by] = AddRotated(IF by = 1 THEN v ELSE turn[by \div 2], LANES_FP32, by)

(* The recursive function of the steps is what its definition says.        *)
LEMMA UpStepsExist ==
  ASSUME NEW v
  PROVE  \E turn : UpSteps(turn, v)
<1> DEFINE s1 == AddRotated(v, LANES_FP32, 1)
           s2 == AddRotated(s1, LANES_FP32, 2)
           s4 == AddRotated(s2, LANES_FP32, 4)
           s8 == AddRotated(s4, LANES_FP32, 8)
           s16 == AddRotated(s8, LANES_FP32, 16)
           s32 == AddRotated(s16, LANES_FP32, 32)
           turn == [by \in Rotations |->
                      CASE by = 1 -> s1 [] by = 2 -> s2 [] by = 4 -> s4
                        [] by = 8 -> s8 [] by = 16 -> s16 [] by = 32 -> s32]
<1>1. \A by \in Rotations : by \in {1, 2, 4, 8, 16, 32} /\ (by # 1 => by \div 2 \in Rotations)
  BY LanesFacts DEF Rotations
<1>2. \A by \in Rotations :
        /\ by = 1 => turn[by] = s1
        /\ by = 2 => turn[by] = s2
        /\ by = 4 => turn[by] = s4
        /\ by = 8 => turn[by] = s8
        /\ by = 16 => turn[by] = s16
        /\ by = 32 => turn[by] = s32
  <2> HIDE DEF s1, s2, s4, s8, s16, s32
  <2> QED  OBVIOUS
<1> HIDE DEF turn
<1>3. UpSteps(turn, v)
  <2> SUFFICES ASSUME NEW by \in Rotations
               PROVE  turn[by]
                        = AddRotated(IF by = 1 THEN v ELSE turn[by \div 2], LANES_FP32, by)
    BY DEF UpSteps
  <2>1. CASE by = 1
    BY <1>2, <2>1
  <2>2. CASE by = 2
    <3>1. by \div 2 = 1 /\ by \div 2 \in Rotations
      BY <1>1, <2>2
    <3> QED  BY <1>2, <2>2, <3>1
  <2>3. CASE by = 4
    <3>1. by \div 2 = 2 /\ by \div 2 \in Rotations
      BY <1>1, <2>3
    <3> QED  BY <1>2, <2>3, <3>1
  <2>4. CASE by = 8
    <3>1. by \div 2 = 4 /\ by \div 2 \in Rotations
      BY <1>1, <2>4
    <3> QED  BY <1>2, <2>4, <3>1
  <2>5. CASE by = 16
    <3>1. by \div 2 = 8 /\ by \div 2 \in Rotations
      BY <1>1, <2>5
    <3> QED  BY <1>2, <2>5, <3>1
  <2>6. CASE by = 32
    <3>1. by \div 2 = 16 /\ by \div 2 \in Rotations
      BY <1>1, <2>6
    <3> QED  BY <1>2, <2>6, <3>1
  <2> QED  BY <1>1, <2>1, <2>2, <2>3, <2>4, <2>5, <2>6
<1> QED  BY <1>3

(* hvx_vec_reduce_sum_n_f32 returns its last step.                         *)
LEMMA ReduceSumIs ==
  ASSUME NEW v
  PROVE  \E turn : UpSteps(turn, v) /\ ReduceSumF32(v) = turn[LANES_FP32 \div 2]
<1> DEFINE turn == CHOOSE turn :
                     turn = [by \in Rotations |->
                       AddRotated(IF by = 1 THEN v ELSE turn[by \div 2], LANES_FP32, by)]
<1>1. ReduceSumF32(v) = turn[LANES_FP32 \div 2]
  BY Zenon DEF ReduceSumF32
<1>2. PICK f : UpSteps(f, v)
  BY UpStepsExist
<1>3. \E g : g = [by \in Rotations |->
                    AddRotated(IF by = 1 THEN v ELSE g[by \div 2], LANES_FP32, by)]
  <2> DEFINE g == [by \in Rotations |-> f[by]]
  <2>1. \A by \in Rotations : by # 1 => by \div 2 \in Rotations
    BY LanesFacts DEF Rotations
  <2>2. \A by \in Rotations :
          g[by] = AddRotated(IF by = 1 THEN v ELSE g[by \div 2], LANES_FP32, by)
    BY <1>2, <2>1 DEF UpSteps
  <2>3. g = [by \in Rotations |-> g[by]]
    OBVIOUS
  <2> HIDE DEF g
  <2>4. g = [by \in Rotations |->
               AddRotated(IF by = 1 THEN v ELSE g[by \div 2], LANES_FP32, by)]
    BY <2>2, <2>3
  <2> QED  BY <2>4
<1>4. turn = [by \in Rotations |->
                AddRotated(IF by = 1 THEN v ELSE turn[by \div 2], LANES_FP32, by)]
  BY <1>3
<1> HIDE DEF turn
<1>5. UpSteps(turn, v)
  BY <1>4 DEF UpSteps
<1> QED  BY <1>1, <1>5

(* So every lane, and lane 0 with it, ends with the whole vector, each     *)
(* lane's values once.                                                     *)
LEMMA WholeVectorSummed ==
  ASSUME NEW v, NEW S, Apart(S, LANES_FP32),
         \A l \in 0 .. LANES_FP32 - 1 : v[l] = SetToBag(S[l])
  PROVE  ReduceSumF32(v)[0] = SetToBag(Held(S, 0 .. LANES_FP32 - 1))
<1> DEFINE n == LANES_FP32
<1>1. PICK turn : UpSteps(turn, v) /\ ReduceSumF32(v) = turn[n \div 2]
  BY ReduceSumIs
<1>2. n \in {2, 4, 8, 16, 32}
  BY LanesAssumption DEF LANES_FP32
<1>3. HasSeen(v, n, S, From(n, 1))
  <2> SUFFICES ASSUME NEW l \in 0 .. n - 1
               PROVE  v[l] = SetToBag(Held(S, From(n, 1)[l]))
    BY DEF HasSeen
  <2>1. From(n, 1)[l] = {l}
    BY <1>2 DEF From
  <2> QED  BY <2>1 DEF Held
<1> HIDE DEF n
<1>4. ASSUME NEW u, NEW b \in {1, 2, 4, 8, 16}, 2 * b <= n, HasSeen(u, n, S, From(n, b))
      PROVE  HasSeen(AddRotated(u, n, b), n, S, From(n, 2 * b))
  <2>1. Joins(n, b, From(n, b), From(n, 2 * b))
    BY <1>2, <1>4, FromDoubles
  <2> QED  BY <1>2, <1>4, <2>1, RotationSees DEF n
<1>5. 2 <= n => HasSeen(turn[1], n, S, From(n, 2))
  <2>1. 2 <= n => 1 \in Rotations /\ 2 * 1 = 2
    BY <1>2 DEF Rotations, n
  <2>2. 2 <= n => turn[1] = AddRotated(v, n, 1)
    BY <1>1, <2>1 DEF UpSteps, n
  <2> QED  BY <1>3, <1>4, <2>1, <2>2
<1>6. 4 <= n => HasSeen(turn[2], n, S, From(n, 4))
  <2>1. 4 <= n => 2 \in Rotations /\ 2 \div 2 = 1 /\ 2 * 2 = 4 /\ 2 <= n
    BY <1>2 DEF Rotations, n
  <2>2. 4 <= n => turn[2] = AddRotated(turn[1], n, 2)
    BY <1>1, <2>1 DEF UpSteps, n
  <2> QED  BY <1>4, <1>5, <2>1, <2>2
<1>7. 8 <= n => HasSeen(turn[4], n, S, From(n, 8))
  <2>1. 8 <= n => 4 \in Rotations /\ 4 \div 2 = 2 /\ 2 * 4 = 8 /\ 4 <= n
    BY <1>2 DEF Rotations, n
  <2>2. 8 <= n => turn[4] = AddRotated(turn[2], n, 4)
    BY <1>1, <2>1 DEF UpSteps, n
  <2> QED  BY <1>4, <1>6, <2>1, <2>2
<1>8. 16 <= n => HasSeen(turn[8], n, S, From(n, 16))
  <2>1. 16 <= n => 8 \in Rotations /\ 8 \div 2 = 4 /\ 2 * 8 = 16 /\ 8 <= n
    BY <1>2 DEF Rotations, n
  <2>2. 16 <= n => turn[8] = AddRotated(turn[4], n, 8)
    BY <1>1, <2>1 DEF UpSteps, n
  <2> QED  BY <1>4, <1>7, <2>1, <2>2
<1>9. 32 <= n => HasSeen(turn[16], n, S, From(n, 32))
  <2>1. 32 <= n => 16 \in Rotations /\ 16 \div 2 = 8 /\ 2 * 16 = 32 /\ 16 <= n
    BY <1>2 DEF Rotations, n
  <2>2. 32 <= n => turn[16] = AddRotated(turn[8], n, 16)
    BY <1>1, <2>1 DEF UpSteps, n
  <2> QED  BY <1>4, <1>8, <2>1, <2>2
<1>10. HasSeen(turn[n \div 2], n, S, From(n, n))
  <2>1. CASE n = 2
    BY <1>5, <2>1
  <2>2. CASE n = 4
    BY <1>6, <2>2
  <2>3. CASE n = 8
    BY <1>7, <2>3
  <2>4. CASE n = 16
    BY <1>8, <2>4
  <2>5. CASE n = 32
    BY <1>9, <2>5
  <2> QED  BY <1>2, <2>1, <2>2, <2>3, <2>4, <2>5
<1>11. From(n, n)[0] = 0 .. n - 1 /\ 0 \in 0 .. n - 1
  <2>1. 0 \in 0 .. n - 1
    BY <1>2
  <2>2. From(n, n)[0] = {m \in 0 .. n - 1 : m \in 0 .. 0 + n - 1 \/ m + n \in 0 .. 0 + n - 1}
    BY <2>1 DEF From
  <2>3. 0 + n - 1 = n - 1
    BY <1>2
  <2> QED  BY <2>1, <2>2, <2>3
<1>12. turn[n \div 2][0] = SetToBag(Held(S, 0 .. n - 1))
  BY <1>10, <1>11 DEF HasSeen
<1> QED  BY <1>1, <1>12 DEF n

(* Every b-th lane, lane l among them.                                     *)
Every(n, b) == [l \in 0 .. n - 1 |-> {m \in 0 .. n - 1 : m % b = l % b}]

(* Lane l has seen every c-th lane from l on, lane m every c-th from m:    *)
(* together every b-th.                                                    *)
Interleaves(n, b, c, l, m) ==
  /\ m % c # l % c
  /\ \A i \in 0 .. n - 1 : i % b = l % b <=> (i % c = l % c \/ i % c = m % c)

(* Which lanes the next rotation brings together.                          *)
LEMMA EveryOther ==
  ASSUME NEW n \in {4, 8, 16, 32, 64}, NEW b \in {1, 2, 4, 8, 16, 32}, 2 * b <= n,
         NEW l \in 0 .. n - 1, NEW m \in 0 .. n - 1, m = l + b \/ m = (l + b) - n
  PROVE  Interleaves(n, b, 2 * b, l, m)
<1>1. CASE b = 1
  <2>1. n % 2 = 0
    OBVIOUS
  <2>2. 2 * b = 2
    BY <1>1
  <2> QED  BY <1>1, <2>2 DEF Interleaves
<1>2. CASE b = 2
  <2>2. 2 * b = 4
    BY <1>2
  <2> QED  BY <1>2, <2>2 DEF Interleaves
<1>3. CASE b = 4
  <2>2. 2 * b = 8
    BY <1>3
  <2> QED  BY <1>3, <2>2 DEF Interleaves
<1>4. CASE b = 8
  <2>2. 2 * b = 16
    BY <1>4
  <2> QED  BY <1>4, <2>2 DEF Interleaves
<1>5. CASE b = 16
  <2>2. 2 * b = 32
    BY <1>5
  <2> QED  BY <1>5, <2>2 DEF Interleaves
<1>6. CASE b = 32
  <2>2. 2 * b = 64
    BY <1>6
  <2> QED  BY <1>6, <2>2 DEF Interleaves
<1> QED  BY <1>1, <1>2, <1>3, <1>4, <1>5, <1>6

(* Rotating by b gives a lane the rest of every b-th lane.                 *)
LEMMA EveryHalves ==
  ASSUME NEW n \in {4, 8, 16, 32, 64}, NEW b \in {1, 2, 4, 8, 16, 32}, 2 * b <= n
  PROVE  Joins(n, b, Every(n, 2 * b), Every(n, b))
<1> SUFFICES ASSUME NEW l \in 0 .. n - 1
             PROVE  /\ (l + b) % n \in 0 .. n - 1
                    /\ Every(n, 2 * b)[l] \subseteq 0 .. n - 1
                    /\ Every(n, 2 * b)[(l + b) % n] \subseteq 0 .. n - 1
                    /\ Every(n, 2 * b)[l] \intersect Every(n, 2 * b)[(l + b) % n] = {}
                    /\ Every(n, b)[l] = Every(n, 2 * b)[l] \union Every(n, 2 * b)[(l + b) % n]
  BY DEF Joins
<1> DEFINE m == (l + b) % n
           c == 2 * b
<1>1. (m = l + b \/ m = (l + b) - n) /\ m \in 0 .. n - 1
  <2> DEFINE a == l + b
  <2>1. n \in Nat \ {0} /\ a \in 0 .. 2 * n - 1
    OBVIOUS
  <2> HIDE DEF a
  <2>2. Around(n, a)
    BY <2>1, AroundOnce
  <2> QED  BY <2>2 DEF Around, a
<1> HIDE DEF m
<1>2. Interleaves(n, b, c, l, m)
  BY <1>1, EveryOther
<1> HIDE DEF c
<1>3. /\ Every(n, c)[l] = {i \in 0 .. n - 1 : i % c = l % c}
      /\ Every(n, c)[m] = {i \in 0 .. n - 1 : i % c = m % c}
      /\ Every(n, b)[l] = {i \in 0 .. n - 1 : i % b = l % b}
  BY <1>1 DEF Every
<1>4. Every(n, c)[l] \intersect Every(n, c)[m] = {}
  BY <1>2, <1>3 DEF Interleaves
<1>5. Every(n, b)[l] = Every(n, c)[l] \union Every(n, c)[m]
  BY <1>2, <1>3 DEF Interleaves
<1> QED  BY <1>1, <1>3, <1>4, <1>5 DEF m, c

(* The steps of hreduce_qf16.                                              *)
DownSteps(turn, v) ==
  \A by \in Rotations :
    turn[by] = AddRotated(IF by = LANES_FP32 THEN v ELSE turn[2 * by], LANES_FP16, by)

(* The recursive function of the steps is what its definition says.        *)
LEMMA DownStepsExist ==
  ASSUME NEW v
  PROVE  \E turn : DownSteps(turn, v)
<1> DEFINE h == LANES_FP32
           n == LANES_FP16
           s32 == AddRotated(v, n, 32)
           s16 == AddRotated(IF h = 16 THEN v ELSE s32, n, 16)
           s8 == AddRotated(IF h = 8 THEN v ELSE s16, n, 8)
           s4 == AddRotated(IF h = 4 THEN v ELSE s8, n, 4)
           s2 == AddRotated(IF h = 2 THEN v ELSE s4, n, 2)
           s1 == AddRotated(IF h = 1 THEN v ELSE s2, n, 1)
           turn == [by \in Rotations |->
                      CASE by = 1 -> s1 [] by = 2 -> s2 [] by = 4 -> s4
                        [] by = 8 -> s8 [] by = 16 -> s16 [] by = 32 -> s32]
<1>1. \A by \in Rotations : by \in {1, 2, 4, 8, 16, 32} /\ (by # h => 2 * by \in Rotations)
  BY LanesAssumption DEF Rotations, LANES_FP32
<1>2. h \in {2, 4, 8, 16, 32}
  BY LanesAssumption DEF LANES_FP32
<1>3. \A by \in Rotations :
        /\ by = 1 => turn[by] = s1
        /\ by = 2 => turn[by] = s2
        /\ by = 4 => turn[by] = s4
        /\ by = 8 => turn[by] = s8
        /\ by = 16 => turn[by] = s16
        /\ by = 32 => turn[by] = s32
  <2> HIDE DEF s1, s2, s4, s8, s16, s32
  <2> QED  OBVIOUS
<1>4. \A by \in Rotations : by <= h
  BY DEF Rotations
<1> HIDE DEF turn, h, n
<1>5. DownSteps(turn, v)
  <2> SUFFICES ASSUME NEW by \in Rotations
               PROVE  turn[by] = AddRotated(IF by = h THEN v ELSE turn[2 * by], n, by)
    BY DEF DownSteps, h, n
  <2>1. CASE by = 1
    <3>1. by # h => 2 * by = 2 /\ 2 * by \in Rotations
      BY <1>1, <2>1
    <3>2. by # h => turn[2 * by] = s2
      BY <1>3, <3>1
    <3> HIDE DEF s2
    <3> QED  BY <1>3, <2>1, <3>2
  <2>2. CASE by = 2
    <3>1. by # h => 2 * by = 4 /\ 2 * by \in Rotations
      BY <1>1, <2>2
    <3>2. by # h => turn[2 * by] = s4
      BY <1>3, <3>1
    <3> HIDE DEF s4
    <3> QED  BY <1>3, <2>2, <3>2
  <2>3. CASE by = 4
    <3>1. by # h => 2 * by = 8 /\ 2 * by \in Rotations
      BY <1>1, <2>3
    <3>2. by # h => turn[2 * by] = s8
      BY <1>3, <3>1
    <3> HIDE DEF s8
    <3> QED  BY <1>3, <2>3, <3>2
  <2>4. CASE by = 8
    <3>1. by # h => 2 * by = 16 /\ 2 * by \in Rotations
      BY <1>1, <2>4
    <3>2. by # h => turn[2 * by] = s16
      BY <1>3, <3>1
    <3> HIDE DEF s16
    <3> QED  BY <1>3, <2>4, <3>2
  <2>5. CASE by = 16
    <3>1. by # h => 2 * by = 32 /\ 2 * by \in Rotations
      BY <1>1, <2>5
    <3>2. by # h => turn[2 * by] = s32
      BY <1>3, <3>1
    <3> HIDE DEF s32
    <3> QED  BY <1>3, <2>5, <3>2
  <2>6. CASE by = 32
    <3>1. by = h
      BY <1>2, <1>4, <2>6
    <3> QED  BY <1>3, <2>6, <3>1
  <2> QED  BY <1>1, <2>1, <2>2, <2>3, <2>4, <2>5, <2>6
<1> QED  BY <1>5

(* hreduce_qf16 returns its last step.                                     *)
LEMMA HreduceIs ==
  ASSUME NEW v
  PROVE  \E turn : DownSteps(turn, v) /\ hreduce_qf16(v) = turn[1]
<1> DEFINE turn == CHOOSE turn :
                     turn = [by \in Rotations |->
                       AddRotated(IF by = LANES_FP32 THEN v ELSE turn[2 * by], LANES_FP16, by)]
<1>1. hreduce_qf16(v) = turn[1]
  BY Zenon DEF hreduce_qf16
<1>2. PICK f : DownSteps(f, v)
  BY DownStepsExist
<1>3. \E g : g = [by \in Rotations |->
                    AddRotated(IF by = LANES_FP32 THEN v ELSE g[2 * by], LANES_FP16, by)]
  <2> DEFINE g == [by \in Rotations |-> f[by]]
  <2>1. \A by \in Rotations : by # LANES_FP32 => 2 * by \in Rotations
    BY LanesAssumption DEF Rotations, LANES_FP32
  <2>2. \A by \in Rotations :
          g[by] = AddRotated(IF by = LANES_FP32 THEN v ELSE g[2 * by], LANES_FP16, by)
    BY <1>2, <2>1 DEF DownSteps
  <2>3. g = [by \in Rotations |-> g[by]]
    OBVIOUS
  <2> HIDE DEF g
  <2>4. g = [by \in Rotations |->
               AddRotated(IF by = LANES_FP32 THEN v ELSE g[2 * by], LANES_FP16, by)]
    BY <2>2, <2>3
  <2> QED  BY <2>4
<1>4. turn = [by \in Rotations |->
                AddRotated(IF by = LANES_FP32 THEN v ELSE turn[2 * by], LANES_FP16, by)]
  BY <1>3
<1> HIDE DEF turn
<1>5. DownSteps(turn, v)
  BY <1>4 DEF DownSteps
<1> QED  BY <1>1, <1>5

(* So lane 0 ends with the whole vector, each lane's values once.          *)
LEMMA WholeVectorReduced ==
  ASSUME NEW v, NEW S, Apart(S, LANES_FP16),
         \A l \in 0 .. LANES_FP16 - 1 : v[l] = SetToBag(S[l])
  PROVE  hreduce_qf16(v)[0] = SetToBag(Held(S, 0 .. LANES_FP16 - 1))
<1> DEFINE n == LANES_FP16
           h == LANES_FP32
<1>1. PICK turn : DownSteps(turn, v) /\ hreduce_qf16(v) = turn[1]
  BY HreduceIs
<1>2. n \in {4, 8, 16, 32, 64} /\ n = 2 * h /\ h \in {2, 4, 8, 16, 32}
  BY LanesAssumption DEF LANES_FP32
<1>3. HasSeen(v, n, S, Every(n, 2 * h))
  <2> SUFFICES ASSUME NEW l \in 0 .. n - 1
               PROVE  v[l] = SetToBag(Held(S, Every(n, n)[l]))
    BY <1>2 DEF HasSeen
  <2>1. \A m \in 0 .. n - 1 : m % n = m
    BY <1>2
  <2>2. Every(n, n)[l] = {l}
    BY <2>1 DEF Every
  <2> QED  BY <2>2 DEF Held
<1>4. \A by \in Rotations : by \in {1, 2, 4, 8, 16, 32} /\ 2 * by <= n
  BY <1>2 DEF Rotations
<1>5. \A by \in {1, 2, 4, 8, 16, 32} : 2 * by <= n => by \in Rotations
  BY <1>2 DEF Rotations
<1> HIDE DEF n
<1>6. ASSUME NEW u, NEW b \in Rotations, HasSeen(u, n, S, Every(n, 2 * b))
      PROVE  HasSeen(AddRotated(u, n, b), n, S, Every(n, b))
  <2>1. Joins(n, b, Every(n, 2 * b), Every(n, b))
    BY <1>2, <1>4, EveryHalves
  <2> QED  BY <1>2, <1>6, <2>1, RotationSees DEF n
<1> HIDE DEF h
<1>7. h \in Rotations /\ HasSeen(turn[h], n, S, Every(n, h))
  <2>1. h \in Rotations
    BY <1>2, <1>5
  <2>2. turn[h] = AddRotated(v, n, h)
    BY <1>1, <2>1 DEF DownSteps, n, h
  <2> QED  BY <1>3, <1>6, <2>1, <2>2
<1>8. ASSUME NEW b \in Rotations, NEW c \in Rotations, c = 2 * b, b # h,
             HasSeen(turn[c], n, S, Every(n, c))
      PROVE  HasSeen(turn[b], n, S, Every(n, b))
  <2>1. turn[b] = AddRotated(turn[c], n, b)
    BY <1>1, <1>8 DEF DownSteps, n, h
  <2> QED  BY <1>6, <1>8, <2>1
<1> DEFINE Seen(b) == HasSeen(turn[b], n, S, Every(n, b))
<1>9. 32 <= h => Seen(32)
  BY <1>2, <1>7
<1>10. 16 <= h => Seen(16)
  <2>1. CASE h = 16
    BY <1>7, <2>1
  <2>2. CASE h > 16
    <3>1. 16 \in Rotations /\ 32 \in Rotations /\ 32 = 2 * 16 /\ 16 # h /\ Seen(32)
      BY <1>2, <1>5, <1>9, <2>2
    <3> QED  BY <1>8, <3>1
  <2> QED  BY <1>2, <2>1, <2>2
<1>11. 8 <= h => Seen(8)
  <2>1. CASE h = 8
    BY <1>7, <2>1
  <2>2. CASE h > 8
    <3>1. 8 \in Rotations /\ 16 \in Rotations /\ 16 = 2 * 8 /\ 8 # h /\ Seen(16)
      BY <1>2, <1>5, <1>10, <2>2
    <3> QED  BY <1>8, <3>1
  <2> QED  BY <1>2, <2>1, <2>2
<1>12. 4 <= h => Seen(4)
  <2>1. CASE h = 4
    BY <1>7, <2>1
  <2>2. CASE h > 4
    <3>1. 4 \in Rotations /\ 8 \in Rotations /\ 8 = 2 * 4 /\ 4 # h /\ Seen(8)
      BY <1>2, <1>5, <1>11, <2>2
    <3> QED  BY <1>8, <3>1
  <2> QED  BY <1>2, <2>1, <2>2
<1>13. Seen(2)
  <2>1. CASE h = 2
    BY <1>7, <2>1
  <2>2. CASE h > 2
    <3>1. 2 \in Rotations /\ 4 \in Rotations /\ 4 = 2 * 2 /\ 2 # h /\ Seen(4)
      BY <1>2, <1>5, <1>12, <2>2
    <3> QED  BY <1>8, <3>1
  <2> QED  BY <1>2, <2>1, <2>2
<1>14. Seen(1)
  <2>1. 1 \in Rotations /\ 2 \in Rotations /\ 2 = 2 * 1 /\ 1 # h
    BY <1>2, <1>5
  <2> QED  BY <1>8, <1>13, <2>1
<1>15. Every(n, 1)[0] = 0 .. n - 1 /\ 0 \in 0 .. n - 1
  <2>1. 0 \in 0 .. n - 1 /\ \A m \in 0 .. n - 1 : m % 1 = 0 % 1
    BY <1>2
  <2> QED  BY <2>1 DEF Every
<1>16. turn[1][0] = SetToBag(Held(S, 0 .. n - 1))
  BY <1>14, <1>15 DEF HasSeen
<1> QED  BY <1>1, <1>16 DEF n

(* Elements of a row: those of the given columns.                          *)
Cells(p0, cols) == {<<"x", p0 + c>> : c \in cols}
Column(C, w, l) == {c \in 0 .. C - 1 : c % w = l}

(* The columns of two parts of a row together.                             *)
LEMMA CellsJoin ==
  ASSUME NEW p0 \in Int, NEW A, NEW B, A \subseteq Int, B \subseteq Int,
         A \intersect B = {}
  PROVE  SetToBag(Cells(p0, A)) (+) SetToBag(Cells(p0, B)) = SetToBag(Cells(p0, A \union B))
<1>1. Cells(p0, A) \intersect Cells(p0, B) = {}
  <2> SUFFICES ASSUME NEW a \in A, NEW b \in B, <<"x", p0 + a>> = <<"x", p0 + b>>
               PROVE  FALSE
    BY DEF Cells
  <2>1. p0 + a = p0 + b
    OBVIOUS
  <2> QED  BY <2>1
<1>2. Cells(p0, A) \union Cells(p0, B) = Cells(p0, A \union B)
  BY DEF Cells
<1> QED  BY <1>1, <1>2, BagsJoin

(* What the lanes of w-lane vectors over a row hold, and all together.     *)
ByLane(p0, C, w) == [l \in 0 .. w - 1 |-> Cells(p0, Column(C, w, l))]

(* No two lanes hold the same element, and all lanes hold the whole row.   *)
LEMMA LanesApart ==
  ASSUME NEW p0 \in Int, NEW C \in Nat, NEW w \in Nat \ {0}
  PROVE  /\ Apart(ByLane(p0, C, w), w)
         /\ Held(ByLane(p0, C, w), 0 .. w - 1) = Cells(p0, 0 .. C - 1)
<1>1. Apart(ByLane(p0, C, w), w)
  <2> SUFFICES ASSUME NEW l \in 0 .. w - 1, NEW m \in 0 .. w - 1, l # m,
                      NEW a \in Column(C, w, l), NEW b \in Column(C, w, m),
                      <<"x", p0 + a>> = <<"x", p0 + b>>
               PROVE  FALSE
    BY DEF Apart, ByLane, Cells
  <2>1. a \in Int /\ b \in Int /\ a % w = l /\ b % w = m
    BY DEF Column
  <2>2. p0 + a = p0 + b
    OBVIOUS
  <2>3. a = b
    BY <2>1, <2>2
  <2> QED  BY <2>1, <2>3
<1>2. \A c \in 0 .. C - 1 : c % w \in 0 .. w - 1
  <2> SUFFICES ASSUME NEW c \in 0 .. C - 1
               PROVE  c % w \in 0 .. w - 1
    OBVIOUS
  <2>1. Splits(c, w)
    BY PlaceInVector
  <2> QED  BY <2>1 DEF Splits
<1>3. Held(ByLane(p0, C, w), 0 .. w - 1) \subseteq Cells(p0, 0 .. C - 1)
  BY DEF Held, ByLane, Cells, Column
<1>4. Cells(p0, 0 .. C - 1) \subseteq Held(ByLane(p0, C, w), 0 .. w - 1)
  <2> SUFFICES ASSUME NEW c \in 0 .. C - 1
               PROVE  <<"x", p0 + c>> \in Held(ByLane(p0, C, w), 0 .. w - 1)
    BY DEF Cells
  <2> DEFINE l == c % w
  <2>1. l \in 0 .. w - 1 /\ c \in Column(C, w, l)
    BY <1>2 DEF Column
  <2> HIDE DEF l
  <2>2. <<"x", p0 + c>> \in ByLane(p0, C, w)[l]
    BY <2>1 DEF ByLane, Cells
  <2> QED  BY <2>1, <2>2 DEF Held
<1> QED  BY <1>1, <1>3, <1>4

(* A bag of values that are the elements of the given columns, each once.  *)
Covers(S, g, col, p0, cols) ==
  /\ \A j \in S : col[j] \in cols /\ g[j] = <<"x", p0 + col[j]>>
  /\ \A i, j \in S : col[i] = col[j] => i = j
  /\ \A c \in cols : \E j \in S : col[j] = c

(* Such a bag is the bag of their set.                                     *)
LEMMA BagOfCells ==
  ASSUME NEW S, NEW g, NEW col, NEW p0 \in Int, NEW cols, cols \subseteq Int,
         Covers(S, g, col, p0, cols)
  PROVE  ValueBag(S, g) = SetToBag(Cells(p0, cols))
<1>1. Distinct(S, g)
  <2> SUFFICES ASSUME NEW i \in S, NEW j \in S, g[i] = g[j]
               PROVE  i = j
    BY DEF Distinct
  <2>1. <<"x", p0 + col[i]>> = <<"x", p0 + col[j]>>
    BY DEF Covers
  <2>2. p0 + col[i] = p0 + col[j] /\ col[i] \in Int /\ col[j] \in Int
    BY <2>1 DEF Covers
  <2> QED  BY <2>2 DEF Covers
<1>2. {g[j] : j \in S} = Cells(p0, cols)
  <2>1. \A j \in S : g[j] \in Cells(p0, cols)
    BY DEF Covers, Cells
  <2>2. ASSUME NEW c \in cols
        PROVE  \E j \in S : g[j] = <<"x", p0 + c>>
    <3>1. PICK j \in S : col[j] = c
      BY DEF Covers
    <3>2. g[j] = <<"x", p0 + c>>
      BY <3>1 DEF Covers
    <3> QED  BY <3>2
  <2>3. \A y \in Cells(p0, cols) : \E j \in S : g[j] = y
    BY <2>2 DEF Cells
  <2> QED  BY <2>1, <2>3
<1>3. ValueBag(S, g) = SetToBag({g[j] : j \in S})
  BY <1>1, BagOfDistinct
<1> QED  BY <1>2, <1>3

-----------------------------------------------------------------------------
(* softmax_fp16: its accumulator, what it has seen, its statistics.        *)
SoftmaxIn(d, r, l, j) == WidenOrdered(RowVector(d, r, j[1]))[j[2]][l]
SoftmaxAcc(d, r) ==
  [l \in 0 .. LANES_FP32 - 1 |->
     BagOf((0 .. (d[2] \div LANES_FP16) - 1) \X {1, 2}, LAMBDA j : SoftmaxIn(d, r, l, j))]
SoftmaxSeen(d, r) ==
  (IF d[2] \div LANES_FP16 > 0 THEN ReduceSumF32(SoftmaxAcc(d, r))[0] ELSE EmptyBag)
    (+) TailBag(d, r)
SoftmaxMax(d, r) ==
  Reduced("max", [e \in DOMAIN SoftmaxSeen(d, r) |-> 1], "x", r * d[2], d[2])
SoftmaxSum(d, r) == Reduced("sum", SoftmaxSeen(d, r), "x", r * d[2], d[2])
SoftmaxHalf(d, r, m, s, i, h) ==
  LET v == WidenOrdered(RowVector(d, r, i))[h] IN [l \in DOMAIN v |-> Softmax(v[l], m, s)]
SoftmaxVector(d, r, m, s, i) ==
  NarrowOrdered(SoftmaxHalf(d, r, m, s, i, 1), SoftmaxHalf(d, r, m, s, i, 2))
SoftmaxFrom(d, r, m, s) ==
  AlignedRun(r * d[2], d[2], LANES_FP16,
             LAMBDA i, l : SoftmaxVector(d, r, m, s, i)[l],
             LAMBDA c : Softmax(RowX(d, r, c), m, s))

(* softmax_row in the terms of these definitions.                          *)
LEMMA SoftmaxRowIs ==
  ASSUME NEW d, NEW r
  PROVE  softmax_row(d, r) = SoftmaxFrom(d, r, SoftmaxMax(d, r), SoftmaxSum(d, r))
BY Zenon DEF softmax_row, SoftmaxFrom, SoftmaxMax, SoftmaxSum, SoftmaxSeen, SoftmaxAcc,
             SoftmaxIn, SoftmaxVector, SoftmaxHalf

(* The scalar loop takes in the columns after the whole vectors.           *)
LEMMA TailSeen ==
  ASSUME NEW d, NEW R \in Nat, NEW C \in Nat \ {0}, d[1] = R, d[2] = C,
         NEW r \in 0 .. R - 1
  PROVE  TailBag(d, r) = SetToBag(Cells(r * C, Whole(d) .. C - 1))
<1> DEFINE cols == Whole(d) .. C - 1
           g == [c \in cols |-> RowX(d, r, c)]
           col == [c \in cols |-> c]
           p0 == r * C
<1>1. Whole(d) \in 0 .. C
  BY WholeOnes, LanesFacts DEF Whole
<1>2. \A c \in 0 .. C - 1 : RowX(d, r, c) = <<"x", p0 + c>>
  <2> SUFFICES ASSUME NEW c \in 0 .. C - 1
               PROVE  RowX(d, r, c) = <<"x", p0 + c>>
    OBVIOUS
  <2>1. InRun(R, C, C, r, c)
    BY PlaceInRun
  <2>2. r * C + c \in 0 .. R * C - 1
    BY <2>1 DEF InRun
  <2> QED  BY <2>2 DEF RowX, Elem, RowSize
<1>3. p0 \in Int
  OBVIOUS
<1> HIDE DEF p0
<1>4. cols \subseteq Int /\ \A c \in cols : c \in 0 .. C - 1
  BY <1>1
<1>5. Covers(cols, g, col, p0, cols)
  <2> HIDE DEF cols
  <2> QED  BY <1>2, <1>4 DEF Covers
<1>6. TailBag(d, r) = ValueBag(cols, g)
  <2> HIDE DEF cols
  <2>1. TailBag(d, r) = BagOf(cols, LAMBDA c : RowX(d, r, c))
    BY DEF TailBag, cols
  <2>2. {g[c] : c \in cols} = {RowX(d, r, c) : c \in cols}
    OBVIOUS
  <2>3. \A e : {c \in cols : g[c] = e} = {c \in cols : RowX(d, r, c) = e}
    OBVIOUS
  <2>4. BagOf(cols, LAMBDA c : RowX(d, r, c))
          = [e \in {RowX(d, r, c) : c \in cols} |->
               Cardinality({c \in cols : RowX(d, r, c) = e})]
    BY Zenon DEF BagOf
  <2>5. ValueBag(cols, g) = [e \in {g[c] : c \in cols} |-> Cardinality({c \in cols : g[c] = e})]
    BY DEF ValueBag
  <2> HIDE DEF g
  <2>6. \A e : Cardinality({c \in cols : g[c] = e})
                = Cardinality({c \in cols : RowX(d, r, c) = e})
    BY <2>3
  <2>7. [e \in {g[c] : c \in cols} |-> Cardinality({c \in cols : g[c] = e})]
          = [e \in {RowX(d, r, c) : c \in cols} |->
               Cardinality({c \in cols : RowX(d, r, c) = e})]
    <3> DEFINE A == {g[c] : c \in cols}
               B == {RowX(d, r, c) : c \in cols}
               F(e) == Cardinality({c \in cols : g[c] = e})
               H(e) == Cardinality({c \in cols : RowX(d, r, c) = e})
    <3>1. A = B /\ \A e : F(e) = H(e)
      BY <2>2, <2>6
    <3> HIDE DEF A, B, F, H
    <3>2. [e \in A |-> F(e)] = [e \in B |-> H(e)]
      BY <3>1
    <3> QED  BY <3>2 DEF A, B, F, H
  <2> QED  BY Zenon, <2>1, <2>4, <2>5, <2>7
<1> HIDE DEF g, col, cols
<1>7. TailBag(d, r) = SetToBag(Cells(p0, cols))
  BY <1>3, <1>4, <1>5, <1>6, BagOfCells
<1> QED  BY <1>7 DEF p0, cols

(* A row of whole vectors has some, and they are all of it.                *)
LEMMA WholeRow ==
  ASSUME NEW C \in Nat \ {0}, C % LANES_FP16 = 0
  PROVE  /\ C \div LANES_FP16 \in Nat \ {0}
         /\ C = (C \div LANES_FP16) * LANES_FP16
         /\ C = 2 * (C \div LANES_FP16) * LANES_FP32
<1> DEFINE nv == C \div LANES_FP16
           w == LANES_FP16
<1>1. w \in Nat \ {0} /\ w = 2 * LANES_FP32 /\ LANES_FP32 \in Nat
  BY LanesFacts
<1>2. nv \in Nat /\ nv * w = C
  <2>1. Splits(C, LANES_FP16)
    BY LanesFacts, PlaceInVector
  <2>2. nv \in Nat /\ nv * w + (C % w) = C
    BY <2>1 DEF Splits
  <2>3. C % w = 0
    OBVIOUS
  <2> HIDE DEF nv, w
  <2>4. nv * w \in Int
    BY <1>1, <2>2
  <2> QED  BY <2>2, <2>3, <2>4
<1> HIDE DEF nv
<1>3. nv # 0
  BY <1>1, <1>2
<1>4. 2 * nv * LANES_FP32 = nv * (2 * LANES_FP32)
  BY <1>1, <1>2
<1> QED  BY <1>1, <1>2, <1>3, <1>4 DEF nv, w

(* The columns in whole vectors. *)
LEMMA WholePart ==
  ASSUME NEW d, NEW C \in Nat, d[2] = C
  PROVE  /\ C \div LANES_FP16 \in Nat
         /\ Whole(d) = 2 * (C \div LANES_FP16) * LANES_FP32
         /\ Whole(d) \in 0 .. C
<1> DEFINE nv == C \div LANES_FP16
           w == LANES_FP16
<1>1. w \in Nat \ {0} /\ w = 2 * LANES_FP32 /\ LANES_FP32 \in Nat
  BY LanesFacts
<1>2. nv \in Nat /\ nv * w \in 0 .. C /\ Whole(d) = nv * w
  <2>1. Splits(C, LANES_FP16)
    BY LanesFacts, PlaceInVector
  <2>2. nv \in Nat
    BY <2>1 DEF Splits
  <2> QED  BY <2>2, WholeOnes, LanesFacts DEF Whole
<1> HIDE DEF nv
<1>3. 2 * nv * LANES_FP32 = nv * (2 * LANES_FP32)
  BY <1>1, <1>2
<1> QED  BY <1>1, <1>2, <1>3 DEF nv, w

(* What a lane takes in of one half of one vector.                         *)
LEMMA SoftmaxInIs ==
  ASSUME NEW d, NEW R \in Nat, NEW C \in Nat \ {0}, d[1] = R, d[2] = C,
         NEW r \in 0 .. R - 1, Starts(r, C, LANES_FP16), NEW l \in 0 .. LANES_FP32 - 1,
         NEW i \in 0 .. (C \div LANES_FP16) - 1, NEW h \in {1, 2}, NEW j, j[1] = i, j[2] = h,
         NEW c, c = (2 * i + (h - 1)) * LANES_FP32 + l
  PROVE  /\ c \in Column(Whole(d), LANES_FP32, l)
         /\ SoftmaxIn(d, r, l, j) = <<"x", r * C + c>>
<1> DEFINE m == 2 * i + (h - 1)
           u == (h - 1) * LANES_FP32 + l
           nv == C \div LANES_FP16
           n == 2 * nv
<1>1. /\ nv \in Nat /\ n \in Nat /\ m \in 0 .. n - 1 /\ i \in Nat
      /\ Whole(d) = n * LANES_FP32 /\ Whole(d) \in 0 .. C
  BY WholePart
<1>2. /\ u \in 0 .. LANES_FP16 - 1 /\ i * LANES_FP16 + u = c
      /\ h = 1 => u = l
      /\ h = 2 => u = LANES_FP32 + l
  BY LanesFacts
<1>3. c \in 0 .. Whole(d) - 1 /\ c \in 0 .. C - 1 /\ c % LANES_FP32 = l
  <2> HIDE DEF n, nv, m
  <2>1. Packed(n, LANES_FP32, m, l)
    BY <1>1, LanesFacts, Pack
  <2> QED  BY <1>1, <2>1 DEF Packed, m
<1>4. SoftmaxIn(d, r, l, j) = RowVector(d, r, i)[u]
  <2>1. WidenOrdered(RowVector(d, r, i))[h][l] = RowVector(d, r, i)[u]
    BY <1>2, InOrder
  <2> QED  BY <2>1 DEF SoftmaxIn
<1>5. RowVector(d, r, i)[u] = RowX(d, r, c)
  <2> HIDE DEF u
  <2> QED  BY <1>1, <1>2, RowLoad
<1>6. RowX(d, r, c) = <<"x", r * C + c>>
  <2>1. InRun(R, C, C, r, c)
    BY <1>3, PlaceInRun
  <2>2. r * C + c \in 0 .. R * C - 1
    BY <2>1 DEF InRun
  <2> QED  BY <2>2 DEF RowX, Elem, RowSize
<1> QED  BY <1>3, <1>4, <1>5, <1>6 DEF Column

(* What a lane of the accumulator holds: its columns, each once.           *)
LEMMA SoftmaxAccIs ==
  ASSUME NEW d, NEW R \in Nat, NEW C \in Nat \ {0}, d[1] = R, d[2] = C,
         NEW r \in 0 .. R - 1, Starts(r, C, LANES_FP16), NEW l \in 0 .. LANES_FP32 - 1
  PROVE  SoftmaxAcc(d, r)[l] = SetToBag(ByLane(r * C, Whole(d), LANES_FP32)[l])
<1> DEFINE nv == C \div LANES_FP16
           S == (0 .. nv - 1) \X {1, 2}
           g == [j \in S |-> SoftmaxIn(d, r, l, j)]
           col == [j \in S |-> (2 * j[1] + (j[2] - 1)) * LANES_FP32 + l]
           p0 == r * C
           cols == Column(Whole(d), LANES_FP32, l)
           n == 2 * nv
<1>1. /\ nv \in Nat /\ n \in Nat /\ Whole(d) = n * LANES_FP32
      /\ p0 \in Int /\ cols \subseteq Int
  BY WholePart DEF Column
<1>2. ASSUME NEW j \in S
      PROVE  col[j] \in cols /\ g[j] = <<"x", p0 + col[j]>>
  BY SoftmaxInIs
<1>3. ASSUME NEW i \in S, NEW j \in S, col[i] = col[j]
      PROVE  i = j
  <2> DEFINE mi == 2 * i[1] + (i[2] - 1)
             mj == 2 * j[1] + (j[2] - 1)
  <2>1. mi \in Int /\ mj \in Int
    OBVIOUS
  <2>2. mi * LANES_FP32 + l = mj * LANES_FP32 + l
    BY <1>3
  <2>3. mi = mj
    <3> HIDE DEF mi, mj
    <3> QED  BY <2>1, <2>2, NoMultipleBetween, LanesFacts
  <2>4. i[1] = j[1] /\ i[2] = j[2]
    BY <2>3
  <2> QED  BY <2>4
<1>4. ASSUME NEW c \in cols
      PROVE  \E j \in S : col[j] = c
  <2> DEFINE m == c \div LANES_FP32
             i == m \div 2
             h == (m % 2) + 1
  <2>1. m \in 0 .. n - 1 /\ m * LANES_FP32 + l = c
    <3> HIDE DEF n
    <3>1. c \in 0 .. n * LANES_FP32 - 1 /\ c % LANES_FP32 = l
      BY <1>1 DEF Column
    <3>2. Unpacked(n, LANES_FP32, c)
      BY <1>1, <3>1, LanesFacts, Unpack
    <3> QED  BY <3>1, <3>2 DEF Unpacked
  <2> HIDE DEF m
  <2>2. i \in 0 .. nv - 1 /\ h \in {1, 2} /\ 2 * i + (h - 1) = m
    <3> HIDE DEF nv
    <3> QED  BY <1>1, <2>1
  <2> HIDE DEF i, h
  <2>3. <<i, h>> \in S
    BY <2>2
  <2>4. col[<<i, h>>] = (2 * i + (h - 1)) * LANES_FP32 + l
    BY <2>3
  <2> QED  BY <2>1, <2>2, <2>3, <2>4
<1>5. Covers(S, g, col, p0, cols)
  <2> HIDE DEF S, g, col, p0, cols
  <2> QED  BY <1>2, <1>3, <1>4 DEF Covers
<1>6. SoftmaxAcc(d, r)[l] = ValueBag(S, g)
  <2> HIDE DEF S
  <2>1. SoftmaxAcc(d, r)[l] = BagOf(S, LAMBDA j : SoftmaxIn(d, r, l, j))
    BY Zenon DEF SoftmaxAcc, S, nv
  <2>2. BagOf(S, LAMBDA j : SoftmaxIn(d, r, l, j))
          = [e \in {SoftmaxIn(d, r, l, j) : j \in S} |->
               Cardinality({j \in S : SoftmaxIn(d, r, l, j) = e})]
    BY Zenon DEF BagOf
  <2>3. {g[j] : j \in S} = {SoftmaxIn(d, r, l, j) : j \in S}
    OBVIOUS
  <2>4. \A e : {j \in S : g[j] = e} = {j \in S : SoftmaxIn(d, r, l, j) = e}
    OBVIOUS
  <2> HIDE DEF g
  <2>5. \A e : Cardinality({j \in S : g[j] = e})
                 = Cardinality({j \in S : SoftmaxIn(d, r, l, j) = e})
    BY <2>4
  <2>6. ValueBag(S, g) = [e \in {g[j] : j \in S} |-> Cardinality({j \in S : g[j] = e})]
    BY DEF ValueBag
  <2>7. [e \in {g[j] : j \in S} |-> Cardinality({j \in S : g[j] = e})]
          = [e \in {SoftmaxIn(d, r, l, j) : j \in S} |->
               Cardinality({j \in S : SoftmaxIn(d, r, l, j) = e})]
    <3> DEFINE A == {g[j] : j \in S}
               B == {SoftmaxIn(d, r, l, j) : j \in S}
               F(e) == Cardinality({j \in S : g[j] = e})
               H(e) == Cardinality({j \in S : SoftmaxIn(d, r, l, j) = e})
    <3>1. A = B /\ \A e : F(e) = H(e)
      BY <2>3, <2>5
    <3> HIDE DEF A, B, F, H
    <3>2. [e \in A |-> F(e)] = [e \in B |-> H(e)]
      BY <3>1
    <3> QED  BY <3>2 DEF A, B, F, H
  <2> QED  BY Zenon, <2>1, <2>2, <2>6, <2>7
<1> HIDE DEF S, g, col, p0, cols
<1>7. SoftmaxAcc(d, r)[l] = SetToBag(Cells(p0, cols))
  BY <1>1, <1>5, <1>6, BagOfCells
<1> QED  BY <1>7 DEF p0, cols, ByLane

(* softmax_row has taken in the whole row, each element once, whatever     *)
(* part of it lies in whole vectors.                                       *)
LEMMA SoftmaxSeenIs ==
  ASSUME NEW d, NEW R \in Nat, NEW C \in Nat \ {0}, d[1] = R, d[2] = C,
         NEW r \in 0 .. R - 1, Meets(r, C, LANES_FP16)
  PROVE  SoftmaxSeen(d, r) = SetToBag(Cells(r * C, 0 .. C - 1))
<1> DEFINE p0 == r * C
           whole == 0 .. Whole(d) - 1
           tail == Whole(d) .. C - 1
           vectors == IF C \div LANES_FP16 > 0 THEN ReduceSumF32(SoftmaxAcc(d, r))[0]
                      ELSE EmptyBag
<1>1. p0 \in Int /\ Whole(d) \in 0 .. C
  BY WholePart
<1>2. TailBag(d, r) = SetToBag(Cells(p0, tail))
  BY TailSeen
<1>3. vectors = SetToBag(Cells(p0, whole))
  <2>1. CASE C \div LANES_FP16 > 0
    <3>1. Starts(r, C, LANES_FP16)
      <4>1. C < LANES_FP16 => C \div LANES_FP16 = 0
        BY NoVectors, LanesFacts
      <4> QED  BY <2>1, <4>1 DEF Meets
    <3> DEFINE S == ByLane(p0, Whole(d), LANES_FP32)
               acc == SoftmaxAcc(d, r)
    <3>2. Apart(S, LANES_FP32) /\ Held(S, 0 .. LANES_FP32 - 1) = Cells(p0, whole)
      <4>1. Whole(d) \in Nat /\ LANES_FP32 \in Nat \ {0}
        BY <1>1, LanesFacts
      <4> HIDE DEF p0
      <4> QED  BY <1>1, <4>1, LanesApart
    <3>3. \A l \in 0 .. LANES_FP32 - 1 : acc[l] = SetToBag(S[l])
      BY <3>1, SoftmaxAccIs
    <3> HIDE DEF S, acc, p0, whole
    <3>4. ReduceSumF32(acc)[0] = SetToBag(Cells(p0, whole))
      BY <3>2, <3>3, WholeVectorSummed
    <3> QED  BY <2>1, <3>4 DEF acc
  <2>2. CASE ~(C \div LANES_FP16 > 0)
    <3>1. C \div LANES_FP16 = 0
      BY <2>2, WholePart
    <3>2. Whole(d) = 0
      BY <3>1, LanesFacts DEF Whole
    <3>3. whole = {}
      BY <3>2
    <3>4. EmptyBag = SetToBag(Cells(p0, {}))
      BY DEF EmptyBag, Cells
    <3> HIDE DEF p0, whole
    <3> QED  BY <2>2, <3>3, <3>4
  <2> QED  BY <2>1, <2>2
<1>4. SoftmaxSeen(d, r) = vectors (+) TailBag(d, r)
  BY DEF SoftmaxSeen
<1>5. /\ whole \subseteq Int /\ tail \subseteq Int /\ whole \intersect tail = {}
      /\ whole \union tail = 0 .. C - 1
  BY <1>1
<1> HIDE DEF p0, whole, tail, vectors
<1>6. SetToBag(Cells(p0, whole)) (+) SetToBag(Cells(p0, tail))
        = SetToBag(Cells(p0, whole \union tail))
  BY <1>1, <1>5, CellsJoin
<1> QED  BY <1>2, <1>3, <1>4, <1>5, <1>6 DEF p0

(* A reduction over a whole row is that of its baseline.                   *)
LEMMA RowReduced ==
  ASSUME NEW op, NEW p0 \in Int, NEW C \in Nat, NEW bag,
         bag = SetToBag(Cells(p0, 0 .. C - 1))
  PROVE  Reduced(op, bag, "x", p0, C) = <<op, p0>>
<1>1. Cells(p0, 0 .. C - 1) = {<<"x", p>> : p \in p0 .. p0 + C - 1}
  <2>1. ASSUME NEW p \in p0 .. p0 + C - 1
        PROVE  <<"x", p>> \in Cells(p0, 0 .. C - 1)
    <3>1. p - p0 \in 0 .. C - 1 /\ p0 + (p - p0) = p
      OBVIOUS
    <3> DEFINE c == p - p0
    <3>2. c \in 0 .. C - 1 /\ p0 + c = p
      BY <3>1
    <3> HIDE DEF c
    <3> QED  BY <3>2 DEF Cells
  <2>2. ASSUME NEW c \in 0 .. C - 1
        PROVE  p0 + c \in p0 .. p0 + C - 1
    OBVIOUS
  <2> QED  BY <2>1, <2>2 DEF Cells
<1>2. bag = SetToBag({<<"x", p>> : p \in p0 .. p0 + C - 1})
  BY <1>1
<1> QED  BY Zenon, <1>2 DEF Reduced

(* So its maximum and its sum are those of the row.                        *)
LEMMA SoftmaxStats ==
  ASSUME NEW d, NEW R \in Nat, NEW C \in Nat \ {0}, d[1] = R, d[2] = C,
         NEW r \in 0 .. R - 1, Meets(r, C, LANES_FP16)
  PROVE  SoftmaxMax(d, r) = <<"max", r * C>> /\ SoftmaxSum(d, r) = <<"sum", r * C>>
<1> DEFINE p0 == r * C
           bag == SoftmaxSeen(d, r)
           once == [e \in DOMAIN bag |-> 1]
<1>1. p0 \in Int
  OBVIOUS
<1>2. bag = SetToBag(Cells(p0, 0 .. C - 1))
  BY SoftmaxSeenIs
<1>3. once = SetToBag(Cells(p0, 0 .. C - 1))
  <2> HIDE DEF p0, bag
  <2> QED  BY <1>2 DEF SetToBag
<1> HIDE DEF p0, bag, once
<1>4. Reduced("max", once, "x", p0, C) = <<"max", p0>>
  BY <1>1, <1>3, RowReduced
<1>5. Reduced("sum", bag, "x", p0, C) = <<"sum", p0>>
  BY <1>1, <1>2, RowReduced
<1> QED  BY <1>4, <1>5 DEF SoftmaxMax, SoftmaxSum, p0, bag, once

(* An element of the output.                                               *)
SoftmaxElem(d, r, c) ==
  Softmax(RowX(d, r, c), <<"max", r * d[2]>>, <<"sum", r * d[2]>>)

(* A lane of one half of what is stored.                                   *)
LEMMA SoftmaxHalfLane ==
  ASSUME NEW d, NEW C \in Nat \ {0}, d[2] = C, NEW r \in Nat, Starts(r, C, LANES_FP16),
         NEW m, NEW s, NEW i \in Nat, NEW h \in {1, 2}, NEW l \in 0 .. LANES_FP32 - 1
  PROVE  SoftmaxHalf(d, r, m, s, i, h)[l]
           = Softmax(RowX(d, r, i * LANES_FP16 + (h - 1) * LANES_FP32 + l), m, s)
<1> DEFINE u == (h - 1) * LANES_FP32 + l
           part == WidenOrdered(RowVector(d, r, i))[h]
           c == i * LANES_FP16 + u
<1>1. /\ u \in 0 .. LANES_FP16 - 1
      /\ h = 1 => u = l
      /\ h = 2 => u = LANES_FP32 + l
      /\ c = i * LANES_FP16 + (h - 1) * LANES_FP32 + l
  BY LanesFacts
<1>2. part[l] = RowVector(d, r, i)[u]
  BY <1>1, InOrder
<1>3. part[l] = RowX(d, r, c)
  <2> HIDE DEF u, part
  <2> QED  BY <1>1, <1>2, RowLoad
<1>4. l \in DOMAIN part
  BY WidenedLanes DEF WidenOrdered
<1> HIDE DEF part, c
<1>5. SoftmaxHalf(d, r, m, s, i, h)[l] = Softmax(part[l], m, s)
  BY <1>4 DEF SoftmaxHalf, part
<1> QED  BY <1>1, <1>3, <1>5

(* A lane of the vector that softmax_fp16 stores.                          *)
LEMMA SoftmaxLane ==
  ASSUME NEW d, NEW C \in Nat \ {0}, d[2] = C, NEW r \in Nat, Starts(r, C, LANES_FP16),
         NEW m, NEW s, NEW i \in Nat, NEW l \in 0 .. LANES_FP16 - 1
  PROVE  SoftmaxVector(d, r, m, s, i)[l] = Softmax(RowX(d, r, i * LANES_FP16 + l), m, s)
<1> DEFINE lo == SoftmaxHalf(d, r, m, s, i, 1)
           hi == SoftmaxHalf(d, r, m, s, i, 2)
<1>1. SoftmaxVector(d, r, m, s, i) = NarrowOrdered(lo, hi)
  BY DEF SoftmaxVector
<1>2. CASE l < LANES_FP32
  <2>1. /\ l \in 0 .. LANES_FP32 - 1
        /\ i * LANES_FP16 + (1 - 1) * LANES_FP32 + l = i * LANES_FP16 + l
    BY <1>2, LanesFacts
  <2>2. lo[l] = Softmax(RowX(d, r, i * LANES_FP16 + (1 - 1) * LANES_FP32 + l), m, s)
    BY <2>1, SoftmaxHalfLane
  <2> HIDE DEF lo, hi
  <2>3. NarrowOrdered(lo, hi)[l] = lo[l]
    BY <2>1, BackInOrder
  <2> QED  BY <1>1, <2>1, <2>2, <2>3
<1>3. CASE ~(l < LANES_FP32)
  <2> DEFINE u == l - LANES_FP32
  <2>1. /\ u \in 0 .. LANES_FP32 - 1 /\ LANES_FP32 + u = l
        /\ i * LANES_FP16 + (2 - 1) * LANES_FP32 + u = i * LANES_FP16 + l
    BY <1>3, LanesFacts
  <2> HIDE DEF u
  <2>2. hi[u] = Softmax(RowX(d, r, i * LANES_FP16 + (2 - 1) * LANES_FP32 + u), m, s)
    BY <2>1, SoftmaxHalfLane
  <2> HIDE DEF lo, hi
  <2>3. NarrowOrdered(lo, hi)[LANES_FP32 + u] = hi[u]
    BY <2>1, BackInOrder
  <2> QED  BY <1>1, <2>1, <2>2, <2>3
<1> QED  BY <1>2, <1>3

(* The stores of one row, given its maximum and its sum.                   *)
LEMMA SoftmaxStored ==
  ASSUME NEW d, NEW C \in Nat \ {0}, d[2] = C, NEW r \in Nat, Meets(r, C, LANES_FP16),
         NEW m, NEW s, NEW val, val = [c \in 0 .. C - 1 |-> Softmax(RowX(d, r, c), m, s)]
  PROVE  Holds(SoftmaxFrom(d, r, m, s), r * C, C, val)
<1> DEFINE dst == r * C
           base == AlignDown(dst, LANES_FP16)
           covered == (C \div LANES_FP16) * LANES_FP16
           rest == [q \in dst + covered .. dst + C - 1 |-> Softmax(RowX(d, r, q - dst), m, s)]
           vectors == [q \in base .. base + covered - 1 |->
                         SoftmaxVector(d, r, m, s, (q - base) \div LANES_FP16)
                           [(q - base) % LANES_FP16]]
<1>1. SoftmaxFrom(d, r, m, s) = Over(rest, vectors)
  BY DEF SoftmaxFrom, AlignedRun, StoresFrom
<1>2. dst \in Nat /\ base \in Int
  BY LanesFacts DEF AlignDown
<1>3. Starts(r, C, LANES_FP16) => base = dst
  <2>1. Starts(r, C, LANES_FP16) => AlignedRow(r, C, LANES_FP16)
    BY RowAligned, LanesFacts
  <2> QED  BY <2>1 DEF AlignedRow
<1>4. base = dst \/ C < LANES_FP16
  BY <1>3 DEF Meets
<1> HIDE DEF base, dst
<1>5. /\ DOMAIN rest = dst + covered .. dst + C - 1
      /\ DOMAIN vectors = base .. base + covered - 1
  OBVIOUS
<1>6. covered \in 0 .. C
  BY WholeOnes, LanesFacts
<1>7. ElemsAt(rest, dst, val)
  <2> SUFFICES ASSUME NEW q \in DOMAIN rest
               PROVE  rest[q] = val[q - dst]
    BY DEF ElemsAt
  <2>1. q - dst \in 0 .. C - 1
    <3> HIDE DEF covered
    <3> QED  BY <1>2, <1>5, <1>6
  <2>2. rest[q] = Softmax(RowX(d, r, q - dst), m, s)
    <3> HIDE DEF covered
    <3> QED  OBVIOUS
  <2> QED  BY <2>1, <2>2
<1>8. base = dst => LanesAt(vectors, base, LANES_FP16, val)
  <2> SUFFICES ASSUME base = dst, NEW q \in DOMAIN vectors
               PROVE  vectors[q] = val[((q - base) \div LANES_FP16) * LANES_FP16
                                         + ((q - base) % LANES_FP16)]
    BY DEF LanesAt
  <2> DEFINE i == (q - base) \div LANES_FP16
             l == (q - base) % LANES_FP16
  <2>1. vectors[q] = SoftmaxVector(d, r, m, s, i)[l]
    <3> HIDE DEF covered
    <3> QED  OBVIOUS
  <2>2. InVector(C, LANES_FP16, q - base)
    BY <1>2, <1>5, WholeVectors, LanesFacts
  <2>3. i \in Nat /\ l \in 0 .. LANES_FP16 - 1 /\ i * LANES_FP16 + l \in 0 .. C - 1
    BY <2>2 DEF InVector
  <2>4. Starts(r, C, LANES_FP16)
    <3>1. C < LANES_FP16 => covered = 0
      BY NoVectors, LanesFacts
    <3> HIDE DEF covered
    <3> QED  BY <1>2, <1>5, <3>1 DEF Meets
  <2> HIDE DEF i, l, vectors
  <2>5. SoftmaxVector(d, r, m, s, i)[l] = Softmax(RowX(d, r, i * LANES_FP16 + l), m, s)
    BY <2>3, <2>4, SoftmaxLane
  <2> QED  BY <2>1, <2>3, <2>5 DEF i, l
<1> HIDE DEF rest, vectors
<1>9. Holds(Over(rest, vectors), dst, C, val)
  BY <1>2, <1>4, <1>5, <1>7, <1>8, RunAt, LanesFacts
<1> QED  BY <1>1, <1>9 DEF dst

(* The same by the scalar path, for rows too long for the scratch.         *)
LEMMA SoftmaxScalar ==
  ASSUME NEW d, NEW C \in Nat \ {0}, d[2] = C, NEW r \in Nat, NEW val,
         val = [c \in 0 .. C - 1 |-> SoftmaxElem(d, r, c)]
  PROVE  Holds(softmax_row_scalar(d, r), r * C, C, val)
<1> DEFINE dst == r * C
<1>1. softmax_row_scalar(d, r) = [q \in dst .. (r + 1) * C - 1 |-> SoftmaxElem(d, r, q - dst)]
  BY DEF softmax_row_scalar, RowOf, SoftmaxElem
<1>2. dst \in Int /\ (r + 1) * C - 1 = dst + C - 1
  OBVIOUS
<1> HIDE DEF dst
<1>3. DOMAIN softmax_row_scalar(d, r) = dst .. dst + C - 1
  BY <1>1, <1>2
<1>4. ASSUME NEW i \in 0 .. C - 1
      PROVE  softmax_row_scalar(d, r)[dst + i] = val[i]
  <2> DEFINE q == dst + i
  <2>1. q \in dst .. dst + C - 1 /\ q - dst = i
    BY <1>2
  <2> HIDE DEF q
  <2>2. softmax_row_scalar(d, r)[q] = SoftmaxElem(d, r, i)
    BY <1>1, <1>2, <2>1
  <2> QED  BY <2>2 DEF q
<1> QED  BY <1>3, <1>4 DEF Holds, dst

(* softmax_fp16 computes its baseline for rows too long for the scratch    *)
(* and for rows that start on vector boundaries or hold no whole vector.   *)
LEMMA SoftmaxFaithful ==
  ASSUME NEW d, NEW R \in Nat \ {0}, NEW C \in Nat \ {0}, d[1] = R, d[2] = C,
         C > SOFTMAX_SCRATCH_CAP \/ Rowwise(R, C, LANES_FP16)
  PROVE  Faithful("softmax_fp16", d)
<1> DEFINE k == "softmax_fp16"
<1>1. \A s : Step(k, d, s) = softmax_fp16(d, s)
  BY DEF Step, Stores, KERNEL
<1>2. R \in Nat /\ Steps(k, KERNEL, d) = R /\ Size(k, d) = R * C /\ RowSize(d) = R * C
  BY DEF Steps, Size, RowSize, KERNEL
<1>3. \A q \in 0 .. R * C - 1 :
        Baseline(k, d)[q] = SoftmaxElem(d, q \div C, q % C)
  BY <1>2 DEF Baseline, SoftmaxBaseline, RowsOf, SoftmaxElem
<1> HIDE DEF k
<1>4. ASSUME NEW s \in 0 .. R - 1
      PROVE  RunRight(k, d, C, s)
  <2> DEFINE val == [c \in 0 .. C - 1 |-> SoftmaxElem(d, s, c)]
  <2>1. ASSUME NEW i \in 0 .. C - 1
        PROVE  Baseline(k, d)[s * C + i] = val[i]
    <3>1. InRun(R, C, C, s, i)
      BY <1>2, PlaceInRun
    <3> DEFINE q == s * C + i
    <3>2. q \in 0 .. R * C - 1 /\ q \div C = s /\ q % C = i
      BY <3>1 DEF InRun
    <3> HIDE DEF q
    <3>3. Baseline(k, d)[q] = SoftmaxElem(d, s, i)
      BY <1>3, <3>2
    <3> QED  BY <3>3 DEF q
  <2>2. Holds(softmax_fp16(d, s), s * C, C, val)
    <3>1. CASE C > SOFTMAX_SCRATCH_CAP
      <4>1. softmax_fp16(d, s) = softmax_row_scalar(d, s)
        BY <3>1 DEF softmax_fp16
      <4>2. Holds(softmax_row_scalar(d, s), s * C, C, val)
        BY SoftmaxScalar
      <4> QED  BY <4>1, <4>2
    <3>2. CASE ~(C > SOFTMAX_SCRATCH_CAP)
      <4> DEFINE m == <<"max", s * C>>
                 t == <<"sum", s * C>>
      <4>0. Meets(s, C, LANES_FP16)
        BY <1>2, <3>2 DEF Rowwise, Meets, Starts
      <4>1. softmax_fp16(d, s) = softmax_row(d, s)
        BY <3>2 DEF softmax_fp16
      <4>2. SoftmaxMax(d, s) = m /\ SoftmaxSum(d, s) = t
        BY <4>0, SoftmaxStats
      <4>3. softmax_fp16(d, s) = SoftmaxFrom(d, s, m, t)
        BY <4>1, <4>2, SoftmaxRowIs
      <4>4. val = [c \in 0 .. C - 1 |-> Softmax(RowX(d, s, c), m, t)]
        BY DEF SoftmaxElem
      <4> HIDE DEF val, m, t
      <4>5. Holds(SoftmaxFrom(d, s, m, t), s * C, C, val)
        BY <4>0, <4>4, SoftmaxStored
      <4> QED  BY <4>3, <4>5
    <3> QED  BY <3>1, <3>2
  <2> HIDE DEF val
  <2>3. s \in Nat /\ Holds(Step(k, d, s), s * C, C, val)
    BY <1>1, <1>2, <2>2
  <2>4. DOMAIN Step(k, d, s) = s * C .. s * C + C - 1
    BY <2>3 DEF Holds
  <2>5. \A i \in 0 .. C - 1 : Step(k, d, s)[s * C + i] = Baseline(k, d)[s * C + i]
    BY <2>1, <2>3 DEF Holds
  <2> QED  BY <2>4, <2>5 DEF RunRight
<1>5. Faithful(k, d)
  BY <1>2, <1>4, RunsFaithful
<1> QED  BY <1>5 DEF k

(* rmsnorm_fp16: its accumulator and its statistic.                        *)
SquaresAcc(d, r) ==
  [l \in 0 .. LANES_FP16 - 1 |->
     BagOf(0 .. (d[2] \div LANES_FP16) - 1, LAMBDA b : RowVector(d, r, b)[l])]
RmsNormSquares(d, r) ==
  Reduced("squares", hreduce_qf16(SquaresAcc(d, r))[0], "x", r * d[2], d[2])
RmsNormFrom(d, r, t) ==
  StoresFrom(AlignDown(r * d[2], LANES_FP16), r * d[2],
             (d[2] \div LANES_FP16) * LANES_FP16, LANES_FP16,
             LAMBDA b, l : RmsNorm(RowVector(d, r, b)[l], t,
                                   Vmem("w", d[2], 0, b, LANES_FP16)[l]),
             LAMBDA c : <<"poison">>)

(* An element of the output.                                               *)
RmsNormElem(d, r, c) == RmsNorm(RowX(d, r, c), <<"squares", r * d[2]>>, Affine("w", d, c))

(* rmsnorm_fp16 in the terms of these definitions.                         *)
LEMMA RmsNormIs ==
  ASSUME NEW d, NEW r
  PROVE  rmsnorm_fp16(d, r) = RmsNormFrom(d, r, RmsNormSquares(d, r))
BY Zenon DEF rmsnorm_fp16, RmsNormFrom, RmsNormSquares, SquaresAcc

(* What a lane takes in of one vector.                                     *)
LEMMA SquaresIn ==
  ASSUME NEW d, NEW R \in Nat, NEW C \in Nat \ {0}, d[1] = R, d[2] = C, C % LANES_FP16 = 0,
         NEW r \in 0 .. R - 1, NEW l \in 0 .. LANES_FP16 - 1,
         NEW b \in 0 .. (C \div LANES_FP16) - 1, NEW c, c = b * LANES_FP16 + l
  PROVE  /\ c \in Column(C, LANES_FP16, l)
         /\ RowVector(d, r, b)[l] = <<"x", r * C + c>>
<1> DEFINE n == C \div LANES_FP16
<1>1. n \in Nat /\ C = n * LANES_FP16 /\ b \in Nat
  BY WholeRow
<1>2. c \in 0 .. C - 1 /\ c % LANES_FP16 = l
  <2> HIDE DEF n
  <2>1. Packed(n, LANES_FP16, b, l)
    BY <1>1, LanesFacts, Pack DEF n
  <2> QED  BY <1>1, <2>1 DEF Packed
<1>3. RowVector(d, r, b)[l] = RowX(d, r, c)
  BY <1>1, RowLoad DEF Starts
<1>4. RowX(d, r, c) = <<"x", r * C + c>>
  <2>1. InRun(R, C, C, r, c)
    BY <1>2, PlaceInRun
  <2>2. r * C + c \in 0 .. R * C - 1
    BY <2>1 DEF InRun
  <2> QED  BY <2>2 DEF RowX, Elem, RowSize
<1> QED  BY <1>2, <1>3, <1>4 DEF Column

(* What a lane of the accumulator holds: its columns, each once.           *)
LEMMA SquaresAccIs ==
  ASSUME NEW d, NEW R \in Nat, NEW C \in Nat \ {0}, d[1] = R, d[2] = C, C % LANES_FP16 = 0,
         NEW r \in 0 .. R - 1, NEW l \in 0 .. LANES_FP16 - 1
  PROVE  SquaresAcc(d, r)[l] = SetToBag(ByLane(r * C, C, LANES_FP16)[l])
<1> DEFINE n == C \div LANES_FP16
           S == 0 .. n - 1
           g == [b \in S |-> RowVector(d, r, b)[l]]
           col == [b \in S |-> b * LANES_FP16 + l]
           p0 == r * C
           cols == Column(C, LANES_FP16, l)
<1>1. n \in Nat \ {0} /\ C = n * LANES_FP16 /\ p0 \in Int /\ cols \subseteq Int
  BY WholeRow DEF Column
<1>2. ASSUME NEW b \in S
      PROVE  col[b] \in cols /\ g[b] = <<"x", p0 + col[b]>>
  BY SquaresIn
<1>3. ASSUME NEW i \in S, NEW j \in S, col[i] = col[j]
      PROVE  i = j
  <2>1. i \in Int /\ j \in Int /\ i * LANES_FP16 + l = j * LANES_FP16 + l
    BY <1>3
  <2> QED  BY <2>1, NoMultipleBetween, LanesFacts
<1>4. ASSUME NEW c \in cols
      PROVE  \E b \in S : col[b] = c
  <2> DEFINE b == c \div LANES_FP16
  <2>1. b \in 0 .. n - 1 /\ b * LANES_FP16 + l = c
    <3> HIDE DEF n
    <3>1. c \in 0 .. n * LANES_FP16 - 1 /\ c % LANES_FP16 = l
      BY <1>1 DEF Column
    <3>2. Unpacked(n, LANES_FP16, c)
      BY <1>1, <3>1, LanesFacts, Unpack
    <3> QED  BY <3>1, <3>2 DEF Unpacked
  <2> HIDE DEF b
  <2> QED  BY <2>1
<1>5. Covers(S, g, col, p0, cols)
  <2> HIDE DEF S, g, col, p0, cols
  <2> QED  BY <1>2, <1>3, <1>4 DEF Covers
<1>6. SquaresAcc(d, r)[l] = ValueBag(S, g)
  <2> HIDE DEF S
  <2>1. SquaresAcc(d, r)[l] = BagOf(S, LAMBDA b : RowVector(d, r, b)[l])
    BY Zenon DEF SquaresAcc, S, n
  <2>2. BagOf(S, LAMBDA b : RowVector(d, r, b)[l])
          = [e \in {RowVector(d, r, b)[l] : b \in S} |->
               Cardinality({b \in S : RowVector(d, r, b)[l] = e})]
    BY Zenon DEF BagOf
  <2>3. {g[b] : b \in S} = {RowVector(d, r, b)[l] : b \in S}
    OBVIOUS
  <2>4. \A e : {b \in S : g[b] = e} = {b \in S : RowVector(d, r, b)[l] = e}
    OBVIOUS
  <2> HIDE DEF g
  <2>5. \A e : Cardinality({b \in S : g[b] = e})
                 = Cardinality({b \in S : RowVector(d, r, b)[l] = e})
    BY <2>4
  <2>6. ValueBag(S, g) = [e \in {g[b] : b \in S} |-> Cardinality({b \in S : g[b] = e})]
    BY DEF ValueBag
  <2>7. [e \in {g[b] : b \in S} |-> Cardinality({b \in S : g[b] = e})]
          = [e \in {RowVector(d, r, b)[l] : b \in S} |->
               Cardinality({b \in S : RowVector(d, r, b)[l] = e})]
    <3> DEFINE A == {g[b] : b \in S}
               B == {RowVector(d, r, b)[l] : b \in S}
               F(e) == Cardinality({b \in S : g[b] = e})
               H(e) == Cardinality({b \in S : RowVector(d, r, b)[l] = e})
    <3>1. A = B /\ \A e : F(e) = H(e)
      BY <2>3, <2>5
    <3> HIDE DEF A, B, F, H
    <3>2. [e \in A |-> F(e)] = [e \in B |-> H(e)]
      BY <3>1
    <3> QED  BY <3>2 DEF A, B, F, H
  <2> QED  BY Zenon, <2>1, <2>2, <2>6, <2>7
<1> HIDE DEF S, g, col, p0, cols
<1>7. SquaresAcc(d, r)[l] = SetToBag(Cells(p0, cols))
  BY <1>1, <1>5, <1>6, BagOfCells
<1> QED  BY <1>7 DEF p0, cols, ByLane

(* The sum of squares is that of the whole row.                            *)
LEMMA SquaresSummed ==
  ASSUME NEW d, NEW R \in Nat, NEW C \in Nat \ {0}, d[1] = R, d[2] = C, C % LANES_FP16 = 0,
         NEW r \in 0 .. R - 1
  PROVE  RmsNormSquares(d, r) = <<"squares", r * C>>
<1> DEFINE p0 == r * C
           S == ByLane(p0, C, LANES_FP16)
           acc == SquaresAcc(d, r)
           bag == hreduce_qf16(acc)[0]
<1>1. p0 \in Int
  OBVIOUS
<1>2. Apart(S, LANES_FP16) /\ Held(S, 0 .. LANES_FP16 - 1) = Cells(p0, 0 .. C - 1)
  <2> HIDE DEF p0
  <2> QED  BY <1>1, LanesApart, LanesFacts
<1>3. \A l \in 0 .. LANES_FP16 - 1 : acc[l] = SetToBag(S[l])
  BY SquaresAccIs
<1> HIDE DEF S, acc, p0
<1>4. bag = SetToBag(Cells(p0, 0 .. C - 1))
  BY <1>2, <1>3, WholeVectorReduced
<1> HIDE DEF bag
<1>5. Reduced("squares", bag, "x", p0, C) = <<"squares", p0>>
  BY <1>1, <1>4, RowReduced
<1> QED  BY <1>5 DEF RmsNormSquares, p0, bag, acc

(* The stores of one row, given its sum of squares.                        *)
LEMMA RmsNormStored ==
  ASSUME NEW d, NEW C \in Nat \ {0}, d[2] = C, C % LANES_FP16 = 0, NEW r \in Nat, NEW t,
         NEW val, val = [c \in 0 .. C - 1 |-> RmsNorm(RowX(d, r, c), t, Affine("w", d, c))]
  PROVE  Holds(RmsNormFrom(d, r, t), r * C, C, val)
<1> DEFINE dst == r * C
           base == AlignDown(dst, LANES_FP16)
           n == (C \div LANES_FP16) * LANES_FP16
           covered == (n \div LANES_FP16) * LANES_FP16
           rest == [q \in dst + covered .. dst + n - 1 |-> <<"poison">>]
           vectors == [q \in base .. base + covered - 1 |->
                         RmsNorm(RowVector(d, r, (q - base) \div LANES_FP16)
                                   [(q - base) % LANES_FP16], t,
                                 Vmem("w", d[2], 0, (q - base) \div LANES_FP16, LANES_FP16)
                                   [(q - base) % LANES_FP16])]
<1>1. RmsNormFrom(d, r, t) = Over(rest, vectors)
  BY DEF RmsNormFrom, StoresFrom
<1>2. n = C
  BY WholeRow
<1>3. dst \in Nat /\ base = dst
  <2>1. AlignedRow(r, C, LANES_FP16)
    BY RowAligned, LanesFacts DEF Starts
  <2> QED  BY <2>1 DEF AlignedRow
<1>4. covered = C
  BY <1>2, WholeRow
<1> HIDE DEF base, dst, n, covered
<1>5. /\ DOMAIN rest = dst + (C \div LANES_FP16) * LANES_FP16 .. dst + C - 1
      /\ DOMAIN vectors = base .. base + (C \div LANES_FP16) * LANES_FP16 - 1
  <2>1. (C \div LANES_FP16) * LANES_FP16 = C
    BY WholeRow
  <2> QED  BY <1>2, <1>4, <2>1
<1>6. ElemsAt(rest, dst, val)
  <2>1. DOMAIN rest = {}
    BY <1>2, <1>3, <1>4
  <2> QED  BY <2>1 DEF ElemsAt
<1>7. LanesAt(vectors, base, LANES_FP16, val)
  <2> SUFFICES ASSUME NEW q \in DOMAIN vectors
               PROVE  vectors[q] = val[((q - base) \div LANES_FP16) * LANES_FP16
                                         + ((q - base) % LANES_FP16)]
    BY DEF LanesAt
  <2> DEFINE b == (q - base) \div LANES_FP16
             l == (q - base) % LANES_FP16
  <2>1. vectors[q] = RmsNorm(RowVector(d, r, b)[l], t, Vmem("w", C, 0, b, LANES_FP16)[l])
    OBVIOUS
  <2>2. InVector(C, LANES_FP16, q - base)
    BY <1>3, <1>5, WholeVectors, LanesFacts
  <2>3. b \in Nat /\ l \in 0 .. LANES_FP16 - 1 /\ b * LANES_FP16 + l \in 0 .. C - 1
    BY <2>2 DEF InVector
  <2> HIDE DEF b, l, vectors
  <2>4. RowVector(d, r, b)[l] = RowX(d, r, b * LANES_FP16 + l)
    BY <2>3, RowLoad DEF Starts
  <2>5. Vmem("w", C, 0, b, LANES_FP16)[l] = Affine("w", d, b * LANES_FP16 + l)
    BY <2>3, FirstLoad, LanesFacts DEF Affine
  <2> QED  BY <2>1, <2>3, <2>4, <2>5 DEF b, l
<1> HIDE DEF rest, vectors
<1>8. Holds(Over(rest, vectors), dst, C, val)
  <2>1. /\ dst \in Nat /\ base \in Int /\ (base = dst \/ C < LANES_FP16)
        /\ base = dst => LanesAt(vectors, base, LANES_FP16, val)
    BY <1>3, <1>7
  <2> QED  BY <2>1, <1>5, <1>6, RunAt, LanesFacts
<1> QED  BY <1>1, <1>8 DEF dst

(* rmsnorm_fp16 computes its baseline on rows of whole vectors.            *)
LEMMA RmsNormFaithful ==
  ASSUME NEW d, NEW R \in Nat \ {0}, NEW C \in Nat \ {0}, d[1] = R, d[2] = C,
         C % LANES_FP16 = 0
  PROVE  Faithful("rmsnorm_fp16", d)
<1> DEFINE k == "rmsnorm_fp16"
<1>1. \A s : Step(k, d, s) = rmsnorm_fp16(d, s)
  BY DEF Step, Stores, KERNEL
<1>2. R \in Nat /\ Steps(k, KERNEL, d) = R /\ Size(k, d) = R * C /\ RowSize(d) = R * C
  BY DEF Steps, Size, RowSize, KERNEL
<1>3. \A q \in 0 .. R * C - 1 :
        Baseline(k, d)[q] = RmsNormElem(d, q \div C, q % C)
  BY <1>2 DEF Baseline, RmsNormBaseline, RowsOf, RmsNormElem
<1> HIDE DEF k
<1>4. ASSUME NEW s \in 0 .. R - 1
      PROVE  RunRight(k, d, C, s)
  <2> DEFINE val == [c \in 0 .. C - 1 |-> RmsNormElem(d, s, c)]
  <2>1. ASSUME NEW i \in 0 .. C - 1
        PROVE  Baseline(k, d)[s * C + i] = val[i]
    <3>1. InRun(R, C, C, s, i)
      BY <1>2, PlaceInRun
    <3> DEFINE q == s * C + i
    <3>2. q \in 0 .. R * C - 1 /\ q \div C = s /\ q % C = i
      BY <3>1 DEF InRun
    <3> HIDE DEF q
    <3>3. Baseline(k, d)[q] = RmsNormElem(d, s, i)
      BY <1>3, <3>2
    <3> QED  BY <3>3 DEF q
  <2>2. Holds(rmsnorm_fp16(d, s), s * C, C, val)
    <3> DEFINE t == <<"squares", s * C>>
    <3>1. rmsnorm_fp16(d, s) = RmsNormFrom(d, s, t)
      BY SquaresSummed, RmsNormIs
    <3>2. val = [c \in 0 .. C - 1 |-> RmsNorm(RowX(d, s, c), t, Affine("w", d, c))]
      BY DEF RmsNormElem
    <3> HIDE DEF val, t
    <3>3. Holds(RmsNormFrom(d, s, t), s * C, C, val)
      BY <3>2, RmsNormStored
    <3> QED  BY <3>1, <3>3
  <2> HIDE DEF val
  <2>3. s \in Nat /\ Holds(Step(k, d, s), s * C, C, val)
    BY <1>1, <1>2, <2>2
  <2>4. DOMAIN Step(k, d, s) = s * C .. s * C + C - 1
    BY <2>3 DEF Holds
  <2>5. \A i \in 0 .. C - 1 : Step(k, d, s)[s * C + i] = Baseline(k, d)[s * C + i]
    BY <2>1, <2>3 DEF Holds
  <2> QED  BY <2>4, <2>5 DEF RunRight
<1>5. Faithful(k, d)
  BY <1>2, <1>4, RunsFaithful
<1> QED  BY <1>5 DEF k

(* The run.  A job's own fields never change, and only a runner's binary   *)
(* has an input.                                                           *)
JobInv ==
  /\ job \in Jobs
  /\ job.runner \in BOOLEAN
  /\ job.runner => job.kernel \in DOMAIN Runners

(* Between two steps an element is what the baseline has there, or what    *)
(* the array was filled with and no step yet has stored it.                *)
Filling == IF job.runner THEN <<"zero">> ELSE <<"poison">>

(* The same of a whole array, for a faithful kernel.                       *)
MemInv ==
  at = "kernel" /\ job.variant = KERNEL /\ Faithful(job.kernel, Dims) =>
    /\ step \in 0 .. Steps(job.kernel, KERNEL, Dims)
    /\ \A q \in Elements :
         \/ mem[q] = Baseline(job.kernel, Dims)[q]
         \/ /\ mem[q] = Filling
            /\ \A s \in 0 .. step - 1 : q \notin DOMAIN Step(job.kernel, Dims, s)

(* The array is the output and nothing beside it, for a kernel that stays  *)
(* inside.                                                                 *)
InsideInv ==
  at = "kernel" /\ job.variant = KERNEL /\ StaysInside(job.kernel, Dims) =>
    /\ step \in 0 .. Steps(job.kernel, KERNEL, Dims)
    /\ DOMAIN mem = Elements

(* Where a run can be, and what ref holds.                                 *)
RefInv ==
  /\ at \in {"start", "kernel", "verdict", "exited"}
  /\ at = "start" => step = 0 \/ ~job.runner
  /\ at = "kernel" => ref = [q \in Elements |-> Baseline(job.kernel, Dims)[q]]

(* No action changes the job.                                              *)
LEMMA JobKept == Spec => []JobInv
<1>1. Init => JobInv
  <2> SUFFICES ASSUME job \in Jobs
               PROVE  JobInv
    BY DEF Init
  <2>1. CASE \E i \in RunnerInputs :
               job = [kernel |-> i.kernel, variant |-> KERNEL, shapes |-> <<i.dims>>,
                      runner |-> TRUE, input |-> i]
    BY <2>1, RunAssumption DEF JobInv
  <2>2. CASE \E h \in Harnesses :
               job = [kernel |-> h.kernel, variant |-> h.variant, shapes |-> h.shapes,
                      runner |-> FALSE, input |-> <<"harness">>]
    BY <2>2 DEF JobInv
  <2> QED  BY <2>1, <2>2 DEF Jobs
<1>2. JobInv /\ [Next]_vars => JobInv'
  BY DEF JobInv, Next, vars, HarnessShape, KernelStep, HarnessCompare, RunnerLoad,
         RunnerStore
<1> QED  BY <1>1, <1>2, PTL DEF Spec

(* While the kernel runs, ref is the baseline's output on this shape.      *)
LEMMA RefKept == Spec => []RefInv
<1>1. Init => RefInv
  BY DEF Init, RefInv
<1>2. RefInv /\ [Next]_vars => RefInv'
  <2> SUFFICES ASSUME RefInv, [Next]_vars
               PROVE  RefInv'
    OBVIOUS
  <2> USE DEF RefInv
  <2>1. CASE HarnessShape
    BY <2>1 DEF HarnessShape, Elements, Dims
  <2>2. CASE KernelStep
    BY <2>2 DEF KernelStep, Elements, Dims
  <2>3. CASE HarnessCompare
    BY <2>3 DEF HarnessCompare, Elements, Dims
  <2>4. CASE RunnerLoad
    BY <2>4 DEF RunnerLoad, Elements, Dims
  <2>5. CASE RunnerStore
    BY <2>5 DEF RunnerStore, Elements, Dims
  <2>6. CASE UNCHANGED vars
    BY <2>6 DEF vars, Elements, Dims
  <2> QED  BY <2>1, <2>2, <2>3, <2>4, <2>5, <2>6 DEF Next
<1> QED  BY <1>1, <1>2, PTL DEF Spec

(* One more step of a kernel that stores inside its output.                *)
LEMMA InsideStep == InsideInv /\ RefInv /\ [Next]_vars => InsideInv'
<1> SUFFICES ASSUME InsideInv, RefInv, [Next]_vars
             PROVE  InsideInv'
  OBVIOUS
<1>1. CASE HarnessShape
  BY <1>1 DEF HarnessShape, InsideInv, Elements, Dims, StaysInside
<1>2. CASE KernelStep
  <2>1. UNCHANGED <<job, at, shape>> /\ Dims' = Dims /\ at = "kernel"
    BY <1>2 DEF KernelStep, Dims
  <2>2. SUFFICES ASSUME job.variant = KERNEL, StaysInside(job.kernel, Dims)
                 PROVE  /\ step' \in 0 .. Steps(job.kernel, KERNEL, Dims)
                        /\ DOMAIN mem' = Elements
    BY <2>1 DEF InsideInv, Elements
  <2>3. /\ step \in 0 .. Steps(job.kernel, KERNEL, Dims)
        /\ DOMAIN mem = Elements
    BY <2>1, <2>2 DEF InsideInv
  <2>4. /\ step \in 0 .. Last(job.kernel, Dims)
        /\ step' = step + 1
        /\ mem' = Over(Step(job.kernel, Dims, step), mem)
    BY <1>2, <2>2, <2>3 DEF KernelStep, KernelDone, Last, Step, StaysInside
  <2>5. DOMAIN Step(job.kernel, Dims, step) \subseteq Elements
    BY <2>2, <2>4 DEF StaysInside, Elements
  <2> HIDE DEF Step
  <2> QED  BY <2>2, <2>3, <2>4, <2>5 DEF Over, Last, StaysInside
<1>3. CASE HarnessCompare
  BY <1>3 DEF HarnessCompare, InsideInv
<1>4. CASE RunnerLoad
  BY <1>4 DEF RunnerLoad, InsideInv, Elements, Dims, StaysInside, RefInv
<1>5. CASE RunnerStore
  BY <1>5 DEF RunnerStore, InsideInv
<1>6. CASE UNCHANGED vars
  BY <1>6 DEF vars, InsideInv, Elements, Dims
<1> QED  BY <1>1, <1>2, <1>3, <1>4, <1>5, <1>6 DEF Next

(* Such a kernel has stored inside its output so far.                      *)
LEMMA InsideKept == Spec => []InsideInv
<1>1. Init => InsideInv
  BY DEF Init, InsideInv
<1> QED  BY <1>1, InsideStep, RefKept, PTL DEF Spec

(* One more step of a faithful kernel: the elements it stores become the   *)
(* baseline's, the others stay.                                            *)
LEMMA MemStep ==
  JobInv /\ MemInv /\ InsideInv /\ RefInv /\ [Next]_vars => MemInv'
<1> SUFFICES ASSUME JobInv, MemInv, InsideInv, RefInv, [Next]_vars
             PROVE  MemInv'
  OBVIOUS
<1>1. CASE HarnessShape
  BY <1>1 DEF HarnessShape, MemInv, Elements, Dims, Faithful, StaysInside, Filling
<1>2. CASE KernelStep
  <2>1. UNCHANGED <<job, at, shape>> /\ Dims' = Dims /\ at = "kernel"
    BY <1>2 DEF KernelStep, Dims
  <2>2. SUFFICES ASSUME job.variant = KERNEL, Faithful(job.kernel, Dims)
                 PROVE  /\ step' \in 0 .. Steps(job.kernel, KERNEL, Dims)
                        /\ \A q \in Elements :
                             \/ mem'[q] = Baseline(job.kernel, Dims)[q]
                             \/ /\ mem'[q] = Filling
                                /\ \A s \in 0 .. step' - 1 :
                                     q \notin DOMAIN Step(job.kernel, Dims, s)
    BY <2>1 DEF MemInv, Elements, Filling
  <2>3. /\ step \in 0 .. Steps(job.kernel, KERNEL, Dims)
        /\ DOMAIN mem = Elements
    BY <2>1, <2>2 DEF InsideInv, Faithful
  <2>4. /\ step \in 0 .. Last(job.kernel, Dims)
        /\ step' = step + 1
        /\ mem' = Over(Step(job.kernel, Dims, step), mem)
    BY <1>2, <2>2, <2>3 DEF KernelStep, KernelDone, Last, Step, StaysInside, Faithful
  <2>5. step' \in 0 .. Steps(job.kernel, KERNEL, Dims)
    BY <2>2, <2>4 DEF Last, StaysInside, Faithful
  <2>6. ASSUME NEW q \in Elements
        PROVE  \/ mem'[q] = Baseline(job.kernel, Dims)[q]
               \/ /\ mem'[q] = Filling
                  /\ \A s \in 0 .. step' - 1 : q \notin DOMAIN Step(job.kernel, Dims, s)
    <3>1. CASE q \in DOMAIN Step(job.kernel, Dims, step)
      <4>1. mem'[q] = Step(job.kernel, Dims, step)[q]
        <5> HIDE DEF Step
        <5> QED  BY <2>4, <3>1 DEF Over
      <4> QED  BY <4>1, <2>2, <2>4, <3>1 DEF Faithful, StoresRight
    <3>2. CASE q \notin DOMAIN Step(job.kernel, Dims, step)
      <4>1. mem'[q] = mem[q]
        BY <2>3, <2>4, <3>2 DEF Over
      <4>2. \/ mem[q] = Baseline(job.kernel, Dims)[q]
            \/ /\ mem[q] = Filling
               /\ \A s \in 0 .. step - 1 : q \notin DOMAIN Step(job.kernel, Dims, s)
        BY <2>1, <2>2 DEF MemInv
      <4>3. \A s \in 0 .. step' - 1 : s \in 0 .. step - 1 \/ s = step
        BY <2>3, <2>4 DEF Last
      <4> QED  BY <4>1, <4>2, <4>3, <3>2
    <3> QED  BY <3>1, <3>2
  <2> QED  BY <2>5, <2>6
<1>3. CASE HarnessCompare
  BY <1>3 DEF HarnessCompare, MemInv
<1>4. CASE RunnerLoad
  <2>1. CASE Refusal(job.input) # 0
    BY <1>4, <2>1 DEF RunnerLoad, MemInv
  <2>2. CASE Refusal(job.input) = 0
    <3>1. /\ Dims' = Dims /\ step' = 0 /\ job' = job /\ job.runner
          /\ mem' = [q \in Elements |-> <<"zero">>]
      BY <1>4, <2>2 DEF RunnerLoad, Dims, RefInv
    <3> QED  BY <3>1 DEF MemInv, Elements, Faithful, StaysInside, Filling
  <2> QED  BY <2>1, <2>2
<1>5. CASE RunnerStore
  BY <1>5 DEF RunnerStore, MemInv
<1>6. CASE UNCHANGED vars
  BY <1>6 DEF vars, MemInv, Elements, Dims, Filling
<1> QED  BY <1>1, <1>2, <1>3, <1>4, <1>5, <1>6 DEF Next

(* Every element is the baseline's or not stored yet.                      *)
LEMMA MemKept == Spec => []MemInv
<1>1. Init => MemInv
  BY DEF Init, MemInv
<1> QED  BY <1>1, MemStep, JobKept, InsideKept, RefKept, PTL DEF Spec

(* A kernel none of whose steps stores outside the output leaves an array  *)
(* of the output's elements and no other.                                  *)
LEMMA InsideAlways ==
  InsideInv => (StaysInside(job.kernel, Dims) => StoresStayInside)
BY DEF InsideInv, StoresStayInside

(* A kernel that is done has stored every element that anyone stores.      *)
LEMMA DoneIsBaseline ==
  JobInv /\ MemInv /\ RefInv /\ KernelDone /\ job.variant = KERNEL
    /\ Faithful(job.kernel, Dims)
    => Output = ref /\ Output = [q \in Elements |-> Baseline(job.kernel, Dims)[q]]
<1> SUFFICES ASSUME JobInv, MemInv, RefInv, KernelDone, job.variant = KERNEL,
                    Faithful(job.kernel, Dims)
             PROVE  /\ Output = ref
                    /\ Output = [q \in Elements |-> Baseline(job.kernel, Dims)[q]]
  OBVIOUS
<1>1. /\ at = "kernel" /\ step = Steps(job.kernel, KERNEL, Dims)
      /\ step - 1 = Last(job.kernel, Dims)
  BY DEF KernelDone, Last
<1>2. \A q \in Elements : mem[q] = Baseline(job.kernel, Dims)[q]
  <2> SUFFICES ASSUME NEW q \in Elements, mem[q] # Baseline(job.kernel, Dims)[q]
               PROVE  FALSE
    OBVIOUS
  <2>1. /\ mem[q] = Filling
        /\ \A s \in 0 .. step - 1 : q \notin DOMAIN Step(job.kernel, Dims, s)
    BY <1>1 DEF MemInv
  <2>2. job.kernel \notin DOMAIN Runners /\ Baseline(job.kernel, Dims)[q] = <<"poison">>
    BY <1>1, <2>1 DEF Faithful, StoresAll, Elements
  <2> QED  BY <2>1, <2>2 DEF JobInv, Filling
<1>3. ref = [q \in Elements |-> Baseline(job.kernel, Dims)[q]]
  BY <1>1 DEF RefInv
<1> QED  BY <1>2, <1>3 DEF Output

(* The shapes a kernel is right on: its extents are positive; patchify's   *)
(* image is cut into whole merge blocks of whole patches and a row of it   *)
(* fits the staging buffer; and, where the kernel reads or stores its rows *)
(* through aligned pointers, every row starts on a vector boundary or      *)
(* holds no whole vector; rmsnorm's rows are whole vectors.                *)
Positive(d, places) == \A i \in places : d[i] \in Nat \ {0}

(* The images patchify_fp32 is right on.                                   *)
PatchesFit(d) ==
  /\ \E C, T, P, G, Bh, Bw \in Nat \ {0} : PatchShape(d, C, T, P, G, Bh, Bw)
  /\ Rowwise(d[1] * d[2] * d[3], d[4], LANES_FP32)
  /\ d[4] <= PATCHIFY_ROWBUF_MAX

(* The shapes each kernel is right on.                                     *)
Fits(k, d) ==
  CASE k \in {"add_fp16", "scale_fp16", "cast_f32_f16"} -> d[1] \in Nat
    [] k = "transpose_th_fp16" -> Positive(d, 1 .. 3) /\ Rowwise(d[1] * d[2], d[3], LANES_FP16)
    [] k \in {"transpose_hd_fp16", "rope_2d_fp16"} -> Positive(d, 1 .. 3)
    [] k = "patchify_fp32" -> PatchesFit(d)
    [] k = "softmax_fp16" ->
         /\ Positive(d, 1 .. 2)
         /\ d[2] > SOFTMAX_SCRATCH_CAP \/ Rowwise(d[1], d[2], LANES_FP16)
    [] k = "layernorm_fp16" -> Positive(d, 1 .. 2) /\ Rowwise(d[1], d[2], LANES_FP16)
    [] k = "rmsnorm_fp16" -> Positive(d, 1 .. 2) /\ d[2] % LANES_FP16 = 0
    [] k = "matmul_fp16" -> Positive(d, 1 .. 4)
    [] k = "matmul_epilogue_fp16" -> Positive(d, {1, 3})
    [] OTHER -> FALSE

(* Every kernel is faithful on the shapes that fit it.                     *)
LEMMA FitsFaithful ==
  ASSUME NEW k, NEW d, Fits(k, d)
  PROVE  Faithful(k, d)
<1>1. CASE k = "add_fp16"
  BY <1>1, AddFaithful DEF Fits
<1>2. CASE k = "scale_fp16"
  BY <1>2, ScaleFaithful DEF Fits
<1>3. CASE k = "cast_f32_f16"
  BY <1>3, CastFaithful DEF Fits
<1>4. CASE k = "transpose_th_fp16"
  <2>1. /\ d[1] \in Nat \ {0} /\ d[2] \in Nat \ {0} /\ d[3] \in Nat \ {0}
        /\ Rowwise(d[1] * d[2], d[3], LANES_FP16)
    BY <1>4 DEF Fits, Positive
  <2>2. Faithful("transpose_th_fp16", d)
    BY <2>1, ThFaithful
  <2> QED  BY <1>4, <2>2
<1>5. CASE k = "transpose_hd_fp16"
  <2>1. d[1] \in Nat \ {0} /\ d[2] \in Nat \ {0} /\ d[3] \in Nat \ {0}
    BY <1>5 DEF Fits, Positive
  <2>2. Faithful("transpose_hd_fp16", d)
    BY <2>1, HdFaithful
  <2> QED  BY <1>5, <2>2
<1>6. CASE k = "rope_2d_fp16"
  <2>1. d[1] \in Nat \ {0} /\ d[2] \in Nat \ {0} /\ d[3] \in Nat \ {0}
    BY <1>6 DEF Fits, Positive
  <2>2. Faithful("rope_2d_fp16", d)
    BY <2>1, RopeFaithful
  <2> QED  BY <1>6, <2>2
<1>7. CASE k = "patchify_fp32"
  <2>1. PatchesFit(d)
    BY <1>7 DEF Fits
  <2>2. PICK C, T, P, G, Bh, Bw \in Nat \ {0} : PatchShape(d, C, T, P, G, Bh, Bw)
    BY <2>1 DEF PatchesFit
  <2>3. Faithful("patchify_fp32", d)
    <3>1. d[1] = C /\ d[2] = T
      BY <2>2 DEF PatchShape
    <3>2. Rowwise(C * T * d[3], d[4], LANES_FP32) /\ d[4] <= PATCHIFY_ROWBUF_MAX
      BY <2>1, <3>1 DEF PatchesFit
    <3> QED  BY <2>2, <3>2, PatchifyFaithful
  <2> QED  BY <1>7, <2>3
<1>8. CASE k = "softmax_fp16"
  <2>1. /\ d[1] \in Nat \ {0} /\ d[2] \in Nat \ {0}
        /\ d[2] > SOFTMAX_SCRATCH_CAP \/ Rowwise(d[1], d[2], LANES_FP16)
    BY <1>8 DEF Fits, Positive
  <2>2. Faithful("softmax_fp16", d)
    BY <2>1, SoftmaxFaithful
  <2> QED  BY <1>8, <2>2
<1>9. CASE k = "layernorm_fp16"
  <2>1. d[1] \in Nat \ {0} /\ d[2] \in Nat \ {0} /\ Rowwise(d[1], d[2], LANES_FP16)
    BY <1>9 DEF Fits, Positive
  <2>2. Faithful("layernorm_fp16", d)
    BY <2>1, LayerNormFaithful
  <2> QED  BY <1>9, <2>2
<1>10. CASE k = "rmsnorm_fp16"
  <2>1. d[1] \in Nat \ {0} /\ d[2] \in Nat \ {0} /\ d[2] % LANES_FP16 = 0
    BY <1>10 DEF Fits, Positive
  <2>2. Faithful("rmsnorm_fp16", d)
    BY <2>1, RmsNormFaithful
  <2> QED  BY <1>10, <2>2
<1>11. CASE k = "matmul_fp16"
  <2>1. /\ d[1] \in Nat \ {0} /\ d[2] \in Nat \ {0} /\ d[3] \in Nat
        /\ d[4] \in Nat \ {0}
    BY <1>11 DEF Fits, Positive
  <2>2. Faithful("matmul_fp16", d)
    BY <2>1, MatmulFaithful
  <2> QED  BY <1>11, <2>2
<1>12. CASE k = "matmul_epilogue_fp16"
  <2>1. d[1] \in Nat \ {0} /\ d[3] \in Nat \ {0}
    BY <1>12 DEF Fits, Positive
  <2>2. Faithful("matmul_epilogue_fp16", d)
    BY <2>1, EpilogueFaithful
  <2> QED  BY <1>12, <2>2
<1> QED  BY <1>1, <1>2, <1>3, <1>4, <1>5, <1>6, <1>7, <1>8, <1>9, <1>10, <1>11, <1>12
         DEF Fits

(* KernelMeetsBaseline: on every shape that fits it, with vectors of any   *)
(* width, a kernel that is done has left its baseline's output, element by *)
(* element.                                                                *)
THEOREM FittingShapesComputed ==
  Spec => [](Fits(job.kernel, Dims) => KernelMeetsBaseline)
<1>1. JobInv /\ MemInv /\ RefInv => (Fits(job.kernel, Dims) => KernelMeetsBaseline)
  BY FitsFaithful, DoneIsBaseline DEF KernelMeetsBaseline
<1> QED  BY <1>1, JobKept, MemKept, RefKept, PTL

(* StoresStayInside: nor has it ever stored outside its output on the way. *)
THEOREM FittingShapesStayInside ==
  Spec => [](Fits(job.kernel, Dims) => StoresStayInside)
<1>1. InsideInv => (Fits(job.kernel, Dims) => StoresStayInside)
  BY FitsFaithful, InsideAlways DEF Faithful
<1> QED  BY <1>1, InsideKept, PTL

(* A runner's job is the one its input makes; until it has exited it has   *)
(* left nothing, and it only runs its kernel on an input it does not       *)
(* refuse.                                                                 *)
NothingLeft == [code |-> -1, file |-> NoFile]

(* What a runner keeps to.                                                 *)
RunnerInv ==
  /\ ~job.runner => at # "exited"
  /\ job.runner => at # "verdict"
  /\ job.runner =>
       /\ job.input \in RunnerInputs
       /\ job.kernel = job.input.kernel /\ job.variant = KERNEL
       /\ Dims = job.input.dims
       /\ at = "start" => step = 0 /\ out = NothingLeft
       /\ at = "kernel" => Refusal(job.input) = 0 /\ out = NothingLeft

(* A runner keeps to its input.                                            *)
LEMMA RunnerKept == Spec => []RunnerInv
<1>1. Init => RunnerInv
  <2> SUFFICES ASSUME Init
               PROVE  RunnerInv
    OBVIOUS
  <2>1. /\ job \in Jobs /\ at = "start" /\ shape = 1 /\ step = 0 /\ out = NothingLeft
    BY DEF Init, NothingLeft
  <2>2. CASE \E i \in RunnerInputs :
               job = [kernel |-> i.kernel, variant |-> KERNEL, shapes |-> <<i.dims>>,
                      runner |-> TRUE, input |-> i]
    BY <2>1, <2>2 DEF RunnerInv, Dims
  <2>3. CASE \E h \in Harnesses :
               job = [kernel |-> h.kernel, variant |-> h.variant, shapes |-> h.shapes,
                      runner |-> FALSE, input |-> <<"harness">>]
    BY <2>1, <2>3 DEF RunnerInv
  <2> QED  BY <2>1, <2>2, <2>3 DEF Jobs
<1>2. RunnerInv /\ [Next]_vars => RunnerInv'
  <2> SUFFICES ASSUME RunnerInv, [Next]_vars
               PROVE  RunnerInv'
    OBVIOUS
  <2> USE DEF RunnerInv
  <2>1. CASE HarnessShape
    BY <2>1 DEF HarnessShape
  <2>2. CASE KernelStep
    BY <2>2 DEF KernelStep, Dims
  <2>3. CASE HarnessCompare
    BY <2>3 DEF HarnessCompare
  <2>4. CASE RunnerLoad
    BY <2>4 DEF RunnerLoad, Dims
  <2>5. CASE RunnerStore
    BY <2>5 DEF RunnerStore, Dims
  <2>6. CASE UNCHANGED vars
    BY <2>6 DEF vars, Dims
  <2> QED  BY <2>1, <2>2, <2>3, <2>4, <2>5, <2>6 DEF Next
<1> QED  BY <1>1, <1>2, PTL DEF Spec

(* The baseline of a kernel that has a runner is a whole output.           *)
WholeBaseline(k, d) ==
  Baseline(k, d) = [q \in 0 .. Size(k, d) - 1 |-> Baseline(k, d)[q]]

(* The five kernels with a runner have such a baseline.                    *)
LEMMA RunnerBaseline ==
  ASSUME NEW k \in DOMAIN Runners, NEW d
  PROVE  WholeBaseline(k, d)
<1>1. CASE k = "add_fp16"
  BY <1>1 DEF WholeBaseline, Baseline, Size, AddBaseline
<1>2. CASE k = "scale_fp16"
  BY <1>2 DEF WholeBaseline, Baseline, Size, ScaleBaseline
<1>3. CASE k = "cast_f32_f16"
  BY <1>3 DEF WholeBaseline, Baseline, Size, CastBaseline
<1>4. CASE k = "transpose_th_fp16"
  BY <1>4 DEF WholeBaseline, Baseline, Size, ThBaseline
<1>5. CASE k = "transpose_hd_fp16"
  BY <1>5 DEF WholeBaseline, Baseline, Size, HdBaseline
<1> QED  BY <1>1, <1>2, <1>3, <1>4, <1>5 DEF Runners

(* An input that is not refused is there, whole, and has a size.           *)
Accepted(i) ==
  /\ i.exists /\ i.words >= Runners[i.kernel].words
  /\ i.payload >= Runners[i.kernel].arrays * Size(i.kernel, i.dims)
  /\ (i.kernel = "transpose_th_fp16"
        => Rowwise(i.dims[1] * i.dims[2], i.dims[3], LANES_FP16))
     => Fits(i.kernel, i.dims)

(* A runner accepts nothing else: the dimensions it has checked are        *)
(* positive, so all but transpose_th's widths are right for the kernel.    *)
LEMMA RunnerAccepts ==
  ASSUME NEW i \in RunnerInputs, Refusal(i) = 0
  PROVE  Accepted(i)
<1> DEFINE k == i.kernel
           d == i.dims
           r == Runners[i.kernel]
<1>1. /\ k \in DOMAIN Runners /\ i.words \in Nat /\ i.payload \in Nat
      /\ d \in [1 .. r.dims -> Int]
  BY RunAssumption
<1>2. /\ i.exists /\ ~(i.words < r.words)
      /\ ~(\E c \in DOMAIN d : d[c] <= 0)
      /\ ~(i.payload < r.arrays * Size(k, d))
  BY DEF Refusal
<1>3. \A c \in 1 .. r.dims : d[c] \in Nat \ {0}
  <2> HIDE DEF d
  <2>1. \A c \in 1 .. r.dims : d[c] \in Int
    BY <1>1
  <2>2. \A c \in 1 .. r.dims : ~(d[c] <= 0)
    BY <1>1, <1>2
  <2> QED  BY <2>1, <2>2
<1>4. k \in {"add_fp16", "scale_fp16", "cast_f32_f16", "transpose_th_fp16", "transpose_hd_fp16"}
  BY <1>1 DEF Runners
<1>5. r.words \in Nat /\ r.arrays \in Nat /\ r.dims \in Nat
  BY <1>4 DEF Runners, Runner, AddRunner, ScaleRunner, CastRunner, ThRunner, HdRunner
<1>6. CASE k \in {"add_fp16", "scale_fp16", "cast_f32_f16"}
  <2>1. r.dims = 1
    BY <1>6 DEF Runners, Runner, AddRunner, ScaleRunner, CastRunner
  <2>2. d[1] \in Nat
    BY <1>3, <2>1
  <2>3. Size(k, d) = d[1] /\ Fits(k, d)
    BY <1>6, <2>2 DEF Size, Fits
  <2> HIDE DEF k, d, r
  <2>4. i.words >= r.words /\ i.payload >= r.arrays * Size(k, d)
    BY <1>1, <1>2, <1>5, <2>2, <2>3
  <2> QED  BY <1>2, <2>3, <2>4 DEF Accepted, k, d, r
<1>7. CASE k \in {"transpose_th_fp16", "transpose_hd_fp16"}
  <2>1. r.dims = 3
    BY <1>7 DEF Runners, Runner, ThRunner, HdRunner
  <2>2. d[1] \in Nat \ {0} /\ d[2] \in Nat \ {0} /\ d[3] \in Nat \ {0}
    BY <1>3, <2>1
  <2>3. Positive(d, 1 .. 3)
    BY <1>3, <2>1 DEF Positive
  <2>4. (k = "transpose_th_fp16" => Rowwise(d[1] * d[2], d[3], LANES_FP16)) => Fits(k, d)
    BY <1>7, <2>3 DEF Fits
  <2>5. Size(k, d) = d[1] * d[2] * d[3]
    BY <1>7 DEF Size, ThSize, HdSize
  <2>6. Size(k, d) \in Nat
    BY <2>2, <2>5
  <2> HIDE DEF k, d, r
  <2>7. i.words >= r.words /\ i.payload >= r.arrays * Size(k, d)
    <3> DEFINE n == r.arrays * Size(k, d)
    <3>1. n \in Nat
      BY <1>5, <2>6
    <3>2. ~(i.payload < n)
      BY <1>2
    <3> HIDE DEF n
    <3>3. i.payload >= n /\ i.words >= r.words
      BY <1>1, <1>2, <1>5, <3>1, <3>2
    <3> QED  BY <3>3 DEF n
  <2> QED  BY <1>2, <2>4, <2>7 DEF Accepted, k, d, r
<1> QED  BY <1>4, <1>6, <1>7

(* The one shape a runner takes that its kernel is not right on: rows      *)
(* transpose_th_fp16 stores through aligned pointers.                      *)
RowsStartAligned ==
  job.kernel = "transpose_th_fp16" => Rowwise(Dims[1] * Dims[2], Dims[3], LANES_FP16)

(* The theorem's formula, inductive with the invariants above.             *)
HonestInv == RowsStartAligned => RunnerHonest

(* One step of a runner: it exits refusing before its kernel runs, or with *)
(* what its kernel has computed.                                           *)
LEMMA HonestStep ==
  JobInv /\ MemInv /\ RefInv /\ RunnerInv /\ HonestInv /\ [Next]_vars => HonestInv'
<1> SUFFICES ASSUME JobInv, MemInv, RefInv, RunnerInv, HonestInv, [Next]_vars
             PROVE  HonestInv'
  OBVIOUS
<1>1. CASE HarnessShape
  BY <1>1 DEF HarnessShape, HonestInv, RunnerHonest
<1>2. CASE KernelStep
  BY <1>2 DEF KernelStep, KernelDone, HonestInv, RunnerHonest
<1>3. CASE HarnessCompare
  BY <1>3 DEF HarnessCompare, HonestInv, RunnerHonest
<1>4. CASE RunnerLoad
  <2>1. CASE Refusal(job.input) # 0
    <3>1. Refusal(job.input) \in {2, 3, 4, 5}
      BY <2>1 DEF Refusal
    <3>2. step' = 0 /\ out'.code = Refusal(job.input) /\ out'.file = NoFile
      BY <1>4, <2>1 DEF RunnerLoad, RunnerInv, NothingLeft
    <3> QED  BY <3>1, <3>2 DEF HonestInv, RunnerHonest
  <2>2. CASE Refusal(job.input) = 0
    BY <1>4, <2>2 DEF RunnerLoad, HonestInv, RunnerHonest
  <2> QED  BY <2>1, <2>2
<1>5. CASE RunnerStore
  <2>1. /\ KernelDone /\ at = "kernel" /\ job.runner /\ at' = "exited"
        /\ UNCHANGED <<job, shape, step, mem, ref>> /\ Dims' = Dims
    BY <1>5 DEF RunnerStore, KernelDone, Dims
  <2>2. /\ job.input \in RunnerInputs /\ job.kernel = job.input.kernel
        /\ job.variant = KERNEL /\ Dims = job.input.dims
        /\ Refusal(job.input) = 0 /\ out = NothingLeft
    BY <2>1 DEF RunnerInv
  <2>3. Accepted(job.input)
    BY <2>2, RunnerAccepts
  <2>4. CASE out' = [out EXCEPT !.code = 6]
    BY <2>1, <2>2, <2>4 DEF HonestInv, RunnerHonest, NothingLeft
  <2>5. CASE out' = [code |-> 7, file |-> [q \in 0 .. Size(job.kernel, Dims) - 2 |-> mem[q]]]
    BY <2>5 DEF HonestInv, RunnerHonest
  <2>6. CASE out' = [code |-> 0, file |-> Output]
    <3> SUFFICES ASSUME RowsStartAligned
                 PROVE  RunnerHonest'
      BY <2>1 DEF HonestInv, RowsStartAligned
    <3>1. Fits(job.kernel, Dims)
      BY <2>2, <2>3 DEF Accepted, RowsStartAligned
    <3>2. Output = [q \in Elements |-> Baseline(job.kernel, Dims)[q]]
      BY <2>1, <2>2, <3>1, FitsFaithful, DoneIsBaseline
    <3>3. Output = Baseline(job.kernel, Dims)
      <4>1. WholeBaseline(job.kernel, Dims)
        BY <2>1, RunnerBaseline DEF JobInv
      <4> QED  BY <3>2, <4>1 DEF WholeBaseline, Elements
    <3>4. out'.code = 0 /\ out'.file = Baseline(job.kernel, Dims)
      BY <2>6, <3>3
    <3> QED  BY <2>1, <2>2, <2>3, <3>4 DEF RunnerHonest, Accepted
  <2> QED  BY <1>5, <2>4, <2>5, <2>6 DEF RunnerStore
<1>6. CASE UNCHANGED vars
  BY <1>6 DEF vars, HonestInv, RunnerHonest, RowsStartAligned, Dims
<1> QED  BY <1>1, <1>2, <1>3, <1>4, <1>5, <1>6 DEF Next

(* RunnerHonest: a runner that says ok leaves the whole result of a whole  *)
(* input, whatever its header holds, unless transpose_th_fp16 is given     *)
(* rows that do not start on vector boundaries.                            *)
THEOREM RunnersAreHonest == Spec => [](RowsStartAligned => RunnerHonest)
<1>1. Init => HonestInv
  BY DEF Init, HonestInv, RunnerHonest
<1> QED  BY <1>1, HonestStep, JobKept, MemKept, RefKept, RunnerKept, PTL DEF Spec, HonestInv

(* A harness has shapes, and runs one of them.  As long as every shape is  *)
(* one the kernel is right on, it has found nothing wrong.                 *)
HarnessInv == ~job.runner => Len(job.shapes) \in Nat /\ shape \in 1 .. Len(job.shapes)

(* Every shape of the harness fits.                                        *)
AllShapesFit == \A n \in 1 .. Len(job.shapes) : Fits(job.kernel, job.shapes[n])

(* Then nothing has been found wrong.                                      *)
SoundInv == ~job.runner /\ job.variant = KERNEL /\ AllShapesFit => wrong = 0

(* A harness runs its shapes in order and no others.                       *)
LEMMA HarnessKept == Spec => []HarnessInv
<1>1. Init => HarnessInv
  <2> SUFFICES ASSUME Init
               PROVE  HarnessInv
    OBVIOUS
  <2>1. job \in Jobs /\ shape = 1
    BY DEF Init
  <2>2. CASE \E i \in RunnerInputs :
               job = [kernel |-> i.kernel, variant |-> KERNEL, shapes |-> <<i.dims>>,
                      runner |-> TRUE, input |-> i]
    BY <2>2 DEF HarnessInv
  <2>3. CASE \E h \in Harnesses :
               job = [kernel |-> h.kernel, variant |-> h.variant, shapes |-> h.shapes,
                      runner |-> FALSE, input |-> <<"harness">>]
    <3>1. PICK h \in Harnesses : job.shapes = h.shapes
      BY <2>3
    <3>2. h.shapes \in Seq({h.shapes[n] : n \in DOMAIN h.shapes}) \ {<< >>}
      BY RunAssumption
    <3> DEFINE shapes == h.shapes
               S == {h.shapes[n] : n \in DOMAIN h.shapes}
    <3>3. shapes \in Seq(S) /\ shapes # << >>
      BY <3>2
    <3> HIDE DEF shapes, S
    <3>4. Len(shapes) \in Nat /\ Len(shapes) # 0
      BY <3>3
    <3> QED  BY <2>1, <3>1, <3>4 DEF HarnessInv, shapes
  <2> QED  BY <2>1, <2>2, <2>3 DEF Jobs
<1>2. HarnessInv /\ [Next]_vars => HarnessInv'
  BY DEF HarnessInv, Next, vars, HarnessShape, KernelStep, HarnessCompare, RunnerLoad,
         RunnerStore
<1> QED  BY <1>1, <1>2, PTL DEF Spec

(* An array that is the baseline's has no element wrong.                   *)
LEMMA NothingWrong ==
  ASSUME Output = ref
  PROVE  Cardinality({q \in Elements :
                        ~SameValue(job.kernel, Dims, q, mem[q], ref[q])}) = 0
<1>1. \A q \in Elements : mem[q] = ref[q]
  BY DEF Output
<1>2. \A q \in Elements : SameValue(job.kernel, Dims, q, mem[q], ref[q])
  BY <1>1 DEF SameValue
<1>3. {q \in Elements : ~SameValue(job.kernel, Dims, q, mem[q], ref[q])} = {}
  BY <1>2
<1> QED  BY <1>3, FS_EmptySet

(* One more shape compared.                                                *)
LEMMA SoundStep ==
  JobInv /\ MemInv /\ RefInv /\ HarnessInv /\ SoundInv /\ [Next]_vars => SoundInv'
<1> SUFFICES ASSUME JobInv, MemInv, RefInv, HarnessInv, SoundInv, [Next]_vars
             PROVE  SoundInv'
  OBVIOUS
<1>1. CASE HarnessShape
  BY <1>1 DEF HarnessShape, SoundInv, AllShapesFit
<1>2. CASE KernelStep
  BY <1>2 DEF KernelStep, SoundInv, AllShapesFit
<1>3. CASE HarnessCompare
  <2> SUFFICES ASSUME job.variant = KERNEL, AllShapesFit
               PROVE  wrong' = 0
    BY <1>3 DEF HarnessCompare, SoundInv, AllShapesFit
  <2>1. KernelDone /\ ~job.runner
    BY <1>3 DEF HarnessCompare
  <2>2. Fits(job.kernel, Dims)
    BY <2>1 DEF HarnessInv, AllShapesFit, Dims
  <2>3. Output = ref
    BY <2>1, <2>2, FitsFaithful, DoneIsBaseline
  <2>4. wrong = 0
    BY <2>1 DEF SoundInv
  <2> QED  BY <1>3, <2>3, <2>4, NothingWrong DEF HarnessCompare
<1>4. CASE RunnerLoad
  BY <1>4 DEF RunnerLoad, SoundInv, AllShapesFit
<1>5. CASE RunnerStore
  BY <1>5 DEF RunnerStore, SoundInv, AllShapesFit
<1>6. CASE UNCHANGED vars
  BY <1>6 DEF vars, SoundInv, AllShapesFit
<1> QED  BY <1>1, <1>2, <1>3, <1>4, <1>5, <1>6 DEF Next

(* The half of NearMissesRejected that does not depend on the inputs       *)
(* chosen: whatever the harness's shapes, as long as they fit, its verdict *)
(* on the kernel is correct.                                               *)
THEOREM KernelsAccepted ==
  Spec => [](job.variant = KERNEL /\ AllShapesFit => NearMissesRejected)
<1>1. Init => SoundInv
  BY DEF Init, SoundInv
<1>2. RunnerInv /\ RefInv /\ SoundInv =>
        (job.variant = KERNEL /\ AllShapesFit => NearMissesRejected)
  BY DEF SoundInv, NearMissesRejected, RunnerInv
<1> QED  BY <1>1, <1>2, SoundStep, JobKept, MemKept, RefKept, HarnessKept, RunnerKept, PTL
         DEF Spec

=============================================================================
