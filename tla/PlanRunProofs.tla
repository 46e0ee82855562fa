--------------------------- MODULE PlanRunProofs ----------------------------
(***************************************************************************)
(* A plan the compiler accepts keeps every live value intact while it is   *)
(* replayed, for every graph, budget and policy.  What the argument needs  *)
(* of a plan is PlanSound; that the plan of an accepted allocation has it  *)
(* follows from the allocator's invariant and the compiler's own checks.   *)
(***************************************************************************)
EXTENDS WholeBatch, VtcmAllocProofs, FiniteInduction

(* Every slot has numbers for an address and a life within the budget, no  *)
(* tensor has two, and its life spans each step its tensor is used at.     *)
SlotsSound(g, slots, budget) ==
  /\ \A s \in slots :
       /\ s.offset \in Nat /\ s.size \in Int /\ SlotEnd(s) <= budget
       /\ s.first_use \in Int /\ s.last_use \in Int
       /\ \A k \in UsedAt(g, s.tensor) : s.first_use <= k /\ k <= s.last_use
  /\ \A a, b \in slots : a.tensor = b.tensor => a = b

(* A step's transfers are of tensors in use there.                         *)
StepsSound(g, steps) ==
  /\ DOMAIN steps = DOMAIN g.ops /\ Len(steps) = Len(g.ops)
  /\ \A i \in DOMAIN g.ops :
       /\ \A t \in steps[i].dma_in \union steps[i].tiling :
            t.tensor \in g.tensors /\ i - 1 \in UsedAt(g, t.tensor)
       /\ \A t \in steps[i].dma_out :
            /\ t.tensor \in g.tensors
            /\ \/ i - 1 \in UsedAt(g, t.tensor)
               \/ (i = Len(g.ops) /\ Len(g.ops) \in UsedAt(g, t.tensor))

OutputsLeave(g, steps) ==
  \A t \in g.outputs : \E i \in DOMAIN steps : \E x \in steps[i].dma_out : x.tensor = t

PlanSound(g, p, budget) ==
  SlotsSound(g, p.slots, budget) /\ StepsSound(g, p.steps) /\ OutputsLeave(g, p.steps)

-----------------------------------------------------------------------------
(* Graphs.                                                                 *)

(* What an op is.                                                          *)
LEMMA OpFacts ==
  ASSUME NEW g, IsGraph(g), NEW i \in DOMAIN g.ops
  PROVE  i \in Nat /\ g.ops[i].ins \in Seq(Nat) /\ g.ops[i].outs \in Seq(Nat)
<1> DEFINE Op == [id : Int, kind : STRING, ins : Seq(Nat), outs : Seq(Nat)]
<1>1. g.ops \in Seq(Op)  BY DEF IsGraph
<1>2. i \in Nat /\ g.ops[i] \in Op
  <2> HIDE DEF Op
  <2> QED  BY <1>1
<1> QED  BY <1>2

(* What a graph that passes problems() is made of.                         *)
LEMMA GraphFacts ==
  ASSUME NEW g, IsGraph(g), WellFormed(g)
  PROVE  /\ Len(g.ops) \in Nat \ {0} /\ DOMAIN g.ops = 1 .. Len(g.ops)
         /\ \A i \in DOMAIN g.ops : Reads(g.ops[i]) \subseteq g.tensors
                                    /\ Writes(g.ops[i]) \subseteq g.tensors
         /\ g.inputs \subseteq g.tensors /\ g.outputs \subseteq g.tensors
         /\ g.const \subseteq g.tensors /\ g.tensors \subseteq Nat
         /\ \A t \in g.tensors : g.nbytes[t] \in Nat \ {0}
<1>1. g.ops \in Seq([id : Int, kind : STRING, ins : Seq(Nat), outs : Seq(Nat)]) /\ g.ops # <<>>
  BY DEF IsGraph, WellFormed
<1>2. Len(g.ops) \in Nat \ {0} /\ DOMAIN g.ops = 1 .. Len(g.ops)  BY <1>1
<1>3. \A i \in DOMAIN g.ops : Reads(g.ops[i]) \subseteq g.tensors
                              /\ Writes(g.ops[i]) \subseteq g.tensors
  BY DEF WellFormed
<1>4. g.inputs \subseteq g.tensors /\ g.outputs \subseteq g.tensors  BY DEF WellFormed
<1>5. \A t \in g.tensors : g.nbytes[t] \in Nat \ {0}  BY DEF IsGraph
<1> QED  BY <1>2, <1>3, <1>4, <1>5 DEF IsGraph

(* The steps a tensor is used at are numbers, and its interval spans them. *)
LEMMA UsesInRange ==
  ASSUME NEW g, IsGraph(g), WellFormed(g), NEW t
  PROVE  UsedAt(g, t) \subseteq 0 .. Len(g.ops)
<1>1. Len(g.ops) \in Nat \ {0} /\ DOMAIN g.ops = 1 .. Len(g.ops)  BY GraphFacts
<1>2. TouchedAt(g, t) \subseteq 0 .. Len(g.ops)
  <2>1. \A i \in 1 .. Len(g.ops) : i - 1 \in 0 .. Len(g.ops)  BY <1>1
  <2> QED  BY <1>1, <2>1 DEF TouchedAt
<1>3. 0 \in 0 .. Len(g.ops) /\ Len(g.ops) \in 0 .. Len(g.ops)  BY <1>1
<1> QED  BY <1>2, <1>3 DEF UsedAt

LEMMA IntervalSpansUses ==
  ASSUME NEW g, IsGraph(g), WellFormed(g), NEW t \in Activations(g)
  PROVE  \A k \in UsedAt(g, t) :
           LiveIntervals(g)[t].first_use <= k /\ k <= LiveIntervals(g)[t].last_use
<1> DEFINE U == UsedAt(g, t)
           n == Len(g.ops)
<1>1. U # {}  BY DEF Activations, UsedAt
<1>2. U \subseteq 0 .. n /\ n \in Nat  BY UsesInRange, GraphFacts
<1>3. /\ LiveIntervals(g)[t].first_use = Min(U)
      /\ LiveIntervals(g)[t].last_use = Max(U)
  BY DEF LiveIntervals
<1> HIDE DEF U, n
<1>4. U \subseteq Nat /\ U \subseteq Int /\ n \in Int /\ \A k \in U : k <= n  BY <1>2
<1>5. \A k \in U : Min(U) <= k  BY <1>1, <1>4, MinIsLeast
<1>6. \A k \in U : k <= Max(U)  BY <1>1, <1>4, MaxIsGreatest
<1> QED  BY <1>3, <1>5, <1>6 DEF U
-----------------------------------------------------------------------------
(* The slots of an accepted plan.                                          *)

(* The sizes the constants are rounded up to add up to a number.           *)
LEMMA BumpIsNat ==
  ASSUME NEW g, IsGraph(g), WellFormed(g), NEW S, S \subseteq g.const
  PROVE  BumpBytes(g, S) \in Nat
<1>1. IsFiniteSet(S)  BY FS_Subset DEF IsGraph
<1>2. \A c \in S : g.nbytes[c] \in Nat  BY GraphFacts
<1>3. \A c \in S : AlignUp(g.nbytes[c]) \in Nat
  <2> SUFFICES ASSUME NEW c \in S PROVE AlignUp(g.nbytes[c]) \in Nat
    OBVIOUS
  <2> DEFINE n == g.nbytes[c]
  <2>1. n \in Nat  BY <1>2
  <2> HIDE DEF n
  <2>2. AlignUp(n) \in Int /\ n <= AlignUp(n)  BY <2>1, AlignUpFacts
  <2>3. AlignUp(n) \in Nat  BY <2>1, <2>2
  <2> QED  BY <2>3 DEF n
<1> DEFINE f == [c \in S |-> AlignUp(g.nbytes[c])]
<1>4. f \in [S -> Nat]  BY <1>3
<1>5. BumpBytes(g, S) = SumFunction(f)  BY DEF BumpBytes
<1> HIDE DEF f
<1> QED  BY <1>1, <1>4, <1>5, SumIsNat

(* What the allocator says of its slots once it has accepted.              *)
LEMMA ActivationSlots ==
  ASSUME AllocInv, outcome = "accepted", NEW g, IsGraph(g), WellFormed(g),
         request.ivs = LiveIntervals(g)
  PROVE  /\ \A s \in Slots :
              /\ s.tensor \in Activations(g)
              /\ s.offset \in Nat /\ s.size \in Int
              /\ SlotEnd(s) \in Int /\ SlotEnd(s) <= request.budget
              /\ s.first_use = LiveIntervals(g)[s.tensor].first_use
              /\ s.last_use = LiveIntervals(g)[s.tensor].last_use
              /\ s.first_use \in Int /\ s.last_use \in Int
              /\ g.nbytes[s.tensor] <= s.size
         /\ \A t \in Activations(g) : \E s \in Slots : s.tensor = t
         /\ request.budget \in Int
<1>1. Live = Activations(g) /\ Placed = Live
  BY DEF Live, LiveIntervals, AllocInv, AcceptedInv
<1>2. /\ \A t \in Live : End(t) <= request.budget /\ offsets[t] \in Nat
      /\ \A t \in Live : Iv(t) \in Interval /\ Size(t) \in Int /\ Iv(t).nbytes <= Size(t)
      /\ \A t \in Live : End(t) \in Int
      /\ request.budget \in Int
  <2>1. \A t \in Live : End(t) <= request.budget  BY DEF AllocInv, AcceptedInv
  <2>2. \A t \in Live : offsets[t] \in Nat  BY <1>1 DEF AllocInv, AllocTypeOK
  <2> QED  BY <1>1, <2>1, <2>2, RequestFacts DEF AllocInv
<1>3. \A t \in Live : /\ Iv(t) = LiveIntervals(g)[t]
                      /\ Iv(t).first_use \in Int /\ Iv(t).last_use \in Int
                      /\ Iv(t).nbytes = g.nbytes[t]
  BY <1>1, <1>2 DEF Iv, Interval, LiveIntervals
<1>4. \A t \in Live : /\ SlotOf(t).tensor = t /\ SlotOf(t).offset = offsets[t]
                      /\ SlotOf(t).size = Size(t) /\ SlotEnd(SlotOf(t)) = End(t)
                      /\ SlotOf(t).first_use = Iv(t).first_use
                      /\ SlotOf(t).last_use = Iv(t).last_use
  BY DEF SlotOf, SlotEnd, End
<1>5. \A s \in Slots : \E t \in Live : s = SlotOf(t)  BY <1>1 DEF Slots
<1>6. \A t \in Activations(g) : SlotOf(t) \in Slots /\ SlotOf(t).tensor = t
  BY <1>1, <1>4 DEF Slots
<1>7. ASSUME NEW s \in Slots
      PROVE  /\ s.tensor \in Activations(g)
             /\ s.offset \in Nat /\ s.size \in Int
             /\ SlotEnd(s) \in Int /\ SlotEnd(s) <= request.budget
             /\ s.first_use = LiveIntervals(g)[s.tensor].first_use
             /\ s.last_use = LiveIntervals(g)[s.tensor].last_use
             /\ s.first_use \in Int /\ s.last_use \in Int
             /\ g.nbytes[s.tensor] <= s.size
  <2>1. PICK t \in Live : s = SlotOf(t)  BY <1>5
  <2> QED  BY <1>1, <1>2, <1>3, <1>4, <2>1
<1> QED  BY <1>2, <1>6, <1>7

(* The constants start at a number past every activation.                  *)
LEMMA ScratchBaseIsNat ==
  ASSUME NEW slots, NEW bound \in Int,
         \A s \in slots : SlotEnd(s) \in Int /\ SlotEnd(s) <= bound
  PROVE  /\ ScratchBase(slots) \in Nat
         /\ \A s \in slots : SlotEnd(s) <= ScratchBase(slots)
<1> DEFINE A == {0} \union {SlotEnd(s) : s \in slots}
           b == IF bound < 0 THEN 0 ELSE bound
<1>1. A \subseteq Int /\ A # {} /\ 0 \in A  OBVIOUS
<1>2. b \in Int /\ \A n \in A : n <= b  OBVIOUS
<1>3. HighWater(slots) = Max(A)  BY DEF HighWater
<1>4. \A s \in slots : SlotEnd(s) \in A  OBVIOUS
<1> HIDE DEF A, b
<1>5. Max(A) \in A /\ \A n \in A : n <= Max(A)  BY <1>1, <1>2, MaxIsGreatest
<1> DEFINE h == HighWater(slots)
<1>6. h \in Int /\ 0 <= h /\ \A s \in slots : SlotEnd(s) <= h
  BY <1>1, <1>3, <1>4, <1>5
<1> HIDE DEF h
<1>7. AlignUp(h) \in Int /\ h <= AlignUp(h)  BY <1>6, AlignUpFacts
<1>8. ScratchBase(slots) = AlignUp(h)  BY DEF ScratchBase, h
<1>9. AlignUp(h) \in Nat  BY <1>6, <1>7
<1>10. \A s \in slots : SlotEnd(s) <= AlignUp(h)  BY <1>6, <1>7
<1> QED  BY <1>8, <1>9, <1>10

(* The slots of the constants have numbers for an address, and live for    *)
(* the whole plan.                                                         *)
LEMMA ConstantSlots ==
  ASSUME NEW g, IsGraph(g), WellFormed(g), NEW base \in Nat
  PROVE  /\ \A c \in ReadConsts(g) : ConstOffsets(g, base)[c] \in Nat
         /\ \A s \in ConstSlots(g, base) :
              /\ s.offset \in Nat /\ s.size \in Int
              /\ s.first_use = 0 /\ s.last_use = Len(g.ops)
<1>1. Region \in Nat
  <2>1. Chunk \in Nat /\ Buffers \in Nat  BY PlanAssumption
  <2> QED  BY <2>1 DEF Region
<1>2. ConstStart(base) \in Nat
  <2> DEFINE n == base + Region
  <2>1. n \in Nat  BY <1>1
  <2> HIDE DEF n
  <2>2. AlignUp(n) \in Int /\ n <= AlignUp(n)  BY <2>1, AlignUpFacts
  <2>3. AlignUp(n) \in Nat  BY <2>1, <2>2
  <2> QED  BY <2>3 DEF ConstStart, n
<1>3. ASSUME NEW c \in ReadConsts(g) PROVE ConstOffsets(g, base)[c] \in Nat
  <2> DEFINE S == {d \in Resident(g) : Earlier(FirstMeet(g, d), FirstMeet(g, c))}
  <2>1. S \subseteq g.const  BY DEF Resident, ReadConsts
  <2>2. ConstOffsets(g, base)[c] =
          IF StreamedFirst(g, c) THEN base ELSE ConstStart(base) + BumpBytes(g, S)
    BY DEF ConstOffsets
  <2> HIDE DEF S
  <2>3. BumpBytes(g, S) \in Nat  BY <2>1, BumpIsNat
  <2> QED  BY <1>2, <2>2, <2>3
<1>4. \A c \in ReadConsts(g) : AlignUp(g.nbytes[c]) \in Int
  <2>1. \A c \in ReadConsts(g) : g.nbytes[c] \in Int  BY GraphFacts DEF ReadConsts
  <2> QED  BY <2>1, AlignUpFacts
<1>5. \A s \in ConstSlots(g, base) :
        \/ s = WholePlan(g, Scratch, base, Region)
        \/ \E c \in ReadConsts(g) :
             s = WholePlan(g, c, ConstOffsets(g, base)[c], AlignUp(g.nbytes[c]))
  BY DEF ConstSlots
<1>6. \A t, at, size : /\ WholePlan(g, t, at, size).offset = at
                       /\ WholePlan(g, t, at, size).size = size
                       /\ WholePlan(g, t, at, size).first_use = 0
                       /\ WholePlan(g, t, at, size).last_use = Len(g.ops)
  BY DEF WholePlan
<1>7. ASSUME NEW s \in ConstSlots(g, base)
      PROVE  /\ s.offset \in Nat /\ s.size \in Int
             /\ s.first_use = 0 /\ s.last_use = Len(g.ops)
  BY <1>1, <1>3, <1>4, <1>5, <1>6
<1> QED  BY <1>3, <1>7
-----------------------------------------------------------------------------
(* The constants an op reads whole do not share a byte.                    *)

(* A constant that is read is met a first time.                            *)
LEMMA FirstMeetIs ==
  ASSUME NEW g, IsGraph(g), NEW c \in ReadConsts(g)
  PROVE  /\ FirstMeet(g, c) \in Meets(g, c)
         /\ Meets(g, c) \subseteq Nat \X Nat
<1> DEFINE M == Meets(g, c)
           rows == {p[1] : p \in M}
<1>1. M \subseteq Nat \X Nat /\ M # {}
  <2>1. /\ DOMAIN g.ops \subseteq Nat
        /\ \A i \in DOMAIN g.ops : DOMAIN g.ops[i].ins \subseteq Nat
    <3>1. \A i \in DOMAIN g.ops : i \in Nat /\ g.ops[i].ins \in Seq(Nat)  BY OpFacts
    <3>2. \A s \in Seq(Nat) : DOMAIN s \subseteq Nat  OBVIOUS
    <3> QED  BY <3>1, <3>2
  <2> QED  BY <2>1 DEF Meets, ReadConsts
<1> HIDE DEF M
<1>2. rows \subseteq Nat /\ rows # {}  BY <1>1
<1>3. PICK i \in rows : \A n \in rows : i <= n
  <2> HIDE DEF rows
  <2> QED  BY <1>2, LeastNat
<1> DEFINE columns == {p[2] : p \in {q \in M : q[1] = i}}
<1>4. columns \subseteq Nat /\ columns # {}  BY <1>1, <1>3
<1>5. PICK k \in columns : \A n \in columns : k <= n
  <2> HIDE DEF columns
  <2> QED  BY <1>4, LeastNat
<1>6. PICK p \in M : p[1] = i /\ p[2] = k  BY <1>5
<1>7. \A q \in M : ~Earlier(q, p)
  <2> SUFFICES ASSUME NEW q \in M PROVE ~Earlier(q, p)
    OBVIOUS
  <2>1. q[1] \in Nat /\ q[2] \in Nat /\ i \in Nat /\ k \in Nat  BY <1>1, <1>2, <1>4
  <2>2. i <= q[1]  BY <1>3
  <2>3. q[1] = i => k <= q[2]  BY <1>5
  <2> QED  BY <1>6, <2>1, <2>2, <2>3 DEF Earlier
<1>8. FirstMeet(g, c) \in M
  <2>1. FirstMeet(g, c) = CHOOSE r \in M : \A q \in M : ~Earlier(q, r)  BY DEF FirstMeet, M
  <2> QED  BY <1>7, <2>1
<1> QED  BY <1>1, <1>8 DEF M

(* Of two constants met first as operands, one is met before the other.    *)
LEMMA ResidentsOrdered ==
  ASSUME NEW g, IsGraph(g)
  PROVE  /\ \A c, d \in Resident(g) :
              c # d => \/ Earlier(FirstMeet(g, c), FirstMeet(g, d))
                       \/ Earlier(FirstMeet(g, d), FirstMeet(g, c))
         /\ \A c \in Resident(g) : ~Earlier(FirstMeet(g, c), FirstMeet(g, c))
         /\ \A b, c, d \in Resident(g) :
              Earlier(FirstMeet(g, b), FirstMeet(g, c)) /\ Earlier(FirstMeet(g, c), FirstMeet(g, d))
                => Earlier(FirstMeet(g, b), FirstMeet(g, d))
<1>1. \A c \in Resident(g) : /\ FirstMeet(g, c)[1] \in Nat /\ FirstMeet(g, c)[2] \in Nat
                             /\ FirstMeet(g, c) \in Meets(g, c)
                             /\ FirstMeet(g, c)[2] # 0
  <2>1. \A c \in ReadConsts(g) : FirstMeet(g, c) \in Meets(g, c)
                                 /\ Meets(g, c) \subseteq Nat \X Nat
    BY FirstMeetIs
  <2> QED  BY <2>1 DEF Resident, StreamedFirst
<1>2. \A c \in Resident(g) : g.ops[FirstMeet(g, c)[1]].ins[FirstMeet(g, c)[2]] = c
  <2> SUFFICES ASSUME NEW c \in Resident(g)
               PROVE  g.ops[FirstMeet(g, c)[1]].ins[FirstMeet(g, c)[2]] = c
    OBVIOUS
  <2>1. PICK i \in DOMAIN g.ops :
          FirstMeet(g, c) \in IF c \in Weight(g, g.ops[i]) THEN {<<i, 0>>}
                              ELSE {<<i, k>> : k \in {j \in DOMAIN g.ops[i].ins : g.ops[i].ins[j] = c}}
    BY <1>1 DEF Meets
  <2>2. PICK k \in DOMAIN g.ops[i].ins : g.ops[i].ins[k] = c /\ FirstMeet(g, c) = <<i, k>>
    BY <1>1, <2>1
  <2> QED  BY <2>2
<1>3. \A c, d \in Resident(g) :
        c # d => FirstMeet(g, c)[1] # FirstMeet(g, d)[1] \/ FirstMeet(g, c)[2] # FirstMeet(g, d)[2]
  BY <1>2
<1> QED  BY <1>1, <1>3 DEF Earlier

(* The bytes up to a constant grow with what lies before it.               *)
LEMMA BumpGrows ==
  ASSUME NEW g, IsGraph(g), WellFormed(g), NEW T, T \subseteq g.const, NEW S, S \subseteq T
  PROVE  \A c \in T \ S : BumpBytes(g, S) + AlignUp(g.nbytes[c]) <= BumpBytes(g, T)
<1> DEFINE f == [c \in g.const |-> AlignUp(g.nbytes[c])]
<1>1. IsFiniteSet(g.const)  BY FS_Subset DEF IsGraph
<1>2. f \in [g.const -> Nat]
  <2>1. \A c \in g.const : g.nbytes[c] \in Nat  BY GraphFacts
  <2>2. \A n \in Nat : AlignUp(n) \in Nat
    <3> SUFFICES ASSUME NEW n \in Nat PROVE AlignUp(n) \in Nat
      OBVIOUS
    <3>1. AlignUp(n) \in Int /\ n <= AlignUp(n)  BY AlignUpFacts
    <3> QED  BY <3>1
  <2> QED  BY <2>1, <2>2
<1>3. \A s : s \subseteq g.const => BumpBytes(g, s) = SumOver(f, s)
  <2> SUFFICES ASSUME NEW s, s \subseteq g.const PROVE BumpBytes(g, s) = SumOver(f, s)
    OBVIOUS
  <2>1. [c \in s |-> AlignUp(g.nbytes[c])] = [c \in s |-> f[c]]  OBVIOUS
  <2> QED  BY <2>1 DEF BumpBytes, SumOver
<1>4. \A c \in g.const : f[c] = AlignUp(g.nbytes[c])  OBVIOUS
<1> HIDE DEF f
<1>5. T \in SUBSET g.const /\ S \in SUBSET T /\ S \subseteq g.const  OBVIOUS
<1>6. \A c \in T \ S : SumOver(f, S) + f[c] <= SumOver(f, T)  BY <1>1, <1>2, <1>5, SumGrows
<1> QED  BY <1>3, <1>4, <1>5, <1>6

(* Each lies past the chunks and before the end, and clear of the others.  *)
LEMMA ResidentsApart ==
  ASSUME NEW g, IsGraph(g), WellFormed(g), NEW base \in Nat
  PROVE  LET at == ConstOffsets(g, base)
             end(c) == at[c] + AlignUp(g.nbytes[c])
         IN  /\ \A c \in Resident(g) : /\ at[c] \in Int /\ end(c) \in Int
                                       /\ base + Region <= at[c] /\ end(c) <= ConstEnd(g, base)
             /\ \A c, d \in Resident(g) : c # d => end(c) <= at[d] \/ end(d) <= at[c]
<1> DEFINE before(c) == {d \in Resident(g) : Earlier(FirstMeet(g, d), FirstMeet(g, c))}
           start == ConstStart(base)
           at == ConstOffsets(g, base)
           size(c) == AlignUp(g.nbytes[c])
           sum(S) == BumpBytes(g, S)
           all == Resident(g)
<1>1. Region \in Nat  BY PlanAssumption DEF Region
<1>2. start \in Int /\ base + Region <= start
  <2> DEFINE n == base + Region
  <2>1. n \in Int  BY <1>1
  <2> HIDE DEF n
  <2>2. AlignUp(n) \in Int /\ n <= AlignUp(n)  BY <2>1, AlignUpFacts
  <2> QED  BY <2>2 DEF n, ConstStart
<1>3. all \subseteq g.const /\ \A c \in all : before(c) \subseteq all
  BY DEF Resident, ReadConsts
<1>4. \A c \in all : at[c] = start + sum(before(c))  BY DEF ConstOffsets, Resident
<1>5. ConstEnd(g, base) = start + sum(all)  BY DEF ConstEnd
<1>6. \A c \in all : sum(before(c)) \in Nat
  <2>1. \A c \in all : before(c) \subseteq g.const  BY <1>3
  <2> HIDE DEF before
  <2> QED  BY <2>1, BumpIsNat
<1>7. sum(all) \in Nat  BY <1>3, BumpIsNat
<1>8. \A c \in all : size(c) \in Int
  <2>1. \A c \in all : g.nbytes[c] \in Int  BY <1>3, GraphFacts
  <2> QED  BY <2>1, AlignUpFacts
<1>9. \A c \in all : sum(before(c)) + size(c) <= sum(all)
  <2> SUFFICES ASSUME NEW c \in all PROVE sum(before(c)) + size(c) <= sum(all)
    OBVIOUS
  <2>1. c \in all \ before(c)  BY ResidentsOrdered
  <2>2. before(c) \subseteq all  BY <1>3
  <2> HIDE DEF before, all
  <2> QED  BY <1>3, <2>1, <2>2, BumpGrows
<1>10. \A c, d \in all : Earlier(FirstMeet(g, c), FirstMeet(g, d))
                            => sum(before(c)) + size(c) <= sum(before(d))
  <2> SUFFICES ASSUME NEW c \in all, NEW d \in all, Earlier(FirstMeet(g, c), FirstMeet(g, d))
               PROVE  sum(before(c)) + size(c) <= sum(before(d))
    OBVIOUS
  <2>1. c \in before(d) \ before(c)  BY ResidentsOrdered
  <2>2. before(c) \subseteq before(d)  BY ResidentsOrdered
  <2>3. before(d) \subseteq g.const  BY <1>3
  <2> HIDE DEF before, all
  <2> QED  BY <2>1, <2>2, <2>3, BumpGrows
<1>11. \A c, d \in all : c # d => \/ Earlier(FirstMeet(g, c), FirstMeet(g, d))
                                  \/ Earlier(FirstMeet(g, d), FirstMeet(g, c))
  BY ResidentsOrdered
<1> HIDE DEF before, start, at, size, sum, all
<1>12. \A c \in all : /\ at[c] \in Int /\ at[c] + size(c) \in Int
                      /\ base + Region <= at[c] /\ at[c] + size(c) <= ConstEnd(g, base)
  <2> SUFFICES ASSUME NEW c \in all
               PROVE  /\ at[c] \in Int /\ at[c] + size(c) \in Int
                      /\ base + Region <= at[c] /\ at[c] + size(c) <= ConstEnd(g, base)
    OBVIOUS
  <2>1. sum(before(c)) \in Nat /\ sum(all) \in Nat /\ size(c) \in Int  BY <1>6, <1>7, <1>8
  <2>2. sum(before(c)) + size(c) <= sum(all)  BY <1>9
  <2>3. at[c] = start + sum(before(c))  BY <1>4
  <2> QED  BY <1>1, <1>2, <1>5, <2>1, <2>2, <2>3
<1>13. \A c, d \in all : c # d => at[c] + size(c) <= at[d] \/ at[d] + size(d) <= at[c]
  <2> SUFFICES ASSUME NEW c \in all, NEW d \in all, c # d
               PROVE  at[c] + size(c) <= at[d] \/ at[d] + size(d) <= at[c]
    OBVIOUS
  <2>1. /\ sum(before(c)) \in Nat /\ sum(before(d)) \in Nat
        /\ size(c) \in Int /\ size(d) \in Int
    BY <1>6, <1>8
  <2>2. at[c] = start + sum(before(c)) /\ at[d] = start + sum(before(d))  BY <1>4
  <2>3. sum(before(c)) + size(c) <= sum(before(d)) \/ sum(before(d)) + size(d) <= sum(before(c))
    BY <1>10, <1>11
  <2> QED  BY <1>2, <2>1, <2>2, <2>3
<1> QED  BY <1>12, <1>13 DEF at, size, all
-----------------------------------------------------------------------------
(* The slots of a plan, before any check is run on them.                   *)

(* The allocator's tensors live at one step do not share a byte.           *)
LEMMA ActivationsApart ==
  ASSUME AllocInv, outcome = "accepted"
  PROVE  /\ \A a, b \in Slots : a.tensor = b.tensor => a = b
         /\ \A a, b \in Slots : a # b /\ Overlaps(a, b)
                                  => SlotEnd(a) <= b.offset \/ SlotEnd(b) <= a.offset
<1>1. \A t \in Placed : /\ SlotOf(t).tensor = t /\ SlotOf(t).offset = offsets[t]
                        /\ SlotEnd(SlotOf(t)) = End(t)
                        /\ SlotOf(t).first_use = Iv(t).first_use
                        /\ SlotOf(t).last_use = Iv(t).last_use
  BY DEF SlotOf, SlotEnd, End
<1>2. \A s \in Slots : \E t \in Placed : s = SlotOf(t)  BY DEF Slots
<1>3. \A a, b \in Slots : a.tensor = b.tensor => a = b  BY <1>1, <1>2
<1>4. ASSUME NEW a \in Slots, NEW b \in Slots, a # b, Overlaps(a, b)
      PROVE  SlotEnd(a) <= b.offset \/ SlotEnd(b) <= a.offset
  <2>1. PICK t \in Placed, u \in Placed : a = SlotOf(t) /\ b = SlotOf(u)  BY <1>2
  <2>2. t # u  BY <1>4, <2>1
  <2>3. Overlaps(Iv(t), Iv(u))  BY <1>1, <1>4, <2>1 DEF Overlaps
  <2>4. End(t) <= offsets[u] \/ End(u) <= offsets[t]  BY <2>2, <2>3 DEF AllocInv, LiveApart
  <2> QED  BY <1>1, <2>1, <2>4
<1> QED  BY <1>3, <1>4

(* A constant read whole is never met first as a weight; a weight that is  *)
(* never read whole always is.                                             *)
LEMMA WeightsAndResidents ==
  ASSUME NEW g, IsGraph(g)
  PROVE  /\ ReadConsts(g) \ Weights(g) \subseteq Resident(g)
         /\ ~SharedUse(g) => \A w \in Weights(g) : w \in ReadConsts(g) /\ StreamedFirst(g, w)
<1>1. ASSUME NEW c \in ReadConsts(g), StreamedFirst(g, c) PROVE c \in Weights(g)
  <2>1. FirstMeet(g, c) \in Meets(g, c) /\ FirstMeet(g, c)[2] = 0
    BY <1>1, FirstMeetIs DEF StreamedFirst
  <2>2. PICK i \in DOMAIN g.ops :
          FirstMeet(g, c) \in IF c \in Weight(g, g.ops[i]) THEN {<<i, 0>>}
                              ELSE {<<i, k>> : k \in {j \in DOMAIN g.ops[i].ins : g.ops[i].ins[j] = c}}
    BY <2>1 DEF Meets
  <2>3. 0 \notin DOMAIN g.ops[i].ins
    <3>1. g.ops[i].ins \in Seq(Nat)  BY OpFacts
    <3> QED  BY <3>1
  <2>4. c \in Weight(g, g.ops[i])  BY <2>1, <2>2, <2>3
  <2> QED  BY <2>4 DEF Weights
<1>2. ASSUME ~SharedUse(g), NEW w \in Weights(g)
      PROVE  w \in ReadConsts(g) /\ StreamedFirst(g, w)
  <2>1. PICK i \in DOMAIN g.ops : w \in Weight(g, g.ops[i])  BY DEF Weights
  <2>2. w \in g.const  BY <2>1 DEF Weight, WeightAt
  <2>3. <<i, 0>> \in Meets(g, w)  BY <2>1 DEF Meets
  <2>4. w \in ReadConsts(g)  BY <2>2, <2>3 DEF ReadConsts
  <2>5. FirstMeet(g, w) \in Meets(g, w)  BY <2>4, FirstMeetIs
  <2>6. PICK j \in DOMAIN g.ops :
          FirstMeet(g, w) \in IF w \in Weight(g, g.ops[j]) THEN {<<j, 0>>}
                              ELSE {<<j, k>> : k \in {n \in DOMAIN g.ops[j].ins : g.ops[j].ins[n] = w}}
    BY <2>5 DEF Meets
  <2>7. w \notin OneShots(g, g.ops[j])  BY <1>2 DEF SharedUse
  <2>8. w \in Weight(g, g.ops[j])
    <3> SUFFICES ASSUME w \notin Weight(g, g.ops[j]) PROVE FALSE
      OBVIOUS
    <3>1. \E n \in DOMAIN g.ops[j].ins : g.ops[j].ins[n] = w  BY <2>6
    <3>2. w \in Reads(g.ops[j])  BY <3>1 DEF Reads
    <3> QED  BY <2>2, <2>7, <3>2 DEF OneShots
  <2> QED  BY <2>4, <2>6, <2>8 DEF StreamedFirst
<1> QED  BY <1>1, <1>2 DEF Resident

(* The slots of the constants: the chunks', and one for each constant that *)
(* is read whole.                                                          *)
LEMMA ConstantKinds ==
  ASSUME NEW g, IsGraph(g), NEW base, NEW s \in ConstSlots(g, base)
  PROVE  /\ s.first_use = 0 /\ s.last_use = Len(g.ops)
         /\ \/ s.tensor = Scratch /\ s.offset = base /\ s.size = Region
            \/ /\ s.tensor \in Resident(g) /\ s.tensor \in g.const
               /\ s.offset = ConstOffsets(g, base)[s.tensor]
               /\ s.size = AlignUp(g.nbytes[s.tensor])
<1>1. \A t, at, size : /\ WholePlan(g, t, at, size).tensor = t
                       /\ WholePlan(g, t, at, size).offset = at
                       /\ WholePlan(g, t, at, size).size = size
                       /\ WholePlan(g, t, at, size).first_use = 0
                       /\ WholePlan(g, t, at, size).last_use = Len(g.ops)
  BY DEF WholePlan
<1>2. \/ s = WholePlan(g, Scratch, base, Region)
      \/ \E c \in ReadConsts(g) \ Weights(g) :
           s = WholePlan(g, c, ConstOffsets(g, base)[c], AlignUp(g.nbytes[c]))
  BY DEF ConstSlots
<1>3. \A c \in ReadConsts(g) \ Weights(g) : c \in Resident(g) /\ c \in g.const
  BY WeightsAndResidents DEF ReadConsts
<1>4. CASE s = WholePlan(g, Scratch, base, Region)  BY <1>1, <1>4
<1>5. CASE \E c \in ReadConsts(g) \ Weights(g) :
             s = WholePlan(g, c, ConstOffsets(g, base)[c], AlignUp(g.nbytes[c]))
  <2>1. PICK c \in ReadConsts(g) \ Weights(g) :
          s = WholePlan(g, c, ConstOffsets(g, base)[c], AlignUp(g.nbytes[c]))
    BY <1>5
  <2>2. s.tensor = c /\ s.offset = ConstOffsets(g, base)[c] /\ s.size = AlignUp(g.nbytes[c])
        /\ s.first_use = 0 /\ s.last_use = Len(g.ops)
    BY <1>1, <2>1
  <2> QED  BY <1>3, <2>2
<1> QED  BY <1>2, <1>4, <1>5

LEMMA SameConstant ==
  ASSUME NEW g, NEW base, NEW a \in ConstSlots(g, base), NEW b \in ConstSlots(g, base),
         a.tensor = b.tensor, Scratch \notin g.const
  PROVE  a = b
<1>1. \A t, at, size : WholePlan(g, t, at, size).tensor = t  BY DEF WholePlan
<1>2. \A s \in ConstSlots(g, base) :
        \/ s.tensor = Scratch /\ s = WholePlan(g, Scratch, base, Region)
        \/ /\ s.tensor \in g.const
           /\ s = WholePlan(g, s.tensor, ConstOffsets(g, base)[s.tensor],
                            AlignUp(g.nbytes[s.tensor]))
  BY <1>1 DEF ConstSlots, ReadConsts
<1> QED  BY <1>2

(* The slots of the plan insert_transfers makes of an accepted allocation: *)
(* a tensor has one, those in use at one step lie apart, and all lie       *)
(* within the budget.                                                      *)
LEMMA PlanSlots ==
  ASSUME AllocInv, outcome = "accepted", NEW g, IsGraph(g), WellFormed(g),
         request.ivs = LiveIntervals(g),
         TransferVerdict(g, Slots, request.budget) = "scheduled",
         NEW slots, slots = Slots \union ConstSlots(g, ScratchBase(Slots))
  PROVE  /\ SlotsSound(g, slots, request.budget)
         /\ \A a, b \in slots : a # b /\ Overlaps(a, b)
                                  => SlotEnd(a) <= b.offset \/ SlotEnd(b) <= a.offset
<1> DEFINE base == ScratchBase(Slots)
           at == ConstOffsets(g, base)
           n == request.budget
           end(c) == at[c] + AlignUp(g.nbytes[c])
<1>1. /\ \A s \in Slots :
           /\ s.tensor \in Activations(g)
           /\ s.offset \in Nat /\ s.size \in Int
           /\ s.first_use = LiveIntervals(g)[s.tensor].first_use
           /\ s.last_use = LiveIntervals(g)[s.tensor].last_use
           /\ s.first_use \in Int /\ s.last_use \in Int
           /\ SlotEnd(s) \in Int /\ SlotEnd(s) <= n
      /\ n \in Int
  BY ActivationSlots
<1>2. base \in Nat /\ \A s \in Slots : SlotEnd(s) <= base
  <2>1. \A s \in Slots : SlotEnd(s) \in Int /\ SlotEnd(s) <= n  BY <1>1
  <2> QED  BY <1>1, <2>1, ScratchBaseIsNat
<1>3. /\ \A c \in Resident(g) : /\ at[c] \in Int /\ end(c) \in Int
                                /\ base + Region <= at[c] /\ end(c) <= ConstEnd(g, base)
      /\ \A c, d \in Resident(g) : c # d => end(c) <= at[d] \/ end(d) <= at[c]
  BY <1>2, ResidentsApart
<1>4. Region \in Nat  BY PlanAssumption DEF Region
<1>5. ConstEnd(g, base) \in Int
  <2>1. Resident(g) \subseteq g.const  BY DEF Resident, ReadConsts
  <2>2. BumpBytes(g, Resident(g)) \in Nat  BY <2>1, BumpIsNat
  <2>3. ConstStart(base) \in Int
    <3> DEFINE m == base + Region
    <3>1. m \in Int  BY <1>2, <1>4
    <3> HIDE DEF m
    <3>2. AlignUp(m) \in Int  BY <3>1, AlignUpFacts
    <3> QED  BY <3>2 DEF m, ConstStart
  <2> QED  BY <2>2, <2>3 DEF ConstEnd
<1>6. base + Region <= n /\ ConstEnd(g, base) <= n
  <2>1. ~(base + Region > n) /\ ~(ConstEnd(g, base) > n)  BY DEF TransferVerdict
  <2> HIDE DEF base, n
  <2> QED  BY <1>1, <1>2, <1>4, <1>5, <2>1
<1>7. Len(g.ops) \in Nat  BY GraphFacts
<1>8. /\ Activations(g) \intersect g.const = {}
      /\ Scratch \notin Activations(g) /\ Scratch \notin g.const
  <2>1. g.tensors \subseteq Nat /\ g.const \subseteq g.tensors  BY GraphFacts
  <2> QED  BY <2>1 DEF Activations, Scratch
<1>9. \A s \in ConstSlots(g, base) :
        /\ s.first_use = 0 /\ s.last_use = Len(g.ops)
        /\ \/ s.tensor = Scratch /\ s.offset = base /\ s.size = Region
           \/ /\ s.tensor \in Resident(g) /\ s.tensor \in g.const
              /\ s.offset = at[s.tensor] /\ s.size = AlignUp(g.nbytes[s.tensor])
  BY ConstantKinds
<1>10. \A a, b \in Slots : a.tensor = b.tensor => a = b  BY ActivationsApart
<1>11. \A a, b \in ConstSlots(g, base) : a.tensor = b.tensor => a = b
  BY <1>8, SameConstant
<1> HIDE DEF base, at, n
<1>12. \A s \in ConstSlots(g, base) :
         /\ s.offset \in Nat /\ s.size \in Int /\ SlotEnd(s) \in Int
         /\ base <= s.offset /\ SlotEnd(s) <= n
  <2> SUFFICES ASSUME NEW s \in ConstSlots(g, base)
               PROVE  /\ s.offset \in Nat /\ s.size \in Int /\ SlotEnd(s) \in Int
                      /\ base <= s.offset /\ SlotEnd(s) <= n
    OBVIOUS
  <2>1. CASE s.tensor = Scratch /\ s.offset = base /\ s.size = Region
    BY <1>1, <1>2, <1>4, <1>6, <2>1 DEF SlotEnd
  <2>2. CASE /\ s.tensor \in Resident(g) /\ s.tensor \in g.const
             /\ s.offset = at[s.tensor] /\ s.size = AlignUp(g.nbytes[s.tensor])
    <3> DEFINE o == at[s.tensor]
               z == AlignUp(g.nbytes[s.tensor])
    <3>1. o \in Int /\ o + z \in Int /\ base + Region <= o /\ o + z <= ConstEnd(g, base)
      BY <1>3, <2>2
    <3>2. z \in Int
      <4>1. g.nbytes[s.tensor] \in Int  BY <2>2, GraphFacts
      <4> QED  BY <4>1, AlignUpFacts
    <3>3. s.offset = o /\ SlotEnd(s) = o + z /\ s.size = z  BY <2>2 DEF SlotEnd
    <3> HIDE DEF o, z
    <3> QED  BY <1>1, <1>2, <1>4, <1>5, <1>6, <3>1, <3>2, <3>3
  <2> QED  BY <1>9, <2>1, <2>2
<1>13. SlotsSound(g, slots, n)
  <2>1. ASSUME NEW s \in Slots
        PROVE  /\ s.offset \in Nat /\ s.size \in Int /\ SlotEnd(s) <= n
               /\ s.first_use \in Int /\ s.last_use \in Int
               /\ \A k \in UsedAt(g, s.tensor) : s.first_use <= k /\ k <= s.last_use
    BY <1>1, IntervalSpansUses
  <2>2. ASSUME NEW s \in ConstSlots(g, base)
        PROVE  /\ s.offset \in Nat /\ s.size \in Int /\ SlotEnd(s) <= n
               /\ s.first_use \in Int /\ s.last_use \in Int
               /\ \A k \in UsedAt(g, s.tensor) : s.first_use <= k /\ k <= s.last_use
    <3>1. UsedAt(g, s.tensor) \subseteq 0 .. Len(g.ops)  BY UsesInRange
    <3>2. s.first_use = 0 /\ s.last_use = Len(g.ops)  BY <1>9
    <3>3. \A k \in UsedAt(g, s.tensor) : s.first_use <= k /\ k <= s.last_use
      BY <1>7, <3>1, <3>2
    <3> QED  BY <1>7, <1>12, <3>2, <3>3
  <2>3. \A a \in Slots, b \in ConstSlots(g, base) : a.tensor # b.tensor
    BY <1>1, <1>8, <1>9
  <2>4. slots = Slots \union ConstSlots(g, base)  BY DEF base
  <2>5. \A a, b \in slots : a.tensor = b.tensor => a = b  BY <1>10, <1>11, <2>3, <2>4
  <2> QED  BY <2>1, <2>2, <2>4, <2>5 DEF SlotsSound
<1>14. \A a \in Slots, b \in ConstSlots(g, base) : SlotEnd(a) <= b.offset
  <2> SUFFICES ASSUME NEW a \in Slots, NEW b \in ConstSlots(g, base) PROVE SlotEnd(a) <= b.offset
    OBVIOUS
  <2>1. SlotEnd(a) \in Int /\ SlotEnd(a) <= base  BY <1>1, <1>2
  <2>2. b.offset \in Nat /\ base <= b.offset  BY <1>12
  <2> QED  BY <1>2, <2>1, <2>2
<1>15. \A a, b \in ConstSlots(g, base) : a # b => SlotEnd(a) <= b.offset \/ SlotEnd(b) <= a.offset
  <2> SUFFICES ASSUME NEW a \in ConstSlots(g, base), NEW b \in ConstSlots(g, base), a # b
               PROVE  SlotEnd(a) <= b.offset \/ SlotEnd(b) <= a.offset
    OBVIOUS
  <2>1. a.tensor # b.tensor  BY <1>11
  <2>2. \A s \in ConstSlots(g, base) : s.tensor # Scratch =>
          /\ s.tensor \in Resident(g) /\ s.offset = at[s.tensor] /\ SlotEnd(s) = end(s.tensor)
          /\ base + Region <= s.offset
    BY <1>3, <1>9 DEF SlotEnd
  <2>3. \A s \in ConstSlots(g, base) : s.tensor = Scratch => SlotEnd(s) = base + Region
    BY <1>8, <1>9 DEF SlotEnd
  <2>4. CASE a.tensor = Scratch
    <3>1. SlotEnd(a) = base + Region /\ base + Region <= b.offset  BY <2>1, <2>2, <2>3, <2>4
    <3> QED  BY <3>1
  <2>5. CASE b.tensor = Scratch
    <3>1. SlotEnd(b) = base + Region /\ base + Region <= a.offset  BY <2>1, <2>2, <2>3, <2>5
    <3> QED  BY <3>1
  <2>6. CASE a.tensor # Scratch /\ b.tensor # Scratch
    <3> HIDE DEF end
    <3> QED  BY <1>3, <2>1, <2>2, <2>6
  <2> QED  BY <2>4, <2>5, <2>6
<1>16. ASSUME NEW a \in slots, NEW b \in slots, a # b, Overlaps(a, b)
       PROVE  SlotEnd(a) <= b.offset \/ SlotEnd(b) <= a.offset
  <2>1. slots = Slots \union ConstSlots(g, base)  BY DEF base
  <2>2. CASE a \in Slots /\ b \in Slots  BY <1>16, <2>2, ActivationsApart
  <2> QED  BY <1>14, <1>15, <1>16, <2>1, <2>2
<1> QED  BY <1>13, <1>16 DEF n
-----------------------------------------------------------------------------
(* The plan of an accepted allocation.                                     *)

(* Every transfer is of a tensor read, written, delivered or fed there.    *)
LEMMA StepsAreSound ==
  ASSUME NEW g, IsGraph(g), WellFormed(g), NEW at
  PROVE  StepsSound(g, [i \in DOMAIN g.ops |-> StepOf(g, at, i)])
<1>1. /\ Len(g.ops) \in Nat \ {0} /\ DOMAIN g.ops = 1 .. Len(g.ops)
      /\ \A i \in DOMAIN g.ops : Reads(g.ops[i]) \subseteq g.tensors
                                 /\ Writes(g.ops[i]) \subseteq g.tensors
      /\ g.inputs \subseteq g.tensors /\ g.outputs \subseteq g.tensors
  BY GraphFacts
<1>2. \A i \in DOMAIN g.ops : \A t \in Reads(g.ops[i]) \union Writes(g.ops[i]) :
        i - 1 \in UsedAt(g, t)
  BY DEF UsedAt, TouchedAt
<1>3. \A t \in g.inputs : 0 \in UsedAt(g, t)  BY DEF UsedAt
<1>4. \A t \in g.outputs : Len(g.ops) \in UsedAt(g, t)  BY DEF UsedAt
<1>5. \A t, dir : Transfer(g, at, t, dir).tensor = t  BY DEF Transfer
<1>6. ASSUME NEW i \in DOMAIN g.ops
      PROVE  /\ \A t \in StepOf(g, at, i).dma_in \union StepOf(g, at, i).tiling :
                  t.tensor \in g.tensors /\ i - 1 \in UsedAt(g, t.tensor)
             /\ \A t \in StepOf(g, at, i).dma_out :
                  /\ t.tensor \in g.tensors
                  /\ \/ i - 1 \in UsedAt(g, t.tensor)
                     \/ (i = Len(g.ops) /\ Len(g.ops) \in UsedAt(g, t.tensor))
  <2>1. \A t \in StepOf(g, at, i).dma_in :
          t.tensor \in Reads(g.ops[i]) \/ (i = 1 /\ t.tensor \in g.inputs)
    BY <1>5 DEF StepOf, OneShots, UnreadInputs
  <2>2. \A t \in StepOf(g, at, i).tiling : t.tensor \in Weight(g, g.ops[i])  BY DEF StepOf
  <2>3. Weight(g, g.ops[i]) \subseteq Reads(g.ops[i])  BY DEF Weight, WeightAt, Reads
  <2>4. \A t \in StepOf(g, at, i).dma_out :
          t.tensor \in Writes(g.ops[i]) \/ (i = Len(g.ops) /\ t.tensor \in g.outputs)
    BY <1>5 DEF StepOf, UnwrittenOutputs
  <2>5. i = 1 => i - 1 = 0  OBVIOUS
  <2> QED  BY <1>1, <1>2, <1>3, <1>4, <2>1, <2>2, <2>3, <2>4, <2>5
<1>7. Len([i \in DOMAIN g.ops |-> StepOf(g, at, i)]) = Len(g.ops)  BY <1>1
<1> QED  BY <1>6, <1>7 DEF StepsSound

LEMMA ScheduledFields ==
  ASSUME NEW g, NEW slots
  PROVE  /\ Scheduled(g, slots).steps = [i \in DOMAIN g.ops |-> StepOf(g, Addresses(g, slots), i)]
         /\ Scheduled(g, slots).slots = slots \union ConstSlots(g, ScratchBase(slots))
BY DEF Scheduled

(* A plan whose schedule the compiler found nothing against is sound.      *)
LEMMA CheckedIsSound ==
  ASSUME AllocInv, outcome = "accepted", NEW g, IsGraph(g), WellFormed(g),
         request.ivs = LiveIntervals(g),
         TransferVerdict(g, Slots, request.budget) = "scheduled",
         NEW p, p = Scheduled(g, Slots), CompileVerdict(g, p, request.budget) = "compiled"
  PROVE  PlanSound(g, p, request.budget)
<1>1. /\ p.steps = [i \in DOMAIN g.ops |-> StepOf(g, Addresses(g, Slots), i)]
      /\ p.slots = Slots \union ConstSlots(g, ScratchBase(Slots))
  BY ScheduledFields
<1>2. ~PlanProblems(g, p, request.budget)  BY DEF CompileVerdict
<1>3. SlotsSound(g, p.slots, request.budget)  BY <1>1, PlanSlots
<1>4. StepsSound(g, p.steps)  BY <1>1, StepsAreSound
<1>5. OutputsLeave(g, p.steps)
  <2>1. \A t \in g.outputs : \E i \in DOMAIN p.steps : t \in {x.tensor : x \in p.steps[i].dma_out}
    BY <1>2 DEF PlanProblems
  <2> QED  BY <2>1 DEF OutputsLeave
<1> QED  BY <1>3, <1>4, <1>5 DEF PlanSound
-----------------------------------------------------------------------------
(* What holds from one stage of the compiler to the next.                  *)

Run == {"dma_in", "op", "dma_out"}
Accepted == {"compiled", "finished", "batch", "batch_finished"} \union Run
Planned == {"scheduled"} \union Accepted

RequestInv ==
  /\ graph \in Graphs /\ asked \in [budget : Budgets, policy : Policies]
  /\ stage = "idle" => outcome = "idle"
  /\ outcome = "placing" => stage = "allocating"
  /\ stage \in {"allocating"} \union Planned =>
       WellFormed(graph) /\ request = RequestFor(graph, asked.budget, asked.policy)

ScheduleInv ==
  /\ stage \in Planned =>
       /\ outcome = "accepted" /\ plan = Scheduled(graph, Slots)
       /\ TransferVerdict(graph, Slots, request.budget) = "scheduled"
  /\ stage \in Accepted => CompileVerdict(graph, plan, request.budget) = "compiled"
  /\ stage \in {"idle", "allocating", "scheduled", "compiled"} => written = {} /\ bytes = 0

CompileInv == AllocInv /\ RequestInv /\ ScheduleInv

(* From then on the plan is sound.                                         *)
LEMMA AcceptedIsSound ==
  ASSUME CompileInv, stage \in Accepted
  PROVE  /\ IsGraph(graph) /\ WellFormed(graph)
         /\ PlanSound(graph, plan, request.budget) /\ request.budget \in Int
<1>1. IsGraph(graph)  BY PlanAssumption DEF CompileInv, RequestInv
<1>2. WellFormed(graph) /\ request.ivs = LiveIntervals(graph)
  BY DEF CompileInv, RequestInv, RequestFor, Planned
<1>3. /\ AllocInv /\ outcome = "accepted" /\ plan = Scheduled(graph, Slots)
      /\ TransferVerdict(graph, Slots, request.budget) = "scheduled"
      /\ CompileVerdict(graph, plan, request.budget) = "compiled"
  BY DEF CompileInv, ScheduleInv, Planned
<1>4. PlanSound(graph, plan, request.budget)  BY <1>1, <1>2, <1>3, CheckedIsSound
<1>5. request.budget \in Int  BY <1>3, RequestFacts DEF AllocInv
<1> QED  BY <1>1, <1>2, <1>4, <1>5

(* Where the transfers of each tensor go.                                  *)
PlannedAt == Addresses(graph, Slots)

(* What a plan is made of, whatever the checks on it say.                  *)
LEMMA PlanFacts ==
  ASSUME CompileInv, stage \in Planned
  PROVE  /\ IsGraph(graph) /\ Shaped(graph) /\ WellFormed(graph)
         /\ SlotsSound(graph, plan.slots, request.budget) /\ request.budget \in Int
         /\ ~OverlappingSlots(plan.slots)
         /\ plan.slots = Slots \union ConstSlots(graph, ScratchBase(Slots))
         /\ plan.steps = [i \in DOMAIN graph.ops |-> StepOf(graph, PlannedAt, i)]
         /\ \A s \in Slots : s.tensor \in Activations(graph) /\ graph.nbytes[s.tensor] <= s.size
         /\ \A t \in Activations(graph) : \E s \in Slots : s.tensor = t
<1>1. IsGraph(graph) /\ Shaped(graph)  BY PlanAssumption DEF CompileInv, RequestInv
<1>2. /\ AllocInv /\ outcome = "accepted" /\ plan = Scheduled(graph, Slots)
      /\ request.ivs = LiveIntervals(graph) /\ WellFormed(graph)
      /\ TransferVerdict(graph, Slots, request.budget) = "scheduled"
  BY DEF CompileInv, ScheduleInv, RequestInv, RequestFor, Planned
<1>3. /\ plan.slots = Slots \union ConstSlots(graph, ScratchBase(Slots))
      /\ plan.steps = [i \in DOMAIN graph.ops |-> StepOf(graph, PlannedAt, i)]
  BY <1>2, ScheduledFields DEF PlannedAt
<1>4. /\ \A s \in Slots : s.tensor \in Activations(graph) /\ graph.nbytes[s.tensor] <= s.size
      /\ \A t \in Activations(graph) : \E s \in Slots : s.tensor = t
      /\ request.budget \in Int
  BY <1>1, <1>2, ActivationSlots
<1>5. /\ SlotsSound(graph, plan.slots, request.budget)
      /\ \A a, b \in plan.slots : a # b /\ Overlaps(a, b)
                                    => SlotEnd(a) <= b.offset \/ SlotEnd(b) <= a.offset
  BY <1>1, <1>2, <1>3, PlanSlots
<1>6. ~OverlappingSlots(plan.slots)
  <2>1. ASSUME NEW a \in plan.slots, NEW b \in plan.slots, a # b, Overlaps(a, b)
        PROVE  ~Clash(a, b)
    <3>1. SlotEnd(a) <= b.offset \/ SlotEnd(b) <= a.offset  BY <1>5, <2>1
    <3>2. a.offset \in Int /\ b.offset \in Int /\ a.size \in Int /\ b.size \in Int
      BY <1>5 DEF SlotsSound
    <3>3. SlotEnd(a) \in Int /\ SlotEnd(b) \in Int  BY <3>2 DEF SlotEnd
    <3> QED  BY <3>1, <3>2, <3>3 DEF Clash
  <2> QED  BY <2>1 DEF OverlappingSlots
<1> QED  BY <1>1, <1>2, <1>3, <1>4, <1>5, <1>6

LEMMA CompileInitInv == PlanInit => CompileInv
<1> SUFFICES ASSUME PlanInit PROVE CompileInv
  OBVIOUS
<1>1. AllocInv  BY AllocInitInv DEF PlanInit
<1>2. outcome = "idle" /\ stage = "idle"  BY DEF PlanInit, AllocInit
<1>3. RequestInv  BY <1>2 DEF PlanInit, RequestInv, Accepted, Run, Planned
<1>4. ScheduleInv  BY <1>2 DEF PlanInit, ScheduleInv, Accepted, Run, Planned
<1> QED  BY <1>1, <1>3, <1>4 DEF CompileInv

LEMMA AllocKept ==
  ASSUME AllocInv, UNCHANGED allocVars
  PROVE  AllocInv' /\ Slots' = Slots /\ request' = request /\ outcome' = outcome
<1>1. AllocInv'  BY AllocNextInv
<1>2. Slots' = Slots
  BY DEF allocVars, Slots, SlotOf, Placed, Size, Iv
<1> QED  BY <1>1, <1>2 DEF allocVars

(* A step of the replay or of the batch: only the stage moves on.          *)
LEMMA LaterStageKeeps ==
  ASSUME CompileInv, UNCHANGED <<allocVars, graph, asked, plan>>,
         stage \notin {"idle", "allocating"},
         stage' \notin {"idle", "allocating", "scheduled", "compiled"},
         stage' \in Accepted => stage \in Accepted
  PROVE  CompileInv'
<1>1. /\ AllocInv' /\ Slots' = Slots /\ request' = request /\ outcome' = outcome
      /\ graph' = graph /\ asked' = asked /\ plan' = plan
  BY AllocKept DEF CompileInv
<1>2. stage' \in Planned => stage \in Planned /\ stage \in Accepted  BY DEF Planned
<1>3. RequestInv'  BY <1>1, <1>2 DEF CompileInv, RequestInv
<1>4. ScheduleInv'  BY <1>1, <1>2 DEF CompileInv, ScheduleInv
<1> QED  BY <1>1, <1>3, <1>4 DEF CompileInv

LEMMA CompileKeeps ==
  ASSUME CompileInv, Compile
  PROVE  CompileInv'
<1>1. /\ stage = "idle" /\ outcome = "idle" /\ graph \in Graphs
      /\ asked \in [budget : Budgets, policy : Policies]
      /\ graph' = graph /\ asked' = asked /\ plan' = plan
      /\ written' = written /\ bytes' = bytes /\ written = {} /\ bytes = 0
  BY DEF Compile, CompileInv, RequestInv, ScheduleInv, RunVars
<1>2. CASE WellFormed(graph)
  <2> DEFINE r == RequestFor(graph, asked.budget, asked.policy)
  <2>1. r \in Requests  BY <1>1, <1>2, PlanAssumption
  <2>2. Allocate(r) /\ stage' = "allocating"  BY <1>2 DEF Compile
  <2>3. request' = r  BY <2>2 DEF Allocate
  <2>4. AllocInv'
    <3> HIDE DEF r
    <3> QED  BY <1>1, <2>1, <2>2, AllocateStep DEF CompileInv
  <2>5. RequestInv'  BY <1>1, <1>2, <2>2, <2>3 DEF RequestInv
  <2>6. ScheduleInv'  BY <1>1, <2>2 DEF ScheduleInv, Accepted, Run, Planned
  <2> QED  BY <2>4, <2>5, <2>6 DEF CompileInv
<1>3. CASE ~WellFormed(graph)
  <2>1. stage' = "graph_is_structurally_invalid" /\ UNCHANGED allocVars
    BY <1>3 DEF Compile
  <2>2. AllocInv' /\ outcome' = outcome  BY <2>1, AllocKept DEF CompileInv
  <2>3. RequestInv'  BY <1>1, <2>1, <2>2 DEF RequestInv, Accepted, Run, Planned
  <2>4. ScheduleInv'  BY <1>1, <2>1 DEF ScheduleInv, Accepted, Run, Planned
  <2> QED  BY <2>2, <2>3, <2>4 DEF CompileInv
<1> QED  BY <1>2, <1>3

LEMMA PlaceActivationsKeeps ==
  ASSUME CompileInv, PlaceActivations
  PROVE  CompileInv'
<1>1. /\ graph' = graph /\ asked' = asked /\ plan' = plan /\ stage' = stage
      /\ written' = written /\ bytes' = bytes
  BY DEF PlaceActivations, planVars
<1>2. outcome = "placing"
  <2>1. current # NoTensor => outcome = "placing"  BY DEF CompileInv, AllocInv, AllocTypeOK
  <2> QED  BY <2>1 DEF PlaceActivations, Place, NextTensor, PassBusy, Settle, Answer
<1>3. stage = "allocating"  BY <1>2 DEF CompileInv, RequestInv
<1>4. AllocInv'  BY AllocNextInv DEF PlaceActivations, AllocNext, CompileInv
<1>5. request' = request
  BY DEF PlaceActivations, Place, NextTensor, PassBusy, Settle, Answer
<1>6. RequestInv'  BY <1>1, <1>3, <1>5 DEF CompileInv, RequestInv
<1>7. ScheduleInv'  BY <1>1, <1>3 DEF CompileInv, ScheduleInv, Accepted, Run, Planned
<1> QED  BY <1>4, <1>6, <1>7 DEF CompileInv

LEMMA InsertTransfersKeeps ==
  ASSUME CompileInv, InsertTransfers
  PROVE  CompileInv'
<1>1. /\ stage = "allocating" /\ outcome = "accepted"
      /\ stage' = TransferVerdict(graph, Slots, request.budget)
      /\ plan' = IF stage' = "scheduled" THEN Scheduled(graph, Slots) ELSE NoPlan
      /\ graph' = graph /\ asked' = asked
      /\ written' = written /\ bytes' = bytes
      /\ UNCHANGED allocVars
  BY DEF InsertTransfers, RunVars
<1>2. AllocInv' /\ Slots' = Slots /\ request' = request /\ outcome' = outcome
  BY <1>1, AllocKept DEF CompileInv
<1>3. stage' \in {"budget_too_small_to_double_buffer", "no_VTCM_left_for_weight_streaming",
                  "no_VTCM_left_for_the_resident_consts", "layout_mismatch", "scheduled"}
  BY <1>1 DEF TransferVerdict
<1>4. RequestInv'  BY <1>1, <1>2, <1>3 DEF CompileInv, RequestInv, Accepted, Run, Planned
<1>5. ScheduleInv'  BY <1>1, <1>2, <1>3 DEF CompileInv, ScheduleInv, Accepted, Run, Planned
<1> QED  BY <1>2, <1>4, <1>5 DEF CompileInv

LEMMA CheckPlanKeeps ==
  ASSUME CompileInv, CheckPlan
  PROVE  CompileInv'
<1>1. /\ stage = "scheduled"
      /\ stage' = CompileVerdict(graph, plan, request.budget)
      /\ graph' = graph /\ asked' = asked /\ plan' = plan
      /\ written' = written /\ bytes' = bytes
      /\ UNCHANGED allocVars
  BY DEF CheckPlan, RunVars
<1>2. AllocInv' /\ Slots' = Slots /\ request' = request /\ outcome' = outcome
  BY <1>1, AllocKept DEF CompileInv
<1>3. stage' \in {"allocation_violates_its_invariants", "schedule_violates_its_invariants",
                  "compiled"}
  BY <1>1 DEF CompileVerdict
<1>4. RequestInv'  BY <1>1, <1>2, <1>3 DEF CompileInv, RequestInv, Accepted, Run, Planned
<1>5. ScheduleInv'  BY <1>1, <1>2, <1>3 DEF CompileInv, ScheduleInv, Accepted, Run, Planned
<1> QED  BY <1>2, <1>4, <1>5 DEF CompileInv

(* Everything else happens to an accepted plan.                            *)
LEMMA CompileNextInv == CompileInv /\ [WholeNext]_wholeVars => CompileInv'
<1> SUFFICES ASSUME CompileInv, [WholeNext]_wholeVars PROVE CompileInv'
  OBVIOUS
<1>1. CASE Compile  BY <1>1, CompileKeeps
<1>2. CASE PlaceActivations  BY <1>2, PlaceActivationsKeeps
<1>3. CASE InsertTransfers  BY <1>3, InsertTransfersKeeps
<1>4. CASE CheckPlan  BY <1>4, CheckPlanKeeps
<1>5. CASE StartReplay
  <2>1. /\ stage = "compiled" /\ UNCHANGED <<allocVars, graph, asked, plan>>
        /\ stage' \in {"VTCM_allocation_aliases_live_tensors", "dma_in"}
    BY <1>5 DEF StartReplay
  <2> QED  BY <2>1, LaterStageKeeps DEF Accepted, Run, Planned
<1>6. CASE \/ \E t \in pending : StageIn(t) \/ WriteBack(t)
           \/ StreamWeight \/ RunOp \/ NextStep \/ Deliver
  <2>1. /\ stage \in Run /\ UNCHANGED <<allocVars, graph, asked, plan>>
        /\ stage' \in Run \union {"staging_failed", "tiled_transfer_failed", "op_failed",
                                  "write_back_failed", "output_never_materialized", "finished"}
    <3>1. CASE \E t \in pending : StageIn(t)  BY <3>1 DEF StageIn, Run
    <3>2. CASE \E t \in pending : WriteBack(t)  BY <3>2 DEF WriteBack, Run
    <3>3. CASE StreamWeight  BY <3>3 DEF StreamWeight, Run
    <3>4. CASE RunOp  BY <3>4 DEF RunOp, Run
    <3>5. CASE NextStep  BY <3>5 DEF NextStep, Run
    <3>6. CASE Deliver  BY <3>6 DEF Deliver, Run
    <3> QED  BY <1>6, <3>1, <3>2, <3>3, <3>4, <3>5, <3>6
  <2> QED  BY <2>1, LaterStageKeeps DEF Accepted, Run, Planned
<1>7. CASE \E alias \in BOOLEAN : Pack(alias)
  <2>1. PICK alias \in BOOLEAN : Pack(alias)  BY <1>7
  <2>2. /\ stage = "compiled" /\ UNCHANGED <<allocVars, graph, asked, plan>>
        /\ stage' = PackVerdict(graph, plan, alias)
    BY <2>1 DEF Pack
  <2>3. stage' \in {"a_graph_output_would_be_aliased_away", "one_arena_cannot_hold_both",
                    "activation_retyped", "no_VTCM_slot_in_the_plan",
                    "activation_pairs_share_an_address", "a_reshape_must_preserve_byte_count",
                    "batch"}
    BY <2>2 DEF PackVerdict
  <2> QED  BY <2>2, <2>3, LaterStageKeeps DEF Accepted, Run, Planned
<1>8. CASE RunBatchOp \/ ReadBack
  <2>1. /\ stage = "batch" /\ UNCHANGED <<allocVars, graph, asked, plan>>
        /\ stage' \in {"batch", "batch_finished"}
    BY <1>8 DEF RunBatchOp, ReadBack
  <2> QED  BY <2>1, LaterStageKeeps DEF Accepted, Run, Planned
<1>9. CASE UNCHANGED vars
  <2>1. /\ UNCHANGED <<allocVars, graph, asked, plan>>
        /\ stage' = stage /\ written' = written /\ bytes' = bytes
    BY <1>9 DEF vars, planVars
  <2>2. AllocInv' /\ Slots' = Slots /\ request' = request /\ outcome' = outcome
    BY <2>1, AllocKept DEF CompileInv
  <2>3. RequestInv'  BY <2>1, <2>2 DEF CompileInv, RequestInv
  <2>4. ScheduleInv'  BY <2>1, <2>2 DEF CompileInv, ScheduleInv
  <2> QED  BY <2>2, <2>3, <2>4 DEF CompileInv
<1> QED
  BY <1>1, <1>2, <1>3, <1>4, <1>5, <1>6, <1>7, <1>8, <1>9
  DEF WholeNext, PlanNext, Returned, wholeVars
-----------------------------------------------------------------------------
(* The replay.                                                             *)

(* What was put into VTCM was live before the step, fits its slot, and is  *)
(* intact as long as it is live.                                           *)
Kept ==
  \A s \in plan.slots : s.tensor \in written =>
    /\ s.tensor \in graph.tensors /\ s.first_use <= step - 1
    /\ graph.nbytes[s.tensor] <= s.size
    /\ step - 1 <= s.last_use => Get(s.tensor) = s.tensor

(* The write-backs made so far, in host memory.                            *)
WrittenBack(i, x) == i < step \/ (i = step /\ stage = "dma_out" /\ x \notin pending)

ReplayInv ==
  /\ stage \in Run =>
       /\ step \in DOMAIN graph.ops
       /\ DOMAIN vtcm = 0 .. request.budget - 1
       /\ stage = "dma_in" => pending \subseteq plan.steps[step].dma_in
       /\ stage = "dma_out" => pending \subseteq plan.steps[step].dma_out
       /\ Kept
       /\ \A i \in DOMAIN plan.steps : \A x \in plan.steps[i].dma_out :
            WrittenBack(i, x) => x.tensor \in DOMAIN ddr
  /\ stage \in Run \union {"finished"} => \A t \in DOMAIN ddr : ddr[t] = t
  /\ stage = "finished" => graph.outputs \subseteq DOMAIN ddr

(* What the actions of the replay leave alone.                             *)
LEMMA SlotsKept ==
  ASSUME UNCHANGED <<graph, plan>>
  PROVE  \A t : /\ InImage(t)' = InImage(t) /\ SlotFor(t)' = SlotFor(t)
                /\ Bytes(t)' = Bytes(t) /\ CanPut(t)' = CanPut(t)
BY DEF InImage, SlotFor, Bytes, CanPut, Dense

(* A tensor's slot, where it lies and where it ends.                       *)
LEMMA SlotFacts ==
  ASSUME SlotsSound(graph, plan.slots, request.budget), request.budget \in Int,
         NEW s \in plan.slots, graph.nbytes[s.tensor] \in Nat,
         graph.nbytes[s.tensor] <= s.size
  PROVE  /\ SlotFor(s.tensor) = s
         /\ Bytes(s.tensor) \subseteq 0 .. request.budget - 1
         /\ Bytes(s.tensor) \subseteq s.offset .. SlotEnd(s) - 1
<1>1. SlotFor(s.tensor) = s  BY DEF SlotFor, SlotsSound
<1>2. s.offset \in Nat /\ s.size \in Int /\ SlotEnd(s) <= request.budget
  BY DEF SlotsSound
<1>3. Bytes(s.tensor) = s.offset .. s.offset + graph.nbytes[s.tensor] - 1
  BY <1>1 DEF Bytes
<1>4. SlotEnd(s) = s.offset + s.size  BY DEF SlotEnd
<1> DEFINE low == s.offset
           room == s.size
           n == graph.nbytes[s.tensor]
           budget == request.budget
<1>5. /\ low \in Nat /\ room \in Int /\ n \in Nat /\ budget \in Int
      /\ n <= room /\ low + room <= budget
  BY <1>2, <1>4
<1> HIDE DEF low, room, n, budget
<1>6. low .. low + n - 1 \subseteq 0 .. budget - 1  BY <1>5
<1>7. low .. low + n - 1 \subseteq low .. low + room - 1  BY <1>5
<1>8. Bytes(s.tensor) = low .. low + n - 1  BY <1>3 DEF low, n
<1>9. SlotEnd(s) = low + room  BY <1>4 DEF low, room
<1>10. Bytes(s.tensor) \subseteq 0 .. request.budget - 1
  BY <1>6, <1>8 DEF budget
<1>11. Bytes(s.tensor) \subseteq s.offset .. SlotEnd(s) - 1
  <2>1. low .. SlotEnd(s) - 1 = low .. low + room - 1  BY <1>5, <1>9
  <2>2. Bytes(s.tensor) \subseteq low .. SlotEnd(s) - 1  BY <1>7, <1>8, <2>1
  <2> QED  BY <2>2 DEF low
<1> QED  BY <1>1, <1>10, <1>11

LEMMA SharedByte ==
  ASSUME NEW i \in Int, NEW j \in Int, NEW m \in Int, NEW n \in Int,
         NEW b \in i .. j - 1, b \in m .. n - 1
  PROVE  i < n /\ m < j
OBVIOUS

(* The heart of it: values put at a step into the slots of tensors live    *)
(* there are whole, and no live value put before is touched.               *)
LEMMA PutKeeps ==
  ASSUME SlotsSound(graph, plan.slots, request.budget), request.budget \in Int,
         ~OverlappingSlots(plan.slots), graph.tensors \subseteq Nat,
         \A t \in graph.tensors : graph.nbytes[t] \in Nat,
         step \in Int, DOMAIN vtcm = 0 .. request.budget - 1, Kept,
         NEW f,
         \A t \in DOMAIN f : /\ f[t] = t /\ t \in graph.tensors /\ CanPut(t)
                             /\ step - 1 \in UsedAt(graph, t),
         vtcm' = PutAll(f), written' = written \union DOMAIN f,
         UNCHANGED <<graph, plan, step>>
  PROVE  Kept' /\ DOMAIN vtcm' = DOMAIN vtcm
<1>1. DOMAIN vtcm' = DOMAIN vtcm  BY DEF PutAll
<1>2. \A b \in DOMAIN vtcm :
        vtcm'[b] = IF \E t \in DOMAIN f : b \in Bytes(t)
                   THEN f[CHOOSE t \in DOMAIN f : b \in Bytes(t)] ELSE vtcm[b]
  BY DEF PutAll
<1>3. ASSUME NEW s \in plan.slots, s.tensor \in DOMAIN f
      PROVE  /\ s.tensor \in graph.tensors /\ graph.nbytes[s.tensor] <= s.size
             /\ s.first_use <= step - 1 /\ step - 1 <= s.last_use
  <2>1. SlotFor(s.tensor) = s  BY DEF SlotFor, SlotsSound
  <2> QED  BY <1>3, <2>1 DEF CanPut, SlotsSound
<1>4. ASSUME NEW s \in plan.slots, s.tensor \in written'
      PROVE  /\ s.tensor \in graph.tensors /\ graph.nbytes[s.tensor] <= s.size
             /\ s.first_use <= step - 1
  BY <1>3, <1>4 DEF Kept
<1>5. ASSUME NEW s \in plan.slots, s.tensor \in written', step - 1 <= s.last_use,
             NEW b \in Bytes(s.tensor)
      PROVE  vtcm'[b] = s.tensor
  <2>1. /\ SlotFor(s.tensor) = s
        /\ b \in 0 .. request.budget - 1 /\ b \in s.offset .. SlotEnd(s) - 1
    BY <1>4, <1>5, SlotFacts
  <2>2. CASE \E t \in DOMAIN f : b \in Bytes(t)
    <3>1. PICK u \in DOMAIN f : b \in Bytes(u) /\ vtcm'[b] = f[u]
      BY <1>2, <2>1, <2>2
    <3>2. PICK r \in plan.slots : r.tensor = u  BY <3>1 DEF CanPut, InImage
    <3>3. /\ r.tensor \in graph.tensors /\ graph.nbytes[r.tensor] <= r.size
          /\ r.first_use <= step - 1 /\ step - 1 <= r.last_use
      BY <1>3, <3>2
    <3>4. b \in r.offset .. SlotEnd(r) - 1  BY <3>1, <3>2, <3>3, SlotFacts
    <3>5. /\ s.offset \in Nat /\ s.size \in Int /\ r.offset \in Nat /\ r.size \in Int
          /\ s.first_use \in Int /\ s.last_use \in Int
          /\ r.first_use \in Int /\ r.last_use \in Int
      BY DEF SlotsSound
    <3>6. SlotEnd(r) \in Int /\ SlotEnd(s) \in Int  BY <3>5 DEF SlotEnd
    <3>7. Clash(r, s)
      <4>1. r.offset \in Int /\ s.offset \in Int  BY <3>5
      <4>2. r.offset < SlotEnd(s) /\ s.offset < SlotEnd(r)
        BY <2>1, <3>4, <3>6, <4>1, SharedByte
      <4> QED  BY <4>2 DEF Clash
    <3>8. Overlaps(r, s)
      <4>1. s.first_use <= step - 1 /\ step - 1 <= s.last_use  BY <1>4, <1>5
      <4> QED  BY <3>3, <3>5, <4>1 DEF Overlaps
    <3>9. r = s  BY <3>7, <3>8 DEF OverlappingSlots
    <3> QED  BY <3>1, <3>2, <3>9
  <2>3. CASE ~ \E t \in DOMAIN f : b \in Bytes(t)
    <3>1. s.tensor \in written  BY <1>5, <2>3
    <3>2. Get(s.tensor) = s.tensor  BY <1>5, <3>1 DEF Kept
    <3>3. s.tensor # Junk  BY <1>4, <1>5 DEF Junk
    <3>4. vtcm[b] = s.tensor  BY <3>2, <3>3 DEF Get
    <3> QED  BY <1>2, <2>1, <2>3, <3>4
  <2> QED  BY <2>2, <2>3
<1>6. ASSUME NEW s \in plan.slots, s.tensor \in written', step - 1 <= s.last_use
      PROVE  Get(s.tensor)' = s.tensor
  <2>1. \A b \in Bytes(s.tensor) : vtcm'[b] = s.tensor  BY <1>5, <1>6
  <2>2. Bytes(s.tensor)' = Bytes(s.tensor)  BY SlotsKept
  <2> QED  BY <2>1, <2>2 DEF Get
<1>7. Kept'  BY <1>4, <1>6 DEF Kept
<1> QED  BY <1>1, <1>7
(* What every action of the replay starts from.                            *)
LEMMA RunFacts ==
  ASSUME CompileInv, ReplayInv, stage \in Run
  PROVE  /\ SlotsSound(graph, plan.slots, request.budget) /\ request.budget \in Int
         /\ StepsSound(graph, plan.steps) /\ OutputsLeave(graph, plan.steps)
         /\ ~OverlappingSlots(plan.slots)
         /\ graph.tensors \subseteq Nat /\ \A t \in graph.tensors : graph.nbytes[t] \in Nat
         /\ \A i \in DOMAIN graph.ops : /\ Reads(graph.ops[i]) \subseteq graph.tensors
                                        /\ Writes(graph.ops[i]) \subseteq graph.tensors
         /\ Len(graph.ops) \in Nat /\ DOMAIN graph.ops = 1 .. Len(graph.ops)
         /\ step \in DOMAIN graph.ops /\ step \in Int
         /\ DOMAIN vtcm = 0 .. request.budget - 1 /\ Kept
         /\ \A t \in DOMAIN ddr : ddr[t] = t
<1>1. /\ IsGraph(graph) /\ WellFormed(graph)
      /\ PlanSound(graph, plan, request.budget) /\ request.budget \in Int
  BY AcceptedIsSound DEF Accepted
<1>2. ~OverlappingSlots(plan.slots)  BY PlanFacts DEF Accepted, Planned
<1>3. /\ Len(graph.ops) \in Nat /\ DOMAIN graph.ops = 1 .. Len(graph.ops)
      /\ \A i \in DOMAIN graph.ops : /\ Reads(graph.ops[i]) \subseteq graph.tensors
                                     /\ Writes(graph.ops[i]) \subseteq graph.tensors
      /\ graph.tensors \subseteq Nat /\ \A t \in graph.tensors : graph.nbytes[t] \in Nat
  BY <1>1, GraphFacts
<1>4. step \in DOMAIN graph.ops /\ DOMAIN vtcm = 0 .. request.budget - 1 /\ Kept
      /\ \A t \in DOMAIN ddr : ddr[t] = t
  BY DEF ReplayInv
<1>5. step \in Int  BY <1>3, <1>4
<1> QED  BY <1>1, <1>2, <1>3, <1>4, <1>5 DEF PlanSound

(* A value live at the step and got from VTCM is the right one.            *)
LEMMA GetIsRight ==
  ASSUME SlotsSound(graph, plan.slots, request.budget), Kept, step \in Int,
         NEW t, CanGet(t), NEW k \in UsedAt(graph, t), k \in Int, step - 1 <= k
  PROVE  Get(t) = t
<1>1. PICK s \in plan.slots : s.tensor = t  BY DEF CanGet, InImage
<1>2. k <= s.last_use /\ s.last_use \in Int  BY <1>1 DEF SlotsSound
<1>3. step - 1 <= s.last_use  BY <1>2
<1> QED  BY <1>1, <1>3 DEF Kept, CanGet

LEMMA StartReplayKeeps ==
  ASSUME CompileInv, StartReplay
  PROVE  ReplayInv'
<1>1. CASE OverlappingSlots(plan.slots)
  <2>1. stage' = "VTCM_allocation_aliases_live_tensors"  BY <1>1 DEF StartReplay
  <2> QED  BY <2>1 DEF ReplayInv, Run
<1>2. CASE ~OverlappingSlots(plan.slots)
  <2>1. /\ stage = "compiled" /\ stage' = "dma_in" /\ step' = 1
        /\ pending' = plan.steps[1].dma_in
        /\ vtcm' = [b \in 0 .. request.budget - 1 |-> Junk]
        /\ ddr' = [t \in graph.inputs \union graph.const |-> t]
        /\ written' = written /\ UNCHANGED allocVars
        /\ graph' = graph /\ plan' = plan
    BY <1>2 DEF StartReplay
  <2>2. written' = {} /\ request' = request
    BY <2>1 DEF CompileInv, ScheduleInv, allocVars
  <2>3. IsGraph(graph) /\ WellFormed(graph) /\ StepsSound(graph, plan.steps)
    BY <2>1, AcceptedIsSound DEF Accepted, PlanSound
  <2>4. step' \in DOMAIN graph.ops /\ DOMAIN plan.steps = 1 .. Len(graph.ops)
    BY <2>1, <2>3, GraphFacts DEF StepsSound
  <2>5. DOMAIN vtcm' = 0 .. request.budget - 1  BY <2>1
  <2>6. Kept'  BY <2>2 DEF Kept
  <2>7. \A t \in DOMAIN ddr' : ddr'[t] = t  BY <2>1
  <2>8. pending' \subseteq plan.steps[step'].dma_in  BY <2>1
  <2>9. \A i \in DOMAIN plan.steps : \A x \in plan.steps[i].dma_out : ~WrittenBack(i, x)'
    BY <2>1, <2>4 DEF WrittenBack
  <2> QED  BY <2>1, <2>2, <2>4, <2>5, <2>6, <2>7, <2>8, <2>9 DEF ReplayInv
<1> QED  BY <1>1, <1>2

(* A transfer in: the tensor is used at this step, and host memory has it. *)
LEMMA StageInKeeps ==
  ASSUME CompileInv, ReplayInv, NEW t \in pending, StageIn(t)
  PROVE  ReplayInv'
<1>1. /\ stage = "dma_in" /\ pending' = pending \ {t} /\ UNCHANGED allocVars
      /\ graph' = graph /\ plan' = plan /\ step' = step /\ ddr' = ddr
  BY DEF StageIn
<1>2. stage \in Run /\ request' = request  BY <1>1 DEF Run, allocVars
<1>3. CASE Disagrees(t) \/ t.tensor \notin DOMAIN ddr \/ ~CanPut(t.tensor)
  <2>1. stage' = "staging_failed"  BY <1>3 DEF StageIn
  <2> QED  BY <2>1 DEF ReplayInv, Run
<1>4. CASE ~(Disagrees(t) \/ t.tensor \notin DOMAIN ddr \/ ~CanPut(t.tensor))
  <2> DEFINE f == [u \in {t.tensor} |-> ddr[u]]
  <2>1. /\ vtcm' = PutAll(f) /\ written' = written \union {t.tensor} /\ stage' = stage
    BY <1>4 DEF StageIn
  <2>2. t \in plan.steps[step].dma_in  BY <1>1, <1>2 DEF ReplayInv
  <2>3. /\ SlotsSound(graph, plan.slots, request.budget) /\ request.budget \in Int
        /\ StepsSound(graph, plan.steps) /\ ~OverlappingSlots(plan.slots)
        /\ graph.tensors \subseteq Nat /\ \A u \in graph.tensors : graph.nbytes[u] \in Nat
        /\ step \in DOMAIN graph.ops /\ step \in Int
        /\ DOMAIN vtcm = 0 .. request.budget - 1 /\ Kept
        /\ \A u \in DOMAIN ddr : ddr[u] = u
    BY <1>2, RunFacts
  <2>4. t.tensor \in graph.tensors /\ step - 1 \in UsedAt(graph, t.tensor)
    BY <2>2, <2>3 DEF StepsSound
  <2>5. /\ DOMAIN f = {t.tensor}
        /\ \A u \in DOMAIN f : /\ f[u] = u /\ u \in graph.tensors /\ CanPut(u)
                               /\ step - 1 \in UsedAt(graph, u)
    BY <1>4, <2>3, <2>4
  <2> HIDE DEF f
  <2>6. Kept' /\ DOMAIN vtcm' = DOMAIN vtcm  BY <1>1, <2>1, <2>3, <2>5, PutKeeps
  <2>7. pending' \subseteq plan'.steps[step'].dma_in  BY <1>1, <1>2 DEF ReplayInv
  <2>8. \A i \in DOMAIN plan.steps : \A x \in plan.steps[i].dma_out :
          WrittenBack(i, x)' => WrittenBack(i, x)
    BY <1>1, <2>1 DEF WrittenBack
  <2> QED  BY <1>1, <1>2, <2>1, <2>3, <2>6, <2>7, <2>8 DEF ReplayInv
<1> QED  BY <1>3, <1>4

(* The weight of a tiled op, if it has a slot at all.                      *)
LEMMA StreamWeightKeeps ==
  ASSUME CompileInv, ReplayInv, StreamWeight
  PROVE  ReplayInv'
<1>1. /\ stage = "dma_in" /\ UNCHANGED allocVars /\ pending' = pending
      /\ graph' = graph /\ plan' = plan /\ step' = step /\ ddr' = ddr
  BY DEF StreamWeight
<1>2. stage \in Run /\ request' = request  BY <1>1 DEF Run, allocVars
<1> DEFINE fails == \E w \in plan.steps[step].tiling :
                      \/ w.count * w.nbytes < graph.nbytes[w.tensor]
                      \/ w.tensor \notin DOMAIN ddr
                      \/ InImage(w.tensor) /\ ~CanPut(w.tensor)
           put == {w.tensor : w \in {x \in plan.steps[step].tiling : InImage(x.tensor)}}
           f == [t \in put |-> ddr[t]]
<1>3. CASE fails
  <2>1. stage' = "tiled_transfer_failed"  BY <1>3 DEF StreamWeight
  <2> QED  BY <2>1 DEF ReplayInv, Run
<1>4. CASE ~fails
  <2>1. vtcm' = PutAll(f) /\ written' = written \union put /\ stage' = "op"
    BY <1>4 DEF StreamWeight
  <2>3. /\ SlotsSound(graph, plan.slots, request.budget) /\ request.budget \in Int
        /\ StepsSound(graph, plan.steps) /\ ~OverlappingSlots(plan.slots)
        /\ graph.tensors \subseteq Nat /\ \A u \in graph.tensors : graph.nbytes[u] \in Nat
        /\ step \in DOMAIN graph.ops /\ step \in Int
        /\ DOMAIN vtcm = 0 .. request.budget - 1 /\ Kept
        /\ \A u \in DOMAIN ddr : ddr[u] = u
    BY <1>2, RunFacts
  <2>4. \A t \in put : /\ t \in graph.tensors /\ step - 1 \in UsedAt(graph, t)
                       /\ t \in DOMAIN ddr /\ CanPut(t)
    BY <1>4, <2>3 DEF StepsSound
  <2>5. /\ DOMAIN f = put
        /\ \A u \in DOMAIN f : /\ f[u] = u /\ u \in graph.tensors /\ CanPut(u)
                               /\ step - 1 \in UsedAt(graph, u)
    BY <2>3, <2>4
  <2> HIDE DEF f, put, fails
  <2>6. Kept' /\ DOMAIN vtcm' = DOMAIN vtcm  BY <1>1, <2>1, <2>3, <2>5, PutKeeps
  <2>8. \A i \in DOMAIN plan.steps : \A x \in plan.steps[i].dma_out :
          WrittenBack(i, x)' => WrittenBack(i, x)
    BY <1>1, <2>1 DEF WrittenBack
  <2> QED  BY <1>1, <1>2, <2>1, <2>3, <2>6, <2>8 DEF ReplayInv
<1> QED  BY <1>3, <1>4
(* An op that can run has the right value of each operand, and its results *)
(* are as right.                                                           *)
LEMMA RunOpKeeps ==
  ASSUME CompileInv, ReplayInv, RunOp
  PROVE  ReplayInv'
<1> DEFINE op == graph.ops[step]
           right == \A t \in Reads(op) : ReadInput(t) = t
           value(t) == IF right THEN t ELSE Junk
           slotted == {t \in Writes(op) : InImage(t)}
           fails == (\E t \in Reads(op) : ~CanRead(t)) \/ (\E t \in slotted : ~CanPut(t))
           f == [t \in slotted |-> value(t)]
<1>1. /\ stage = "op" /\ UNCHANGED allocVars
      /\ graph' = graph /\ plan' = plan /\ step' = step
  BY DEF RunOp
<1>2. stage \in Run /\ request' = request  BY <1>1 DEF Run, allocVars
<1>3. CASE fails
  <2>1. stage' = "op_failed"  BY <1>3 DEF RunOp
  <2> QED  BY <2>1 DEF ReplayInv, Run
<1>4. CASE ~fails
  <2>1. /\ stage' = "dma_out" /\ vtcm' = PutAll(f) /\ written' = written \union slotted
        /\ ddr' = [t \in DOMAIN ddr \union (Writes(op) \ slotted) |->
                     IF t \in DOMAIN ddr THEN ddr[t] ELSE value(t)]
        /\ pending' = plan.steps[step].dma_out
    BY <1>4 DEF RunOp
  <2>2. /\ SlotsSound(graph, plan.slots, request.budget) /\ request.budget \in Int
        /\ ~OverlappingSlots(plan.slots)
        /\ graph.tensors \subseteq Nat /\ \A u \in graph.tensors : graph.nbytes[u] \in Nat
        /\ step \in DOMAIN graph.ops /\ step \in Int
        /\ Reads(op) \subseteq graph.tensors /\ Writes(op) \subseteq graph.tensors
        /\ DOMAIN vtcm = 0 .. request.budget - 1 /\ Kept
        /\ \A u \in DOMAIN ddr : ddr[u] = u
    BY <1>2, RunFacts
  <2>3. \A t \in Reads(op) \union Writes(op) : step - 1 \in UsedAt(graph, t)
    BY <2>2 DEF UsedAt, TouchedAt
  <2>4. right
    <3> SUFFICES ASSUME NEW t \in Reads(op) PROVE ReadInput(t) = t
      OBVIOUS
    <3>1. CanRead(t) /\ step - 1 \in UsedAt(graph, t) /\ step - 1 \in Int /\ step - 1 <= step - 1
      BY <1>4, <2>2, <2>3
    <3>2. CanGet(t) => Get(t) = t  BY <2>2, <3>1, GetIsRight
    <3> QED  BY <2>2, <3>1, <3>2 DEF CanRead, ReadInput
  <2>5. /\ DOMAIN f = slotted
        /\ \A u \in DOMAIN f : /\ f[u] = u /\ u \in graph.tensors /\ CanPut(u)
                               /\ step - 1 \in UsedAt(graph, u)
    BY <1>4, <2>2, <2>3, <2>4
  <2>6. /\ \A t \in DOMAIN ddr' : ddr'[t] = t
        /\ DOMAIN ddr \subseteq DOMAIN ddr'
    <3>1. \A t : value(t) = t  BY <2>4
    <3> HIDE DEF value, slotted, op
    <3> QED  BY <2>1, <2>2, <3>1
  <2> HIDE DEF f, slotted, fails, op, right, value
  <2>7. Kept' /\ DOMAIN vtcm' = DOMAIN vtcm  BY <1>1, <2>1, <2>2, <2>5, PutKeeps
  <2>8. ASSUME NEW i \in DOMAIN plan.steps, NEW x \in plan.steps[i].dma_out, WrittenBack(i, x)'
        PROVE  x.tensor \in DOMAIN ddr'
    <3>1. i < step  BY <1>1, <2>1, <2>8 DEF WrittenBack
    <3> QED  BY <1>2, <2>6, <3>1 DEF ReplayInv, WrittenBack
  <2> QED  BY <1>1, <1>2, <2>1, <2>2, <2>6, <2>7, <2>8 DEF ReplayInv
<1> QED  BY <1>3, <1>4

LEMMA WriteBackKeeps ==
  ASSUME CompileInv, ReplayInv, NEW t \in pending, WriteBack(t)
  PROVE  ReplayInv'
<1>1. /\ stage = "dma_out" /\ pending' = pending \ {t} /\ UNCHANGED allocVars
      /\ graph' = graph /\ plan' = plan /\ step' = step
      /\ vtcm' = vtcm /\ written' = written
  BY DEF WriteBack
<1>2. stage \in Run /\ request' = request  BY <1>1 DEF Run, allocVars
<1>3. CASE Disagrees(t) \/ ~CanGet(t.tensor)
  <2>1. stage' = "write_back_failed"  BY <1>3 DEF WriteBack
  <2> QED  BY <2>1 DEF ReplayInv, Run
<1>4. CASE ~(Disagrees(t) \/ ~CanGet(t.tensor))
  <2>1. ddr' = Hold(ddr, t.tensor, Get(t.tensor)) /\ stage' = stage
    BY <1>4 DEF WriteBack
  <2>2. t \in plan.steps[step].dma_out  BY <1>1, <1>2 DEF ReplayInv
  <2>3. /\ SlotsSound(graph, plan.slots, request.budget)
        /\ StepsSound(graph, plan.steps)
        /\ Len(graph.ops) \in Nat /\ DOMAIN graph.ops = 1 .. Len(graph.ops)
        /\ step \in DOMAIN graph.ops /\ step \in Int
        /\ DOMAIN vtcm = 0 .. request.budget - 1 /\ Kept
        /\ \A u \in DOMAIN ddr : ddr[u] = u
    BY <1>2, RunFacts
  <2>4. Get(t.tensor) = t.tensor
    <3>1. \E k \in UsedAt(graph, t.tensor) : k \in Int /\ step - 1 <= k
      <4>1. CASE step - 1 \in UsedAt(graph, t.tensor)  BY <2>3, <4>1
      <4>2. CASE step = Len(graph.ops) /\ Len(graph.ops) \in UsedAt(graph, t.tensor)
        BY <2>3, <4>2
      <4> QED  BY <2>2, <2>3, <4>1, <4>2 DEF StepsSound
    <3> QED  BY <1>4, <2>3, <3>1, GetIsRight
  <2>5. DOMAIN ddr' = DOMAIN ddr \union {t.tensor} /\ \A u \in DOMAIN ddr' : ddr'[u] = u
    BY <2>1, <2>3, <2>4 DEF Hold
  <2>6. Kept'
    <3>1. \A u : Get(u)' = Get(u)  BY <1>1, SlotsKept DEF Get
    <3> QED  BY <1>1, <2>3, <3>1 DEF Kept
  <2>7. ASSUME NEW i \in DOMAIN plan.steps, NEW x \in plan.steps[i].dma_out, WrittenBack(i, x)'
        PROVE  x.tensor \in DOMAIN ddr'
    <3>1. WrittenBack(i, x) \/ x = t  BY <1>1, <2>1, <2>7 DEF WrittenBack
    <3> QED  BY <1>2, <2>5, <3>1 DEF ReplayInv
  <2>8. pending' \subseteq plan.steps[step].dma_out  BY <1>1, <1>2 DEF ReplayInv
  <2> QED  BY <1>1, <1>2, <2>1, <2>3, <2>5, <2>6, <2>7, <2>8 DEF ReplayInv
<1> QED  BY <1>3, <1>4

(* The next step: what dies with this one need not be kept any longer.     *)
LEMMA NextStepKeeps ==
  ASSUME CompileInv, ReplayInv, NextStep
  PROVE  ReplayInv'
<1>1. /\ stage = "dma_out" /\ pending = {} /\ step < Len(plan.steps)
      /\ step' = step + 1 /\ pending' = plan.steps[step + 1].dma_in /\ stage' = "dma_in"
      /\ graph' = graph /\ plan' = plan /\ vtcm' = vtcm /\ written' = written
      /\ ddr' = ddr /\ UNCHANGED allocVars
  BY DEF NextStep
<1>2. stage \in Run /\ request' = request  BY <1>1 DEF Run, allocVars
<1>3. /\ SlotsSound(graph, plan.slots, request.budget)
      /\ StepsSound(graph, plan.steps)
      /\ Len(graph.ops) \in Nat /\ DOMAIN graph.ops = 1 .. Len(graph.ops)
      /\ step \in DOMAIN graph.ops /\ step \in Int
      /\ DOMAIN vtcm = 0 .. request.budget - 1 /\ Kept
      /\ \A u \in DOMAIN ddr : ddr[u] = u
  BY <1>2, RunFacts
<1>4. step' \in DOMAIN graph.ops  BY <1>1, <1>3 DEF StepsSound
<1>5. Kept'
  <2>1. \A u : Get(u)' = Get(u)  BY <1>1, SlotsKept DEF Get
  <2> SUFFICES ASSUME NEW s \in plan.slots, s.tensor \in written
               PROVE  /\ s.tensor \in graph.tensors /\ s.first_use <= step' - 1
                      /\ graph.nbytes[s.tensor] <= s.size
                      /\ step' - 1 <= s.last_use => Get(s.tensor) = s.tensor
    BY <1>1, <2>1 DEF Kept
  <2>2. s.first_use \in Int /\ s.last_use \in Int  BY <1>3 DEF SlotsSound
  <2>3. /\ s.tensor \in graph.tensors /\ s.first_use <= step - 1
        /\ graph.nbytes[s.tensor] <= s.size
        /\ step - 1 <= s.last_use => Get(s.tensor) = s.tensor
    BY <1>3 DEF Kept
  <2> QED  BY <1>1, <1>3, <2>2, <2>3
<1>6. ASSUME NEW i \in DOMAIN plan.steps, NEW x \in plan.steps[i].dma_out, WrittenBack(i, x)'
      PROVE  x.tensor \in DOMAIN ddr
  <2>1. i \in Int  BY <1>3 DEF StepsSound
  <2>2. WrittenBack(i, x)  BY <1>1, <1>3, <1>6, <2>1 DEF WrittenBack
  <2> QED  BY <1>2, <2>2 DEF ReplayInv
<1> QED  BY <1>1, <1>2, <1>3, <1>4, <1>5, <1>6 DEF ReplayInv

LEMMA DeliverKeeps ==
  ASSUME CompileInv, ReplayInv, Deliver
  PROVE  ReplayInv'
<1>1. /\ stage = "dma_out" /\ pending = {} /\ step = Len(plan.steps)
      /\ stage' \in {"finished", "output_never_materialized"}
      /\ graph' = graph /\ plan' = plan /\ ddr' = ddr
  BY DEF Deliver, RunVars
<1>2. stage \in Run  BY <1>1 DEF Run
<1>3. /\ StepsSound(graph, plan.steps) /\ OutputsLeave(graph, plan.steps)
      /\ Len(graph.ops) \in Nat /\ DOMAIN graph.ops = 1 .. Len(graph.ops)
      /\ \A u \in DOMAIN ddr : ddr[u] = u
  BY <1>2, RunFacts
<1>4. ASSUME NEW t \in graph.outputs PROVE t \in DOMAIN ddr
  <2>1. PICK i \in DOMAIN plan.steps : \E x \in plan.steps[i].dma_out : x.tensor = t
    BY <1>3 DEF OutputsLeave
  <2>2. PICK x \in plan.steps[i].dma_out : x.tensor = t  BY <2>1
  <2>3. i \in 1 .. Len(graph.ops) /\ step = Len(graph.ops)  BY <1>1, <1>3 DEF StepsSound
  <2>4. WrittenBack(i, x)  BY <1>1, <1>3, <2>3 DEF WrittenBack
  <2> QED  BY <1>2, <2>2, <2>4 DEF ReplayInv
<1> QED  BY <1>1, <1>3, <1>4 DEF ReplayInv, Run

LEMMA ReplayNextInv == CompileInv /\ ReplayInv /\ [WholeNext]_wholeVars => ReplayInv'
<1> SUFFICES ASSUME CompileInv, ReplayInv, [WholeNext]_wholeVars PROVE ReplayInv'
  OBVIOUS
<1>1. CASE Compile
  <2>1. stage' \in {"allocating", "graph_is_structurally_invalid"}  BY <1>1 DEF Compile
  <2> QED  BY <2>1 DEF ReplayInv, Run
<1>2. CASE PlaceActivations
  <2>1. stage' = "allocating"
    <3>1. current # NoTensor => outcome = "placing"  BY DEF CompileInv, AllocInv, AllocTypeOK
    <3>2. outcome = "placing" /\ stage' = stage
      BY <1>2, <3>1 DEF PlaceActivations, Place, NextTensor, PassBusy, Settle, Answer, planVars
    <3> QED  BY <3>2 DEF CompileInv, RequestInv
  <2> QED  BY <2>1 DEF ReplayInv, Run
<1>3. CASE InsertTransfers
  <2>1. stage' \in {"budget_too_small_to_double_buffer", "no_VTCM_left_for_weight_streaming",
                    "no_VTCM_left_for_the_resident_consts", "layout_mismatch", "scheduled"}
    BY <1>3 DEF InsertTransfers, TransferVerdict
  <2> QED  BY <2>1 DEF ReplayInv, Run
<1>4. CASE CheckPlan
  <2>1. stage' \in {"allocation_violates_its_invariants",
                    "schedule_violates_its_invariants", "compiled"}
    BY <1>4 DEF CheckPlan, CompileVerdict
  <2> QED  BY <2>1 DEF ReplayInv, Run
<1>5. CASE StartReplay  BY <1>5, StartReplayKeeps
<1>6. CASE \E t \in pending : StageIn(t)  BY <1>6, StageInKeeps
<1>7. CASE StreamWeight  BY <1>7, StreamWeightKeeps
<1>8. CASE RunOp  BY <1>8, RunOpKeeps
<1>9. CASE \E t \in pending : WriteBack(t)  BY <1>9, WriteBackKeeps
<1>10. CASE NextStep  BY <1>10, NextStepKeeps
<1>11. CASE Deliver  BY <1>11, DeliverKeeps
<1>12. CASE (\E alias \in BOOLEAN : Pack(alias)) \/ RunBatchOp \/ ReadBack
  <2>1. stage' \in {"a_graph_output_would_be_aliased_away", "one_arena_cannot_hold_both",
                    "activation_retyped", "no_VTCM_slot_in_the_plan",
                    "activation_pairs_share_an_address", "a_reshape_must_preserve_byte_count",
                    "batch", "batch_finished"}
    BY <1>12 DEF Pack, PackVerdict, RunBatchOp, ReadBack
  <2> QED  BY <2>1 DEF ReplayInv, Run
<1>13. CASE UNCHANGED vars
  <2>1. /\ graph' = graph /\ plan' = plan /\ stage' = stage /\ step' = step
        /\ pending' = pending /\ vtcm' = vtcm /\ written' = written /\ ddr' = ddr
        /\ request' = request
    BY <1>13 DEF vars, planVars, allocVars
  <2>2. \A u : Get(u)' = Get(u)  BY <2>1, SlotsKept DEF Get
  <2>3. Kept' = Kept  BY <2>1, <2>2 DEF Kept
  <2>4. \A i, x : WrittenBack(i, x)' = WrittenBack(i, x)  BY <2>1 DEF WrittenBack
  <2> QED  BY <2>1, <2>3, <2>4 DEF ReplayInv
<1> QED
  BY <1>1, <1>2, <1>3, <1>4, <1>5, <1>6, <1>7, <1>8, <1>9, <1>10, <1>11, <1>12, <1>13
  DEF WholeNext, PlanNext, Returned, wholeVars

(* The compiler's and the replay's invariants, in every reachable state.   *)
LEMMA PlanInvariant == WholeSpec => [](CompileInv /\ ReplayInv)
<1>1. WholeInit => CompileInv /\ ReplayInv
  <2>1. PlanInit => stage = "idle"  BY DEF PlanInit
  <2> QED  BY <2>1, CompileInitInv DEF WholeInit, ReplayInv, Run
<1> QED  BY <1>1, CompileNextInv, ReplayNextInv, PTL DEF WholeSpec

(* Between any two actions of a replay, every value put into VTCM that is  *)
(* still live is intact, for every graph, budget, policy and chunk size.   *)
THEOREM LiveValuesSurvive == WholeSpec => []LiveBytesKept
<1>1. ReplayInv => LiveBytesKept
  BY DEF ReplayInv, Kept, LiveBytesKept, Replaying, Run
<1> QED  BY <1>1, PlanInvariant, PTL

(* What a replay that finishes has delivered.                              *)
ReplayRight == stage = "finished" => \A t \in graph.outputs : t \in DOMAIN ddr /\ ddr[t] = t

(* A replay that finishes has delivered every output, each the right value *)
(* of its tensor, computed from right operands.                            *)
THEOREM ReplayComputes == WholeSpec => []ReplayRight
<1>1. ReplayInv => ReplayRight
  BY DEF ReplayInv, ReplayRight, Run
<1> QED  BY <1>1, PlanInvariant, PTL
-----------------------------------------------------------------------------
(* An ordinary graph's plan can be replayed.                               *)

Replayable(g) == Ordinary(g) /\ BlocksStreamed(g)

(* The tensor has a slot, where the transfers of it go, and fits it.       *)
Housed(t) ==
  /\ InImage(t) /\ SlotFor(t).offset = PlannedAt[t]
  /\ graph.nbytes[t] <= SlotFor(t).size

(* Every activation is housed, every constant an op reads whole is too,    *)
(* and no streamed weight is.                                              *)
LEMMA WhoIsHoused ==
  ASSUME CompileInv, stage \in Planned
  PROVE  /\ \A t \in Activations(graph) : Housed(t)
         /\ \A c \in ReadConsts(graph) \ Weights(graph) : Housed(c)
         /\ \A w \in Weights(graph) : ~InImage(w)
<1> DEFINE base == ScratchBase(Slots)
           acts == {s.tensor : s \in Slots}
           consts == ConstOffsets(graph, base)
<1>1. /\ IsGraph(graph) /\ WellFormed(graph)
      /\ \A a, b \in plan.slots : a.tensor = b.tensor => a = b
      /\ plan.slots = Slots \union ConstSlots(graph, base)
      /\ \A s \in Slots : s.tensor \in Activations(graph) /\ graph.nbytes[s.tensor] <= s.size
      /\ \A t \in Activations(graph) : \E s \in Slots : s.tensor = t
  BY PlanFacts DEF SlotsSound
<1>2. acts = Activations(graph)  BY <1>1
<1>3. DOMAIN consts = ReadConsts(graph)  BY DEF ConstOffsets
<1>4. /\ Activations(graph) \intersect graph.const = {}
      /\ ReadConsts(graph) \subseteq graph.const /\ graph.const \subseteq Nat
      /\ \A c \in graph.const : graph.nbytes[c] \in Int
  BY <1>1, GraphFacts DEF Activations, ReadConsts
<1>5. PlannedAt = [t \in acts \union DOMAIN consts |->
                     IF t \in acts THEN (CHOOSE s \in Slots : s.tensor = t).offset
                     ELSE consts[t]]
  BY DEF PlannedAt, Addresses
<1>6. \A s \in plan.slots : SlotFor(s.tensor) = s /\ InImage(s.tensor)
  BY <1>1 DEF SlotFor, InImage
<1> HIDE DEF base, acts, consts
<1>7. ASSUME NEW t \in Activations(graph) PROVE Housed(t)
  <2>1. PICK s \in Slots : s.tensor = t  BY <1>1
  <2>2. s \in plan.slots /\ SlotFor(t) = s /\ InImage(t) /\ graph.nbytes[t] <= s.size
    BY <1>1, <1>6, <2>1
  <2>3. (CHOOSE r \in Slots : r.tensor = t) = s  BY <1>1, <2>1
  <2>4. PlannedAt[t] = s.offset  BY <1>2, <1>5, <2>3
  <2> QED  BY <2>2, <2>4 DEF Housed
<1>8. ASSUME NEW c \in ReadConsts(graph) \ Weights(graph) PROVE Housed(c)
  <2> DEFINE s == WholePlan(graph, c, consts[c], AlignUp(graph.nbytes[c]))
  <2>1. s \in ConstSlots(graph, base)  BY DEF ConstSlots, consts
  <2>2. s.tensor = c /\ s.offset = consts[c] /\ s.size = AlignUp(graph.nbytes[c])
    BY DEF WholePlan
  <2> HIDE DEF s
  <2>3. s \in plan.slots /\ SlotFor(c) = s /\ InImage(c)  BY <1>1, <1>6, <2>1, <2>2
  <2>4. c \notin acts /\ c \in DOMAIN consts  BY <1>2, <1>3, <1>4
  <2>5. PlannedAt[c] = s.offset  BY <1>5, <2>2, <2>4
  <2>6. graph.nbytes[c] <= AlignUp(graph.nbytes[c])
    <3>1. graph.nbytes[c] \in Int  BY <1>4
    <3> QED  BY <3>1, AlignUpFacts
  <2> QED  BY <2>2, <2>3, <2>5, <2>6 DEF Housed
<1>9. ASSUME NEW w \in Weights(graph) PROVE ~InImage(w)
  <2>1. w \in graph.const
    <3>1. \A op : Weight(graph, op) \subseteq graph.const  BY DEF Weight, WeightAt
    <3> QED  BY <3>1 DEF Weights
  <2>2. \A s \in Slots : s.tensor # w  BY <1>1, <1>4, <2>1
  <2>3. \A s \in ConstSlots(graph, base) :
          s.tensor = Scratch \/ s.tensor \in ReadConsts(graph) \ Weights(graph)
    BY DEF ConstSlots, WholePlan
  <2>4. w # Scratch  BY <1>4, <2>1 DEF Scratch
  <2> QED  BY <1>1, <2>2, <2>3, <2>4 DEF InImage
<1> QED  BY <1>7, <1>8, <1>9
(* The chunks a weight is streamed in cover it.                            *)
LEMMA ChunksCover ==
  ASSUME NEW n \in Nat \ {0}, NEW c \in Nat \ {0}
  PROVE  n <= ((n + c - 1) \div c) * (IF n < c THEN n ELSE c)
<1> DEFINE q == (n + c - 1) \div c
           r == (n + c - 1) % c
           m == IF n < c THEN n ELSE c
<1>1. q \in Int /\ r \in 0 .. c - 1 /\ n + c - 1 = c * q + r  OBVIOUS
<1>2. CASE n < c
  <2>1. q = 1  BY <1>2
  <2>2. q * m = n  BY <1>2, <2>1
  <2> QED  BY <2>2
<1>3. CASE ~(n < c)
  <2>1. m = c  BY <1>3
  <2>2. q * m = c * q  BY <1>1, <2>1
  <2> HIDE DEF q, m, r
  <2> DEFINE k == c * q
  <2>3. k \in Int  BY <1>1
  <2>4. n + c - 1 = k + r /\ r <= c - 1  BY <1>1
  <2> HIDE DEF k
  <2>5. n <= k  BY <1>1, <2>3, <2>4
  <2> QED  BY <2>2, <2>5 DEF k, q, m
<1> QED  BY <1>2, <1>3

(* Where the operands of an op come from.                                  *)
LEMMA OperandsCome ==
  ASSUME NEW g, WellFormed(g), NEW i \in DOMAIN g.ops
  PROVE  /\ \A t \in Reads(g.ops[i]) :
              t \in g.inputs \union g.const \/ \E j \in 1 .. i - 1 : t \in Writes(g.ops[j])
         /\ \A t \in Writes(g.ops[i]) : t \in Activations(g) /\ t \notin g.inputs \union g.const
<1>1. /\ Reads(g.ops[i]) \subseteq WrittenBefore(g, i)
      /\ Writes(g.ops[i]) \subseteq g.tensors \ WrittenBefore(g, i)
  BY DEF WellFormed
<1>2. \A t \in Writes(g.ops[i]) : i - 1 \in TouchedAt(g, t)  BY DEF TouchedAt
<1> QED  BY <1>1, <1>2 DEF WrittenBefore, Activations

(* The transfers of an ordinary graph's step are of what has a place.      *)
LEMMA TransfersHoused ==
  ASSUME CompileInv, stage \in Planned, Ordinary(graph), NEW i \in DOMAIN graph.ops
  PROVE  /\ \A t \in plan.steps[i].dma_in :
              /\ t.tensor \in graph.inputs \union graph.const /\ Housed(t.tensor)
              /\ t.at = PlannedAt[t.tensor] /\ t = Transfer(graph, PlannedAt, t.tensor, "in")
              /\ BlocksStreamed(graph) => Dense(t.tensor)
         /\ \A w \in plan.steps[i].tiling :
              /\ w.tensor \in graph.const /\ ~InImage(w.tensor)
              /\ graph.nbytes[w.tensor] <= w.count * w.nbytes
         /\ \A t \in Writes(graph.ops[i]) : Housed(t) /\ (BlocksStreamed(graph) => Dense(t))
         /\ \A t \in plan.steps[i].dma_out :
              /\ t.tensor \in Writes(graph.ops[i]) /\ t.at = PlannedAt[t.tensor]
              /\ t = Transfer(graph, PlannedAt, t.tensor, "out")
<1> DEFINE op == graph.ops[i]
<1>1. /\ IsGraph(graph) /\ WellFormed(graph)
      /\ plan.steps = [j \in DOMAIN graph.ops |-> StepOf(graph, PlannedAt, j)]
  BY PlanFacts
<1>2. /\ \A t \in Activations(graph) : Housed(t)
      /\ \A c \in ReadConsts(graph) \ Weights(graph) : Housed(c)
      /\ \A w \in Weights(graph) : ~InImage(w)
  BY WhoIsHoused
<1>3. /\ graph.inputs \intersect graph.const = {}
      /\ graph.outputs \intersect (graph.inputs \union graph.const) = {}
      /\ \A c \in Weights(graph) : \A j \in DOMAIN graph.ops : c \notin OneShots(graph, graph.ops[j])
      /\ BlocksStreamed(graph) =>
           /\ \A t \in graph.q4 : t \in graph.const
           /\ \A t \in graph.q4 : \A j \in DOMAIN graph.ops : t \notin OneShots(graph, graph.ops[j])
  BY DEF Ordinary, SharedUse, BlocksStreamed
<1>4. \A t, dir : Transfer(graph, PlannedAt, t, dir).tensor = t
                  /\ Transfer(graph, PlannedAt, t, dir).at = PlannedAt[t]
  BY DEF Transfer
<1>5. \A t \in graph.inputs : t \in Activations(graph) /\ t \notin graph.const
  BY <1>1, <1>3, GraphFacts DEF Activations
<1>6. ASSUME NEW t \in plan.steps[i].dma_in
      PROVE  /\ t.tensor \in graph.inputs \union graph.const /\ Housed(t.tensor)
             /\ t.at = PlannedAt[t.tensor] /\ t = Transfer(graph, PlannedAt, t.tensor, "in")
             /\ BlocksStreamed(graph) => Dense(t.tensor)
  <2>1. /\ t.tensor \in OneShots(graph, op) \/ t.tensor \in graph.inputs
        /\ t.at = PlannedAt[t.tensor] /\ t = Transfer(graph, PlannedAt, t.tensor, "in")
    BY <1>1, <1>4 DEF StepOf, UnreadInputs
  <2>2. CASE t.tensor \in graph.inputs
    <3>1. BlocksStreamed(graph) => Dense(t.tensor)  BY <1>3, <1>5, <2>2 DEF Dense
    <3> QED  BY <1>2, <1>5, <2>1, <2>2, <3>1
  <2>3. CASE t.tensor \in OneShots(graph, op) /\ t.tensor \notin graph.inputs
    <3>1. t.tensor \in graph.const /\ t.tensor \in Reads(op) \ Weight(graph, op)
      BY <2>3 DEF OneShots
    <3>2. t.tensor \notin Weights(graph) /\ (BlocksStreamed(graph) => Dense(t.tensor))
      BY <1>3, <2>3 DEF Dense
    <3>3. t.tensor \in ReadConsts(graph)
      <4>1. PICK k \in DOMAIN op.ins : op.ins[k] = t.tensor  BY <3>1 DEF Reads
      <4>2. <<i, k>> \in Meets(graph, t.tensor)  BY <3>1, <4>1 DEF Meets
      <4> QED  BY <3>1, <4>2 DEF ReadConsts
    <3> QED  BY <1>2, <2>1, <3>1, <3>2, <3>3
  <2> QED  BY <2>1, <2>2, <2>3
<1>7. ASSUME NEW w \in plan.steps[i].tiling
      PROVE  /\ w.tensor \in graph.const /\ ~InImage(w.tensor)
             /\ graph.nbytes[w.tensor] <= w.count * w.nbytes
  <2>1. /\ w.tensor \in Weight(graph, op)
        /\ w.count = Chunks(graph, w.tensor) /\ w.nbytes = PerChunk(graph, w.tensor)
    BY <1>1 DEF StepOf
  <2>2. w.tensor \in graph.const /\ w.tensor \in Weights(graph)
    BY <2>1 DEF Weight, WeightAt, Weights
  <2> DEFINE n == graph.nbytes[w.tensor]
  <2>3. n \in Nat \ {0}  BY <1>1, <2>2, GraphFacts
  <2>4. w.count = (n + Chunk - 1) \div Chunk /\ w.nbytes = IF n < Chunk THEN n ELSE Chunk
    BY <2>1 DEF Chunks, PerChunk
  <2> HIDE DEF n
  <2>5. n <= w.count * w.nbytes  BY <2>3, <2>4, ChunksCover, PlanAssumption
  <2> QED  BY <1>2, <2>2, <2>5 DEF n
<1>8. ASSUME NEW t \in Writes(op) PROVE Housed(t) /\ (BlocksStreamed(graph) => Dense(t))
  BY <1>1, <1>2, <1>3, OperandsCome DEF Dense
<1>9. ASSUME NEW t \in plan.steps[i].dma_out
      PROVE  /\ t.tensor \in Writes(op) /\ t.at = PlannedAt[t.tensor]
             /\ t = Transfer(graph, PlannedAt, t.tensor, "out")
  <2>1. UnwrittenOutputs(graph, PlannedAt) = {}
    <3>1. graph.outputs \subseteq WrittenBefore(graph, Len(graph.ops) + 1)
      BY <1>1 DEF WellFormed
    <3>2. DOMAIN graph.ops = 1 .. (Len(graph.ops) + 1) - 1  BY <1>1, GraphFacts
    <3> QED  BY <1>3, <3>1, <3>2 DEF WrittenBefore, UnwrittenOutputs
  <2> QED  BY <1>1, <1>4, <2>1 DEF StepOf
<1> QED  BY <1>6, <1>7, <1>8, <1>9
(* While such a graph is replayed, host memory has every input and         *)
(* constant, and VTCM every result so far.                                 *)
ResultsReady ==
  /\ graph.inputs \union graph.const \subseteq DOMAIN ddr
  /\ \A j \in DOMAIN graph.ops :
       j < step \/ (j = step /\ stage = "dma_out") => Writes(graph.ops[j]) \subseteq written

Failed == {"staging_failed", "tiled_transfer_failed", "op_failed", "write_back_failed",
           "output_never_materialized"}

ReadyInv ==
  Replayable(graph) => /\ stage \notin Failed
                       /\ stage \in Run => ResultsReady

LEMMA StartReplayReady ==
  ASSUME CompileInv, StartReplay
  PROVE  ReadyInv'
<1>1. CASE OverlappingSlots(plan.slots)
  <2>1. stage' = "VTCM_allocation_aliases_live_tensors"  BY <1>1 DEF StartReplay
  <2> QED  BY <2>1 DEF ReadyInv, Failed, Run
<1>2. CASE ~OverlappingSlots(plan.slots)
  <2>1. /\ stage = "compiled" /\ stage' = "dma_in" /\ step' = 1 /\ graph' = graph
        /\ ddr' = [t \in graph.inputs \union graph.const |-> t]
    BY <1>2 DEF StartReplay
  <2>2. DOMAIN graph.ops = 1 .. Len(graph.ops)
    BY <2>1, PlanFacts, GraphFacts DEF Accepted, Planned
  <2>3. \A j \in DOMAIN graph.ops : ~(j < 1)  BY <2>2
  <2>4. ResultsReady'  BY <2>1, <2>3 DEF ResultsReady
  <2> QED  BY <2>1, <2>4 DEF ReadyInv, Failed
<1> QED  BY <1>1, <1>2

LEMMA StageInReady ==
  ASSUME CompileInv, ReplayInv, ReadyInv, NEW t \in pending, StageIn(t)
  PROVE  ReadyInv'
<1>1. /\ stage = "dma_in" /\ graph' = graph /\ step' = step /\ ddr' = ddr
  BY DEF StageIn
<1>2. SUFFICES ASSUME Replayable(graph) PROVE stage' \notin Failed /\ ResultsReady'
  BY <1>1 DEF ReadyInv
<1>3. stage \in Run /\ stage \in Planned  BY <1>1 DEF Run, Accepted, Planned
<1>4. t \in plan.steps[step].dma_in /\ step \in DOMAIN graph.ops  BY <1>1, <1>3 DEF ReplayInv
<1>5. ResultsReady  BY <1>2, <1>3 DEF ReadyInv
<1>6. /\ t.tensor \in graph.inputs \union graph.const /\ Housed(t.tensor)
      /\ Dense(t.tensor) /\ t.at = PlannedAt[t.tensor]
  BY <1>2, <1>3, <1>4, TransfersHoused DEF Replayable
<1>7. ~(Disagrees(t) \/ t.tensor \notin DOMAIN ddr \/ ~CanPut(t.tensor))
  BY <1>5, <1>6 DEF Disagrees, Housed, CanPut, ResultsReady
<1>8. stage' = stage /\ written \subseteq written'  BY <1>7 DEF StageIn
<1> QED  BY <1>1, <1>5, <1>8 DEF ResultsReady, Failed

LEMMA StreamWeightReady ==
  ASSUME CompileInv, ReplayInv, ReadyInv, StreamWeight
  PROVE  ReadyInv'
<1>1. /\ stage = "dma_in" /\ graph' = graph /\ step' = step /\ ddr' = ddr
  BY DEF StreamWeight
<1>2. SUFFICES ASSUME Replayable(graph) PROVE stage' \notin Failed /\ ResultsReady'
  BY <1>1 DEF ReadyInv
<1>3. stage \in Run /\ stage \in Planned  BY <1>1 DEF Run, Accepted, Planned
<1>4. step \in DOMAIN graph.ops  BY <1>3 DEF ReplayInv
<1>5. ResultsReady  BY <1>2, <1>3 DEF ReadyInv
<1>6. \A w \in plan.steps[step].tiling :
        /\ w.tensor \in graph.const /\ ~InImage(w.tensor)
        /\ graph.nbytes[w.tensor] <= w.count * w.nbytes
        /\ graph.nbytes[w.tensor] \in Int /\ w.count * w.nbytes \in Int
  <2>1. \A w \in plan.steps[step].tiling :
          /\ w.tensor \in graph.const /\ ~InImage(w.tensor)
          /\ graph.nbytes[w.tensor] <= w.count * w.nbytes
    BY <1>2, <1>3, <1>4, TransfersHoused DEF Replayable
  <2>2. \A c \in graph.const : graph.nbytes[c] \in Nat \ {0}  BY <1>3, PlanFacts, GraphFacts
  <2>3. \A w \in plan.steps[step].tiling :
          w.count = Chunks(graph, w.tensor) /\ w.nbytes = PerChunk(graph, w.tensor)
    BY <1>3, <1>4, PlanFacts DEF StepOf
  <2>4. \A c \in graph.const : Chunks(graph, c) \in Int /\ PerChunk(graph, c) \in Int
    BY <2>2, PlanAssumption DEF Chunks, PerChunk
  <2> QED  BY <2>1, <2>2, <2>3, <2>4
<1>7. ~\E w \in plan.steps[step].tiling :
         \/ w.count * w.nbytes < graph.nbytes[w.tensor]
         \/ w.tensor \notin DOMAIN ddr
         \/ InImage(w.tensor) /\ ~CanPut(w.tensor)
  <2>1. \A w \in plan.steps[step].tiling : ~(w.count * w.nbytes < graph.nbytes[w.tensor])
    <3> SUFFICES ASSUME NEW w \in plan.steps[step].tiling
                 PROVE  ~(w.count * w.nbytes < graph.nbytes[w.tensor])
      OBVIOUS
    <3> DEFINE m == w.count * w.nbytes
               n == graph.nbytes[w.tensor]
    <3>1. n <= m /\ m \in Int /\ n \in Int  BY <1>6
    <3> HIDE DEF m, n
    <3>2. ~(m < n)  BY <3>1
    <3> QED  BY <3>2 DEF m, n
  <2> QED  BY <1>5, <1>6, <2>1 DEF ResultsReady
<1>8. stage' = "op" /\ written \subseteq written'  BY <1>7 DEF StreamWeight
<1> QED  BY <1>1, <1>5, <1>8 DEF ResultsReady, Failed

LEMMA RunOpReady ==
  ASSUME CompileInv, ReplayInv, ReadyInv, RunOp
  PROVE  ReadyInv'
<1> DEFINE op == graph.ops[step]
           slotted == {t \in Writes(op) : InImage(t)}
<1>1. /\ stage = "op" /\ graph' = graph /\ step' = step
  BY DEF RunOp
<1>2. SUFFICES ASSUME Replayable(graph) PROVE stage' \notin Failed /\ ResultsReady'
  BY <1>1 DEF ReadyInv
<1>3. stage \in Run /\ stage \in Planned  BY <1>1 DEF Run, Accepted, Planned
<1>4. step \in DOMAIN graph.ops /\ DOMAIN graph.ops = 1 .. Len(graph.ops)
  BY <1>3, RunFacts
<1>5. ResultsReady  BY <1>2, <1>3 DEF ReadyInv
<1>6. \A j \in DOMAIN graph.ops : \A t \in Writes(graph.ops[j]) : Housed(t) /\ Dense(t)
  BY <1>2, <1>3, TransfersHoused DEF Replayable
<1>7. \A t \in Writes(op) : InImage(t) /\ CanPut(t)  BY <1>4, <1>6 DEF Housed, CanPut
<1>8. \A t \in Reads(op) : CanRead(t)
  <2> SUFFICES ASSUME NEW t \in Reads(op) PROVE CanRead(t)
    OBVIOUS
  <2>1. CASE t \in graph.inputs \union graph.const
    BY <1>5, <2>1 DEF ResultsReady, CanRead
  <2>2. CASE \E j \in 1 .. step - 1 : t \in Writes(graph.ops[j])
    <3>1. PICK j \in 1 .. step - 1 : t \in Writes(graph.ops[j])  BY <2>2
    <3>2. j \in DOMAIN graph.ops /\ j < step  BY <1>4, <3>1
    <3>3. t \in written /\ InImage(t)  BY <1>5, <1>6, <3>1, <3>2 DEF ResultsReady, Housed
    <3> QED  BY <3>3 DEF CanRead, CanGet
  <2>3. WellFormed(graph)  BY <1>3, PlanFacts
  <2> QED  BY <1>4, <2>1, <2>2, <2>3, OperandsCome
<1>9. slotted = Writes(op)  BY <1>7
<1>10. /\ stage' = "dma_out" /\ written' = written \union slotted
       /\ DOMAIN ddr \subseteq DOMAIN ddr'
  BY <1>7, <1>8 DEF RunOp
<1> HIDE DEF slotted
<1>11. ResultsReady'  BY <1>1, <1>5, <1>9, <1>10 DEF ResultsReady
<1> QED  BY <1>10, <1>11 DEF Failed

LEMMA WriteBackReady ==
  ASSUME CompileInv, ReplayInv, ReadyInv, NEW t \in pending, WriteBack(t)
  PROVE  ReadyInv'
<1>1. /\ stage = "dma_out" /\ graph' = graph /\ step' = step /\ written' = written
  BY DEF WriteBack
<1>2. SUFFICES ASSUME Replayable(graph) PROVE stage' \notin Failed /\ ResultsReady'
  BY <1>1 DEF ReadyInv
<1>3. stage \in Run /\ stage \in Planned  BY <1>1 DEF Run, Accepted, Planned
<1>4. t \in plan.steps[step].dma_out /\ step \in DOMAIN graph.ops  BY <1>1, <1>3 DEF ReplayInv
<1>5. ResultsReady  BY <1>2, <1>3 DEF ReadyInv
<1>6. /\ t.tensor \in Writes(graph.ops[step]) /\ t.at = PlannedAt[t.tensor]
      /\ \A u \in Writes(graph.ops[step]) : Housed(u)
  BY <1>2, <1>3, <1>4, TransfersHoused DEF Replayable
<1>7. t.tensor \in written  BY <1>1, <1>4, <1>5, <1>6 DEF ResultsReady
<1>8. ~(Disagrees(t) \/ ~CanGet(t.tensor))
  BY <1>6, <1>7 DEF Disagrees, Housed, CanGet
<1>9. stage' = stage /\ DOMAIN ddr \subseteq DOMAIN ddr'  BY <1>8 DEF WriteBack, Hold
<1> QED  BY <1>1, <1>5, <1>9 DEF ResultsReady, Failed

LEMMA NextStepReady ==
  ASSUME CompileInv, ReplayInv, ReadyInv, NextStep
  PROVE  ReadyInv'
<1>1. /\ stage = "dma_out" /\ step' = step + 1 /\ stage' = "dma_in"
      /\ graph' = graph /\ written' = written /\ ddr' = ddr
  BY DEF NextStep
<1>2. SUFFICES ASSUME Replayable(graph) PROVE ResultsReady'
  BY <1>1 DEF ReadyInv, Failed
<1>3. stage \in Run  BY <1>1 DEF Run
<1>4. step \in Int /\ DOMAIN graph.ops = 1 .. Len(graph.ops)  BY <1>3, RunFacts
<1>5. ResultsReady  BY <1>2, <1>3 DEF ReadyInv
<1>6. \A j \in DOMAIN graph.ops : j < step + 1 => j < step \/ j = step  BY <1>4
<1> QED  BY <1>1, <1>5, <1>6 DEF ResultsReady

LEMMA DeliverReady ==
  ASSUME CompileInv, ReplayInv, ReadyInv, Deliver
  PROVE  ReadyInv'
<1>1. /\ stage = "dma_out" /\ step = Len(plan.steps) /\ graph' = graph
      /\ stage' = IF \A t \in graph.outputs : t \in DOMAIN ddr \/ CanGet(t)
                  THEN "finished" ELSE "output_never_materialized"
  BY DEF Deliver
<1>2. SUFFICES ASSUME Replayable(graph) PROVE stage' = "finished"
  BY <1>1 DEF ReadyInv, Failed, Run
<1>3. stage \in Run /\ stage \in Planned  BY <1>1 DEF Run, Accepted, Planned
<1>4. /\ StepsSound(graph, plan.steps) /\ OutputsLeave(graph, plan.steps)
      /\ Len(graph.ops) \in Nat /\ DOMAIN graph.ops = 1 .. Len(graph.ops)
  BY <1>3, RunFacts
<1>5. ASSUME NEW t \in graph.outputs PROVE t \in DOMAIN ddr
  <2>1. PICK i \in DOMAIN plan.steps : \E x \in plan.steps[i].dma_out : x.tensor = t
    BY <1>4 DEF OutputsLeave
  <2>2. PICK x \in plan.steps[i].dma_out : x.tensor = t  BY <2>1
  <2>3. i \in 1 .. Len(graph.ops) /\ step = Len(graph.ops) /\ pending = {}
    BY <1>1, <1>4 DEF StepsSound, Deliver
  <2>4. WrittenBack(i, x)  BY <1>1, <1>4, <2>3 DEF WrittenBack
  <2> QED  BY <1>3, <2>2, <2>4 DEF ReplayInv
<1> QED  BY <1>1, <1>5
LEMMA ReadyNextInv ==
  CompileInv /\ ReplayInv /\ ReadyInv /\ [WholeNext]_wholeVars => ReadyInv'
<1> SUFFICES ASSUME CompileInv, ReplayInv, ReadyInv, [WholeNext]_wholeVars PROVE ReadyInv'
  OBVIOUS
<1>1. CASE Compile
  <2>1. stage' \in {"allocating", "graph_is_structurally_invalid"}  BY <1>1 DEF Compile
  <2> QED  BY <2>1 DEF ReadyInv, Failed, Run
<1>2. CASE PlaceActivations
  <2>1. current # NoTensor => outcome = "placing"  BY DEF CompileInv, AllocInv, AllocTypeOK
  <2>2. outcome = "placing" /\ stage' = stage
    BY <1>2, <2>1 DEF PlaceActivations, Place, NextTensor, PassBusy, Settle, Answer, planVars
  <2>3. stage' = "allocating"  BY <2>2 DEF CompileInv, RequestInv
  <2> QED  BY <2>3 DEF ReadyInv, Failed, Run
<1>3. CASE InsertTransfers
  <2>1. stage' \in {"budget_too_small_to_double_buffer", "no_VTCM_left_for_weight_streaming",
                    "no_VTCM_left_for_the_resident_consts", "layout_mismatch", "scheduled"}
    BY <1>3 DEF InsertTransfers, TransferVerdict
  <2> QED  BY <2>1 DEF ReadyInv, Failed, Run
<1>4. CASE CheckPlan
  <2>1. stage' \in {"allocation_violates_its_invariants",
                    "schedule_violates_its_invariants", "compiled"}
    BY <1>4 DEF CheckPlan, CompileVerdict
  <2> QED  BY <2>1 DEF ReadyInv, Failed, Run
<1>5. CASE StartReplay  BY <1>5, StartReplayReady
<1>6. CASE \E t \in pending : StageIn(t)  BY <1>6, StageInReady
<1>7. CASE StreamWeight  BY <1>7, StreamWeightReady
<1>8. CASE RunOp  BY <1>8, RunOpReady
<1>9. CASE \E t \in pending : WriteBack(t)  BY <1>9, WriteBackReady
<1>10. CASE NextStep  BY <1>10, NextStepReady
<1>11. CASE Deliver  BY <1>11, DeliverReady
<1>12. CASE (\E alias \in BOOLEAN : Pack(alias)) \/ RunBatchOp \/ ReadBack
  <2>1. stage' \in {"a_graph_output_would_be_aliased_away", "one_arena_cannot_hold_both",
                    "activation_retyped", "no_VTCM_slot_in_the_plan",
                    "activation_pairs_share_an_address", "a_reshape_must_preserve_byte_count",
                    "batch", "batch_finished"}
    BY <1>12 DEF Pack, PackVerdict, RunBatchOp, ReadBack
  <2> QED  BY <2>1 DEF ReadyInv, Failed, Run
<1>13. CASE UNCHANGED vars
  <2>1. /\ graph' = graph /\ stage' = stage /\ step' = step /\ written' = written /\ ddr' = ddr
    BY <1>13 DEF vars, planVars
  <2> QED  BY <2>1 DEF ReadyInv, ResultsReady
<1> QED
  BY <1>1, <1>2, <1>3, <1>4, <1>5, <1>6, <1>7, <1>8, <1>9, <1>10, <1>11, <1>12, <1>13
  DEF WholeNext, PlanNext, Returned, wholeVars

(* The plan accepted for an ordinary graph whose q4_0 blocks are streamed  *)
(* is never refused by the interpreter, for every such graph, every budget *)
(* and policy: each transfer finds its slot at its own address, each       *)
(* operand a value, and each output is there in the end.                   *)
THEOREM PlansReplay == WholeSpec => []PlanReplays
<1>1. WholeInit => ReadyInv
  <2>1. PlanInit => stage = "idle"  BY DEF PlanInit
  <2> QED  BY <2>1 DEF WholeInit, ReadyInv, Failed, Run
<1>2. ReadyInv => PlanReplays
  BY DEF ReadyInv, Replayable, PlanReplays, Failed
<1> QED  BY <1>1, <1>2, PlanInvariant, ReadyNextInv, PTL DEF WholeSpec
-----------------------------------------------------------------------------
(* The bytes moved.                                                        *)

(* The bytes of the transfers T that are no longer among those due.       *)
Done(T, due) == SumFunction([t \in T |-> IF t \in due THEN 0 ELSE t.nbytes])
InBytes(s) == SumFunction([t \in s.dma_in |-> t.nbytes])
OutBytes(s) == SumFunction([t \in s.dma_out |-> t.nbytes])
TiledBytes(s) == SumFunction([t \in s.tiling |-> t.nbytes * t.count])
MovedBefore(k) ==
  SumFunction([i \in DOMAIN plan.steps |-> IF i < k THEN Moved(plan.steps[i]) ELSE 0])

LEMMA NothingDone ==
  ASSUME NEW T, IsFiniteSet(T)
  PROVE  Done(T, T) = 0
<1>1. [t \in T |-> IF t \in T THEN 0 ELSE t.nbytes] = [t \in T |-> 0]  OBVIOUS
<1> QED  BY <1>1, SumOfNothing DEF Done

LEMMA AllDone ==
  ASSUME NEW T
  PROVE  Done(T, {}) = SumFunction([t \in T |-> t.nbytes])
<1>1. [t \in T |-> IF t \in {} THEN 0 ELSE t.nbytes] = [t \in T |-> t.nbytes]  OBVIOUS
<1> QED  BY <1>1 DEF Done

LEMMA OneMoreDone ==
  ASSUME NEW T, IsFiniteSet(T), \A t \in T : t.nbytes \in Int,
         NEW due \in SUBSET T, NEW e \in due
  PROVE  /\ Done(T, due) \in Int
         /\ Done(T, due \ {e}) = Done(T, due) + e.nbytes
<1> DEFINE f == [t \in T |-> IF t \in due THEN 0 ELSE t.nbytes]
           h == [t \in T |-> IF t \in due \ {e} THEN 0 ELSE t.nbytes]
           n == e.nbytes
<1>1. f \in [T -> Int] /\ f[e] = 0 /\ e \in T /\ n \in Int  OBVIOUS
<1>2. h = [f EXCEPT ![e] = n]  OBVIOUS
<1>3. Done(T, due) = SumFunction(f) /\ Done(T, due \ {e}) = SumFunction(h)  BY DEF Done
<1> HIDE DEF f, h, n
<1>4. SumFunction([f EXCEPT ![e] = n]) = SumFunction(f) + n  BY <1>1, SumWithOneMore
<1>5. SumFunction(f) \in Int  BY <1>1, SumIsInt
<1> QED  BY <1>2, <1>3, <1>4, <1>5 DEF n

(* Each step of an accepted plan moves a number of bytes.                  *)
LEMMA StepBytes ==
  ASSUME CompileInv, stage \in Planned, NEW i \in DOMAIN graph.ops
  PROVE  LET s == plan.steps[i]
         IN  /\ IsFiniteSet(s.dma_in) /\ \A t \in s.dma_in : t.nbytes \in Int
             /\ IsFiniteSet(s.dma_out) /\ \A t \in s.dma_out : t.nbytes \in Int
             /\ InBytes(s) \in Int /\ OutBytes(s) \in Int /\ TiledBytes(s) \in Int
             /\ Moved(s) = InBytes(s) + OutBytes(s) + TiledBytes(s)
             /\ SumFunction([w \in s.tiling |-> w.count * w.nbytes]) = TiledBytes(s)
<1> DEFINE s == plan.steps[i]
           op == graph.ops[i]
           in == (OneShots(graph, op) \ OneShotsBefore(graph, i))
                   \union (IF i = 1 THEN UnreadInputs(graph, PlannedAt) ELSE {})
           out == (Writes(op) \intersect graph.outputs)
                    \union (IF i = Len(graph.ops) THEN UnwrittenOutputs(graph, PlannedAt) ELSE {})
           tiled(w) == [tensor |-> w, at |-> PlannedAt[w], nbytes |-> PerChunk(graph, w),
                        direction |-> "in", count |-> Chunks(graph, w)]
<1>1. /\ IsGraph(graph) /\ WellFormed(graph)
      /\ plan.steps = [j \in DOMAIN graph.ops |-> StepOf(graph, PlannedAt, j)]
  BY PlanFacts
<1>2. /\ s.dma_in = {Transfer(graph, PlannedAt, t, "in") : t \in in}
      /\ s.dma_out = {Transfer(graph, PlannedAt, t, "out") : t \in out}
      /\ s.tiling = {tiled(w) : w \in Weight(graph, op)}
  BY <1>1 DEF StepOf
<1>3. /\ IsFiniteSet(graph.tensors) /\ graph.const \subseteq graph.tensors
      /\ \A t \in graph.tensors : graph.nbytes[t] \in Nat \ {0}
      /\ graph.inputs \subseteq graph.tensors /\ graph.outputs \subseteq graph.tensors
  BY <1>1, GraphFacts DEF IsGraph
<1>4. in \subseteq graph.tensors  BY <1>3 DEF OneShots, UnreadInputs
<1>5. out \subseteq graph.tensors  BY <1>3 DEF UnwrittenOutputs
<1>6. Weight(graph, op) \subseteq graph.const  BY DEF Weight, WeightAt
<1> HIDE DEF in, out, op
<1>7. \A t, dir : Transfer(graph, PlannedAt, t, dir).nbytes = graph.nbytes[t]  BY DEF Transfer
<1>8. IsFiniteSet(s.dma_in) /\ \A t \in s.dma_in : t.nbytes \in Int
  <2>1. IsFiniteSet(in)  BY <1>3, <1>4, FS_Subset
  <2> DEFINE f == [t \in in |-> Transfer(graph, PlannedAt, t, "in")]
  <2>2. IsFiniteSet({f[t] : t \in in})  BY <2>1, FiniteRange
  <2>3. s.dma_in = {f[t] : t \in in}  BY <1>2
  <2> HIDE DEF f
  <2>4. IsFiniteSet(s.dma_in)  BY <2>2, <2>3
  <2> QED  BY <1>2, <1>3, <1>4, <1>7, <2>4
<1>9. IsFiniteSet(s.dma_out) /\ \A t \in s.dma_out : t.nbytes \in Int
  <2>1. IsFiniteSet(out)  BY <1>3, <1>5, FS_Subset
  <2> DEFINE f == [t \in out |-> Transfer(graph, PlannedAt, t, "out")]
  <2>2. IsFiniteSet({f[t] : t \in out})  BY <2>1, FiniteRange
  <2>3. s.dma_out = {f[t] : t \in out}  BY <1>2
  <2> HIDE DEF f
  <2>4. IsFiniteSet(s.dma_out)  BY <2>2, <2>3
  <2> QED  BY <1>2, <1>3, <1>5, <1>7, <2>4
<1>10. IsFiniteSet(s.tiling) /\ \A t \in s.tiling : t.nbytes \in Int /\ t.count \in Int
  <2>1. IsFiniteSet(Weight(graph, op))  BY <1>3, <1>6, FS_Subset
  <2> DEFINE f == [w \in Weight(graph, op) |-> tiled(w)]
  <2>2. IsFiniteSet({f[w] : w \in Weight(graph, op)})  BY <2>1, FiniteRange
  <2>4. s.tiling = {f[w] : w \in Weight(graph, op)}  BY <1>2
  <2> HIDE DEF f
  <2>5. IsFiniteSet(s.tiling)  BY <2>2, <2>4
  <2>3. \A c \in graph.const : Chunks(graph, c) \in Int /\ PerChunk(graph, c) \in Int
    BY <1>3, PlanAssumption DEF Chunks, PerChunk
  <2> QED  BY <1>2, <1>6, <2>3, <2>5
<1> HIDE DEF s
<1>11. InBytes(s) \in Int /\ OutBytes(s) \in Int
  <2> DEFINE f == [t \in s.dma_in |-> t.nbytes]
             h == [t \in s.dma_out |-> t.nbytes]
  <2>1. f \in [s.dma_in -> Int] /\ h \in [s.dma_out -> Int]  BY <1>8, <1>9
  <2>2. InBytes(s) = SumFunction(f) /\ OutBytes(s) = SumFunction(h)  BY DEF InBytes, OutBytes
  <2> HIDE DEF f, h
  <2> QED  BY <1>8, <1>9, <2>1, <2>2, SumIsInt
<1>12. /\ TiledBytes(s) \in Int
       /\ SumFunction([w \in s.tiling |-> w.count * w.nbytes]) = TiledBytes(s)
  <2> DEFINE f == [t \in s.tiling |-> t.nbytes * t.count]
  <2>1. f \in [s.tiling -> Int] /\ f = [w \in s.tiling |-> w.count * w.nbytes]  BY <1>10
  <2>2. TiledBytes(s) = SumFunction(f)  BY DEF TiledBytes
  <2> HIDE DEF f
  <2>3. SumFunction(f) \in Int  BY <1>10, <2>1, SumIsInt
  <2> QED  BY <2>1, <2>2, <2>3
<1>13. Moved(s) = InBytes(s) + OutBytes(s) + TiledBytes(s)
  BY DEF Moved, InBytes, OutBytes, TiledBytes
<1> QED  BY <1>8, <1>9, <1>11, <1>12, <1>13 DEF s

(* The bytes of the steps before the first, the next and past the last.    *)
LEMMA MovedStepByStep ==
  ASSUME CompileInv, stage \in Planned
  PROVE  /\ MovedBefore(1) = 0
         /\ \A k \in DOMAIN graph.ops :
              /\ MovedBefore(k) \in Int
              /\ MovedBefore(k + 1) = MovedBefore(k) + Moved(plan.steps[k])
         /\ MovedBefore(Len(graph.ops) + 1) = plan.moved
<1>1. /\ IsGraph(graph) /\ WellFormed(graph) /\ DOMAIN plan.steps = DOMAIN graph.ops
      /\ Len(graph.ops) \in Nat /\ DOMAIN graph.ops = 1 .. Len(graph.ops)
      /\ plan.moved = SumFunction([i \in DOMAIN plan.steps |-> Moved(plan.steps[i])])
  <2>1. plan = Scheduled(graph, Slots)  BY DEF CompileInv, ScheduleInv
  <2>2. plan.moved = SumFunction([i \in DOMAIN plan.steps |-> Moved(plan.steps[i])])
    BY <2>1 DEF Scheduled
  <2>3. DOMAIN plan.steps = DOMAIN graph.ops  BY PlanFacts
  <2> QED  BY <2>2, <2>3, PlanFacts, GraphFacts
<1> DEFINE D == DOMAIN plan.steps
           cost(i) == Moved(plan.steps[i])
           f(k) == [i \in D |-> IF i < k THEN cost(i) ELSE 0]
<1>2. \A k : MovedBefore(k) = SumFunction(f(k))  BY DEF MovedBefore
<1>3. \A i \in D : cost(i) \in Int
  <2> SUFFICES ASSUME NEW i \in D PROVE Moved(plan.steps[i]) \in Int
    OBVIOUS
  <2> DEFINE s == plan.steps[i]
  <2>1. /\ InBytes(s) \in Int /\ OutBytes(s) \in Int /\ TiledBytes(s) \in Int
        /\ Moved(s) = InBytes(s) + OutBytes(s) + TiledBytes(s)
    BY <1>1, StepBytes
  <2> HIDE DEF s
  <2>2. Moved(s) \in Int  BY <2>1
  <2> QED  BY <2>2 DEF s
<1>4. D = 1 .. Len(graph.ops) /\ IsFiniteSet(D)
  <2>1. IsFiniteSet(1 .. Len(graph.ops))  BY <1>1, FS_Interval
  <2> QED  BY <1>1, <2>1
<1>5. plan.moved = SumFunction([i \in D |-> cost(i)])  BY <1>1
<1> HIDE DEF D, cost
<1>6. MovedBefore(1) = 0
  <2>1. f(1) = [i \in D |-> 0]
    <3>1. \A i \in D : ~(i < 1)  BY <1>4
    <3> QED  BY <3>1
  <2> QED  BY <1>2, <1>4, <2>1, SumOfNothing
<1>7. MovedBefore(Len(graph.ops) + 1) = plan.moved
  <2>1. \A i \in D : i < Len(graph.ops) + 1  BY <1>1, <1>4
  <2>2. f(Len(graph.ops) + 1) = [i \in D |-> cost(i)]  BY <2>1
  <2> QED  BY <1>2, <1>5, <2>2
<1>8. ASSUME NEW k \in D
      PROVE  MovedBefore(k) \in Int /\ MovedBefore(k + 1) = MovedBefore(k) + cost(k)
  <2>1. k \in Int /\ \A i \in D : (i < k + 1) <=> (i < k \/ i = k)  BY <1>1, <1>4
  <2> DEFINE h == f(k)
             n == cost(k)
  <2>2. h \in [D -> Int] /\ h[k] = 0 /\ n \in Int
    <3>1. ~(k < k)  BY <2>1
    <3> QED  BY <1>3, <3>1
  <2>3. f(k + 1) = [h EXCEPT ![k] = n]  BY <2>1
  <2>4. MovedBefore(k) = SumFunction(h) /\ MovedBefore(k + 1) = SumFunction(f(k + 1))  BY <1>2
  <2> HIDE DEF h, n, f
  <2>5. SumFunction([h EXCEPT ![k] = n]) = SumFunction(h) + n  BY <1>4, <2>2, SumWithOneMore
  <2>6. SumFunction(h) \in Int  BY <1>4, <2>2, SumIsInt
  <2> QED  BY <2>3, <2>4, <2>5, <2>6 DEF n
<1> QED  BY <1>1, <1>6, <1>7, <1>8 DEF D, cost
(* The bytes counted: those of the steps before, and of this step's        *)
(* transfers that are done.                                                *)
BytesInv ==
  /\ stage \in Run =>
       LET s == plan.steps[step]
       IN  bytes = MovedBefore(step)
                     + CASE stage = "dma_in" -> Done(s.dma_in, pending)
                         [] stage = "op" -> InBytes(s) + TiledBytes(s)
                         [] stage = "dma_out" -> InBytes(s) + TiledBytes(s)
                                                   + Done(s.dma_out, pending)
  /\ stage = "finished" => bytes = plan.moved

(* What each action of the replay counts from.                             *)
LEMMA BytesFacts ==
  ASSUME CompileInv, ReplayInv, BytesInv, stage \in Run
  PROVE  LET s == plan.steps[step]
         IN  /\ IsFiniteSet(s.dma_in) /\ \A t \in s.dma_in : t.nbytes \in Int
             /\ IsFiniteSet(s.dma_out) /\ \A t \in s.dma_out : t.nbytes \in Int
             /\ InBytes(s) \in Int /\ OutBytes(s) \in Int /\ TiledBytes(s) \in Int
             /\ Moved(s) = InBytes(s) + OutBytes(s) + TiledBytes(s)
             /\ SumFunction([w \in s.tiling |-> w.count * w.nbytes]) = TiledBytes(s)
             /\ MovedBefore(step) \in Int
             /\ MovedBefore(step + 1) = MovedBefore(step) + Moved(s)
             /\ stage = "dma_in" => bytes = MovedBefore(step) + Done(s.dma_in, pending)
             /\ stage = "op" => bytes = MovedBefore(step) + InBytes(s) + TiledBytes(s)
             /\ stage = "dma_out" => bytes = MovedBefore(step) + InBytes(s) + TiledBytes(s)
                                               + Done(s.dma_out, pending)
<1> DEFINE s == plan.steps[step]
<1>1. stage \in Planned /\ step \in DOMAIN graph.ops  BY DEF Accepted, Planned, Run, ReplayInv
<1>2. /\ IsFiniteSet(s.dma_in) /\ \A t \in s.dma_in : t.nbytes \in Int
      /\ IsFiniteSet(s.dma_out) /\ \A t \in s.dma_out : t.nbytes \in Int
      /\ InBytes(s) \in Int /\ OutBytes(s) \in Int /\ TiledBytes(s) \in Int
      /\ Moved(s) = InBytes(s) + OutBytes(s) + TiledBytes(s)
      /\ SumFunction([w \in s.tiling |-> w.count * w.nbytes]) = TiledBytes(s)
  BY <1>1, StepBytes
<1>3. /\ MovedBefore(step) \in Int
      /\ MovedBefore(step + 1) = MovedBefore(step) + Moved(s)
  BY <1>1, MovedStepByStep
<1> HIDE DEF s
<1>4. stage = "dma_in" => bytes = MovedBefore(step) + Done(s.dma_in, pending)
  BY DEF BytesInv, s
<1>5. stage = "op" => bytes = MovedBefore(step) + (InBytes(s) + TiledBytes(s))
  BY DEF BytesInv, s
<1>6. stage = "dma_out" => bytes = MovedBefore(step)
                                     + (InBytes(s) + TiledBytes(s) + Done(s.dma_out, pending))
  BY DEF BytesInv, s
<1>7. stage = "dma_out" => Done(s.dma_out, pending) \in Int
  <2> SUFFICES ASSUME stage = "dma_out" PROVE Done(s.dma_out, pending) \in Int
    OBVIOUS
  <2>1. CASE pending = {}
    <3> DEFINE f == [t \in s.dma_out |-> t.nbytes]
    <3>1. f \in [s.dma_out -> Int] /\ Done(s.dma_out, {}) = SumFunction(f)  BY <1>2, AllDone
    <3> HIDE DEF f
    <3> QED  BY <1>2, <2>1, <3>1, SumIsInt
  <2>2. CASE pending # {}
    <3>1. PICK e \in pending : TRUE  BY <2>2
    <3>2. pending \in SUBSET s.dma_out  BY DEF ReplayInv, s
    <3> QED  BY <1>2, <3>1, <3>2, OneMoreDone
  <2> QED  BY <2>1, <2>2
<1>8. stage = "dma_out" => bytes = MovedBefore(step) + InBytes(s) + TiledBytes(s)
                                     + Done(s.dma_out, pending)
  BY <1>2, <1>3, <1>6, <1>7
<1>9. stage = "op" => bytes = MovedBefore(step) + InBytes(s) + TiledBytes(s)
  BY <1>2, <1>3, <1>5
<1> QED  BY <1>2, <1>3, <1>4, <1>8, <1>9 DEF s

LEMMA BytesUnchanged ==
  ASSUME UNCHANGED <<plan>>
  PROVE  \A k : MovedBefore(k)' = MovedBefore(k)
BY DEF MovedBefore

LEMMA StartReplayCounts ==
  ASSUME CompileInv, StartReplay
  PROVE  BytesInv'
<1>1. CASE OverlappingSlots(plan.slots)
  <2>1. stage' = "VTCM_allocation_aliases_live_tensors"  BY <1>1 DEF StartReplay
  <2> QED  BY <2>1 DEF BytesInv, Run
<1>2. CASE ~OverlappingSlots(plan.slots)
  <2> DEFINE s == plan.steps[1]
  <2>1. /\ stage = "compiled" /\ stage' = "dma_in" /\ step' = 1 /\ plan' = plan
        /\ pending' = s.dma_in /\ bytes' = bytes
    BY <1>2 DEF StartReplay
  <2>2. bytes = 0  BY <2>1 DEF CompileInv, ScheduleInv
  <2>3. 1 \in DOMAIN graph.ops /\ stage \in Planned
    BY <2>1, PlanFacts, GraphFacts DEF Accepted, Planned
  <2>4. IsFiniteSet(s.dma_in)  BY <2>3, StepBytes
  <2>5. MovedBefore(1) = 0  BY <2>3, MovedStepByStep
  <2> HIDE DEF s
  <2>6. Done(s.dma_in, s.dma_in) = 0  BY <2>4, NothingDone
  <2>7. MovedBefore(1)' = 0  BY <2>1, <2>5, BytesUnchanged
  <2>8. plan.steps[1] = s  BY DEF s
  <2>9. bytes' = MovedBefore(1)' + Done(s.dma_in, pending')  BY <2>1, <2>2, <2>6, <2>7
  <2> QED  BY <2>1, <2>8, <2>9 DEF BytesInv
<1> QED  BY <1>1, <1>2

LEMMA StageInCounts ==
  ASSUME CompileInv, ReplayInv, BytesInv, NEW t \in pending, StageIn(t)
  PROVE  BytesInv'
<1> DEFINE s == plan.steps[step]
<1>1. /\ stage = "dma_in" /\ stage' \in {"dma_in", "staging_failed"}
      /\ pending' = pending \ {t} /\ plan' = plan /\ step' = step
      /\ stage' = "dma_in" => bytes' = bytes + t.nbytes
  BY DEF StageIn
<1>2. stage \in Run  BY <1>1 DEF Run
<1>3. /\ IsFiniteSet(s.dma_in) /\ \A u \in s.dma_in : u.nbytes \in Int
      /\ MovedBefore(step) \in Int
      /\ bytes = MovedBefore(step) + Done(s.dma_in, pending)
  BY <1>1, <1>2, BytesFacts
<1>4. pending \in SUBSET s.dma_in  BY <1>1, <1>2 DEF ReplayInv
<1> HIDE DEF s
<1>5. /\ Done(s.dma_in, pending) \in Int /\ t.nbytes \in Int
      /\ Done(s.dma_in, pending \ {t}) = Done(s.dma_in, pending) + t.nbytes
  BY <1>3, <1>4, OneMoreDone
<1>6. CASE stage' = "dma_in"
  <2>1. MovedBefore(step)' = MovedBefore(step)  BY <1>1, BytesUnchanged
  <2>2. bytes' = MovedBefore(step)' + Done(s.dma_in, pending')
    BY <1>1, <1>3, <1>5, <1>6, <2>1
  <2> QED  BY <1>1, <1>6, <2>2 DEF BytesInv, s
<1>7. CASE stage' = "staging_failed"  BY <1>7 DEF BytesInv, Run
<1> QED  BY <1>1, <1>6, <1>7

LEMMA StreamWeightCounts ==
  ASSUME CompileInv, ReplayInv, BytesInv, StreamWeight
  PROVE  BytesInv'
<1> DEFINE s == plan.steps[step]
<1>1. /\ stage = "dma_in" /\ pending = {} /\ plan' = plan /\ step' = step
      /\ \/ stage' = "tiled_transfer_failed"
         \/ /\ stage' = "op"
            /\ bytes' = bytes + SumFunction([w \in s.tiling |-> w.count * w.nbytes])
  BY DEF StreamWeight
<1>2. stage \in Run  BY <1>1 DEF Run
<1>3. /\ InBytes(s) \in Int /\ TiledBytes(s) \in Int
      /\ SumFunction([w \in s.tiling |-> w.count * w.nbytes]) = TiledBytes(s)
      /\ MovedBefore(step) \in Int
      /\ bytes = MovedBefore(step) + Done(s.dma_in, pending)
  BY <1>1, <1>2, BytesFacts
<1> HIDE DEF s
<1>4. Done(s.dma_in, pending) = InBytes(s)  BY <1>1, AllDone DEF InBytes
<1>5. CASE stage' = "op"
  <2>1. MovedBefore(step)' = MovedBefore(step)  BY <1>1, BytesUnchanged
  <2>2. bytes' = MovedBefore(step)' + (InBytes(s) + TiledBytes(s))
    BY <1>1, <1>3, <1>4, <1>5, <2>1
  <2> QED  BY <1>1, <1>5, <2>2 DEF BytesInv, s
<1>6. CASE stage' = "tiled_transfer_failed"  BY <1>6 DEF BytesInv, Run
<1> QED  BY <1>1, <1>5, <1>6

LEMMA RunOpCounts ==
  ASSUME CompileInv, ReplayInv, BytesInv, RunOp
  PROVE  BytesInv'
<1> DEFINE s == plan.steps[step]
<1>1. /\ stage = "op" /\ plan' = plan /\ step' = step /\ bytes' = bytes
      /\ stage' = "op_failed" \/ (stage' = "dma_out" /\ pending' = s.dma_out)
  BY DEF RunOp
<1>2. stage \in Run  BY <1>1 DEF Run
<1>3. /\ InBytes(s) \in Int /\ TiledBytes(s) \in Int /\ MovedBefore(step) \in Int
      /\ IsFiniteSet(s.dma_out)
      /\ bytes = MovedBefore(step) + InBytes(s) + TiledBytes(s)
  BY <1>1, <1>2, BytesFacts
<1> HIDE DEF s
<1>4. Done(s.dma_out, s.dma_out) = 0  BY <1>3, NothingDone
<1>5. CASE stage' = "dma_out" /\ pending' = s.dma_out
  <2>1. MovedBefore(step)' = MovedBefore(step)  BY <1>1, BytesUnchanged
  <2>2. bytes' = MovedBefore(step)' + (InBytes(s) + TiledBytes(s) + Done(s.dma_out, pending'))
    BY <1>1, <1>3, <1>4, <1>5, <2>1
  <2> QED  BY <1>1, <1>5, <2>2 DEF BytesInv, s
<1>6. CASE stage' = "op_failed"  BY <1>6 DEF BytesInv, Run
<1> QED  BY <1>1, <1>5, <1>6

LEMMA WriteBackCounts ==
  ASSUME CompileInv, ReplayInv, BytesInv, NEW t \in pending, WriteBack(t)
  PROVE  BytesInv'
<1> DEFINE s == plan.steps[step]
<1>1. /\ stage = "dma_out" /\ stage' \in {"dma_out", "write_back_failed"}
      /\ pending' = pending \ {t} /\ plan' = plan /\ step' = step
      /\ stage' = "dma_out" => bytes' = bytes + t.nbytes
  BY DEF WriteBack
<1>2. stage \in Run  BY <1>1 DEF Run
<1>3. /\ IsFiniteSet(s.dma_out) /\ \A u \in s.dma_out : u.nbytes \in Int
      /\ MovedBefore(step) \in Int /\ InBytes(s) \in Int /\ TiledBytes(s) \in Int
      /\ bytes = MovedBefore(step) + InBytes(s) + TiledBytes(s) + Done(s.dma_out, pending)
  BY <1>1, <1>2, BytesFacts
<1>4. pending \in SUBSET s.dma_out  BY <1>1, <1>2 DEF ReplayInv
<1> HIDE DEF s
<1>5. /\ Done(s.dma_out, pending) \in Int /\ t.nbytes \in Int
      /\ Done(s.dma_out, pending \ {t}) = Done(s.dma_out, pending) + t.nbytes
  BY <1>3, <1>4, OneMoreDone
<1>6. CASE stage' = "dma_out"
  <2>1. MovedBefore(step)' = MovedBefore(step)  BY <1>1, BytesUnchanged
  <2>2. bytes' = MovedBefore(step)' + (InBytes(s) + TiledBytes(s) + Done(s.dma_out, pending'))
    BY <1>1, <1>3, <1>5, <1>6, <2>1
  <2> QED  BY <1>1, <1>6, <2>2 DEF BytesInv, s
<1>7. CASE stage' = "write_back_failed"  BY <1>7 DEF BytesInv, Run
<1> QED  BY <1>1, <1>6, <1>7

(* A finished step has moved what its transfers say.                       *)
LEMMA StepDone ==
  ASSUME CompileInv, ReplayInv, BytesInv, stage = "dma_out", pending = {}
  PROVE  bytes = MovedBefore(step + 1)
<1> DEFINE s == plan.steps[step]
<1>1. stage \in Run  BY DEF Run
<1>2. /\ MovedBefore(step) \in Int /\ InBytes(s) \in Int /\ TiledBytes(s) \in Int
      /\ OutBytes(s) \in Int /\ Moved(s) = InBytes(s) + OutBytes(s) + TiledBytes(s)
      /\ MovedBefore(step + 1) = MovedBefore(step) + Moved(s)
      /\ bytes = MovedBefore(step) + InBytes(s) + TiledBytes(s) + Done(s.dma_out, pending)
  BY <1>1, BytesFacts
<1> HIDE DEF s
<1>3. Done(s.dma_out, pending) = OutBytes(s)  BY AllDone DEF OutBytes
<1> QED  BY <1>2, <1>3

LEMMA NextStepCounts ==
  ASSUME CompileInv, ReplayInv, BytesInv, NextStep
  PROVE  BytesInv'
<1> DEFINE s == plan.steps[step + 1]
<1>1. /\ stage = "dma_out" /\ pending = {} /\ step < Len(plan.steps)
      /\ step' = step + 1 /\ pending' = s.dma_in /\ stage' = "dma_in"
      /\ plan' = plan /\ bytes' = bytes
  BY DEF NextStep
<1>2. stage \in Run /\ stage \in Planned  BY <1>1 DEF Run, Accepted, Planned
<1>3. bytes = MovedBefore(step + 1)  BY <1>1, StepDone
<1>4. step + 1 \in DOMAIN graph.ops /\ step \in Int  BY <1>1, <1>2, RunFacts DEF StepsSound
<1>5. IsFiniteSet(s.dma_in)  BY <1>2, <1>4, StepBytes
<1>6. MovedBefore(step + 1) \in Int  BY <1>2, <1>4, MovedStepByStep
<1> HIDE DEF s
<1>7. Done(s.dma_in, s.dma_in) = 0  BY <1>5, NothingDone
<1>8. MovedBefore(step)' = MovedBefore(step + 1)  BY <1>1 DEF MovedBefore
<1>9. bytes' = MovedBefore(step)' + Done(s.dma_in, pending')
  BY <1>1, <1>3, <1>6, <1>7, <1>8
<1> QED  BY <1>1, <1>9 DEF BytesInv, s

LEMMA DeliverCounts ==
  ASSUME CompileInv, ReplayInv, BytesInv, Deliver
  PROVE  BytesInv'
<1>1. /\ stage = "dma_out" /\ pending = {} /\ step = Len(plan.steps)
      /\ stage' \in {"finished", "output_never_materialized"}
      /\ plan' = plan /\ bytes' = bytes
  BY DEF Deliver, RunVars
<1>2. stage \in Run /\ stage \in Planned  BY <1>1 DEF Run, Accepted, Planned
<1>3. bytes = MovedBefore(step + 1)  BY <1>1, StepDone
<1>4. step = Len(graph.ops)  BY <1>1, <1>2, RunFacts DEF StepsSound
<1>5. MovedBefore(step + 1) = plan.moved  BY <1>2, <1>4, MovedStepByStep
<1> QED  BY <1>1, <1>3, <1>5 DEF BytesInv, Run

LEMMA BytesNextInv ==
  CompileInv /\ ReplayInv /\ BytesInv /\ [WholeNext]_wholeVars => BytesInv'
<1> SUFFICES ASSUME CompileInv, ReplayInv, BytesInv, [WholeNext]_wholeVars PROVE BytesInv'
  OBVIOUS
<1>1. CASE Compile
  <2>1. stage' \in {"allocating", "graph_is_structurally_invalid"}  BY <1>1 DEF Compile
  <2> QED  BY <2>1 DEF BytesInv, Run
<1>2. CASE PlaceActivations
  <2>1. current # NoTensor => outcome = "placing"  BY DEF CompileInv, AllocInv, AllocTypeOK
  <2>2. outcome = "placing" /\ stage' = stage
    BY <1>2, <2>1 DEF PlaceActivations, Place, NextTensor, PassBusy, Settle, Answer, planVars
  <2>3. stage' = "allocating"  BY <2>2 DEF CompileInv, RequestInv
  <2> QED  BY <2>3 DEF BytesInv, Run
<1>3. CASE InsertTransfers
  <2>1. stage' \in {"budget_too_small_to_double_buffer", "no_VTCM_left_for_weight_streaming",
                    "no_VTCM_left_for_the_resident_consts", "layout_mismatch", "scheduled"}
    BY <1>3 DEF InsertTransfers, TransferVerdict
  <2> QED  BY <2>1 DEF BytesInv, Run
<1>4. CASE CheckPlan
  <2>1. stage' \in {"allocation_violates_its_invariants",
                    "schedule_violates_its_invariants", "compiled"}
    BY <1>4 DEF CheckPlan, CompileVerdict
  <2> QED  BY <2>1 DEF BytesInv, Run
<1>5. CASE StartReplay  BY <1>5, StartReplayCounts
<1>6. CASE \E t \in pending : StageIn(t)  BY <1>6, StageInCounts
<1>7. CASE StreamWeight  BY <1>7, StreamWeightCounts
<1>8. CASE RunOp  BY <1>8, RunOpCounts
<1>9. CASE \E t \in pending : WriteBack(t)  BY <1>9, WriteBackCounts
<1>10. CASE NextStep  BY <1>10, NextStepCounts
<1>11. CASE Deliver  BY <1>11, DeliverCounts
<1>12. CASE (\E alias \in BOOLEAN : Pack(alias)) \/ RunBatchOp \/ ReadBack
  <2>1. stage' \in {"a_graph_output_would_be_aliased_away", "one_arena_cannot_hold_both",
                    "activation_retyped", "no_VTCM_slot_in_the_plan",
                    "activation_pairs_share_an_address", "a_reshape_must_preserve_byte_count",
                    "batch", "batch_finished"}
    BY <1>12 DEF Pack, PackVerdict, RunBatchOp, ReadBack
  <2> QED  BY <2>1 DEF BytesInv, Run
<1>13. CASE UNCHANGED vars
  <2>1. /\ plan' = plan /\ stage' = stage /\ step' = step /\ pending' = pending /\ bytes' = bytes
    BY <1>13 DEF vars, planVars
  <2>2. MovedBefore(step)' = MovedBefore(step)  BY <2>1 DEF MovedBefore
  <2> QED  BY <2>1, <2>2 DEF BytesInv
<1> QED
  BY <1>1, <1>2, <1>3, <1>4, <1>5, <1>6, <1>7, <1>8, <1>9, <1>10, <1>11, <1>12, <1>13
  DEF WholeNext, PlanNext, Returned, wholeVars

(* A replay that finishes has moved exactly the bytes the compiler         *)
(* predicted: each one-shot transfer once, in whatever order a step's      *)
(* transfers are done, and each weight in whole chunks.                    *)
THEOREM BytesPredicted == WholeSpec => []BytesAsPredicted
<1>1. WholeInit => BytesInv
  <2>1. PlanInit => stage = "idle"  BY DEF PlanInit
  <2> QED  BY <2>1 DEF WholeInit, BytesInv, Run
<1>2. BytesInv => BytesAsPredicted
  BY DEF BytesInv, BytesAsPredicted
<1> QED  BY <1>1, <1>2, PlanInvariant, BytesNextInv, PTL DEF WholeSpec
-----------------------------------------------------------------------------
(* The compiler's own checks of a plan.                                    *)

(* What the slots are of, and the life they were given.                    *)
LEMMA SlotLives ==
  ASSUME CompileInv, stage \in Planned, NEW s \in plan.slots
  PROVE  /\ s.tensor \in DOMAIN AllIntervals(graph, plan)
         /\ AllIntervals(graph, plan)[s.tensor].first_use = s.first_use
         /\ AllIntervals(graph, plan)[s.tensor].last_use = s.last_use
         /\ AllIntervals(graph, plan)[s.tensor].nbytes \in Int
         /\ AllIntervals(graph, plan)[s.tensor].nbytes <= s.size
<1> DEFINE acts == LiveIntervals(graph)
           consts == {r \in plan.slots : r.tensor \notin DOMAIN acts}
           slotOf(t) == CHOOSE r \in consts : r.tensor = t
           ivs == AllIntervals(graph, plan)
<1>1. /\ IsGraph(graph) /\ WellFormed(graph)
      /\ SlotsSound(graph, plan.slots, request.budget)
      /\ plan.slots = Slots \union ConstSlots(graph, ScratchBase(Slots))
      /\ \A t \in Activations(graph) : \E r \in Slots : r.tensor = t
  BY PlanFacts
<1>2. /\ \A a, b \in plan.slots : a.tensor = b.tensor => a = b
      /\ s.size \in Int
  BY <1>1 DEF SlotsSound
<1>3. \A r \in Slots : /\ r.first_use = acts[r.tensor].first_use
                       /\ r.last_use = acts[r.tensor].last_use
                       /\ graph.nbytes[r.tensor] <= r.size
  <2>1. AllocInv /\ outcome = "accepted" /\ request.ivs = LiveIntervals(graph)
    BY DEF CompileInv, ScheduleInv, RequestInv, RequestFor, Planned
  <2> QED  BY <1>1, <2>1, ActivationSlots
<1>4. /\ DOMAIN acts = Activations(graph)
      /\ \A t \in DOMAIN acts : acts[t].nbytes = graph.nbytes[t] /\ graph.nbytes[t] \in Int
  <2>1. \A t \in Activations(graph) : graph.nbytes[t] \in Int  BY <1>1, GraphFacts DEF Activations
  <2> QED  BY <2>1 DEF LiveIntervals
<1>5. ivs = [t \in DOMAIN acts \union {r.tensor : r \in consts} |->
               IF t \in DOMAIN acts THEN acts[t]
               ELSE [first_use |-> slotOf(t).first_use, last_use |-> slotOf(t).last_use,
                     nbytes |-> slotOf(t).size]]
  BY DEF AllIntervals
<1> HIDE DEF acts, ivs
<1>6. CASE s.tensor \in DOMAIN acts
  <2>1. PICK r \in Slots : r.tensor = s.tensor  BY <1>1, <1>4, <1>6
  <2>2. r = s  BY <1>1, <1>2, <2>1
  <2>3. s.tensor \in DOMAIN ivs /\ ivs[s.tensor] = acts[s.tensor]  BY <1>5, <1>6
  <2> QED  BY <1>3, <1>4, <1>6, <2>2, <2>3 DEF ivs
<1>7. CASE s.tensor \notin DOMAIN acts
  <2>1. s \in consts  BY <1>7
  <2>2. slotOf(s.tensor) = s  BY <1>2, <2>1
  <2>3. s.tensor \in {r.tensor : r \in consts}  BY <2>1
  <2> HIDE DEF consts, slotOf
  <2>4. /\ s.tensor \in DOMAIN ivs
        /\ ivs[s.tensor] = [first_use |-> s.first_use, last_use |-> s.last_use, nbytes |-> s.size]
    BY <1>5, <1>7, <2>2, <2>3
  <2> QED  BY <1>2, <2>4 DEF ivs
<1> QED  BY <1>6, <1>7

(* allocation_problems finds nothing in the slots of a plan.               *)
LEMMA SlotsPass ==
  ASSUME CompileInv, stage \in Planned
  PROVE  ~AllocationProblems(plan.slots, AllIntervals(graph, plan), request.budget)
<1> DEFINE ivs == AllIntervals(graph, plan)
<1>1. /\ SlotsSound(graph, plan.slots, request.budget) /\ ~OverlappingSlots(plan.slots)
      /\ plan.slots = Slots \union ConstSlots(graph, ScratchBase(Slots))
      /\ \A t \in Activations(graph) : \E s \in Slots : s.tensor = t
      /\ request.budget \in Int
  BY PlanFacts
<1>2. \A s \in plan.slots : /\ s.tensor \in DOMAIN ivs
                            /\ ivs[s.tensor].nbytes \in Int /\ ivs[s.tensor].nbytes <= s.size
                            /\ ivs[s.tensor].first_use = s.first_use
                            /\ ivs[s.tensor].last_use = s.last_use
  BY SlotLives
<1>3. \A t \in DOMAIN ivs : \E s \in plan.slots : s.tensor = t
  <2>1. DOMAIN ivs = Activations(graph)
                       \union {s.tensor : s \in {r \in plan.slots : r.tensor \notin Activations(graph)}}
    BY DEF AllIntervals, LiveIntervals
  <2> QED  BY <1>1, <2>1
<1> HIDE DEF ivs
<1>4. ASSUME NEW a \in plan.slots, NEW b \in plan.slots PROVE ~(a # b /\ a.tensor = b.tensor)
  BY <1>1 DEF SlotsSound
<1>5. ASSUME NEW t \in DOMAIN ivs
      PROVE  \E s \in plan.slots : s.tensor = t /\ ~ \/ s.size < ivs[t].nbytes
                                                     \/ s.last_use < ivs[t].last_use
                                                     \/ s.first_use > ivs[t].first_use
  <2>1. PICK s \in plan.slots : s.tensor = t  BY <1>3
  <2>2. s.size \in Int /\ s.first_use \in Int /\ s.last_use \in Int  BY <1>1 DEF SlotsSound
  <2>3. ivs[t].nbytes <= s.size /\ ivs[t].first_use = s.first_use /\ ivs[t].last_use = s.last_use
    BY <1>2, <2>1
  <2>4. ivs[t].nbytes \in Int  BY <1>2, <2>1
  <2> QED  BY <2>1, <2>2, <2>3, <2>4
<1>6. ASSUME NEW a \in plan.slots, NEW b \in plan.slots, a # b, Clash(a, b)
      PROVE  ~Overlaps(ivs[a.tensor], ivs[b.tensor])
  <2>1. ~Overlaps(a, b)  BY <1>1, <1>6 DEF OverlappingSlots
  <2> QED  BY <1>2, <2>1 DEF Overlaps
<1>7. ASSUME NEW s \in plan.slots PROVE ~(SlotEnd(s) > request.budget)
  <2>1. SlotEnd(s) <= request.budget /\ s.offset \in Int /\ s.size \in Int
    BY <1>1 DEF SlotsSound
  <2>2. SlotEnd(s) \in Int  BY <2>1 DEF SlotEnd
  <2> QED  BY <1>1, <2>1, <2>2
<1> QED  BY <1>4, <1>5, <1>6, <1>7 DEF AllocationProblems, ivs

(* What is moved in, and what a step may rely on.                          *)
StagedIn(i) == {t.tensor : t \in plan.steps[i].dma_in \union plan.steps[i].tiling}

(* A feed or constant an op reads whole has been staged by then.           *)
LEMMA FirstReaderStages ==
  ASSUME CompileInv, stage \in Planned,
         NEW i \in DOMAIN graph.ops, NEW t \in OneShots(graph, graph.ops[i])
  PROVE  \E j \in 1 .. i : t \in StagedIn(j)
<1>1. /\ plan.steps = [j \in DOMAIN graph.ops |-> StepOf(graph, PlannedAt, j)]
      /\ DOMAIN graph.ops = 1 .. Len(graph.ops) /\ Len(graph.ops) \in Nat
  BY PlanFacts, GraphFacts
<1> DEFINE A == {j \in DOMAIN graph.ops : t \in OneShots(graph, graph.ops[j])}
<1>2. A \subseteq Nat /\ A # {}  BY <1>1
<1>3. PICK j \in A : \A k \in A : j <= k
  <2> HIDE DEF A
  <2> QED  BY <1>2, LeastNat
<1>4. j \in 1 .. i /\ j \in DOMAIN graph.ops  BY <1>1, <1>3
<1>5. t \notin OneShotsBefore(graph, j)
  <2> SUFFICES ASSUME NEW k \in 1 .. j - 1, t \in OneShots(graph, graph.ops[k]) PROVE FALSE
    BY DEF OneShotsBefore
  <2>1. k \in DOMAIN graph.ops /\ k < j  BY <1>1, <1>4
  <2> QED  BY <1>1, <1>3, <2>1
<1>6. Transfer(graph, PlannedAt, t, "in") \in plan.steps[j].dma_in
  BY <1>1, <1>3, <1>4, <1>5 DEF StepOf
<1>7. Transfer(graph, PlannedAt, t, "in").tensor = t  BY DEF Transfer
<1> QED  BY <1>4, <1>6, <1>7 DEF StagedIn

(* Every operand is in VTCM, or moved there, before its op runs.           *)
LEMMA OperandsStaged ==
  ASSUME CompileInv, stage \in Planned, NEW i \in DOMAIN graph.ops, NEW t \in Reads(graph.ops[i])
  PROVE  \/ \E j \in 1 .. i : t \in StagedIn(j)
         \/ \E j \in 1 .. i - 1 : t \in Writes(graph.ops[j])
<1> DEFINE op == graph.ops[i]
<1>1. /\ WellFormed(graph) /\ i \in 1 .. i
      /\ plan.steps = [j \in DOMAIN graph.ops |-> StepOf(graph, PlannedAt, j)]
  <2>1. i \in Nat \ {0}  BY PlanFacts, GraphFacts
  <2> QED  BY <2>1, PlanFacts
<1>2. CASE t \in Weight(graph, op)
  <2> DEFINE x == [tensor |-> t, at |-> PlannedAt[t], nbytes |-> PerChunk(graph, t),
                   direction |-> "in", count |-> Chunks(graph, t)]
  <2>1. x \in plan.steps[i].tiling  BY <1>1, <1>2 DEF StepOf
  <2>2. x.tensor = t  OBVIOUS
  <2> HIDE DEF x
  <2> QED  BY <1>1, <2>1, <2>2 DEF StagedIn
<1>3. CASE t \notin Weight(graph, op) /\ t \in graph.inputs \union graph.const
  <2>1. t \in OneShots(graph, op)  BY <1>3 DEF OneShots
  <2> QED  BY <2>1, FirstReaderStages
<1>4. CASE \E j \in 1 .. i - 1 : t \in Writes(graph.ops[j])  BY <1>4
<1> QED  BY <1>1, <1>2, <1>3, <1>4, OperandsCome

(* Every feed is moved in, read or not.                                    *)
LEMMA FeedsStaged ==
  ASSUME CompileInv, stage \in Planned, Ordinary(graph), NEW t \in graph.inputs
  PROVE  \E i \in DOMAIN plan.steps : t \in StagedIn(i)
<1> DEFINE n == Len(graph.ops)
<1>1. /\ IsGraph(graph) /\ WellFormed(graph)
      /\ plan.steps = [j \in DOMAIN graph.ops |-> StepOf(graph, PlannedAt, j)]
      /\ \A a \in Activations(graph) : \E s \in Slots : s.tensor = a
  BY PlanFacts
<1>2. n \in Nat \ {0} /\ DOMAIN graph.ops = 1 .. n  BY <1>1, GraphFacts
<1>3. CASE \E j \in DOMAIN graph.ops : t \in OneShots(graph, graph.ops[j])
  <2>1. PICK j \in DOMAIN graph.ops : t \in OneShots(graph, graph.ops[j])  BY <1>3
  <2>2. \E k \in 1 .. j : t \in StagedIn(k)  BY <2>1, FirstReaderStages
  <2>3. 1 .. j \subseteq DOMAIN plan.steps  BY <1>1, <1>2
  <2> QED  BY <2>2, <2>3
<1>4. CASE \A j \in DOMAIN graph.ops : t \notin OneShots(graph, graph.ops[j])
  <2>1. t \notin OneShotsBefore(graph, n + 1)
    <3>1. 1 .. (n + 1) - 1 = DOMAIN graph.ops  BY <1>2
    <3> QED  BY <1>4, <3>1 DEF OneShotsBefore
  <2>2. t \in Activations(graph)
    <3>1. t \in graph.tensors \ graph.const  BY <1>1, GraphFacts DEF Ordinary
    <3> QED  BY <3>1 DEF Activations
  <2>3. t \in DOMAIN PlannedAt  BY <1>1, <2>2 DEF PlannedAt, Addresses
  <2>4. t \in UnreadInputs(graph, PlannedAt)  BY <2>1, <2>3 DEF UnreadInputs
  <2>5. Transfer(graph, PlannedAt, t, "in") \in plan.steps[1].dma_in
    BY <1>1, <1>2, <2>4 DEF StepOf
  <2>6. Transfer(graph, PlannedAt, t, "in").tensor = t  BY DEF Transfer
  <2>7. 1 \in DOMAIN plan.steps  BY <1>1, <1>2
  <2> QED  BY <2>5, <2>6, <2>7 DEF StagedIn
<1> QED  BY <1>3, <1>4

(* Every output leaves when it has been computed.                          *)
LEMMA ResultsLeave ==
  ASSUME CompileInv, stage \in Planned, Ordinary(graph), NEW t \in graph.outputs
  PROVE  \E i \in DOMAIN plan.steps : \E x \in plan.steps[i].dma_out : x.tensor = t
<1>1. /\ IsGraph(graph) /\ WellFormed(graph)
      /\ plan.steps = [j \in DOMAIN graph.ops |-> StepOf(graph, PlannedAt, j)]
  BY PlanFacts
<1>2. DOMAIN graph.ops = 1 .. (Len(graph.ops) + 1) - 1  BY <1>1, GraphFacts
<1>3. t \in WrittenBefore(graph, Len(graph.ops) + 1) /\ t \notin graph.inputs \union graph.const
  BY <1>1 DEF WellFormed, Ordinary
<1>4. PICK i \in DOMAIN graph.ops : t \in Writes(graph.ops[i])
  BY <1>2, <1>3 DEF WrittenBefore
<1>5. Transfer(graph, PlannedAt, t, "out") \in plan.steps[i].dma_out
  BY <1>1, <1>4 DEF StepOf
<1>6. Transfer(graph, PlannedAt, t, "out").tensor = t  BY DEF Transfer
<1> QED  BY <1>1, <1>5, <1>6

(* A buffer of chunks holds one.                                           *)
LEMMA ChunkFits ==
  ASSUME NEW n \in Nat \ {0}
  PROVE  /\ Chunk \in Nat \ {0} /\ Region \in Nat \ {0} /\ Chunk <= Region
         /\ (IF n < Chunk THEN n ELSE Chunk) <= Region
<1> DEFINE A == {k \in Nat : Chunk <= Chunk * (k + 1)}
<1>1. Chunk \in Nat \ {0} /\ Buffers \in Nat \ {0}  BY PlanAssumption
<1>2. 0 \in A  BY <1>1
<1>3. \A k \in Nat : k \in A => k + 1 \in A
  <2> SUFFICES ASSUME NEW k \in Nat, Chunk <= Chunk * (k + 1)
               PROVE  Chunk <= Chunk * ((k + 1) + 1)
    OBVIOUS
  <2> DEFINE m == Chunk * (k + 1)
  <2>1. Chunk * ((k + 1) + 1) = m + Chunk /\ m \in Int  BY <1>1
  <2> HIDE DEF m
  <2>2. Chunk <= m + Chunk  BY <1>1, <2>1 DEF m
  <2> QED  BY <2>1, <2>2
<1>4. Nat \subseteq A
  <2> HIDE DEF A
  <2> QED  BY <1>2, <1>3, NatSetInduction
<1>5. Buffers - 1 \in A /\ (Buffers - 1) + 1 = Buffers  BY <1>1, <1>4
<1>6. Chunk <= Region  BY <1>5 DEF Region
<1>7. Region \in Nat  BY <1>1 DEF Region
<1> HIDE DEF A
<1> QED  BY <1>1, <1>6, <1>7

(* The slot a move of step i goes to or comes from.                        *)
Berth(s, i, name, x) ==
  /\ s \in plan.slots /\ s.tensor = name
  /\ s.first_use <= i - 1 /\ i - 1 <= s.last_use
  /\ Cells(x) \subseteq s.offset .. SlotEnd(s) - 1

LEMMA HousedBerth ==
  ASSUME CompileInv, stage \in Planned, NEW i \in DOMAIN graph.ops, NEW x,
         Housed(x.tensor), x.at = PlannedAt[x.tensor], x.nbytes = graph.nbytes[x.tensor],
         x.tensor \in graph.tensors, i - 1 \in UsedAt(graph, x.tensor)
  PROVE  \E s : Berth(s, i, x.tensor, x)
<1>1. /\ SlotsSound(graph, plan.slots, request.budget) /\ IsGraph(graph) /\ WellFormed(graph)
  BY PlanFacts
<1> DEFINE s == SlotFor(x.tensor)
<1>2. s \in plan.slots /\ s.tensor = x.tensor  BY DEF Housed, InImage, SlotFor
<1>3. s.offset = x.at /\ x.nbytes <= s.size  BY DEF Housed
<1> HIDE DEF s
<1>4. /\ s.offset \in Int /\ s.size \in Int
      /\ s.first_use <= i - 1 /\ i - 1 <= s.last_use
  BY <1>1, <1>2 DEF SlotsSound
<1>5. x.nbytes \in Int  BY <1>1, GraphFacts
<1>6. Cells(x) \subseteq s.offset .. SlotEnd(s) - 1
  <2>1. x.at + x.nbytes - 1 <= SlotEnd(s) - 1  BY <1>3, <1>4, <1>5 DEF SlotEnd
  <2>2. SlotEnd(s) \in Int  BY <1>4 DEF SlotEnd
  <2> QED  BY <1>3, <1>4, <1>5, <2>1, <2>2 DEF Cells
<1> QED  BY <1>2, <1>4, <1>6 DEF Berth

(* A chunk lies in the region set aside for chunks.                        *)
LEMMA ChunkBerth ==
  ASSUME CompileInv, stage \in Planned, Ordinary(graph),
         NEW i \in DOMAIN graph.ops, NEW x \in plan.steps[i].tiling
  PROVE  \E s : Berth(s, i, Scratch, x)
<1> DEFINE base == ScratchBase(Slots)
           s == WholePlan(graph, Scratch, base, Region)
<1>1. /\ SlotsSound(graph, plan.slots, request.budget) /\ IsGraph(graph) /\ WellFormed(graph)
      /\ plan.slots = Slots \union ConstSlots(graph, base)
      /\ plan.steps = [j \in DOMAIN graph.ops |-> StepOf(graph, PlannedAt, j)]
      /\ \A r \in Slots : r.tensor \in Activations(graph)
  BY PlanFacts
<1>2. /\ x.tensor \in Weight(graph, graph.ops[i])
      /\ x.at = PlannedAt[x.tensor] /\ x.nbytes = PerChunk(graph, x.tensor)
  BY <1>1 DEF StepOf
<1>3. /\ x.tensor \in ReadConsts(graph) /\ StreamedFirst(graph, x.tensor)
      /\ x.tensor \in graph.const
  <2>1. x.tensor \in Weights(graph)  BY <1>2 DEF Weights
  <2> QED  BY <1>1, <2>1, WeightsAndResidents DEF Ordinary, ReadConsts
<1>4. x.at = base
  <2>1. x.tensor \notin {r.tensor : r \in Slots}  BY <1>1, <1>3 DEF Activations
  <2>2. x.tensor \in DOMAIN ConstOffsets(graph, base)
        /\ ConstOffsets(graph, base)[x.tensor] = base
    BY <1>3 DEF ConstOffsets
  <2> QED  BY <1>2, <2>1, <2>2 DEF PlannedAt, Addresses
<1>5. x.nbytes \in Int /\ x.nbytes <= Region /\ Region \in Int
  <2> DEFINE n == graph.nbytes[x.tensor]
  <2>1. n \in Nat \ {0}  BY <1>1, <1>3, GraphFacts
  <2>2. x.nbytes = IF n < Chunk THEN n ELSE Chunk  BY <1>2 DEF PerChunk
  <2> HIDE DEF n
  <2> QED  BY <2>1, <2>2, ChunkFits
<1>6. s \in plan.slots  BY <1>1 DEF ConstSlots
<1>7. /\ s.tensor = Scratch /\ s.offset = base /\ s.size = Region
      /\ s.first_use = 0 /\ s.last_use = Len(graph.ops)
  BY DEF WholePlan
<1> HIDE DEF s, base
<1>8. s.offset \in Int  BY <1>1, <1>6 DEF SlotsSound
<1>9. Cells(x) \subseteq s.offset .. SlotEnd(s) - 1  BY <1>4, <1>5, <1>7, <1>8 DEF Cells, SlotEnd
<1>10. s.first_use <= i - 1 /\ i - 1 <= s.last_use  BY <1>1, <1>7, GraphFacts
<1> QED  BY <1>6, <1>7, <1>9, <1>10 DEF Berth

(* Two moves of one step share no byte.                                    *)
LEMMA MovesApart ==
  ASSUME CompileInv, stage \in Planned, Ordinary(graph), NEW i \in DOMAIN graph.ops,
         NEW moves, moves = plan.steps[i].dma_in \union plan.steps[i].tiling
                              \union plan.steps[i].dma_out,
         NEW a \in moves, NEW b \in moves, a # b
  PROVE  Cells(a) \intersect Cells(b) = {}
<1> DEFINE op == graph.ops[i]
           name(x) == IF x \in plan.steps[i].tiling THEN Scratch ELSE x.tensor
<1>1. /\ IsGraph(graph) /\ WellFormed(graph)
      /\ SlotsSound(graph, plan.slots, request.budget) /\ ~OverlappingSlots(plan.slots)
      /\ plan.steps = [j \in DOMAIN graph.ops |-> StepOf(graph, PlannedAt, j)]
  BY PlanFacts
<1>2. StepsSound(graph, plan.steps)  BY <1>1, StepsAreSound
<1>3. /\ \A t \in plan.steps[i].dma_in :
           /\ t.tensor \in graph.inputs \union graph.const /\ Housed(t.tensor)
           /\ t.at = PlannedAt[t.tensor] /\ t = Transfer(graph, PlannedAt, t.tensor, "in")
      /\ \A w \in plan.steps[i].tiling : ~InImage(w.tensor)
      /\ \A t \in Writes(op) : Housed(t)
      /\ \A t \in plan.steps[i].dma_out :
           /\ t.tensor \in Writes(op) /\ t.at = PlannedAt[t.tensor]
           /\ t = Transfer(graph, PlannedAt, t.tensor, "out")
  BY TransfersHoused
<1>4. \A t, dir : Transfer(graph, PlannedAt, t, dir).nbytes = graph.nbytes[t]  BY DEF Transfer
<1>5. \A t \in Writes(op) : t \in graph.tensors /\ i - 1 \in UsedAt(graph, t)
                            /\ t \notin graph.inputs \union graph.const
  <2>1. \A t \in Writes(op) : i - 1 \in UsedAt(graph, t)  BY DEF UsedAt, TouchedAt
  <2> QED  BY <1>1, <2>1, GraphFacts, OperandsCome
<1>6. ASSUME NEW x \in moves PROVE \E s : Berth(s, i, name(x), x)
  <2>1. CASE x \in plan.steps[i].tiling  BY <2>1, ChunkBerth
  <2>2. CASE x \in plan.steps[i].dma_in
    <3>1. /\ Housed(x.tensor) /\ x.at = PlannedAt[x.tensor]
          /\ x.nbytes = graph.nbytes[x.tensor]
      BY <1>3, <1>4, <2>2
    <3>2. x.tensor \in graph.tensors /\ i - 1 \in UsedAt(graph, x.tensor)
      BY <1>2, <2>2 DEF StepsSound
    <3>3. x \notin plan.steps[i].tiling  BY <1>3, <3>1 DEF Housed
    <3> QED  BY <3>1, <3>2, <3>3, HousedBerth
  <2>3. CASE x \in plan.steps[i].dma_out
    <3>1. /\ Housed(x.tensor) /\ x.at = PlannedAt[x.tensor]
          /\ x.nbytes = graph.nbytes[x.tensor]
      BY <1>3, <1>4, <2>3
    <3>2. x.tensor \in graph.tensors /\ i - 1 \in UsedAt(graph, x.tensor)
      BY <1>3, <1>5, <2>3
    <3>3. x \notin plan.steps[i].tiling  BY <1>3, <3>1 DEF Housed
    <3> QED  BY <3>1, <3>2, <3>3, HousedBerth
  <2> QED  BY <2>1, <2>2, <2>3
<1>7. name(a) # name(b)
  <2>1. graph.tensors \subseteq Nat  BY <1>1, GraphFacts
  <2>2. \A x \in plan.steps[i].dma_in \union plan.steps[i].dma_out :
          x.tensor # Scratch /\ x \notin plan.steps[i].tiling
    <3>1. \A x \in plan.steps[i].dma_in \union plan.steps[i].dma_out : x.tensor \in graph.tensors
      BY <1>2, <1>3, <1>5 DEF StepsSound
    <3> QED  BY <1>3, <2>1, <3>1 DEF Housed, Scratch
  <2>3. \A x, y \in plan.steps[i].tiling : x = y
    <3>1. \A v, w \in Weight(graph, op) : v = w
      <4>1. op.ins \in Seq(Nat)  BY <1>1, OpFacts
      <4>2. \A j, k \in DOMAIN op.ins : j <= k /\ k <= j => j = k  BY <4>1
      <4> QED  BY <4>2 DEF Weight, WeightAt
    <3> QED  BY <1>1, <3>1 DEF StepOf
  <2>4. \A x, y \in plan.steps[i].dma_in : x.tensor = y.tensor => x = y  BY <1>3
  <2>5. \A x, y \in plan.steps[i].dma_out : x.tensor = y.tensor => x = y  BY <1>3
  <2>6. \A x \in plan.steps[i].dma_in, y \in plan.steps[i].dma_out : x.tensor # y.tensor
    BY <1>3, <1>5
  <2> QED  BY <2>2, <2>3, <2>4, <2>5, <2>6
<1> HIDE DEF name
<1>8. PICK s : Berth(s, i, name(a), a)  BY <1>6
<1>9. PICK r : Berth(r, i, name(b), b)  BY <1>6
<1>10. /\ s \in plan.slots /\ r \in plan.slots /\ s # r
       /\ Cells(a) \subseteq s.offset .. SlotEnd(s) - 1
       /\ Cells(b) \subseteq r.offset .. SlotEnd(r) - 1
  BY <1>7, <1>8, <1>9 DEF Berth
<1>11. /\ s.offset \in Int /\ SlotEnd(s) \in Int /\ r.offset \in Int /\ SlotEnd(r) \in Int
       /\ s.first_use \in Int /\ s.last_use \in Int /\ r.first_use \in Int /\ r.last_use \in Int
  BY <1>1, <1>10 DEF SlotsSound, SlotEnd
<1>12. Overlaps(s, r)
  <2>1. /\ s.first_use <= i - 1 /\ i - 1 <= s.last_use
        /\ r.first_use <= i - 1 /\ i - 1 <= r.last_use
    BY <1>8, <1>9 DEF Berth
  <2>2. i \in Int  BY <1>1, OpFacts
  <2> QED  BY <1>11, <2>1, <2>2 DEF Overlaps
<1>13. ~Clash(s, r)  BY <1>1, <1>10, <1>12 DEF OverlappingSlots
<1> QED  BY <1>10, <1>11, <1>13, SharedByte DEF Clash

(* What lies in VTCM while an op runs, and how much of it.                 *)
Held(g) == [t \in g.tensors \union {Scratch} |-> IF t = Scratch THEN Region ELSE g.nbytes[t]]

HasRoom(t, i) ==
  \E s \in plan.slots : /\ s.tensor = t /\ Held(graph)[t] <= s.size
                        /\ s.first_use <= i - 1 /\ i - 1 <= s.last_use

LEMMA HeldFacts ==
  ASSUME NEW g, IsGraph(g), WellFormed(g)
  PROVE  /\ Held(g) \in [g.tensors \union {Scratch} -> Nat \ {0}]
         /\ IsFiniteSet(g.tensors \union {Scratch})
         /\ Scratch \notin g.tensors
         /\ Held(g)[Scratch] = Region /\ Region \in Int
         /\ \A t \in g.tensors : Held(g)[t] = g.nbytes[t]
<1>1. g.tensors \subseteq Nat /\ \A t \in g.tensors : g.nbytes[t] \in Nat \ {0}  BY GraphFacts
<1>2. Region \in Nat \ {0}
  <2>1. 1 \in Nat \ {0}  OBVIOUS
  <2> QED  BY <2>1, ChunkFits
<1>3. IsFiniteSet(g.tensors \union {Scratch})  BY FS_AddElement DEF IsGraph
<1>4. Scratch \notin g.tensors  BY <1>1 DEF Scratch
<1> QED  BY <1>1, <1>2, <1>3, <1>4 DEF Held

(* Tensors with a slot at one step fit the budget together.                *)
LEMMA RoomForAll ==
  ASSUME CompileInv, stage \in Planned, NEW i \in DOMAIN graph.ops,
         NEW K, K \subseteq graph.tensors \union {Scratch}, \A t \in K : HasRoom(t, i)
  PROVE  SumOver(Held(graph), K) <= request.budget
<1> DEFINE n == request.budget
           slot(t) == CHOOSE s \in plan.slots :
                        /\ s.tensor = t /\ Held(graph)[t] <= s.size
                        /\ s.first_use <= i - 1 /\ i - 1 <= s.last_use
           at == [t \in K |-> slot(t).offset]
           size == [t \in K |-> Held(graph)[t]]
<1>1. /\ IsGraph(graph) /\ WellFormed(graph)
      /\ SlotsSound(graph, plan.slots, n) /\ ~OverlappingSlots(plan.slots) /\ n \in Int
      /\ plan.slots = Slots \union ConstSlots(graph, ScratchBase(Slots))
  BY PlanFacts
<1>2. \A t \in K : /\ slot(t) \in plan.slots /\ slot(t).tensor = t
                   /\ Held(graph)[t] <= slot(t).size
                   /\ slot(t).first_use <= i - 1 /\ i - 1 <= slot(t).last_use
  BY DEF HasRoom
<1> HIDE DEF slot
<1>3. \A t \in K : /\ slot(t).offset \in Nat /\ slot(t).size \in Int
                   /\ SlotEnd(slot(t)) = slot(t).offset + slot(t).size
                   /\ SlotEnd(slot(t)) \in Int /\ SlotEnd(slot(t)) <= n
                   /\ slot(t).first_use \in Int /\ slot(t).last_use \in Int
  BY <1>1, <1>2 DEF SlotsSound, SlotEnd
<1>4. /\ Held(graph) \in [graph.tensors \union {Scratch} -> Nat \ {0}]
      /\ IsFiniteSet(graph.tensors \union {Scratch})
  BY <1>1, HeldFacts
<1>5. IsFiniteSet(K)  BY <1>4, FS_Subset
<1>6. at \in [K -> Nat] /\ size \in [K -> Nat \ {0}]
  <2>1. \A t \in K : Held(graph)[t] \in Nat \ {0}  BY <1>4
  <2> QED  BY <1>3, <2>1
<1>7. n \in Nat
  <2> DEFINE r == WholePlan(graph, Scratch, ScratchBase(Slots), Region)
  <2>1. r \in plan.slots  BY <1>1 DEF ConstSlots
  <2>2. r.size = Region  BY DEF WholePlan
  <2> HIDE DEF r
  <2>3. r.offset \in Nat /\ SlotEnd(r) <= n  BY <1>1, <2>1 DEF SlotsSound
  <2>4. Region \in Nat
    <3>1. Chunk \in Nat /\ Buffers \in Nat  BY PlanAssumption
    <3> QED  BY <3>1 DEF Region
  <2> HIDE DEF n
  <2> QED  BY <1>1, <2>2, <2>3, <2>4 DEF SlotEnd
<1>8. \A t \in K : at[t] = slot(t).offset /\ size[t] = Held(graph)[t]  OBVIOUS
<1>9. \A t \in K : at[t] + size[t] <= SlotEnd(slot(t)) /\ at[t] \in Int /\ size[t] \in Int
  <2> HIDE DEF at, size
  <2> QED  BY <1>2, <1>3, <1>6, <1>8
<1>10. \A x, y \in K : x # y => SlotEnd(slot(x)) <= slot(y).offset \/ SlotEnd(slot(y)) <= slot(x).offset
  <2> SUFFICES ASSUME NEW x \in K, NEW y \in K, x # y
               PROVE  SlotEnd(slot(x)) <= slot(y).offset \/ SlotEnd(slot(y)) <= slot(x).offset
    OBVIOUS
  <2>1. slot(x) # slot(y) /\ slot(x) \in plan.slots /\ slot(y) \in plan.slots  BY <1>2
  <2>2. i \in Int  BY <1>1, OpFacts
  <2>3. Overlaps(slot(x), slot(y))  BY <1>2, <1>3, <2>2 DEF Overlaps
  <2>4. ~Clash(slot(x), slot(y))  BY <1>1, <2>1, <2>3 DEF OverlappingSlots
  <2> QED  BY <1>3, <2>4 DEF Clash
<1> HIDE DEF at, size, n
<1>11. \A x, y \in K : x # y => at[x] + size[x] <= at[y] \/ at[y] + size[y] <= at[x]
  <2> SUFFICES ASSUME NEW x \in K, NEW y \in K, x # y
               PROVE  at[x] + size[x] <= at[y] \/ at[y] + size[y] <= at[x]
    OBVIOUS
  <2>1. /\ at[x] + size[x] <= SlotEnd(slot(x)) /\ at[x] \in Int /\ size[x] \in Int
        /\ at[y] + size[y] <= SlotEnd(slot(y)) /\ at[y] \in Int /\ size[y] \in Int
        /\ SlotEnd(slot(x)) \in Int /\ SlotEnd(slot(y)) \in Int
    BY <1>3, <1>9
  <2>2. SlotEnd(slot(x)) <= at[y] \/ SlotEnd(slot(y)) <= at[x]  BY <1>8, <1>10
  <2> QED  BY <2>1, <2>2
<1>12. \A x \in K : at[x] + size[x] <= n
  <2> SUFFICES ASSUME NEW x \in K PROVE at[x] + size[x] <= n
    OBVIOUS
  <2>1. /\ at[x] + size[x] <= SlotEnd(slot(x)) /\ at[x] \in Int /\ size[x] \in Int
        /\ SlotEnd(slot(x)) \in Int /\ SlotEnd(slot(x)) <= n
    BY <1>3, <1>9
  <2> QED  BY <1>7, <2>1
<1>13. SumOver(size, K) <= n  BY <1>5, <1>6, <1>7, <1>11, <1>12, Packed
<1>14. SumOver(size, K) = SumOver(Held(graph), K)
  <2>1. [t \in K |-> size[t]] = [t \in K |-> Held(graph)[t]]  BY <1>8
  <2> QED  BY <2>1 DEF SumOver
<1> QED  BY <1>13, <1>14 DEF n

(* The sizes of a sequence of different tensors.                           *)
LEMMA SizesAdd ==
  ASSUME NEW g, IsGraph(g), WellFormed(g), NEW T \in Seq(g.tensors),
         \A j, k \in DOMAIN T : T[j] = T[k] => j = k
  PROVE  SumFunction([k \in DOMAIN T |-> g.nbytes[T[k]]])
           = SumOver(Held(g), {T[k] : k \in DOMAIN T})
<1> DEFINE U == g.tensors \union {Scratch}
           f == Held(g)
<1>1. /\ f \in [U -> Int] /\ IsFiniteSet(U)
      /\ \A t \in g.tensors : f[t] = g.nbytes[t]
  <2>1. /\ f \in [U -> Nat \ {0}] /\ IsFiniteSet(U)
        /\ \A t \in g.tensors : f[t] = g.nbytes[t]
    BY HeldFacts
  <2> HIDE DEF f, U
  <2> QED  BY <2>1
<1>2. IsFiniteSet(DOMAIN T) /\ T \in [DOMAIN T -> g.tensors]
  <2>1. DOMAIN T = 1 .. Len(T) /\ Len(T) \in Nat /\ T \in [1 .. Len(T) -> g.tensors]
    OBVIOUS
  <2>2. IsFiniteSet(1 .. Len(T))
    <3> DEFINE n == Len(T)
    <3>1. n \in Nat  BY <2>1
    <3> HIDE DEF n
    <3>2. IsFiniteSet(1 .. n)  BY <3>1, FS_Interval
    <3> QED  BY <3>2 DEF n
  <2> QED  BY <2>1, <2>2
<1>3. T \in [DOMAIN T -> U]  BY <1>2
<1>4. [k \in DOMAIN T |-> g.nbytes[T[k]]] = [k \in DOMAIN T |-> f[T[k]]]  BY <1>1, <1>2
<1> HIDE DEF f, U
<1>5. SumFunction([k \in DOMAIN T |-> f[T[k]]]) = SumOver(f, {T[k] : k \in DOMAIN T})
  BY <1>1, <1>2, <1>3, SumRenamed
<1> QED  BY <1>4, <1>5 DEF f

(* What an op holds whole has a slot while it runs; so have the chunks.    *)
LEMMA WhoHasRoom ==
  ASSUME CompileInv, stage \in Planned, Ordinary(graph), NEW i \in DOMAIN graph.ops
  PROVE  /\ \A t \in Writes(graph.ops[i]) : HasRoom(t, i)
         /\ \A t \in Reads(graph.ops[i]) \ Weight(graph, graph.ops[i]) : HasRoom(t, i)
         /\ HasRoom(Scratch, i)
<1> DEFINE op == graph.ops[i]
           r == WholePlan(graph, Scratch, ScratchBase(Slots), Region)
<1>1. /\ IsGraph(graph) /\ WellFormed(graph)
      /\ SlotsSound(graph, plan.slots, request.budget)
      /\ plan.slots = Slots \union ConstSlots(graph, ScratchBase(Slots))
  BY PlanFacts
<1>2. /\ \A t \in graph.tensors : Held(graph)[t] = graph.nbytes[t]
      /\ Held(graph)[Scratch] = Region
      /\ Region \in Int
  BY <1>1, HeldFacts
<1>3. ASSUME NEW t \in Reads(op) \union Writes(op), Housed(t) PROVE HasRoom(t, i)
  <2>1. t \in graph.tensors /\ i - 1 \in UsedAt(graph, t)
    <3>1. i - 1 \in TouchedAt(graph, t)  BY DEF TouchedAt
    <3> QED  BY <1>1, <3>1, GraphFacts DEF UsedAt
  <2>2. /\ SlotFor(t) \in plan.slots /\ SlotFor(t).tensor = t
        /\ graph.nbytes[t] <= SlotFor(t).size
    BY <1>3 DEF Housed, InImage, SlotFor
  <2>3. SlotFor(t).first_use <= i - 1 /\ i - 1 <= SlotFor(t).last_use
    BY <1>1, <2>1, <2>2 DEF SlotsSound
  <2> QED  BY <1>2, <2>1, <2>2, <2>3 DEF HasRoom
<1>4. /\ \A t \in Activations(graph) : Housed(t)
      /\ \A c \in ReadConsts(graph) \ Weights(graph) : Housed(c)
  BY WhoIsHoused
<1>5. \A t \in Writes(op) : Housed(t)  BY <1>1, <1>4, OperandsCome
<1>6. ASSUME NEW t \in Reads(op) \ Weight(graph, op) PROVE Housed(t)
  <2>1. t \in graph.tensors  BY <1>1, GraphFacts
  <2>2. CASE t \in graph.const
    <3>1. t \in OneShots(graph, op)  BY <2>2 DEF OneShots
    <3>2. t \notin Weights(graph)  BY <3>1 DEF Ordinary, SharedUse
    <3>3. PICK k \in DOMAIN op.ins : op.ins[k] = t  BY DEF Reads
    <3>4. <<i, k>> \in Meets(graph, t)  BY <3>3 DEF Meets
    <3>5. t \in ReadConsts(graph)  BY <2>2, <3>4 DEF ReadConsts
    <3> QED  BY <1>4, <3>2, <3>5
  <2>3. CASE t \notin graph.const
    <3>1. i - 1 \in TouchedAt(graph, t)  BY DEF TouchedAt
    <3> QED  BY <1>4, <2>1, <2>3, <3>1 DEF Activations
  <2> QED  BY <2>2, <2>3
<1>7. HasRoom(Scratch, i)
  <2>1. r \in plan.slots  BY <1>1 DEF ConstSlots
  <2>2. r.tensor = Scratch /\ r.size = Region /\ r.first_use = 0 /\ r.last_use = Len(graph.ops)
    BY DEF WholePlan
  <2> HIDE DEF r
  <2>3. 0 <= i - 1 /\ i - 1 <= Len(graph.ops)  BY <1>1, GraphFacts
  <2> QED  BY <1>2, <2>1, <2>2, <2>3 DEF HasRoom
<1> QED  BY <1>3, <1>5, <1>6, <1>7

(* A sequence is one of any set its elements are in.                       *)
LEMMA SeqOfThese ==
  ASSUME NEW s \in Seq(Nat), NEW S, \A k \in DOMAIN s : s[k] \in S
  PROVE  s \in Seq(S)
OBVIOUS

(* An op's working set fits the budget of a plan that has a slot for all   *)
(* of it, if nothing in it is counted twice.                               *)
LEMMA WorkingSetFits ==
  ASSUME CompileInv, stage \in Planned, Ordinary(graph), ~Overcounted(graph),
         NEW i \in DOMAIN graph.ops
  PROVE  /\ WorkingSet(graph, graph.ops[i]) <= request.budget
         /\ WorkingSet(graph, graph.ops[i]) \in Int
<1> DEFINE op == graph.ops[i]
           U == graph.tensors \union {Scratch}
           f == Held(graph)
           n == request.budget
           size(T) == SumFunction([k \in DOMAIN T |-> graph.nbytes[T[k]]])
           tail == SubSeq(op.ins, 3, Len(op.ins))
           rest == {tail[k] : k \in DOMAIN tail}
           W == Writes(op)
<1>1. IsGraph(graph) /\ Shaped(graph) /\ WellFormed(graph)  BY PlanFacts
<1>2. /\ f \in [U -> Int] /\ IsFiniteSet(U) /\ Scratch \notin graph.tensors
      /\ f[Scratch] = Region
      /\ \A t \in graph.tensors : f[t] = graph.nbytes[t]
  <2>1. /\ f \in [U -> Nat \ {0}] /\ IsFiniteSet(U) /\ Scratch \notin graph.tensors
        /\ f[Scratch] = Region
        /\ \A t \in graph.tensors : f[t] = graph.nbytes[t]
    BY <1>1, HeldFacts
  <2> HIDE DEF f, U
  <2> QED  BY <2>1
<1>3. /\ op.ins \in Seq(graph.tensors) /\ op.outs \in Seq(graph.tensors)
      /\ Reads(op) \subseteq graph.tensors /\ W \subseteq graph.tensors
  <2>1. op.ins \in Seq(Nat) /\ op.outs \in Seq(Nat)  BY <1>1, OpFacts
  <2>2. Reads(op) \subseteq graph.tensors /\ W \subseteq graph.tensors  BY <1>1, GraphFacts
  <2>3. \A k \in DOMAIN op.ins : op.ins[k] \in graph.tensors  BY <2>2 DEF Reads
  <2>4. \A k \in DOMAIN op.outs : op.outs[k] \in graph.tensors  BY <2>2 DEF Writes
  <2> HIDE DEF op, W
  <2> QED  BY <2>1, <2>2, <2>3, <2>4, SeqOfThese
<1>4. /\ \A j, k \in DOMAIN op.ins : op.ins[j] = op.ins[k] => j = k
      /\ Weight(graph, op) # {} => Weight(graph, op) = {op.ins[2]}
  BY DEF Overcounted
<1>5. \A j, k \in DOMAIN op.outs : op.outs[j] = op.outs[k] => j = k
  <2>1. Cardinality(W) = Len(op.outs)  BY <1>1 DEF WellFormed
  <2>2. DOMAIN op.outs = 1 .. Len(op.outs) /\ Len(op.outs) \in Nat
        /\ op.outs \in [DOMAIN op.outs -> W]
    BY <1>3 DEF Writes
  <2>3. IsFiniteSet(DOMAIN op.outs) /\ Cardinality(DOMAIN op.outs) = Len(op.outs)
    <3> DEFINE m == Len(op.outs)
    <3>1. m \in Nat /\ DOMAIN op.outs = 1 .. m  BY <2>2
    <3> HIDE DEF m
    <3>2. IsFiniteSet(1 .. m) /\ Cardinality(1 .. m) = m  BY <3>1, FS_Interval
    <3> QED  BY <3>1, <3>2 DEF m
  <2>4. op.outs \in Surjection(DOMAIN op.outs, W)  BY <2>2 DEF Surjection, Writes
  <2>5. op.outs \in Injection(DOMAIN op.outs, W)  BY <2>1, <2>3, <2>4, FS_Surjection
  <2> QED  BY <2>5 DEF Injection, IsInjective
<1>6. Reads(op) \intersect W = {}  BY <1>1 DEF WellFormed
<1>7. /\ \A t \in W : HasRoom(t, i)
      /\ \A t \in Reads(op) \ Weight(graph, op) : HasRoom(t, i)
      /\ HasRoom(Scratch, i)
  BY WhoHasRoom
<1>8. size(op.outs) = SumOver(f, W)
  <2>1. {op.outs[k] : k \in DOMAIN op.outs} = W  BY DEF Writes
  <2> HIDE DEF op, f, W
  <2> QED  BY <1>1, <1>3, <1>5, <2>1, SizesAdd DEF f
<1>9. WorkingSet(graph, op) =
        size(op.outs) + IF op.kind \in TiledKinds
                        THEN graph.nbytes[op.ins[1]] + Region + size(tail)
                        ELSE size(op.ins)
  BY DEF WorkingSet
<1>10. CASE op.kind \notin TiledKinds
  <2>1. Weight(graph, op) = {}  BY <1>10 DEF Weight, WeightAt
  <2>2. size(op.ins) = SumOver(f, Reads(op))
    <3>1. {op.ins[k] : k \in DOMAIN op.ins} = Reads(op)  BY DEF Reads
    <3> HIDE DEF op, f
    <3> QED  BY <1>1, <1>3, <1>4, <3>1, SizesAdd DEF f
  <2> DEFINE K == W \union Reads(op)
  <2>3. K \subseteq U /\ W \in SUBSET U /\ Reads(op) \in SUBSET U /\ W \intersect Reads(op) = {}
    BY <1>3, <1>6
  <2>4. \A t \in K : HasRoom(t, i)  BY <1>7, <2>1
  <2> HIDE DEF f, U, W, K
  <2>5. SumOver(f, K) <= n  BY <2>3, <2>4, RoomForAll DEF f, U
  <2>6. SumOver(f, K) = SumOver(f, W) + SumOver(f, Reads(op))
    BY <1>2, <2>3, SumSplits DEF K
  <2>7. SumOver(f, K) \in Int  BY <1>2, <2>3, SumOverFacts
  <2> QED  BY <1>8, <1>9, <1>10, <2>2, <2>5, <2>6, <2>7
<1>11. CASE op.kind \in TiledKinds
  <2> DEFINE a == op.ins[1]
             R == rest \union {Scratch}
             Q == R \union {a}
             K == W \union Q
  <2>1. /\ Len(op.ins) \in Nat /\ Len(op.ins) >= 2 /\ DOMAIN op.ins = 1 .. Len(op.ins)
        /\ 1 \in DOMAIN op.ins /\ 2 \in DOMAIN op.ins
    <3>1. Len(op.ins) >= 2  BY <1>1, <1>11 DEF Shaped
    <3>2. Len(op.ins) \in Nat /\ DOMAIN op.ins = 1 .. Len(op.ins)  BY <1>3
    <3> QED  BY <3>1, <3>2
  <2>2. /\ tail \in Seq(graph.tensors)
        /\ \A k \in DOMAIN tail : k + 2 \in DOMAIN op.ins /\ k \in Nat \ {0} /\ tail[k] = op.ins[k + 2]
    <3> DEFINE ins == op.ins
    <3>1. ins \in Seq(graph.tensors) /\ Len(ins) >= 2  BY <1>3, <2>1
    <3>2. Len(ins) \in Nat /\ DOMAIN ins = 1 .. Len(ins)  BY <3>1
    <3>3. tail = SubSeq(ins, 3, Len(ins))  OBVIOUS
    <3> HIDE DEF ins, tail
    <3>4. tail \in Seq(graph.tensors) /\ Len(tail) = Len(ins) - 2
      <4> DEFINE S == graph.tensors
                 m == Len(ins)
      <4>1. ins \in Seq(S) /\ m \in Nat /\ m >= 2 /\ m = Len(ins)  BY <3>1, <3>2
      <4> HIDE DEF S, m
      <4>2. SubSeq(ins, 3, m) \in Seq(S) /\ Len(SubSeq(ins, 3, m)) = m - 2  BY <4>1
      <4>3. tail = SubSeq(ins, 3, m)  BY <3>3 DEF m
      <4>4. tail \in Seq(S) /\ Len(tail) = m - 2  BY <4>2, <4>3
      <4> QED  BY <4>4 DEF S, m
    <3>5. DOMAIN tail = 1 .. Len(ins) - 2  BY <3>4
    <3>6. \A k \in 1 .. Len(ins) - 2 : tail[k] = ins[k + 2]  BY <3>1, <3>2, <3>3
    <3> QED  BY <3>1, <3>2, <3>4, <3>5, <3>6 DEF ins
  <2>3. \A j, k \in DOMAIN tail : tail[j] = tail[k] => j = k
    <3> SUFFICES ASSUME NEW j \in DOMAIN tail, NEW k \in DOMAIN tail, tail[j] = tail[k]
                 PROVE  j = k
      OBVIOUS
    <3>1. j + 2 = k + 2 /\ j \in Nat /\ k \in Nat  BY <1>4, <2>2
    <3> QED  BY <3>1
  <2>4. size(tail) = SumOver(f, rest)
    <3> HIDE DEF tail, f
    <3> QED  BY <1>1, <2>2, <2>3, SizesAdd DEF f
  <2>5. rest \subseteq Reads(op) /\ a \in Reads(op) /\ op.ins[2] \notin rest \union {a} /\ a \notin rest
    <3>1. \A t \in rest : \E k \in DOMAIN op.ins : k >= 3 /\ t = op.ins[k]
      <4> SUFFICES ASSUME NEW j \in DOMAIN tail PROVE \E k \in DOMAIN op.ins : k >= 3 /\ tail[j] = op.ins[k]
        OBVIOUS
      <4>1. j + 2 \in DOMAIN op.ins /\ j + 2 >= 3 /\ tail[j] = op.ins[j + 2]  BY <2>2
      <4> QED  BY <4>1
    <3>2. \A k \in DOMAIN op.ins : k >= 3 => op.ins[k] # op.ins[1] /\ op.ins[k] # op.ins[2]
      BY <1>4, <2>1
    <3>3. op.ins[1] # op.ins[2]  BY <1>4, <2>1
    <3> HIDE DEF rest
    <3> QED  BY <2>1, <3>1, <3>2, <3>3 DEF Reads
  <2>6. \A t \in K : HasRoom(t, i)
    <3>1. a \notin Weight(graph, op) /\ \A t \in rest : t \notin Weight(graph, op)
      BY <1>4, <2>5
    <3> HIDE DEF rest, W
    <3> QED  BY <1>7, <2>5, <3>1
  <2>7. /\ K \subseteq U /\ W \in SUBSET U /\ Q \in SUBSET U /\ R \in SUBSET U /\ rest \in SUBSET U
        /\ W \intersect Q = {} /\ R \intersect {a} = {} /\ rest \intersect {Scratch} = {}
        /\ {a} \in SUBSET U /\ {Scratch} \in SUBSET U /\ a \in graph.tensors
    <3> HIDE DEF rest, W, op
    <3> QED  BY <1>2, <1>3, <1>6, <2>5
  <2> HIDE DEF f, U, W, K, Q, R, rest, a, size
  <2>8. SumOver(f, K) <= n  BY <2>6, <2>7, RoomForAll DEF f, U
  <2>9. /\ SumOver(f, K) = SumOver(f, W) + SumOver(f, Q)
        /\ SumOver(f, Q) = SumOver(f, R) + SumOver(f, {a})
        /\ SumOver(f, R) = SumOver(f, rest) + SumOver(f, {Scratch})
    BY <1>2, <2>7, SumSplits DEF K, Q, R
  <2>10. SumOver(f, {a}) = f[a] /\ SumOver(f, {Scratch}) = f[Scratch]
    <3>1. /\ SumOver(f, {}) = 0
          /\ \A s \in SUBSET U : \A p \in s : SumOver(f, s) = f[p] + SumOver(f, s \ {p})
      BY <1>2, SumOverFacts
    <3>2. {a} \ {a} = {} /\ {Scratch} \ {Scratch} = {}  OBVIOUS
    <3>3. f[a] \in Int /\ f[Scratch] \in Int  BY <1>2, <2>7
    <3>4. SumOver(f, {a}) = f[a] + 0 /\ SumOver(f, {Scratch}) = f[Scratch] + 0
      BY <2>7, <3>1, <3>2
    <3> QED  BY <3>3, <3>4
  <2>11. /\ SumOver(f, W) \in Int /\ SumOver(f, rest) \in Int
         /\ f[a] \in Int /\ f[Scratch] \in Int
    BY <1>2, <2>7, SumOverFacts
  <2>12. WorkingSet(graph, op) = SumOver(f, W) + (f[a] + f[Scratch] + SumOver(f, rest))
    BY <1>2, <1>8, <1>9, <1>11, <2>4, <2>7 DEF a
  <2>13. WorkingSet(graph, op) = SumOver(f, K)
    <3> HIDE DEF op
    <3> QED  BY <2>9, <2>10, <2>11, <2>12
  <2>14. SumOver(f, K) \in Int  BY <1>2, <2>7, SumOverFacts
  <2> QED  BY <2>8, <2>13, <2>14
<1> QED  BY <1>10, <1>11

(* plan_problems finds nothing in the plan of an ordinary graph, unless    *)
(* one of its ops counts something twice.                                  *)
LEMMA SchedulePasses ==
  ASSUME CompileInv, stage \in Planned, Ordinary(graph), ~Overcounted(graph)
  PROVE  ~PlanProblems(graph, plan, request.budget)
<1> DEFINE moves(s) == s.dma_in \union s.tiling \union s.dma_out
           ready(i) == (UNION {StagedIn(j) : j \in 1 .. i})
                         \union UNION {Writes(graph.ops[j]) : j \in 1 .. i - 1}
<1>1. /\ DOMAIN plan.steps = DOMAIN graph.ops
      /\ request.budget \in Int /\ IsGraph(graph) /\ WellFormed(graph)
  BY PlanFacts
<1>2. \A i \in DOMAIN plan.steps : \A a, b \in moves(plan.steps[i]) :
        ~(a # b /\ Cells(a) \intersect Cells(b) # {})
  <2> SUFFICES ASSUME NEW i \in DOMAIN graph.ops,
                      NEW a \in moves(plan.steps[i]), NEW b \in moves(plan.steps[i]), a # b
               PROVE  Cells(a) \intersect Cells(b) = {}
    BY <1>1
  <2> DEFINE m == moves(plan.steps[i])
  <2>1. m = plan.steps[i].dma_in \union plan.steps[i].tiling \union plan.steps[i].dma_out
    OBVIOUS
  <2>2. a \in m /\ b \in m  OBVIOUS
  <2> HIDE DEF m, moves
  <2> QED  BY <2>1, <2>2, MovesApart
<1>3. \A i \in DOMAIN plan.steps : Reads(graph.ops[i]) \subseteq ready(i)
  <2> SUFFICES ASSUME NEW i \in DOMAIN graph.ops, NEW t \in Reads(graph.ops[i])
               PROVE  t \in ready(i)
    BY <1>1
  <2> QED  BY OperandsStaged
<1>4. \A i \in DOMAIN plan.steps : ~(WorkingSet(graph, graph.ops[i]) > request.budget)
  <2> SUFFICES ASSUME NEW i \in DOMAIN graph.ops
               PROVE  ~(WorkingSet(graph, graph.ops[i]) > request.budget)
    BY <1>1
  <2>1. WorkingSet(graph, graph.ops[i]) <= request.budget /\ WorkingSet(graph, graph.ops[i]) \in Int
    BY WorkingSetFits
  <2> QED  BY <1>1, <2>1
<1>5. \A t \in graph.inputs : \E i \in DOMAIN plan.steps : t \in StagedIn(i)  BY FeedsStaged
<1>6. \A t \in graph.outputs : \E i \in DOMAIN plan.steps :
        t \in {x.tensor : x \in plan.steps[i].dma_out}
  BY ResultsLeave
<1> QED  BY <1>2, <1>3, <1>4, <1>5, <1>6 DEF PlanProblems, StagedIn

(* The checks the compiler and the replay run on a plan find nothing wrong *)
(* with its slots, whatever the graph, and nothing with the schedule of an *)
(* ordinary graph none of whose ops counts something twice.                *)
THEOREM OwnChecksPass == WholeSpec => []OwnChecksSilent
<1> DEFINE Said == {"allocation_violates_its_invariants", "schedule_violates_its_invariants",
                    "VTCM_allocation_aliases_live_tensors"}
<1>1. WholeInit => OwnChecksSilent  BY DEF WholeInit, PlanInit, OwnChecksSilent
<1>2. CompileInv /\ OwnChecksSilent /\ [WholeNext]_wholeVars => OwnChecksSilent'
  <2> SUFFICES ASSUME CompileInv, OwnChecksSilent, [WholeNext]_wholeVars PROVE OwnChecksSilent'
    OBVIOUS
  <2>1. CASE CheckPlan
    <3>1. /\ stage = "scheduled" /\ graph' = graph
          /\ stage' = CompileVerdict(graph, plan, request.budget)
      BY <2>1 DEF CheckPlan
    <3>2. stage \in Planned  BY <3>1 DEF Planned
    <3>3. stage' # "allocation_violates_its_invariants"
      BY <3>1, <3>2, SlotsPass DEF CompileVerdict
    <3>4. stage' # "VTCM_allocation_aliases_live_tensors"  BY <3>1 DEF CompileVerdict
    <3>5. Ordinary(graph) /\ ~Overcounted(graph) => stage' # "schedule_violates_its_invariants"
      BY <3>1, <3>2, SchedulePasses DEF CompileVerdict
    <3> QED  BY <3>1, <3>3, <3>4, <3>5 DEF OwnChecksSilent
  <2>2. CASE StartReplay
    <3>1. stage \in Planned  BY <2>2 DEF StartReplay, Planned, Accepted
    <3>2. ~OverlappingSlots(plan.slots)  BY <3>1, PlanFacts
    <3>3. stage' = "dma_in"  BY <2>2, <3>2 DEF StartReplay
    <3> QED  BY <3>3 DEF OwnChecksSilent
  <2>3. CASE UNCHANGED <<stage, graph>>  BY <2>3 DEF OwnChecksSilent
  <2>4. CASE stage' \notin Said  BY <2>4 DEF OwnChecksSilent
  <2>5. CASE Compile
    <3>1. stage' \in {"allocating", "graph_is_structurally_invalid"}  BY <2>5 DEF Compile
    <3> QED  BY <2>4, <3>1
  <2>6. CASE PlaceActivations  BY <2>3, <2>6 DEF PlaceActivations, planVars
  <2>7. CASE InsertTransfers
    <3>1. stage' = TransferVerdict(graph, Slots, request.budget)  BY <2>7 DEF InsertTransfers
    <3>2. stage' \notin Said  BY <3>1 DEF TransferVerdict
    <3> QED  BY <2>4, <3>2
  <2>8. CASE \E t \in pending : StageIn(t)
    <3>1. stage' \in {"staging_failed", "dma_in"}  BY <2>8 DEF StageIn
    <3> QED  BY <2>4, <3>1
  <2>9. CASE StreamWeight
    <3>1. stage' \in {"tiled_transfer_failed", "op"}  BY <2>9 DEF StreamWeight
    <3> QED  BY <2>4, <3>1
  <2>10. CASE RunOp
    <3>1. stage' \in {"op_failed", "dma_out"}  BY <2>10 DEF RunOp
    <3> QED  BY <2>4, <3>1
  <2>11. CASE \E t \in pending : WriteBack(t)
    <3>1. stage' \in {"write_back_failed", "dma_out"}  BY <2>11 DEF WriteBack
    <3> QED  BY <2>4, <3>1
  <2>12. CASE NextStep
    <3>1. stage' = "dma_in"  BY <2>12 DEF NextStep
    <3> QED  BY <2>4, <3>1
  <2>13. CASE Deliver
    <3>1. stage' \in {"finished", "output_never_materialized"}  BY <2>13 DEF Deliver
    <3> QED  BY <2>4, <3>1
  <2>14. CASE \E alias \in BOOLEAN : Pack(alias)
    <3>1. stage' \notin Said  BY <2>14 DEF Pack, PackVerdict
    <3> QED  BY <2>4, <3>1
  <2>15. CASE RunBatchOp \/ ReadBack
    <3>1. stage' \in {"batch", "batch_finished"}  BY <2>15 DEF RunBatchOp, ReadBack
    <3> QED  BY <2>4, <3>1
  <2>16. CASE UNCHANGED vars  BY <2>3, <2>16 DEF vars, planVars
  <2> QED
    BY <2>1, <2>2, <2>5, <2>6, <2>7, <2>8, <2>9, <2>10, <2>11, <2>12, <2>13, <2>14, <2>15, <2>16
    DEF WholeNext, PlanNext, Returned, wholeVars
<1> QED  BY <1>1, <1>2, PlanInvariant, PTL DEF WholeSpec

=============================================================================
