-------------------------- MODULE WholeBatchProofs --------------------------
(***************************************************************************)
(* A plan run as one batch delivers what its graph computes, for every     *)
(* graph, budget and policy, with or without the plan's own addresses.     *)
(* What is followed through the batch is storage: the bytes of every owner *)
(* that has been written, and whose content is still needed, hold that     *)
(* owner's value.                                                          *)
(***************************************************************************)
EXTENDS PlanRunProofs

-----------------------------------------------------------------------------
(* Owners of storage.                                                      *)

(* A reshape has an operand and one result, and what it reads and writes   *)
(* are tensors of the graph.                                               *)
LEMMA ReshapeFacts ==
  ASSUME NEW g, IsGraph(g), Shaped(g), WellFormed(g), NEW i \in DOMAIN g.ops,
         IsReshape(g.ops[i])
  PROVE  /\ Writes(g.ops[i]) = {g.ops[i].outs[1]} /\ g.ops[i].ins[1] \in Reads(g.ops[i])
         /\ g.ops[i].outs[1] \in g.tensors /\ g.ops[i].ins[1] \in g.tensors
<1>1. g.ops[i].ins \in Seq(Nat) /\ g.ops[i].outs \in Seq(Nat)  BY OpFacts
<1>2. Len(g.ops[i].ins) >= 1 /\ Len(g.ops[i].outs) = 1  BY DEF Shaped, IsReshape
<1>3. DOMAIN g.ops[i].outs = {1} /\ 1 \in DOMAIN g.ops[i].ins  BY <1>1, <1>2
<1>4. Writes(g.ops[i]) = {g.ops[i].outs[1]} /\ g.ops[i].ins[1] \in Reads(g.ops[i])
  BY <1>3 DEF Writes, Reads
<1> QED  BY <1>4, GraphFacts

(* What may be read grows by what each op writes, and nothing is written   *)
(* twice.                                                                  *)
LEMMA WrittenGrows ==
  ASSUME NEW g, IsGraph(g), WellFormed(g)
  PROVE  /\ WrittenBefore(g, 1) = g.inputs \union g.const
         /\ \A i \in DOMAIN g.ops :
              /\ WrittenBefore(g, i + 1) = WrittenBefore(g, i) \union Writes(g.ops[i])
              /\ Writes(g.ops[i]) \intersect WrittenBefore(g, i) = {}
              /\ Reads(g.ops[i]) \subseteq WrittenBefore(g, i)
         /\ \A i, j \in 1 .. Len(g.ops) + 1 : i <= j => WrittenBefore(g, i) \subseteq WrittenBefore(g, j)
<1>1. DOMAIN g.ops = 1 .. Len(g.ops) /\ Len(g.ops) \in Nat  BY GraphFacts
<1>2. WrittenBefore(g, 1) = g.inputs \union g.const
  <2>1. 1 .. 1 - 1 = {}  OBVIOUS
  <2> QED  BY <2>1 DEF WrittenBefore
<1>3. \A i \in 1 .. Len(g.ops) : 1 .. (i + 1) - 1 = (1 .. i - 1) \union {i}  OBVIOUS
<1>4. \A i \in DOMAIN g.ops :
        WrittenBefore(g, i + 1) = WrittenBefore(g, i) \union Writes(g.ops[i])
  <2> SUFFICES ASSUME NEW i \in DOMAIN g.ops
               PROVE  WrittenBefore(g, i + 1) = WrittenBefore(g, i) \union Writes(g.ops[i])
    OBVIOUS
  <2>1. 1 .. (i + 1) - 1 = (1 .. i - 1) \union {i}  BY <1>1, <1>3
  <2>2. UNION {Writes(g.ops[j]) : j \in (1 .. i - 1) \union {i}}
          = (UNION {Writes(g.ops[j]) : j \in 1 .. i - 1}) \union Writes(g.ops[i])
    OBVIOUS
  <2> QED  BY <2>1, <2>2 DEF WrittenBefore
<1>5. \A i \in DOMAIN g.ops : /\ Writes(g.ops[i]) \intersect WrittenBefore(g, i) = {}
                              /\ Reads(g.ops[i]) \subseteq WrittenBefore(g, i)
  BY DEF WellFormed
<1>6. \A i, j \in 1 .. Len(g.ops) + 1 : i <= j => WrittenBefore(g, i) \subseteq WrittenBefore(g, j)
  <2> SUFFICES ASSUME NEW i \in 1 .. Len(g.ops) + 1, NEW j \in 1 .. Len(g.ops) + 1, i <= j
               PROVE  WrittenBefore(g, i) \subseteq WrittenBefore(g, j)
    OBVIOUS
  <2>1. 1 .. i - 1 \subseteq 1 .. j - 1  BY <1>1
  <2> QED  BY <2>1 DEF WrittenBefore
<1> QED  BY <1>2, <1>4, <1>5, <1>6

(* The owners after each op of the plan.                                   *)
OwnersBy(g, f) ==
  /\ f \in [0 .. Len(g.ops) -> [g.tensors -> g.tensors]]
  /\ f[0] = [t \in g.tensors |-> t]
  /\ \A n \in 1 .. Len(g.ops) : f[n] = KeptBy(g.ops[n], f[n - 1])

LEMMA OwnersAre ==
  ASSUME NEW g, IsGraph(g), Shaped(g), WellFormed(g)
  PROVE  \E f : OwnersBy(g, f) /\ Owners(g) = f[Len(g.ops)]
<1> DEFINE m == Len(g.ops)
           V == [g.tensors -> g.tensors]
           id == [t \in g.tensors |-> t]
           next == [n \in 1 .. m |-> [own \in V |-> KeptBy(g.ops[n], own)]]
           Is(f) == f = [n \in 0 .. m |-> IF n = 0 THEN id ELSE KeptBy(g.ops[n], f[n - 1])]
<1>1. m \in Nat /\ DOMAIN g.ops = 1 .. m  BY GraphFacts
<1>2. id \in V  OBVIOUS
<1>3. \A n \in 1 .. m : \A own \in V : KeptBy(g.ops[n], own) \in V
  <2> SUFFICES ASSUME NEW n \in 1 .. m, NEW own \in V PROVE KeptBy(g.ops[n], own) \in V
    OBVIOUS
  <2>1. CASE IsReshape(g.ops[n])
    <3>1. g.ops[n].outs[1] \in g.tensors /\ g.ops[n].ins[1] \in g.tensors
      BY <1>1, <2>1, ReshapeFacts
    <3> QED  BY <2>1, <3>1 DEF KeptBy
  <2>2. CASE ~IsReshape(g.ops[n])  BY <2>2 DEF KeptBy
  <2> QED  BY <2>1, <2>2
<1>4. next \in [1 .. m -> [V -> V]]  BY <1>3
<1>5. \A n \in 1 .. m : \A own \in V : next[n][own] = KeptBy(g.ops[n], own)  OBVIOUS
<1> HIDE DEF V, id, next, m
<1>6. PICK f \in [0 .. m -> V] : f[0] = id /\ \A n \in 1 .. m : f[n] = next[n][f[n - 1]]
  <2> HIDE DEF Is
  <2>1. \E f : Stepwise(f, m, V, id, next)  BY <1>1, <1>2, <1>4, StepsExist
  <2> QED  BY <2>1 DEF Stepwise
<1>7. Is(f)
  <2>1. \A n \in 0 .. m : f[n] = IF n = 0 THEN id ELSE KeptBy(g.ops[n], f[n - 1])
    <3> SUFFICES ASSUME NEW n \in 0 .. m
                 PROVE  f[n] = IF n = 0 THEN id ELSE KeptBy(g.ops[n], f[n - 1])
      OBVIOUS
    <3>1. n # 0 => n \in 1 .. m /\ f[n - 1] \in V  BY <1>1, <1>6
    <3> QED  BY <1>5, <1>6, <3>1
  <2> QED  BY <1>6, <2>1
<1> DEFINE h == CHOOSE f1 : Is(f1)
<1>8. Is(h)  BY <1>7
<1>9. Owners(g) = h[m]  BY DEF Owners, id, m
<1> HIDE DEF h
<1>10. h[0] = id /\ \A n \in 1 .. m : h[n] = KeptBy(g.ops[n], h[n - 1])
  <2>1. \A n \in 0 .. m : h[n] = IF n = 0 THEN id ELSE KeptBy(g.ops[n], h[n - 1])  BY <1>8
  <2>2. 0 \in 0 .. m /\ \A n \in 1 .. m : n \in 0 .. m /\ n # 0  BY <1>1
  <2> QED  BY <2>1, <2>2
<1>11. \A n \in 0 .. m : h[n] \in V
  <2> DEFINE A == {n \in 0 .. m : h[n] \in V}
  <2>1. 0 \in A  BY <1>1, <1>2, <1>10
  <2>2. \A n \in 1 .. m : n - 1 \in A => n \in A  BY <1>1, <1>3, <1>10
  <2> HIDE DEF A
  <2>3. 0 .. m \subseteq A  BY <1>1, <2>1, <2>2, IntervalInduction
  <2> QED  BY <2>3 DEF A
<1>12. h \in [0 .. m -> V]
  <2>1. h = [n \in 0 .. m |-> h[n]]  BY <1>8
  <2> QED  BY <1>11, <2>1
<1> QED  BY <1>9, <1>10, <1>12 DEF OwnersBy, id, V, m

(* An owner owns itself and is no reshape's result; it was there when the  *)
(* tensor kept in it was; a reshape's result is kept where its operand is. *)
LEMMA OwnerFacts ==
  ASSUME NEW g, IsGraph(g), Shaped(g), WellFormed(g)
  PROVE  /\ Owners(g) \in [g.tensors -> g.tensors]
         /\ \A t \in g.tensors : /\ Owners(g)[t] \notin ReshapeOuts(g)
                                 /\ t \notin ReshapeOuts(g) => Owners(g)[t] = t
         /\ \A i \in 1 .. Len(g.ops) + 1 : \A t \in g.tensors \intersect WrittenBefore(g, i) :
              Owners(g)[t] \in WrittenBefore(g, i)
         /\ \A i \in DOMAIN g.ops : IsReshape(g.ops[i]) =>
              Owners(g)[g.ops[i].outs[1]] = Owners(g)[g.ops[i].ins[1]]
<1> DEFINE m == Len(g.ops)
           res(n) == {g.ops[j].outs[1] : j \in {k \in 1 .. n : IsReshape(g.ops[k])}}
<1>1. PICK f : OwnersBy(g, f) /\ Owners(g) = f[m]  BY OwnersAre
<1>2. m \in Nat /\ DOMAIN g.ops = 1 .. m  BY GraphFacts
<1> DEFINE Rooted(n) == \A t \in g.tensors : /\ f[n][t] \notin res(n)
                                             /\ t \notin res(n) => f[n][t] = t
           There(n) == \A i \in 1 .. n + 1 : \A t \in g.tensors \intersect WrittenBefore(g, i) :
                         f[n][t] \in WrittenBefore(g, i)
           Shared(n) == \A i \in 1 .. n : IsReshape(g.ops[i]) =>
                          f[n][g.ops[i].outs[1]] = f[n][g.ops[i].ins[1]]
           Good(n) == Rooted(n) /\ There(n) /\ Shared(n)
           A == {n \in 0 .. m : Good(n)}
<1>3. 0 \in A
  <2>1. f[0] = [t \in g.tensors |-> t]  BY <1>1 DEF OwnersBy
  <2>2. res(0) = {} /\ 1 .. 0 = {}  OBVIOUS
  <2> QED  BY <1>2, <2>1, <2>2
<1>4. ASSUME NEW n \in 1 .. m, n - 1 \in A PROVE n \in A
  <2> DEFINE op == g.ops[n]
             before == f[n - 1]
             known(i) == WrittenBefore(g, i)
  <2>1. Good(n - 1) /\ n \in DOMAIN g.ops /\ n - 1 \in 0 .. m /\ (n - 1) + 1 = n
    BY <1>2, <1>4
  <2>2. f[n] = KeptBy(op, before) /\ before \in [g.tensors -> g.tensors]
    BY <1>1, <2>1 DEF OwnersBy
  <2>3. /\ known(n + 1) = known(n) \union Writes(op)
        /\ Writes(op) \intersect known(n) = {}
        /\ Reads(op) \subseteq known(n)
        /\ \A i \in 1 .. n : known(i) \subseteq known(n)
    BY <1>2, <2>1, WrittenGrows
  <2>4. \A k \in 1 .. n - 1 : Writes(g.ops[k]) \subseteq known(n) /\ Reads(g.ops[k]) \subseteq known(n)
    <3> SUFFICES ASSUME NEW k \in 1 .. n - 1
                 PROVE  Writes(g.ops[k]) \subseteq known(n) /\ Reads(g.ops[k]) \subseteq known(n)
      OBVIOUS
    <3>1. /\ known(k + 1) = known(k) \union Writes(g.ops[k])
          /\ Reads(g.ops[k]) \subseteq known(k)
      BY <1>2, WrittenGrows
    <3>2. k + 1 \in 1 .. n  OBVIOUS
    <3> HIDE DEF known
    <3> QED  BY <2>3, <3>1, <3>2
  <2>5. \A k \in 1 .. n - 1 : IsReshape(g.ops[k]) =>
          /\ g.ops[k].outs[1] \in known(n) /\ g.ops[k].ins[1] \in known(n)
          /\ g.ops[k].outs[1] \in g.tensors /\ g.ops[k].ins[1] \in g.tensors
    <3> SUFFICES ASSUME NEW k \in 1 .. n - 1, IsReshape(g.ops[k])
                 PROVE  /\ g.ops[k].outs[1] \in known(n) /\ g.ops[k].ins[1] \in known(n)
                        /\ g.ops[k].outs[1] \in g.tensors /\ g.ops[k].ins[1] \in g.tensors
      OBVIOUS
    <3>1. k \in DOMAIN g.ops  BY <1>2
    <3>2. Writes(g.ops[k]) \subseteq known(n) /\ Reads(g.ops[k]) \subseteq known(n)  BY <2>4
    <3> HIDE DEF known
    <3> QED  BY <3>1, <3>2, ReshapeFacts
  <2>6. res(n - 1) \subseteq known(n)
    <3> HIDE DEF known
    <3> QED  BY <2>5
  <2>7. Rooted(n - 1) /\ There(n - 1) /\ Shared(n - 1)  BY <2>1
  <2>8. \A t \in g.tensors : /\ before[t] \notin res(n - 1)
                             /\ t \notin res(n - 1) => before[t] = t
    BY <2>7 DEF Rooted
  <2>9. \A i \in 1 .. n : \A t \in g.tensors \intersect known(i) : before[t] \in known(i)
    <3>1. \A i \in 1 .. n : i \in 1 .. (n - 1) + 1  OBVIOUS
    <3> HIDE DEF Rooted, Shared, res
    <3> QED  BY <2>7, <3>1
  <2>10. \A i \in 1 .. n - 1 : IsReshape(g.ops[i]) =>
           before[g.ops[i].outs[1]] = before[g.ops[i].ins[1]]
    BY <2>7
  <2>11. \A t \in g.tensors : t \notin known(n) => before[t] = t
    <3> HIDE DEF known, res, before
    <3> QED  BY <2>6, <2>8
  <2>12. n \in 1 .. n /\ \A i \in 1 .. n + 1 : i \in 1 .. n \/ i = n + 1  OBVIOUS
  <2>13. \A i \in 1 .. n : i \in 1 .. n - 1 \/ i = n  OBVIOUS
  <2>14. CASE ~IsReshape(op)
    <3>1. f[n] = before  BY <2>2, <2>14 DEF KeptBy
    <3>2. res(n) = res(n - 1)
      <4>1. \A k \in 1 .. n : IsReshape(g.ops[k]) => k \in 1 .. n - 1  BY <2>14
      <4>2. 1 .. n - 1 \subseteq 1 .. n  OBVIOUS
      <4> QED  BY <4>1, <4>2
    <3>3. \A t \in g.tensors \intersect known(n + 1) : before[t] \in known(n + 1)
      <4> HIDE DEF known, before
      <4> QED  BY <2>3, <2>9, <2>11, <2>12
    <3>4. \A i \in 1 .. n + 1 : \A t \in g.tensors \intersect known(i) : before[t] \in known(i)
      <4> HIDE DEF known, before
      <4> QED  BY <2>9, <2>12, <3>3
    <3>5. \A i \in 1 .. n : IsReshape(g.ops[i]) =>
            before[g.ops[i].outs[1]] = before[g.ops[i].ins[1]]
      BY <2>10, <2>13, <2>14
    <3> HIDE DEF res, before
    <3>6. Good(n)  BY <2>8, <3>1, <3>2, <3>4, <3>5
    <3> QED  BY <3>6
  <2>15. CASE IsReshape(op)
    <3> DEFINE out == op.outs[1]
               in == op.ins[1]
    <3>1. /\ Writes(op) = {out} /\ in \in Reads(op)
          /\ out \in g.tensors /\ in \in g.tensors
      BY <2>1, <2>15, ReshapeFacts
    <3>2. f[n] = [before EXCEPT ![out] = before[in]]  BY <2>2, <2>15 DEF KeptBy
    <3>3. res(n) = res(n - 1) \union {out}
      <4>1. \A k \in 1 .. n : k \in 1 .. n - 1 \/ k = n  OBVIOUS
      <4>2. 1 .. n - 1 \subseteq 1 .. n /\ n \in 1 .. n  OBVIOUS
      <4> QED  BY <2>15, <4>1, <4>2
    <3> HIDE DEF known, res, before, out, in
    <3>4. in \in known(n) /\ out \notin known(n) /\ in # out /\ out \notin res(n - 1)
      BY <2>3, <2>6, <3>1
    <3>5. /\ f[n][out] = before[in]
          /\ \A t \in g.tensors : t # out => f[n][t] = before[t]
      BY <2>2, <3>1, <3>2
    <3>6. \A t \in g.tensors : t # out => before[t] # out
      BY <2>9, <2>11, <2>12, <3>4
    <3>7. \A t \in g.tensors : /\ f[n][t] \notin res(n)
                               /\ t \notin res(n) => f[n][t] = t
      BY <2>8, <3>1, <3>3, <3>4, <3>5, <3>6
    <3>8. \A i \in 1 .. n + 1 : \A t \in g.tensors \intersect known(i) : f[n][t] \in known(i)
      <4>1. ASSUME NEW i \in 1 .. n, NEW t \in g.tensors \intersect known(i)
            PROVE  f[n][t] \in known(i)
        <5>1. t # out  BY <2>3, <3>4
        <5> QED  BY <2>9, <3>5, <5>1
      <4>2. ASSUME NEW t \in g.tensors \intersect known(n + 1) PROVE f[n][t] \in known(n + 1)
        <5>1. CASE t = out  BY <2>3, <2>9, <2>12, <3>1, <3>4, <3>5, <5>1
        <5>2. CASE t # out  BY <2>3, <2>11, <2>9, <2>12, <3>1, <3>5, <5>2
        <5> QED  BY <5>1, <5>2
      <4> QED  BY <2>12, <4>1, <4>2
    <3>9. \A i \in 1 .. n : IsReshape(g.ops[i]) => f[n][g.ops[i].outs[1]] = f[n][g.ops[i].ins[1]]
      <4>1. ASSUME NEW i \in 1 .. n - 1, IsReshape(g.ops[i])
            PROVE  f[n][g.ops[i].outs[1]] = f[n][g.ops[i].ins[1]]
        <5>1. g.ops[i].outs[1] # out /\ g.ops[i].ins[1] # out  BY <2>5, <3>4, <4>1
        <5> QED  BY <2>5, <2>10, <3>5, <4>1, <5>1
      <4>2. f[n][g.ops[n].outs[1]] = f[n][g.ops[n].ins[1]]
        BY <3>1, <3>4, <3>5 DEF out, in
      <4> QED  BY <2>13, <4>1, <4>2
    <3>10. Rooted(n) /\ Shared(n)  BY <3>7, <3>9
    <3>11. There(n)  BY <3>8 DEF known
    <3>12. Good(n)
      <4> HIDE DEF Rooted, There, Shared
      <4> QED  BY <3>10, <3>11
    <3> QED  BY <3>12
  <2> QED  BY <2>14, <2>15
<1>5. m \in A
  <2> HIDE DEF A
  <2>1. 0 .. m \subseteq A  BY <1>2, <1>3, <1>4, IntervalInduction
  <2> QED  BY <1>2, <2>1
<1>6. ReshapeOuts(g) = res(m)
  <2>1. \A i \in DOMAIN g.ops : IsReshape(g.ops[i]) => Writes(g.ops[i]) = {g.ops[i].outs[1]}
    BY ReshapeFacts
  <2>2. ReshapeOuts(g) = UNION {Writes(g.ops[i]) : i \in {j \in 1 .. m : IsReshape(g.ops[j])}}
    BY <1>2 DEF ReshapeOuts
  <2>3. \A i \in {j \in 1 .. m : IsReshape(g.ops[j])} : Writes(g.ops[i]) = {g.ops[i].outs[1]}
    BY <1>2, <2>1
  <2> HIDE DEF m
  <2> QED  BY <2>2, <2>3
<1>7. Owners(g) \in [g.tensors -> g.tensors]  BY <1>1, <1>2 DEF OwnersBy
<1>8. Good(m)  BY <1>5
<1>9. \A t \in g.tensors : /\ Owners(g)[t] \notin ReshapeOuts(g)
                           /\ t \notin ReshapeOuts(g) => Owners(g)[t] = t
  <2> HIDE DEF res, m
  <2> QED  BY <1>1, <1>6, <1>8
<1>10. \A i \in 1 .. Len(g.ops) + 1 : \A t \in g.tensors \intersect WrittenBefore(g, i) :
         Owners(g)[t] \in WrittenBefore(g, i)
  BY <1>1, <1>8
<1>11. \A i \in DOMAIN g.ops : IsReshape(g.ops[i]) =>
         Owners(g)[g.ops[i].outs[1]] = Owners(g)[g.ops[i].ins[1]]
  BY <1>1, <1>2, <1>8
<1> QED  BY <1>7, <1>9, <1>10, <1>11

-----------------------------------------------------------------------------
(* The lives the alias check goes by.                                      *)

Slotted(p) == {s.tensor : s \in p.slots}
Life == [first_use : Int, last_use : Int]

(* A tensor's slot is the one the plan gives it.                           *)
LEMMA SlotAtFacts ==
  ASSUME NEW g, NEW p, NEW budget, SlotsSound(g, p.slots, budget)
  PROVE  /\ \A s \in p.slots : SlotAt(p, s.tensor) = s
         /\ \A t \in Slotted(p) :
              /\ SlotAt(p, t) \in p.slots /\ SlotAt(p, t).tensor = t
              /\ SlotAt(p, t).offset \in Nat /\ SlotAt(p, t).size \in Int
              /\ SlotAt(p, t).offset + SlotAt(p, t).size <= budget
              /\ PlannedLife(p, t) \in Life
              /\ \A k \in UsedAt(g, t) : /\ PlannedLife(p, t).first_use <= k
                                         /\ k <= PlannedLife(p, t).last_use
<1>1. \A t \in Slotted(p) : SlotAt(p, t) \in p.slots /\ SlotAt(p, t).tensor = t
  BY DEF Slotted, SlotAt
<1>2. \A s \in p.slots : SlotAt(p, s.tensor) = s  BY <1>1 DEF Slotted, SlotsSound
<1>3. ASSUME NEW t \in Slotted(p)
      PROVE  /\ SlotAt(p, t).offset \in Nat /\ SlotAt(p, t).size \in Int
             /\ SlotAt(p, t).offset + SlotAt(p, t).size <= budget
             /\ SlotAt(p, t).first_use \in Int /\ SlotAt(p, t).last_use \in Int
             /\ \A k \in UsedAt(g, t) : SlotAt(p, t).first_use <= k /\ k <= SlotAt(p, t).last_use
  BY <1>1 DEF SlotsSound, SlotEnd
<1> QED  BY <1>1, <1>2, <1>3 DEF PlannedLife, Life

(* The lives after each op of the plan.                                    *)
LivesBy(g, p, f) ==
  /\ f \in [0 .. Len(g.ops) -> [Slotted(p) -> Life]]
  /\ f[0] = [t \in Slotted(p) |-> PlannedLife(p, t)]
  /\ \A n \in 1 .. Len(g.ops) : f[n] = LongerBy(g.ops[n], f[n - 1])

LEMMA LongerLives ==
  ASSUME NEW T, NEW op, NEW live \in [T -> Life]
  PROVE  /\ LongerBy(op, live) \in [T -> Life]
         /\ \A t \in T : /\ LongerBy(op, live)[t].first_use <= live[t].first_use
                         /\ live[t].last_use <= LongerBy(op, live)[t].last_use
         /\ IsReshape(op) /\ op.ins[1] \in T /\ op.outs[1] \in T =>
              live[op.outs[1]].last_use <= LongerBy(op, live)[op.ins[1]].last_use
<1>1. \A t \in T : live[t].first_use \in Int /\ live[t].last_use \in Int  BY DEF Life
<1>2. CASE IsReshape(op) /\ {op.ins[1], op.outs[1]} \subseteq T
  <2> DEFINE in == op.ins[1]
             out == op.outs[1]
             new == [first_use |-> LeastOf(live[in].first_use, live[out].first_use),
                     last_use |-> MostOf(live[in].last_use, live[out].last_use)]
  <2>1. LongerBy(op, live) = [live EXCEPT ![in] = new]  BY <1>2 DEF LongerBy
  <2>2. in \in T /\ out \in T  BY <1>2
  <2>3. /\ new \in Life
        /\ new.first_use <= live[in].first_use
        /\ live[in].last_use <= new.last_use /\ live[out].last_use <= new.last_use
    BY <1>1, <2>2 DEF LeastOf, MostOf, Life
  <2> HIDE DEF in, out, new
  <2>4. /\ [live EXCEPT ![in] = new] \in [T -> Life]
        /\ \A t \in T : [live EXCEPT ![in] = new][t] = IF t = in THEN new ELSE live[t]
    BY <2>2, <2>3
  <2>5. \A t \in T : /\ [live EXCEPT ![in] = new][t].first_use <= live[t].first_use
                     /\ live[t].last_use <= [live EXCEPT ![in] = new][t].last_use
    BY <1>1, <2>3, <2>4
  <2>6. live[out].last_use <= [live EXCEPT ![in] = new][in].last_use  BY <2>2, <2>3, <2>4
  <2> QED  BY <2>1, <2>4, <2>5, <2>6 DEF in, out
<1>3. CASE ~(IsReshape(op) /\ {op.ins[1], op.outs[1]} \subseteq T)
  <2>1. LongerBy(op, live) = live  BY <1>3 DEF LongerBy
  <2> QED  BY <1>1, <1>3, <2>1
<1> QED  BY <1>2, <1>3

LEMMA LivesAre ==
  ASSUME NEW g, IsGraph(g), WellFormed(g), NEW p, NEW budget, SlotsSound(g, p.slots, budget)
  PROVE  \E f : LivesBy(g, p, f) /\ LivesWithReshapes(g, p) = f[Len(g.ops)]
<1> DEFINE m == Len(g.ops)
           V == [Slotted(p) -> Life]
           planned == [t \in Slotted(p) |-> PlannedLife(p, t)]
           next == [n \in 1 .. m |-> [live \in V |-> LongerBy(g.ops[n], live)]]
           Is(f) == f = [n \in 0 .. m |-> IF n = 0 THEN planned ELSE LongerBy(g.ops[n], f[n - 1])]
<1>1. m \in Nat  BY GraphFacts
<1>2. planned \in V  BY SlotAtFacts
<1>3. \A n \in 1 .. m : \A live \in V : LongerBy(g.ops[n], live) \in V
  BY LongerLives
<1>4. next \in [1 .. m -> [V -> V]]  BY <1>3
<1>5. \A n \in 1 .. m : \A live \in V : next[n][live] = LongerBy(g.ops[n], live)  OBVIOUS
<1> HIDE DEF V, planned, next, m
<1>6. PICK f : Stepwise(f, m, V, planned, next)  BY <1>1, <1>2, <1>4, StepsExist
<1>7. Is(f)
  <2>1. \A n \in 0 .. m : f[n] = IF n = 0 THEN planned ELSE LongerBy(g.ops[n], f[n - 1])
    <3> SUFFICES ASSUME NEW n \in 0 .. m
                 PROVE  f[n] = IF n = 0 THEN planned ELSE LongerBy(g.ops[n], f[n - 1])
      OBVIOUS
    <3>1. n # 0 => n \in 1 .. m /\ f[n - 1] \in V  BY <1>1, <1>6 DEF Stepwise
    <3> QED  BY <1>5, <1>6, <3>1 DEF Stepwise
  <2> QED  BY <1>6, <2>1 DEF Stepwise
<1> DEFINE h == CHOOSE f1 : Is(f1)
<1>8. Is(h)  BY <1>7
<1>9. LivesWithReshapes(g, p) = h[m]  BY DEF LivesWithReshapes, planned, m, Slotted
<1> HIDE DEF h
<1>10. h[0] = planned /\ \A n \in 1 .. m : h[n] = LongerBy(g.ops[n], h[n - 1])
  <2>1. \A n \in 0 .. m : h[n] = IF n = 0 THEN planned ELSE LongerBy(g.ops[n], h[n - 1])  BY <1>8
  <2>2. 0 \in 0 .. m /\ \A n \in 1 .. m : n \in 0 .. m /\ n # 0  BY <1>1
  <2> QED  BY <2>1, <2>2
<1>11. \A n \in 0 .. m : h[n] \in V
  <2> DEFINE A == {n \in 0 .. m : h[n] \in V}
  <2>1. 0 \in A  BY <1>1, <1>2, <1>10
  <2>2. \A n \in 1 .. m : n - 1 \in A => n \in A  BY <1>1, <1>3, <1>10
  <2> HIDE DEF A
  <2>3. 0 .. m \subseteq A  BY <1>1, <2>1, <2>2, IntervalInduction
  <2> QED  BY <2>3 DEF A
<1>12. h \in [0 .. m -> V]
  <2>1. h = [n \in 0 .. m |-> h[n]]  BY <1>8
  <2> QED  BY <1>11, <2>1
<1> QED  BY <1>9, <1>10, <1>12 DEF LivesBy, planned, V, m

(* A life is never shorter than planned, and an operand of a reshape lives *)
(* as long as its result was planned to.                                   *)
LEMMA LiveFacts ==
  ASSUME NEW g, IsGraph(g), WellFormed(g), NEW p, NEW budget, SlotsSound(g, p.slots, budget)
  PROVE  /\ LivesWithReshapes(g, p) \in [Slotted(p) -> Life]
         /\ \A t \in Slotted(p) :
              /\ LivesWithReshapes(g, p)[t].first_use <= PlannedLife(p, t).first_use
              /\ PlannedLife(p, t).last_use <= LivesWithReshapes(g, p)[t].last_use
         /\ \A i \in DOMAIN g.ops :
              IsReshape(g.ops[i]) /\ g.ops[i].ins[1] \in Slotted(p) /\ g.ops[i].outs[1] \in Slotted(p)
                => PlannedLife(p, g.ops[i].outs[1]).last_use
                     <= LivesWithReshapes(g, p)[g.ops[i].ins[1]].last_use
<1> DEFINE m == Len(g.ops)
           T == Slotted(p)
           in(i) == g.ops[i].ins[1]
           out(i) == g.ops[i].outs[1]
           planned(t) == PlannedLife(p, t)
<1>1. PICK f : LivesBy(g, p, f) /\ LivesWithReshapes(g, p) = f[m]  BY LivesAre
<1>2. m \in Nat /\ DOMAIN g.ops = 1 .. m  BY GraphFacts
<1> DEFINE Wider(n) == \A t \in T : /\ f[n][t].first_use <= planned(t).first_use
                                    /\ planned(t).last_use <= f[n][t].last_use
           Longer(n) == \A i \in 1 .. n : IsReshape(g.ops[i]) /\ in(i) \in T /\ out(i) \in T =>
                          planned(out(i)).last_use <= f[n][in(i)].last_use
           A == {n \in 0 .. m : Wider(n) /\ Longer(n)}
<1>3. \A t \in T : planned(t).first_use \in Int /\ planned(t).last_use \in Int
  BY SlotAtFacts DEF Life
<1>4. \A n \in 0 .. m : /\ f[n] \in [T -> Life]
                        /\ \A t \in T : f[n][t].first_use \in Int /\ f[n][t].last_use \in Int
  BY <1>1 DEF LivesBy, Life
<1>5. 0 \in A
  <2>1. f[0] = [t \in T |-> planned(t)]  BY <1>1 DEF LivesBy
  <2>2. 1 .. 0 = {}  OBVIOUS
  <2> HIDE DEF T, planned
  <2>3. Wider(0)  BY <1>3, <2>1
  <2> QED  BY <1>2, <2>2, <2>3
<1>6. ASSUME NEW n \in 1 .. m, n - 1 \in A PROVE n \in A
  <2>1. Wider(n - 1) /\ Longer(n - 1) /\ n - 1 \in 0 .. m /\ n \in 0 .. m  BY <1>6
  <2>2. f[n] = LongerBy(g.ops[n], f[n - 1])  BY <1>1 DEF LivesBy
  <2>3. /\ \A t \in T : /\ f[n][t].first_use <= f[n - 1][t].first_use
                        /\ f[n - 1][t].last_use <= f[n][t].last_use
        /\ IsReshape(g.ops[n]) /\ in(n) \in T /\ out(n) \in T =>
             f[n - 1][out(n)].last_use <= f[n][in(n)].last_use
    BY <1>4, <2>1, <2>2, LongerLives
  <2>4. \A t \in T : /\ f[n - 1][t].first_use \in Int /\ f[n - 1][t].last_use \in Int
                     /\ f[n][t].first_use \in Int /\ f[n][t].last_use \in Int
                     /\ planned(t).first_use \in Int /\ planned(t).last_use \in Int
    BY <1>3, <1>4, <2>1
  <2> HIDE DEF T, planned, in, out
  <2>5. Wider(n)  BY <2>1, <2>3, <2>4
  <2>6. Longer(n)
    <3> SUFFICES ASSUME NEW i \in 1 .. n, IsReshape(g.ops[i]), in(i) \in T, out(i) \in T
                 PROVE  planned(out(i)).last_use <= f[n][in(i)].last_use
      OBVIOUS
    <3>1. CASE i = n  BY <2>1, <2>3, <2>4, <3>1
    <3>2. CASE i # n
      <4>1. i \in 1 .. n - 1  BY <3>2
      <4>2. planned(out(i)).last_use <= f[n - 1][in(i)].last_use  BY <2>1, <4>1
      <4> QED  BY <2>3, <2>4, <4>2
    <3> QED  BY <3>1, <3>2
  <2> QED  BY <2>1, <2>5, <2>6
<1>7. m \in A
  <2> HIDE DEF A
  <2>1. 0 .. m \subseteq A  BY <1>2, <1>5, <1>6, IntervalInduction
  <2> QED  BY <1>2, <2>1
<1>8. Wider(m) /\ Longer(m) /\ f[m] \in [T -> Life]  BY <1>2, <1>4, <1>7
<1> QED  BY <1>1, <1>2, <1>8

-----------------------------------------------------------------------------
(* Where the owners lie.                                                   *)

(* What a tensor takes on the wire is a number of bytes, and as many as    *)
(* the graph says when its form there is the one it was declared with.     *)
LEMMA WireFacts ==
  ASSUME NEW g, IsGraph(g), WellFormed(g), NEW t \in g.tensors
  PROVE  /\ WireBytes(g, t) \in Nat /\ AlignUp(WireBytes(g, t)) \in Nat
         /\ WireBytes(g, t) <= AlignUp(WireBytes(g, t))
         /\ WireForm(g, t) = Declared(g, t) => WireBytes(g, t) = g.nbytes[t]
<1> DEFINE n == g.nbytes[t]
           e == ElementSize[WireForm(g, t)]
           d == ElementSize[Declared(g, t)]
<1>1. n \in Nat \ {0}  BY GraphFacts
<1>2. Declared(g, t) \in {"q4_0", "fp16"}  BY DEF Declared
<1>3. WireForm(g, t) \in {"q4_0", "fp16", "fp32"}
  <2>1. \A f \in Claims(g, t) : f \in {"q4_0", "fp16", "fp32"}  BY DEF Claims, Form
  <2> QED  BY <1>2, <2>1 DEF WireForm
<1>4. e \in {1, 2, 4}  BY <1>3 DEF ElementSize
<1>5. d \in {1, 2}  BY <1>2 DEF ElementSize
<1>6. WireBytes(g, t) = (n * e + d - 1) \div d  BY DEF WireBytes
<1>7. WireForm(g, t) = Declared(g, t) => e = d  OBVIOUS
<1> HIDE DEF n, e, d
<1>8. (n * e + d - 1) \div d \in Nat
  <2>1. n * e \in Nat  BY <1>1, <1>4
  <2>2. n * e + d - 1 \in Nat /\ d \in Nat \ {0}  BY <1>5, <2>1
  <2> QED  BY <1>5, <2>1, <2>2
<1>9. e = d => (n * e + d - 1) \div d = n
  <2>1. CASE d = 1  BY <1>1, <2>1
  <2>2. CASE d = 2
    <3>1. (n * 2 + 2 - 1) \div 2 = n  BY <1>1
    <3> QED  BY <2>2, <3>1
  <2> QED  BY <1>5, <2>1, <2>2
<1> DEFINE w == WireBytes(g, t)
<1>10. w \in Nat  BY <1>6, <1>8
<1> HIDE DEF w
<1>11. AlignUp(w) \in Int /\ w <= AlignUp(w)  BY <1>10, AlignUpFacts
<1>12. AlignUp(w) \in Nat  BY <1>10, <1>11
<1> QED  BY <1>6, <1>7, <1>9, <1>10, <1>11, <1>12 DEF w, n

(* Tensors placed one after the other lie between the two ends, and clear  *)
(* of each other.                                                          *)
LEMMA BumpPlaces ==
  ASSUME NEW g, IsGraph(g), WellFormed(g), NEW T, T \subseteq g.tensors, NEW start \in Nat
  PROVE  LET at == BumpFrom(g, T, start)
             end(t) == at[t] + WireBytes(g, t)
         IN  /\ DOMAIN at = T
             /\ BumpEnd(g, T, start) \in Nat /\ start <= BumpEnd(g, T, start)
             /\ \A t \in T : at[t] \in Nat /\ start <= at[t] /\ end(t) <= BumpEnd(g, T, start)
             /\ \A t, u \in T : t # u => end(t) <= at[u] \/ end(u) <= at[t]
<1> DEFINE f == [u \in g.tensors |-> AlignUp(WireBytes(g, u))]
           before(t) == {s \in T : s < t}
           at == BumpFrom(g, T, start)
           size(t) == WireBytes(g, t)
           sum(S) == SumOver(f, S)
<1>1. IsFiniteSet(g.tensors) /\ g.tensors \subseteq Nat  BY DEF IsGraph
<1>2. \A t \in T : size(t) \in Nat /\ f[t] \in Nat /\ size(t) <= f[t]  BY WireFacts
<1>3. f \in [g.tensors -> Nat]  BY WireFacts
<1>4. DOMAIN at = T  BY DEF BumpFrom
<1>5. \A S : S \subseteq g.tensors => SumFunction([u \in S |-> AlignUp(WireBytes(g, u))]) = sum(S)
  <2> SUFFICES ASSUME NEW S, S \subseteq g.tensors
               PROVE  SumFunction([u \in S |-> AlignUp(WireBytes(g, u))]) = sum(S)
    OBVIOUS
  <2>1. [u \in S |-> AlignUp(WireBytes(g, u))] = [u \in S |-> f[u]]  OBVIOUS
  <2> QED  BY <2>1 DEF SumOver
<1>6. \A t \in T : at[t] = start + sum(before(t))
  <2> SUFFICES ASSUME NEW t \in T PROVE at[t] = start + sum(before(t))
    OBVIOUS
  <2>1. before(t) \subseteq g.tensors  OBVIOUS
  <2>2. at[t] = start + SumFunction([u \in before(t) |-> AlignUp(WireBytes(g, u))])
    BY DEF BumpFrom
  <2> HIDE DEF before, sum, at
  <2> QED  BY <1>5, <2>1, <2>2
<1>7. BumpEnd(g, T, start) = start + sum(T)  BY <1>5 DEF BumpEnd
<1> HIDE DEF f
<1>8. f \in [g.tensors -> Int]  BY <1>3
<1>9. \A S \in SUBSET g.tensors : sum(S) \in Nat
  <2> SUFFICES ASSUME NEW S \in SUBSET g.tensors PROVE sum(S) \in Nat
    OBVIOUS
  <2>1. sum({}) = 0 /\ sum(S) \in Int  BY <1>1, <1>8, SumOverFacts
  <2>2. {} \in SUBSET S  OBVIOUS
  <2>3. sum({}) <= sum(S)  BY <1>1, <1>3, <2>2, SumGrows
  <2> QED  BY <2>1, <2>3
<1>10. \A U \in SUBSET g.tensors : \A S \in SUBSET U : \A t \in U \ S : sum(S) + f[t] <= sum(U)
  BY <1>1, <1>3, SumGrows
<1>11. /\ T \in SUBSET g.tensors
       /\ \A t \in T : before(t) \in SUBSET T /\ before(t) \in SUBSET g.tensors /\ t \in T \ before(t)
  BY <1>1
<1>12. \A t, u \in T : t < u => before(t) \in SUBSET before(u) /\ t \in before(u) \ before(t)
  BY <1>1
<1> HIDE DEF before, sum, at, size
<1>13. \A t \in T : at[t] \in Nat /\ start <= at[t] /\ at[t] + size(t) <= BumpEnd(g, T, start)
  <2> SUFFICES ASSUME NEW t \in T
               PROVE  at[t] \in Nat /\ start <= at[t] /\ at[t] + size(t) <= BumpEnd(g, T, start)
    OBVIOUS
  <2>1. sum(before(t)) \in Nat /\ sum(T) \in Nat  BY <1>9, <1>11
  <2>2. sum(before(t)) + f[t] <= sum(T)  BY <1>10, <1>11
  <2>3. size(t) \in Nat /\ f[t] \in Nat /\ size(t) <= f[t]  BY <1>2
  <2>4. at[t] = start + sum(before(t))  BY <1>6
  <2> QED  BY <1>7, <2>1, <2>2, <2>3, <2>4
<1>14. \A t, u \in T : t < u => at[t] + size(t) <= at[u]
  <2> SUFFICES ASSUME NEW t \in T, NEW u \in T, t < u PROVE at[t] + size(t) <= at[u]
    OBVIOUS
  <2>1. sum(before(t)) \in Nat /\ sum(before(u)) \in Nat  BY <1>9, <1>11
  <2>2. sum(before(t)) + f[t] <= sum(before(u))  BY <1>10, <1>11, <1>12
  <2>3. size(t) \in Nat /\ f[t] \in Nat /\ size(t) <= f[t]  BY <1>2
  <2>4. at[t] = start + sum(before(t)) /\ at[u] = start + sum(before(u))  BY <1>6
  <2> QED  BY <2>1, <2>2, <2>3, <2>4
<1>15. \A t, u \in T : t # u => at[t] + size(t) <= at[u] \/ at[u] + size(u) <= at[t]
  <2>1. \A t, u \in T : t # u => t < u \/ u < t  BY <1>1
  <2> QED  BY <1>14, <2>1
<1>16. BumpEnd(g, T, start) \in Nat /\ start <= BumpEnd(g, T, start)
  <2>1. sum(T) \in Nat  BY <1>9, <1>11
  <2> QED  BY <1>7, <2>1
<1> QED  BY <1>4, <1>13, <1>15, <1>16 DEF at, size

(* What a batch that was not refused has passed.                           *)
LEMMA VerdictFacts ==
  ASSUME NEW g, NEW p, NEW alias \in BOOLEAN, PackVerdict(g, p, alias) = "batch"
  PROVE  /\ ReshapeOuts(g) \intersect IoNames(g) = {}
         /\ \A t \in ActNames(g) : WireForm(g, t) = Declared(g, t) /\ t \in Slotted(p)
         /\ alias => ~UnsafeAliasing(g, p)
         /\ \A t \in g.tensors : WireBytes(g, t) = WireBytes(g, Owners(g)[t])
BY DEF PackVerdict, Slotted

(* Two ranges of bytes that do not meet.                                   *)
Apart(at, g, t, u) == \/ at[t] + WireBytes(g, t) <= at[u]
                      \/ at[u] + WireBytes(g, u) <= at[t]

NeverTogether(g, p, t, u) ==
  ~Overlaps(LivesWithReshapes(g, p)[t], LivesWithReshapes(g, p)[u])

(* The activations lie between the constants and the inputs and outputs;   *)
(* two of them that meet are never live together.                          *)
LEMMA ActivationPlaces ==
  ASSUME NEW g, IsGraph(g), WellFormed(g), NEW p, NEW budget \in Int,
         SlotsSound(g, p.slots, budget), NEW alias \in BOOLEAN,
         PackVerdict(g, p, alias) = "batch", NEW start \in Nat,
         \A t \in ActNames(g) : g.nbytes[t] <= SlotAt(p, t).size
  PROVE  LET at == ActPlaces(g, p, alias, start)
             end == ActEnd(g, p, alias, start)
         IN  /\ DOMAIN at = ActNames(g) /\ end \in Nat /\ start <= end
             /\ \A t \in ActNames(g) :
                  at[t] \in Nat /\ start <= at[t] /\ at[t] + WireBytes(g, t) <= end
             /\ \A t, u \in ActNames(g) : t # u =>
                  Apart(at, g, t, u) \/ (alias /\ NeverTogether(g, p, t, u))
<1> DEFINE T == ActNames(g)
           at == ActPlaces(g, p, alias, start)
           end == ActEnd(g, p, alias, start)
<1>1. T \subseteq g.tensors  BY DEF ActNames
<1>2. CASE ~alias
  <2>1. at = BumpFrom(g, T, start) /\ end = BumpEnd(g, T, start)
    BY <1>2 DEF ActPlaces, ActEnd
  <2> HIDE DEF at, end, T
  <2>2. /\ DOMAIN at = T /\ end \in Nat /\ start <= end
        /\ \A t \in T : at[t] \in Nat /\ start <= at[t] /\ at[t] + WireBytes(g, t) <= end
        /\ \A t, u \in T : t # u => Apart(at, g, t, u)
    BY <1>1, <2>1, BumpPlaces DEF Apart
  <2> QED  BY <2>2 DEF at, end, T
<1>3. CASE alias
  <2> DEFINE off(t) == SlotAt(p, t).offset
             size(t) == WireBytes(g, t)
             tops == {off(t) + size(t) : t \in T}
             M == {0} \union tops
             b == IF budget < 0 THEN 0 ELSE budget
  <2>1. /\ at = [t \in T |-> start + off(t)]
        /\ end = AlignUp(start + Max(M))
    BY <1>3 DEF ActPlaces, ActEnd
  <2>2. \A t \in T : off(t) \in Nat /\ size(t) \in Nat /\ off(t) + size(t) <= budget
    <3> SUFFICES ASSUME NEW t \in T
                 PROVE  off(t) \in Nat /\ size(t) \in Nat /\ off(t) + size(t) <= budget
      OBVIOUS
    <3>1. WireForm(g, t) = Declared(g, t) /\ t \in Slotted(p)  BY VerdictFacts
    <3>2. size(t) = g.nbytes[t] /\ size(t) \in Nat  BY <1>1, <3>1, WireFacts
    <3>3. /\ off(t) \in Nat /\ SlotAt(p, t).size \in Int
          /\ off(t) + SlotAt(p, t).size <= budget
      BY <3>1, SlotAtFacts
    <3>4. g.nbytes[t] <= SlotAt(p, t).size  OBVIOUS
    <3> HIDE DEF off, size, T
    <3> QED  BY <3>2, <3>3, <3>4
  <2> HIDE DEF off, size
  <2>3. M \subseteq Int /\ M # {} /\ b \in Int /\ (\A n \in M : n <= b) /\ 0 \in M
    BY <2>2
  <2>4. \A t \in T : off(t) + size(t) \in M  OBVIOUS
  <2> HIDE DEF M, b
  <2>5. Max(M) \in Int /\ \A n \in M : n <= Max(M)  BY <2>3, MaxIsGreatest
  <2> DEFINE top == start + Max(M)
  <2>6. top \in Nat /\ start <= top /\ \A t \in T : start + off(t) + size(t) <= top
    BY <2>2, <2>3, <2>4, <2>5
  <2> HIDE DEF top
  <2>7. AlignUp(top) \in Int /\ top <= AlignUp(top)  BY <2>6, AlignUpFacts
  <2>8. end = AlignUp(top)  BY <2>1 DEF top
  <2>9. end \in Nat /\ start <= end /\ \A t \in T : start + off(t) + size(t) <= end
    <3> HIDE DEF end
    <3> QED  BY <2>2, <2>6, <2>7, <2>8
  <2>10. \A t \in T : at[t] = start + off(t)  BY <2>1
  <2>11. ASSUME NEW t \in T, NEW u \in T, t # u
         PROVE  Apart(at, g, t, u) \/ (alias /\ NeverTogether(g, p, t, u))
    <3>1. ~ShareAddress(g, p, t, u) \/ NeverTogether(g, p, t, u)
      BY <1>3, <2>11, VerdictFacts DEF UnsafeAliasing, NeverTogether
    <3>2. CASE ~ShareAddress(g, p, t, u)
      <4>1. ~(off(t) < off(u) + size(u) /\ off(u) < off(t) + size(t))
        BY <3>2 DEF ShareAddress, off, size
      <4>2. off(t) \in Nat /\ off(u) \in Nat /\ size(t) \in Nat /\ size(u) \in Nat
        BY <2>2
      <4>3. at[t] = start + off(t) /\ at[u] = start + off(u)  BY <2>10
      <4> HIDE DEF at
      <4>4. at[t] + size(t) <= at[u] \/ at[u] + size(u) <= at[t]  BY <4>1, <4>2, <4>3
      <4> QED  BY <4>4 DEF Apart, size
    <3> QED  BY <1>3, <3>1, <3>2
  <2>12. \A t \in T : at[t] \in Nat /\ start <= at[t] /\ at[t] + WireBytes(g, t) <= end
    <3> HIDE DEF at, end
    <3> QED  BY <2>2, <2>9, <2>10 DEF size
  <2>13. DOMAIN at = T  BY <2>1
  <2> HIDE DEF at, end
  <2> QED  BY <2>9, <2>11, <2>12, <2>13 DEF at, end
<1> QED  BY <1>2, <1>3

(* Every owner has a place of its own in the arena, an activation at least *)
(* while it lives; the others are where their owner is.                    *)
LEMMA PlacesApart ==
  ASSUME NEW g, IsGraph(g), Shaped(g), WellFormed(g), NEW p, NEW budget \in Int,
         SlotsSound(g, p.slots, budget), NEW alias \in BOOLEAN,
         PackVerdict(g, p, alias) = "batch",
         \A t \in ActNames(g) : g.nbytes[t] <= SlotAt(p, t).size
  PROVE  LET at == Placements(g, p, alias)
             owners == g.tensors \ ReshapeOuts(g)
         IN  /\ \A t \in g.tensors : at[t] = at[Owners(g)[t]]
             /\ \A t \in owners :
                  at[t] \in Nat /\ at[t] + WireBytes(g, t) <= ArenaBytes(g, p, alias)
             /\ ArenaBytes(g, p, alias) \in Nat
             /\ \A t, u \in owners : t # u =>
                  \/ Apart(at, g, t, u)
                  \/ alias /\ t \in ActNames(g) /\ u \in ActNames(g) /\ NeverTogether(g, p, t, u)
<1> DEFINE owners == g.tensors \ ReshapeOuts(g)
           at == Placements(g, p, alias)
           own == OwnPlaces(g, p, alias)
           Io == IoNames(g)
           Act == ActNames(g)
           Con == g.const
           constEnd == BumpEnd(g, Con, 0)
           actEnd == ActEnd(g, p, alias, constEnd)
           total == ArenaBytes(g, p, alias)
           atCon == BumpFrom(g, Con, 0)
           atAct == ActPlaces(g, p, alias, constEnd)
           atIo == BumpFrom(g, Io, actEnd)
           size(t) == WireBytes(g, t)
<1>1. Io \subseteq g.tensors /\ Con \subseteq g.tensors /\ Act \subseteq g.tensors
  BY GraphFacts DEF IoNames, ActNames
<1>2. /\ \A t \in owners : t \in Io \/ t \in Act \/ t \in Con
      /\ Act \intersect Io = {} /\ Act \intersect Con = {}
  BY DEF ActNames
<1>3. /\ constEnd \in Nat
      /\ DOMAIN atCon = Con
      /\ \A t \in Con : atCon[t] \in Nat /\ atCon[t] + size(t) <= constEnd
      /\ \A t, u \in Con : t # u => atCon[t] + size(t) <= atCon[u] \/ atCon[u] + size(u) <= atCon[t]
  <2> HIDE DEF Con
  <2> QED  BY <1>1, BumpPlaces
<1>4. /\ DOMAIN atAct = Act /\ actEnd \in Nat /\ constEnd <= actEnd
      /\ \A t \in Act : atAct[t] \in Nat /\ constEnd <= atAct[t] /\ atAct[t] + size(t) <= actEnd
      /\ \A t, u \in Act : t # u => Apart(atAct, g, t, u) \/ (alias /\ NeverTogether(g, p, t, u))
  <2> HIDE DEF constEnd
  <2> QED  BY <1>3, ActivationPlaces
<1>5. total = BumpEnd(g, Io, actEnd)  BY DEF ArenaBytes
<1>6. /\ total \in Nat /\ actEnd <= total
      /\ DOMAIN atIo = Io
      /\ \A t \in Io : atIo[t] \in Nat /\ actEnd <= atIo[t] /\ atIo[t] + size(t) <= total
      /\ \A t, u \in Io : t # u => atIo[t] + size(t) <= atIo[u] \/ atIo[u] + size(u) <= atIo[t]
  <2> HIDE DEF Io, actEnd, total
  <2> QED  BY <1>1, <1>4, <1>5, BumpPlaces
<1>7. at = [t \in g.tensors |-> own[Owners(g)[t]]]  BY DEF Placements
<1>8. /\ \A t \in Io : own[t] = atIo[t]
      /\ \A t \in Act \ Io : own[t] = atAct[t]
      /\ \A t \in Con \ (Io \union Act) : own[t] = atCon[t]
  BY DEF OwnPlaces
<1>9. /\ \A t \in g.tensors : Owners(g)[t] \in owners
      /\ \A t \in owners : Owners(g)[t] = t
  BY OwnerFacts
<1>10. /\ \A t \in g.tensors : at[t] = at[Owners(g)[t]]
       /\ \A t \in owners : at[t] = own[t]
  <2> HIDE DEF at, own
  <2>1. owners \subseteq g.tensors  OBVIOUS
  <2> HIDE DEF owners
  <2> QED  BY <1>7, <1>9, <2>1
<1>11. \A t \in g.tensors : size(t) \in Nat  BY WireFacts
<1> DEFINE InIo(t) == t \in Io /\ at[t] \in Nat /\ actEnd <= at[t] /\ at[t] + size(t) <= total
                        /\ at[t] = atIo[t]
           InAct(t) == t \in Act /\ at[t] \in Nat /\ constEnd <= at[t]
                         /\ at[t] + size(t) <= actEnd /\ at[t] = atAct[t]
           InCon(t) == t \in Con /\ at[t] \in Nat /\ at[t] + size(t) <= constEnd
                         /\ at[t] = atCon[t]
<1>12. owners \subseteq g.tensors  OBVIOUS
<1> HIDE DEF owners, at, own, Io, Act, Con, constEnd, actEnd, total, atCon, atAct, atIo, size
<1>13. \A t \in owners : InIo(t) \/ InAct(t) \/ InCon(t)
  <2> SUFFICES ASSUME NEW t \in owners PROVE InIo(t) \/ InAct(t) \/ InCon(t)
    OBVIOUS
  <2>1. CASE t \in Io  BY <1>6, <1>8, <1>10, <2>1
  <2>2. CASE t \in Act \ Io  BY <1>4, <1>8, <1>10, <2>2
  <2>3. CASE t \in Con \ (Io \union Act)  BY <1>3, <1>8, <1>10, <2>3
  <2> QED  BY <1>2, <2>1, <2>2, <2>3
<1>14. \A t \in owners : at[t] \in Nat /\ at[t] + size(t) <= total
  BY <1>3, <1>4, <1>6, <1>11, <1>12, <1>13
<1>15. ASSUME NEW t \in owners, NEW u \in owners, t # u
       PROVE  \/ at[t] + size(t) <= at[u] \/ at[u] + size(u) <= at[t]
              \/ alias /\ t \in Act /\ u \in Act /\ NeverTogether(g, p, t, u)
  <2>1. size(t) \in Nat /\ size(u) \in Nat /\ t # u  BY <1>11, <1>12, <1>15
  <2>2. CASE InIo(t) /\ InIo(u)  BY <1>6, <2>1, <2>2
  <2>3. CASE InAct(t) /\ InAct(u)
    <3>1. Apart(atAct, g, t, u) \/ (alias /\ NeverTogether(g, p, t, u))  BY <1>4, <2>1, <2>3
    <3>2. at[t] = atAct[t] /\ at[u] = atAct[u] /\ t \in Act /\ u \in Act  BY <2>3
    <3>3. Apart(atAct, g, t, u) => at[t] + size(t) <= at[u] \/ at[u] + size(u) <= at[t]
      BY <3>2 DEF Apart, size
    <3> QED  BY <3>1, <3>2, <3>3
  <2>4. CASE InCon(t) /\ InCon(u)  BY <1>3, <2>1, <2>4
  <2>5. CASE (InIo(t) /\ InAct(u)) \/ (InAct(t) /\ InIo(u))  BY <1>4, <2>1, <2>5
  <2>6. CASE (InIo(t) /\ InCon(u)) \/ (InCon(t) /\ InIo(u))  BY <1>3, <1>4, <2>1, <2>6
  <2>7. CASE (InAct(t) /\ InCon(u)) \/ (InCon(t) /\ InAct(u))  BY <1>3, <2>1, <2>7
  <2> QED  BY <1>13, <2>2, <2>3, <2>4, <2>5, <2>6, <2>7
<1>16. \A t, u \in owners : t # u =>
         \/ Apart(at, g, t, u)
         \/ alias /\ t \in Act /\ u \in Act /\ NeverTogether(g, p, t, u)
  BY <1>15 DEF Apart, size
<1> QED  BY <1>6, <1>10, <1>14, <1>16 DEF at, owners, total, size, Act

-----------------------------------------------------------------------------
(* The batch of an accepted plan.                                          *)

(* What a batch that was not refused rests on.                             *)
Batchable(g, p, alias, budget) ==
  /\ IsGraph(g) /\ Shaped(g) /\ WellFormed(g)
  /\ SlotsSound(g, p.slots, budget) /\ budget \in Int
  /\ alias \in BOOLEAN /\ PackVerdict(g, p, alias) = "batch"
  /\ \A t \in ActNames(g) : g.nbytes[t] <= SlotAt(p, t).size
  /\ \A t \in Activations(g) : t \in Slotted(p)

LEMMA PlanIsBatchable ==
  ASSUME CompileInv, stage \in Planned, NEW alias \in BOOLEAN,
         PackVerdict(graph, plan, alias) = "batch"
  PROVE  Batchable(graph, plan, alias, request.budget)
<1>1. /\ IsGraph(graph) /\ Shaped(graph) /\ WellFormed(graph)
      /\ SlotsSound(graph, plan.slots, request.budget) /\ request.budget \in Int
      /\ plan.slots = Slots \union ConstSlots(graph, ScratchBase(Slots))
      /\ \A s \in Slots : graph.nbytes[s.tensor] <= s.size
      /\ \A t \in Activations(graph) : \E s \in Slots : s.tensor = t
  BY PlanFacts
<1>2. \A t \in Activations(graph) : t \in Slotted(plan)  BY <1>1 DEF Slotted
<1>3. ASSUME NEW t \in ActNames(graph) PROVE graph.nbytes[t] <= SlotAt(plan, t).size
  <2> DEFINE s == SlotAt(plan, t)
  <2>1. s \in plan.slots /\ s.tensor = t  BY <1>1, <1>3, VerdictFacts, SlotAtFacts
  <2>2. t \in graph.tensors /\ t \notin graph.const /\ graph.tensors \subseteq Nat
    BY <1>1, GraphFacts DEF ActNames
  <2>3. s \notin ConstSlots(graph, ScratchBase(Slots))
    <3> HIDE DEF s
    <3>1. \A c \in ConstSlots(graph, ScratchBase(Slots)) :
            c.tensor = Scratch \/ c.tensor \in graph.const
      BY DEF ConstSlots, WholePlan, ReadConsts
    <3>2. Scratch \notin Nat  BY DEF Scratch
    <3> QED  BY <2>1, <2>2, <3>1, <3>2
  <2> QED  BY <1>1, <2>1, <2>3
<1> QED  BY <1>1, <1>2, <1>3 DEF Batchable

(* An activation lives from before the op that writes it to the last that  *)
(* touches it.                                                             *)
LEMMA ActivationLives ==
  ASSUME NEW g, NEW p, NEW alias, NEW budget, Batchable(g, p, alias, budget),
         NEW t \in ActNames(g)
  PROVE  LET life == LivesWithReshapes(g, p)[t]
         IN  /\ life.first_use \in Int /\ life.last_use \in Int
             /\ \A i \in DOMAIN g.ops : t \in Reads(g.ops[i]) \union Writes(g.ops[i]) =>
                  life.first_use <= i - 1 /\ i - 1 <= life.last_use
<1> DEFINE life == LivesWithReshapes(g, p)[t]
           told == PlannedLife(p, t)
<1>1. t \in Slotted(p)  BY VerdictFacts DEF Batchable
<1>2. /\ life \in Life /\ told \in Life
      /\ life.first_use <= told.first_use /\ told.last_use <= life.last_use
      /\ \A k \in UsedAt(g, t) : told.first_use <= k /\ k <= told.last_use
  BY <1>1, LiveFacts, SlotAtFacts DEF Batchable
<1> HIDE DEF life, told
<1>3. /\ life.first_use \in Int /\ life.last_use \in Int
      /\ told.first_use \in Int /\ told.last_use \in Int
  BY <1>2 DEF Life
<1>4. ASSUME NEW i \in DOMAIN g.ops, t \in Reads(g.ops[i]) \union Writes(g.ops[i])
      PROVE  life.first_use <= i - 1 /\ i - 1 <= life.last_use
  <2>1. i - 1 \in UsedAt(g, t)  BY <1>4 DEF UsedAt, TouchedAt
  <2>2. i - 1 \in Int  BY GraphFacts DEF Batchable
  <2> QED  BY <1>2, <1>3, <2>1, <2>2
<1> QED  BY <1>3, <1>4 DEF life

(* Without a reshape of a reshape, the storage of an operand outlives the  *)
(* op that reads it.                                                       *)
LEMMA OperandStorageLives ==
  ASSUME NEW g, NEW p, NEW alias, NEW budget, Batchable(g, p, alias, budget), ~Chained(g),
         NEW i \in DOMAIN g.ops, NEW t \in Reads(g.ops[i]), Owners(g)[t] \in ActNames(g)
  PROVE  i - 1 <= LivesWithReshapes(g, p)[Owners(g)[t]].last_use
<1> DEFINE u == Owners(g)[t]
<1>1. t \in g.tensors /\ IsGraph(g) /\ Shaped(g) /\ WellFormed(g) /\ DOMAIN g.ops = 1 .. Len(g.ops)
  BY GraphFacts DEF Batchable
<1>2. CASE t \notin ReshapeOuts(g)
  <2>1. u = t  BY <1>1, <1>2, OwnerFacts
  <2> QED  BY <2>1, ActivationLives
<1>3. CASE t \in ReshapeOuts(g)
  <2>1. PICK j \in DOMAIN g.ops : IsReshape(g.ops[j]) /\ t \in Writes(g.ops[j])
    BY <1>3 DEF ReshapeOuts
  <2> DEFINE in == g.ops[j].ins[1]
  <2>2. t = g.ops[j].outs[1] /\ in \in g.tensors
    <3>1. Writes(g.ops[j]) = {g.ops[j].outs[1]} /\ g.ops[j].ins[1] \in g.tensors
      BY <1>1, <2>1, ReshapeFacts
    <3> QED  BY <2>1, <3>1
  <2>3. in \notin ReshapeOuts(g)
    <3> SUFFICES ASSUME in \in ReshapeOuts(g) PROVE FALSE
      OBVIOUS
    <3>1. PICK k \in DOMAIN g.ops : IsReshape(g.ops[k]) /\ in \in Writes(g.ops[k])
      BY DEF ReshapeOuts
    <3>2. in = g.ops[k].outs[1]  BY <1>1, <3>1, ReshapeFacts
    <3> QED  BY <2>1, <3>1, <3>2 DEF Chained
  <2>4. u = in
    <3>1. Owners(g)[g.ops[j].outs[1]] = Owners(g)[in]  BY <1>1, <2>1, OwnerFacts
    <3>2. Owners(g)[in] = in  BY <1>1, <2>2, <2>3, OwnerFacts
    <3> QED  BY <2>2, <3>1, <3>2
  <2>5. u \in Slotted(p)  BY VerdictFacts DEF Batchable
  <2>6. i - 1 \in TouchedAt(g, t)  BY DEF TouchedAt
  <2>7. t \in Slotted(p)
    <3>1. t \notin WrittenBefore(g, j)  BY <1>1, <2>1, WrittenGrows
    <3>2. t \notin g.const  BY <3>1 DEF WrittenBefore
    <3> QED  BY <1>1, <2>6, <3>2 DEF Activations, Batchable
  <2>8. PlannedLife(p, t).last_use <= LivesWithReshapes(g, p)[u].last_use
    <3>1. \A k \in DOMAIN g.ops :
            IsReshape(g.ops[k]) /\ g.ops[k].ins[1] \in Slotted(p) /\ g.ops[k].outs[1] \in Slotted(p)
              => PlannedLife(p, g.ops[k].outs[1]).last_use
                   <= LivesWithReshapes(g, p)[g.ops[k].ins[1]].last_use
      BY LiveFacts DEF Batchable
    <3> QED  BY <2>1, <2>2, <2>4, <2>5, <2>7, <3>1
  <2>9. i - 1 <= PlannedLife(p, t).last_use /\ PlannedLife(p, t).last_use \in Int
    <3>1. i - 1 \in UsedAt(g, t)  BY <2>6 DEF UsedAt
    <3>2. PlannedLife(p, t) \in Life /\ \A k \in UsedAt(g, t) : k <= PlannedLife(p, t).last_use
      BY <2>7, SlotAtFacts DEF Batchable
    <3> QED  BY <3>1, <3>2 DEF Life
  <2>10. LivesWithReshapes(g, p)[u].last_use \in Int /\ i \in Int  BY <1>1, ActivationLives
  <2> HIDE DEF u
  <2> QED  BY <2>8, <2>9, <2>10 DEF u
<1> QED  BY <1>2, <1>3

(* No op that is run writes what a reshape gives.                          *)
LEMMA OwnWrites ==
  ASSUME NEW g, IsGraph(g), WellFormed(g),
         NEW i \in DOMAIN g.ops, ~IsReshape(g.ops[i]), NEW w \in Writes(g.ops[i])
  PROVE  w \notin ReshapeOuts(g)
<1> SUFFICES ASSUME w \in ReshapeOuts(g) PROVE FALSE
  OBVIOUS
<1>1. PICK j \in DOMAIN g.ops : IsReshape(g.ops[j]) /\ w \in Writes(g.ops[j])
  BY DEF ReshapeOuts
<1>2. /\ DOMAIN g.ops = 1 .. Len(g.ops) /\ Len(g.ops) \in Nat /\ i \in Int /\ j \in Int /\ i # j
      /\ i \in 1 .. Len(g.ops) + 1 /\ j \in 1 .. Len(g.ops) + 1
      /\ i + 1 \in 1 .. Len(g.ops) + 1 /\ j + 1 \in 1 .. Len(g.ops) + 1
  <2>1. DOMAIN g.ops = 1 .. Len(g.ops) /\ Len(g.ops) \in Nat  BY GraphFacts
  <2>2. i # j  BY <1>1
  <2> QED  BY <2>1, <2>2
<1>3. w \in WrittenBefore(g, i + 1) /\ w \in WrittenBefore(g, j + 1)  BY <1>1, WrittenGrows
<1>4. w \notin WrittenBefore(g, i) /\ w \notin WrittenBefore(g, j)  BY <1>1, WrittenGrows
<1>5. i + 1 <= j \/ j + 1 <= i  BY <1>2
<1>6. \A k, n \in 1 .. Len(g.ops) + 1 : k <= n => WrittenBefore(g, k) \subseteq WrittenBefore(g, n)
  BY WrittenGrows
<1> QED  BY <1>2, <1>3, <1>4, <1>5, <1>6

(* What an op of the batch writes lies clear of all that is wanted after   *)
(* it, and of what else it writes.                                         *)
LEMMA ResultsMissTheWanted ==
  ASSUME NEW g, NEW p, NEW alias, NEW budget, Batchable(g, p, alias, budget),
         NEW i \in DOMAIN g.ops, ~IsReshape(g.ops[i]), NEW w \in Writes(g.ops[i]),
         NEW u \in (g.tensors \ ReshapeOuts(g)) \intersect WrittenBefore(g, i + 1), u # w,
         \/ u \in Writes(g.ops[i])
         \/ alias /\ u \in ActNames(g) => i <= LivesWithReshapes(g, p)[u].last_use
  PROVE  /\ w \in g.tensors \ ReshapeOuts(g)
         /\ Apart(Placements(g, p, alias), g, w, u)
<1> DEFINE live == LivesWithReshapes(g, p)
<1>1. /\ IsGraph(g) /\ Shaped(g) /\ WellFormed(g) /\ DOMAIN g.ops = 1 .. Len(g.ops)
      /\ Len(g.ops) \in Nat /\ w \in g.tensors
  BY GraphFacts DEF Batchable
<1>2. w \notin ReshapeOuts(g)  BY <1>1, OwnWrites
<1>3. w \in g.tensors \ ReshapeOuts(g)  BY <1>1, <1>2
<1>4. \/ Apart(Placements(g, p, alias), g, w, u)
      \/ alias /\ w \in ActNames(g) /\ u \in ActNames(g) /\ NeverTogether(g, p, w, u)
  BY <1>3, PlacesApart DEF Batchable
<1>5. ASSUME alias, w \in ActNames(g), u \in ActNames(g) PROVE ~NeverTogether(g, p, w, u)
  <2>1. /\ live[w].first_use \in Int /\ live[w].last_use \in Int
        /\ live[w].first_use <= i - 1 /\ i - 1 <= live[w].last_use
    BY <1>5, ActivationLives
  <2>2. live[u].first_use \in Int /\ live[u].last_use \in Int  BY <1>5, ActivationLives
  <2>3. i - 1 <= live[u].last_use
    <3>1. CASE u \in Writes(g.ops[i])  BY <1>5, <3>1, ActivationLives
    <3>2. CASE i <= live[u].last_use  BY <1>1, <2>2, <3>2
    <3> QED  BY <1>5, <3>1, <3>2
  <2>4. live[u].first_use <= i - 1
    <3>1. u \notin g.inputs \union g.const  BY <1>5 DEF ActNames, IoNames
    <3>2. PICK j \in 1 .. i : u \in Writes(g.ops[j])
      <4>1. (i + 1) - 1 = i  BY <1>1
      <4> QED  BY <3>1, <4>1 DEF WrittenBefore
    <3>3. j \in DOMAIN g.ops /\ j \in Int /\ j <= i  BY <1>1, <3>2
    <3>4. live[u].first_use <= j - 1  BY <1>5, <3>2, <3>3, ActivationLives
    <3> QED  BY <1>1, <2>2, <3>3, <3>4
  <2> HIDE DEF live
  <2>5. live[w].first_use <= live[u].last_use /\ live[u].first_use <= live[w].last_use
    BY <1>1, <2>1, <2>2, <2>3, <2>4
  <2> QED  BY <2>5 DEF NeverTogether, Overlaps, live
<1> QED  BY <1>3, <1>4, <1>5

-----------------------------------------------------------------------------
(* The run of the batch.                                                   *)

Own == graph.tensors \ ReshapeOuts(graph)

(* Whose bytes must be right before op k: what was written and, where the  *)
(* plan's addresses are reused, still lives.                               *)
Wanted(k) ==
  {u \in Own \intersect WrittenBefore(graph, k) :
     pack.aliased /\ u \in ActNames(graph) =>
       k - 1 <= LivesWithReshapes(graph, plan)[u].last_use}

BatchPacked ==
  stage = "batch" =>
    /\ pack.aliased \in BOOLEAN /\ PackVerdict(graph, plan, pack.aliased) = "batch"
    /\ pack.at = Placements(graph, plan, pack.aliased)
    /\ pack.nbytes = [t \in graph.tensors |-> WireBytes(graph, t)]
    /\ DOMAIN arena = 0 .. ArenaBytes(graph, plan, pack.aliased) - 1
    /\ step \in 1 .. Len(graph.ops) + 1

Followed == ~(pack.aliased /\ Chained(graph))

StorageIntact ==
  stage = "batch" /\ Followed => \A u \in Wanted(step) : \A b \in Span(pack, u) : arena[b] = u

Delivered ==
  stage = "batch_finished" /\ Followed => \A t \in graph.outputs : ddr[t] = t

BatchInv == BatchPacked /\ StorageIntact /\ Delivered

(* Where an owner lies in a pack of these placements.                      *)
LEMMA SpanFacts ==
  ASSUME NEW g, NEW p, NEW alias, NEW budget, Batchable(g, p, alias, budget), NEW pk,
         pk.at = Placements(g, p, alias), pk.nbytes = [t \in g.tensors |-> WireBytes(g, t)]
  PROVE  /\ \A t \in g.tensors : Span(pk, t) = Span(pk, Owners(g)[t])
         /\ \A t \in g.tensors \ ReshapeOuts(g) : Span(pk, t) \subseteq 0 .. ArenaBytes(g, p, alias) - 1
         /\ \A t, u \in g.tensors \ ReshapeOuts(g) :
              Apart(pk.at, g, t, u) => Span(pk, t) \intersect Span(pk, u) = {}
<1> DEFINE at == Placements(g, p, alias)
           size(t) == WireBytes(g, t)
           own == g.tensors \ ReshapeOuts(g)
<1>1. \A t \in g.tensors : Span(pk, t) = at[t] .. at[t] + size(t) - 1  BY DEF Span
<1>2. \A t \in g.tensors : Owners(g)[t] \in g.tensors /\ at[t] = at[Owners(g)[t]]
  BY OwnerFacts, PlacesApart DEF Batchable
<1>3. \A t \in g.tensors : size(t) = size(Owners(g)[t])  BY VerdictFacts DEF Batchable
<1>4. /\ \A t \in own : at[t] \in Nat /\ at[t] + size(t) <= ArenaBytes(g, p, alias)
      /\ ArenaBytes(g, p, alias) \in Nat
  BY PlacesApart DEF Batchable
<1>5. \A t \in own : size(t) \in Nat /\ t \in g.tensors  BY WireFacts DEF Batchable
<1> HIDE DEF at, size, own
<1>6. \A t \in g.tensors : Span(pk, t) = Span(pk, Owners(g)[t])  BY <1>1, <1>2, <1>3
<1>7. \A t \in own : Span(pk, t) \subseteq 0 .. ArenaBytes(g, p, alias) - 1  BY <1>1, <1>4, <1>5
<1>8. ASSUME NEW t \in own, NEW u \in own, Apart(pk.at, g, t, u)
      PROVE  Span(pk, t) \intersect Span(pk, u) = {}
  <2>1. at[t] + size(t) <= at[u] \/ at[u] + size(u) <= at[t]  BY <1>8 DEF Apart, at, size
  <2>2. Span(pk, t) = at[t] .. at[t] + size(t) - 1 /\ Span(pk, u) = at[u] .. at[u] + size(u) - 1
    BY <1>1, <1>5
  <2> QED  BY <1>4, <1>5, <2>1, <2>2
<1> QED  BY <1>6, <1>7, <1>8 DEF own

(* The constants and the inputs are staged where nothing else of theirs    *)
(* lies.                                                                   *)
LEMMA PackKeeps ==
  ASSUME CompileInv, NEW alias \in BOOLEAN, Pack(alias)
  PROVE  BatchInv'
<1> DEFINE verdict == PackVerdict(graph, plan, alias)
           fed == graph.const \union graph.inputs
<1>1. /\ stage = "compiled" /\ stage' = verdict /\ graph' = graph /\ plan' = plan
  BY DEF Pack
<1>2. verdict # "batch_finished"  BY DEF PackVerdict
<1>3. CASE verdict # "batch"
  <2>1. stage' # "batch" /\ stage' # "batch_finished"  BY <1>1, <1>2, <1>3
  <2> QED  BY <2>1 DEF BatchInv, BatchPacked, StorageIntact, Delivered
<1>4. CASE verdict = "batch"
  <2>1. /\ pack' = [at |-> Placements(graph, plan, alias),
                    nbytes |-> [t \in graph.tensors |-> WireBytes(graph, t)],
                    aliased |-> alias]
        /\ arena' = [b \in 0 .. ArenaBytes(graph, plan, alias) - 1 |->
                       IF \E t \in fed : b \in Span(pack', t)
                       THEN CHOOSE t \in fed : b \in Span(pack', t) ELSE Junk]
        /\ step' = 1
    BY <1>1, <1>4 DEF Pack
  <2>2. Batchable(graph, plan, alias, request.budget)
    BY <1>1, <1>4, PlanIsBatchable DEF Planned, Accepted
  <2>3. /\ IsGraph(graph) /\ Shaped(graph) /\ WellFormed(graph)
        /\ Len(graph.ops) \in Nat /\ DOMAIN graph.ops = 1 .. Len(graph.ops)
        /\ fed \subseteq graph.tensors
    BY <2>2, GraphFacts DEF Batchable
  <2>4. fed = WrittenBefore(graph, 1)  BY <2>3, WrittenGrows
  <2>5. fed \subseteq Own
    <3> SUFFICES ASSUME NEW t \in fed, t \in ReshapeOuts(graph) PROVE FALSE
      BY <2>3 DEF Own
    <3>1. PICK j \in DOMAIN graph.ops : t \in Writes(graph.ops[j])  BY DEF ReshapeOuts
    <3>2. t \notin WrittenBefore(graph, j)  BY <2>3, <3>1, WrittenGrows
    <3> QED  BY <3>2 DEF WrittenBefore
  <2>6. fed \intersect ActNames(graph) = {}  BY DEF ActNames, IoNames
  <2> HIDE DEF fed
  <2>7. pack'.at = Placements(graph, plan, alias) /\ pack'.aliased = alias
        /\ pack'.nbytes = [t \in graph.tensors |-> WireBytes(graph, t)]
    BY <2>1
  <2>8. \A t, u \in fed : t # u => Apart(pack'.at, graph, t, u)
    BY <2>2, <2>5, <2>6, <2>7, PlacesApart DEF Batchable, Own
  <2>9. /\ \A t \in Own : Span(pack', t) \subseteq 0 .. ArenaBytes(graph, plan, alias) - 1
        /\ \A t, u \in Own : Apart(pack'.at, graph, t, u)
                               => Span(pack', t) \intersect Span(pack', u) = {}
    BY <2>2, <2>7, SpanFacts DEF Own
  <2>10. ASSUME NEW u \in fed, NEW b \in Span(pack', u) PROVE arena'[b] = u
    <3>1. \A t \in fed : b \in Span(pack', t) => t = u  BY <2>5, <2>8, <2>9, <2>10
    <3>2. b \in 0 .. ArenaBytes(graph, plan, alias) - 1  BY <2>5, <2>9, <2>10
    <3>3. (CHOOSE t \in fed : b \in Span(pack', t)) = u  BY <2>10, <3>1
    <3> QED  BY <2>1, <2>10, <3>2, <3>3
  <2>11. BatchPacked'
    BY <1>1, <1>4, <2>1, <2>3, <2>7 DEF BatchPacked
  <2>12. StorageIntact'
    <3>1. Wanted(1)' \subseteq fed  BY <1>1, <2>4 DEF Wanted
    <3> QED  BY <2>1, <2>10, <3>1 DEF StorageIntact
  <2> QED  BY <1>1, <1>4, <2>11, <2>12 DEF BatchInv, Delivered
<1> QED  BY <1>3, <1>4

(* Between two ops of the batch only reshapes are passed over, and these   *)
(* write nothing of their own.                                             *)
LEMMA PassedOver ==
  ASSUME NEW g, IsGraph(g), WellFormed(g), NEW k \in 1 .. Len(g.ops) + 1,
         NEW i \in 1 .. Len(g.ops) + 1, k <= i,
         \A j \in DOMAIN g.ops : k <= j /\ j < i => IsReshape(g.ops[j])
  PROVE  (g.tensors \ ReshapeOuts(g)) \intersect WrittenBefore(g, i) \subseteq WrittenBefore(g, k)
<1> SUFFICES ASSUME NEW u \in WrittenBefore(g, i), u \notin ReshapeOuts(g)
             PROVE  u \in WrittenBefore(g, k)
  OBVIOUS
<1>1. DOMAIN g.ops = 1 .. Len(g.ops) /\ Len(g.ops) \in Nat  BY GraphFacts
<1>2. CASE u \in g.inputs \union g.const  BY <1>2 DEF WrittenBefore
<1>3. CASE \E j \in 1 .. i - 1 : u \in Writes(g.ops[j])
  <2>1. PICK j \in 1 .. i - 1 : u \in Writes(g.ops[j])  BY <1>3
  <2>2. j \in DOMAIN g.ops /\ j < i  BY <1>1, <2>1
  <2>3. ~IsReshape(g.ops[j])  BY <2>1, <2>2 DEF ReshapeOuts
  <2>4. ~(k <= j)  BY <2>2, <2>3
  <2>5. j \in 1 .. k - 1  BY <2>1, <2>4
  <2> QED  BY <2>1, <2>5 DEF WrittenBefore
<1> QED  BY <1>2, <1>3 DEF WrittenBefore

(* What the next op reads, and what is wanted after it.                    *)
LEMMA NextOpFacts ==
  ASSUME NEW g, IsGraph(g), WellFormed(g), NEW k \in 1 .. Len(g.ops) + 1, NEW rest,
         rest = {j \in BatchOps(g) : k <= j}, rest # {}
  PROVE  LET i == Min(rest)
         IN  /\ i \in 1 .. Len(g.ops) /\ i \in DOMAIN g.ops /\ ~IsReshape(g.ops[i])
             /\ i + 1 \in 1 .. Len(g.ops) + 1 /\ k <= i
             /\ (g.tensors \ ReshapeOuts(g)) \intersect WrittenBefore(g, i)
                  \subseteq WrittenBefore(g, k)
             /\ WrittenBefore(g, i + 1) = WrittenBefore(g, i) \union Writes(g.ops[i])
<1> DEFINE i == Min(rest)
<1>1. DOMAIN g.ops = 1 .. Len(g.ops) /\ Len(g.ops) \in Nat  BY GraphFacts
<1>2. rest \subseteq Nat /\ \A j \in rest : k <= j  BY <1>1 DEF BatchOps
<1>3. i \in rest /\ \A j \in rest : i <= j  BY <1>2, MinIsLeast
<1> HIDE DEF i
<1>4. i \in 1 .. Len(g.ops) /\ i \in DOMAIN g.ops /\ ~IsReshape(g.ops[i]) /\ k <= i
  BY <1>1, <1>3 DEF BatchOps
<1>5. i \in 1 .. Len(g.ops) + 1 /\ i + 1 \in 1 .. Len(g.ops) + 1  BY <1>1, <1>4
<1>6. \A j \in DOMAIN g.ops : k <= j /\ j < i => IsReshape(g.ops[j])
  BY <1>1, <1>3, <1>4 DEF BatchOps
<1>7. (g.tensors \ ReshapeOuts(g)) \intersect WrittenBefore(g, i) \subseteq WrittenBefore(g, k)
  BY <1>4, <1>5, <1>6, PassedOver
<1>8. WrittenBefore(g, i + 1) = WrittenBefore(g, i) \union Writes(g.ops[i])
  BY <1>4, WrittenGrows
<1> QED  BY <1>4, <1>5, <1>7, <1>8 DEF i

(* An op of the batch finds every operand right, and spoils nothing that   *)
(* is still wanted.                                                        *)
LEMMA RunBatchOpKeeps ==
  ASSUME CompileInv, BatchInv, RunBatchOp
  PROVE  BatchInv'
<1> DEFINE g == graph
           alias == pack.aliased
           i == Min(Unrun)
           op == g.ops[i]
           live == LivesWithReshapes(graph, plan)
           right == \A t \in Reads(op) : Holds(t)
<1>1. /\ stage = "batch" /\ stage' = "batch" /\ Unrun # {}
      /\ graph' = graph /\ plan' = plan /\ pack' = pack /\ step' = i + 1
      /\ arena' = [b \in DOMAIN arena |->
                     IF \E t \in Writes(op) : b \in Span(pack, t)
                     THEN IF right THEN CHOOSE t \in Writes(op) : b \in Span(pack, t) ELSE Junk
                     ELSE arena[b]]
  BY DEF RunBatchOp
<1>2. /\ alias \in BOOLEAN /\ PackVerdict(graph, plan, alias) = "batch"
      /\ pack.at = Placements(graph, plan, alias)
      /\ pack.nbytes = [t \in graph.tensors |-> WireBytes(graph, t)]
      /\ DOMAIN arena = 0 .. ArenaBytes(graph, plan, alias) - 1
      /\ step \in 1 .. Len(graph.ops) + 1
  BY <1>1 DEF BatchInv, BatchPacked
<1>3. Batchable(graph, plan, alias, request.budget)
  BY <1>1, <1>2, PlanIsBatchable DEF Planned, Accepted
<1>4. /\ IsGraph(graph) /\ Shaped(graph) /\ WellFormed(graph)
      /\ Len(graph.ops) \in Nat /\ DOMAIN graph.ops = 1 .. Len(graph.ops)
      /\ \A j \in DOMAIN graph.ops : Reads(graph.ops[j]) \subseteq graph.tensors
                                     /\ Writes(graph.ops[j]) \subseteq graph.tensors
  BY <1>3, GraphFacts DEF Batchable
<1>5. /\ i \in 1 .. Len(graph.ops) /\ i \in DOMAIN graph.ops /\ ~IsReshape(op)
      /\ i + 1 \in 1 .. Len(graph.ops) + 1 /\ step <= i
      /\ Own \intersect WrittenBefore(graph, i) \subseteq WrittenBefore(graph, step)
      /\ WrittenBefore(graph, i + 1) = WrittenBefore(graph, i) \union Writes(op)
  BY <1>1, <1>2, <1>4, NextOpFacts DEF Unrun, Own
<1> HIDE DEF i
<1>6. /\ \A t \in graph.tensors : Span(pack, t) = Span(pack, Owners(graph)[t])
      /\ \A t \in Own : Span(pack, t) \subseteq DOMAIN arena
      /\ \A t, u \in Own : Apart(pack.at, graph, t, u) => Span(pack, t) \intersect Span(pack, u) = {}
  BY <1>2, <1>3, SpanFacts DEF Own
<1>7. Writes(op) \subseteq Own /\ Writes(op) \subseteq WrittenBefore(graph, i + 1)
  BY <1>4, <1>5, OwnWrites DEF Own
<1>8. BatchPacked'  BY <1>1, <1>2, <1>5 DEF BatchPacked
<1>9. ASSUME Followed PROVE right
  <2> SUFFICES ASSUME NEW t \in Reads(op) PROVE Holds(t)
    OBVIOUS
  <2> DEFINE u == Owners(graph)[t]
  <2>1. t \in graph.tensors /\ t \in WrittenBefore(graph, i)  BY <1>4, <1>5, WrittenGrows
  <2>2. u \in Own /\ u \in WrittenBefore(graph, i)
    <3>1. i \in 1 .. Len(graph.ops) + 1  BY <1>4, <1>5
    <3> QED  BY <1>4, <2>1, <3>1, OwnerFacts DEF Own
  <2>3. u \in WrittenBefore(graph, step)  BY <1>5, <2>2
  <2>4. alias /\ u \in ActNames(graph) => step - 1 <= live[u].last_use
    <3> SUFFICES ASSUME alias, u \in ActNames(graph) PROVE step - 1 <= live[u].last_use
      OBVIOUS
    <3>1. ~Chained(graph)  BY <1>9 DEF Followed
    <3>2. i - 1 <= live[u].last_use  BY <1>3, <1>5, <3>1, OperandStorageLives
    <3>3. live[u].last_use \in Int  BY <1>3, ActivationLives
    <3> HIDE DEF live, u
    <3> QED  BY <1>2, <1>4, <1>5, <3>2, <3>3
  <2>5. u \in Wanted(step)  BY <2>2, <2>3, <2>4 DEF Wanted
  <2>6. \A b \in Span(pack, u) : arena[b] = u  BY <1>1, <1>9, <2>5 DEF BatchInv, StorageIntact
  <2> QED  BY <1>6, <2>1, <2>6 DEF Holds
<1> HIDE DEF right
<1>10. ASSUME Followed, NEW u \in Wanted(i + 1), NEW b \in Span(pack, u) PROVE arena'[b] = u
  <2>1. u \in Own /\ u \in WrittenBefore(graph, i + 1) /\ b \in DOMAIN arena
    BY <1>6, <1>10 DEF Wanted
  <2>2. alias /\ u \in ActNames(graph) => i <= live[u].last_use
    <3>1. (i + 1) - 1 = i  BY <1>5
    <3> QED  BY <1>10, <3>1 DEF Wanted
  <2>3. \A w \in Writes(op) : w # u => b \notin Span(pack, w)
    <3> SUFFICES ASSUME NEW w \in Writes(op), w # u PROVE b \notin Span(pack, w)
      OBVIOUS
    <3>1. Apart(Placements(graph, plan, alias), graph, w, u)
      BY <1>3, <1>5, <2>1, <2>2, ResultsMissTheWanted DEF Own
    <3> QED  BY <1>2, <1>6, <1>7, <1>10, <2>1, <3>1
  <2>4. CASE u \in Writes(op)
    <3>1. (CHOOSE t \in Writes(op) : b \in Span(pack, t)) = u  BY <1>10, <2>3, <2>4
    <3>2. right  BY <1>9, <1>10
    <3> QED  BY <1>1, <1>10, <2>1, <2>4, <3>1, <3>2
  <2>5. CASE u \notin Writes(op)
    <3>1. arena'[b] = arena[b]  BY <1>1, <2>1, <2>3, <2>5
    <3>2. u \in WrittenBefore(graph, i)  BY <1>5, <2>1, <2>5
    <3>3. u \in WrittenBefore(graph, step)  BY <1>5, <2>1, <3>2
    <3>4. alias /\ u \in ActNames(graph) => step - 1 <= live[u].last_use
      <4> SUFFICES ASSUME alias, u \in ActNames(graph) PROVE step - 1 <= live[u].last_use
        OBVIOUS
      <4>1. live[u].last_use \in Int /\ i <= live[u].last_use  BY <1>3, <2>2, ActivationLives
      <4> HIDE DEF live
      <4> QED  BY <1>2, <1>4, <1>5, <4>1
    <3>5. u \in Wanted(step)  BY <2>1, <3>3, <3>4 DEF Wanted
    <3> QED  BY <1>1, <1>10, <3>1, <3>5 DEF BatchInv, StorageIntact
  <2> QED  BY <2>4, <2>5
<1>11. StorageIntact'
  <2> SUFFICES ASSUME Followed' PROVE \A u \in Wanted(step)' : \A b \in Span(pack, u)' : arena'[b] = u
    BY DEF StorageIntact
  <2>1. Followed  BY <1>1 DEF Followed
  <2>2. Wanted(step)' = Wanted(i + 1)  BY <1>1 DEF Wanted, Own
  <2>3. \A u : Span(pack, u)' = Span(pack, u)  BY <1>1
  <2> QED  BY <1>10, <2>1, <2>2, <2>3
<1> QED  BY <1>1, <1>8, <1>11 DEF BatchInv, Delivered

(* What is read back is what the graph computes.                           *)
LEMMA ReadBackKeeps ==
  ASSUME CompileInv, BatchInv, ReadBack
  PROVE  BatchInv'
<1>1. /\ stage = "batch" /\ stage' = "batch_finished" /\ Unrun = {}
      /\ graph' = graph /\ pack' = pack
      /\ ddr' = [t \in graph.outputs |-> IF Holds(t) THEN t ELSE Junk]
  BY DEF ReadBack, batchVars
<1>2. /\ pack.aliased \in BOOLEAN /\ PackVerdict(graph, plan, pack.aliased) = "batch"
      /\ step \in 1 .. Len(graph.ops) + 1
  BY <1>1 DEF BatchInv, BatchPacked
<1>3. /\ IsGraph(graph) /\ Shaped(graph) /\ WellFormed(graph)
      /\ Len(graph.ops) \in Nat /\ DOMAIN graph.ops = 1 .. Len(graph.ops)
  BY <1>1, PlanFacts, GraphFacts DEF Planned, Accepted
<1>4. ASSUME Followed, NEW t \in graph.outputs PROVE Holds(t)
  <2>1. t \in graph.tensors /\ t \in WrittenBefore(graph, Len(graph.ops) + 1)
    BY <1>3 DEF WellFormed
  <2>2. t \notin ReshapeOuts(graph) /\ t \notin ActNames(graph)
    BY <1>2, VerdictFacts DEF IoNames, ActNames
  <2>3. t \in Own /\ Owners(graph)[t] = t  BY <1>3, <2>1, <2>2, OwnerFacts DEF Own
  <2>4. t \in WrittenBefore(graph, step)
    <3>1. \A j \in DOMAIN graph.ops : step <= j => IsReshape(graph.ops[j])
      BY <1>1 DEF Unrun, BatchOps
    <3>2. Len(graph.ops) + 1 \in 1 .. Len(graph.ops) + 1 /\ step <= Len(graph.ops) + 1
      BY <1>2, <1>3
    <3> QED  BY <1>2, <1>3, <2>1, <2>2, <3>1, <3>2, PassedOver
  <2>5. t \in Wanted(step)  BY <2>2, <2>3, <2>4 DEF Wanted
  <2> QED  BY <1>1, <1>4, <2>3, <2>5 DEF BatchInv, StorageIntact, Holds
<1>5. Delivered'  BY <1>1, <1>4 DEF Delivered, Followed
<1> QED  BY <1>1, <1>5 DEF BatchInv, BatchPacked, StorageIntact

LEMMA BatchNextInv == CompileInv /\ BatchInv /\ [WholeNext]_wholeVars => BatchInv'
<1> SUFFICES ASSUME CompileInv, BatchInv, [WholeNext]_wholeVars PROVE BatchInv'
  OBVIOUS
<1>1. CASE \E alias \in BOOLEAN : Pack(alias)  BY <1>1, PackKeeps
<1>2. CASE RunBatchOp  BY <1>2, RunBatchOpKeeps
<1>3. CASE ReadBack  BY <1>3, ReadBackKeeps
<1>4. CASE UNCHANGED vars /\ UNCHANGED batchVars
  BY <1>4 DEF vars, planVars, batchVars, BatchInv, BatchPacked, StorageIntact, Delivered,
              Followed, Wanted, Own, Span
<1>5. CASE PlanNext /\ ~UNCHANGED vars
  <2>1. stage' # "batch" /\ stage' # "batch_finished"
    <3>1. CASE Compile  BY <3>1 DEF Compile
    <3>2. CASE PlaceActivations
      <4>1. stage' = stage  BY <3>2 DEF PlaceActivations, planVars
      <4>2. outcome = "placing"
        <5>1. current # NoTensor => outcome = "placing"  BY DEF CompileInv, AllocInv, AllocTypeOK
        <5> QED  BY <3>2, <5>1 DEF PlaceActivations, Place, NextTensor, PassBusy, Settle, Answer
      <4> QED  BY <4>1, <4>2 DEF CompileInv, RequestInv
    <3>3. CASE InsertTransfers  BY <3>3 DEF InsertTransfers, TransferVerdict
    <3>4. CASE CheckPlan  BY <3>4 DEF CheckPlan, CompileVerdict
    <3>5. CASE StartReplay  BY <3>5 DEF StartReplay
    <3>6. CASE \E t \in pending : StageIn(t)  BY <3>6 DEF StageIn
    <3>7. CASE StreamWeight  BY <3>7 DEF StreamWeight
    <3>8. CASE RunOp  BY <3>8 DEF RunOp
    <3>9. CASE \E t \in pending : WriteBack(t)  BY <3>9 DEF WriteBack
    <3>10. CASE NextStep  BY <3>10 DEF NextStep
    <3>11. CASE Deliver  BY <3>11 DEF Deliver
    <3> QED
      BY <1>5, <3>1, <3>2, <3>3, <3>4, <3>5, <3>6, <3>7, <3>8, <3>9, <3>10, <3>11
      DEF PlanNext, Returned
  <2> QED  BY <2>1 DEF BatchInv, BatchPacked, StorageIntact, Delivered
<1> QED  BY <1>1, <1>2, <1>3, <1>4, <1>5 DEF WholeNext, wholeVars

(* Whichever way a plan is run, replayed op by op or packed into one batch *)
(* with or without the plan's own addresses, what is delivered is what the *)
(* graph computes, for every graph, budget, policy and chunk size.         *)
THEOREM OutputsAlwaysRight == WholeSpec => []OutputsRight
<1>1. WholeInit => BatchInv
  <2>1. WholeInit => stage = "idle"  BY DEF WholeInit, PlanInit
  <2> QED  BY <2>1 DEF BatchInv, BatchPacked, StorageIntact, Delivered
<1>2. ReplayInv /\ BatchInv => OutputsRight
  BY DEF ReplayInv, BatchInv, Delivered, Followed, OutputsRight, Run
<1> QED  BY <1>1, <1>2, BatchNextInv, PlanInvariant, PTL DEF WholeSpec

=============================================================================
