------------------------------ MODULE GraphIR -------------------------------
(***************************************************************************)
(* The graph a model is compiled from (graph/ir.py) and the live intervals *)
(* of its tensors (graph/liveness.py).  A graph is a record:               *)
(*   ops      sequence of [id, kind, ins, outs], ins and outs sequences    *)
(*   tensors  the declared tensors, as numbers                             *)
(*   const    those with const=True                                        *)
(*   wide     those of two or more dimensions                              *)
(*   q4       those stored as q4_0 blocks                                  *)
(*   inputs, outputs   sets of tensors                                     *)
(*   nbytes   the size of each                                             *)
(***************************************************************************)
EXTENDS Integers, Sequences, FiniteSetsExt

(* What the constructors enforce: every dimension, so every size, is       *)
(* positive.                                                               *)
IsGraph(g) ==
  /\ g.ops \in Seq([id : Int, kind : STRING, ins : Seq(Nat), outs : Seq(Nat)])
  /\ g.const \subseteq g.tensors /\ g.tensors \subseteq DOMAIN g.nbytes
  /\ g.nbytes \in [DOMAIN g.nbytes -> Nat \ {0}]
  /\ IsFiniteSet(g.tensors) /\ g.tensors \subseteq Nat

Reads(op) == {op.ins[k] : k \in DOMAIN op.ins}
Writes(op) == {op.outs[k] : k \in DOMAIN op.outs}

(* What may be read before op i runs. *)
WrittenBefore(g, i) ==
  g.inputs \union g.const \union UNION {Writes(g.ops[j]) : j \in 1 .. i - 1}

(* Graph.problems() finds nothing. *)
WellFormed(g) ==
  /\ g.ops # <<>> /\ g.outputs # {}
  /\ \A i, j \in DOMAIN g.ops : i # j => g.ops[i].id # g.ops[j].id
  /\ \A i \in DOMAIN g.ops :
       /\ Reads(g.ops[i]) \subseteq g.tensors \intersect WrittenBefore(g, i)
       /\ Writes(g.ops[i]) \subseteq g.tensors \ WrittenBefore(g, i)
       /\ Cardinality(Writes(g.ops[i])) = Len(g.ops[i].outs)
  /\ g.inputs \subseteq g.tensors
  /\ g.outputs \subseteq g.tensors \intersect WrittenBefore(g, Len(g.ops) + 1)

-----------------------------------------------------------------------------
(* live_intervals.  Steps are positions from 0, as in the source.          *)

(* Mutant: a read does not lengthen a tensor's life. *)
TouchedByWrites(g, t) == {i - 1 : i \in {j \in DOMAIN g.ops : t \in Writes(g.ops[j])}}

TouchedAt(g, t) == {i - 1 : i \in {j \in DOMAIN g.ops :
                                     t \in Reads(g.ops[j]) \union Writes(g.ops[j])}}

UsedAt(g, t) == TouchedAt(g, t)
                  \union (IF t \in g.inputs THEN {0} ELSE {})
                  \union (IF t \in g.outputs THEN {Len(g.ops)} ELSE {})

Activations(g) ==
  {t \in g.tensors \ g.const :
     t \in g.inputs \/ TouchedAt(g, t) # {}}

LiveIntervals(g) ==
  [t \in Activations(g) |->
     [first_use |-> Min(UsedAt(g, t)),
      last_use |-> Max(UsedAt(g, t)),
      nbytes |-> g.nbytes[t]]]
=============================================================================
