---------------------------- MODULE MCVtcmAlloc -----------------------------
(***************************************************************************)
(* Every way four tensors can be live over two steps with one- or          *)
(* two-unit slots, under both policies and a budget that some of them      *)
(* exceed; and every malformed request over one or two of them.            *)
(***************************************************************************)
EXTENDS VtcmAlloc

MCTensors == 1..4

Uses == {[first_use |-> f, last_use |-> l, nbytes |-> n] :
           f \in 0..2, l \in 0..2, n \in {2, 3}}
GoodUses == {i \in Uses : ~Malformed(i)}

GoodRequests ==
  [ivs : [MCTensors -> GoodUses], budget : {6}, policy : Policies]

OddRequests ==
  {NoRequest}
    \union [ivs : [{1, 2} -> {i \in Uses : i.nbytes = 2}],
            budget : {0, 4}, policy : {"linear_scan", "best_fit"}]
    \union [ivs : [{3} -> {[first_use |-> 0, last_use |-> 1, nbytes |-> 0]}],
            budget : {4}, policy : {"largest_first"}]

MCRequests == GoodRequests \union OddRequests
=============================================================================
