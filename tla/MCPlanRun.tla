----------------------------- MODULE MCPlanRun ------------------------------
(***************************************************************************)
(* Small graphs over one input, three constants and three results: plain,  *)
(* tiled and fused ops, results read at once, late, twice or never,        *)
(* outputs in the middle, weights of one and several chunks, and a budget  *)
(* that is sometimes too small for the activations, the chunks or the      *)
(* constants.                                                              *)
(***************************************************************************)
EXTENDS WholeBatch

x == 1   w == 2   v == 3   b == 4   Result(i) == 4 + i
MCTensors == 1..9

OpAt(i, kind, ins) == [id |-> i, kind |-> kind, ins |-> ins, outs |-> <<Result(i)>>]
Acts(i) == {x} \union {Result(j) : j \in 1 .. i - 1}

OpsAt(i) ==
  {OpAt(i, "add", <<p, q>>) : p \in Acts(i), q \in Acts(i) \union {v, b}}
    \union {OpAt(i, "matmul", <<p, q>>) : p \in Acts(i), q \in Acts(i) \union {w, v}}
    \union {OpAt(i, "matmul_epilogue", <<p, q, b>>) : p \in Acts(i), q \in {w, v}}

Chains(first, second, third) ==
  {<<f, s>> : f \in OpsAt(1), s \in OpsAt(2)}
    \union {<<f, s, t>> : f \in first, s \in second, t \in third}

MCSequences ==
  Chains({OpAt(1, "add", <<x, b>>), OpAt(1, "matmul", <<x, w>>)},
         {OpAt(2, "matmul", <<p, v>>) : p \in Acts(2)}
           \union {OpAt(2, "add", <<Result(1), q>>) : q \in {x, b}},
         OpsAt(3))

Sizes == {<<2, 5, 3, 1, 3, 2, 1>>, <<4, 3, 6, 2, 1, 4, 3>>}

GraphOf(ops, outs, sizes) ==
  [ops |-> ops, inputs |-> {x}, outputs |-> outs,
   tensors |-> {x, w, v, b} \union {Result(i) : i \in DOMAIN ops},
   const |-> {w, v, b}, wide |-> {w, v}, q4 |-> {w},
   nbytes |-> [t \in 1 .. 4 + Len(ops) |-> sizes[t]]]

AllGraphs ==
  {GraphOf(ops, {Result(Len(ops))} \union o, s) :
     ops \in MCSequences, o \in {{}, {Result(1)}}, s \in Sizes}

Reshape(i, t) == OpAt(i, "reshape", <<t>>)

(* An output that is an input, an input nobody reads that is a constant,   *)
(* a quantised bias, an output nobody writes, a weight that is an output,  *)
(* a reshape that is an output, one that changes the size, a tensor no op  *)
(* touches, two ops whose working set exceeds a budget the plan fits, and  *)
(* a quantised second operand that is not the streamed weight.             *)
OddGraphs ==
  LET g == GraphOf(<<OpAt(1, "matmul_epilogue", <<x, w, b>>)>>, {Result(1)},
                   <<2, 5, 3, 1, 3, 2, 1>>)
  IN  {[g EXCEPT !.outputs = {x, Result(1)}],
       [g EXCEPT !.inputs = {x, v}],
       [g EXCEPT !.q4 = {b}],
       [g EXCEPT !.outputs = {Result(2)}],
       [g EXCEPT !.outputs = {w}],
       [g EXCEPT !.tensors = @ \union {Result(2)}, !.nbytes = <<2, 5, 3, 1, 3, 2>>],
       GraphOf(<<OpAt(1, "add", <<x, x>>)>>, {Result(1)}, <<10, 5, 3, 1, 10>>),
       GraphOf(<<OpAt(1, "add", <<x, b>>), OpAt(2, "matmul", <<v, Result(1)>>)>>,
               {Result(2)}, <<2, 5, 26, 1, 2, 2>>),
       GraphOf(<<OpAt(1, "add", <<x, b>>), OpAt(2, "matmul", <<v, w>>)>>,
               {Result(2)}, <<2, 5, 3, 1, 2, 2>>),
       GraphOf(<<OpAt(1, "matmul", <<x, w>>), Reshape(2, Result(1))>>, {Result(2)},
               <<2, 5, 3, 1, 4, 4>>),
       GraphOf(<<OpAt(1, "matmul", <<x, w>>), Reshape(2, Result(1)),
                 OpAt(3, "add", <<Result(2), x>>)>>, {Result(3)}, <<2, 5, 3, 1, 4, 2, 2>>)}

(* Results kept under another shape, once or through a chain, and read     *)
(* after their storage could have been given away.                         *)
Kept(i) == {Result(j) : j \in 1 .. i - 1}
ReshapeSequences ==
  {<<OpAt(1, "matmul", <<x, w>>), Reshape(2, Result(1)), third,
     OpAt(4, "matmul", <<p, v>>), OpAt(5, "add", <<q, r>>)>> :
       third \in {Reshape(3, Result(1)), Reshape(3, Result(2))}
                   \union {OpAt(3, "matmul", <<t, v>>) : t \in {x, Result(2)}},
       p \in Kept(4), q \in Kept(4), r \in {Result(4), Result(3)}}

ReshapeGraphs ==
  {GraphOf(ops, {Result(5)}, <<n, 5, 3, 1, 4, 4, 4, n, 2>>) :
     ops \in ReshapeSequences, n \in {2, 6}}

MCGraphs == OddGraphs \union AllGraphs \union ReshapeGraphs
SharedGraphs == {g \in AllGraphs : SharedUse(g)}

MCBudgets == {8, 12, 24}
MCIntervals == {LiveIntervals(g) : g \in {h \in MCGraphs : WellFormed(h)}}
MCRequests == [ivs : MCIntervals, budget : MCBudgets, policy : Policies]
=============================================================================
