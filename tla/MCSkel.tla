------------------------------- MODULE MCSkel -------------------------------
(***************************************************************************)
(* Small instances of Skel.  MCControl* drives the control flow: every way *)
(* a batch can be refused or stop, one buffer, a competitor.  MCData*      *)
(* drives memory: two buffers, chained and in-place ops, two invokes.      *)
(***************************************************************************)
EXTENDS Skel

Op(kind, src, dst) == [kind |-> kind, src |-> src, dst |-> dst]
Tensor(bi, offset) == [bi |-> bi, offset |-> offset, nbytes |-> 1]
Buffer(fd, size) == [base |-> 0, fd |-> fd, size |-> size]

Batch(faults, bufs, tens, ops) ==
  [faults |-> faults, bufs |-> bufs, tens |-> tens, ops |-> ops]

OneBuffer == {3}
TwoBuffers == {3, 4}
OneVa == {1}
TwoVas == {1, 2}
UnitSize == {1}

(* One tensor, incremented in place, once or twice. *)
InPlace(faults, n) ==
  Batch(faults, <<Buffer(3, 1)>>, <<Tensor(1, 0)>>,
        [i \in 1 .. n |-> Op(100, <<1>>, <<1>>)])

MCControlBatches ==
  {InPlace({}, 0), InPlace({}, 2)}
    \union {InPlace({f}, 1) : f \in {"result_len", "batch_len", "magic"}}
    \union {Batch({}, <<Buffer(3, 1)>>, <<Tensor(1, 0)>>,
                  <<Op(100, <<1>>, <<1>>), Op(kind, <<t>>, <<1>>)>>) :
              kind \in {100, 199}, t \in {1, 2}}

MCLiveBatches == {InPlace({}, 0), InPlace({}, 2)}

(* y := k(x); x := k(y): the second op reads what the first one wrote, and *)
(* the next invoke reads what this one left.                               *)
MCDataBatches ==
  { Batch({}, <<Buffer(3, 1), Buffer(4, 1)>>, <<Tensor(1, 0), Tensor(2, 0)>>,
          <<Op(100, <<1>>, <<2>>), Op(101, <<2, 1>>, <<2>>)>>),
    Batch({"sections", "version"}, <<Buffer(3, 1)>>, <<Tensor(1, 0)>>,
          <<Op(100, <<1>>, <<1>>)>>),
    Batch({}, <<Buffer(4, 1), Buffer(3, 1)>>, <<Tensor(1, 0), Tensor(2, 0)>>,
          <<Op(100, <<1>>, <<2>>)>>) }

MCKernelTable == {100, 101}
NoBatches == {}

(* Memory without a competitor: the session alone with its cache.          *)
DataNext == DspStep \/ HostStep \/ CacheStep
DataSpec == SkelInit /\ [][DataNext]_vars
=============================================================================
