----------------------------- MODULE MCSkelBufs -----------------------------
(***************************************************************************)
(* Small instance of SkelBufs: three fd numbers, each reused once, competing *)
(* for two slots and three addresses; batches that lie about the base,     *)
(* claim more than was mapped, name a buffer that is not there, or whose   *)
(* offset and length only fit if their sum wraps at 2^2.                   *)
(***************************************************************************)
EXTENDS SkelBufs

MCFds == {3, 4, 5}
MCSizes == {2, 3}
MCVas == {1, 2, 3}

MCBufSeqs ==
  {<<b>> : b \in [base : {1}, fd : {4}, size : MCSizes]}
    \union {<<b, c>> : b \in [base : {0}, fd : {3}, size : {2}],
                       c \in [base : {1}, fd : {3, 4}, size : {3}]}

MCTenSeqs ==
  {<<t>> : t \in [bi : {2, 3}, offset : {0}, nbytes : {2}]}
    \union {<<[bi |-> 1, offset |-> 0, nbytes |-> 2], t>> :
              t \in [bi : {1, 2}, offset : {1, 3}, nbytes : {1, 2}]}

=============================================================================
