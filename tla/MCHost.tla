------------------------------- MODULE MCHost -------------------------------
(***************************************************************************)
(* Every mode of both host programs: drivers that report v75 (0x8c75) or   *)
(* v73 and a skel built for v75; templates of one to three buffers, one of *)
(* them empty or too large; input files that are missing, short, exact for *)
(* the inputs, exact for all buffers, or longer.                           *)
(***************************************************************************)
EXTENDS SimHost

MCLanes == {"body", "tail"}

Plain == [tmpl |-> "good", sizes |-> <<2>>, nops |-> 1, in_len |-> 0,
          unsigned_pd |-> TRUE, arch_ver |-> 35957, skel |-> 75]

WithMode(m) == [mode |-> m] @@ Plain

MCCommandLines ==
  {WithMode(m) : m \in Modes \ {"batch", "sim", "simunmapped"}}
    \union {[WithMode("self") EXCEPT !.unsigned_pd = FALSE],
            [WithMode("self") EXCEPT !.arch_ver = 35955]}
    \union {[WithMode(m) EXCEPT !.tmpl = t, !.in_len = n] :
              m \in {"sim", "simunmapped"},
              t \in {"unreadable", "malformed", "good"}, n \in {-1, 2}}
    \union {[WithMode("batch") EXCEPT !.tmpl = t] : t \in {"unreadable", "malformed"}}
    \union {[WithMode("batch") EXCEPT !.sizes = s, !.in_len = n, !.nops = 2] :
              s \in {<<2>>, <<1, 2>>, <<2, 0>>, <<4, 1>>, <<1, 1, 1>>}, n \in -1 .. 4}

=============================================================================
