----------------------------- MODULE MCFarmJob ------------------------------
(***************************************************************************)
(* Time limits of one and two minutes of one tick, and below and above     *)
(* what is accepted; every way to be refused; and two commands that go     *)
(* through, one of them through _qdc_submit directly.                      *)
(***************************************************************************)
EXTENDS FarmJob

AnyCommand ==
  [kernel : BOOLEAN, timeout : {NoTimeout, 0, 1, 2, 3}, yes : BOOLEAN,
   budget : {Unset, Malformed, 1, 2}, key : BOOLEAN, direct : BOOLEAN]

Accepted(c) ==
  /\ c.kernel /\ c.key /\ InRange(c.timeout)
  /\ ~BudgetRefused(c) /\ ~ConfirmRefused(c)

MCCommands ==
  {c \in AnyCommand :
     Accepted(c) => \/ c = [kernel |-> TRUE, timeout |-> 1, yes |-> FALSE, budget |-> 1,
                            key |-> TRUE, direct |-> FALSE]
                    \/ c = [kernel |-> TRUE, timeout |-> 2, yes |-> TRUE, budget |-> Unset,
                            key |-> TRUE, direct |-> TRUE]}

Out(ok, cycles) == [ok |-> ok, cycles |-> cycles]

(* A count that is garbled fails the test as zero does. *)
MCOutputs(t) ==
  IF t = "selftest" THEN {Out(TRUE, "positive"), Out(TRUE, "zero"), Out(FALSE, "none")}
  ELSE {Out(TRUE, "positive"), Out(FALSE, "positive")}
=============================================================================
