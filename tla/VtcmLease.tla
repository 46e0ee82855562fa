----------------------------- MODULE VtcmLease ------------------------------
(***************************************************************************)
(* What the skel promises about VTCM, seen from the resource manager: the  *)
(* memory has at most one holder, kernels run only while the skel is it,   *)
(* and VTCM never changes hands under a running kernel.                    *)
(***************************************************************************)
VARIABLES
  holder,    \* who holds VTCM: "free", "skel" or "rival"
  running    \* a kernel that may use VTCM is running

leaseVars == <<holder, running>>

LeaseInit == holder = "free" /\ running = FALSE

Take(who) ==
  /\ holder = "free" /\ ~running
  /\ holder' = who
  /\ UNCHANGED running

GiveBack ==
  /\ holder # "free" /\ ~running
  /\ holder' = "free"
  /\ UNCHANGED running

KernelBegins ==
  /\ holder = "skel" /\ ~running
  /\ running' = TRUE
  /\ UNCHANGED holder

KernelEnds ==
  /\ running
  /\ running' = FALSE
  /\ UNCHANGED holder

LeaseNext ==
  \/ Take("skel") \/ Take("rival") \/ GiveBack
  \/ KernelBegins \/ KernelEnds

LeaseSpec == LeaseInit /\ [][LeaseNext]_leaseVars
=============================================================================
