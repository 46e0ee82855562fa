------------------------------ MODULE SkelVtcm ------------------------------
(***************************************************************************)
(* VTCM as the DSP skel holds it (hexlib/runtime/skel/skel_vtcm.c), with   *)
(* what it is held from: the compute-resource manager and one competing    *)
(* session.  The manager's side is external and modelled from the way the  *)
(* skel uses HAP_compute_res_*: one holder at a time, a cached context     *)
(* that is held only between acquire_cached and release_cached, and a      *)
(* release callback that runs on a thread of its own, once per request,    *)
(* some time after the competitor asked.                                   *)
(*                                                                         *)
(* The operations are actions over this module's variables only; Skel      *)
(* sequences them.  Each function that touches both the flag and the       *)
(* manager is split where the callback thread can run in between.          *)
(***************************************************************************)
EXTENDS Integers

VARIABLES
  vtcm_valid,          \* struct hexlib_ctx: the session holds VTCM
  vtcm_needs_release,  \* struct hexlib_ctx: set by the callback's thread
  vtcm_rctx,           \* struct hexlib_ctx: a context has been acquired
  owner,               \* external: "free", "skel" or "rival"
  waiting,             \* external: the rival wants VTCM and lacks it
  notified,            \* external: this request's callback was dispatched
  callback             \* external: release_callback's thread, about to run

vtcmVars == <<vtcm_valid, vtcm_needs_release, vtcm_rctx,
              owner, waiting, notified, callback>>
managerVars == <<owner, waiting, notified, callback>>
ctxVtcmVars == <<vtcm_valid, vtcm_needs_release, vtcm_rctx>>

VtcmInit ==
  /\ vtcm_valid = FALSE /\ vtcm_needs_release = FALSE /\ vtcm_rctx = FALSE
  /\ owner = "free"
  /\ waiting = FALSE /\ notified = FALSE /\ callback = FALSE

-----------------------------------------------------------------------------
(* Mutant: the callback gives VTCM back itself. *)
CallbackReleases ==
  /\ callback
  /\ callback' = FALSE
  /\ vtcm_valid' = FALSE
  /\ owner' = IF vtcm_valid THEN "free" ELSE owner
  /\ UNCHANGED <<vtcm_needs_release, vtcm_rctx, waiting, notified>>

(* release_callback, on its own thread: it only records the request.       *)
ReleaseCallback ==
  /\ callback
  /\ callback' = FALSE
  /\ vtcm_needs_release' = TRUE
  /\ UNCHANGED <<vtcm_valid, vtcm_rctx, owner, waiting, notified>>

(* hexlib_vtcm_alloc: nothing is stored unless the whole of it succeeds.   *)
VtcmAlloc(rc) ==
  \/ /\ rc = "OK"
     /\ owner # "rival"          \* else the manager reports nothing free
     /\ vtcm_rctx' = TRUE
     /\ vtcm_valid' = FALSE
     /\ vtcm_needs_release' = FALSE
     /\ UNCHANGED managerVars
  \/ /\ rc \in {"INTERNAL", "VTCM_TOO_SMALL"}
     /\ UNCHANGED vtcmVars

(* HAP_compute_res_acquire_cached inside hexlib_vtcm_acquire.              *)
AcquireCached ==
  /\ owner = "free"
  /\ owner' = "skel"
  /\ notified' = FALSE
  /\ UNCHANGED <<waiting, callback, vtcm_valid, vtcm_needs_release, vtcm_rctx>>

(* What hexlib_vtcm_acquire does once the manager has said yes.            *)
AcquireRecord ==
  /\ vtcm_needs_release' = FALSE
  /\ vtcm_valid' = TRUE
  /\ UNCHANGED <<vtcm_rctx, owner, waiting, notified, callback>>

(* hexlib_vtcm_release up to the manager call, when VTCM is held ...       *)
ReleaseRecord ==
  /\ vtcm_valid
  /\ vtcm_valid' = FALSE
  /\ vtcm_needs_release' = FALSE
  /\ UNCHANGED <<vtcm_rctx, owner, waiting, notified, callback>>

(* ... and HAP_compute_res_release_cached.                                 *)
ReleaseCached ==
  /\ owner' = "free"
  /\ UNCHANGED <<waiting, notified, callback,
                 vtcm_valid, vtcm_needs_release, vtcm_rctx>>

(* hexlib_vtcm_free. *)
VtcmFree ==
  /\ vtcm_rctx' = FALSE
  /\ UNCHANGED <<vtcm_valid, vtcm_needs_release, owner, waiting, notified, callback>>

-----------------------------------------------------------------------------
(* The competing session and the manager. *)

RivalAsks ==
  /\ ~waiting
  /\ owner # "rival"
  /\ waiting' = TRUE
  /\ notified' = FALSE
  /\ UNCHANGED <<owner, callback, vtcm_valid, vtcm_needs_release, vtcm_rctx>>

ManagerNotifies ==
  /\ waiting
  /\ owner = "skel"
  /\ ~notified
  /\ ~callback
  /\ notified' = TRUE
  /\ callback' = TRUE
  /\ UNCHANGED <<owner, waiting, vtcm_valid, vtcm_needs_release, vtcm_rctx>>

RivalGranted ==
  /\ waiting
  /\ owner = "free"
  /\ owner' = "rival"
  /\ waiting' = FALSE
  /\ UNCHANGED <<notified, callback, vtcm_valid, vtcm_needs_release, vtcm_rctx>>

RivalReturns ==
  /\ owner = "rival"
  /\ owner' = "free"
  /\ UNCHANGED <<waiting, notified, callback,
                 vtcm_valid, vtcm_needs_release, vtcm_rctx>>

-----------------------------------------------------------------------------
VtcmTypeOK ==
  /\ vtcm_valid \in BOOLEAN
  /\ vtcm_needs_release \in BOOLEAN
  /\ vtcm_rctx \in BOOLEAN
  /\ owner \in {"free", "skel", "rival"}
  /\ waiting \in BOOLEAN
  /\ notified \in BOOLEAN
  /\ callback \in BOOLEAN
=============================================================================
