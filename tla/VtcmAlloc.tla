----------------------------- MODULE VtcmAlloc ------------------------------
(***************************************************************************)
(* The planner's VTCM allocator (graph/vtcm.py): the tensors of a request  *)
(* are visited in the order of a policy and each is put into the lowest    *)
(* gap among the slots already given to tensors live at the same time.     *)
(*                                                                         *)
(* One action is one step of the two nested loops: NextTensor starts an    *)
(* iteration of the outer one, PassBusy is an iteration of the inner one,  *)
(* Settle leaves it.  A tensor is a number: the order of its name.         *)
(***************************************************************************)
EXTENDS Integers

CONSTANTS
  Tensors,    \* tensor names, as numbers in alphabetical order
  Requests,   \* the calls of allocate that may be made
  Align       \* VTCM_ALIGN

Interval == [first_use : Int, last_use : Int, nbytes : Int]

ASSUME AllocAssumption ==
  /\ Tensors \subseteq Nat
  /\ Align \in Nat \ {0}
  /\ \A r \in Requests :
       /\ DOMAIN r.ivs \subseteq Tensors
       /\ r.ivs \in [DOMAIN r.ivs -> Interval]
       /\ r.budget \in Int

VARIABLES
  request,   \* the call being answered: its intervals, budget and policy
  offsets,   \* offsets: the tensors placed so far and where
  current,   \* iv: the tensor being placed, or NoTensor
  left,      \* the part of busy the inner loop has not looked at
  scanned,   \* offset: the candidate position of current
  outcome    \* "idle", "placing", "accepted", or the reason of the Err

allocVars == <<request, offsets, current, left, scanned, outcome>>

NoTensor == -1
NoRequest == [ivs |-> [t \in {} |-> 0], budget |-> 0, policy |-> "none"]
Policies == {"linear_scan", "largest_first"}

-----------------------------------------------------------------------------
(* Intervals and slots.                                                    *)

(* Mutant: slots are not rounded up. *)
AlignUpToNothing(n) == n

AlignUp(n) == ((n + Align - 1) \div Align) * Align

(* Mutant: intervals that only touch are taken for disjoint. *)
OverlapsInside(i, j) == i.first_use < j.last_use /\ j.first_use < i.last_use

(* Interval.overlaps: inclusive at both ends. *)
Overlaps(i, j) == i.first_use <= j.last_use /\ j.first_use <= i.last_use

Live == DOMAIN request.ivs
Placed == DOMAIN offsets
Iv(t) == request.ivs[t]
Size(t) == AlignUp(Iv(t).nbytes)
End(t) == offsets[t] + Size(t)

(* Mutant: a slot whose last use is the tensor's first is not busy. *)
BusyInside(t) == {u \in Placed : OverlapsInside(Iv(u), Iv(t))}

Busy(t) == {u \in Placed : Overlaps(Iv(u), Iv(t))}

SlotOf(t) == [tensor |-> t, offset |-> offsets[t], size |-> Size(t),
              first_use |-> Iv(t).first_use, last_use |-> Iv(t).last_use]
Slots == {SlotOf(t) : t \in Placed}

SlotEnd(s) == s.offset + s.size
Clash(a, b) == a.offset < SlotEnd(b) /\ b.offset < SlotEnd(a)

(* allocation_problems: the slots break one of the invariants it checks. *)
AllocationProblems(slots, ivs, budget) ==
  \/ \E a, b \in slots : a # b /\ a.tensor = b.tensor
  \/ \E t \in DOMAIN ivs :
       \A s \in slots : s.tensor = t =>
         \/ s.size < ivs[t].nbytes
         \/ s.last_use < ivs[t].last_use
         \/ s.first_use > ivs[t].first_use
  \/ \E a, b \in slots :
       /\ {a.tensor, b.tensor} \subseteq DOMAIN ivs
       /\ a # b /\ Clash(a, b)
       /\ Overlaps(ivs[a.tensor], ivs[b.tensor])
  \/ \E s \in slots : SlotEnd(s) > budget

-----------------------------------------------------------------------------
(* The order in which a policy visits the tensors.                         *)

Lexicographic(a1, b1, a2, b2, rest) ==
  a1 < b1 \/ (a1 = b1 /\ (a2 < b2 \/ (a2 = b2 /\ rest)))

Before(t, u) ==
  IF request.policy = "linear_scan"
  THEN Lexicographic(Iv(t).first_use, Iv(u).first_use,
                     Iv(u).nbytes, Iv(t).nbytes, t < u)
  ELSE Lexicographic(Iv(u).nbytes, Iv(t).nbytes,
                     Iv(t).first_use, Iv(u).first_use, t < u)

(* The busy slot the inner loop looks at next: they are sorted by (off, end). *)
NextBusy(u) ==
  u \in left /\ \A w \in left :
    offsets[u] < offsets[w] \/ (offsets[u] = offsets[w] /\ End(u) <= End(w))

-----------------------------------------------------------------------------

AllocInit ==
  /\ request = NoRequest
  /\ offsets = [t \in {} |-> 0]
  /\ current = NoTensor
  /\ left = {}
  /\ scanned = 0
  /\ outcome = "idle"

(* The early returns of allocate, in their order. *)
Malformed(i) == i.nbytes <= 0 \/ i.last_use < i.first_use

FirstVerdict(r) ==
  IF DOMAIN r.ivs = {} THEN "nothing_to_allocate"
  ELSE IF r.budget <= 0 THEN "invalid_VTCM_budget"
  ELSE IF \E t \in DOMAIN r.ivs : Malformed(r.ivs[t]) THEN "malformed_interval"
  ELSE IF r.policy \notin Policies THEN "unknown_allocation_policy"
  ELSE "placing"

Allocate(r) ==
  /\ request' = r
  /\ outcome' = FirstVerdict(r)
  /\ UNCHANGED <<offsets, current, left, scanned>>

(* Mutant: busy is every slot given so far. *)
NextTensorAllBusy(t) ==
  /\ outcome = "placing" /\ current = NoTensor
  /\ t \in Live \ Placed
  /\ \A u \in (Live \ Placed) \ {t} : Before(t, u)
  /\ current' = t
  /\ left' = Placed
  /\ scanned' = 0
  /\ UNCHANGED <<request, offsets, outcome>>

NextTensor(t) ==
  /\ outcome = "placing" /\ current = NoTensor
  /\ t \in Live \ Placed
  /\ \A u \in (Live \ Placed) \ {t} : Before(t, u)
  /\ current' = t
  /\ left' = Busy(t)
  /\ scanned' = 0
  /\ UNCHANGED <<request, offsets, outcome>>

(* Mutant: the loop looks at every busy slot (no break). *)
PassBusyAlways(u) ==
  /\ current # NoTensor
  /\ NextBusy(u)
  /\ scanned' = IF scanned < End(u) THEN End(u) ELSE scanned
  /\ left' = left \ {u}
  /\ UNCHANGED <<request, offsets, current, outcome>>

PassBusy(u) ==
  /\ current # NoTensor
  /\ NextBusy(u)
  /\ scanned + Size(current) > offsets[u]
  /\ scanned' = IF scanned < End(u) THEN End(u) ELSE scanned
  /\ left' = left \ {u}
  /\ UNCHANGED <<request, offsets, current, outcome>>

(* Mutant: a gap is taken if it is not empty (the size left out). *)
SettleInAnyGap ==
  /\ current # NoTensor
  /\ \/ left = {}
     \/ \E u \in left : NextBusy(u) /\ scanned < offsets[u]
  /\ offsets' = [t \in Placed \union {current} |->
                   IF t = current THEN scanned ELSE offsets[t]]
  /\ current' = NoTensor
  /\ left' = {}
  /\ UNCHANGED <<request, scanned, outcome>>

Settle ==
  /\ current # NoTensor
  /\ \/ left = {}
     \/ \E u \in left : NextBusy(u) /\ scanned + Size(current) <= offsets[u]
  /\ offsets' = [t \in Placed \union {current} |->
                   IF t = current THEN scanned ELSE offsets[t]]
  /\ current' = NoTensor
  /\ left' = {}
  /\ UNCHANGED <<request, scanned, outcome>>

(* The checks on the finished placement. *)
LastVerdict ==
  IF \E t \in Placed : End(t) > request.budget THEN "does_not_fit"
  ELSE IF AllocationProblems(Slots, request.ivs, request.budget)
  THEN "violates_its_own_invariants"
  ELSE "accepted"

Answer ==
  /\ outcome = "placing" /\ current = NoTensor
  /\ Placed = Live
  /\ outcome' = LastVerdict
  /\ UNCHANGED <<request, offsets, current, left, scanned>>

Place ==
  \/ \E t \in Live : NextTensor(t)
  \/ \E u \in left : PassBusy(u)
  \/ Settle
  \/ Answer

AllocNext ==
  \/ outcome = "idle" /\ \E r \in Requests : Allocate(r)
  \/ Place

AllocSpec == AllocInit /\ [][AllocNext]_allocVars

-----------------------------------------------------------------------------
(* Properties.                                                             *)

(* The allocator's state has its types, and the inner loop runs only on    *)
(* slots busy at the same time as the tensor being placed.                 *)
AllocTypeOK ==
  /\ request \in Requests \union {NoRequest}
  /\ Placed \subseteq Live
  /\ offsets \in [Placed -> Nat]
  /\ scanned \in Nat
  /\ outcome \in {"idle", "placing", "accepted", "nothing_to_allocate",
                  "invalid_VTCM_budget", "malformed_interval",
                  "unknown_allocation_policy", "does_not_fit",
                  "violates_its_own_invariants"}
  /\ current # NoTensor =>
       /\ outcome = "placing"
       /\ current \in Live \ Placed
       /\ left \subseteq Busy(current)

(* At every point of the placement, two tensors live at the same step have *)
(* disjoint bytes of VTCM, whichever policy chose the order.               *)
LiveApart ==
  \A t, u \in Placed :
    t # u /\ Overlaps(Iv(t), Iv(u)) => End(t) <= offsets[u] \/ End(u) <= offsets[t]

(* First fit: a tensor is placed at the lowest offset at which it meets no *)
(* slot of a tensor live with it; at every lower one it would meet one.    *)
(* The inner loop leaves at the first gap that is wide enough and so has   *)
(* looked at every byte below.                                             *)
LowestGap ==
  [][\A t \in DOMAIN offsets' \ DOMAIN offsets :
       \A p \in 0 .. offsets'[t] - 1 :
         \E u \in Busy(t) : p < End(u) /\ offsets[u] < p + Size(t)]_allocVars

(* The allocator's own invariant check, run on what it placed, never finds *)
(* anything: the only refusals of a well formed request are "does not fit" *)
(* and an unknown policy.                                                  *)
SelfCheckSilent == outcome # "violates_its_own_invariants"

(* An accepted allocation gives every tensor a slot, aligned, inside the   *)
(* budget and large enough.                                                *)
AcceptedIsComplete ==
  outcome = "accepted" =>
    \A t \in Live :
      /\ t \in Placed
      /\ offsets[t] % Align = 0
      /\ Iv(t).nbytes <= Size(t)
      /\ End(t) <= request.budget
=============================================================================
