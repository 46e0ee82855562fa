-------------------------- MODULE VtcmAllocProofs ---------------------------
(***************************************************************************)
(* The allocator keeps its promises for every request, budget, alignment   *)
(* and order of visit.  Nothing below looks at Before: the four invariants *)
(* hold for any policy, as the header of graph/vtcm.py claims.             *)
(***************************************************************************)
EXTENDS VtcmAlloc, TLAPS

Multiple(n) == \E k \in Int : n = k * Align

(* What the inner loop knows when it has looked at Busy(current) \ left:   *)
(* those slots end at or below scanned, and every lower position meets one *)
(* of them.                                                                *)
ScanInv ==
  current # NoTensor =>
    /\ \A u \in Busy(current) \ left : End(u) <= scanned
    /\ \A p \in 0 .. scanned - 1 :
         \E u \in Busy(current) \ left :
           p < End(u) /\ offsets[u] < p + Size(current)
    /\ Multiple(scanned)

AlignedInv == \A t \in Placed : Multiple(offsets[t])

AcceptedInv ==
  outcome = "accepted" =>
    Placed = Live /\ \A t \in Live : End(t) <= request.budget

IdleInv == outcome = "idle" => Placed = {}

AllocInv == AllocTypeOK /\ LiveApart /\ ScanInv /\ AlignedInv /\ AcceptedInv
            /\ IdleInv /\ SelfCheckSilent

-----------------------------------------------------------------------------
(* AlignUp rounds an integer up to a multiple of Align.                    *)
LEMMA AlignUpFacts ==
  ASSUME NEW n \in Int
  PROVE  AlignUp(n) \in Int /\ n <= AlignUp(n) /\ Multiple(AlignUp(n))
<1>1. Align \in Nat \ {0} BY AllocAssumption
<1> DEFINE m == n + Align - 1
           q == m \div Align
           r == m % Align
<1>2. q \in Int /\ r \in 0 .. Align - 1 /\ m = Align * q + r BY <1>1
<1>3. Align * q \in Int /\ Align * q = q * Align BY <1>1, <1>2
<1>4. n <= Align * q
  <2> HIDE DEF q, r
  <2>1. m \in Int /\ m = n + Align - 1 BY <1>1
  <2>2. r <= Align - 1 /\ r \in Int BY <1>1, <1>2
  <2> DEFINE a == Align * q
  <2>3. a \in Int /\ m = a + r BY <1>2, <1>3
  <2> HIDE DEF a, m
  <2>4. n <= a BY <1>1, <2>1, <2>2, <2>3
  <2> QED BY <2>4 DEF a
<1> QED BY <1>2, <1>3, <1>4 DEF AlignUp, Multiple

(* The sum of two multiples of Align is one. *)
LEMMA MultipleSum ==
  ASSUME NEW a, NEW b, Multiple(a), Multiple(b)
  PROVE  Multiple(a + b)
<1>1. Align \in Nat BY AllocAssumption
<1>2. PICK j \in Int, k \in Int : a = j * Align /\ b = k * Align BY DEF Multiple
<1>3. a + b = (j + k) * Align BY <1>1, <1>2
<1> QED BY <1>3 DEF Multiple

(* The request at hand has intervals over tensor names. *)
LEMMA RequestFacts ==
  AllocTypeOK =>
    /\ Live \subseteq Nat /\ NoTensor \notin Live
    /\ \A t \in Live : Iv(t) \in Interval
    /\ \A t \in Live : Size(t) \in Int /\ Iv(t).nbytes <= Size(t) /\ Multiple(Size(t))
    /\ \A t \in Placed : End(t) \in Int
    /\ request.budget \in Int
<1> SUFFICES ASSUME AllocTypeOK
             PROVE  /\ Live \subseteq Nat /\ NoTensor \notin Live
                    /\ \A t \in Live : Iv(t) \in Interval
                    /\ \A t \in Live : /\ Size(t) \in Int
                                       /\ Iv(t).nbytes <= Size(t)
                                       /\ Multiple(Size(t))
                    /\ \A t \in Placed : End(t) \in Int
                    /\ request.budget \in Int
  OBVIOUS
<1>1. /\ Live \subseteq Nat
      /\ request.ivs \in [Live -> Interval]
      /\ request.budget \in Int
  <2>1. CASE request \in Requests
    <3>1. /\ DOMAIN request.ivs \subseteq Tensors
          /\ request.ivs \in [DOMAIN request.ivs -> Interval]
          /\ request.budget \in Int
      BY <2>1, AllocAssumption
    <3> QED BY <3>1, AllocAssumption DEF Live
  <2>2. CASE request = NoRequest
    <3>1. request.budget = 0 /\ request.ivs = [t \in {} |-> 0]
      BY <2>2 DEF NoRequest
    <3> QED BY <3>1 DEF Live
  <2> QED BY <2>1, <2>2 DEF AllocTypeOK
<1>2. NoTensor \notin Live BY <1>1 DEF NoTensor
<1>3. \A t \in Live : Iv(t) \in Interval BY <1>1 DEF Iv
<1>4. \A t \in Live : Iv(t).nbytes \in Int BY <1>3 DEF Interval
<1>5. \A t \in Live : Size(t) \in Int /\ Iv(t).nbytes <= Size(t) /\ Multiple(Size(t))
  BY <1>4, AlignUpFacts DEF Size
<1>6. \A t \in Placed : End(t) \in Int 
  <2>1. Placed \subseteq Live /\ \A t \in Placed : offsets[t] \in Nat
    BY DEF AllocTypeOK
  <2> QED BY <1>5, <2>1 DEF End
<1> QED BY <1>1, <1>2, <1>3, <1>5, <1>6

-----------------------------------------------------------------------------
(* Before any call nothing is placed. *)
LEMMA AllocInitInv == AllocInit => AllocInv
<1> SUFFICES ASSUME AllocInit PROVE AllocInv OBVIOUS
<1>1. Placed = {} /\ Live = {} BY DEF AllocInit, Placed, Live, NoRequest
<1>2. AllocTypeOK BY <1>1 DEF AllocInit, AllocTypeOK
<1> QED BY <1>1, <1>2 DEF AllocInit, AllocInv, LiveApart, ScanInv, AlignedInv,
                          AcceptedInv, IdleInv, SelfCheckSilent

(* A call starts with nothing placed. *)
LEMMA AllocateStep ==
  ASSUME AllocInv, NEW r \in Requests, outcome = "idle", Allocate(r)
  PROVE  AllocInv'
<1>1. Placed = {} /\ offsets \in [{} -> Nat] /\ scanned \in Nat
  BY DEF AllocInv, IdleInv, AllocTypeOK
<1>2. current = NoTensor BY DEF AllocInv, AllocTypeOK
<1>3. /\ request' = r /\ offsets' = offsets /\ current' = current
      /\ left' = left /\ scanned' = scanned
      /\ outcome' = FirstVerdict(r)
  BY DEF Allocate
<1>4. Placed' = {} BY <1>1, <1>3 DEF Placed
<1>5. outcome' \in {"placing", "nothing_to_allocate", "invalid_VTCM_budget",
                    "malformed_interval", "unknown_allocation_policy"}
  BY <1>3 DEF FirstVerdict
<1>6. AllocTypeOK' BY <1>1, <1>2, <1>3, <1>4, <1>5 DEF AllocTypeOK
<1> QED BY <1>2, <1>3, <1>4, <1>5, <1>6
        DEF AllocInv, LiveApart, ScanInv, AlignedInv, AcceptedInv, IdleInv,
            SelfCheckSilent

(* Starting on a tensor: the inner loop has looked at nothing yet. *)
LEMMA NextTensorStep ==
  ASSUME AllocInv, NEW t \in Live, NextTensor(t)
  PROVE  AllocInv'
<1>1. /\ outcome = "placing" /\ t \in Live \ Placed
      /\ current' = t /\ left' = Busy(t) /\ scanned' = 0
      /\ request' = request /\ offsets' = offsets /\ outcome' = outcome
  BY DEF NextTensor
<1>2. /\ Live' = Live /\ Placed' = Placed /\ Busy(t)' = Busy(t)
      /\ \A u : Iv(u)' = Iv(u) /\ Size(u)' = Size(u) /\ End(u)' = End(u)
  BY <1>1 DEF Live, Placed, Busy, Iv, Size, End
<1>3. AllocTypeOK'
  <2>1. Busy(current)' = Busy(t) BY <1>1 DEF Busy, Placed, Iv
  <2> QED BY <1>1, <1>2, <2>1 DEF AllocInv, AllocTypeOK
<1>4. LiveApart' BY <1>1, <1>2 DEF AllocInv, LiveApart
<1>5. ScanInv'
  <2>1. (Busy(current) \ left)' = {} BY <1>1 DEF Busy, Placed, Iv
  <2>2. 0 = 0 * Align BY AllocAssumption
  <2>3. Multiple(scanned)' BY <1>1, <2>2 DEF Multiple
  <2>4. (0 .. scanned - 1)' = {} BY <1>1
  <2> QED BY <2>1, <2>3, <2>4 DEF ScanInv
<1>6. AlignedInv' BY <1>1, <1>2 DEF AllocInv, AlignedInv, Multiple
<1> QED BY <1>1, <1>2, <1>3, <1>4, <1>5, <1>6
        DEF AllocInv, AcceptedInv, IdleInv, SelfCheckSilent

(* Moving past a slot: it starts below scanned + Size(current), so every   *)
(* position up to its end meets it.                                        *)
LEMMA PassBusyStep ==
  ASSUME AllocInv, NEW u \in left, PassBusy(u)
  PROVE  AllocInv'
<1>1. /\ current # NoTensor /\ NextBusy(u)
      /\ scanned + Size(current) > offsets[u]
      /\ scanned' = IF scanned < End(u) THEN End(u) ELSE scanned
      /\ left' = left \ {u}
      /\ request' = request /\ offsets' = offsets
      /\ current' = current /\ outcome' = outcome
  BY DEF PassBusy
<1>2. /\ Live' = Live /\ Placed' = Placed /\ Busy(current)' = Busy(current)
      /\ \A w : Iv(w)' = Iv(w) /\ Size(w)' = Size(w) /\ End(w)' = End(w)
      /\ Size(current)' = Size(current)
  BY <1>1 DEF Live, Placed, Busy, Iv, Size, End
<1>3. /\ u \in Busy(current) /\ u \in Placed /\ current \in Live
      /\ left \subseteq Busy(current) /\ scanned \in Nat
      /\ Placed \subseteq Live
      /\ \A w \in Placed : offsets[w] \in Nat
  BY <1>1 DEF AllocInv, AllocTypeOK, Busy
<1>4. /\ End(u) \in Int /\ Size(current) \in Int /\ Multiple(Size(u))
      /\ \A w \in Placed : End(w) \in Int
  BY <1>3, RequestFacts DEF AllocInv
<1>5. scanned' \in Nat /\ scanned <= scanned' /\ End(u) <= scanned'
  BY <1>1, <1>3, <1>4
<1>6. AllocTypeOK'
  BY <1>1, <1>2, <1>3, <1>5 DEF AllocInv, AllocTypeOK
<1>7. LiveApart' BY <1>1, <1>2 DEF AllocInv, LiveApart
<1>8. (Busy(current) \ left)' = (Busy(current) \ left) \union {u}
  BY <1>1, <1>2, <1>3
<1>9. ScanInv'
  <2>1. \A w \in Busy(current) \ left : End(w) <= scanned /\ End(w) \in Int
    BY <1>1, <1>4 DEF AllocInv, ScanInv, Busy
  <2>2. \A w \in (Busy(current) \ left)' : End(w)' <= scanned'
    BY <1>2, <1>3, <1>4, <1>5, <1>8, <2>1
  <2>3. ASSUME NEW p \in 0 .. scanned' - 1
        PROVE  \E w \in (Busy(current) \ left)' :
                 p < End(w)' /\ offsets'[w] < p + Size(current)'
    <3>1. CASE p < scanned
      <4>1. p \in 0 .. scanned - 1 BY <3>1, <1>3, <1>5
      <4>2. PICK w \in Busy(current) \ left :
              p < End(w) /\ offsets[w] < p + Size(current)
        BY <1>1, <4>1 DEF AllocInv, ScanInv
      <4> QED BY <1>1, <1>2, <1>8, <4>2
    <3>2. CASE ~(p < scanned)
      <4> DEFINE n == scanned'
      <4>0. n \in Nat /\ p \in 0 .. n - 1 BY <1>5
      <4> HIDE DEF n
      <4>a. p \in Int /\ p < n BY <4>0
      <4>1. p \in Int /\ scanned <= p /\ p < scanned'
        BY <3>2, <4>a, <1>3 DEF n
      <4>2. scanned' = End(u) BY <4>1, <1>1, <1>3, <1>4
      <4>3. p < End(u) /\ offsets[u] < p + Size(current)
        BY <1>1, <1>3, <1>4, <4>1, <4>2
      <4> QED BY <1>1, <1>2, <1>8, <4>3
    <3> QED BY <3>1, <3>2
  <2>4. Multiple(scanned)'
    <3>1. Multiple(scanned) BY <1>1 DEF AllocInv, ScanInv
    <3>2. Multiple(offsets[u]) BY <1>3 DEF AllocInv, AlignedInv
    <3>3. Multiple(End(u)) BY <1>4, <3>2, MultipleSum DEF End
    <3>4. scanned' = scanned \/ scanned' = End(u) BY <1>1
    <3>5. Multiple(scanned') BY <3>1, <3>3, <3>4
    <3> QED BY <3>5 DEF Multiple
  <2> QED BY <2>2, <2>3, <2>4 DEF ScanInv
<1>10. AlignedInv' BY <1>1, <1>2 DEF AllocInv, AlignedInv, Multiple
<1> QED BY <1>1, <1>2, <1>6, <1>7, <1>9, <1>10
        DEF AllocInv, AcceptedInv, IdleInv, SelfCheckSilent

(* Leaving the inner loop: the slots looked at end at or below scanned, the *)
(* others start at or above scanned + Size(current).                       *)
LEMMA SettleApart ==
  ASSUME AllocInv, Settle
  PROVE  \A u \in Busy(current) :
           End(u) <= scanned \/ scanned + Size(current) <= offsets[u]
<1> SUFFICES ASSUME NEW u \in Busy(current)
             PROVE  End(u) <= scanned \/ scanned + Size(current) <= offsets[u]
  OBVIOUS
<1>1. current # NoTensor BY DEF Settle
<1>2. /\ left \subseteq Busy(current) /\ Placed \subseteq Live
      /\ current \in Live /\ scanned \in Nat
      /\ \A w \in Placed : offsets[w] \in Nat
  BY <1>1 DEF AllocInv, AllocTypeOK
<1>3. Size(current) \in Int BY <1>2, RequestFacts DEF AllocInv
<1>4. CASE u \notin left
  BY <1>1, <1>4 DEF AllocInv, ScanInv
<1>5. CASE u \in left
  <2>1. PICK v \in left : NextBusy(v) /\ scanned + Size(current) <= offsets[v]
    BY <1>5 DEF Settle
  <2>2. offsets[v] <= offsets[u]
    BY <1>2, <1>5, <2>1 DEF NextBusy, Busy
  <2> QED BY <1>2, <1>3, <1>5, <2>1, <2>2 DEF Busy
<1> QED BY <1>4, <1>5

(* The tensor joins the placed ones at scanned. *)
LEMMA SettleStep ==
  ASSUME AllocInv, Settle
  PROVE  AllocInv'
<1> PICK c : c = current OBVIOUS
<1>1. /\ c # NoTensor /\ current' = NoTensor /\ left' = {}
      /\ offsets' = [t \in Placed \union {c} |->
                       IF t = c THEN scanned ELSE offsets[t]]
      /\ request' = request /\ scanned' = scanned /\ outcome' = outcome
  BY DEF Settle
<1>2. /\ outcome = "placing" /\ c \in Live \ Placed
      /\ Placed \subseteq Live /\ scanned \in Nat
      /\ \A t \in Placed : offsets[t] \in Nat
  BY <1>1 DEF AllocInv, AllocTypeOK
<1>3. /\ Live' = Live /\ Placed' = Placed \union {c}
      /\ \A t : Iv(t)' = Iv(t) /\ Size(t)' = Size(t)
  BY <1>1 DEF Live, Placed, Iv, Size
<1>4. /\ offsets'[c] = scanned
      /\ \A t \in Placed : offsets'[t] = offsets[t]
  BY <1>1, <1>2
<1>5. /\ End(c)' = scanned + Size(c)
      /\ \A t \in Placed : End(t)' = End(t)
  BY <1>3, <1>4 DEF End
<1>6. AllocTypeOK'
  <2>1. Placed' \subseteq Live' BY <1>2, <1>3
  <2>2. offsets' \in [Placed' -> Nat] BY <1>1, <1>2, <1>3
  <2> QED BY <1>1, <1>2, <2>1, <2>2 DEF AllocInv, AllocTypeOK
<1>7. LiveApart'
  <2>1. \A u \in Placed : Overlaps(Iv(u), Iv(c)) =>
          End(u) <= scanned \/ scanned + Size(c) <= offsets[u]
    BY SettleApart DEF Busy
  <2> SUFFICES ASSUME NEW t \in Placed', NEW u \in Placed', t # u,
                      Overlaps(Iv(t), Iv(u))
               PROVE  End(t)' <= offsets'[u] \/ End(u)' <= offsets'[t]
    BY <1>3 DEF LiveApart
  <2>2. CASE t = c
    BY <2>1, <2>2, <1>3, <1>4, <1>5, RequestFacts DEF Overlaps, AllocInv, Interval
  <2>3. CASE u = c
    BY <2>1, <2>3, <1>3, <1>4, <1>5
  <2>4. CASE t # c /\ u # c
    BY <2>4, <1>3, <1>4, <1>5 DEF AllocInv, LiveApart
  <2> QED BY <2>2, <2>3, <2>4
<1>8. ScanInv' BY <1>1 DEF ScanInv
<1>9. AlignedInv'
  <2>1. Multiple(scanned) BY <1>1 DEF AllocInv, ScanInv
  <2>2. \A t \in Placed' : Multiple(offsets'[t])
    BY <2>1, <1>3, <1>4 DEF AllocInv, AlignedInv
  <2> QED BY <2>2 DEF AlignedInv, Multiple
<1> QED BY <1>1, <1>2, <1>6, <1>7, <1>8, <1>9
        DEF AllocInv, AcceptedInv, IdleInv, SelfCheckSilent

(* The self check cannot fail on what was placed. *)
LEMMA NoProblems ==
  ASSUME AllocInv, Placed = Live, \A t \in Placed : End(t) <= request.budget
  PROVE  ~AllocationProblems(Slots, request.ivs, request.budget)
<1>1. \A s \in Slots : s.tensor \in Placed /\ s = SlotOf(s.tensor)
  BY DEF Slots, SlotOf
<1>2. \A t \in Placed :
        /\ SlotEnd(SlotOf(t)) = End(t)
        /\ SlotOf(t).offset = offsets[t]
        /\ SlotOf(t).size = Size(t)
        /\ SlotOf(t).tensor = t
        /\ SlotOf(t).first_use = Iv(t).first_use
        /\ SlotOf(t).last_use = Iv(t).last_use
  BY DEF SlotOf, SlotEnd, End
<1>3. \A t \in Live : /\ Iv(t).nbytes \in Int /\ Size(t) \in Int
                      /\ Iv(t).first_use \in Int /\ Iv(t).last_use \in Int
                      /\ Iv(t).nbytes <= Size(t)
                      /\ offsets[t] \in Int /\ End(t) \in Int
                      /\ request.ivs[t] = Iv(t)
  <2>1. \A t \in Live : offsets[t] \in Nat BY DEF AllocInv, AllocTypeOK
  <2>2. \A t \in Live : /\ Iv(t) \in Interval /\ Size(t) \in Int
                        /\ Iv(t).nbytes <= Size(t) /\ End(t) \in Int
    BY RequestFacts DEF AllocInv
  <2> QED BY <2>1, <2>2 DEF Interval, Iv
<1>4. ~ \E a, b \in Slots : a # b /\ a.tensor = b.tensor BY <1>1
<1>5. ~ \E t \in DOMAIN request.ivs :
         \A s \in Slots : s.tensor = t =>
           \/ s.size < request.ivs[t].nbytes
           \/ s.last_use < request.ivs[t].last_use
           \/ s.first_use > request.ivs[t].first_use
  <2> SUFFICES ASSUME NEW t \in Live
               PROVE  \E s \in Slots : /\ s.tensor = t
                                       /\ ~(s.size < Iv(t).nbytes)
                                       /\ ~(s.last_use < Iv(t).last_use)
                                       /\ ~(s.first_use > Iv(t).first_use)
    BY <1>3 DEF Live
  <2>1. SlotOf(t) \in Slots BY DEF Slots
  <2> QED BY <1>2, <1>3, <2>1
<1>6. ~ \E a, b \in Slots :
         /\ {a.tensor, b.tensor} \subseteq DOMAIN request.ivs
         /\ a # b /\ Clash(a, b)
         /\ Overlaps(request.ivs[a.tensor], request.ivs[b.tensor])
  <2> SUFFICES ASSUME NEW a \in Slots, NEW b \in Slots, a # b, Clash(a, b),
                      Overlaps(request.ivs[a.tensor], request.ivs[b.tensor])
               PROVE  FALSE
    OBVIOUS
  <2>1. a.tensor # b.tensor /\ a.tensor \in Placed /\ b.tensor \in Placed BY <1>1
  <2>2. \/ End(a.tensor) <= offsets[b.tensor]
        \/ End(b.tensor) <= offsets[a.tensor]
    BY <1>3, <2>1 DEF AllocInv, LiveApart
  <2>3. /\ a.offset = offsets[a.tensor] /\ SlotEnd(a) = End(a.tensor)
        /\ b.offset = offsets[b.tensor] /\ SlotEnd(b) = End(b.tensor)
    BY <1>1, <1>2, <2>1
  <2> QED BY <1>3, <2>1, <2>2, <2>3 DEF Clash
<1>7. ~ \E s \in Slots : SlotEnd(s) > request.budget
  <2>1. request.budget \in Int BY RequestFacts DEF AllocInv
  <2> QED BY <1>1, <1>2, <1>3, <2>1
<1> QED BY <1>4, <1>5, <1>6, <1>7 DEF AllocationProblems

(* The verdict is reached once everything is placed. *)
LEMMA AnswerStep ==
  ASSUME AllocInv, Answer
  PROVE  AllocInv'
<1>1. /\ current = NoTensor /\ Placed = Live /\ outcome' = LastVerdict
      /\ request' = request /\ offsets' = offsets /\ current' = current
      /\ left' = left /\ scanned' = scanned /\ outcome = "placing"
  BY DEF Answer
<1>2. /\ Live' = Live /\ Placed' = Placed
      /\ \A u : Iv(u)' = Iv(u) /\ Size(u)' = Size(u) /\ End(u)' = End(u)
  BY <1>1 DEF Live, Placed, Iv, Size, End
<1>3. outcome' \in {"accepted", "does_not_fit"}
      /\ (outcome' = "accepted" => \A t \in Placed : End(t) <= request.budget)
  <2>1. CASE \E t \in Placed : End(t) > request.budget
    BY <1>1, <2>1 DEF LastVerdict
  <2>2. CASE ~ \E t \in Placed : End(t) > request.budget
    <3>1. \A t \in Placed : End(t) <= request.budget
      BY <2>2, RequestFacts DEF AllocInv
    <3>2. LastVerdict = "accepted" BY <2>2, <1>1, <3>1, NoProblems DEF LastVerdict
    <3> QED BY <1>1, <3>1, <3>2
  <2> QED BY <2>1, <2>2
<1>4. AllocTypeOK' BY <1>1, <1>2, <1>3 DEF AllocInv, AllocTypeOK
<1>5. LiveApart' BY <1>1, <1>2 DEF AllocInv, LiveApart
<1>6. ScanInv' BY <1>1 DEF ScanInv
<1>7. AlignedInv' BY <1>1, <1>2 DEF AllocInv, AlignedInv, Multiple
<1>8. AcceptedInv' BY <1>1, <1>2, <1>3 DEF AcceptedInv
<1> QED BY <1>3, <1>4, <1>5, <1>6, <1>7, <1>8
        DEF AllocInv, IdleInv, SelfCheckSilent

-----------------------------------------------------------------------------
(* AllocInv is inductive. *)
LEMMA AllocNextInv == AllocInv /\ [AllocNext]_allocVars => AllocInv'
<1> SUFFICES ASSUME AllocInv, [AllocNext]_allocVars PROVE AllocInv' OBVIOUS
<1>1. CASE outcome = "idle" /\ \E r \in Requests : Allocate(r)
  BY <1>1, AllocateStep
<1>2. CASE \E t \in Live : NextTensor(t) BY <1>2, NextTensorStep
<1>3. CASE \E u \in left : PassBusy(u) BY <1>3, PassBusyStep
<1>4. CASE Settle BY <1>4, SettleStep
<1>5. CASE Answer BY <1>5, AnswerStep
<1>6. CASE UNCHANGED allocVars
  BY <1>6 DEF allocVars, AllocInv, AllocTypeOK, LiveApart, ScanInv, AlignedInv,
     AcceptedInv, IdleInv, SelfCheckSilent, Multiple, Live, Placed, Iv, Size,
     End, Busy
<1> QED BY <1>1, <1>2, <1>3, <1>4, <1>5, <1>6 DEF AllocNext, Place

(* AllocInv holds in every reachable state. *)
LEMMA AllocInvariant == AllocSpec => []AllocInv
BY AllocInitInv, AllocNextInv, PTL DEF AllocSpec

(* The allocator's state has its types. *)
THEOREM AllocTypeCorrect == AllocSpec => []AllocTypeOK
BY AllocInvariant, PTL DEF AllocInv

(* Tensors live at the same step never share a byte, under any policy. *)
THEOREM LiveTensorsApart == AllocSpec => []LiveApart
BY AllocInvariant, PTL DEF AllocInv

(* allocate never returns "allocation violates its own invariants". *)
THEOREM SelfCheckNeverFires == AllocSpec => []SelfCheckSilent
BY AllocInvariant, PTL DEF AllocInv

(* What is accepted is complete, aligned, large enough and within budget. *)
THEOREM AcceptedComplete == AllocSpec => []AcceptedIsComplete
<1>1. AllocInv => AcceptedIsComplete
  <2> SUFFICES ASSUME AllocInv, outcome = "accepted", NEW t \in Live
               PROVE  /\ t \in Placed /\ offsets[t] % Align = 0
                      /\ Iv(t).nbytes <= Size(t) /\ End(t) <= request.budget
    BY DEF AcceptedIsComplete
  <2>1. t \in Placed /\ End(t) <= request.budget BY DEF AllocInv, AcceptedInv
  <2>2. PICK k \in Int : offsets[t] = k * Align
    BY <2>1 DEF AllocInv, AlignedInv, Multiple
  <2>3. (k * Align) % Align = 0 BY AllocAssumption
  <2> QED BY <2>1, <2>2, <2>3, RequestFacts DEF AllocInv
<1> QED BY <1>1, AllocInvariant, PTL

(* First fit: no lower offset would have done. *)
THEOREM PlacedInLowestGap == AllocSpec => LowestGap
<1> DEFINE Lowest ==
      \A t \in DOMAIN offsets' \ DOMAIN offsets :
        \A p \in 0 .. offsets'[t] - 1 :
          \E u \in Busy(t) : p < End(u) /\ offsets[u] < p + Size(t)
<1>1. AllocInv /\ [AllocNext]_allocVars => [Lowest]_allocVars
  <2> SUFFICES ASSUME AllocInv, AllocNext PROVE Lowest
    OBVIOUS
  <2>1. CASE offsets' = offsets BY <2>1
  <2>2. CASE Settle
    <3>1. /\ DOMAIN offsets' = Placed \union {current}
          /\ current \notin Placed /\ offsets'[current] = scanned
          /\ current # NoTensor
      BY <2>2 DEF Settle, AllocInv, AllocTypeOK
    <3>2. \A p \in 0 .. scanned - 1 :
            \E u \in Busy(current) : p < End(u) /\ offsets[u] < p + Size(current)
      BY <3>1 DEF AllocInv, ScanInv
    <3> QED BY <3>1, <3>2 DEF Placed
  <2> QED BY <2>1, <2>2
      DEF AllocNext, Place, Allocate, NextTensor, PassBusy, Answer
<1> QED BY <1>1, AllocInvariant, PTL DEF AllocSpec, LowestGap
=============================================================================
