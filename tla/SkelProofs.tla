----------------------------- MODULE SkelProofs -----------------------------
(***************************************************************************)
(* Two components, for any number of fds, slots, sizes and addresses, and  *)
(* any batches, buffers and kernels.  First the buffer table alone: the    *)
(* invariants MCSkelBufs checks on a small instance.  Then the session and *)
(* its batches, which keep the rules of VTCM: the invariants MCSkelControl *)
(* checks, and the refinement of VtcmLease.  Last what a batch is given    *)
(* and what it answers: the buffer table stays right and addresses sound   *)
(* while sessions come and go, a response tells the truth about the ops,   *)
(* and a response of OK means that memory holds what the ops compute.      *)
(***************************************************************************)
EXTENDS Skel, SequenceTheorems, FiniteSetTheorems, FiniteInduction, TLAPS

-----------------------------------------------------------------------------
(* The buffer table.                                                       *)

(* A nonempty set of naturals has a least element.  Were there none, the  *)
(* numbers up to some bound that lie above a member would be mapped one to *)
(* one into themselves by subtracting one, missing only the bound.         *)
LEMMA LeastElement ==
  ASSUME NEW S, S \subseteq Nat, S # {}
  PROVE  \E i \in S : \A j \in S : i <= j
<1>1. SUFFICES ASSUME \A i \in S : \E j \in S : j < i
               PROVE  FALSE
  OBVIOUS
<1>2. PICK x \in S : TRUE
  OBVIOUS
<1> DEFINE V == {i \in 0 .. x : \E j \in S : j <= i}
           pred == [i \in V |-> i - 1]
<1>3. x \in V /\ V \subseteq 0 .. x
  BY <1>2
<1>4. IsFiniteSet(V)
  <2>1. IsFiniteSet(0 .. x)
    BY <1>2, FS_Interval
  <2> QED  BY <2>1, <1>3, FS_Subset
<1>5. \A i \in V : i - 1 \in V
  <2>1. TAKE i \in V
  <2>2. PICK j \in S : j <= i
    BY <2>1
  <2>3. PICK k \in S : k < j
    BY <1>1, <2>2
  <2> QED  BY <2>1, <2>2, <2>3
<1>6. pred \in Injection(V, V)
  BY <1>5 DEF Injection, IsInjective
<1>7. pred \in Surjection(V, V)
  <2> HIDE DEF V, pred
  <2> QED  BY <1>4, <1>6, FS_Injection
<1>8. PICK i \in V : pred[i] = x
  BY <1>3, <1>7 DEF Surjection
<1> QED  BY <1>3, <1>8

(* A scan in order of a nonempty set of positions stops in the set.        *)
LEMMA FirstIsMember ==
  ASSUME NEW S, S \subseteq Nat, S # {}
  PROVE  First(S) \in S
BY LeastElement DEF First

(* What a lookup finds: nothing exactly when no occupied slot has the fd,  *)
(* and otherwise an occupied slot that has it.                             *)
LookupFinds ==
  \A fd : \/ /\ FindByFd(fd) = 0
            /\ \A s \in Slots : mmap[s].size # 0 => mmap[s].fd # fd
         \/ /\ FindByFd(fd) \in Slots /\ FindByFd(fd) # 0
            /\ mmap[FindByFd(fd)].size # 0
            /\ mmap[FindByFd(fd)].fd = fd

(* find_by_fd returns an occupied slot that holds the fd, or 0 when there  *)
(* is none.                                                                *)
LEMMA FindByFdFinds == LookupFinds
<1> SUFFICES ASSUME NEW fd
             PROVE  \/ /\ FindByFd(fd) = 0
                       /\ \A s \in Slots : mmap[s].size # 0 => mmap[s].fd # fd
                    \/ /\ FindByFd(fd) \in Slots /\ FindByFd(fd) # 0
                       /\ mmap[FindByFd(fd)].size # 0
                       /\ mmap[FindByFd(fd)].fd = fd
  BY DEF LookupFinds
<1> DEFINE hits == {s \in Occupied : mmap[s].fd = fd}
<1>1. Occupied \subseteq Slots /\ Slots \subseteq Nat \ {0}
  BY BufsAssumption DEF Occupied, Slots
<1>2. CASE hits = {}
  BY <1>2 DEF FindByFd, Occupied
<1>3. CASE hits # {}
  <2>1. First(hits) \in hits
    BY <1>1, <1>3, FirstIsMember
  <2> QED  BY <1>1, <1>3, <2>1 DEF FindByFd, Occupied
<1> QED  BY <1>2, <1>3

-----------------------------------------------------------------------------
(* The inductive invariant: the table's four invariants support each other.*)
(* That a munmap empties the only slot of its fd needs OneSlotPerFd; that  *)
(* no slot goes stale when an fd number is reused needs HostViewAgrees;    *)
(* that unmapping one slot leaves the others backed needs SlotsBacked.     *)
BufsInv ==
  /\ BufsTypeOK
  /\ OneSlotPerFd
  /\ HostViewAgrees
  /\ SlotsBacked

Cleared ==
  /\ mmap = [s \in Slots |-> FreeSlot]
  /\ osmap = [v \in Vas |-> FreeVa]
  /\ obj \in [Fds -> 0 .. MaxObj]
  /\ held = {}

(* A context that was just cleared satisfies it.                           *)
LEMMA ClearedTable == Cleared => BufsInv
<1> SUFFICES ASSUME Cleared PROVE BufsInv
  OBVIOUS
<1>1. Occupied = {}
  BY DEF Cleared, Occupied, FreeSlot
<1>2. BufsTypeOK
  BY BufsAssumption DEF Cleared, BufsTypeOK, Slot, Mapping
<1>3. HostViewAgrees
  BY <1>1 DEF Cleared, HostViewAgrees, FindByFd
<1> QED
  BY <1>1, <1>2, <1>3 DEF BufsInv, OneSlotPerFd, SlotsBacked

(* The empty table hexlib_iface_open leaves satisfies the invariant.       *)
LEMMA BufsInvInit == BufsInit => BufsInv
<1>1. BufsInit => Cleared
  BY BufsAssumption DEF BufsInit, Cleared
<1> QED  BY <1>1, ClearedTable

(* hexlib_bufs_register, whatever it answers, keeps the table right when   *)
(* the host counts the buffer as mapped exactly on OK.                     *)
LEMMA MmapPreserves ==
  ASSUME BufsInv, NEW fd \in Fds, NEW size \in Sizes, Mmap(fd, size)
  PROVE  BufsInv'
<1> USE DEF BufsInv
<1>1. PICK rc \in {"OK", "MMAP_FAILED", "NO_MMAP_SLOT"} :
        /\ Register(fd, size, rc)
        /\ held' = IF rc = "OK" THEN held \union {fd} ELSE held
        /\ obj' = obj
  BY DEF Mmap
<1>2. LookupFinds /\ LookupFinds'
  BY FindByFdFinds, PTL
<1>3. CASE mmap' = mmap /\ osmap' = osmap /\ held' = held
  BY <1>1, <1>3 DEF BufsTypeOK, OneSlotPerFd, HostViewAgrees, SlotsBacked,
                    SlotBacked, Occupied, FindByFd
<1>4. CASE /\ FindByFd(fd) = 0 /\ Occupied # Slots /\ rc = "OK"
           /\ \E va \in {v \in Vas : osmap[v] = FreeVa} :
                /\ osmap' = [osmap EXCEPT ![va] =
                               [fd |-> fd, obj |-> obj[fd], size |-> size]]
                /\ mmap' = [mmap EXCEPT ![First(Slots \ Occupied)] =
                               [base |-> va, size |-> size, fd |-> fd]]
  <2>1. PICK va \in Vas :
          /\ osmap[va] = FreeVa
          /\ osmap' = [osmap EXCEPT ![va] =
                         [fd |-> fd, obj |-> obj[fd], size |-> size]]
          /\ mmap' = [mmap EXCEPT ![First(Slots \ Occupied)] =
                         [base |-> va, size |-> size, fd |-> fd]]
    BY <1>4
  <2>2. PICK new \in Slots : new \notin Occupied /\ new = First(Slots \ Occupied)
    <3>1. Slots \ Occupied # {} /\ Slots \ Occupied \subseteq Nat
      BY <1>4, BufsAssumption DEF Slots, Occupied
    <3>2. First(Slots \ Occupied) \in Slots \ Occupied
      BY <3>1, FirstIsMember
    <3> QED  BY <3>2
  <2>3. size # 0 /\ fd # NoFd /\ va # 0
    BY BufsAssumption DEF NoFd
  <2>4. /\ mmap'[new].base = va /\ mmap'[new].size = size /\ mmap'[new].fd = fd
        /\ \A s \in Slots : s # new => mmap'[s] = mmap[s]
        /\ osmap'[va] = [fd |-> fd, obj |-> obj[fd], size |-> size]
        /\ \A v \in Vas : v # va => osmap'[v] = osmap[v]
    BY <2>1, <2>2 DEF BufsTypeOK
  <2>5. BufsTypeOK'
    BY <1>1, <2>1, <2>2 DEF BufsTypeOK, Slot, Mapping
  <2>6. \A s : s \in Occupied' <=> s = new \/ s \in Occupied
    BY <2>2, <2>3, <2>4 DEF Occupied
  <2>7. \A s \in Occupied : mmap[s].fd # fd
    BY <1>2, <1>4 DEF LookupFinds, Occupied
  <2>8. \A s \in Occupied : mmap[s].base # va
    <3>1. TAKE s \in Occupied
    <3>2. SlotBacked(s)
      BY <3>1 DEF SlotsBacked
    <3>3. osmap[mmap[s].base].fd \in Fds
      BY <3>2 DEF SlotBacked
    <3> QED  BY <3>3, <2>1, BufsAssumption DEF FreeVa, NoFd
  <2>9. OneSlotPerFd'
    BY <2>2, <2>4, <2>6, <2>7 DEF OneSlotPerFd, Occupied
  <2>10. HostViewAgrees'
    <3>1. ASSUME NEW f \in Fds PROVE f \in held' <=> FindByFd(f)' # 0
      <4>1. FindByFd(f) # 0 <=> \E s \in Occupied : mmap[s].fd = f
        BY <1>2 DEF LookupFinds, Occupied
      <4>2. FindByFd(f)' # 0 <=> \E s \in Occupied' : mmap'[s].fd = f
        BY <1>2 DEF LookupFinds, Occupied
      <4>3. (\E s \in Occupied' : mmap'[s].fd = f)
               <=> f = fd \/ \E s \in Occupied : mmap[s].fd = f
        BY <2>2, <2>4, <2>6 DEF Occupied
      <4>4. f \in held' <=> f = fd \/ f \in held
        BY <1>1, <1>4
      <4> QED  BY <4>1, <4>2, <4>3, <4>4 DEF HostViewAgrees
    <3> QED  BY <3>1 DEF HostViewAgrees
  <2>11. SlotsBacked'
    <3>1. \A s \in Occupied : SlotBacked(s)'
      BY <1>1, <2>2, <2>4, <2>8 DEF SlotsBacked, SlotBacked, Occupied
    <3>2. SlotBacked(new)'
      BY <1>1, <2>4 DEF SlotBacked
    <3>3. \A s \in Occupied : mmap'[s].base = mmap[s].base
      BY <2>2, <2>4 DEF Occupied
    <3>4. \A s, t \in Occupied' : mmap'[s].base = mmap'[t].base => s = t
      BY <2>4, <2>6, <2>8, <3>3 DEF SlotsBacked
    <3> QED  BY <2>6, <3>1, <3>2, <3>4 DEF SlotsBacked
  <2> QED  BY <2>5, <2>9, <2>10, <2>11
<1>5. CASE FindByFd(fd) # 0 /\ rc = "OK" /\ UNCHANGED <<mmap, osmap>>
  <2>1. held' = held
    BY <1>1, <1>5 DEF HostViewAgrees
  <2> QED  BY <1>3, <1>5, <2>1
<1>6. CASE rc # "OK" /\ UNCHANGED <<mmap, osmap>>
  BY <1>1, <1>3, <1>6
<1> QED  BY <1>1, <1>4, <1>5, <1>6 DEF Register

(* hexlib_bufs_unregister keeps the table right when the host forgets the  *)
(* buffer whatever HAP_munmap answered.                                    *)
LEMMA MunmapPreserves ==
  ASSUME BufsInv, NEW fd \in Fds, Munmap(fd)
  PROVE  BufsInv'
<1> USE DEF BufsInv
<1>1. PICK rc \in {"OK", "UNMAPPED", "MMAP_FAILED"} : Unregister(fd, rc)
  BY DEF Munmap
<1>2. held' = held \ {fd} /\ obj' = obj
  BY DEF Munmap
<1>3. LookupFinds /\ LookupFinds'
  BY FindByFdFinds, PTL
<1>4. CASE FindByFd(fd) = 0 /\ UNCHANGED <<mmap, osmap>>
  <2>1. held' = held
    BY <1>2, <1>4 DEF HostViewAgrees
  <2> QED
    BY <1>2, <1>4, <2>1 DEF BufsTypeOK, OneSlotPerFd, HostViewAgrees,
                            SlotsBacked, SlotBacked, Occupied, FindByFd
<1>5. CASE /\ FindByFd(fd) # 0
           /\ mmap' = [mmap EXCEPT ![FindByFd(fd)] = FreeSlot]
           /\ \/ osmap' = [osmap EXCEPT ![mmap[FindByFd(fd)].base] = FreeVa]
              \/ UNCHANGED osmap
  <2>1. PICK gone \in Slots : /\ gone = FindByFd(fd)
                              /\ mmap[gone].size # 0 /\ mmap[gone].fd = fd
    BY <1>3, <1>5 DEF LookupFinds
  <2>2. SlotBacked(gone)
    BY <2>1 DEF SlotsBacked, Occupied
  <2>3. /\ mmap'[gone].size = 0
        /\ \A s \in Slots : s # gone => mmap'[s] = mmap[s]
    BY <1>5, <2>1 DEF BufsTypeOK, FreeSlot
  <2>4. \A s : s \in Occupied' <=> s \in Occupied /\ s # gone
    BY <2>1, <2>3 DEF Occupied
  <2>5. \A s \in Occupied : s # gone => mmap[s].fd # fd
    BY <2>1 DEF OneSlotPerFd, Occupied
  <2>6. \A s \in Occupied' : mmap'[s] = mmap[s]
    BY <2>3, <2>4 DEF Occupied
  <2>7. BufsTypeOK'
    BY <1>2, <1>5, <2>1, <2>2 DEF BufsTypeOK, Slot, Mapping, SlotBacked
  <2>8. OneSlotPerFd'
    BY <2>4, <2>6 DEF OneSlotPerFd
  <2>9. HostViewAgrees'
    <3>1. ASSUME NEW f \in Fds PROVE f \in held' <=> FindByFd(f)' # 0
      <4>1. FindByFd(f) # 0 <=> \E s \in Occupied : mmap[s].fd = f
        BY <1>3 DEF LookupFinds, Occupied
      <4>2. FindByFd(f)' # 0 <=> \E s \in Occupied' : mmap'[s].fd = f
        BY <1>3 DEF LookupFinds, Occupied
      <4>3. (\E s \in Occupied' : mmap'[s].fd = f)
               <=> f # fd /\ \E s \in Occupied : mmap[s].fd = f
        BY <2>1, <2>4, <2>5, <2>6
      <4> QED  BY <1>2, <4>1, <4>2, <4>3 DEF HostViewAgrees
    <3> QED  BY <3>1 DEF HostViewAgrees
  <2>10. SlotsBacked'
    <3>1. ASSUME NEW s \in Slots, s \in Occupied' PROVE SlotBacked(s)'
      <4>1. s \in Occupied /\ s # gone /\ mmap'[s] = mmap[s]
        BY <2>4, <2>6, <3>1
      <4>2. SlotBacked(s)
        BY <4>1 DEF SlotsBacked
      <4>3. mmap[s].base # mmap[gone].base
        BY <2>1, <4>1 DEF SlotsBacked, Occupied
      <4>4. osmap'[mmap[s].base] = osmap[mmap[s].base]
        BY <1>5, <2>1, <4>2, <4>3 DEF BufsTypeOK, SlotBacked
      <4> QED  BY <1>2, <4>1, <4>2, <4>4 DEF SlotBacked
    <3>2. \A s, t \in Occupied' : mmap'[s].base = mmap'[t].base => s = t
      BY <2>4, <2>6 DEF SlotsBacked
    <3> QED  BY <3>1, <3>2, <2>4 DEF SlotsBacked, Occupied
  <2> QED  BY <2>7, <2>8, <2>9, <2>10
<1> QED  BY <1>1, <1>4, <1>5 DEF Unregister

(* An fd number only comes to name another object while no slot has it.    *)
LEMMA ReuseFdPreserves ==
  ASSUME BufsInv, NEW fd \in Fds, ReuseFd(fd)
  PROVE  BufsInv'
<1> USE DEF BufsInv
<1>1. /\ fd \notin held /\ obj[fd] < MaxObj
      /\ obj' = [obj EXCEPT ![fd] = obj[fd] + 1]
      /\ mmap' = mmap /\ osmap' = osmap /\ held' = held
  BY DEF ReuseFd
<1>2. \A s \in Occupied : mmap[s].fd # fd
  BY <1>1, FindByFdFinds DEF LookupFinds, HostViewAgrees, Occupied
<1>3. BufsTypeOK'
  BY <1>1, BufsAssumption DEF BufsTypeOK
<1>4. SlotsBacked'
  <2>1. \A s \in Occupied : SlotBacked(s)'
    BY <1>1, <1>2 DEF SlotsBacked, SlotBacked, BufsTypeOK
  <2> QED  BY <1>1, <2>1 DEF SlotsBacked, Occupied
<1> QED
  BY <1>1, <1>3, <1>4 DEF OneSlotPerFd, HostViewAgrees, Occupied, FindByFd

(* Steps that leave the table, the mappings and the host's view alone      *)
(* preserve the invariant.                                                 *)
LEMMA BufsUnchangedPreserves ==
  ASSUME BufsInv, UNCHANGED <<mmap, osmap, obj, held>>
  PROVE  BufsInv'
BY DEF BufsInv, BufsTypeOK, OneSlotPerFd, HostViewAgrees, SlotsBacked,
       SlotBacked, Occupied, FindByFd

(* Every call on the table, and every reuse of an fd number, preserves the *)
(* invariant.                                                              *)
LEMMA BufsInvStep == BufsInv /\ [BufsNext]_bufVars => BufsInv'
<1> SUFFICES ASSUME BufsInv, [BufsNext]_bufVars PROVE BufsInv'
  OBVIOUS
<1>1. ASSUME NEW fd \in Fds, NEW size \in Sizes, Mmap(fd, size) PROVE BufsInv'
  BY <1>1, MmapPreserves
<1>2. ASSUME NEW fd \in Fds, Munmap(fd) PROVE BufsInv'
  BY <1>2, MunmapPreserves
<1>3. ASSUME NEW fd \in Fds, ReuseFd(fd) PROVE BufsInv'
  BY <1>3, ReuseFdPreserves
<1>4. ASSUME NEW bufs \in BufSeqs, NEW tens \in TenSeqs, Prologue(bufs, tens)
      PROVE  BufsInv'
  BY <1>4, BufsUnchangedPreserves DEF Prologue
<1>5. CASE UNCHANGED bufVars
  BY <1>5, BufsUnchangedPreserves DEF bufVars
<1> QED  BY <1>1, <1>2, <1>3, <1>4, <1>5 DEF BufsNext

-----------------------------------------------------------------------------
(* The table of hexlib_ctx is right in every state of every session.       *)
THEOREM BufsInvariant == BufsSpec => []BufsInv
BY BufsInvInit, BufsInvStep, PTL DEF BufsSpec

(* No slot of the table is ever half reset.                                *)
THEOREM BufsTypeCorrect == BufsSpec => []BufsTypeOK
<1>1. BufsInv => BufsTypeOK
  BY DEF BufsInv
<1> QED  BY <1>1, BufsInvariant, PTL

(* An fd never occupies two slots, however mmap and munmap calls alternate.*)
THEOREM OneSlotPerFdAlways == BufsSpec => []OneSlotPerFd
<1>1. BufsInv => OneSlotPerFd
  BY DEF BufsInv
<1> QED  BY <1>1, BufsInvariant, PTL

(* What the host counts as mapped and what the table can look up never     *)
(* part, although the host ignores the status of munmap.                   *)
THEOREM HostViewAlwaysAgrees == BufsSpec => []HostViewAgrees
<1>1. BufsInv => HostViewAgrees
  BY DEF BufsInv
<1> QED  BY <1>1, BufsInvariant, PTL

(* Every occupied slot is backed by a mapping, its own, of the object its  *)
(* fd names today.                                                         *)
THEOREM SlotsAlwaysBacked == BufsSpec => []SlotsBacked
<1>1. BufsInv => SlotsBacked
  BY DEF BufsInv
<1> QED  BY <1>1, BufsInvariant, PTL

-----------------------------------------------------------------------------
(* The prologue: one descriptor that hexlib_bufs_map accepts gets the base *)
(* of a mapping at least as long as it claims to be, of a buffer the host  *)
(* still holds, whatever base it came with.                                *)
LEMMA MappedDescriptorSound ==
  ASSUME BufsInv, NEW b \in BufDesc, MapStatus(b) = "OK"
  PROVE  /\ Mapped(b).base \in Vas
         /\ Mapped(b).fd = b.fd /\ Mapped(b).size = b.size
         /\ osmap[Mapped(b).base].fd = b.fd
         /\ osmap[Mapped(b).base].obj = obj[b.fd]
         /\ b.size <= osmap[Mapped(b).base].size
         /\ osmap[Mapped(b).base].size \in Nat
         /\ b.fd \in held
<1> USE DEF BufsInv
<1>1. FindByFd(b.fd) # 0 /\ ~(b.size > mmap[FindByFd(b.fd)].size)
  BY DEF MapStatus
<1>2. PICK s \in Slots : s = FindByFd(b.fd) /\ mmap[s].size # 0 /\ mmap[s].fd = b.fd
  BY <1>1, FindByFdFinds DEF LookupFinds
<1>3. SlotBacked(s)
  BY <1>2 DEF SlotsBacked, Occupied
<1>4. mmap[s] \in Slot /\ mmap[s] # FreeSlot
  BY <1>2 DEF BufsTypeOK, FreeSlot
<1>5. mmap[s].size \in Nat
  BY <1>4, BufsAssumption DEF Slot
<1>6. Mapped(b).base = mmap[s].base /\ Mapped(b).fd = b.fd /\ Mapped(b).size = b.size
  BY <1>2 DEF Mapped, BufDesc
<1>7. b.fd \in held
  BY <1>1 DEF HostViewAgrees, BufDesc
<1>8. /\ osmap[mmap[s].base].fd = b.fd
      /\ osmap[mmap[s].base].obj = obj[b.fd]
      /\ osmap[mmap[s].base].size = mmap[s].size
      /\ mmap[s].base \in Vas
  BY <1>2, <1>3 DEF SlotBacked
<1>9. b.size <= mmap[s].size
  BY <1>1, <1>2, <1>5 DEF BufDesc
<1> QED  BY <1>5, <1>6, <1>7, <1>8, <1>9

(* A prologue that reports OK has accepted every descriptor, and its       *)
(* working copies are the mapped and resolved descriptors.                 *)
LEMMA PrologueAccepts ==
  ASSUME NEW bufs \in Seq(BufDesc), NEW tens \in Seq(TenDesc),
         Prologue(bufs, tens), work'.rc = "OK"
  PROVE  LET mapped == [i \in DOMAIN bufs |-> Mapped(bufs[i])]
         IN  /\ \A j \in DOMAIN bufs : MapStatus(bufs[j]) = "OK"
             /\ \A j \in DOMAIN tens : ResolveStatus(tens[j], mapped) = "OK"
             /\ work'.bufs = mapped
             /\ work'.tens = [j \in DOMAIN tens |-> Resolved(tens[j], mapped)]
<1> DEFINE mapped == [i \in DOMAIN bufs |-> Mapped(bufs[i])]
           badBufs == {j \in DOMAIN bufs : MapStatus(bufs[j]) # "OK"}
           badTens == {j \in DOMAIN tens : ResolveStatus(tens[j], mapped) # "OK"}
<1>1. DOMAIN bufs \subseteq Nat /\ DOMAIN tens \subseteq Nat
  OBVIOUS
<1>2. badBufs = {}
  <2> SUFFICES ASSUME badBufs # {} PROVE FALSE
    OBVIOUS
  <2>1. First(badBufs) \in badBufs
    BY <1>1, FirstIsMember
  <2>2. work'.rc = MapStatus(bufs[First(badBufs)])
    BY DEF Prologue, MapAndResolve, NoWork
  <2> QED  BY <2>1, <2>2
<1>3. badTens = {}
  <2> SUFFICES ASSUME badTens # {} PROVE FALSE
    OBVIOUS
  <2>1. First(badTens) \in badTens
    BY <1>1, FirstIsMember
  <2>2. work'.rc = ResolveStatus(tens[First(badTens)], mapped)
    BY <1>2 DEF Prologue, MapAndResolve, NoWork
  <2> QED  BY <2>1, <2>2
<1>4. work' = [rc |-> "OK", bufs |-> mapped,
               tens |-> [j \in DOMAIN tens |-> Resolved(tens[j], mapped)]]
  BY <1>2, <1>3 DEF Prologue, MapAndResolve
<1> QED  BY <1>2, <1>3, <1>4

(* A batch whose descriptors are all accepted resolves to sound addresses. *)
LEMMA PrologueSound ==
  ASSUME BufsInv, NEW bufs \in Seq(BufDesc), NEW tens \in Seq(TenDesc),
         Prologue(bufs, tens)
  PROVE  AddressesSound'
<1> DEFINE mapped == [i \in DOMAIN bufs |-> Mapped(bufs[i])]
<1>1. SUFFICES ASSUME work'.rc = "OK", NEW i \in DOMAIN work'.tens
      PROVE  LET t == work'.tens[i]
             IN  /\ t.va \in Vas
                 /\ t.offset + t.nbytes <= osmap[t.va].size
                 /\ \E k \in DOMAIN work'.bufs :
                      /\ work'.bufs[k].base = t.va
                      /\ osmap[t.va].fd = work'.bufs[k].fd
                      /\ osmap[t.va].obj = obj[work'.bufs[k].fd]
                      /\ work'.bufs[k].fd \in held
  BY DEF Prologue, AddressesSound
<1>2. DOMAIN bufs \subseteq Nat /\ DOMAIN tens \subseteq Nat
  OBVIOUS
<1>3. /\ \A j \in DOMAIN bufs : MapStatus(bufs[j]) = "OK"
      /\ \A j \in DOMAIN tens : ResolveStatus(tens[j], mapped) = "OK"
      /\ work'.bufs = mapped
      /\ work'.tens = [j \in DOMAIN tens |-> Resolved(tens[j], mapped)]
  BY <1>1, PrologueAccepts
<1>4. PICK t \in TenDesc : t = tens[i] /\ ResolveStatus(t, mapped) = "OK"
                          /\ work'.tens[i] = Resolved(t, mapped)
  BY <1>1, <1>2, <1>3
<1>5. t.bi \in DOMAIN bufs /\ t.offset + t.nbytes <= mapped[t.bi].size
  BY <1>4 DEF ResolveStatus, InBounds
<1>6. PICK b \in BufDesc : b = bufs[t.bi] /\ MapStatus(b) = "OK" /\ mapped[t.bi] = Mapped(b)
  BY <1>2, <1>3, <1>5
<1>7. work'.tens[i].va = Mapped(b).base
        /\ work'.tens[i].offset = t.offset /\ work'.tens[i].nbytes = t.nbytes
  BY <1>4, <1>6 DEF Resolved
<1> HIDE DEF mapped
<1>8. t.offset + t.nbytes <= osmap[Mapped(b).base].size
  <2>1. t.offset \in Nat /\ t.nbytes \in Nat /\ b.size \in Nat
    BY DEF TenDesc, BufDesc, Offsets
  <2> QED  BY <1>5, <1>6, <2>1, MappedDescriptorSound
<1>9. t.bi \in DOMAIN work'.bufs /\ work'.bufs[t.bi] = Mapped(b)
  BY <1>3, <1>5, <1>6 DEF mapped
<1> QED  BY <1>6, <1>7, <1>8, <1>9, MappedDescriptorSound

(* Every address a successful prologue hands to a kernel lies, with its    *)
(* length, in a live mapping of the buffer the host named and holds.       *)
THEOREM AddressesAlwaysSound == BufsSpec => []AddressesSound
<1>1. BufsInit => AddressesSound
  BY DEF BufsInit, AddressesSound, NoWork
<1>2. ASSUME BufsInv, AddressesSound, [BufsNext]_bufVars PROVE AddressesSound'
  <2>1. CASE work' = NoWork
    BY <2>1 DEF AddressesSound, NoWork
  <2>2. CASE UNCHANGED bufVars
    BY <1>2, <2>2 DEF AddressesSound, bufVars
  <2>3. ASSUME NEW bufs \in BufSeqs, NEW tens \in TenSeqs, Prologue(bufs, tens)
        PROVE  AddressesSound'
    BY <1>2, <2>3, PrologueSound, BufsAssumption
  <2> QED  BY <1>2, <2>1, <2>2, <2>3 DEF BufsNext, Mmap, Munmap, ReuseFd
<1> QED  BY <1>1, <1>2, BufsInvariant, PTL DEF BufsSpec

-----------------------------------------------------------------------------
(* The session, its batches and VTCM.                                      *)

(* Which control points each phase of the session allows: batches run only *)
(* in a started session, and stop and close walk "release" and "free".     *)
PhaseAllows ==
  /\ at \notin {"idle", "release", "free"} => phase = "started"
  /\ at \in {"release", "free"} => phase \in {"stopped", "closed"}

(* Outside a started session nothing is held; the context is the last to   *)
(* go.                                                                     *)
NothingHeldOutside ==
  /\ phase # "started" => ~vtcm_valid
  /\ at = "idle" /\ phase # "started" => ~vtcm_rctx /\ ~started

(* In the windows around the manager's calls the manager still, or         *)
(* already, counts the skel as the holder while the context does not.      *)
WindowsHeld ==
  at \in {"acquired", "release", "reclaim"} => owner = "skel" /\ ~vtcm_valid

(* A batch that is going to answer VTCM_RECLAIMED has dropped VTCM, and no *)
(* answer lies around while a call is in flight.                           *)
ReclaimRecorded ==
  /\ status = "VTCM_RECLAIMED" => at \in {"reclaim", "flush"} /\ ~vtcm_valid
  /\ at # "idle" => rsp.status # "VTCM_RECLAIMED"

ControlInv ==
  /\ VtcmTypeOK
  /\ at \in Controls
  /\ phase \in {"closed", "open", "started", "stopped"}
  /\ KernelOwnsVtcm
  /\ HoldingIsRecorded
  /\ PhaseAllows
  /\ NothingHeldOutside
  /\ WindowsHeld
  /\ ReclaimRecorded
  /\ ReclaimedMeansReturned

-----------------------------------------------------------------------------
(* The statuses a batch can be refused with are not VTCM_RECLAIMED.        *)
LEMMA HeaderStatusIsARefusal ==
  ASSUME NEW b
  PROVE  HeaderStatus(b) \in {"OK", "TRUNCATED", "BAD_MAGIC", "BAD_VERSION", "INVAL_PARAMS"}
<1> DEFINE failed == {i \in DOMAIN HeaderChecks : HeaderChecks[i].fault \in Faults(b)}
<1>1. DOMAIN HeaderChecks = 1 .. 7
  BY DEF HeaderChecks
<1>2. CASE failed = {}
  BY <1>2 DEF HeaderStatus
<1>3. CASE failed # {}
  <2>1. First(failed) \in failed
    BY <1>1, <1>3, FirstIsMember
  <2>2. First(failed) \in 1 .. 7
    BY <1>1, <2>1
  <2>3. HeaderStatus(b) = HeaderChecks[First(failed)].status
    BY <1>3 DEF HeaderStatus
  <2>4. \A i \in 1 .. 7 : HeaderChecks[i].status \in
           {"TRUNCATED", "BAD_MAGIC", "BAD_VERSION", "INVAL_PARAMS"}
    BY DEF HeaderChecks
  <2> QED  BY <2>2, <2>3, <2>4
<1> QED  BY <1>2, <1>3

(* What hexlib_bufs_map and hexlib_tensors_resolve can answer does not     *)
(* include VTCM_RECLAIMED.                                                 *)
LEMMA PrologueIsARefusal ==
  ASSUME NEW bufs, NEW tens
  PROVE  MapAndResolve(bufs, tens).rc # "VTCM_RECLAIMED"
<1>1. \A b : MapStatus(b) # "VTCM_RECLAIMED"
  BY DEF MapStatus
<1>2. \A t, m : ResolveStatus(t, m) # "VTCM_RECLAIMED"
  BY DEF ResolveStatus
<1> QED  BY <1>1, <1>2 DEF MapAndResolve, NoWork

-----------------------------------------------------------------------------
(* Before the first open nothing holds VTCM.                               *)
LEMMA ControlInvInit == SkelInit => ControlInv
BY DEF SkelInit, VtcmInit, ControlInv, VtcmTypeOK, Controls, KernelOwnsVtcm, Running,
       HoldingIsRecorded, PhaseAllows, NothingHeldOutside, WindowsHeld,
       ReclaimRecorded, ReclaimedMeansReturned, NoRsp, Response

(* Whatever moves neither the thread, the session, VTCM nor the response   *)
(* keeps the invariant.                                                    *)
LEMMA ControlFrame ==
  ASSUME ControlInv, UNCHANGED <<vtcmVars, at, phase, started, status>>,
         rsp' = rsp \/ rsp' = NoRsp
  PROVE  ControlInv'
BY DEF ControlInv, VtcmTypeOK, Controls, KernelOwnsVtcm, Running,
       HoldingIsRecorded, PhaseAllows, NothingHeldOutside, WindowsHeld,
       ReclaimRecorded, ReclaimedMeansReturned, NoRsp, Response, vtcmVars

(* Every step of the session, the dispatcher, the callback's thread and    *)
(* the competitor preserves the control invariant.                         *)
LEMMA ControlInvStep == ControlInv /\ [SkelNext]_vars => ControlInv'
<1> SUFFICES ASSUME ControlInv, [SkelNext]_vars PROVE ControlInv'
  OBVIOUS
<1> USE DEF ControlInv, VtcmTypeOK, Controls, KernelOwnsVtcm, Running,
            HoldingIsRecorded, PhaseAllows, NothingHeldOutside, WindowsHeld,
            ReclaimRecorded, ReclaimedMeansReturned, NoRsp, Response,
            vtcmVars, managerVars, callVars
<1>1. CASE Open
  BY <1>1 DEF Open
<1>2. CASE Start
  BY <1>2 DEF Start, VtcmAlloc
<1>3. ASSUME NEW from, NEW to, to \in {"stopped", "closed"}, Leave(from, to)
      PROVE  ControlInv'
  <2>1. CASE ReleaseRecord /\ at' = "release"
    BY <1>3, <2>1 DEF Leave, ReleaseRecord
  <2>2. CASE ~vtcm_valid /\ at' = "free" /\ UNCHANGED vtcmVars
    BY <1>3, <2>2 DEF Leave
  <2> QED  BY <1>3, <2>1, <2>2 DEF Leave
<1>4. CASE LeaveRelease
  BY <1>4 DEF LeaveRelease, ReleaseCached
<1>5. CASE LeaveFree
  BY <1>5 DEF LeaveFree, VtcmFree
<1>6. ASSUME NEW fd \in Fds, NEW size \in Sizes, MapBuffer(fd, size)
      PROVE  ControlInv'
  BY <1>6, ControlFrame DEF MapBuffer
<1>7. ASSUME NEW fd \in Fds, UnmapBuffer(fd)
      PROVE  ControlInv'
  BY <1>7, ControlFrame DEF UnmapBuffer
<1>8. ASSUME NEW c \in Cells, HostWrites(c) \/ Evict(c) \/ Prefetch(c)
      PROVE  ControlInv'
  BY <1>8, ControlFrame DEF HostWrites, Evict, Prefetch
<1>9. ASSUME NEW b \in Batches, Invoke(b)
      PROVE  ControlInv'
  BY <1>9 DEF Invoke, InvokeStatus
<1>10. CASE Dispatch
  <2>1. CASE HeaderStatus(batch) # "OK" /\ Refuse(HeaderStatus(batch))
    BY <1>10, <2>1, HeaderStatusIsARefusal DEF Dispatch, Refuse, Return
  <2>2. CASE /\ Prologue(batch.bufs, batch.tens)
             /\ IF work'.rc = "OK" THEN Proceed("acquire") ELSE Refuse(work'.rc)
    <3>1. work'.rc # "VTCM_RECLAIMED"
      BY <2>2, PrologueIsARefusal DEF Prologue
    <3> QED  BY <1>10, <2>2, <3>1 DEF Dispatch, Refuse, Return, Proceed
  <2> QED  BY <1>10, <2>1, <2>2 DEF Dispatch
<1>11. CASE Acquire
  <2>1. CASE vtcm_valid /\ Proceed("invalidate") /\ UNCHANGED vtcmVars
    BY <1>11, <2>1 DEF Acquire, Proceed
  <2>2. CASE ~vtcm_valid /\ AcquireCached /\ Proceed("acquired")
    BY <1>11, <2>2 DEF Acquire, AcquireCached, Proceed
  <2>3. CASE ~vtcm_valid /\ Refuse("VTCM_TOO_SMALL") /\ UNCHANGED vtcmVars
    BY <1>11, <2>3 DEF Acquire, Refuse, Return
  <2> QED  BY <1>11, <2>1, <2>2, <2>3 DEF Acquire
<1>12. CASE Acquired
  BY <1>12 DEF Acquired, AcquireRecord
<1>13. CASE InvalidateCache
  BY <1>13 DEF InvalidateCache, Proceed, Refuse, Return
<1>14. CASE NextOp
  BY <1>14 DEF NextOp, OpStatus
<1>15. CASE LastOpDone
  BY <1>15 DEF LastOpDone
<1>16. CASE KernelSucceeds
  <2>1. CASE ReleaseRecord /\ status' = "VTCM_RECLAIMED" /\ at' = "reclaim"
    BY <1>16, <2>1 DEF KernelSucceeds, ReleaseRecord
  <2>2. CASE at' = "ops" /\ UNCHANGED <<vtcmVars, status>>
    BY <1>16, <2>2 DEF KernelSucceeds
  <2> QED  BY <1>16, <2>1, <2>2 DEF KernelSucceeds
<1>17. CASE KernelFails
  BY <1>17 DEF KernelFails
<1>18. CASE Reclaim
  BY <1>18 DEF Reclaim, ReleaseCached
<1>19. CASE Reply
  BY <1>19 DEF Reply, Return
<1>20. CASE ManagerStep
  <2>1. UNCHANGED <<vtcm_valid, vtcm_rctx, at, phase, started, status, rsp>>
    BY <1>20 DEF ManagerStep, GrantRival, BesideTheThread, ReleaseCallback,
                 RivalAsks, ManagerNotifies, RivalGranted, RivalReturns
  <2>2. owner' = owner \/ (owner # "skel" /\ owner' \in {"free", "rival"})
    BY <1>20 DEF ManagerStep, GrantRival, ReleaseCallback,
                 RivalAsks, ManagerNotifies, RivalGranted, RivalReturns
  <2>3. VtcmTypeOK'
    BY <1>20 DEF ManagerStep, GrantRival, ReleaseCallback,
                 RivalAsks, ManagerNotifies, RivalGranted, RivalReturns
  <2> QED  BY <2>1, <2>2, <2>3
<1>21. CASE UNCHANGED vars
  BY <1>21, ControlFrame DEF vars
<1> QED
  BY <1>1, <1>2, <1>3, <1>4, <1>5, <1>6, <1>7, <1>8, <1>9, <1>10, <1>11, <1>12,
     <1>13, <1>14, <1>15, <1>16, <1>17, <1>18, <1>19, <1>20, <1>21
  DEF SkelNext, DspStep, HostStep, CacheStep, Stop, Close

(* The control invariant holds throughout, for any batches, buffers and    *)
(* kernels.                                                                *)
THEOREM ControlInvariant == SkelSpec => []ControlInv
BY ControlInvInit, ControlInvStep, PTL DEF SkelSpec

(* No kernel runs unless the manager counts the skel as the holder: the    *)
(* release callback never takes VTCM from under a batch.                   *)
THEOREM KernelAlwaysOwnsVtcm == SkelSpec => []KernelOwnsVtcm
<1>1. ControlInv => KernelOwnsVtcm
  BY DEF ControlInv
<1> QED  BY <1>1, ControlInvariant, PTL

(* The context and the manager disagree about who holds VTCM only inside   *)
(* the windows around the manager's calls.                                 *)
THEOREM HoldingIsAlwaysRecorded == SkelSpec => []HoldingIsRecorded
<1>1. ControlInv => HoldingIsRecorded
  BY DEF ControlInv
<1> QED  BY <1>1, ControlInvariant, PTL

(* However its batches ended, a session that was stopped or closed keeps   *)
(* neither VTCM nor its context.                                           *)
THEOREM SessionAlwaysReturnsVtcm == SkelSpec => []SessionReturnsVtcm
<1>1. ControlInv => SessionReturnsVtcm
  BY DEF ControlInv, SessionReturnsVtcm, HoldingIsRecorded, NothingHeldOutside
<1> QED  BY <1>1, ControlInvariant, PTL

(* A host that is told VTCM_RECLAIMED can rely on VTCM having been given   *)
(* back.                                                                   *)
THEOREM ReclaimedAlwaysMeansReturned == SkelSpec => []ReclaimedMeansReturned
<1>1. ControlInv => ReclaimedMeansReturned
  BY DEF ControlInv
<1> QED  BY <1>1, ControlInvariant, PTL

-----------------------------------------------------------------------------
(* The lease: every step of the session, of its batches, of the callback   *)
(* and of the manager is a step of VtcmLease or leaves it alone.           *)
LEMMA LeaseInitially == SkelInit => Lease!LeaseInit
BY DEF SkelInit, VtcmInit, Lease!LeaseInit

(* Each step of the skel, the manager and the cache is a step of the lease *)
(* or leaves holder and kernel alone.                                      *)
LEMMA LeaseStep ==
  ASSUME ControlInv, [SkelNext]_vars
  PROVE  [Lease!LeaseNext]_(Lease!leaseVars)
<1> USE DEF ControlInv, KernelOwnsVtcm, Running, HoldingIsRecorded, WindowsHeld,
            NothingHeldOutside, vtcmVars, managerVars
<1> DEFINE Same == owner' = owner /\ (at' = "kernel" <=> at = "kernel")
<1>1. SUFFICES Same \/ Lease!LeaseNext
  BY DEF Lease!leaseVars
<1>2. CASE Open \/ Start
  BY <1>2 DEF Open, Start, VtcmAlloc
<1>3. ASSUME NEW from, NEW to, Leave(from, to) PROVE Same
  BY <1>3 DEF Leave, ReleaseRecord
<1>4. CASE LeaveRelease \/ Reclaim
  <2>1. Lease!GiveBack
    BY <1>4 DEF LeaveRelease, Reclaim, ReleaseCached, Lease!GiveBack
  <2> QED  BY <2>1 DEF Lease!LeaseNext
<1>5. CASE LeaveFree
  BY <1>5 DEF LeaveFree, VtcmFree
<1>6. ASSUME NEW fd \in Fds, NEW size \in Sizes, MapBuffer(fd, size)
      PROVE  Same
  BY <1>6 DEF MapBuffer
<1>7. ASSUME NEW fd \in Fds, UnmapBuffer(fd)
      PROVE  Same
  BY <1>7 DEF UnmapBuffer
<1>8. ASSUME NEW c \in Cells, HostWrites(c) \/ Evict(c) \/ Prefetch(c)
      PROVE  Same
  BY <1>8 DEF HostWrites, Evict, Prefetch
<1>9. ASSUME NEW b \in Batches, Invoke(b)
      PROVE  Same
  BY <1>9 DEF Invoke
<1>10. CASE Dispatch
  BY <1>10 DEF Dispatch, Refuse, Return, Proceed
<1>11. CASE Acquire
  <2>1. CASE AcquireCached /\ Proceed("acquired")
    <3>1. Lease!Take("skel")
      BY <1>11, <2>1 DEF Acquire, AcquireCached, Proceed, Lease!Take
    <3> QED  BY <3>1 DEF Lease!LeaseNext
  <2>2. CASE UNCHANGED vtcmVars
    BY <1>11, <2>2 DEF Acquire, Refuse, Return, Proceed
  <2> QED  BY <1>11, <2>1, <2>2 DEF Acquire
<1>12. CASE Acquired \/ InvalidateCache \/ LastOpDone \/ Reply
  BY <1>12 DEF Acquired, AcquireRecord, InvalidateCache, LastOpDone, Reply,
               Proceed, Refuse, Return
<1>13. CASE NextOp
  <2>1. CASE at' = "kernel"
    <3>1. Lease!KernelBegins
      BY <1>13, <2>1 DEF NextOp, Lease!KernelBegins
    <3> QED  BY <3>1 DEF Lease!LeaseNext
  <2>2. CASE at' # "kernel"
    BY <1>13, <2>2 DEF NextOp
  <2> QED  BY <2>1, <2>2
<1>14. CASE KernelSucceeds \/ KernelFails
  <2>1. Lease!KernelEnds
    BY <1>14 DEF KernelSucceeds, ReleaseRecord, KernelFails, Lease!KernelEnds
  <2> QED  BY <2>1 DEF Lease!LeaseNext
<1>15. CASE GrantRival
  <2>1. Lease!Take("rival")
    BY <1>15 DEF GrantRival, RivalGranted, BesideTheThread, Lease!Take
  <2> QED  BY <2>1 DEF Lease!LeaseNext
<1>16. CASE RivalReturns /\ BesideTheThread
  <2>1. Lease!GiveBack
    BY <1>16 DEF RivalReturns, BesideTheThread, Lease!GiveBack
  <2> QED  BY <2>1 DEF Lease!LeaseNext
<1>17. CASE (ReleaseCallback \/ RivalAsks \/ ManagerNotifies) /\ BesideTheThread
  BY <1>17 DEF ReleaseCallback, RivalAsks, ManagerNotifies, BesideTheThread
<1>18. CASE UNCHANGED vars
  BY <1>18 DEF vars
<1> QED
  BY <1>2, <1>3, <1>4, <1>5, <1>6, <1>7, <1>8, <1>9, <1>10, <1>11, <1>12, <1>13,
     <1>14, <1>15, <1>16, <1>17, <1>18
  DEF SkelNext, DspStep, HostStep, CacheStep, ManagerStep, Stop, Close

(* The session implements the lease: VTCM has one holder at a time, no     *)
(* kernel begins without it, and it never changes hands under one.         *)
THEOREM SkelImplementsLease == SkelSpec => LeaseImplemented
<1>1. ControlInv /\ [SkelNext]_vars => [Lease!LeaseNext]_(Lease!leaseVars)
  BY LeaseStep
<1> QED
  BY <1>1, LeaseInitially, ControlInvariant, PTL
  DEF SkelSpec, LeaseImplemented, Lease!LeaseSpec

-----------------------------------------------------------------------------
(* The buffer table inside the session. *)

AddressInv ==
  /\ BufsInv
  /\ AddressesSound
  /\ batch \in Batches \union {NoBatch}

(* The batch that stands for "no invoke in flight" is a batch like any     *)
(* other, so a dispatch may assume one.                                    *)
LEMMA NoBatchTyped ==
  ASSUME NEW b \in Batches \union {NoBatch}
  PROVE  /\ b.bufs \in Seq(BufDesc) /\ b.tens \in Seq(TenDesc)
         /\ b.ops \in Seq(OpDesc)
<1>1. CASE b \in Batches
  BY <1>1, SkelAssumption DEF BatchDesc
<1>2. CASE b = NoBatch
  BY <1>2 DEF NoBatch
<1> QED  BY <1>1, <1>2

(* A skel that has not been opened has no table to go wrong.               *)
LEMMA AddressInvInit == SkelInit => AddressInv
BY BufsInvInit DEF SkelInit, BufsInit, AddressInv, AddressesSound, NoWork

(* No step of the session, of a batch or of the surroundings breaks the    *)
(* buffer table or an address in use.                                      *)
LEMMA AddressInvStep == AddressInv /\ [SkelNext]_vars => AddressInv'
<1> SUFFICES ASSUME AddressInv, [SkelNext]_vars PROVE AddressInv'
  OBVIOUS
<1>1. CASE Open
  <2>1. obj \in [Fds -> 0 .. MaxObj]
    BY DEF AddressInv, BufsInv, BufsTypeOK
  <2>2. Cleared'
    BY <1>1, <2>1 DEF Open, Cleared
  <2>3. (Cleared => BufsInv)'
    BY ClearedTable, PTL
  <2>4. AddressesSound'
    BY <1>1 DEF Open, AddressesSound, NoWork
  <2> QED  BY <1>1, <2>2, <2>3, <2>4 DEF Open, AddressInv, callVars
<1>2. ASSUME NEW fd \in Fds, NEW size \in Sizes, MapBuffer(fd, size)
      PROVE  AddressInv'
  <2>1. BufsInv'
    BY <1>2, MmapPreserves DEF AddressInv, MapBuffer
  <2>2. AddressesSound'
    BY <1>2 DEF MapBuffer, Mmap, AddressesSound, NoWork
  <2> QED  BY <1>2, <2>1, <2>2 DEF AddressInv, MapBuffer, callVars
<1>3. ASSUME NEW fd \in Fds, UnmapBuffer(fd)
      PROVE  AddressInv'
  <2>1. BufsInv'
    BY <1>3, MunmapPreserves DEF AddressInv, UnmapBuffer
  <2>2. AddressesSound'
    BY <1>3 DEF UnmapBuffer, Munmap, AddressesSound, NoWork
  <2> QED  BY <1>3, <2>1, <2>2 DEF AddressInv, UnmapBuffer, callVars
<1>4. ASSUME NEW bufs \in Seq(BufDesc), NEW tens \in Seq(TenDesc),
             Prologue(bufs, tens), batch' \in Batches \union {NoBatch}
      PROVE  AddressInv'
  <2>1. BufsInv'
    BY <1>4, BufsUnchangedPreserves DEF AddressInv, Prologue
  <2> QED  BY <1>4, <2>1, PrologueSound DEF AddressInv
<1>5. ASSUME UNCHANGED bufVars, batch' \in Batches \union {NoBatch}
      PROVE  AddressInv'
  <2>1. BufsInv'
    BY <1>5, BufsUnchangedPreserves DEF AddressInv, bufVars
  <2> QED  BY <1>5, <2>1 DEF AddressInv, AddressesSound, bufVars
<1>6. CASE Dispatch
  <2>1. batch' \in Batches \union {NoBatch}
    BY <1>6 DEF Dispatch, Refuse, Return, Proceed, callVars, AddressInv
  <2>2. CASE UNCHANGED bufVars
    BY <1>5, <2>1, <2>2
  <2>3. CASE Prologue(batch.bufs, batch.tens)
    <3>1. batch.bufs \in Seq(BufDesc) /\ batch.tens \in Seq(TenDesc)
      BY NoBatchTyped DEF AddressInv
    <3> QED  BY <1>4, <2>1, <2>3, <3>1
  <2> QED  BY <1>6, <2>2, <2>3 DEF Dispatch
<1>7. CASE DspStep /\ ~Dispatch
  <2>1. UNCHANGED bufVars
    BY <1>7 DEF DspStep, LeaveRelease, LeaveFree, Acquire, Acquired,
       InvalidateCache, NextOp, LastOpDone, KernelSucceeds, KernelFails,
       Reclaim, Reply
  <2>2. batch' = batch \/ batch' = NoBatch
    BY <1>7 DEF DspStep, LeaveRelease, LeaveFree, Acquire, Acquired,
       InvalidateCache, NextOp, LastOpDone, KernelSucceeds, KernelFails,
       Reclaim, Reply, Proceed, Refuse, Return, callVars
  <2> QED  BY <1>5, <2>1, <2>2 DEF AddressInv
<1>8. ASSUME NEW b \in Batches, Invoke(b)
      PROVE  AddressInv'
  BY <1>5, <1>8 DEF Invoke, AddressInv
<1>9. CASE Start \/ Stop \/ Close \/ ManagerStep
  BY <1>5, <1>9 DEF Start, Stop, Close, Leave, ManagerStep, GrantRival,
     BesideTheThread, callVars, AddressInv
<1>10. ASSUME NEW c \in Cells, HostWrites(c) \/ Evict(c) \/ Prefetch(c)
       PROVE  AddressInv'
  <2>1. UNCHANGED bufVars /\ (batch' = batch)
    BY <1>10 DEF HostWrites, Evict, Prefetch, callVars
  <2> QED  BY <1>5, <2>1 DEF AddressInv
<1>11. CASE UNCHANGED vars
  BY <1>5, <1>11 DEF vars, callVars, AddressInv
<1> QED
  BY <1>1, <1>2, <1>3, <1>6, <1>7, <1>8, <1>9, <1>10, <1>11
  DEF SkelNext, HostStep, CacheStep

(* While sessions come and go and batches run, the table stays right and   *)
(* every address in the hands of a batch is inside a live mapping of the   *)
(* buffer its descriptor names.                                            *)
THEOREM BatchAddressesSound == SkelSpec => [](BufsInv /\ AddressesSound)
<1>1. AddressInv => BufsInv /\ AddressesSound
  BY DEF AddressInv
<1> QED  BY <1>1, AddressInvInit, AddressInvStep, PTL DEF SkelSpec

-----------------------------------------------------------------------------
(* The response. *)

OpResults == {"OK", "INTERNAL", "REQUIRES", "NO_KERNEL", "INVAL_PARAMS"}

(* How far a batch got and what its results so far may be at each control  *)
(* point: before the loop nothing; in it, only successes behind the op at  *)
(* hand; after it, either all ops succeeded, or the last result is the     *)
(* reason the loop stopped, or VTCM went away after a success.             *)
ResultsHonest ==
  LET n == Len(results)
  IN  /\ results \in Seq(OpResults)
      /\ n <= Len(batch.ops)
      /\ \A i \in 1 .. n - 1 : results[i] = "OK"
      /\ at \notin {"ops", "kernel", "reclaim", "flush"} => n = 0 /\ status = "OK"
      /\ at = "ops" => status = "OK" /\ (n > 0 => results[n] = "OK")
      /\ at = "kernel" => status = "OK" /\ n > 0 /\ results[n] = "INTERNAL"
      /\ at \in {"reclaim", "flush"} =>
           \/ status = "OK" /\ n = Len(batch.ops) /\ (n > 0 => results[n] = "OK")
           \/ status = "VTCM_RECLAIMED" /\ n > 0 /\ results[n] = "OK"
           \/ status \in OpResults \ {"OK"} /\ n > 0 /\ results[n] = status

ResponseInv ==
  /\ batch \in Batches \union {NoBatch}
  /\ ResultsHonest
  /\ ResponseHonest

(* Before the first invoke there is no response and no result.             *)
LEMMA ResponseInvInit == SkelInit => ResponseInv
BY DEF SkelInit, ResponseInv, ResultsHonest, ResponseHonest, NoBatch, NoRsp

(* A refusal, whatever its reason, is an honest response.                  *)
LEMMA RefusalIsHonest ==
  ASSUME ResponseInv, NEW s, s # "OK", Refuse(s)
  PROVE  ResponseInv'
<1>1. /\ rsp' = [status |-> s, results |-> << >>, batch |-> batch, before |-> snap]
      /\ at' = "idle" /\ batch' = NoBatch /\ results' = << >> /\ status' = "OK"
  BY DEF Refuse, Return, Response
<1>2. Len(batch.ops) \in Nat
  BY NoBatchTyped DEF ResponseInv
<1>3. ResultsHonest'
  BY <1>1 DEF ResultsHonest, NoBatch
<1>4. ResponseHonest'
  BY <1>1, <1>2 DEF ResponseHonest
<1> QED  BY <1>1, <1>3, <1>4 DEF ResponseInv

(* What moves neither the results nor the thread out of the part of the    *)
(* call it is in keeps the invariant.                                      *)
LEMMA ResponseFrame ==
  ASSUME ResponseInv, UNCHANGED <<batch, results, status>>,
         rsp' = rsp \/ rsp' = NoRsp,
         \/ at' = at
         \/ /\ at \notin {"ops", "kernel", "reclaim", "flush"}
            /\ at' \notin {"ops", "kernel", "reclaim", "flush"}
         \/ at = "invalidate" /\ at' = "ops"
         \/ at = "reclaim" /\ at' = "flush"
  PROVE  ResponseInv'
<1>1. ResultsHonest'
  <2>1. CASE at' = at
    BY <2>1 DEF ResponseInv, ResultsHonest
  <2>2. CASE /\ at \notin {"ops", "kernel", "reclaim", "flush"}
             /\ at' \notin {"ops", "kernel", "reclaim", "flush"}
    BY <2>2 DEF ResponseInv, ResultsHonest
  <2>3. CASE at = "invalidate" /\ at' = "ops"
    BY <2>3 DEF ResponseInv, ResultsHonest
  <2>4. CASE at = "reclaim" /\ at' = "flush"
    BY <2>4 DEF ResponseInv, ResultsHonest
  <2> QED  BY <2>1, <2>2, <2>3, <2>4
<1>2. ResponseHonest'
  BY DEF ResponseInv, ResponseHonest
<1> QED  BY <1>1, <1>2 DEF ResponseInv

(* Every step of the op loop keeps results and status in agreement, and    *)
(* only Return publishes them.                                             *)
LEMMA ResponseInvStep == ResponseInv /\ [SkelNext]_vars => ResponseInv'
<1> SUFFICES ASSUME ResponseInv, [SkelNext]_vars PROVE ResponseInv'
  OBVIOUS
<1> USE DEF callVars
<1>1. CASE Open \/ Start \/ LeaveRelease \/ LeaveFree \/ Acquired \/ Reclaim
  BY <1>1, ResponseFrame DEF Open, Start, LeaveRelease, LeaveFree, Acquired, Reclaim
<1>2. CASE Stop \/ Close
  BY <1>2, ResponseFrame DEF Stop, Close, Leave
<1>3. ASSUME NEW fd \in Fds, NEW size \in Sizes, MapBuffer(fd, size)
      PROVE  ResponseInv'
  BY <1>3, ResponseFrame DEF MapBuffer
<1>4. ASSUME NEW fd \in Fds, UnmapBuffer(fd)
      PROVE  ResponseInv'
  BY <1>4, ResponseFrame DEF UnmapBuffer
<1>5. ASSUME NEW c \in Cells, HostWrites(c) \/ Evict(c) \/ Prefetch(c)
      PROVE  ResponseInv'
  BY <1>5, ResponseFrame DEF HostWrites, Evict, Prefetch
<1>6. CASE ManagerStep
  BY <1>6, ResponseFrame DEF ManagerStep, GrantRival, BesideTheThread
<1>7. ASSUME NEW b \in Batches, Invoke(b)
      PROVE  ResponseInv'
  <2>1. b.ops \in Seq(OpDesc) /\ Len(b.ops) \in Nat
    BY NoBatchTyped
  <2>2. at = "idle" /\ UNCHANGED <<results, status>>
    BY <1>7 DEF Invoke
  <2>3. CASE InvokeStatus(b) = "OK"
    <3>1. rsp' = NoRsp /\ at' = "dispatch" /\ batch' = b
      BY <1>7, <2>3 DEF Invoke
    <3>2. ResultsHonest'
      BY <2>1, <2>2, <3>1 DEF ResponseInv, ResultsHonest
    <3> QED  BY <3>1, <3>2 DEF ResponseInv, ResponseHonest
  <2>4. CASE InvokeStatus(b) # "OK"
    <3>1. UNCHANGED <<at, batch>>
      BY <1>7, <2>4 DEF Invoke
    <3>2. rsp' = [status |-> InvokeStatus(b), results |-> << >>, batch |-> b, before |-> ddr]
      BY <1>7, <2>4 DEF Invoke, Response
    <3>3. ResponseHonest'
      BY <2>1, <2>4, <3>2 DEF ResponseHonest
    <3> QED  BY <2>2, <3>1, <3>3 DEF ResponseInv, ResultsHonest
  <2> QED  BY <2>3, <2>4
<1>8. CASE Dispatch
  <2>1. CASE HeaderStatus(batch) # "OK" /\ Refuse(HeaderStatus(batch))
    BY <2>1, RefusalIsHonest
  <2>2. CASE IF work'.rc = "OK" THEN Proceed("acquire") ELSE Refuse(work'.rc)
    BY <1>8, <2>2, RefusalIsHonest, ResponseFrame DEF Dispatch, Proceed
  <2> QED  BY <1>8, <2>1, <2>2 DEF Dispatch
<1>9. CASE Acquire
  <2>1. CASE Refuse("VTCM_TOO_SMALL")
    BY <2>1, RefusalIsHonest
  <2>2. CASE Proceed("invalidate") \/ Proceed("acquired")
    BY <1>9, <2>2, ResponseFrame DEF Acquire, Proceed
  <2> QED  BY <1>9, <2>1, <2>2 DEF Acquire
<1>10. CASE InvalidateCache
  <2>1. CASE Refuse("CACHE")
    BY <2>1, RefusalIsHonest
  <2>2. CASE Proceed("ops")
    BY <1>10, <2>2, ResponseFrame DEF InvalidateCache, Proceed
  <2> QED  BY <1>10, <2>1, <2>2 DEF InvalidateCache
<1>11. CASE NextOp
  <2> DEFINE s == OpStatus(batch.ops[Len(results) + 1])
  <2>1. /\ at = "ops" /\ Len(results) < Len(batch.ops) /\ results' = Append(results, s)
        /\ UNCHANGED <<batch, rsp>>
    BY <1>11 DEF NextOp
  <2>2. s \in {"NO_KERNEL", "INVAL_PARAMS", "INTERNAL"}
    BY DEF OpStatus
  <2>3. \/ s = "INTERNAL" /\ at' = "kernel" /\ status' = status
        \/ s # "INTERNAL" /\ at' = "flush" /\ status' = s
    BY <1>11 DEF NextOp
  <2>4. Len(batch.ops) \in Nat
    BY NoBatchTyped DEF ResponseInv
  <2> HIDE DEF s
  <2>5. ResultsHonest'
    BY <2>1, <2>2, <2>3, <2>4 DEF ResponseInv, ResultsHonest, OpResults
  <2> QED  BY <2>1, <2>5 DEF ResponseInv, ResponseHonest
<1>12. CASE LastOpDone
  <2>1. ResultsHonest'
    BY <1>12 DEF LastOpDone, ResponseInv, ResultsHonest
  <2> QED  BY <1>12, <2>1 DEF LastOpDone, ResponseInv, ResponseHonest
<1>13. CASE KernelSucceeds \/ KernelFails
  <2>1. PICK r \in {"OK", "REQUIRES"} :
          /\ at = "kernel" /\ UNCHANGED <<batch, rsp>>
          /\ results' = [results EXCEPT ![Len(results)] = r]
          /\ \/ r = "OK" /\ status' = "VTCM_RECLAIMED" /\ at' = "reclaim"
             \/ r = "OK" /\ status' = status /\ at' = "ops"
             \/ r = "REQUIRES" /\ status' = r /\ at' = "flush"
    BY <1>13 DEF KernelSucceeds, KernelFails
  <2>2. Len(batch.ops) \in Nat
    BY NoBatchTyped DEF ResponseInv
  <2>3. ResultsHonest'
    BY <2>1, <2>2 DEF ResponseInv, ResultsHonest, OpResults
  <2> QED  BY <2>1, <2>3 DEF ResponseInv, ResponseHonest
<1>14. CASE Reply
  <2>1. PICK s :
          /\ s = status \/ (status = "OK" /\ s = "CACHE")
          /\ rsp' = [status |-> s, results |-> results, batch |-> batch, before |-> snap]
          /\ at' = "idle" /\ batch' = NoBatch /\ results' = << >> /\ status' = "OK"
    BY <1>14 DEF Reply, Return, Response
  <2>2. ResultsHonest'
    BY <2>1 DEF ResultsHonest, NoBatch
  <2>3. ResponseHonest'
    BY <1>14, <2>1 DEF Reply, ResponseInv, ResultsHonest, ResponseHonest, OpResults
  <2> QED  BY <2>1, <2>2, <2>3 DEF ResponseInv
<1>15. CASE UNCHANGED vars
  BY <1>15, ResponseFrame DEF vars
<1> QED
  BY <1>1, <1>2, <1>3, <1>4, <1>5, <1>6, <1>7, <1>8, <1>9, <1>10, <1>11, <1>12,
     <1>13, <1>14, <1>15
  DEF SkelNext, DspStep, HostStep, CacheStep

(* A response never claims more than was done: OK only when every op       *)
(* returned OK, and otherwise a prefix of successes and the reason.        *)
THEOREM ResponseAlwaysHonest == SkelSpec => []ResponseHonest
<1>1. ResponseInv => ResponseHonest
  BY DEF ResponseInv
<1> QED  BY <1>1, ResponseInvInit, ResponseInvStep, PTL DEF SkelSpec

-----------------------------------------------------------------------------
(* The rest of the type invariant. *)

(* The assumption's bounds as separate facts: the provers lose them inside *)
(* the big conjunction.                                                    *)
LEMMA BoundsAreNat ==
  /\ MaxInvokes \in Nat /\ 0 \in 0 .. MaxInvokes
  /\ CellsPerBuf \in Nat
  /\ \A size \in Sizes : size \in Nat /\ size <= CellsPerBuf
<1>1. MaxInvokes \in Nat /\ CellsPerBuf \in Nat /\ Sizes \subseteq 1 .. CellsPerBuf
  BY SkelAssumption
<1> QED  BY <1>1

CountersTyped == started \in BOOLEAN /\ invokes \in 0 .. MaxInvokes

(* The invoke counter and the batch in flight stay within their types.     *)
LEMMA CountersStep == CountersTyped /\ [SkelNext]_vars => CountersTyped'
<1> SUFFICES ASSUME CountersTyped, [SkelNext]_vars PROVE CountersTyped'
  OBVIOUS
<1> USE DEF CountersTyped
<1>1. CASE Open \/ Start
  BY <1>1, BoundsAreNat DEF Open, Start
<1>2. ASSUME NEW b \in Batches, Invoke(b) PROVE CountersTyped'
  BY <1>2, BoundsAreNat DEF Invoke
<1>3. CASE DspStep
  BY <1>3 DEF DspStep, LeaveRelease, LeaveFree, Dispatch, Acquire, Acquired,
     InvalidateCache, NextOp, LastOpDone, KernelSucceeds, KernelFails, Reclaim, Reply
<1>4. CASE /\ HostStep \/ ManagerStep \/ CacheStep
           /\ ~Open /\ ~Start /\ \A b \in Batches : ~Invoke(b)
  BY <1>4 DEF HostStep, Stop, Close, Leave, UnmapBuffer, MapBuffer, HostWrites,
     ManagerStep, GrantRival, BesideTheThread, CacheStep, Evict, Prefetch
<1>5. CASE UNCHANGED vars
  BY <1>5 DEF vars
<1> QED  BY <1>1, <1>2, <1>3, <1>4, <1>5 DEF SkelNext, HostStep

(* The control state is well typed, and an op has a failure as its result  *)
(* for as long as its kernel has not returned.                             *)
THEOREM SkelTypeCorrect == SkelSpec => []SkelTypeOK
<1>1. SkelInit => CountersTyped
  BY BoundsAreNat DEF SkelInit, CountersTyped
<1>2. ControlInv /\ ResponseInv /\ CountersTyped => SkelTypeOK
  <2> SUFFICES ASSUME ControlInv, ResponseInv, CountersTyped PROVE SkelTypeOK
    OBVIOUS
  <2>1. VtcmTypeOK /\ at \in Controls /\ phase \in {"closed", "open", "started", "stopped"}
    BY DEF ControlInv
  <2>2. /\ batch \in Batches \union {NoBatch}
        /\ results \in Seq({"OK", "INTERNAL", "REQUIRES", "NO_KERNEL", "INVAL_PARAMS"})
        /\ at = "kernel" => results # << >> /\ results[Len(results)] = "INTERNAL"
    BY DEF ResponseInv, ResultsHonest, OpResults
  <2> QED  BY <2>1, <2>2 DEF SkelTypeOK, CountersTyped
<1> QED
  BY <1>1, <1>2, ControlInvariant, ResponseInvInit, ResponseInvStep, CountersStep, PTL
  DEF SkelSpec

-----------------------------------------------------------------------------
(* The data cache. *)

(* Lines and memory cover the cells, and no clean line is stale while      *)
(* kernels run.                                                            *)
CacheInv ==
  /\ line = [c \in Cells |-> line[c]]
  /\ ddr = [c \in Cells |-> ddr[c]]
  /\ NoStaleLine

(* An empty cache is coherent.                                             *)
LEMMA CacheInvInit == SkelInit => CacheInv
BY DEF SkelInit, CacheInv, NoStaleLine, NoMemory

(* The cells of the mapped buffers are cells.                              *)
LEMMA MappedAreCells ==
  ASSUME BufsInv
  PROVE  MappedCells(Occupied) \subseteq Cells
<1>1. ASSUME NEW s \in Occupied PROVE SlotCells(s) \subseteq Cells
  <2>1. mmap[s] \in Slot /\ mmap[s] # FreeSlot
    BY DEF BufsInv, BufsTypeOK, Occupied, FreeSlot
  <2>2. mmap[s].fd \in Fds /\ mmap[s].size \in Sizes
    BY <2>1 DEF Slot
  <2>3. mmap[s].size \in Nat /\ CellsPerBuf \in Nat /\ mmap[s].size <= CellsPerBuf
    BY <2>2, BoundsAreNat
  <2> QED  BY <2>2, <2>3 DEF SlotCells, Cells
<1> QED  BY <1>1 DEF MappedCells

(* A step that leaves the table alone leaves the set of mapped cells       *)
(* alone.                                                                  *)
LEMMA MappedUnchanged ==
  ASSUME UNCHANGED mmap
  PROVE  MappedCells(Occupied)' = MappedCells(Occupied)
BY DEF MappedCells, SlotCells, Occupied

(* Outside the op loop only the shapes of memory and cache matter.         *)
LEMMA CacheOutsideLoop ==
  ASSUME at' \notin {"ops", "kernel"},
         line' = [c \in Cells |-> line'[c]], ddr' = [c \in Cells |-> ddr'[c]]
  PROVE  CacheInv'
BY DEF CacheInv, NoStaleLine

(* A step that changes neither memory, cache nor table cannot make a line  *)
(* stale as long as the invalidate is not skipped.                         *)
LEMMA CacheFrame ==
  ASSUME CacheInv, UNCHANGED <<mmap, memVars>>,
         at' \in {"ops", "kernel"} => at \in {"ops", "kernel"}
  PROVE  CacheInv'
<1>1. MappedCells(Occupied)' = MappedCells(Occupied)
  BY MappedUnchanged
<1> QED  BY <1>1 DEF CacheInv, NoStaleLine, memVars

(* A kernel's writes are dirty lines and its reads fetch what memory       *)
(* holds: neither leaves a clean line that differs from memory.            *)
LEMMA KernelWritesCoherent ==
  ASSUME BufsInv, CacheInv, at = "kernel", UNCHANGED mmap,
         NEW op, NEW cells, NEW value, KernelWrites(op, cells, value)
  PROVE  CacheInv'
<1>1. MappedCells(Occupied)' = MappedCells(Occupied)
  BY MappedUnchanged
<1>2. /\ line' = [c \in Cells |-> CASE c \in cells -> value
                                    [] c \in Sources(op) \ cells -> Read(c)
                                    [] OTHER -> line[c]]
      /\ dirty' = dirty \union cells /\ ddr' = ddr
  BY DEF KernelWrites
<1>3. ASSUME NEW c \in MappedCells(Occupied), c \in Cells,
             line'[c] # NoLine, c \notin dirty'
      PROVE  line'[c] = ddr'[c]
  <2>1. c \notin cells /\ c \notin dirty
    BY <1>2, <1>3
  <2>2. line[c] # NoLine => line[c] = ddr[c]
    BY <2>1 DEF CacheInv, NoStaleLine
  <2>3. line'[c] = Read(c) \/ line'[c] = line[c]
    BY <1>2, <1>3, <2>1
  <2> QED  BY <1>2, <1>3, <2>2, <2>3 DEF Read
<1>4. line' = [c \in Cells |-> line'[c]] /\ ddr' = [c \in Cells |-> ddr'[c]]
  BY <1>2 DEF CacheInv
<1> QED  BY <1>1, <1>3, <1>4, MappedAreCells DEF CacheInv, NoStaleLine

(* Every step keeps the lines of mapped buffers coherent from the          *)
(* invalidate to the end of the op loop.                                   *)
LEMMA CacheInvStep ==
  ASSUME BufsInv, CacheInv, [SkelNext]_vars
  PROVE  CacheInv'
<1>1. CASE Open
  BY <1>1, CacheOutsideLoop DEF Open, NoMemory
<1>2. CASE Start \/ Stop \/ Close \/ LeaveRelease \/ LeaveFree
  BY <1>2, CacheFrame DEF Start, Stop, Close, Leave, LeaveRelease, LeaveFree, bufVars
<1>3. ASSUME NEW fd \in Fds, NEW size \in Sizes, MapBuffer(fd, size)
      PROVE  CacheInv'
  BY <1>3, CacheOutsideLoop DEF MapBuffer, memVars, CacheInv
<1>4. ASSUME NEW fd \in Fds, UnmapBuffer(fd)
      PROVE  CacheInv'
  BY <1>4, CacheOutsideLoop DEF UnmapBuffer, memVars, CacheInv
<1>5. ASSUME NEW c \in Cells, HostWrites(c)
      PROVE  CacheInv'
  BY <1>5, CacheOutsideLoop DEF HostWrites, CacheInv
<1>6. ASSUME NEW c \in Cells, Evict(c)
      PROVE  CacheInv'
  <2>1. MappedCells(Occupied)' = MappedCells(Occupied)
    BY <1>6, MappedUnchanged DEF Evict, bufVars
  <2>2. ASSUME at \in {"ops", "kernel"}, NEW d \in MappedCells(Occupied), d \in Cells,
               line'[d] # NoLine, d \notin dirty'
        PROVE  line'[d] = ddr'[d]
    <3>1. d # c /\ line'[d] = line[d] /\ ddr'[d] = ddr[d] /\ d \notin dirty
      BY <1>6, <2>2 DEF Evict, CacheInv
    <3> QED  BY <2>2, <3>1 DEF CacheInv, NoStaleLine
  <2>3. line' = [d \in Cells |-> line'[d]] /\ ddr' = [d \in Cells |-> ddr'[d]]
    BY <1>6 DEF Evict, CacheInv
  <2>4. at' = at
    BY <1>6 DEF Evict
  <2> QED  BY <2>1, <2>2, <2>3, <2>4, MappedAreCells DEF CacheInv, NoStaleLine
<1>7. ASSUME NEW c \in Cells, Prefetch(c)
      PROVE  CacheInv'
  <2>1. MappedCells(Occupied)' = MappedCells(Occupied)
    BY <1>7, MappedUnchanged DEF Prefetch, bufVars
  <2>2. /\ line' = [line EXCEPT ![c] = ddr[c]]
        /\ UNCHANGED <<at, ddr, dirty>>
    BY <1>7 DEF Prefetch
  <2>3. line' = [d \in Cells |-> line'[d]]
    BY <2>2 DEF CacheInv
  <2> QED  BY <2>1, <2>2, <2>3 DEF CacheInv, NoStaleLine
<1>8. CASE ManagerStep
  BY <1>8, CacheFrame DEF ManagerStep, GrantRival, BesideTheThread, bufVars
<1>9. ASSUME NEW b \in Batches, Invoke(b)
      PROVE  CacheInv'
  BY <1>9, CacheFrame DEF Invoke, bufVars
<1>10. CASE Dispatch \/ Acquire \/ Acquired
  <2>1. at' \notin {"ops", "kernel"} /\ UNCHANGED <<mmap, memVars>>
    BY <1>10 DEF Dispatch, Prologue, Acquire, Acquired, Refuse, Return, Proceed, bufVars
  <2> QED  BY <2>1, CacheFrame
<1>11. CASE InvalidateCache
  <2>1. CASE at' = "ops"
    <3>1. Invalidate({}) /\ UNCHANGED bufVars
      BY <1>11, <2>1 DEF InvalidateCache, Refuse, Return
    <3>2. MappedCells(Occupied)' = MappedCells(Occupied)
      BY <3>1, MappedUnchanged DEF bufVars
    <3>3. /\ line' = [c \in Cells |-> IF c \in MappedCells(Occupied \ {})
                                       THEN NoLine ELSE line[c]]
          /\ ddr' = ddr
      BY <3>1 DEF Invalidate
    <3>4. Occupied \ {} = Occupied
      OBVIOUS
    <3>5. \A c \in MappedCells(Occupied) : line'[c] = NoLine
      BY <3>3, <3>4, MappedAreCells
    <3>6. line' = [c \in Cells |-> line'[c]]
      BY <3>3
    <3> QED  BY <3>2, <3>3, <3>5, <3>6 DEF CacheInv, NoStaleLine
  <2>2. CASE at' = "idle"
    <3>1. line' = [c \in Cells |-> line'[c]] /\ ddr' = ddr
      BY <1>11 DEF InvalidateCache, Invalidate
    <3> QED  BY <2>2, <3>1, CacheOutsideLoop DEF CacheInv
  <2> QED  BY <1>11, <2>1, <2>2 DEF InvalidateCache, Refuse, Return, Proceed
<1>12. CASE NextOp \/ LastOpDone \/ Reclaim
  BY <1>12, CacheFrame DEF NextOp, LastOpDone, Reclaim, bufVars
<1>13. CASE KernelSucceeds
  BY <1>13, KernelWritesCoherent DEF KernelSucceeds, bufVars
<1>14. CASE KernelFails
  BY <1>14, KernelWritesCoherent DEF KernelFails, bufVars
<1>15. CASE Reply
  <2>1. /\ at' = "idle" /\ line' = line
        /\ ddr' = [c \in Cells |-> ddr'[c]]
    BY <1>15 DEF Reply, Flush, Return
  <2> QED  BY <2>1, CacheOutsideLoop DEF CacheInv
<1>16. CASE UNCHANGED vars
  BY <1>16, CacheFrame DEF vars, bufVars
<1> QED
  BY <1>1, <1>2, <1>3, <1>4, <1>5, <1>6, <1>7, <1>8, <1>9, <1>10, <1>11, <1>12,
     <1>13, <1>14, <1>15, <1>16
  DEF SkelNext, DspStep, HostStep, CacheStep

(* While kernels run, no clean line of a mapped buffer differs from memory,*)
(* whatever the cache evicts or prefetches meanwhile: invalidating once,   *)
(* before the first op, is enough.                                         *)
THEOREM NeverAStaleLine == SkelSpec => []NoStaleLine
<1>1. BufsInv /\ CacheInv /\ [SkelNext]_vars => CacheInv'
  BY CacheInvStep
<1>2. CacheInv => NoStaleLine
  BY DEF CacheInv
<1> QED  BY <1>1, <1>2, CacheInvInit, BatchAddressesSound, PTL DEF SkelSpec

-----------------------------------------------------------------------------
(* What memory holds.                                                      *)

InLoop == {"ops", "kernel", "reclaim", "flush"}
BeforeLoop == {"dispatch", "acquire", "acquired", "invalidate"}
Prologued == {"acquire", "acquired", "invalidate"} \union InLoop

(* Memory as it would be if every dirty line were written back.            *)
Content == [c \in Cells |-> IF c \in dirty THEN line[c] ELSE ddr[c]]

(* AfterBatch, op by op. *)
AfterOps(b, mem) ==
  LET after[n \in 0 .. Len(b.ops)] ==
        IF n = 0 THEN mem ELSE AfterOp(b, b.ops[n], after[n - 1])
  IN  after

(* The ops whose effect is in memory or in the cache: the one whose kernel *)
(* is running has a result already, but has written nothing.               *)
Completed == IF at = "kernel" THEN Len(results) - 1 ELSE Len(results)

(* A dirty line is a line that is held. *)
MemoryTyped ==
  /\ ddr \in [Cells -> SUBSET Marks]
  /\ line \in [Cells -> (SUBSET Marks) \union {NoLine}]
  /\ dirty \subseteq Cells
  /\ \A c \in dirty : line[c] # NoLine

(* The addresses a batch was given are the cells its descriptors name, and *)
(* the invalidate and the flush reach them.                                *)
Placed(b) ==
  \A i \in DOMAIN b.tens :
    /\ TensorCells(work.tens[i]) = NamedCells(b, i)
    /\ NamedCells(b, i) \subseteq MappedCells(Occupied)

(* What a call in flight has passed: nothing the host has not acted on is  *)
(* around, the batch was let in, and the op whose kernel runs is one the   *)
(* table has, with operands of the batch.                                  *)
BatchAccepted ==
  /\ at # "idle" => rsp = NoRsp
  /\ at \in BeforeLoop \union InLoop => InvokeStatus(batch) = "OK"
  /\ at \in Prologued => Faults(batch) = {} /\ Placed(batch)
  /\ at = "kernel" => CurrentOp.kind \in KernelTable /\ OperandsOK(CurrentOp)

(* Outside the op loop nothing waits to be written back, and in it only    *)
(* lines that the flush will reach.                                        *)
DirtyConfined ==
  ~flushFailed =>
    dirty \subseteq (IF at \in InLoop THEN MappedCells(Occupied) ELSE {})

(* Until the op loop memory is as the host left it; in the loop, and when  *)
(* it ended well, it is what the completed ops make of that.               *)
MemoryFollows ==
  ~flushFailed =>
    /\ at \in BeforeLoop => ddr = snap
    /\ at \in {"ops", "kernel"} \/ (at \in {"reclaim", "flush"} /\ status = "OK") =>
         Content = AfterOps(batch, snap)[Completed]

(* The recursive definition of the model means what it says: such a        *)
(* function exists.                                                        *)
LEMMA AfterOpsFacts ==
  ASSUME NEW b, Len(b.ops) \in Nat, NEW mem
  PROVE  /\ AfterBatch(b, mem) = AfterOps(b, mem)[Len(b.ops)]
         /\ AfterOps(b, mem)[0] = mem
         /\ \A n \in 1 .. Len(b.ops) :
              AfterOps(b, mem)[n] = AfterOp(b, b.ops[n], AfterOps(b, mem)[n - 1])
<1> DEFINE L == Len(b.ops)
           step(n, v) == AfterOp(b, b.ops[n], v)
           Is(f, m) == f = [n \in 0 .. m |-> IF n = 0 THEN mem ELSE step(n, f[n - 1])]
           A == {m \in Nat : \E f : Is(f, m)}
<1> HIDE DEF step
<1>1. 0 \in A
  <2> DEFINE f == [n \in 0 .. 0 |-> mem]
  <2>1. Is(f, 0)  OBVIOUS
  <2> QED  BY <2>1
<1>2. ASSUME NEW m \in Nat, m \in A PROVE m + 1 \in A
  <2>1. PICK f : Is(f, m)  BY <1>2
  <2> DEFINE g == [n \in 0 .. m + 1 |-> IF n <= m THEN f[n] ELSE step(n, f[m])]
  <2>2. \A n \in 0 .. m : f[n] = IF n = 0 THEN mem ELSE step(n, f[n - 1])  BY <2>1
  <2>3. \A n \in 0 .. m : g[n] = f[n]  OBVIOUS
  <2>4. \A n \in 0 .. m + 1 : g[n] = IF n = 0 THEN mem ELSE step(n, g[n - 1])
    <3> SUFFICES ASSUME NEW n \in 0 .. m + 1
                 PROVE  g[n] = IF n = 0 THEN mem ELSE step(n, g[n - 1])
      OBVIOUS
    <3>1. CASE n <= m
      <4>1. n \in 0 .. m /\ g[n] = f[n]  BY <3>1
      <4>2. n # 0 => g[n - 1] = f[n - 1]  BY <3>1
      <4> HIDE DEF g
      <4> QED  BY <2>2, <4>1, <4>2
    <3>2. CASE n = m + 1
      <4>1. g[n] = step(n, f[m])  BY <3>2
      <4>2. g[n - 1] = f[m] /\ n # 0  BY <3>2
      <4> HIDE DEF g
      <4> QED  BY <4>1, <4>2
    <3> QED  BY <3>1, <3>2
  <2>5. g = [n \in 0 .. m + 1 |-> g[n]]  OBVIOUS
  <2> HIDE DEF g
  <2>6. Is(g, m + 1)  BY <2>4, <2>5
  <2> QED  BY <2>6
<1>3. L \in A
  <2> HIDE DEF A
  <2> QED  BY <1>1, <1>2, NatSetInduction
<1>4. \E f : Is(f, L)  BY <1>3
<1>5. AfterOps(b, mem) = CHOOSE f : Is(f, L)
  BY DEF AfterOps, step
<1> DEFINE h == AfterOps(b, mem)
<1>6. Is(h, L)
  BY <1>4, <1>5
<1>7. AfterBatch(b, mem) = h[L]
  BY DEF AfterBatch, AfterOps
<1>8. L \in Nat  OBVIOUS
<1> HIDE DEF h, L
<1>9. h[0] = mem /\ \A n \in 1 .. L : h[n] = step(n, h[n - 1])  BY <1>6, <1>8
<1> QED  BY <1>7, <1>9 DEF h, L, step

(* A step either leaves memory and cache alone or is one of eight.         *)
LEMMA MemorySteps ==
  ASSUME [SkelNext]_vars
  PROVE  \/ UNCHANGED memVars
         \/ Open \/ InvalidateCache \/ KernelSucceeds \/ KernelFails \/ Reply
         \/ \E c \in Cells : HostWrites(c) \/ Evict(c) \/ Prefetch(c)
BY DEF SkelNext, DspStep, HostStep, ManagerStep, CacheStep, LeaveRelease, LeaveFree,
   Dispatch, Acquire, Acquired, NextOp, LastOpDone, Reclaim, Start, Stop, Close,
   Leave, MapBuffer, UnmapBuffer, Invoke, GrantRival, BesideTheThread, vars

(* Where the running kernel reads and writes: the cells its operands name, *)
(* all of them mapped.                                                     *)
LEMMA KernelOperands ==
  ASSUME BufsInv, ResponseInv, BatchAccepted, at = "kernel"
  PROVE  /\ Len(results) \in 1 .. Len(batch.ops)
         /\ CurrentOp.kind \in KernelTable
         /\ Sources(CurrentOp) = UNION {NamedCells(batch, i) : i \in Elements(CurrentOp.src)}
         /\ Targets(CurrentOp) = UNION {NamedCells(batch, i) : i \in Elements(CurrentOp.dst)}
         /\ Sources(CurrentOp) \subseteq MappedCells(Occupied)
         /\ Targets(CurrentOp) \subseteq MappedCells(Occupied)
         /\ MappedCells(Occupied) \subseteq Cells
<1>1. Len(batch.ops) \in Nat /\ Len(results) \in Nat
  BY NoBatchTyped DEF ResponseInv, ResultsHonest
<1>2. Len(results) > 0 /\ Len(results) <= Len(batch.ops)
  BY DEF ResponseInv, ResultsHonest
<1>3. CurrentOp.kind \in KernelTable /\ OperandsOK(CurrentOp)
  BY DEF BatchAccepted
<1>4. Elements(CurrentOp.src) \union Elements(CurrentOp.dst) \subseteq DOMAIN batch.tens
  BY <1>3 DEF OperandsOK
<1>5. \A i \in DOMAIN batch.tens :
        /\ TensorCells(work.tens[i]) = NamedCells(batch, i)
        /\ NamedCells(batch, i) \subseteq MappedCells(Occupied)
  BY DEF BatchAccepted, Placed, Prologued, InLoop
<1>6. ASSUME NEW I, I \subseteq DOMAIN batch.tens
      PROVE  /\ OpCells(I) = UNION {NamedCells(batch, i) : i \in I}
             /\ OpCells(I) \subseteq MappedCells(Occupied)
  BY <1>5, <1>6 DEF OpCells
<1>7. /\ Sources(CurrentOp) = OpCells(Elements(CurrentOp.src))
      /\ Targets(CurrentOp) = OpCells(Elements(CurrentOp.dst))
  BY DEF Sources, Targets
<1>8. /\ OpCells(Elements(CurrentOp.src)) = UNION {NamedCells(batch, i) : i \in Elements(CurrentOp.src)}
      /\ OpCells(Elements(CurrentOp.src)) \subseteq MappedCells(Occupied)
  BY <1>4, <1>6
<1>9. /\ OpCells(Elements(CurrentOp.dst)) = UNION {NamedCells(batch, i) : i \in Elements(CurrentOp.dst)}
      /\ OpCells(Elements(CurrentOp.dst)) \subseteq MappedCells(Occupied)
  BY <1>4, <1>6
<1>10. Len(results) \in 1 .. Len(batch.ops)
  BY <1>1, <1>2
<1> QED  BY <1>3, <1>7, <1>8, <1>9, <1>10, MappedAreCells

(* A value is never mistaken for a missing line. *)
LEMMA NoLineIsNoValue == \A v \in SUBSET Marks : v # NoLine
<1>1. \A v \in SUBSET Marks : v # NoLine
  BY SkelAssumption
<1> QED  BY <1>1

(* What the running kernel writes is a value, and so is what it fetches.   *)
LEMMA KernelWritesTyped ==
  ASSUME MemoryTyped, NEW op, NEW cells, NEW value, KernelWrites(op, cells, value),
         cells \subseteq Cells, Sources(op) \subseteq Cells, value \in SUBSET Marks
  PROVE  MemoryTyped'
<1>1. \A c \in Cells : Read(c) \in SUBSET Marks
  BY DEF MemoryTyped, Read
<1>2. /\ line' = [c \in Cells |-> CASE c \in cells -> value
                                    [] c \in Sources(op) \ cells -> Read(c)
                                    [] OTHER -> line[c]]
      /\ dirty' = dirty \union cells /\ ddr' = ddr
  BY DEF KernelWrites
<1>3. \A c \in Cells : line'[c] \in {value, Read(c), line[c]}
  BY <1>2
<1>4. \A c \in cells : line'[c] = value
  BY <1>2
<1>5. \A c \in dirty : line'[c] \in {value, line[c]}
  BY <1>2 DEF Read, MemoryTyped
<1>6. value # NoLine
  BY NoLineIsNoValue
<1>7. line' \in [Cells -> (SUBSET Marks) \union {NoLine}]
  BY <1>1, <1>2, <1>3 DEF MemoryTyped
<1>8. \A c \in dirty' : line'[c] # NoLine
  BY <1>2, <1>4, <1>5, <1>6 DEF MemoryTyped
<1> QED  BY <1>2, <1>7, <1>8 DEF MemoryTyped

(* Memory and cache hold values. *)
LEMMA MemoryTypedStep ==
  ASSUME BufsInv, ResponseInv, CountersTyped, BatchAccepted, MemoryTyped,
         [SkelNext]_vars
  PROVE  MemoryTyped'
<1>1. CASE UNCHANGED memVars
  BY <1>1 DEF memVars, MemoryTyped
<1>2. CASE Open
  BY <1>2 DEF Open, MemoryTyped, NoMemory
<1>3. ASSUME NEW c \in Cells, HostWrites(c) PROVE MemoryTyped'
  <2>1. {invokes} \in SUBSET Marks
    BY DEF CountersTyped, Marks
  <2> QED  BY <1>3, <2>1 DEF HostWrites, MemoryTyped
<1>4. ASSUME NEW c \in Cells, Evict(c) PROVE MemoryTyped'
  BY <1>4 DEF Evict, MemoryTyped
<1>5. ASSUME NEW c \in Cells, Prefetch(c) PROVE MemoryTyped'
  BY <1>5, NoLineIsNoValue DEF Prefetch, MemoryTyped
<1>6. CASE InvalidateCache
  <2>1. PICK failing : Invalidate(failing)
    BY <1>6 DEF InvalidateCache
  <2> DEFINE done == MappedCells(Occupied \ failing)
  <2>2. /\ line' = [c \in Cells |-> IF c \in done THEN NoLine ELSE line[c]]
        /\ dirty' = dirty \ done /\ ddr' = ddr
    BY <2>1 DEF Invalidate
  <2> HIDE DEF done
  <2> QED  BY <2>2 DEF MemoryTyped
<1>7. CASE Reply
  <2>1. PICK failing : Flush(failing)
    BY <1>7 DEF Reply
  <2> DEFINE done == MappedCells(Occupied \ failing)
  <2>2. /\ ddr' = [c \in Cells |-> IF c \in done \cap dirty THEN line[c] ELSE ddr[c]]
        /\ dirty' = dirty \ done /\ line' = line
    BY <2>1 DEF Flush
  <2> HIDE DEF done
  <2> QED  BY <2>2 DEF MemoryTyped
<1>8. CASE KernelSucceeds
  <2> DEFINE value == KernelValue(CurrentOp, {Read(c) : c \in Sources(CurrentOp)})
  <2>1. at = "kernel" /\ KernelWrites(CurrentOp, Targets(CurrentOp), value)
    BY <1>8 DEF KernelSucceeds
  <2>2. /\ CurrentOp.kind \in Marks
        /\ Targets(CurrentOp) \subseteq Cells /\ Sources(CurrentOp) \subseteq Cells
    BY <2>1, KernelOperands DEF Marks
  <2>3. \A c \in Cells : Read(c) \in SUBSET Marks
    BY DEF MemoryTyped, Read
  <2>4. value \in SUBSET Marks
    BY <2>2, <2>3 DEF KernelValue
  <2> HIDE DEF value
  <2> QED  BY <2>1, <2>2, <2>4, KernelWritesTyped
<1>9. CASE KernelFails
  <2>1. PICK cells \in SUBSET Targets(CurrentOp) : KernelWrites(CurrentOp, cells, {Junk})
    BY <1>9 DEF KernelFails
  <2>2. at = "kernel"
    BY <1>9 DEF KernelFails
  <2>3. Targets(CurrentOp) \subseteq Cells /\ Sources(CurrentOp) \subseteq Cells
    BY <2>2, KernelOperands
  <2>4. {Junk} \in SUBSET Marks
    BY DEF Marks
  <2> QED  BY <2>1, <2>3, <2>4, KernelWritesTyped
<1> QED
  BY <1>1, <1>2, <1>3, <1>4, <1>5, <1>6, <1>7, <1>8, <1>9, MemorySteps

(* A prologue that reports OK has put every tensor where its descriptor    *)
(* says, inside a mapped buffer.                                           *)
LEMMA ProloguePlaces ==
  ASSUME BufsInv, NEW b, b.bufs \in Seq(BufDesc), b.tens \in Seq(TenDesc),
         Prologue(b.bufs, b.tens), work'.rc = "OK"
  PROVE  Placed(b)'
<1> DEFINE mapped == [k \in DOMAIN b.bufs |-> Mapped(b.bufs[k])]
<1>1. /\ \A j \in DOMAIN b.bufs : MapStatus(b.bufs[j]) = "OK"
      /\ \A j \in DOMAIN b.tens : ResolveStatus(b.tens[j], mapped) = "OK"
      /\ work'.tens = [j \in DOMAIN b.tens |-> Resolved(b.tens[j], mapped)]
  BY PrologueAccepts
<1>2. UNCHANGED <<mmap, osmap>>
  BY DEF Prologue
<1>3. MappedCells(Occupied)' = MappedCells(Occupied)
  BY <1>2, MappedUnchanged
<1>4. ASSUME NEW i \in DOMAIN b.tens
      PROVE  /\ TensorCells(work.tens[i])' = NamedCells(b, i)
             /\ NamedCells(b, i) \subseteq MappedCells(Occupied)
  <2>1. PICK t \in TenDesc : t = b.tens[i]
    OBVIOUS
  <2>2. t.bi \in DOMAIN b.bufs /\ t.offset + t.nbytes <= mapped[t.bi].size
    BY <1>1, <2>1 DEF ResolveStatus, InBounds
  <2>3. PICK d \in BufDesc : d = b.bufs[t.bi] /\ MapStatus(d) = "OK" /\ mapped[t.bi] = Mapped(d)
    BY <1>1, <2>2
  <2>4. work'.tens[i] = [va |-> Mapped(d).base, offset |-> t.offset, nbytes |-> t.nbytes]
    <3>1. work'.tens[i] = Resolved(t, mapped)
      BY <1>1, <2>1
    <3> QED  BY <2>3, <3>1 DEF Resolved
  <2>5. /\ osmap[Mapped(d).base].fd = d.fd /\ Mapped(d).size = d.size
    BY <2>3, MappedDescriptorSound
  <2>6. TensorCells(work.tens[i])' = {<<d.fd, o>> : o \in t.offset .. t.offset + t.nbytes - 1}
    BY <1>2, <2>4, <2>5 DEF TensorCells
  <2>7. NamedCells(b, i) = {<<d.fd, o>> : o \in t.offset .. t.offset + t.nbytes - 1}
    BY <2>1, <2>3 DEF NamedCells
  <2>8. PICK s \in Slots : s = FindByFd(d.fd) /\ mmap[s].size # 0 /\ mmap[s].fd = d.fd
    BY <2>3, FindByFdFinds DEF LookupFinds, MapStatus
  <2>9. s \in Occupied /\ mmap[s].size \in Nat
    <3>1. mmap[s] \in Slot /\ mmap[s] # FreeSlot
      BY <2>8 DEF BufsInv, BufsTypeOK, FreeSlot
    <3> QED  BY <2>8, <3>1, BufsAssumption DEF Occupied, Slot
  <2>10. ~(d.size > mmap[s].size)
    BY <2>3, <2>8 DEF MapStatus
  <2>11. /\ t.offset \in Nat /\ t.nbytes \in Nat /\ d.size \in Nat
         /\ t.offset + t.nbytes <= d.size
    BY <2>2, <2>3, <2>5 DEF TenDesc, BufDesc, Offsets
  <2>12. t.offset .. t.offset + t.nbytes - 1 \subseteq 0 .. mmap[s].size - 1
    BY <2>9, <2>10, <2>11
  <2>13. SlotCells(s) = {<<d.fd, o>> : o \in 0 .. mmap[s].size - 1}
    BY <2>8 DEF SlotCells
  <2>14. NamedCells(b, i) \subseteq SlotCells(s)
    BY <2>7, <2>12, <2>13
  <2>15. SlotCells(s) \subseteq MappedCells(Occupied)
    BY <2>9 DEF MappedCells
  <2> QED  BY <2>6, <2>7, <2>14, <2>15
<1>5. \A i : NamedCells(b, i)' = NamedCells(b, i)
  BY DEF NamedCells
<1> QED  BY <1>3, <1>4, <1>5 DEF Placed

(* What a batch was let in with lasts until its call returns: only a step  *)
(* of the call itself moves the thread, and the table does not change      *)
(* under it.                                                               *)
LEMMA AcceptedFrame ==
  ASSUME BatchAccepted, UNCHANGED <<mmap, osmap, work, batch, started, rsp>>,
         \/ at' = at /\ results' = results
         \/ at' = "idle"
         \/ at \notin {"idle", "dispatch"} /\ at' \in {"release", "free"}
         \/ /\ at \in Prologued /\ at' \in Prologued
            /\ at' = "kernel" => (CurrentOp.kind \in KernelTable /\ OperandsOK(CurrentOp))'
  PROVE  BatchAccepted'
<1>1. InvokeStatus(batch)' = InvokeStatus(batch)
  BY DEF InvokeStatus
<1>2. Faults(batch)' = Faults(batch)
  BY DEF Faults
<1>3. Placed(batch)' = Placed(batch)
  BY DEF Placed, TensorCells, NamedCells, MappedCells, Occupied, SlotCells
<1>4. results' = results =>
        (CurrentOp.kind \in KernelTable /\ OperandsOK(CurrentOp))'
          = (CurrentOp.kind \in KernelTable /\ OperandsOK(CurrentOp))
  BY DEF CurrentOp, OperandsOK
<1> QED
  BY <1>1, <1>2, <1>3, <1>4 DEF BatchAccepted, BeforeLoop, InLoop, Prologued

(* A call that is over has nothing left to be right about. *)
LEMMA AcceptedIdle ==
  ASSUME at' = "idle"
  PROVE  BatchAccepted'
BY DEF BatchAccepted, BeforeLoop, InLoop, Prologued

(* The header checks, and those hexlib_iface_invoke makes before them,     *)
(* leave no defect undetected.                                             *)
LEMMA NoFaultLeft ==
  ASSUME NEW b \in Batches \union {NoBatch}, InvokeStatus(b) = "OK",
         HeaderStatus(b) = "OK"
  PROVE  Faults(b) = {}
<1> DEFINE failed == {i \in DOMAIN HeaderChecks : HeaderChecks[i].fault \in Faults(b)}
<1>1. DOMAIN HeaderChecks = 1 .. 7
  BY DEF HeaderChecks
<1>2. failed = {}
  <2> SUFFICES ASSUME failed # {} PROVE FALSE
    OBVIOUS
  <2>1. First(failed) \in 1 .. 7
    BY <1>1, FirstIsMember
  <2>2. HeaderStatus(b) = HeaderChecks[First(failed)].status
    BY DEF HeaderStatus
  <2>3. \A i \in 1 .. 7 : HeaderChecks[i].status # "OK"
    BY DEF HeaderChecks
  <2> QED  BY <2>1, <2>2, <2>3
<1>3. b.faults \subseteq Defects
  BY SkelAssumption DEF BatchDesc, NoBatch
<1>4. "result_len" \notin b.faults /\ "batch_len" \notin b.faults
  BY DEF InvokeStatus
<1>5. "counts" \in Defects
  <2>1. HeaderChecks[5].fault = "counts" /\ 5 \in DOMAIN HeaderChecks
    BY DEF HeaderChecks
  <2> QED  BY <2>1 DEF Defects
<1>6. Faults(b) \subseteq {HeaderChecks[i].fault : i \in DOMAIN HeaderChecks}
  BY <1>3, <1>4, <1>5 DEF Faults, Defects
<1> QED  BY <1>2, <1>6

(* Every way into the op loop leads through the checks. *)
LEMMA BatchAcceptedStep ==
  ASSUME BufsInv, ResponseInv, BatchAccepted, [SkelNext]_vars
  PROVE  BatchAccepted'
<1>1. CASE LeaveFree \/ Reply \/ Open \/ Start
  BY <1>1, AcceptedIdle DEF LeaveFree, Reply, Return, Open, Start
<1>2. ASSUME NEW c \in Cells, HostWrites(c) PROVE BatchAccepted'
  BY <1>2, AcceptedIdle DEF HostWrites
<1>3. ASSUME NEW fd \in Fds, UnmapBuffer(fd) PROVE BatchAccepted'
  BY <1>3, AcceptedIdle DEF UnmapBuffer
<1>4. ASSUME NEW fd \in Fds, NEW size \in Sizes, MapBuffer(fd, size) PROVE BatchAccepted'
  BY <1>4, AcceptedIdle DEF MapBuffer
<1>5. CASE Stop \/ Close
  <2>1. at' \in {"release", "free"} /\ rsp' = NoRsp
    BY <1>5 DEF Stop, Close, Leave
  <2> QED  BY <2>1 DEF BatchAccepted, BeforeLoop, InLoop, Prologued
<1>6. CASE ManagerStep \/ UNCHANGED vars
  BY <1>6, AcceptedFrame DEF ManagerStep, GrantRival, BesideTheThread, vars, callVars, bufVars
<1>7. ASSUME NEW c \in Cells, Evict(c) \/ Prefetch(c) PROVE BatchAccepted'
  BY <1>7, AcceptedFrame DEF Evict, Prefetch, callVars, bufVars
<1>8. CASE LeaveRelease \/ Acquired \/ LastOpDone \/ Reclaim
  BY <1>8, AcceptedFrame DEF LeaveRelease, Acquired, LastOpDone, Reclaim, callVars, bufVars,
     Prologued, InLoop
<1>9. ASSUME NEW b \in Batches, Invoke(b) PROVE BatchAccepted'
  <2>1. CASE InvokeStatus(b) = "OK"
    <3>1. rsp' = NoRsp /\ at' = "dispatch" /\ batch' = b /\ started' = started
      BY <1>9, <2>1 DEF Invoke
    <3>2. InvokeStatus(batch)' = "OK"
      BY <2>1, <3>1 DEF InvokeStatus
    <3> QED  BY <3>1, <3>2 DEF BatchAccepted, Prologued, InLoop
  <2>2. CASE InvokeStatus(b) # "OK"
    BY <1>9, <2>2, AcceptedIdle DEF Invoke
  <2> QED  BY <2>1, <2>2
<1>10. CASE Dispatch
  <2>1. CASE at' = "idle"
    BY <2>1, AcceptedIdle
  <2>2. CASE at' # "idle"
    <3>1. /\ HeaderStatus(batch) = "OK" /\ Prologue(batch.bufs, batch.tens)
          /\ work'.rc = "OK" /\ at = "dispatch" /\ at' = "acquire"
          /\ UNCHANGED <<batch, rsp, started>>
      BY <1>10, <2>2 DEF Dispatch, Refuse, Return, Proceed, callVars
    <3>2. rsp = NoRsp /\ InvokeStatus(batch) = "OK"
      BY <3>1 DEF BatchAccepted, BeforeLoop
    <3>3. batch \in Batches \union {NoBatch}
      BY DEF ResponseInv
    <3>4. Faults(batch) = {}
      BY <3>1, <3>2, <3>3, NoFaultLeft
    <3>5. batch.bufs \in Seq(BufDesc) /\ batch.tens \in Seq(TenDesc)
      BY <3>3, NoBatchTyped
    <3>6. Placed(batch)'
      <4>1. PICK b : b = batch
        OBVIOUS
      <4>2. Placed(b)'
        BY <3>1, <3>5, <4>1, ProloguePlaces
      <4> QED  BY <3>1, <4>1, <4>2
    <3>7. InvokeStatus(batch)' = "OK" /\ Faults(batch)' = {}
      BY <3>1, <3>2, <3>4 DEF InvokeStatus, Faults
    <3> QED  BY <3>1, <3>2, <3>6, <3>7 DEF BatchAccepted
  <2> QED  BY <2>1, <2>2
<1>11. CASE Acquire \/ InvalidateCache
  <2>1. CASE at' = "idle"
    BY <2>1, AcceptedIdle
  <2>2. CASE at' # "idle"
    <3>1. /\ at \in Prologued /\ at' \in Prologued \ {"kernel"}
          /\ UNCHANGED <<mmap, osmap, work, batch, started, rsp>>
      BY <1>11, <2>2 DEF Acquire, InvalidateCache, Refuse, Return, Proceed, callVars,
         bufVars, Prologued, InLoop
    <3> QED  BY <3>1, AcceptedFrame
  <2> QED  BY <2>1, <2>2
<1>12. CASE NextOp
  <2> DEFINE n == Len(results) + 1
             s == OpStatus(batch.ops[n])
  <2>1. /\ at = "ops" /\ at' \in {"kernel", "flush"}
        /\ at' = "kernel" => s = "INTERNAL"
        /\ results' = Append(results, s)
        /\ UNCHANGED <<mmap, osmap, work, batch, started, rsp>>
    BY <1>12 DEF NextOp, bufVars
  <2>2. s = "INTERNAL" =>
          batch.ops[n].kind \in KernelTable /\ OperandsOK(batch.ops[n])
    BY DEF OpStatus
  <2>3. Len(results') = n
    <3>1. results \in Seq(OpResults)
      BY DEF ResponseInv, ResultsHonest
    <3> HIDE DEF s
    <3> QED  BY <2>1, <3>1
  <2>4. at' = "kernel" => (CurrentOp.kind \in KernelTable /\ OperandsOK(CurrentOp))'
    <3> HIDE DEF n, s
    <3> QED  BY <2>1, <2>2, <2>3 DEF CurrentOp, OperandsOK
  <2>5. at \in Prologued /\ at' \in Prologued
    BY <2>1 DEF Prologued, InLoop
  <2> QED  BY <2>1, <2>4, <2>5, AcceptedFrame
<1>13. CASE KernelSucceeds \/ KernelFails
  <2>1. /\ at \in Prologued /\ at' \in Prologued \ {"kernel"}
        /\ UNCHANGED <<mmap, osmap, work, batch, started, rsp>>
    BY <1>13 DEF KernelSucceeds, KernelFails, bufVars, Prologued, InLoop
  <2> QED  BY <2>1, AcceptedFrame
<1> QED
  BY <1>1, <1>2, <1>3, <1>4, <1>5, <1>6, <1>7, <1>8, <1>9, <1>10, <1>11, <1>12, <1>13
  DEF SkelNext, DspStep, HostStep, CacheStep

(* Where the thread is decides only whether lines may be dirty.            *)
LEMMA DirtyFrame ==
  ASSUME DirtyConfined, UNCHANGED <<dirty, flushFailed>>,
         at \in InLoop => at' \in InLoop /\ mmap' = mmap
  PROVE  DirtyConfined'
<1>1. CASE at \in InLoop
  <2>1. MappedCells(Occupied)' = MappedCells(Occupied)
    BY <1>1, MappedUnchanged
  <2> QED  BY <1>1, <2>1 DEF DirtyConfined
<1>2. CASE at \notin InLoop
  BY <1>2 DEF DirtyConfined
<1> QED  BY <1>1, <1>2

(* As long as no cache operation fails, the flush reaches every dirty line.*)
LEMMA DirtyConfinedStep ==
  ASSUME BufsInv, ResponseInv, BatchAccepted, MemoryTyped, DirtyConfined, [SkelNext]_vars
  PROVE  DirtyConfined'
<1>1. CASE UNCHANGED memVars /\ ~Reply
  <2>1. at \in InLoop => at' \in InLoop /\ mmap' = mmap
    <3>1. CASE DspStep
      BY <1>1, <3>1 DEF DspStep, LeaveRelease, LeaveFree, Dispatch, Acquire, Acquired,
         InvalidateCache, NextOp, LastOpDone, KernelSucceeds, KernelFails, Reclaim,
         InLoop, bufVars
    <3>2. CASE HostStep
      BY <3>2 DEF HostStep, Open, Start, Stop, Close, Leave, MapBuffer, UnmapBuffer,
         HostWrites, Invoke, InLoop
    <3>3. CASE ManagerStep \/ CacheStep \/ UNCHANGED vars
      BY <3>3 DEF ManagerStep, GrantRival, BesideTheThread, CacheStep, Evict, Prefetch,
         vars, bufVars
    <3> QED  BY <3>1, <3>2, <3>3 DEF SkelNext
  <2> QED  BY <1>1, <2>1, DirtyFrame DEF memVars
<1>2. CASE Open
  BY <1>2 DEF Open, DirtyConfined
<1>3. ASSUME NEW c \in Cells, HostWrites(c) PROVE DirtyConfined'
  BY <1>3, DirtyFrame DEF HostWrites, InLoop
<1>4. ASSUME NEW c \in Cells, Prefetch(c) PROVE DirtyConfined'
  BY <1>4, DirtyFrame DEF Prefetch, bufVars
<1>5. ASSUME NEW c \in Cells, Evict(c) PROVE DirtyConfined'
  <2>1. dirty' \subseteq dirty /\ UNCHANGED <<at, flushFailed, mmap>>
    BY <1>5 DEF Evict, bufVars
  <2>2. MappedCells(Occupied)' = MappedCells(Occupied)
    BY <2>1, MappedUnchanged
  <2> QED  BY <2>1, <2>2 DEF DirtyConfined
<1>6. CASE InvalidateCache
  <2>1. PICK failing \in SUBSET Occupied : Invalidate(failing)
    BY <1>6 DEF InvalidateCache
  <2>2. dirty' \subseteq dirty /\ (~flushFailed' => ~flushFailed)
    BY <2>1 DEF Invalidate
  <2>3. at \notin InLoop
    BY <1>6 DEF InvalidateCache, InLoop
  <2> QED  BY <2>2, <2>3 DEF DirtyConfined
<1>7. CASE Reply
  <2>1. PICK failing \in SUBSET Occupied : Flush(failing)
    BY <1>7 DEF Reply
  <2>2. /\ dirty' = dirty \ MappedCells(Occupied \ failing)
        /\ flushFailed' = (flushFailed \/ failing # {})
    BY <2>1 DEF Flush
  <2>3. ~flushFailed' => ~flushFailed /\ Occupied \ failing = Occupied
    BY <2>2
  <2>4. at \in InLoop
    BY <1>7 DEF Reply, InLoop
  <2> QED  BY <2>2, <2>3, <2>4 DEF DirtyConfined
<1>8. CASE KernelSucceeds \/ KernelFails
  <2>1. PICK cells \in SUBSET Targets(CurrentOp) :
          dirty' = dirty \union cells /\ flushFailed' = flushFailed
    BY <1>8 DEF KernelSucceeds, KernelFails, KernelWrites
  <2>2. at = "kernel" /\ at' \in InLoop /\ mmap' = mmap
    BY <1>8 DEF KernelSucceeds, KernelFails, InLoop, bufVars
  <2>3. Targets(CurrentOp) \subseteq MappedCells(Occupied)
    BY <2>2, KernelOperands
  <2>4. MappedCells(Occupied)' = MappedCells(Occupied)
    BY <2>2, MappedUnchanged
  <2>5. at \in InLoop
    BY <2>2 DEF InLoop
  <2> QED  BY <2>1, <2>2, <2>3, <2>4, <2>5 DEF DirtyConfined
<1> QED
  BY <1>1, <1>2, <1>3, <1>4, <1>5, <1>6, <1>7, <1>8, MemorySteps

(* What the kernel of the n-th op reads, through the cache, is what memory *)
(* would hold, and what it leaves is what AfterOp says.                    *)
LEMMA KernelComputes ==
  ASSUME BufsInv, ResponseInv, BatchAccepted, MemoryTyped, NoStaleLine, at = "kernel",
         KernelWrites(CurrentOp, Targets(CurrentOp),
                      KernelValue(CurrentOp, {Read(c) : c \in Sources(CurrentOp)}))
  PROVE  Content' = AfterOp(batch, CurrentOp, Content)
<1> DEFINE op == CurrentOp
           src == Sources(op)
           dst == Targets(op)
           value == KernelValue(op, {Read(c) : c \in src})
<1>1. /\ src = UNION {NamedCells(batch, i) : i \in Elements(op.src)}
      /\ dst = UNION {NamedCells(batch, i) : i \in Elements(op.dst)}
      /\ src \subseteq MappedCells(Occupied) /\ dst \subseteq MappedCells(Occupied)
      /\ MappedCells(Occupied) \subseteq Cells
  BY KernelOperands
<1>2. \A c \in MappedCells(Occupied) : Read(c) = Content[c]
  BY <1>1 DEF Read, Content, NoStaleLine, MemoryTyped
<1>3. {Read(c) : c \in src} = {Content[c] : c \in src}
  BY <1>1, <1>2
<1>4. value = {op.kind} \union UNION {Content[c] : c \in src}
  BY <1>3 DEF KernelValue
<1>5. /\ line' = [c \in Cells |-> CASE c \in dst -> value
                                    [] c \in src \ dst -> Read(c)
                                    [] OTHER -> line[c]]
      /\ dirty' = dirty \union dst /\ ddr' = ddr
  BY DEF KernelWrites
<1>6. AfterOp(batch, op, Content) =
        [c \in Cells |-> IF c \in dst THEN value ELSE Content[c]]
  BY <1>1, <1>4 DEF AfterOp
<1>7. Content' = [c \in Cells |-> IF c \in dirty' THEN line'[c] ELSE ddr'[c]]
  BY DEF Content
<1>8. ASSUME NEW c \in Cells
      PROVE  (IF c \in dirty' THEN line'[c] ELSE ddr'[c])
               = (IF c \in dst THEN value ELSE Content[c])
  <2> HIDE DEF value, src, dst
  <2>1. CASE c \in dst
    BY <1>5, <2>1
  <2>2. CASE c \notin dst /\ c \in dirty
    <3>1. Content[c] = line[c] /\ Read(c) = line[c]
      BY <2>2 DEF Content, Read, MemoryTyped
    <3> QED  BY <1>5, <2>2, <3>1
  <2>3. CASE c \notin dst /\ c \notin dirty
    BY <1>5, <2>3 DEF Content
  <2> QED  BY <2>1, <2>2, <2>3
<1> QED  BY <1>6, <1>7, <1>8

(* The cache on its own moves values between itself and memory: what memory*)
(* would hold is the same, and with no dirty line so is memory.            *)
LEMMA CacheAlone ==
  ASSUME MemoryTyped, NEW c \in Cells, Evict(c) \/ Prefetch(c)
  PROVE  Content' = Content /\ (dirty = {} => ddr' = ddr)
<1>1. Content' = [d \in Cells |-> IF d \in dirty' THEN line'[d] ELSE ddr'[d]]
  BY DEF Content
<1>2. CASE Evict(c)
  <2>1. /\ ddr' = IF c \in dirty THEN [ddr EXCEPT ![c] = line[c]] ELSE ddr
        /\ line' = [line EXCEPT ![c] = NoLine] /\ dirty' = dirty \ {c}
    BY <1>2 DEF Evict
  <2>2. \A d \in Cells : (IF d \in dirty' THEN line'[d] ELSE ddr'[d])
                           = (IF d \in dirty THEN line[d] ELSE ddr[d])
    BY <2>1 DEF MemoryTyped
  <2> QED  BY <1>1, <2>1, <2>2 DEF Content
<1>3. CASE Prefetch(c)
  <2>1. /\ line[c] = NoLine /\ line' = [line EXCEPT ![c] = ddr[c]]
        /\ ddr' = ddr /\ dirty' = dirty
    BY <1>3 DEF Prefetch
  <2>2. \A d \in Cells : (IF d \in dirty' THEN line'[d] ELSE ddr'[d])
                           = (IF d \in dirty THEN line[d] ELSE ddr[d])
    BY <2>1 DEF MemoryTyped
  <2> QED  BY <1>1, <2>1, <2>2 DEF Content
<1> QED  BY <1>2, <1>3

(* The same control point with the same content. *)
LEMMA FollowsFrame ==
  ASSUME MemoryFollows, UNCHANGED <<at, status, results, batch, snap, flushFailed>>,
         Content' = Content, at \in BeforeLoop /\ ~flushFailed => ddr' = ddr
  PROVE  MemoryFollows'
<1>1. Completed' = Completed
  BY DEF Completed
<1>2. AfterOps(batch, snap)' = AfterOps(batch, snap)
  BY DEF AfterOps, AfterOp, NamedCells
<1> QED  BY <1>1, <1>2 DEF MemoryFollows

(* Where nothing is claimed about memory. *)
LEMMA FollowsNothing ==
  ASSUME at' \in {"idle", "release", "free"} \/ (at' \in {"reclaim", "flush"} /\ status' # "OK")
  PROVE  MemoryFollows'
BY DEF MemoryFollows, BeforeLoop

(* The ops take effect one by one, in order, and nothing else does.        *)
LEMMA MemoryFollowsStep ==
  ASSUME BufsInv, ResponseInv, BatchAccepted, MemoryTyped, NoStaleLine, DirtyConfined,
         MemoryFollows, [SkelNext]_vars
  PROVE  MemoryFollows'
<1>1. CASE at' \in {"idle", "release", "free"}
  BY <1>1, FollowsNothing
<1>2. CASE ManagerStep \/ UNCHANGED vars
  <2>1. UNCHANGED <<at, status, results, batch, snap, flushFailed, ddr, line, dirty>>
    BY <1>2 DEF ManagerStep, GrantRival, BesideTheThread, vars, callVars, memVars
  <2>2. Content' = Content
    BY <2>1 DEF Content
  <2> QED  BY <2>1, <2>2, FollowsFrame
<1>3. ASSUME NEW c \in Cells, Evict(c) \/ Prefetch(c) PROVE MemoryFollows'
  <2>1. UNCHANGED <<at, status, results, batch, snap, flushFailed>>
    BY <1>3 DEF Evict, Prefetch, callVars
  <2>2. Content' = Content /\ (dirty = {} => ddr' = ddr)
    BY <1>3, CacheAlone
  <2>3. at \in BeforeLoop /\ ~flushFailed => dirty = {}
    BY DEF DirtyConfined, BeforeLoop, InLoop
  <2> QED  BY <2>1, <2>2, <2>3, FollowsFrame
<1>4. ASSUME NEW b \in Batches, Invoke(b), at' # "idle" PROVE MemoryFollows'
  <2>1. at' = "dispatch" /\ snap' = ddr /\ ddr' = ddr
    BY <1>4 DEF Invoke, memVars
  <2> QED  BY <2>1 DEF MemoryFollows, BeforeLoop
<1>5. CASE (Dispatch \/ Acquire \/ Acquired) /\ at' # "idle"
  <2>1. /\ at \in BeforeLoop /\ at' \in BeforeLoop
        /\ UNCHANGED <<ddr, snap, flushFailed>>
    BY <1>5 DEF Dispatch, Acquire, Acquired, Refuse, Return, Proceed, callVars, memVars,
       BeforeLoop
  <2> QED  BY <2>1 DEF MemoryFollows, BeforeLoop
<1>6. CASE InvalidateCache /\ at' # "idle"
  <2>1. /\ Invalidate({}) /\ at = "invalidate" /\ at' = "ops"
        /\ UNCHANGED <<batch, snap, results>>
    BY <1>6 DEF InvalidateCache, Refuse, Return, Proceed, callVars
  <2>2. /\ ddr' = ddr /\ dirty' \subseteq dirty
        /\ ~flushFailed' => ~flushFailed
    BY <2>1 DEF Invalidate
  <2>3. Len(batch.ops) \in Nat /\ Len(results) = 0
    BY <2>1, NoBatchTyped DEF ResponseInv, ResultsHonest
  <2>4. Completed' = 0
    BY <2>1, <2>3 DEF Completed
  <2>5. ASSUME ~flushFailed PROVE Content' = snap
    <3>1. dirty' = {} /\ ddr' = snap
      BY <2>1, <2>2, <2>5 DEF DirtyConfined, MemoryFollows, BeforeLoop, InLoop
    <3>2. ddr = [c \in Cells |-> ddr[c]]
      BY DEF MemoryTyped
    <3> QED  BY <2>2, <3>1, <3>2 DEF Content
  <2>6. AfterOps(batch, snap)[0] = snap
    BY <2>3, AfterOpsFacts
  <2>7. AfterOps(batch, snap)' = AfterOps(batch, snap)
    BY <2>1 DEF AfterOps, AfterOp, NamedCells
  <2> QED  BY <2>1, <2>2, <2>4, <2>5, <2>6, <2>7 DEF MemoryFollows, BeforeLoop
<1>7. CASE NextOp \/ LastOpDone
  <2>1. CASE at' = "flush" /\ status' # "OK"
    BY <2>1, FollowsNothing
  <2>2. CASE ~(at' = "flush" /\ status' # "OK")
    <3>1. /\ at = "ops" /\ UNCHANGED <<batch, snap, ddr, line, dirty, flushFailed>>
          /\ \/ at' = "flush" /\ results' = results
             \/ at' = "kernel" /\ \E s : results' = Append(results, s)
      BY <1>7, <2>2 DEF NextOp, LastOpDone, OpStatus, callVars, memVars
    <3>2. Completed' = Completed
      <4>1. results \in Seq(OpResults)
        BY DEF ResponseInv, ResultsHonest
      <4>2. CASE at' = "flush" /\ results' = results
        BY <3>1, <4>2 DEF Completed
      <4>3. CASE at' = "kernel"
        <5>1. Len(results') = Len(results) + 1 /\ Len(results) \in Nat
          BY <1>7, <3>1, <4>1, <4>3 DEF NextOp, LastOpDone
        <5> QED  BY <3>1, <4>3, <5>1 DEF Completed
      <4> QED  BY <3>1, <4>2, <4>3
    <3>3. Content' = Content
      BY <3>1 DEF Content
    <3>4. AfterOps(batch, snap)' = AfterOps(batch, snap)
      BY <3>1 DEF AfterOps, AfterOp, NamedCells
    <3> QED  BY <3>1, <3>2, <3>3, <3>4 DEF MemoryFollows, BeforeLoop
  <2> QED  BY <2>1, <2>2
<1>8. CASE KernelSucceeds
  <2>1. CASE at' = "reclaim"
    BY <1>8, <2>1, FollowsNothing DEF KernelSucceeds
  <2>2. CASE at' = "ops"
    <3> DEFINE n == Len(results)
    <3>1. /\ at = "kernel" /\ UNCHANGED <<batch, snap, flushFailed>>
          /\ results' = [results EXCEPT ![n] = "OK"]
          /\ KernelWrites(CurrentOp, Targets(CurrentOp),
                          KernelValue(CurrentOp, {Read(c) : c \in Sources(CurrentOp)}))
      BY <1>8 DEF KernelSucceeds, KernelWrites
    <3>2. Content' = AfterOp(batch, CurrentOp, Content)
      BY <3>1, KernelComputes
    <3>3. n \in 1 .. Len(batch.ops) /\ Len(batch.ops) \in Nat
      BY <3>1, KernelOperands, NoBatchTyped DEF ResponseInv
    <3>4. Len(results') = n
      <4>1. results \in Seq(OpResults)
        BY DEF ResponseInv, ResultsHonest
      <4> QED  BY <3>1, <4>1
    <3>5. Completed = n - 1 /\ Completed' = n
      BY <2>2, <3>1, <3>4 DEF Completed
    <3>6. AfterOps(batch, snap)[n] = AfterOp(batch, CurrentOp, AfterOps(batch, snap)[n - 1])
      BY <3>3, AfterOpsFacts DEF CurrentOp
    <3>7. AfterOps(batch, snap)' = AfterOps(batch, snap)
      BY <3>1 DEF AfterOps, AfterOp, NamedCells
    <3>8. ~flushFailed => Content = AfterOps(batch, snap)[n - 1]
      BY <3>1, <3>5 DEF MemoryFollows
    <3>9. ~flushFailed' => Content' = AfterOps(batch, snap)'[n]
      BY <3>1, <3>2, <3>6, <3>7, <3>8
    <3> QED  BY <2>2, <3>5, <3>9 DEF MemoryFollows, BeforeLoop
  <2> QED  BY <1>8, <2>1, <2>2 DEF KernelSucceeds
<1>9. CASE KernelFails
  BY <1>9, FollowsNothing DEF KernelFails
<1>10. CASE Reclaim
  <2>1. /\ at = "reclaim" /\ at' = "flush"
        /\ UNCHANGED <<batch, snap, results, status, ddr, line, dirty, flushFailed>>
    BY <1>10 DEF Reclaim, callVars, memVars
  <2>2. Completed' = Completed
    BY <2>1 DEF Completed
  <2>3. Content' = Content
    BY <2>1 DEF Content
  <2>4. AfterOps(batch, snap)' = AfterOps(batch, snap)
    BY <2>1 DEF AfterOps, AfterOp, NamedCells
  <2> QED  BY <2>1, <2>2, <2>3, <2>4 DEF MemoryFollows, BeforeLoop
<1>11. CASE \/ LeaveRelease \/ LeaveFree \/ Reply
            \/ HostStep /\ \A b \in Batches : ~Invoke(b)
  <2>1. at' \in {"idle", "release", "free"}
    BY <1>11 DEF LeaveRelease, LeaveFree, Reply, Return, HostStep, Open, Start, Stop,
       Close, Leave, MapBuffer, UnmapBuffer, HostWrites
  <2> QED  BY <1>1, <2>1
<1> QED
  BY <1>1, <1>2, <1>3, <1>4, <1>5, <1>6, <1>7, <1>8, <1>9, <1>10, <1>11
  DEF SkelNext, DspStep, HostStep, CacheStep

(* What a response claims about memory. *)
Claims == OkMeansComputed /\ RefusedTouchesNothing

LEMMA NoClaim ==
  ASSUME rsp' = NoRsp
  PROVE  Claims'
BY DEF Claims, OkMeansComputed, RefusedTouchesNothing, NoRsp, Response

(* Memory as it was answered for. *)
LEMMA ClaimsFrame ==
  ASSUME Claims, UNCHANGED rsp, ~flushFailed' => ~flushFailed /\ ddr' = ddr
  PROVE  Claims'
<1>1. \A b : Faults(b)' = Faults(b)
  BY DEF Faults
<1>2. \A b, mem : AfterBatch(b, mem)' = AfterBatch(b, mem)
  BY DEF AfterBatch, AfterOp, NamedCells
<1> QED  BY <1>1, <1>2 DEF Claims, OkMeansComputed, RefusedTouchesNothing

(* A refusal of a batch that has touched nothing. *)
LEMMA RefusalClaims ==
  ASSUME NEW s, s # "OK", NEW b, NEW mem, rsp' = Response(s, << >>, b, mem),
         ~flushFailed' => ddr' = mem
  PROVE  Claims'
BY DEF Claims, OkMeansComputed, RefusedTouchesNothing, Response

(* The flush brings memory to what it would be if every dirty line were    *)
(* written back, when none of its calls fails.                             *)
LEMMA FlushBringsContent ==
  ASSUME BufsInv, MemoryTyped, dirty \subseteq MappedCells(Occupied), Flush({})
  PROVE  ddr' = Content
<1>1. Occupied \ {} = Occupied
  OBVIOUS
<1>2. ddr' = [c \in Cells |-> IF c \in MappedCells(Occupied) \cap dirty
                               THEN line[c] ELSE ddr[c]]
  BY <1>1 DEF Flush
<1> QED  BY <1>2 DEF Content

(* A response leaves with the truth about memory, and memory does not      *)
(* change under it until the host acts on it.                              *)
LEMMA ClaimsStep ==
  ASSUME BufsInv, ResponseInv, BatchAccepted, MemoryTyped, DirtyConfined, MemoryFollows,
         Claims, [SkelNext]_vars
  PROVE  Claims'
<1>1. CASE rsp' = NoRsp
  BY <1>1, NoClaim
<1>2. CASE UNCHANGED <<rsp, ddr, flushFailed>>
  BY <1>2, ClaimsFrame
<1>3. ASSUME NEW c \in Cells, Evict(c) \/ Prefetch(c) PROVE Claims'
  <2>1. UNCHANGED <<rsp, at, flushFailed>>
    BY <1>3 DEF Evict, Prefetch
  <2>2. dirty = {} => ddr' = ddr
    BY <1>3, CacheAlone
  <2>3. CASE at = "idle"
    <3>1. ~flushFailed => dirty = {}
      BY <2>3 DEF DirtyConfined, InLoop
    <3> QED  BY <2>1, <2>2, <3>1, ClaimsFrame
  <2>4. CASE at # "idle"
    BY <1>1, <2>1, <2>4 DEF BatchAccepted
  <2> QED  BY <2>3, <2>4
<1>4. ASSUME NEW b \in Batches, Invoke(b), InvokeStatus(b) # "OK" PROVE Claims'
  BY <1>4, RefusalClaims DEF Invoke, memVars
<1>5. CASE Dispatch \/ Acquire
  <2>1. CASE UNCHANGED rsp
    <3>1. UNCHANGED <<ddr, flushFailed>>
      BY <1>5 DEF Dispatch, Acquire, memVars
    <3> QED  BY <1>2, <2>1, <3>1
  <2>2. CASE ~ UNCHANGED rsp
    <3>1. \E s : s # "OK" /\ rsp' = Response(s, << >>, batch, snap)
      BY <1>5, <2>2 DEF Dispatch, Acquire, Refuse, Return, Proceed
    <3>2. at \in BeforeLoop /\ UNCHANGED <<ddr, flushFailed>>
      BY <1>5 DEF Dispatch, Acquire, BeforeLoop, memVars
    <3>3. ~flushFailed' => ddr' = snap
      BY <3>2 DEF MemoryFollows
    <3> QED  BY <3>1, <3>3, RefusalClaims
  <2> QED  BY <2>1, <2>2
<1>6. CASE InvalidateCache
  <2>1. CASE UNCHANGED rsp
    <3>1. ddr' = ddr /\ (~flushFailed' => ~flushFailed)
      BY <1>6 DEF InvalidateCache, Invalidate
    <3> QED  BY <2>1, <3>1, ClaimsFrame
  <2>2. CASE ~ UNCHANGED rsp
    <3>1. rsp' = Response("CACHE", << >>, batch, snap) /\ flushFailed'
      BY <1>6, <2>2 DEF InvalidateCache, Invalidate, Refuse, Return, Proceed
    <3> QED  BY <3>1, RefusalClaims
  <2> QED  BY <2>1, <2>2
<1>7. CASE Reply
  <2>1. PICK failing \in SUBSET Occupied :
          /\ at = "flush" /\ Flush(failing)
          /\ rsp' = Response(IF failing # {} /\ status = "OK" THEN "CACHE" ELSE status,
                             results, batch, snap)
    BY <1>7 DEF Reply, Return
  <2>2. CASE flushFailed'
    BY <2>2 DEF Claims, OkMeansComputed, RefusedTouchesNothing
  <2>3. CASE ~flushFailed'
    <3>1. failing = {} /\ ~flushFailed
      BY <2>1, <2>3 DEF Flush
    <3>2. rsp' = [status |-> status, results |-> results, batch |-> batch, before |-> snap]
      BY <2>1, <3>1 DEF Response
    <3>3. dirty \subseteq MappedCells(Occupied)
      BY <2>1, <3>1 DEF DirtyConfined, InLoop
    <3>4. ddr' = Content
      BY <2>1, <3>1, <3>3, FlushBringsContent
    <3>5. Len(batch.ops) \in Nat
      BY NoBatchTyped DEF ResponseInv
    <3>6. results \in Seq(OpResults)
      BY DEF ResponseInv, ResultsHonest
    <3>7. ASSUME status = "OK"
          PROVE  /\ Len(results) = Len(batch.ops)
                 /\ ddr' = AfterBatch(batch, snap)
      <4>1. Len(results) = Len(batch.ops)
        BY <2>1, <3>7 DEF ResponseInv, ResultsHonest
      <4>2. Content = AfterOps(batch, snap)[Len(results)]
        BY <2>1, <3>1, <3>7 DEF MemoryFollows, Completed
      <4> QED  BY <3>4, <3>5, <4>1, <4>2, AfterOpsFacts
    <3>8. OkMeansComputed'
      <4>1. Faults(batch) = {}
        BY <2>1 DEF BatchAccepted, Prologued, InLoop
      <4>2. \A b : Faults(b)' = Faults(b)
        BY DEF Faults
      <4>3. \A b, mem : AfterBatch(b, mem)' = AfterBatch(b, mem)
        BY DEF AfterBatch, AfterOp, NamedCells
      <4> QED  BY <3>2, <3>7, <4>1, <4>2, <4>3 DEF OkMeansComputed
    <3>9. RefusedTouchesNothing'
      <4> SUFFICES ASSUME results = << >> PROVE ddr' = snap
        BY <3>2 DEF RefusedTouchesNothing
      <4>1. status = "OK"
        BY <2>1 DEF ResponseInv, ResultsHonest
      <4>2. Len(batch.ops) = 0 /\ ddr' = AfterBatch(batch, snap)
        BY <3>7, <4>1
      <4>3. AfterBatch(batch, snap) = AfterOps(batch, snap)[Len(batch.ops)]
        BY <3>5, AfterOpsFacts
      <4>4. AfterOps(batch, snap)[0] = snap
        BY <3>5, AfterOpsFacts
      <4> QED  BY <4>2, <4>3, <4>4
    <3> QED  BY <3>8, <3>9 DEF Claims
  <2> QED  BY <2>2, <2>3
<1>8. CASE LeaveRelease \/ LeaveFree \/ Acquired \/ NextOp \/ LastOpDone \/ Reclaim \/ ManagerStep
           \/ UNCHANGED vars
  <2>1. UNCHANGED <<rsp, ddr, flushFailed>>
    BY <1>8 DEF LeaveRelease, LeaveFree, Acquired, NextOp, LastOpDone, Reclaim, ManagerStep,
       GrantRival, BesideTheThread, vars, memVars
  <2> QED  BY <1>2, <2>1
<1>9. CASE KernelSucceeds \/ KernelFails
  <2>1. at = "kernel" /\ rsp' = rsp
    BY <1>9 DEF KernelSucceeds, KernelFails
  <2> QED  BY <1>1, <2>1 DEF BatchAccepted
<1>10. CASE HostStep /\ \A b \in Batches : Invoke(b) => InvokeStatus(b) = "OK"
  <2>1. rsp' = NoRsp
    BY <1>10 DEF HostStep, Open, Start, Stop, Close, Leave, MapBuffer, UnmapBuffer,
       HostWrites, Invoke
  <2> QED  BY <1>1, <2>1
<1> QED
  BY <1>3, <1>4, <1>5, <1>6, <1>7, <1>8, <1>9, <1>10
  DEF SkelNext, DspStep, HostStep, CacheStep

MemoryInv == MemoryTyped /\ BatchAccepted /\ DirtyConfined /\ MemoryFollows /\ Claims

LEMMA MemoryInvInit == SkelInit => MemoryInv
<1> SUFFICES ASSUME SkelInit PROVE MemoryInv
  OBVIOUS
<1>1. MemoryTyped
  BY DEF SkelInit, MemoryTyped, NoMemory
<1>2. BatchAccepted /\ DirtyConfined /\ MemoryFollows
  BY DEF SkelInit, BatchAccepted, DirtyConfined, MemoryFollows, BeforeLoop, InLoop, Prologued
<1>3. Claims
  BY DEF SkelInit, Claims, OkMeansComputed, RefusedTouchesNothing, NoRsp, Response
<1> QED  BY <1>1, <1>2, <1>3 DEF MemoryInv

(* The two claims a response makes about memory, from the invariants of    *)
(* the table, the results, the counters and the cache.                     *)
LEMMA ClaimsInvariant == SkelSpec => []Claims
<1>1. /\ BufsInv /\ ResponseInv /\ CountersTyped /\ NoStaleLine
      /\ MemoryInv /\ [SkelNext]_vars
      => MemoryInv'
  BY MemoryTypedStep, BatchAcceptedStep, DirtyConfinedStep, MemoryFollowsStep, ClaimsStep
  DEF MemoryInv
<1>2. SkelInit => CountersTyped
  BY BoundsAreNat DEF SkelInit, CountersTyped
<1>3. SkelSpec => []CountersTyped
  BY <1>2, CountersStep, PTL DEF SkelSpec
<1>4. SkelSpec => []ResponseInv
  BY ResponseInvInit, ResponseInvStep, PTL DEF SkelSpec
<1>5. MemoryInv => Claims
  BY DEF MemoryInv
<1> QED
  BY <1>1, <1>3, <1>4, <1>5, MemoryInvInit, BatchAddressesSound, NeverAStaleLine, PTL
  DEF SkelSpec

(* A response of OK means that memory holds the batch applied, op by op    *)
(* and in order, to what the host had put there: no op read a stale line,  *)
(* every result was written back and nothing else changed, whatever the    *)
(* cache evicts or prefetches and however VTCM is fought over, as long as  *)
(* no cache operation of the session failed.                               *)
THEOREM OkAlwaysMeansComputed == SkelSpec => []OkMeansComputed
<1>1. Claims => OkMeansComputed
  BY DEF Claims
<1> QED  BY <1>1, ClaimsInvariant, PTL

(* A batch refused before its first op leaves memory as it was.            *)
THEOREM RefusedAlwaysTouchesNothing == SkelSpec => []RefusedTouchesNothing
<1>1. Claims => RefusedTouchesNothing
  BY DEF Claims
<1> QED  BY <1>1, ClaimsInvariant, PTL
=============================================================================
