------------------------------ MODULE SkelBufs ------------------------------
(***************************************************************************)
(* The buffer table of the DSP skel (hexlib/runtime/skel/skel_bufs.c): the *)
(* host names a buffer by fd, the DSP maps it itself and is the only side  *)
(* that ever produces an address.                                          *)
(*                                                                         *)
(* An address is a mapping (the value HAP_mmap returned) and an offset in  *)
(* it: the OS keeps mappings disjoint, so nothing is lost by not adding    *)
(* the two.  Buffer indices of tensors count from 1 here, from 0 in C.     *)
(***************************************************************************)
EXTENDS Integers, Sequences, FiniteSets

CONSTANTS
  MaxMmaps,   \* HEXLIB_MAX_MMAPS
  Fds,        \* file descriptor numbers the host's allocator hands out
  Sizes,      \* buffer sizes: hexlib_alloc refuses 0
  Vas,        \* addresses HAP_mmap may return: nonzero
  MaxObj,     \* bound: how often one fd number is given to a new object
  BufSeqs,    \* lists of wire buffer descriptors a batch may carry
  TenSeqs     \* lists of wire tensor descriptors a batch may carry

Offsets == Nat

(* The wire structs hexlib_buf_desc and hexlib_tensor. *)
BufDesc == [base : Vas \union {0}, fd : Fds, size : Nat]
TenDesc == [bi : Nat, offset : Offsets, nbytes : Nat]

ASSUME BufsAssumption ==
  /\ MaxMmaps \in Nat \ {0}
  /\ Fds \subseteq Nat
  /\ Sizes \subseteq Nat \ {0}
  /\ Vas \subseteq Nat \ {0}
  /\ MaxObj \in Nat
  /\ BufSeqs \subseteq Seq(BufDesc)
  /\ TenSeqs \subseteq Seq(TenDesc)

VARIABLES
  mmap,    \* struct hexlib_ctx.mmap: slot -> [base, size, fd]
  osmap,   \* external: the OS's live mappings, va -> [fd, obj, size] or Free
  obj,     \* external: which memory object each fd number names today
  held,    \* the fds the host has allocated and believes are mapped
  work     \* the static working copies of an invoke: [rc, bufs, tens]

bufVars == <<mmap, osmap, obj, held, work>>

Slots == 1 .. MaxMmaps
NoFd == -1
FreeSlot == [base |-> 0, size |-> 0, fd |-> NoFd]
FreeVa == [fd |-> NoFd, obj |-> 0, size |-> 0]
NoWork == [rc |-> "NONE", bufs |-> << >>, tens |-> << >>]

Occupied == {s \in Slots : mmap[s].size # 0}

(* The first of a nonempty set of positions: where a scan in order stops. *)
First(S) == CHOOSE i \in S : \A j \in S : i <= j

-----------------------------------------------------------------------------
(* find_by_fd: 0 when there is none. *)
FindByFd(fd) ==
  LET hits == {s \in Occupied : mmap[s].fd = fd}
  IN  IF hits = {} THEN 0 ELSE First(hits)

(* Mutant: register without the scan for an fd that is already there.      *)
RegisterWithoutScan(fd, size, rc) ==
  /\ Occupied # Slots
  /\ rc = "OK"
  /\ \E va \in {v \in Vas : osmap[v] = FreeVa} :
       /\ osmap' = [osmap EXCEPT ![va] =
                      [fd |-> fd, obj |-> obj[fd], size |-> size]]
       /\ mmap' = [mmap EXCEPT ![First(Slots \ Occupied)] =
                      [base |-> va, size |-> size, fd |-> fd]]

(* hexlib_bufs_register: already mapped; mapped by HAP_mmap; HAP_mmap      *)
(* failed; no slot.  rc is what the host is told.                          *)
Register(fd, size, rc) ==
  /\ \/ /\ FindByFd(fd) # 0
        /\ rc = "OK"
        /\ UNCHANGED <<mmap, osmap>>
     \/ /\ FindByFd(fd) = 0
        /\ Occupied # Slots
        /\ rc = "OK"
        /\ \E va \in {v \in Vas : osmap[v] = FreeVa} :
             /\ osmap' = [osmap EXCEPT ![va] =
                            [fd |-> fd, obj |-> obj[fd], size |-> size]]
             /\ mmap' = [mmap EXCEPT ![First(Slots \ Occupied)] =
                            [base |-> va, size |-> size, fd |-> fd]]
     \/ /\ FindByFd(fd) = 0
        /\ Occupied # Slots
        /\ rc = "MMAP_FAILED"
        /\ UNCHANGED <<mmap, osmap>>
     \/ /\ FindByFd(fd) = 0
        /\ Occupied = Slots
        /\ rc = "NO_MMAP_SLOT"
        /\ UNCHANGED <<mmap, osmap>>

(* Mutant: the slot is cleared only when HAP_munmap succeeded.             *)
UnregisterIfUnmapped(fd, rc) ==
  LET s == FindByFd(fd)
  IN  \/ /\ IF s = 0 THEN rc = "UNMAPPED" ELSE rc = "MMAP_FAILED"
         /\ UNCHANGED <<mmap, osmap>>
      \/ /\ s # 0
         /\ rc = "OK"
         /\ mmap' = [mmap EXCEPT ![s] = FreeSlot]
         /\ osmap' = [osmap EXCEPT ![mmap[s].base] = FreeVa]

(* Mutant: the fd is left behind in the freed slot.                        *)
UnregisterKeepsFd(fd, rc) ==
  LET s == FindByFd(fd)
  IN  /\ s # 0
      /\ rc = "OK"
      /\ mmap' = [mmap EXCEPT ![s] = [FreeSlot EXCEPT !.fd = fd]]
      /\ osmap' = [osmap EXCEPT ![mmap[s].base] = FreeVa]

(* hexlib_bufs_unregister: the slot is freed whatever HAP_munmap says.     *)
Unregister(fd, rc) ==
  LET s == FindByFd(fd)
  IN  \/ /\ s = 0
         /\ rc = "UNMAPPED"
         /\ UNCHANGED <<mmap, osmap>>
      \/ /\ s # 0
         /\ mmap' = [mmap EXCEPT ![s] = FreeSlot]
         /\ \/ /\ rc = "OK"
               /\ osmap' = [osmap EXCEPT ![mmap[s].base] = FreeVa]
            \/ /\ rc = "MMAP_FAILED"
               /\ UNCHANGED osmap

(* hexlib_bufs_map, one descriptor: its status, and the base it is given.  *)
MapStatus(b) ==
  LET s == FindByFd(b.fd)
  IN  CASE s = 0 -> "UNMAPPED"
        [] s # 0 /\ b.size > mmap[s].size -> "INVAL_PARAMS"
        [] OTHER -> "OK"

Mapped(b) == [b EXCEPT !.base = mmap[FindByFd(b.fd)].base]

(* Mutant: the sum of offset and length is taken in 2 bits and wraps.      *)
InBoundsWrapping(t, b) == (t.offset + t.nbytes) % 4 <= b.size

(* hexlib_tensors_resolve, one tensor against the mapped descriptors.  The *)
(* sum is widened to 64 bits in the code, so it does not wrap.             *)
InBounds(t, b) == t.offset + t.nbytes <= b.size

ResolveStatus(t, bufs) ==
  CASE t.bi \notin DOMAIN bufs -> "INVAL_PARAMS"
    [] t.bi \in DOMAIN bufs /\ bufs[t.bi].base = 0 -> "UNMAPPED"
    [] t.bi \in DOMAIN bufs /\ bufs[t.bi].base # 0 /\ ~InBounds(t, bufs[t.bi])
         -> "TRUNCATED"
    [] OTHER -> "OK"

Resolved(t, bufs) ==
  [va |-> bufs[t.bi].base, offset |-> t.offset, nbytes |-> t.nbytes]

(* The two loops of the dispatcher's prologue: the first failure, in       *)
(* order, is what the batch reports; bufs before tensors.                  *)
MapAndResolve(bufs, tens) ==
  LET badBufs == {i \in DOMAIN bufs : MapStatus(bufs[i]) # "OK"}
      mapped  == [i \in DOMAIN bufs |-> Mapped(bufs[i])]
      badTens == {i \in DOMAIN tens : ResolveStatus(tens[i], mapped) # "OK"}
  IN  CASE badBufs # {} ->
             [NoWork EXCEPT !.rc = MapStatus(bufs[First(badBufs)])]
        [] badBufs = {} /\ badTens # {} ->
             [NoWork EXCEPT !.rc = ResolveStatus(tens[First(badTens)], mapped)]
        [] OTHER ->
             [rc |-> "OK", bufs |-> mapped,
              tens |-> [i \in DOMAIN tens |-> Resolved(tens[i], mapped)]]

-----------------------------------------------------------------------------
BufsInit ==
  /\ mmap = [s \in Slots |-> FreeSlot]
  /\ osmap = [v \in Vas |-> FreeVa]
  /\ obj = [f \in Fds |-> 0]
  /\ held = {}
  /\ work = NoWork

(* hexlib_iface_mmap, as hexlib_alloc and the simulator host call it.  An  *)
(* allocation that the DSP would not map is given up by the host.          *)
Mmap(fd, size) ==
  /\ \E rc \in {"OK", "MMAP_FAILED", "NO_MMAP_SLOT"} :
       /\ Register(fd, size, rc)
       /\ held' = IF rc = "OK" THEN held \union {fd} ELSE held
  /\ work' = NoWork
  /\ UNCHANGED obj

(* hexlib_iface_munmap, as hexlib_free calls it: the host ignores the      *)
(* answer and lets the fd go.                                              *)
Munmap(fd) ==
  /\ \E rc \in {"OK", "UNMAPPED", "MMAP_FAILED"} : Unregister(fd, rc)
  /\ held' = held \ {fd}
  /\ work' = NoWork
  /\ UNCHANGED obj

(* External: the host's allocator gives an fd number it has freed to a new *)
(* buffer.                                                                 *)
ReuseFd(fd) ==
  /\ fd \notin held
  /\ obj[fd] < MaxObj
  /\ obj' = [obj EXCEPT ![fd] = @ + 1]
  /\ work' = NoWork
  /\ UNCHANGED <<mmap, osmap, held>>

(* The prologue of hexlib_dispatch_batch. *)
Prologue(bufs, tens) ==
  /\ work' = MapAndResolve(bufs, tens)
  /\ UNCHANGED <<mmap, osmap, obj, held>>

BufsNext ==
  \/ \E fd \in Fds, size \in Sizes : Mmap(fd, size)
  \/ \E fd \in Fds : Munmap(fd) \/ ReuseFd(fd)
  \/ \E bufs \in BufSeqs, tens \in TenSeqs : Prologue(bufs, tens)

BufsSpec == BufsInit /\ [][BufsNext]_bufVars

-----------------------------------------------------------------------------
Slot == {FreeSlot} \union [base : Vas, size : Sizes, fd : Fds]
Mapping == {FreeVa} \union [fd : Fds, obj : 0 .. MaxObj, size : Sizes]

(* The types of the buffer table and of what surrounds it: a slot is wholly*)
(* free or wholly in use, never half reset.                                *)
BufsTypeOK ==
  /\ mmap \in [Slots -> Slot]
  /\ osmap \in [Vas -> Mapping]
  /\ obj \in [Fds -> 0 .. MaxObj]
  /\ held \subseteq Fds

(* One fd never occupies two slots: unregister clears only the first match,*)
(* so a second one would keep answering lookups after the munmap.          *)
OneSlotPerFd ==
  \A s, t \in Occupied : mmap[s].fd = mmap[t].fd => s = t

(* What the host believes is mapped is what the table can look up: an fd   *)
(* whose munmap returned, with whatever status, is never handed back, and  *)
(* one whose mmap returned OK always is.                                   *)
HostViewAgrees ==
  \A fd \in Fds : fd \in held <=> FindByFd(fd) # 0

(* An occupied slot is backed by a live OS mapping of the object its fd    *)
(* names today, with the slot's size, and no two slots share a mapping:    *)
(* reuse of an fd number never leaves a slot on the old object.            *)
SlotBacked(s) ==
  /\ mmap[s].fd \in Fds
  /\ mmap[s].base \in Vas
  /\ osmap[mmap[s].base] =
       [fd |-> mmap[s].fd, obj |-> obj[mmap[s].fd], size |-> mmap[s].size]

SlotsBacked ==
  /\ \A s \in Occupied : SlotBacked(s)
  /\ \A s, t \in Occupied : mmap[s].base = mmap[t].base => s = t

(* Every address a successful prologue hands to kernels lies inside a live *)
(* mapping of the object the named fd stands for, whatever base the host   *)
(* put on the wire.                                                        *)
AddressesSound ==
  work.rc = "OK" =>
    \A i \in DOMAIN work.tens :
      LET t == work.tens[i]
      IN  /\ t.va \in Vas
          /\ t.offset + t.nbytes <= osmap[t.va].size
          /\ \E k \in DOMAIN work.bufs :
               /\ work.bufs[k].base = t.va
               /\ osmap[t.va].fd = work.bufs[k].fd
               /\ osmap[t.va].obj = obj[work.bufs[k].fd]
               /\ work.bufs[k].fd \in held
=============================================================================
