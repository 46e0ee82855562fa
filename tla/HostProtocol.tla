---------------------------- MODULE HostProtocol ----------------------------
(***************************************************************************)
(* What the skel may expect of any host, as Skel.tla assumes it: one       *)
(* handle, started before anything is mapped, a batch invoked only on a    *)
(* started session, stop before close.  Closing drops what is still        *)
(* mapped (hexlib_iface_close, skel.c).                                    *)
(***************************************************************************)
EXTENDS Integers

CONSTANT Buffers   \* the buffers a host may map

VARIABLES
  phase,    \* of the session: closed, open, started
  mapped,   \* buffers registered with hexlib_iface_mmap
  invoked   \* a batch has been sent

protocolVars == <<phase, mapped, invoked>>

ProtocolInit == phase = "closed" /\ mapped = {} /\ invoked = FALSE

Open == /\ phase = "closed" /\ ~invoked
        /\ phase' = "open"
        /\ UNCHANGED <<mapped, invoked>>

Start == /\ phase = "open"
         /\ phase' = "started"
         /\ UNCHANGED <<mapped, invoked>>

Map(b) == /\ phase = "started" /\ b \notin mapped
          /\ mapped' = mapped \union {b}
          /\ UNCHANGED <<phase, invoked>>

Unmap(b) == /\ phase = "started" /\ b \in mapped
            /\ mapped' = mapped \ {b}
            /\ UNCHANGED <<phase, invoked>>

Invoke == /\ phase = "started" /\ ~invoked
          /\ invoked' = TRUE
          /\ UNCHANGED <<phase, mapped>>

Stop == /\ phase = "started"
        /\ phase' = "open"
        /\ UNCHANGED <<mapped, invoked>>

Close == /\ phase = "open"
         /\ phase' = "closed" /\ mapped' = {}
         /\ UNCHANGED invoked

ProtocolNext == \/ Open \/ Start \/ Invoke \/ Stop \/ Close
                \/ \E b \in Buffers : Map(b) \/ Unmap(b)

ProtocolSpec == ProtocolInit /\ [][ProtocolNext]_protocolVars

=============================================================================
