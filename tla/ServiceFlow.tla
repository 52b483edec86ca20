----------------------------- MODULE ServiceFlow ----------------------------
(***************************************************************************)
(* What MdnsDiscovery promises the subscribers of services()                *)
(* (src/mdns/MdnsDiscovery.hpp): while it is open they are told of every    *)
(* service as the network has shown it, and of nothing after the one end of *)
(* the flow.  A datagram may complete several services at once.             *)
(***************************************************************************)
CONSTANTS Names,             (* service instances                          *)
          Unknown            (* stands for a service not told yet          *)

VARIABLES phase,             (* "idle", "running", "ended" or "failed"     *)
          shown,             (* the services each name may have been       *)
          view               (* what subscribers were told of it last      *)

Init == phase = "idle" /\ view = [n \in Names |-> Unknown]

Create == phase = "idle" /\ phase' = "running" /\ UNCHANGED <<shown, view>>

(* The network changes.                                                    *)
Change == /\ \A n \in Names : shown[n] \subseteq shown'[n]
          /\ UNCHANGED <<phase, view>>

Tell == /\ phase = "running"
        /\ \A n \in Names : view'[n] # view[n] => view'[n] \in shown[n]
        /\ UNCHANGED <<phase, shown>>

End == phase = "running" /\ phase' \in {"ended", "failed"} /\ UNCHANGED <<shown, view>>

Next == Create \/ Change \/ Tell \/ End

Spec == Init /\ [][Next]_<<phase, shown, view>>
=============================================================================
