--------------------------- MODULE MCMdnsDiscovery --------------------------
(* MdnsDiscovery with a different address for every host.                   *)
EXTENDS MdnsDiscovery

Apart == CHOOSE f \in [Hosts -> Addresses] : \A g, h \in Hosts : g # h => f[g] # f[h]
=============================================================================
