------------------------------ MODULE MCDiscovery ------------------------------
(* Bounds for TLC: a device with two interfaces and two addresses, before and   *)
(* after its interfaces are renumbered, with rows of its address table that are *)
(* malformed, name one address twice, or give one interface two addresses.  Two *)
(* selections or deletions overlap each other and a discovery.                  *)
EXTENDS Discovery, TLC

CONSTANTS wan, lan, publicIp, localIp, discovery, one, two

Row(a, i) == [address |-> a, index |-> i]

MCPorts     == {wan, lan}
MCAddresses == {publicIp, localIp}

MCDevices ==
  {[port |-> (1 :> wan @@ 2 :> lan), extended |-> {wan},
    rows |-> <<Row(publicIp, 1), Row(localIp, 1)>>],
   [port |-> (1 :> None @@ 2 :> wan), extended |-> {},
    rows |-> <<Row(publicIp, 1), Row(None, 2), Row(publicIp, 2)>>]}

Symmetric == Permutations(Sessions)
================================================================================
