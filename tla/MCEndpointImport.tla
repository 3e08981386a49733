-------------------------- MODULE MCEndpointImport --------------------------
(* A bundle that brings one group and three endpoints: one in the group    *)
(* the bundle brings, one that also has a static profile and whose group   *)
(* the target must have, one without a MAC address; and a bundle without   *)
(* endpoints.                                                              *)
EXTENDS EndpointImport

CONSTANTS g1, g2, p1, m1, m2

MCBundles ==
  { [groups |-> {g1},
     eps |-> [m \in {m1, m2, NoMac} |-> IF m = m2 THEN [group |-> g2, profile |-> p1]
                                                  ELSE [group |-> g1, profile |-> NoName]]],
    [groups |-> {g1, NoName}, eps |-> <<>>] }
=============================================================================
