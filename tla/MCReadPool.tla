----------------------------- MODULE MCReadPool -----------------------------
(* An export over more groups than workers, so that the caller still has   *)
(* indices to send when the first failure is recorded.  Of the source's    *)
(* endpoints one has a static group, one a static profile only, one has    *)
(* both, and one is profiled; one request selects the group of the    *)
(* first two and one that is gone.                                         *)
EXTENDS EndpointExport

CONSTANTS a, b, c, d, p, q, m1, m2, m3, m4

MCSources ==
  { [groups |-> <<a, b, c>>, nested |-> {2}, profiles |-> <<p, q>>,
     eps |-> [m \in Macs |->
       CASE m = m1 -> [group |-> 1, profile |-> 1, staticGroup |-> TRUE, staticProfile |-> FALSE]
         [] m = m2 -> [group |-> 1, profile |-> 2, staticGroup |-> FALSE, staticProfile |-> TRUE]
         [] m = m3 -> [group |-> 2, profile |-> NoId, staticGroup |-> TRUE, staticProfile |-> TRUE]
         [] m = m4 -> [group |-> 2, profile |-> 1, staticGroup |-> FALSE, staticProfile |-> FALSE]]] }

MCRequests ==
  [families : {{"groups"}, {"groups", "endpoints"}}, selection : {{a, b}}]
    \cup {[families |-> {"endpoints"}, selection |-> {a, d}],
          [families |-> {"endpoints"}, selection |-> {}],
          [families |-> {}, selection |-> {a}]}
=============================================================================
