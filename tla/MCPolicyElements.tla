-------------------------- MODULE MCPolicyElements --------------------------
(* One domain whose join point the target may know under another name; a   *)
(* device group three levels deep below the factory's; a profile with a    *)
(* dACL and a redirection, one that reads the join point's dictionary; a   *)
(* sequence over the join point, the REST store and the certificate        *)
(* profile.                                                                *)
EXTENDS PolicyElements

CONSTANTS ad1, ad2, d1, g1, g2, c1, preloaded, r1, guest, staff, all

MCSourceJps == [j \in {ad1} |-> [domain |-> d1, groups |-> {g1, g2}]]

Top == <<"Location", "All">>
MCNdgs == {Top, Append(Top, "Site"), Append(Append(Top, "Site"), "Floor")}
MCFactoryNdgs == {Top}

MCProfiles ==
  [p \in {guest, staff} |->
     IF p = guest THEN [dacl |-> "acl1", reads |-> None, redirects |-> TRUE]
                  ELSE [dacl |-> None, reads |-> ad1, redirects |-> FALSE]]

MCSequences == [s \in {all} |-> {Jp(ad1), Rest(r1), Cert(c1)}]

MCMayMiss == {Ndg(Append(Top, "Site"))}

Hand(joined, groups, attrs) ==
  [domain |-> d1, joined |-> joined, groups |-> groups, attrs |-> attrs]

\* A new deployment; the join point made by hand, or joined and with one of
\* its groups.  Another name for the domain comes with an edit.
MCStarts ==
  {[jps |-> <<>>, have |-> {}],
   [jps |-> [j \in {ad1} |-> Hand(FALSE, {}, FALSE)], have |-> {}],
   [jps |-> [j \in {ad1} |-> Hand(TRUE, {g1}, TRUE)], have |-> {Dacl("acl1")}]}
=============================================================================
