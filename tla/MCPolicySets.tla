---------------------------- MODULE MCPolicySets ----------------------------
(* Two sets and Default.  "web" comes first on the source and last in the  *)
(* alphabet, and one of its rules reads a dictionary that only appears     *)
(* once somebody joins the domain; the other refers to a library condition *)
(* that the bundle carries.                                                *)
EXTENDS PolicySets

CONSTANTS web, guest, default, r1, r2, r3, cond, dict

MCSource == <<web, guest, default>>
MCNameRank == (web :> 3) @@ (guest :> 2) @@ (default :> 1)
MCRulesOf == (web :> <<r1, r2>>) @@ (guest :> <<r1>>) @@ (default :> <<r3>>)
MCSetNeeds == (web :> {}) @@ (guest :> {cond})
MCNeeds == (r1 :> {}) @@ (r2 :> {cond}) @@ (r3 :> {dict})
MCElementNeeds == cond :> {}
=============================================================================
