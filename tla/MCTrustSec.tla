----------------------------- MODULE MCTrustSec -----------------------------
(* A source with two groups, two SGACLs, the default cell, a cell with two *)
(* SGACLs and a cell that carries a catch-all rule beside its SGACL.  A    *)
(* third group exists only on the target and may hold a tag value of the   *)
(* source.                                                                 *)
EXTENDS TrustSec

CONSTANTS s1, s2, s3, a1, a2

MCSourceSgts == [s \in {s1, s2} |-> IF s = s1 THEN 1 ELSE 2]

MCSourceCells ==
  [p \in {AnyPair, <<s1, s2>>, <<s2, s2>>} |->
     IF p = AnyPair THEN <<>> ELSE IF p = <<s1, s2>> THEN <<a1, a2>> ELSE <<a2>>]

MCTwoRules == {<<s2, s2>>}
=============================================================================
