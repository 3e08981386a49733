------------------------------ MODULE MCClient ------------------------------
(* Up to two full pages, and a third once somebody adds an object; three   *)
(* objects to write, two of them through ERS, so that a session can end    *)
(* between two writes.                                                     *)
EXTENDS Client

CONSTANTS a, b, c, e

MCStarts == {<<>>, <<a, b, c>>, <<a, b, c, e>>}
=============================================================================
