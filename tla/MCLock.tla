------------------------------- MODULE MCLock --------------------------------
(* Instances of Lock for TLC: two requests for a name, one for another, and *)
(* two for the global lock.                                                 *)
EXTENDS Lock

CONSTANTS a, b, b1, g1, g2

MCName == [r \in Requests |-> IF r \in {g1, g2} THEN Global ELSE IF r = b1 THEN b ELSE a]
=============================================================================
