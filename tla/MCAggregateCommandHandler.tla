---------------------- MODULE MCAggregateCommandHandler ----------------------
(* Instances of AggregateCommandHandler for TLC. Commands c1 and c2 are sent *)
(* to process p1, and c3 to p2; all address the aggregate a1.                *)
EXTENDS AggregateCommandHandler

CONSTANTS p1, p2, c3, a1

MCAt     == [c \in Commands |-> IF c = c3 THEN p2 ELSE p1]
MCTarget == [c \in Commands |-> a1]

=============================================================================
