--------------------------- MODULE MCRabbitMqDelivery ---------------------------
\* Two types, one of them with two handlers.
EXTENDS RabbitMqDelivery, TLC

CONSTANTS m1, m2, a, b

MCTypeOf     == [m \in Messages |-> IF m = m1 THEN a ELSE b]
MCHandlersOf == (a :> 2) @@ (b :> 1)
=============================================================================
