--------------------------- MODULE MCSagaEventHandler ---------------------------
\* Events that are answered with two commands, one and none.
EXTENDS SagaEventHandler, TLC

MCCommandsOf == (1 :> 2) @@ (2 :> 1) @@ (3 :> 0) @@ (4 :> 1)
=============================================================================
