----------------------- MODULE MCEventDispatchPipeline ------------------------
(* Instances of EventDispatchPipeline for TLC: batches x1 and x2 hold events *)
(* of the aggregate x, and the others one event of the aggregate y.          *)
EXTENDS EventDispatchPipeline

CONSTANTS x, y, x1, x2

MCAggregate == [b \in Batches |-> IF b \in {x1, x2} THEN x ELSE y]
MCSize      == [b \in Batches |-> IF b = x1 THEN 2 ELSE 1]
===============================================================================
