------------------------- MODULE MCMongoEventStorage --------------------------
(* Instances of MongoEventStorage for TLC: batches of one, two and two events. *)
EXTENDS MongoEventStorage

CONSTANTS single

MCSize == [c \in Commits |-> IF c = single THEN 1 ELSE 2]
===============================================================================
