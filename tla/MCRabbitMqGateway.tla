--------------------------- MODULE MCRabbitMqGateway ---------------------------
EXTENDS RabbitMqGateway, TLC

CONSTANTS s1, s2, s3, q1

\* Two subscriptions on a durable queue, one on the exclusive queue.
MCQueueOf == [s \in Subscriptions |-> IF s = s3 THEN Exclusive ELSE q1]
=============================================================================
