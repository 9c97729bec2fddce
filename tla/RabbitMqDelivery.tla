---------------------------- MODULE RabbitMqDelivery ----------------------------
(***************************************************************************)
(* RabbitMqGateway.publish() and the callback of the gateway's consumer:   *)
(* messages from the process that publishes them, through one durable      *)
(* queue, to their handlers. The message bus adds nothing: send(),         *)
(* publish() and on() pass on to the gateway.                              *)
(*                                                                         *)
(* Connections are numbered. RabbitMqGateway.tla shows that each of them   *)
(* has the consumer again. A message delivered over a connection is known  *)
(* there by its delivery tag, counted from 1 in each channel.              *)
(***************************************************************************)
EXTENDS Naturals, Sequences, FiniteSets

CONSTANTS
  Messages,
  Backlog,     \* those in the queue when the process starts
  Types,       \* message types, all bound to the queue by earlier processes
  TypeOf,      \* type of a message
  HandlersOf,  \* number of handlers that the process subscribes for a type
  Limit,       \* concurrentLimit
  MaxLosses    \* bound on lost connections

ASSUME ConstantsAssumption ==
  /\ IsFiniteSet(Messages) /\ Backlog \subseteq Messages
  /\ TypeOf \in [Messages -> Types] /\ HandlersOf \in [Types -> Nat \ {0}]
  /\ Limit \in Nat \ {0} /\ MaxLosses \in Nat

VARIABLES
  pub,        \* publish() of each message, by the await it is suspended at
  pubChannel, \* #pubChannel: "none", "open", or "closed" already
  wire,       \* messages written to the channel that the broker has not read
  broker,     \* what the broker has done with each message
  epoch,      \* number of the connection
  open,       \* whether it is open
  subs,       \* types subscribed so far
  delivered,  \* messages delivered over each connection, by delivery tag
  phase,      \* the callback for each delivery
  done,       \* handlers that it has completed
  answers     \* acks and nacks of it that reached the broker

publisher == <<pub, pubChannel, wire>>
callbacks == <<phase, done, answers>>
vars == <<publisher, broker, epoch, open, subs, delivered, callbacks>>

Epochs     == 1..(MaxLosses + 1)
Tags       == 1..Cardinality(Messages)
Deliveries == Epochs \X Tags
Running    == {"handling", "timedOut"}
Delivered(d) == d[2] \in DOMAIN delivered[d[1]]
MessageOf(d) == delivered[d[1]][d[2]]
Handlers(d)  == HandlersOf[TypeOf[MessageOf(d)]]

Init ==
  /\ pub        = [m \in Messages |-> "none"]
  /\ pubChannel = "none"
  /\ wire       = {}
  /\ broker     = [m \in Messages |-> IF m \in Backlog THEN "queued" ELSE "absent"]
  /\ epoch      = 1
  /\ open       = TRUE
  /\ subs       = {}
  /\ delivered  = [k \in Epochs |-> <<>>]
  /\ phase      = [d \in Deliveries |-> "none"]
  /\ done       = [d \in Deliveries |-> 0]
  /\ answers    = [d \in Deliveries |-> 0]

-----------------------------------------------------------------------------
(* publish().                                                              *)

Become(m, state) == pub' = [pub EXCEPT ![m] = state]

\* Without a channel one is asked for, by each of the calls that find none.
Publish(m) ==
  /\ pub[m] = "none" /\ m \notin Backlog
  /\ Become(m, IF pubChannel = "none" THEN "opening" ELSE "ready")
  /\ UNCHANGED <<pubChannel, wire, broker, epoch, open, subs, delivered, callbacks>>

\* The last channel is kept. Its exchange is asserted next.
ChannelOpened(m) ==
  /\ pub[m] = "opening" /\ open
  /\ pubChannel' = "open"
  /\ Become(m, "declaring")
  /\ UNCHANGED <<wire, broker, epoch, open, subs, delivered, callbacks>>

\* publish() awaits connect(), and that fails.
ConnectFails(m) ==
  /\ pub[m] = "opening" /\ ~open
  /\ Become(m, "rejected")
  /\ UNCHANGED <<pubChannel, wire, broker, epoch, open, subs, delivered, callbacks>>

ExchangeAsserted(m) ==
  /\ pub[m] = "declaring"
  /\ Become(m, "ready")
  /\ UNCHANGED <<pubChannel, wire, broker, epoch, open, subs, delivered, callbacks>>

\* Mutant of Write: publish() resolves when the channel has taken the message.
WriteUnconfirmed(m) ==
  /\ pub[m] = "ready" /\ pubChannel = "open"
  /\ wire' = wire \cup {m}
  /\ Become(m, "resolved")
  /\ UNCHANGED <<pubChannel, broker, epoch, open, subs, delivered, callbacks>>

\* The message is written to the channel of the day, whichever it is. If its buffer
\* is full by then, publish() is rejected all the same.
Write(m) ==
  /\ pub[m] = "ready" /\ pubChannel = "open"
  /\ wire' = wire \cup {m}
  /\ Become(m, "sent") \/ Become(m, "rejected")
  /\ UNCHANGED <<pubChannel, broker, epoch, open, subs, delivered, callbacks>>

\* There is no channel any more, or one that is closed.
NoChannel(m) ==
  /\ pub[m] = "ready" /\ pubChannel # "open"
  /\ Become(m, "rejected")
  /\ UNCHANGED <<pubChannel, wire, broker, epoch, open, subs, delivered, callbacks>>

\* The broker reads the message and routes it to the queue ...
Route(m) ==
  /\ m \in wire
  /\ wire'   = wire \ {m}
  /\ broker' = [broker EXCEPT ![m] = "queued"]
  /\ UNCHANGED <<pub, pubChannel, epoch, open, subs, delivered, callbacks>>

\* ... and confirms it.
Confirm(m) ==
  /\ pub[m] = "sent" /\ m \notin wire
  /\ Become(m, "resolved")
  /\ UNCHANGED <<pubChannel, wire, broker, epoch, open, subs, delivered, callbacks>>

-----------------------------------------------------------------------------
(* The callback of the consumer.                                           *)

\* on() for a type. The first one starts the consumer.
Subscribe(t) ==
  /\ t \notin subs
  /\ subs' = subs \cup {t}
  /\ UNCHANGED <<publisher, broker, epoch, open, delivered, callbacks>>

\* The broker delivers a message, with at most Limit of them unanswered.
Deliver(m) ==
  /\ open /\ subs # {}
  /\ broker[m] = "queued"
  /\ Cardinality({n \in Messages : broker[n] = "unacked"}) < Limit
  /\ broker' = [broker EXCEPT ![m] = "unacked"]
  /\ delivered' = [delivered EXCEPT ![epoch] = Append(@, m)]
  /\ phase' = [phase EXCEPT ![<<epoch, Len(delivered[epoch]) + 1>>] = "handling"]
  /\ UNCHANGED <<publisher, epoch, open, subs, done, answers>>

\* Mutant of Answer: the answer goes through the channel of the current connection.
AnswerThere(d, state) ==
  LET t == <<epoch, d[2]>> IN
    IF open /\ Delivered(t)
      THEN /\ broker'  = [broker EXCEPT ![MessageOf(t)] = state]
           /\ answers' = [answers EXCEPT ![t] = @ + 1]
      ELSE UNCHANGED <<broker, answers>>

\* ack() or nack() of a delivery through its own channel, which throws if it is
\* closed: nothing comes of that.
Answer(d, state) ==
  IF open /\ d[1] = epoch
    THEN /\ broker'  = [broker EXCEPT ![MessageOf(d)] = state]
         /\ answers' = [answers EXCEPT ![d] = @ + 1]
    ELSE UNCHANGED <<broker, answers>>

\* No handler is subscribed for the type of the message.
NoHandlers(d) ==
  /\ phase[d] = "handling" /\ done[d] = 0
  /\ TypeOf[MessageOf(d)] \notin subs
  /\ Answer(d, "dead")
  /\ phase' = [phase EXCEPT ![d] = "unhandled"]
  /\ UNCHANGED <<publisher, epoch, open, subs, delivered, done>>

\* A handler completes, and the next one is called.
HandlerCompletes(d) ==
  /\ phase[d] \in Running
  /\ TypeOf[MessageOf(d)] \in subs
  /\ done[d] + 1 < Handlers(d)
  /\ done' = [done EXCEPT ![d] = @ + 1]
  /\ UNCHANGED <<publisher, broker, epoch, open, subs, delivered, phase, answers>>

\* The last handler completes: the message is acknowledged, unless it timed out.
LastHandlerCompletes(d) ==
  /\ phase[d] \in Running
  /\ TypeOf[MessageOf(d)] \in subs
  /\ done[d] + 1 = Handlers(d)
  /\ done' = [done EXCEPT ![d] = @ + 1]
  /\ IF phase[d] = "timedOut" THEN UNCHANGED <<broker, answers>> ELSE Answer(d, "acked")
  /\ phase' = [phase EXCEPT ![d] = "completed"]
  /\ UNCHANGED <<publisher, epoch, open, subs, delivered>>

\* A handler throws: the others are not called, and the message is rejected.
HandlerThrows(d) ==
  /\ phase[d] \in Running
  /\ TypeOf[MessageOf(d)] \in subs
  /\ IF phase[d] = "timedOut" THEN UNCHANGED <<broker, answers>> ELSE Answer(d, "dead")
  /\ phase' = [phase EXCEPT ![d] = "failed"]
  /\ UNCHANGED <<publisher, epoch, open, subs, delivered, done>>

\* Mutant of TimesOut: the message is not marked as finalized.
TimesOutUnmarked(d) ==
  /\ phase[d] = "handling"
  /\ answers[d] = 0
  /\ Answer(d, "dead")
  /\ UNCHANGED <<publisher, epoch, open, subs, delivered, done, phase>>

\* keepAliveTimeout: the message is rejected, though its handler goes on.
TimesOut(d) ==
  /\ phase[d] = "handling"
  /\ Answer(d, "dead")
  /\ phase' = [phase EXCEPT ![d] = "timedOut"]
  /\ UNCHANGED <<publisher, epoch, open, subs, delivered, done>>

-----------------------------------------------------------------------------
(* The connection.                                                         *)

\* Messages that are not acknowledged are queued again, and what awaits the broker is
\* rejected. A channel may be kept that was opened just before (:808).
Lose ==
  /\ open /\ epoch <= MaxLosses
  /\ open'   = FALSE
  /\ wire'   = {}
  /\ broker' = [m \in Messages |-> IF broker[m] = "unacked" THEN "queued" ELSE broker[m]]
  /\ pub'    = [m \in Messages |-> IF pub[m] \in {"opening", "declaring", "sent"} THEN "rejected" ELSE pub[m]]
  /\ \/ pubChannel' = "none"
     \/ pubChannel' = "closed" /\ \E m \in Messages : pub[m] = "opening"
  /\ UNCHANGED <<epoch, subs, delivered, callbacks>>

Reconnect ==
  /\ ~open
  /\ open'  = TRUE
  /\ epoch' = epoch + 1
  /\ UNCHANGED <<publisher, broker, subs, delivered, callbacks>>

Publishing(m) ==
  \/ Publish(m) \/ ChannelOpened(m) \/ ConnectFails(m) \/ ExchangeAsserted(m)
  \/ Write(m) \/ NoChannel(m) \/ Route(m) \/ Confirm(m)

Handling(d) ==
  Delivered(d) /\ ( \/ NoHandlers(d) \/ HandlerCompletes(d) \/ LastHandlerCompletes(d)
                    \/ HandlerThrows(d) \/ TimesOut(d) )

Next ==
  \/ \E m \in Messages : Publishing(m) \/ Deliver(m)
  \/ \E t \in Types : Subscribe(t)
  \/ \E d \in Deliveries : Handling(d)
  \/ Lose \/ Reconnect

Spec == Init /\ [][Next]_vars

\* The process subscribes its types and reconnects, the broker reads and delivers,
\* and the timeout of a handler fires: no handler is assumed to return.
Fairness ==
  /\ \A t \in Types : WF_vars(Subscribe(t))
  /\ \A m \in Messages : WF_vars(Deliver(m)) /\ WF_vars(Route(m))
  /\ \A d \in Deliveries : WF_vars(Delivered(d) /\ (NoHandlers(d) \/ TimesOut(d)))
  /\ WF_vars(Reconnect)

FairSpec == Spec /\ Fairness

-----------------------------------------------------------------------------
(* Properties.                                                             *)

\* Types of the variables.
TypeOK ==
  /\ pub \in [Messages -> {"none", "opening", "declaring", "ready", "sent", "resolved", "rejected"}]
  /\ pubChannel \in {"none", "open", "closed"} /\ wire \subseteq Messages
  /\ broker \in [Messages -> {"absent", "queued", "unacked", "acked", "dead"}]
  /\ epoch \in Epochs /\ open \in BOOLEAN /\ subs \subseteq Types
  /\ delivered \in [Epochs -> Seq(Messages)]
  /\ phase \in [Deliveries -> Running \cup {"none", "unhandled", "completed", "failed"}]
  /\ done \in [Deliveries -> Nat] /\ answers \in [Deliveries -> Nat]

\* A message leaves the queue for good, as handled, only if one callback completed all
\* its handlers: never by the late answer of a callback whose connection was lost.
AckedWasHandled ==
  \A m \in Messages : broker[m] = "acked" =>
    \E d \in Deliveries : Delivered(d) /\ MessageOf(d) = m /\ phase[d] = "completed"
                                       /\ done[d] = Handlers(d)

\* A delivery is answered once: RabbitMQ closes the channel, with all its consumers, on
\* a second answer. The timeout, the handlers and their errors compete for it.
AnsweredOnce == \A d \in Deliveries : answers[d] <= 1

\* What publish() has confirmed, or the queue had before, is handled or rejected in the
\* end, whatever handlers, publishers and connections do.
EveryMessageSettles ==
  \A m \in Messages :
    m \in Backlog \/ pub[m] = "resolved" ~> broker[m] \in {"acked", "dead"}

\* "When a handler fails or times out, the message is discarded", or goes to the queue
\* of the failed ones (RabbitMqEventBus.ts:66-68): others are kept.
RejectedHasFailed ==
  \A m \in Messages : broker[m] = "dead" =>
    \E d \in Deliveries : Delivered(d) /\ MessageOf(d) = m /\ phase[d] \in {"failed", "timedOut", "completed"}

\* "The maximum number of concurrent messages to process" (RabbitMqGateway.ts:424).
ConcurrencyLimited == Cardinality({d \in Deliveries : phase[d] \in Running}) <= Limit
=============================================================================
