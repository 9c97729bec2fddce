------------------------ MODULE RabbitMqDeliveryProofs ------------------------
(***************************************************************************)
(* Proofs about RabbitMqDelivery, for any messages, types and numbers of   *)
(* handlers, any limit of unanswered messages and any losses of the        *)
(* connection; and about RabbitMqGateway, which makes the connections, for *)
(* any subscriptions, queues, calls and failures.                          *)
(***************************************************************************)
EXTENDS RabbitMqDelivery, SequenceTheorems, TLAPS

Phases == Running \cup {"none", "unhandled", "completed", "failed"}

BrokerStates == {"absent", "queued", "unacked", "acked", "dead"}

PubStates == {"none", "opening", "declaring", "ready", "sent", "resolved", "rejected"}

------------------------------------------------------------------------------
(* The steps, by what they do to the deliveries.                           *)

\* Steps of publishers, subscriptions and the connection: the callbacks are not
\* run, and no message is acknowledged.
Elsewhere ==
  /\ UNCHANGED <<delivered, callbacks>>
  /\ \A m \in Messages : broker'[m] = "acked" => broker[m] = "acked"

\* answer() of a delivery, or none, and the next phase of its callback.
Answered(d, state, next) ==
  /\ phase' = [phase EXCEPT ![d] = next]
  /\ Answer(d, state)

\* A callback that is done with a message without an answer, as it timed out.
Unanswered(d, next) ==
  /\ phase[d] = "timedOut"
  /\ phase' = [phase EXCEPT ![d] = next]
  /\ UNCHANGED <<broker, answers>>

\* What a callback does in one step.
LEMMA CallbackSteps ==
  ASSUME NEW d \in Deliveries, Handling(d)
  PROVE  /\ Delivered(d) /\ UNCHANGED <<publisher, epoch, open, subs, delivered>>
         /\ \/ /\ phase[d] = "handling" /\ UNCHANGED done
               /\ \E next \in {"unhandled", "failed", "timedOut"} : Answered(d, "dead", next)
            \/ /\ phase[d] \in Running /\ done' = [done EXCEPT ![d] = @ + 1]
               /\ UNCHANGED <<phase, broker, answers>>
            \/ /\ phase[d] = "handling" /\ done' = [done EXCEPT ![d] = @ + 1]
               /\ done[d] + 1 = Handlers(d) /\ Answered(d, "acked", "completed")
            \/ /\ done' = [done EXCEPT ![d] = @ + 1] /\ Unanswered(d, "completed")
            \/ UNCHANGED done /\ Unanswered(d, "failed")
<1>1. Delivered(d) /\ UNCHANGED <<publisher, epoch, open, subs, delivered>>
  BY DEF Handling, NoHandlers, HandlerCompletes, LastHandlerCompletes, HandlerThrows, TimesOut
<1>2. CASE NoHandlers(d) \/ TimesOut(d)
  BY <1>1, <1>2 DEF NoHandlers, TimesOut, Answered
<1>3. CASE HandlerCompletes(d)
  BY <1>1, <1>3 DEF HandlerCompletes
<1>4. CASE LastHandlerCompletes(d)
  BY <1>1, <1>4 DEF LastHandlerCompletes, Answered, Unanswered, Running
<1>5. CASE HandlerThrows(d)
  BY <1>1, <1>5 DEF HandlerThrows, Answered, Unanswered, Running
<1>. QED
  BY <1>2, <1>3, <1>4, <1>5 DEF Handling

\* The other steps but a delivery.
LEMMA OtherSteps ==
  ASSUME TypeOK,
         \/ \E m \in Messages : Publishing(m)
         \/ \E t \in Types : Subscribe(t)
         \/ Lose \/ Reconnect \/ UNCHANGED vars
  PROVE  Elsewhere
<1>1. ASSUME NEW m \in Messages, Publishing(m)
      PROVE  Elsewhere
  <2>1. CASE Route(m)
    <3>1. /\ broker' = [broker EXCEPT ![m] = "queued"]
          /\ UNCHANGED <<delivered, callbacks>>
      BY <2>1 DEF Route
    <3>. QED
      BY <3>1 DEF Elsewhere, TypeOK
  <2>2. CASE ~Route(m)
    <3>1. UNCHANGED <<broker, delivered, callbacks>>
      BY <1>1, <2>2 DEF Publishing, Publish, ChannelOpened, ConnectFails, ExchangeAsserted, Write,
                        NoChannel, Confirm
    <3>. QED
      BY <3>1 DEF Elsewhere
  <2>. QED
    BY <2>1, <2>2
<1>2. ASSUME NEW t \in Types, Subscribe(t)
      PROVE  Elsewhere
  BY <1>2 DEF Subscribe, Elsewhere
<1>3. CASE Lose
  <2>1. /\ broker' = [m \in Messages |-> IF broker[m] = "unacked" THEN "queued" ELSE broker[m]]
        /\ UNCHANGED <<delivered, callbacks>>
    BY <1>3 DEF Lose
  <2>. QED
    BY <2>1 DEF Elsewhere
<1>4. CASE Reconnect \/ UNCHANGED vars
  BY <1>4 DEF Reconnect, vars, Elsewhere
<1>. QED
  BY <1>1, <1>2, <1>3, <1>4

------------------------------------------------------------------------------
(* Type correctness.                                                       *)

\* A connection is replaced only as often as one is lost.
ConnectionInv == ~open => epoch <= MaxLosses

\* What the callbacks and the broker share.
SharedType ==
  /\ broker \in [Messages -> BrokerStates]
  /\ delivered \in [Epochs -> Seq(Messages)]
  /\ phase \in [Deliveries -> Phases]
  /\ done \in [Deliveries -> Nat]
  /\ answers \in [Deliveries -> Nat]

\* What the publishers and the connection have beside it.
OwnType ==
  /\ pub \in [Messages -> PubStates]
  /\ pubChannel \in {"none", "open", "closed"} /\ wire \subseteq Messages
  /\ epoch \in Epochs /\ open \in BOOLEAN /\ subs \subseteq Types

\* TypeOK in two parts.
LEMMA Types2 ==
  /\ TypeOK <=> SharedType /\ OwnType
  /\ TypeOK' <=> SharedType' /\ OwnType'
  BY DEF TypeOK, SharedType, OwnType, BrokerStates, Phases, PubStates

\* The message of a delivery that there was.
LEMMA MessageType ==
  ASSUME SharedType, NEW d \in Deliveries, Delivered(d)
  PROVE  d[1] \in Epochs /\ MessageOf(d) \in Messages
<1>1. d[1] \in Epochs
  BY DEF Deliveries
<1>2. delivered[d[1]] \in Seq(Messages)
  BY <1>1 DEF SharedType
<1>3. delivered[d[1]][d[2]] \in Messages
  BY <1>2 DEF Delivered
<1>. QED
  BY <1>1, <1>3 DEF MessageOf

\* An answer changes the message of its delivery only.
LEMMA AnswerType ==
  ASSUME SharedType, NEW d \in Deliveries, Delivered(d), NEW state \in {"acked", "dead"},
         Answer(d, state)
  PROVE  /\ broker' \in [Messages -> BrokerStates] /\ answers' \in [Deliveries -> Nat]
         /\ \A m \in Messages : broker'[m] \in {broker[m], state}
         /\ \A m \in Messages : m # MessageOf(d) => broker'[m] = broker[m]
         /\ answers'[d] \in {answers[d], answers[d] + 1}
         /\ \A e \in Deliveries : e # d => answers'[e] = answers[e]
<1>1. MessageOf(d) \in Messages
  BY MessageType
<1>2. CASE open /\ d[1] = epoch
  <2>1. /\ broker'  = [broker EXCEPT ![MessageOf(d)] = state]
        /\ answers' = [answers EXCEPT ![d] = @ + 1]
    BY <1>2 DEF Answer
  <2>. QED
    BY <1>1, <2>1 DEF SharedType, BrokerStates
<1>3. CASE ~(open /\ d[1] = epoch)
  <2>1. UNCHANGED <<broker, answers>>
    BY <1>3 DEF Answer
  <2>. QED
    BY <2>1 DEF SharedType
<1>. QED
  BY <1>2, <1>3

\* TypeOK is an invariant.
LEMMA TypeStep ==
  ASSUME TypeOK, ConnectionInv, [Next]_vars
  PROVE  TypeOK' /\ ConnectionInv'
<1>0. SharedType /\ OwnType
  BY Types2
<1>1. OwnType' /\ ConnectionInv'
  <2>1. ASSUME NEW m \in Messages, Publishing(m)
        PROVE  OwnType' /\ ConnectionInv'
    <3>1. UNCHANGED <<epoch, open, subs>>
      BY <2>1 DEF Publishing, Publish, ChannelOpened, ConnectFails, ExchangeAsserted, Write,
                  NoChannel, Route, Confirm
    <3>2. /\ pubChannel' \in {pubChannel, "open"} /\ wire' \subseteq wire \cup {m}
          /\ pub' = pub \/ \E s \in PubStates : pub' = [pub EXCEPT ![m] = s]
      BY <2>1 DEF Publishing, Publish, ChannelOpened, ConnectFails, ExchangeAsserted, Write,
                  NoChannel, Route, Confirm, Become, PubStates
    <3>. QED
      BY <1>0, <3>1, <3>2 DEF OwnType, ConnectionInv
  <2>2. ASSUME NEW m \in Messages, Deliver(m)
        PROVE  OwnType' /\ ConnectionInv'
    BY <1>0, <2>2 DEF Deliver, OwnType, ConnectionInv, publisher
  <2>3. ASSUME NEW t \in Types, Subscribe(t)
        PROVE  OwnType' /\ ConnectionInv'
    BY <1>0, <2>3 DEF Subscribe, OwnType, ConnectionInv, publisher
  <2>4. ASSUME NEW d \in Deliveries, Handling(d)
        PROVE  OwnType' /\ ConnectionInv'
    BY <1>0, <2>4, CallbackSteps DEF OwnType, ConnectionInv, publisher
  <2>5. CASE Lose
    BY <1>0, <2>5 DEF Lose, OwnType, ConnectionInv, PubStates
  <2>6. CASE Reconnect
    <3>1. epoch' = epoch + 1 /\ open' = TRUE /\ UNCHANGED <<pub, pubChannel, wire, subs>>
      BY <2>6 DEF Reconnect, publisher
    <3>2. epoch \in 1..(MaxLosses + 1) /\ epoch <= MaxLosses
      BY <1>0, <2>6 DEF OwnType, Epochs, ConnectionInv, Reconnect
    <3>3. epoch' \in Epochs
      BY <3>1, <3>2, ConstantsAssumption DEF Epochs
    <3>. QED
      BY <1>0, <3>1, <3>3 DEF OwnType, ConnectionInv
  <2>7. CASE UNCHANGED vars
    BY <1>0, <2>7 DEF vars, publisher, OwnType, ConnectionInv
  <2>. QED
    BY <2>1, <2>2, <2>3, <2>4, <2>5, <2>6, <2>7 DEF Next
<1>2. SharedType'
  <2>1. ASSUME NEW m \in Messages, Publishing(m)
        PROVE  SharedType'
    <3>1. /\ UNCHANGED <<delivered, phase, done, answers>>
          /\ broker' = broker \/ broker' = [broker EXCEPT ![m] = "queued"]
      BY <2>1 DEF Publishing, Publish, ChannelOpened, ConnectFails, ExchangeAsserted, Write,
                  NoChannel, Route, Confirm, callbacks
    <3>. QED
      BY <1>0, <3>1 DEF SharedType, BrokerStates
  <2>2. ASSUME NEW m \in Messages, Deliver(m)
        PROVE  SharedType'
    <3>1. broker' \in [Messages -> BrokerStates]
      BY <1>0, <2>2 DEF Deliver, SharedType, BrokerStates
    <3>2. delivered' \in [Epochs -> Seq(Messages)]
      <4>1. epoch \in Epochs /\ delivered' = [delivered EXCEPT ![epoch] = Append(@, m)]
        BY <1>0, <2>2 DEF Deliver, OwnType
      <4>2. Append(delivered[epoch], m) \in Seq(Messages)
        BY <1>0, <4>1 DEF SharedType
      <4>. QED
        BY <1>0, <4>1, <4>2 DEF SharedType
    <3>3. phase' \in [Deliveries -> Phases]
      BY <1>0, <2>2 DEF Deliver, SharedType, Phases, Running
    <3>. QED
      BY <1>0, <2>2, <3>1, <3>2, <3>3 DEF Deliver, SharedType
  <2>3. ASSUME NEW d \in Deliveries, Handling(d)
        PROVE  SharedType'
    <3>1. Delivered(d) /\ UNCHANGED delivered
      BY <2>3, CallbackSteps
    <3>2. done' \in [Deliveries -> Nat]
      <4>1. UNCHANGED done \/ done' = [done EXCEPT ![d] = @ + 1]
        BY <2>3, CallbackSteps
      <4>. QED
        BY <1>0, <4>1 DEF SharedType
    <3>3. /\ phase' = phase \/ \E next \in Phases : phase' = [phase EXCEPT ![d] = next]
          /\ UNCHANGED <<broker, answers>> \/ \E s \in {"acked", "dead"} : Answer(d, s)
      BY <2>3, CallbackSteps DEF Answered, Unanswered, Phases, Running
    <3>4. phase' \in [Deliveries -> Phases]
      BY <1>0, <3>3 DEF SharedType
    <3>5. broker' \in [Messages -> BrokerStates] /\ answers' \in [Deliveries -> Nat]
      BY <1>0, <3>1, <3>3, AnswerType DEF SharedType
    <3>. QED
      BY <1>0, <3>1, <3>2, <3>4, <3>5 DEF SharedType
  <2>4. CASE Lose
    <3>1. /\ broker' = [m \in Messages |-> IF broker[m] = "unacked" THEN "queued" ELSE broker[m]]
          /\ UNCHANGED <<delivered, phase, done, answers>>
      BY <2>4 DEF Lose, callbacks
    <3>. QED
      BY <1>0, <3>1 DEF SharedType, BrokerStates
  <2>5. CASE (\E t \in Types : Subscribe(t)) \/ Reconnect \/ UNCHANGED vars
    BY <1>0, <2>5 DEF Subscribe, Reconnect, vars, callbacks, SharedType
  <2>. QED
    BY <2>1, <2>2, <2>3, <2>4, <2>5 DEF Next
<1>. QED
  BY <1>1, <1>2, Types2

\* The variables of publishers, broker and callbacks keep their types, and
\* connections are numbered within their bound.
THEOREM TypeCorrect == Spec => []TypeOK
<1>1. Init => TypeOK /\ ConnectionInv
  <2>. SUFFICES ASSUME Init
                PROVE  TypeOK /\ ConnectionInv
    OBVIOUS
  <2>1. delivered \in [Epochs -> Seq(Messages)]
    BY DEF Init
  <2>2. broker \in [Messages -> BrokerStates]
    BY DEF Init, BrokerStates
  <2>3. epoch \in Epochs
    BY ConstantsAssumption DEF Init, Epochs
  <2>4. SharedType
    BY <2>1, <2>2 DEF Init, SharedType, Phases
  <2>5. OwnType /\ ConnectionInv
    BY <2>3 DEF Init, OwnType, PubStates, ConnectionInv
  <2>. QED
    BY <2>4, <2>5, Types2
<1>. QED
  BY <1>1, TypeStep, PTL DEF Spec

------------------------------------------------------------------------------
(* Answers and acknowledgements.                                           *)
(*                                                                         *)
(* A delivery that is not finalized has not been answered: the timeout,    *)
(* the handlers and their errors all finalize it in the step that answers. *)
(* Delivery tags are not used again, so that nothing is left of an earlier *)
(* callback when a message is delivered.                                   *)

AnswerInv ==
  \A d \in Deliveries :
    /\ phase[d] # "none" => Delivered(d)
    /\ phase[d] \in {"none", "handling"} => answers[d] = 0
    /\ answers[d] \in 0..1

\* The callback of a delivery starts afresh, and those of the others go on.
LEMMA DeliverStep ==
  ASSUME TypeOK, AnswerInv, NEW m \in Messages, Deliver(m)
  PROVE  /\ \A d \in Deliveries : Delivered(d) => Delivered(d)' /\ MessageOf(d)' = MessageOf(d)
         /\ \A d \in Deliveries :
              \/ phase'[d] = phase[d]
              \/ phase[d] = "none" /\ phase'[d] = "handling" /\ Delivered(d)'
         /\ UNCHANGED <<done, answers, subs>>
         /\ \A n \in Messages : broker'[n] = "acked" => broker[n] = "acked"
<1>. DEFINE k == Len(delivered[epoch]) + 1
<1>1. /\ epoch \in Epochs /\ delivered[epoch] \in Seq(Messages)
      /\ delivered' = [delivered EXCEPT ![epoch] = Append(@, m)]
      /\ phase' = [phase EXCEPT ![<<epoch, k>>] = "handling"]
  BY Types2 DEF Deliver, SharedType, OwnType
<1>2. /\ DOMAIN delivered[epoch] = 1..(k - 1) /\ k \in Nat
      /\ delivered'[epoch] = Append(delivered[epoch], m)
      /\ \A e \in Epochs : e # epoch => delivered'[e] = delivered[e]
  BY <1>1, Types2 DEF SharedType
<1>3. /\ DOMAIN delivered'[epoch] = 1..k
      /\ \A i \in 1..(k - 1) : delivered'[epoch][i] = delivered[epoch][i]
  BY <1>1, <1>2
<1>. HIDE DEF k
<1>4. ASSUME NEW d \in Deliveries, Delivered(d)
      PROVE  Delivered(d)' /\ MessageOf(d)' = MessageOf(d)
  <2>1. d[1] \in Epochs
    BY DEF Deliveries
  <2>2. CASE d[1] = epoch
    <3>1. d[2] \in 1..(k - 1)
      BY <1>2, <1>4, <2>2 DEF Delivered
    <3>2. d[2] \in 1..k
      BY <1>2, <3>1
    <3>. QED
      BY <1>3, <2>2, <3>1, <3>2 DEF Delivered, MessageOf
  <2>3. CASE d[1] # epoch
    BY <1>2, <1>4, <2>1, <2>3 DEF Delivered, MessageOf
  <2>. QED
    BY <2>2, <2>3
<1>5. ASSUME NEW d \in Deliveries, phase'[d] # phase[d]
      PROVE  phase[d] = "none" /\ phase'[d] = "handling" /\ Delivered(d)'
  <2>1. d = <<epoch, k>> /\ phase'[d] = "handling"
    BY <1>1, <1>5, Types2 DEF SharedType
  <2>2. ~Delivered(d)
    BY <1>2, <2>1 DEF Delivered
  <2>3. k \in 1..k
    BY <1>2, <2>1 DEF Deliveries, Tags
  <2>4. Delivered(d)'
    BY <1>3, <2>1, <2>3 DEF Delivered
  <2>. QED
    BY <2>1, <2>2, <2>4 DEF AnswerInv
<1>6. UNCHANGED <<done, answers, subs>>
  BY DEF Deliver
<1>7. \A n \in Messages : broker'[n] = "acked" => broker[n] = "acked"
  BY Types2 DEF Deliver, SharedType
<1>. QED
  BY <1>4, <1>5, <1>6, <1>7

\* AnswerInv is an invariant.
LEMMA AnswerStep ==
  ASSUME TypeOK, AnswerInv, [Next]_vars
  PROVE  AnswerInv'
<1>0. SharedType
  BY Types2
<1>1. ASSUME NEW m \in Messages, Deliver(m)
      PROVE  AnswerInv'
  BY <1>1, DeliverStep DEF AnswerInv
<1>2. ASSUME NEW d \in Deliveries, Handling(d)
      PROVE  AnswerInv'
  <2>. SUFFICES ASSUME NEW e \in Deliveries
                PROVE  /\ phase'[e] # "none" => Delivered(e)'
                       /\ phase'[e] \in {"none", "handling"} => answers'[e] = 0
                       /\ answers'[e] \in 0..1
    BY DEF AnswerInv
  <2>1. Delivered(d) /\ Delivered(e)' = Delivered(e)
    BY <1>2, CallbackSteps DEF Delivered
  <2>2. CASE e # d
    <3>1. phase'[e] = phase[e] /\ answers'[e] = answers[e]
      <4>1. CASE \E s \in {"acked", "dead"}, next \in Phases : Answered(d, s, next)
        BY <1>0, <2>1, <2>2, <4>1, AnswerType DEF Answered, SharedType
      <4>2. CASE UNCHANGED <<phase, answers>> \/ \E next \in Phases : Unanswered(d, next)
        BY <1>0, <2>2, <4>2 DEF Unanswered, SharedType
      <4>. QED
        BY <1>2, <4>1, <4>2, CallbackSteps DEF Phases, Running
    <3>. QED
      BY <2>1, <3>1 DEF AnswerInv
  <2>3. CASE e = d
    <3>1. CASE phase[d] = "handling" /\ \E s \in {"acked", "dead"},
                 next \in {"unhandled", "failed", "timedOut", "completed"} : Answered(d, s, next)
      <4>1. PICK s \in {"acked", "dead"}, next \in {"unhandled", "failed", "timedOut", "completed"} :
              Answered(d, s, next)
        BY <3>1
      <4>2. phase'[d] = next
        BY <1>0, <4>1 DEF Answered, SharedType
      <4>3. answers[d] = 0 /\ answers'[d] \in {answers[d], answers[d] + 1}
        BY <1>0, <2>1, <3>1, <4>1, AnswerType DEF AnswerInv, Answered
      <4>. QED
        BY <2>1, <2>3, <4>2, <4>3
    <3>2. CASE UNCHANGED <<phase, answers>>
      BY <2>1, <3>2 DEF AnswerInv
    <3>3. CASE \E next \in {"completed", "failed"} : Unanswered(d, next)
      <4>1. phase'[d] \in {"completed", "failed"} /\ answers'[d] = answers[d]
        BY <1>0, <3>3 DEF Unanswered, SharedType
      <4>. QED
        BY <2>1, <2>3, <4>1 DEF AnswerInv
    <3>. QED
      BY <1>2, <3>1, <3>2, <3>3, CallbackSteps
  <2>. QED
    BY <2>2, <2>3
<1>3. CASE Elsewhere
  BY <1>3 DEF Elsewhere, callbacks, AnswerInv, Delivered
<1>. QED
  BY <1>1, <1>2, <1>3, OtherSteps DEF Next

LEMMA Answers == Spec => [](TypeOK /\ AnswerInv)
<1>1. Init => AnswerInv
  BY DEF Init, AnswerInv
<1>. QED
  BY <1>1, AnswerStep, TypeCorrect, PTL DEF Spec

\* No delivery is answered twice, whichever of the timeout, the handlers and
\* their errors comes first, and however often the connection is lost.
THEOREM OneAnswer == Spec => []AnsweredOnce
<1>1. TypeOK /\ AnswerInv => AnsweredOnce
  BY DEF AnswerInv, AnsweredOnce
<1>. QED
  BY <1>1, Answers, PTL

\* What a delivery has completed it has completed for good.
LEMMA HandledStep ==
  ASSUME TypeOK, AnswerInv, AckedWasHandled, [Next]_vars
  PROVE  AckedWasHandled'
<1>. DEFINE Handled(d, m) == /\ Delivered(d) /\ MessageOf(d) = m
                             /\ phase[d] = "completed" /\ done[d] = Handlers(d)
<1>0. SharedType
  BY Types2
<1>1. ASSUME \A d \in Deliveries : Delivered(d) /\ phase[d] = "completed" =>
               /\ Delivered(d)' /\ MessageOf(d)' = MessageOf(d)
               /\ phase'[d] = "completed" /\ done'[d] = done[d],
             NEW m \in Messages, broker[m] = "acked"
      PROVE  \E d \in Deliveries : Handled(d, m)'
  <2>1. PICK d \in Deliveries : Handled(d, m)
    BY <1>1 DEF AckedWasHandled
  <2>2. Handlers(d)' = Handlers(d)
    BY <1>1, <2>1 DEF Handlers
  <2>3. Handled(d, m)'
    BY <1>1, <2>1, <2>2
  <2>. QED
    BY <2>3
<1>2. ASSUME NEW m \in Messages, Deliver(m)
      PROVE  AckedWasHandled'
  <2>1. \A d \in Deliveries : Delivered(d) /\ phase[d] = "completed" =>
               /\ Delivered(d)' /\ MessageOf(d)' = MessageOf(d)
               /\ phase'[d] = "completed" /\ done'[d] = done[d]
    BY <1>2, DeliverStep
  <2>2. \A n \in Messages : broker'[n] = "acked" => broker[n] = "acked"
    BY <1>2, DeliverStep
  <2>. QED
    BY <1>1, <2>1, <2>2 DEF AckedWasHandled
<1>3. ASSUME NEW c \in Deliveries, Handling(c)
      PROVE  AckedWasHandled'
  <2>1. Delivered(c) /\ delivered' = delivered
    BY <1>3, CallbackSteps
  <2>2. \A d \in Deliveries : /\ Delivered(d) => Delivered(d)' /\ MessageOf(d)' = MessageOf(d)
                              /\ Handlers(d)' = Handlers(d)
    BY <2>1 DEF Delivered, MessageOf, Handlers
  <2>3. /\ phase[c] \in Running
        /\ UNCHANGED done \/ done' = [done EXCEPT ![c] = @ + 1]
        /\ UNCHANGED phase \/ \E next \in Phases : phase' = [phase EXCEPT ![c] = next]
    BY <1>3, CallbackSteps DEF Answered, Unanswered, Phases, Running
  <2>4. \A d \in Deliveries : Delivered(d) /\ phase[d] = "completed" =>
               /\ Delivered(d)' /\ MessageOf(d)' = MessageOf(d)
               /\ phase'[d] = "completed" /\ done'[d] = done[d]
    BY <1>0, <2>2, <2>3 DEF Running, SharedType
  <2>. SUFFICES ASSUME NEW m \in Messages, broker'[m] = "acked"
                PROVE  \E d \in Deliveries : Handled(d, m)'
    BY DEF AckedWasHandled
  <2>5. CASE broker[m] = "acked"
    BY <1>1, <2>4, <2>5
  <2>6. CASE broker[m] # "acked"
    <3>1. /\ done' = [done EXCEPT ![c] = @ + 1] /\ done[c] + 1 = Handlers(c)
          /\ Answered(c, "acked", "completed")
      <4>1. ASSUME \E next \in Phases : Answered(c, "dead", next)
            PROVE  FALSE
        BY <1>0, <2>1, <2>6, <4>1, AnswerType DEF Answered
      <4>2. broker' # broker
        BY <2>6
      <4>. QED
        BY <1>3, <4>1, <4>2, CallbackSteps DEF Unanswered, Phases, Running
    <3>2. m = MessageOf(c)
      BY <1>0, <2>1, <2>6, <3>1, AnswerType DEF Answered
    <3>3. phase'[c] = "completed" /\ done'[c] = Handlers(c)
      BY <1>0, <3>1 DEF Answered, SharedType
    <3>4. Handled(c, m)'
      BY <2>1, <2>2, <3>2, <3>3
    <3>. QED
      BY <3>4
  <2>. QED
    BY <2>5, <2>6
<1>4. CASE Elsewhere
  <2>1. \A d \in Deliveries : Delivered(d) /\ phase[d] = "completed" =>
               /\ Delivered(d)' /\ MessageOf(d)' = MessageOf(d)
               /\ phase'[d] = "completed" /\ done'[d] = done[d]
    BY <1>4 DEF Elsewhere, callbacks, Delivered, MessageOf
  <2>. QED
    BY <1>1, <1>4, <2>1 DEF Elsewhere, AckedWasHandled
<1>. QED
  BY <1>2, <1>3, <1>4, OtherSteps DEF Next

\* A message that has left the queue as handled was handled to the end by a
\* callback, all its handlers: no late answer of another one removes it.
THEOREM HandledBeforeAcked == Spec => []AckedWasHandled
<1>1. Init => AckedWasHandled
  BY DEF Init, AckedWasHandled
<1>. QED
  BY <1>1, HandledStep, Answers, PTL DEF Spec

------------------------------------------------------------------------------
(* The gateway: its connection and its subscriptions.                      *)

\* The constants and variables of RabbitMqGateway. Its list of subscriptions is recorded,
\* as RabbitMqDelivery has a subs of its own.
CONSTANTS
  Subscriptions, Queues, QueueOf, Exclusive, Lost, None, MaxFailures, MaxWaiting, LateReplies

VARIABLES
  desired, timer, conn, channels, consumers, exclusive, recorded, given, waiting, work, reply,
  failures, intact

Gateway == INSTANCE RabbitMqGateway WITH subs <- recorded

\* What RabbitMqGateway assumes of its constants.
GatewayAssumption == Gateway!ConstantsAssumption /\ Gateway!NoneAssumption

(***************************************************************************)
(* The list of subscriptions.                                              *)
(***************************************************************************)

\* No two subscriptions of a list are alike.
NoTwoAlike(q) == \A i, j \in DOMAIN q : q[i] = q[j] => i = j

\* #subscribe records a subscription at the end of the list.
LEMMA Recorded ==
  ASSUME NEW S, NEW q \in Seq(S), NEW s \in S, NoTwoAlike(q), s \notin Gateway!Elements(q)
  PROVE  /\ Append(q, s) \in Seq(S) /\ NoTwoAlike(Append(q, s))
         /\ Gateway!Elements(Append(q, s)) = Gateway!Elements(q) \cup {s}
         /\ Len(Append(q, s)) = Len(q) + 1 /\ Append(q, s)[Len(q) + 1] = s
         /\ \A i \in 1..Len(q) : Append(q, s)[i] = q[i]
<1>1. /\ Append(q, s) \in Seq(S) /\ Len(Append(q, s)) = Len(q) + 1
      /\ Append(q, s)[Len(q) + 1] = s /\ \A i \in 1..Len(q) : Append(q, s)[i] = q[i]
  BY AppendProperties
<1>2. DOMAIN Append(q, s) = 1..(Len(q) + 1) /\ DOMAIN q = 1..Len(q) /\ Len(q) \in Nat
  BY <1>1
<1>3. NoTwoAlike(Append(q, s))
  BY <1>1, <1>2 DEF NoTwoAlike, Gateway!Elements
<1>4. Gateway!Elements(Append(q, s)) = Gateway!Elements(q) \cup {s}
  <2>1. ASSUME NEW t \in Gateway!Elements(q) PROVE t \in Gateway!Elements(Append(q, s))
    BY <1>1, <1>2 DEF Gateway!Elements
  <2>2. s \in Gateway!Elements(Append(q, s))
    BY <1>1, <1>2 DEF Gateway!Elements
  <2>3. ASSUME NEW t \in Gateway!Elements(Append(q, s)) PROVE t \in Gateway!Elements(q) \cup {s}
    <3>1. PICK i \in 1..(Len(q) + 1) : t = Append(q, s)[i]
      BY <1>2 DEF Gateway!Elements
    <3>2. CASE i = Len(q) + 1
      BY <3>1, <3>2, <1>1
    <3>3. CASE i \in 1..Len(q)
      BY <3>1, <3>3, <1>1, <1>2 DEF Gateway!Elements
    <3>. QED
      BY <3>2, <3>3, <1>2
  <2>. QED
    BY <2>1, <2>2, <2>3
<1>. QED
  BY <1>1, <1>3, <1>4

\* A turn of the loop of #restoreSubscriptions: the oldest one becomes the newest.
LEMMA Rotated ==
  ASSUME NEW S, NEW q \in Seq(S), NoTwoAlike(q), Len(q) > 0,
         NEW r, r = Append(Tail(q), Head(q))
  PROVE  /\ Head(q) \in S /\ r \in Seq(S) /\ NoTwoAlike(r)
         /\ Gateway!Elements(r) = Gateway!Elements(q)
         /\ Len(r) = Len(q) /\ r[Len(q)] = Head(q) /\ \A i \in 1..(Len(q) - 1) : r[i] = q[i + 1]
<1>. DEFINE t == Tail(q)
            h == Head(q)
<1>1. Len(q) \in Nat /\ DOMAIN q = 1..Len(q) /\ q # <<>>
  OBVIOUS
<1>2. /\ h = q[1] /\ h \in S /\ t \in Seq(S) /\ Len(t) = Len(q) - 1
      /\ \A i \in 1..Len(t) : t[i] = q[i + 1]
  BY <1>1, HeadTailProperties
<1>3. DOMAIN t = 1..(Len(q) - 1)
  BY <1>2
<1>8. r = Append(t, h)
  OBVIOUS
<1>4. NoTwoAlike(t) /\ h \notin Gateway!Elements(t)
  BY <1>1, <1>2, <1>3 DEF NoTwoAlike, Gateway!Elements
<1>5. /\ r \in Seq(S) /\ NoTwoAlike(r) /\ Gateway!Elements(r) = Gateway!Elements(t) \cup {h}
      /\ Len(r) = Len(t) + 1 /\ r[Len(t) + 1] = h /\ \A i \in 1..Len(t) : r[i] = t[i]
  <2>. HIDE DEF t, h
  <2>1. /\ Append(t, h) \in Seq(S) /\ NoTwoAlike(Append(t, h))
        /\ Gateway!Elements(Append(t, h)) = Gateway!Elements(t) \cup {h}
        /\ Len(Append(t, h)) = Len(t) + 1 /\ Append(t, h)[Len(t) + 1] = h
        /\ \A i \in 1..Len(t) : Append(t, h)[i] = t[i]
    BY <1>2, <1>4, Recorded
  <2>. QED
    BY <2>1, <1>8
<1>6. Gateway!Elements(q) = Gateway!Elements(t) \cup {h}
  <2>1. ASSUME NEW e \in Gateway!Elements(q) PROVE e \in Gateway!Elements(t) \cup {h}
    <3>1. PICK i \in 1..Len(q) : e = q[i]
      BY <1>1 DEF Gateway!Elements
    <3>2. CASE i = 1
      BY <3>1, <3>2, <1>2
    <3>3. CASE i # 1
      <4>1. i - 1 \in 1..(Len(q) - 1) /\ e = t[i - 1]
        BY <3>1, <3>3, <1>1, <1>2
      <4>. QED
        BY <4>1, <1>3 DEF Gateway!Elements
    <3>. QED
      BY <3>2, <3>3
  <2>2. ASSUME NEW e \in Gateway!Elements(t) PROVE e \in Gateway!Elements(q)
    BY <1>1, <1>2, <1>3 DEF Gateway!Elements
  <2>3. h \in Gateway!Elements(q)
    BY <1>1, <1>2 DEF Gateway!Elements
  <2>. QED
    BY <2>1, <2>2, <2>3
<1>. HIDE DEF t, h
<1>7. Len(r) = Len(q) /\ r[Len(q)] = h /\ \A i \in 1..(Len(q) - 1) : r[i] = q[i + 1]
  BY <1>1, <1>2, <1>5
<1>. QED
  BY <1>2, <1>5, <1>6, <1>7 DEF h

\* unsubscribe() removes one subscription, and leaves the others in their order.
LEMMA Removed ==
  ASSUME NEW S, NEW q \in Seq(S), NoTwoAlike(q), NEW s \in Gateway!Elements(q),
         NEW r, r = Gateway!Without(q, s)
  PROVE  /\ r \in Seq(S) /\ NoTwoAlike(r) /\ Gateway!Elements(r) = Gateway!Elements(q) \ {s}
         /\ Len(r) = Len(q) - 1 /\ (q[Len(q)] # s => Len(r) > 0 /\ r[Len(r)] = q[Len(q)])
<1>1. Len(q) \in Nat /\ DOMAIN q = 1..Len(q) /\ \A i \in 1..Len(q) : q[i] \in S
  OBVIOUS
<1>2. PICK k \in 1..Len(q) : q[k] = s /\ k = CHOOSE i \in DOMAIN q : q[i] = s
  BY <1>1 DEF Gateway!Elements
<1>3. r = [i \in 1..(Len(q) - 1) |-> IF i < k THEN q[i] ELSE q[i + 1]]
  BY <1>2 DEF Gateway!Without
<1>4. Len(q) - 1 \in Nat /\ \A i \in 1..(Len(q) - 1) : i \in 1..Len(q) /\ i + 1 \in 1..Len(q)
  BY <1>1, <1>2
<1>5. r \in [1..(Len(q) - 1) -> S]
  BY <1>1, <1>3, <1>4
<1>6. r \in Seq(S) /\ Len(r) = Len(q) - 1 /\ DOMAIN r = 1..(Len(q) - 1)
  BY <1>4, <1>5
<1>7. NoTwoAlike(r)
  <2>. SUFFICES ASSUME NEW i \in 1..(Len(q) - 1), NEW j \in 1..(Len(q) - 1), r[i] = r[j]
                PROVE  i = j
    BY <1>6 DEF NoTwoAlike
  <2>. DEFINE a == IF i < k THEN i ELSE i + 1
              b == IF j < k THEN j ELSE j + 1
  <2>1. a \in 1..Len(q) /\ b \in 1..Len(q) /\ q[a] = q[b]
    BY <1>3, <1>4
  <2>2. a = b
    BY <2>1, <1>1 DEF NoTwoAlike
  <2>. QED
    BY <2>2, <1>2
<1>8. ASSUME NEW e \in Gateway!Elements(q), e # s PROVE e \in Gateway!Elements(r)
  <2>1. PICK i \in 1..Len(q) : e = q[i] /\ i # k
    BY <1>1, <1>2, <1>8 DEF Gateway!Elements
  <2>2. CASE i < k
    <3>1. i \in 1..(Len(q) - 1) /\ r[i] = e
      BY <2>1, <2>2, <1>1, <1>2, <1>3
    <3>. QED
      BY <3>1, <1>6 DEF Gateway!Elements
  <2>3. CASE i > k
    <3>1. i - 1 \in 1..(Len(q) - 1) /\ r[i - 1] = e
      BY <2>1, <2>3, <1>1, <1>2, <1>3
    <3>. QED
      BY <3>1, <1>6 DEF Gateway!Elements
  <2>. QED
    BY <2>1, <2>2, <2>3, <1>2
<1>9. ASSUME NEW e \in Gateway!Elements(r) PROVE e \in Gateway!Elements(q) /\ e # s
  <2>1. PICK i \in 1..(Len(q) - 1) : e = r[i]
    BY <1>6 DEF Gateway!Elements
  <2>. DEFINE a == IF i < k THEN i ELSE i + 1
  <2>2. a \in 1..Len(q) /\ e = q[a] /\ a # k
    <3>1. CASE i < k
      BY <2>1, <3>1, <1>3, <1>4
    <3>2. CASE ~(i < k)
      <4>1. i \in 1..(Len(q) - 1) /\ Len(q) \in Nat /\ k \in Nat /\ ~(i < k)
        BY <3>2, <1>1, <1>2
      <4>2. i + 1 \in 1..Len(q) /\ i + 1 # k
        BY <4>1
      <4>3. e = q[i + 1]
        BY <2>1, <3>2, <1>3
      <4>4. a = i + 1
        BY <4>1
      <4>. QED
        BY <4>2, <4>3, <4>4
    <3>. QED
      BY <3>1, <3>2
  <2>. HIDE DEF a
  <2>. QED
    BY <2>2, <1>1, <1>2 DEF Gateway!Elements, NoTwoAlike
<1>10. ASSUME q[Len(q)] # s PROVE Len(r) > 0 /\ r[Len(r)] = q[Len(q)]
  <2>1. k < Len(q) /\ k >= 1
    BY <1>10, <1>1, <1>2
  <2>2. Len(q) - 1 \in 1..(Len(q) - 1) /\ ~(Len(q) - 1 < k)
    BY <2>1, <1>1, <1>2
  <2>. QED
    BY <2>1, <2>2, <1>1, <1>3, <1>6
<1>. QED
  BY <1>6, <1>7, <1>8, <1>9, <1>10

------------------------------------------------------------------------------
(* The invariant.                                                          *)

\* What the holder of the lock does, and what it can be told: a request is under
\* way as long as there is a connection, or fails at once on a closed channel.
HolderInv ==
  /\ NoTwoAlike(recorded)
  /\ work = None => reply = "pending"
  /\ Gateway!Holds("dialing") => ~conn /\ reply = "pending" /\ work.call.kind # "disconnect"
  /\ Gateway!Subscribing => work.sub \in Subscriptions /\ (reply = "pending" => conn)
  /\ Gateway!Holds("cancelling") \/ Gateway!Holds("closing") => (reply = "pending" => conn)
  /\ reply # "pending" /\ conn => Gateway!Subscribing
  /\ reply = "late" => ~conn
  /\ \A k \in Gateway!Keys : channels[k] = "live" => conn

\* The names that a subscription's queue was given.
NamesInv ==
  \A s \in Subscriptions : given[s] \in {None, QueueOf[s], Gateway!Outlived(QueueOf[s])}

\* Since the last clean-up nothing closed was kept, and without a connection
\* there is nothing.
FreshInv ==
  intact =>
    /\ \A k \in Gateway!Keys : channels[k] # "stale"
    /\ \A n \in Gateway!Given : consumers[n] # "stale"
    /\ consumers[Lost] = "none"
    /\ ~conn => /\ \A k \in Gateway!Keys : channels[k] = "none"
                /\ \A n \in Gateway!Given : consumers[n] = "none"
    /\ conn => reply = "pending"

\* The subscriptions whose queue has a consumer.
Consumed == {s \in Subscriptions : given[s] = QueueOf[s] /\ consumers[QueueOf[s]] # "none"}

\* A consumer has a subscription.
UsedInv ==
  \A n \in Gateway!Given :
    consumers[n] # "none" => \E s \in Gateway!Elements(recorded) : given[s] = n

\* With the lock free, every subscription is consumed.
IdleInv == work = None => Gateway!Elements(recorded) \subseteq Consumed

\* The subscription being set up is the last of the list. Of the others, those that
\* the loop of #restoreSubscriptions has come to are consumed, and all of them when
\* one is subscribed on request.
LoopInv ==
  Gateway!Subscribing =>
    /\ Len(recorded) > 0 /\ recorded[Len(recorded)] = work.sub
    /\ work.restored = None \/ work.restored < Len(recorded)
    /\ \A i \in 1..(Len(recorded) - 1) :
         work.restored = None \/ i >= Len(recorded) - work.restored => recorded[i] \in Consumed
    /\ work.await = "consumer" => given[work.sub] = QueueOf[work.sub]

AccountInv == intact /\ conn => UsedInv /\ IdleInv /\ LoopInv

------------------------------------------------------------------------------
(* The loop of #restoreSubscriptions.                                      *)

\* What #subscribe does up to its first request, given the list it appends to.
LEMMA Begun ==
  ASSUME GatewayAssumption, Gateway!TypeOK, NEW call \in Gateway!Calls,
         NEW s \in Subscriptions, NEW restored \in Nat \cup {None},
         NEW list \in Seq(Subscriptions), NoTwoAlike(list), s \notin Gateway!Elements(list),
         NEW up \in BOOLEAN, Gateway!BeginSubscribe(call, s, restored, list, up)
  PROVE  /\ recorded' = Append(list, s) /\ timer' \in BOOLEAN
         /\ \/ work' = None /\ reply' = "pending" /\ ~up
            \/ /\ work' \in Gateway!Jobs /\ work' # None
               /\ work'.await \in {"channel", "queue"} /\ work'.call = call
               /\ work'.sub = s /\ work'.restored = restored
               /\ reply' = IF channels[QueueOf[s]] = "stale" THEN "failed" ELSE "pending"
               /\ channels[QueueOf[s]] = "none" => up
<1>1. CASE channels[QueueOf[s]] = "none" /\ ~up
  BY <1>1 DEF Gateway!BeginSubscribe, Gateway!Raise, Gateway!Release, Gateway!TypeOK
<1>2. CASE ~(channels[QueueOf[s]] = "none" /\ ~up)
  <2>1. PICK await \in {"channel", "queue"} : work' = Gateway!Job(call, await, s, restored)
    BY <1>2 DEF Gateway!BeginSubscribe
  <2>2. work' \in Gateway!Jobs
    BY <2>1 DEF Gateway!Job, Gateway!Jobs, Gateway!Awaits, Gateway!Requests
  <2>3. work' # None
    BY <2>2 DEF GatewayAssumption, Gateway!NoneAssumption
  <2>. QED
    BY <1>2, <2>1, <2>2, <2>3 DEF Gateway!BeginSubscribe, Gateway!Job, Gateway!TypeOK
<1>. QED
  BY <1>1, <1>2

\* The loop goes on with the oldest subscription, or has come to the last one, or
\* meets a channel that it cannot open.
LEMMA RestoreSteps ==
  ASSUME GatewayAssumption, Gateway!TypeOK, NoTwoAlike(recorded),
         NEW call \in Gateway!Calls, NEW restored \in Nat,
         NEW up \in BOOLEAN, Gateway!RestoreNext(call, restored, recorded, up)
  PROVE  /\ recorded' \in Seq(Subscriptions) /\ NoTwoAlike(recorded')
         /\ Gateway!Elements(recorded) \subseteq Gateway!Elements(recorded')
         /\ timer' \in BOOLEAN
         /\ \/ /\ work' = None /\ reply' = "pending"
               /\ up => recorded' = recorded /\ restored >= Len(recorded)
            \/ /\ work' \in Gateway!Jobs /\ work' # None
               /\ work'.await \in {"channel", "queue"} /\ work'.call = call
               /\ work'.sub \in Subscriptions
               /\ Len(recorded') > 0 /\ recorded'[Len(recorded')] = work'.sub
               /\ LET channel == channels[QueueOf[work'.sub]]
                  IN  /\ reply' = IF channel = "stale" THEN "failed" ELSE "pending"
                      /\ channel = "none" => up
               /\ \/ /\ work'.restored = restored /\ restored < Len(recorded)
                     /\ Len(recorded') = Len(recorded)
                     /\ \A i \in 1..(Len(recorded) - 1) : recorded'[i] = recorded[i + 1]
                  \/ /\ work'.restored = None /\ restored >= Len(recorded)
                     /\ Len(recorded') = Len(recorded) + 1
                     /\ \A i \in 1..Len(recorded) : recorded'[i] = recorded[i]
<1>1. recorded \in Seq(Subscriptions) /\ Len(recorded) \in Nat
  BY DEF Gateway!TypeOK
<1>2. CASE restored < Len(recorded)
  <2>1. /\ Gateway!BeginSubscribe(call, Head(recorded), restored, Tail(recorded), up)
        /\ Len(recorded) > 0 /\ recorded # <<>>
    BY <1>1, <1>2 DEF Gateway!RestoreNext
  <2>. DEFINE rotated == Append(Tail(recorded), Head(recorded))
  <2>2. /\ Head(recorded) \in Subscriptions /\ rotated \in Seq(Subscriptions)
        /\ NoTwoAlike(rotated) /\ Gateway!Elements(rotated) = Gateway!Elements(recorded)
        /\ Len(rotated) = Len(recorded) /\ rotated[Len(recorded)] = Head(recorded)
        /\ \A i \in 1..(Len(recorded) - 1) : rotated[i] = recorded[i + 1]
    <3>1. rotated = Append(Tail(recorded), Head(recorded))
      OBVIOUS
    <3>. HIDE DEF rotated
    <3>. QED
      BY <1>1, <2>1, <3>1, Rotated
  <2>3. /\ Tail(recorded) \in Seq(Subscriptions) /\ NoTwoAlike(Tail(recorded))
        /\ Head(recorded) \notin Gateway!Elements(Tail(recorded))
    <3>1. /\ Tail(recorded) \in Seq(Subscriptions) /\ Head(recorded) = recorded[1]
          /\ Len(Tail(recorded)) = Len(recorded) - 1
          /\ \A i \in 1..Len(Tail(recorded)) : Tail(recorded)[i] = recorded[i + 1]
      BY <1>1, <2>1, HeadTailProperties
    <3>2. DOMAIN Tail(recorded) = 1..(Len(recorded) - 1) /\ DOMAIN recorded = 1..Len(recorded)
      BY <3>1, <1>1
    <3>. QED
      BY <1>1, <3>1, <3>2 DEF NoTwoAlike, Gateway!Elements
  <2>4. /\ recorded' = rotated /\ timer' \in BOOLEAN
        /\ \/ work' = None /\ reply' = "pending" /\ ~up
           \/ /\ work' \in Gateway!Jobs /\ work' # None
              /\ work'.await \in {"channel", "queue"} /\ work'.call = call
              /\ work'.sub = Head(recorded) /\ work'.restored = restored
              /\ reply' = IF channels[QueueOf[Head(recorded)]] = "stale" THEN "failed"
                                                                     ELSE "pending"
              /\ channels[QueueOf[Head(recorded)]] = "none" => up
    <3>. DEFINE h == Head(recorded)
                t == Tail(recorded)
    <3>1. /\ Gateway!BeginSubscribe(call, h, restored, t, up)
          /\ h \in Subscriptions /\ t \in Seq(Subscriptions) /\ NoTwoAlike(t)
          /\ h \notin Gateway!Elements(t) /\ restored \in Nat \cup {None}
      BY <2>1, <2>2, <2>3
    <3>2. rotated = Append(t, h)
      OBVIOUS
    <3>. HIDE DEF h, t, rotated
    <3>3. /\ recorded' = Append(t, h) /\ timer' \in BOOLEAN
          /\ \/ work' = None /\ reply' = "pending" /\ ~up
             \/ /\ work' \in Gateway!Jobs /\ work' # None
                /\ work'.await \in {"channel", "queue"} /\ work'.call = call
                /\ work'.sub = h /\ work'.restored = restored
                /\ reply' = IF channels[QueueOf[h]] = "stale" THEN "failed" ELSE "pending"
                /\ channels[QueueOf[h]] = "none" => up
      BY <3>1, Begun
    <3>. QED
      BY <3>2, <3>3 DEF h
  <2>. HIDE DEF rotated
  <2>. QED
    BY <1>1, <1>2, <2>1, <2>2, <2>4
<1>3. CASE /\ restored >= Len(recorded)
           /\ call.kind = "subscribe" /\ call.sub \notin Gateway!Elements(recorded)
  <2>. DEFINE longer == Append(recorded, call.sub)
  <2>1. Gateway!BeginSubscribe(call, call.sub, None, recorded, up)
    BY <1>1, <1>3 DEF Gateway!RestoreNext
  <2>2. call.sub \in Subscriptions
    BY <1>3 DEF Gateway!Calls, Gateway!Connect, Gateway!Disconnect, Gateway!Subscribe
  <2>3. /\ longer \in Seq(Subscriptions) /\ NoTwoAlike(longer)
        /\ Gateway!Elements(longer) = Gateway!Elements(recorded) \cup {call.sub}
        /\ Len(longer) = Len(recorded) + 1 /\ longer[Len(recorded) + 1] = call.sub
        /\ \A i \in 1..Len(recorded) : longer[i] = recorded[i]
    BY <1>1, <1>3, <2>2, Recorded
  <2>4. /\ recorded' = longer /\ timer' \in BOOLEAN
        /\ \/ work' = None /\ reply' = "pending" /\ ~up
           \/ /\ work' \in Gateway!Jobs /\ work' # None
              /\ work'.await \in {"channel", "queue"} /\ work'.call = call
              /\ work'.sub = call.sub /\ work'.restored = None
              /\ reply' = IF channels[QueueOf[call.sub]] = "stale" THEN "failed" ELSE "pending"
              /\ channels[QueueOf[call.sub]] = "none" => up
    BY <1>1, <1>3, <2>1, <2>2, Begun
  <2>. HIDE DEF longer
  <2>. QED
    BY <1>1, <1>3, <2>2, <2>3, <2>4
<1>4. CASE /\ restored >= Len(recorded)
           /\ ~(call.kind = "subscribe" /\ call.sub \notin Gateway!Elements(recorded))
  BY <1>1, <1>4 DEF Gateway!RestoreNext, Gateway!Release, Gateway!TypeOK
<1>. QED
  BY <1>1, <1>2, <1>3, <1>4

\* The types of what #subscribe changes, and the holder's invariant, after the loop...
LEMMA RestoreHolder ==
  ASSUME GatewayAssumption, Gateway!TypeOK, HolderInv, NEW call \in Gateway!Calls,
         NEW restored \in Nat, NEW up \in BOOLEAN,
         Gateway!RestoreNext(call, restored, recorded, up),
         conn => up, conn' = up, channels' = channels
  PROVE  /\ recorded' \in Seq(Subscriptions) /\ timer' \in BOOLEAN
         /\ work' \in Gateway!Jobs \cup {None} /\ reply' \in {"pending", "failed"}
         /\ HolderInv'
<1>1. NoTwoAlike(recorded) /\ \A k \in Gateway!Keys : channels[k] = "live" => conn
  BY DEF HolderInv
<1>2. /\ recorded' \in Seq(Subscriptions) /\ NoTwoAlike(recorded') /\ timer' \in BOOLEAN
      /\ \/ work' = None /\ reply' = "pending"
         \/ /\ work' \in Gateway!Jobs /\ work' # None
            /\ work'.await \in {"channel", "queue"} /\ work'.sub \in Subscriptions
            /\ LET channel == channels[QueueOf[work'.sub]]
               IN  /\ reply' = IF channel = "stale" THEN "failed" ELSE "pending"
                   /\ channel = "none" => up
  BY <1>1, RestoreSteps
<1>3. ASSUME work' \in Gateway!Jobs, work'.sub \in Subscriptions
      PROVE  channels[QueueOf[work'.sub]] \in Gateway!States /\ QueueOf[work'.sub] \in Gateway!Keys
  BY <1>3 DEF Gateway!TypeOK, Gateway!Keys, GatewayAssumption, Gateway!ConstantsAssumption
<1>. QED
  BY <1>1, <1>2, <1>3
     DEF HolderInv, Gateway!Holds, Gateway!Subscribing, Gateway!Requests, Gateway!States,
         Gateway!TypeOK

\* ... and at the end of #subscribe.
LEMMA SubscribedHolder ==
  ASSUME GatewayAssumption, Gateway!TypeOK, HolderInv, Gateway!Subscribing,
         Gateway!Subscribed, conn' = conn, channels' = channels
  PROVE  /\ recorded' \in Seq(Subscriptions) /\ timer' \in BOOLEAN
         /\ work' \in Gateway!Jobs \cup {None} /\ reply' \in {"pending", "failed"}
         /\ HolderInv'
<1>1. CASE work.restored = None
  BY <1>1 DEF Gateway!Subscribed, Gateway!Release, HolderInv, Gateway!Holds,
         Gateway!Subscribing, Gateway!TypeOK
<1>2. CASE work.restored # None
  <2>1. work.restored + 1 \in Nat /\ work.call \in Gateway!Calls /\ conn \in BOOLEAN
    BY <1>2 DEF Gateway!TypeOK, Gateway!Subscribing, Gateway!Jobs
  <2>2. Gateway!RestoreNext(work.call, work.restored + 1, recorded, conn)
    BY <1>2 DEF Gateway!Subscribed
  <2>. QED
    BY <2>1, <2>2, RestoreHolder
<1>. QED
  BY <1>1, <1>2

\* The types, and the holder's invariant, hold at first...
LEMMA InitHolder == GatewayAssumption /\ Gateway!Init => Gateway!TypeOK /\ HolderInv
<1>. SUFFICES ASSUME GatewayAssumption, Gateway!Init
              PROVE  Gateway!TypeOK /\ HolderInv
  OBVIOUS
<1>1. recorded \in Seq(Subscriptions) /\ DOMAIN recorded = {}
  BY DEF Gateway!Init
<1>2. Gateway!TypeOK
  <2>1. failures \in 0..MaxFailures
    BY DEF Gateway!Init, GatewayAssumption, Gateway!ConstantsAssumption
  <2>2. /\ channels \in [Gateway!Keys -> Gateway!States]
        /\ consumers \in [Gateway!Given -> Gateway!States]
        /\ given \in [Subscriptions -> Gateway!Given \cup {None}]
    BY DEF Gateway!Init, Gateway!States
  <2>. QED
    BY <1>1, <2>1, <2>2 DEF Gateway!Init, Gateway!TypeOK
<1>3. HolderInv
  BY <1>1 DEF Gateway!Init, HolderInv, NoTwoAlike, Gateway!Holds, Gateway!Subscribing,
         Gateway!Keys
<1>. QED
  BY <1>2, <1>3

\* ... and in every step.
LEMMA HolderStep ==
  ASSUME GatewayAssumption, Gateway!TypeOK, HolderInv, [Gateway!Next]_(Gateway!vars)
  PROVE  Gateway!TypeOK' /\ HolderInv'
<1>. USE DEF GatewayAssumption, Gateway!ConstantsAssumption
<1>0. Gateway!Fault \/ UNCHANGED failures => failures' \in 0..MaxFailures
  BY DEF Gateway!Fault, Gateway!TypeOK
<1>1. ASSUME \/ Gateway!CallConnect \/ Gateway!CallDisconnect \/ Gateway!TimerFires
             \/ \E s \in Subscriptions : Gateway!CallSubscribe(s)
      PROVE  Gateway!TypeOK' /\ HolderInv'
  <2>1. /\ desired' \in {"connected", "disconnected"} /\ timer' \in BOOLEAN
        /\ waiting' \subseteq Gateway!Calls
    BY <1>1 DEF Gateway!TypeOK, Gateway!CallConnect, Gateway!CallDisconnect, Gateway!TimerFires,
           Gateway!CallSubscribe, Gateway!Calls
  <2>2. UNCHANGED <<Gateway!broker, recorded, given, work, reply, failures, intact>>
    BY <1>1 DEF Gateway!CallConnect, Gateway!CallDisconnect, Gateway!TimerFires,
           Gateway!CallSubscribe
  <2>3. Gateway!TypeOK'
    BY <2>1, <2>2 DEF Gateway!TypeOK, Gateway!broker
  <2>. QED
    BY <2>2, <2>3 DEF HolderInv, Gateway!Holds, Gateway!Subscribing, Gateway!broker
<1>2. ASSUME NEW s \in Subscriptions, Gateway!Unsubscribe(s)
      PROVE  Gateway!TypeOK' /\ HolderInv'
  <2>1. recorded' \in Seq(Subscriptions) /\ NoTwoAlike(recorded')
    <3>1. s \in Gateway!Elements(recorded) /\ recorded' = Gateway!Without(recorded, s)
      BY <1>2 DEF Gateway!Unsubscribe
    <3>2. recorded \in Seq(Subscriptions) /\ NoTwoAlike(recorded)
      BY DEF Gateway!TypeOK, HolderInv
    <3>. QED
      BY <3>1, <3>2, Removed
  <2>2. /\ consumers' \in [Gateway!Given -> Gateway!States]
        /\ given' \in [Subscriptions -> Gateway!Given \cup {None}]
        /\ intact' \in BOOLEAN
        /\ UNCHANGED <<desired, timer, conn, channels, exclusive, waiting, work, reply, failures>>
    BY <1>2 DEF Gateway!Unsubscribe, Gateway!DropConsumer, Gateway!TypeOK, Gateway!States
  <2>3. Gateway!TypeOK'
    BY <2>1, <2>2 DEF Gateway!TypeOK
  <2>. QED
    BY <2>1, <2>2, <2>3 DEF HolderInv, Gateway!Holds, Gateway!Subscribing
<1>3. ASSUME NEW call \in Gateway!Calls, Gateway!TakeLock(call)
      PROVE  Gateway!TypeOK' /\ HolderInv'
  <2>1. /\ work = None /\ waiting' \subseteq Gateway!Calls /\ reply = "pending"
        /\ UNCHANGED <<desired, conn, channels, consumers, exclusive, given, failures, intact>>
    BY <1>3 DEF Gateway!TakeLock, Gateway!TypeOK, HolderInv, Gateway!broker
  <2>2. CASE /\ call.kind = "subscribe" /\ conn
             /\ Gateway!RestoreNext(call, Len(recorded), recorded, conn)
    <3>1. Len(recorded) \in Nat /\ conn \in BOOLEAN /\ conn' = conn /\ channels' = channels
      BY <2>1 DEF Gateway!TypeOK
    <3>2. /\ recorded' \in Seq(Subscriptions) /\ timer' \in BOOLEAN
          /\ work' \in Gateway!Jobs \cup {None} /\ reply' \in {"pending", "failed"}
          /\ HolderInv'
      BY <2>2, <3>1, RestoreHolder
    <3>. QED
      BY <2>1, <3>2 DEF Gateway!TypeOK
  <2>3. CASE UNCHANGED <<work, reply, recorded, timer>>
    BY <2>1, <2>3 DEF Gateway!TypeOK, HolderInv, Gateway!Holds, Gateway!Subscribing
  <2>4. CASE /\ UNCHANGED <<reply, recorded, timer>>
             /\ \/ /\ call.kind # "disconnect" /\ ~conn
                   /\ work' = Gateway!Job(call, "dialing", None, None)
                \/ conn /\ work' = Gateway!Job(call, "cancelling", None, None)
    <3>1. /\ work' \in Gateway!Jobs
          /\ \/ work'.await = "dialing" /\ ~conn /\ work'.call.kind # "disconnect"
             \/ work'.await = "cancelling" /\ conn
      BY <2>4 DEF Gateway!Jobs, Gateway!Job, Gateway!Awaits
    <3>. QED
      BY <2>1, <2>4, <3>1
         DEF Gateway!TypeOK, HolderInv, Gateway!Holds, Gateway!Subscribing, Gateway!Requests
  <2>. QED
    BY <1>3, <2>2, <2>3, <2>4 DEF Gateway!TakeLock
<1>4. CASE Gateway!Dialed
  <2>1. work.call \in Gateway!Calls /\ conn' = TRUE /\ channels' = channels
    BY <1>4 DEF Gateway!Dialed, Gateway!Holds, Gateway!TypeOK, Gateway!Jobs
  <2>2. /\ recorded' \in Seq(Subscriptions) /\ timer' \in BOOLEAN
        /\ work' \in Gateway!Jobs \cup {None} /\ reply' \in {"pending", "failed"}
        /\ HolderInv'
    <3>1. Gateway!RestoreNext(work.call, 0, recorded, TRUE)
      BY <1>4 DEF Gateway!Dialed
    <3>. QED
      BY <2>1, <3>1, RestoreHolder
  <2>. QED
    BY <1>4, <2>1, <2>2 DEF Gateway!TypeOK, Gateway!Dialed
<1>5. CASE Gateway!ChannelOpened
  <2>1. /\ work \in Gateway!Jobs /\ work.sub \in Subscriptions /\ Gateway!Subscribing
        /\ reply \in {"pending", "late"}
    BY <1>5 DEF Gateway!ChannelOpened, Gateway!Answered, Gateway!Holds, Gateway!TypeOK,
           HolderInv, Gateway!Subscribing, Gateway!Requests
  <2>2. /\ work' \in Gateway!Jobs /\ work'.await = "queue" /\ work'.sub = work.sub
        /\ UNCHANGED <<desired, timer, conn, consumers, exclusive, recorded, given, waiting,
                       failures>>
    BY <1>5, <2>1 DEF Gateway!ChannelOpened, Gateway!Jobs, Gateway!Awaits, Gateway!Requests
  <2>3. /\ channels' \in [Gateway!Keys -> Gateway!States] /\ intact' \in BOOLEAN
        /\ reply' = IF reply = "late" THEN "failed" ELSE "pending"
        /\ \A k \in Gateway!Keys : channels'[k] = "live" =>
                             channels[k] = "live" \/ reply = "pending"
    BY <1>5, <2>1 DEF Gateway!ChannelOpened, Gateway!TypeOK, Gateway!States
  <2>4. Gateway!TypeOK'
    BY <2>2, <2>3 DEF Gateway!TypeOK
  <2>. QED
    BY <2>1, <2>2, <2>3, <2>4
       DEF HolderInv, Gateway!Holds, Gateway!Subscribing, Gateway!Requests, GatewayAssumption,
           Gateway!NoneAssumption
<1>6. CASE Gateway!QueueAsserted
  <2>1. /\ work \in Gateway!Jobs /\ work.sub \in Subscriptions /\ Gateway!Subscribing
        /\ reply \in {"pending", "late"} /\ Gateway!NameGiven \in Gateway!Given
    BY <1>6 DEF Gateway!QueueAsserted, Gateway!Answered, Gateway!Holds, Gateway!TypeOK,
           HolderInv, Gateway!Subscribing, Gateway!Requests, Gateway!NameGiven,
           Gateway!Outlived, Gateway!Given
  <2>2. /\ exclusive' \in {None, Exclusive, Lost}
        /\ given' \in [Subscriptions -> Gateway!Given \cup {None}] /\ intact' \in BOOLEAN
        /\ UNCHANGED <<desired, conn, channels, consumers, waiting, failures>>
    BY <1>6, <2>1 DEF Gateway!QueueAsserted, Gateway!TypeOK, Gateway!NameGiven, Gateway!Outlived
  <2>3. /\ recorded' \in Seq(Subscriptions) /\ timer' \in BOOLEAN
        /\ work' \in Gateway!Jobs \cup {None} /\ reply' \in {"pending", "failed"}
        /\ HolderInv'
    <3>1. CASE Gateway!Subscribed
      BY <2>1, <2>2, <3>1, SubscribedHolder
    <3>2. CASE /\ work' = [work EXCEPT !.await = "consumer"]
               /\ reply' = IF reply = "late" THEN "failed" ELSE "pending"
               /\ UNCHANGED <<recorded, timer>>
      <4>1. work' \in Gateway!Jobs /\ work'.await = "consumer" /\ work'.sub = work.sub
        BY <2>1, <3>2 DEF Gateway!Jobs, Gateway!Awaits, Gateway!Requests
      <4>. QED
        BY <2>1, <2>2, <3>2, <4>1
           DEF HolderInv, Gateway!Holds, Gateway!Subscribing, Gateway!Requests, Gateway!TypeOK,
               GatewayAssumption, Gateway!NoneAssumption
    <3>. QED
      BY <1>6, <3>1, <3>2 DEF Gateway!QueueAsserted
  <2>. QED
    BY <2>2, <2>3 DEF Gateway!TypeOK
<1>7. CASE Gateway!Consuming
  <2>1. /\ Gateway!Subscribing /\ reply \in {"pending", "late"}
    BY <1>7 DEF Gateway!Consuming, Gateway!Answered, Gateway!Holds, Gateway!Subscribing,
           Gateway!Requests
  <2>2. /\ consumers' \in [Gateway!Given -> Gateway!States] /\ intact' \in BOOLEAN
        /\ UNCHANGED <<desired, conn, channels, exclusive, given, waiting, failures>>
    BY <1>7 DEF Gateway!Consuming, Gateway!TypeOK, Gateway!States
  <2>3. /\ recorded' \in Seq(Subscriptions) /\ timer' \in BOOLEAN
        /\ work' \in Gateway!Jobs \cup {None} /\ reply' \in {"pending", "failed"}
        /\ HolderInv'
    BY <1>7, <2>1, <2>2, SubscribedHolder DEF Gateway!Consuming
  <2>. QED
    BY <2>2, <2>3 DEF Gateway!TypeOK
<1>8. CASE Gateway!RequestFails \/ Gateway!DialFails \/ Gateway!DisconnectFails
  <2>1. /\ work' = None /\ reply' = "pending" /\ timer' \in BOOLEAN /\ intact' \in BOOLEAN
        /\ failures' \in 0..MaxFailures
        /\ UNCHANGED <<desired, Gateway!broker, recorded, given, waiting>>
    BY <1>8, <1>0 DEF Gateway!RequestFails, Gateway!DialFails, Gateway!DisconnectFails,
           Gateway!Raise, Gateway!Release, Gateway!TypeOK
  <2>. QED
    BY <2>1 DEF Gateway!TypeOK, HolderInv, Gateway!Holds, Gateway!Subscribing, Gateway!broker
<1>9. CASE Gateway!Refused
  <2>1. /\ work' = None /\ reply' = "pending" /\ timer' \in BOOLEAN /\ intact' \in BOOLEAN
        /\ failures' \in 0..MaxFailures
        /\ UNCHANGED <<desired, conn, exclusive, recorded, given, waiting>>
    BY <1>9, <1>0 DEF Gateway!Refused, Gateway!Raise, Gateway!Release, Gateway!TypeOK
  <2>2. /\ channels' \in [Gateway!Keys -> Gateway!States]
        /\ consumers' \in [Gateway!Given -> Gateway!States]
        /\ \A k \in Gateway!Keys : channels'[k] = "live" => channels[k] = "live"
    BY <1>9 DEF Gateway!Refused, Gateway!TypeOK, Gateway!States
  <2>. QED
    BY <2>1, <2>2 DEF Gateway!TypeOK, HolderInv, Gateway!Holds, Gateway!Subscribing
<1>10. CASE Gateway!Cancelled
  <2>1. /\ work \in Gateway!Jobs /\ work' \in Gateway!Jobs
        /\ work'.await = "closing" /\ work'.sub = work.sub
    BY <1>10 DEF Gateway!Cancelled, Gateway!Holds, Gateway!TypeOK, Gateway!Jobs, Gateway!Awaits
  <2>2. /\ consumers' \in [Gateway!Given -> Gateway!States]
        /\ UNCHANGED <<desired, timer, conn, channels, exclusive, recorded, given, waiting, reply,
                       failures, intact>>
    BY <1>10 DEF Gateway!Cancelled, Gateway!TypeOK, Gateway!States
  <2>3. work.await = "cancelling" /\ reply = "pending" /\ conn
    BY <1>10 DEF Gateway!Cancelled, HolderInv, Gateway!Holds
  <2>. QED
    BY <2>1, <2>2, <2>3
       DEF Gateway!TypeOK, HolderInv, Gateway!Holds, Gateway!Subscribing, Gateway!Requests
<1>11. CASE Gateway!Closed \/ Gateway!Lose
  <2>1. /\ conn' = FALSE /\ channels' = [k \in Gateway!Keys |-> "none"]
        /\ consumers' = [n \in Gateway!Given |-> "none"] /\ exclusive' = None /\ intact' = TRUE
        /\ given' = [s \in Subscriptions |-> Gateway!Outlived(given[s])]
        /\ UNCHANGED <<desired, recorded>>
    BY <1>11 DEF Gateway!Closed, Gateway!Lose, Gateway!OnConnectionClosed, Gateway!CleanUp
  <2>2. /\ waiting' \subseteq Gateway!Calls /\ timer' \in BOOLEAN
        /\ failures' \in 0..MaxFailures
    BY <1>11, <1>0 DEF Gateway!Closed, Gateway!Lose, Gateway!OnConnectionClosed, Gateway!TypeOK,
           Gateway!Calls
  <2>3. \/ work' = None /\ reply' = "pending"
        \/ /\ work' = work /\ conn
           /\ work = None => reply' = reply
           /\ work # None => \/ reply' = "failed"
                             \/ Gateway!Subscribing /\ reply' = "late"
    BY <1>11 DEF Gateway!Closed, Gateway!Lose, Gateway!Release
  <2>4. given' \in [Subscriptions -> Gateway!Given \cup {None}]
    BY <2>1 DEF Gateway!Outlived, Gateway!TypeOK, Gateway!Given
  <2>5. Gateway!TypeOK'
    <3>1. work' \in Gateway!Jobs \cup {None} /\ reply' \in {"pending", "failed", "late"}
      BY <2>3 DEF Gateway!TypeOK
    <3>2. /\ channels' \in [Gateway!Keys -> Gateway!States]
          /\ consumers' \in [Gateway!Given -> Gateway!States]
          /\ conn' \in BOOLEAN /\ intact' \in BOOLEAN /\ exclusive' \in {None, Exclusive, Lost}
      BY <2>1 DEF Gateway!States
    <3>. QED
      BY <2>1, <2>2, <2>4, <3>1, <3>2 DEF Gateway!TypeOK
  <2>6. NoTwoAlike(recorded)' /\ \A k \in Gateway!Keys : channels'[k] # "live"
    BY <2>1 DEF HolderInv
  <2>. QED
    BY <2>1, <2>3, <2>5, <2>6
       DEF HolderInv, Gateway!Holds, Gateway!Subscribing, Gateway!Requests
<1>12. CASE UNCHANGED Gateway!vars
  BY <1>12 DEF Gateway!vars, Gateway!broker, Gateway!TypeOK, HolderInv, Gateway!Holds,
         Gateway!Subscribing
<1>. QED
  BY <1>1, <1>2, <1>3, <1>4, <1>5, <1>6, <1>7, <1>8, <1>9, <1>10, <1>11, <1>12
     DEF Gateway!Next, Gateway!Resume

------------------------------------------------------------------------------
(* Names of queues, channels and consumers.                                *)

\* A queue keeps the name it was given, or outlives its connection.
LEMMA NamesStep ==
  ASSUME GatewayAssumption, Gateway!TypeOK, HolderInv, NamesInv, [Gateway!Next]_(Gateway!vars)
  PROVE  NamesInv'
<1>1. ASSUME NEW s \in Subscriptions, Gateway!Unsubscribe(s)
      PROVE  NamesInv'
  BY <1>1 DEF Gateway!Unsubscribe, NamesInv, Gateway!TypeOK
<1>2. CASE Gateway!QueueAsserted
  <2>1. /\ Gateway!NameGiven \in {QueueOf[work.sub], Gateway!Outlived(QueueOf[work.sub])}
        /\ given' = IF work.sub \in Gateway!Elements(recorded)
                      THEN [given EXCEPT ![work.sub] = Gateway!NameGiven] ELSE given
    BY <1>2 DEF Gateway!QueueAsserted, Gateway!NameGiven
  <2>. HIDE DEF Gateway!NameGiven
  <2>. QED
    BY <2>1 DEF NamesInv, Gateway!TypeOK
<1>3. CASE Gateway!Closed \/ Gateway!Lose
  BY <1>3 DEF Gateway!Closed, Gateway!Lose, Gateway!OnConnectionClosed, Gateway!CleanUp,
         NamesInv, Gateway!Outlived, GatewayAssumption, Gateway!ConstantsAssumption
<1>4. CASE UNCHANGED given
  BY <1>4 DEF NamesInv
<1>. QED
  BY <1>1, <1>2, <1>3, <1>4
     DEF Gateway!Next, Gateway!Resume, Gateway!vars, Gateway!CallConnect,
         Gateway!CallDisconnect, Gateway!TimerFires, Gateway!CallSubscribe, Gateway!TakeLock,
         Gateway!Dialed, Gateway!ChannelOpened, Gateway!Consuming, Gateway!RequestFails,
         Gateway!Cancelled, Gateway!DisconnectFails, Gateway!DialFails, Gateway!Refused

\* With no closed channel, the end of #subscribe leads to a request that is answered.
LEMMA SubscribedReply ==
  ASSUME GatewayAssumption, Gateway!TypeOK, HolderInv, Gateway!Subscribing, Gateway!Subscribed,
         \A k \in Gateway!Keys : channels[k] # "stale"
  PROVE  reply' = "pending"
<1>1. CASE work.restored = None
  BY <1>1 DEF Gateway!Subscribed, Gateway!Release
<1>2. CASE work.restored # None
  <2>1. work.restored + 1 \in Nat /\ work.call \in Gateway!Calls /\ conn \in BOOLEAN
    BY <1>2 DEF Gateway!TypeOK, Gateway!Subscribing, Gateway!Jobs
  <2>2. Gateway!RestoreNext(work.call, work.restored + 1, recorded, conn) /\ NoTwoAlike(recorded)
    BY <1>2 DEF Gateway!Subscribed, HolderInv
  <2>3. \/ reply' = "pending"
        \/ /\ work'.sub \in Subscriptions
           /\ reply' = IF channels[QueueOf[work'.sub]] = "stale" THEN "failed" ELSE "pending"
    BY <2>1, <2>2, RestoreSteps
  <2>. QED
    BY <2>3 DEF Gateway!Keys, GatewayAssumption, Gateway!ConstantsAssumption
<1>. QED
  BY <1>1, <1>2

\* Nothing that is closed is kept, but after a refused request or a late reply.
LEMMA FreshStep ==
  ASSUME GatewayAssumption, Gateway!TypeOK, HolderInv, FreshInv, [Gateway!Next]_(Gateway!vars)
  PROVE  FreshInv'
<1>. SUFFICES ASSUME intact'
              PROVE  FreshInv'
  BY DEF FreshInv
<1>1. ASSUME \/ Gateway!CallConnect \/ Gateway!CallDisconnect \/ Gateway!TimerFires
             \/ \E s \in Subscriptions : Gateway!CallSubscribe(s)
             \/ UNCHANGED Gateway!vars
      PROVE  FreshInv'
  BY <1>1 DEF FreshInv, Gateway!CallConnect, Gateway!CallDisconnect, Gateway!TimerFires,
         Gateway!CallSubscribe, Gateway!vars, Gateway!broker
<1>2. ASSUME NEW s \in Subscriptions, Gateway!Unsubscribe(s)
      PROVE  FreshInv'
  <2>1. /\ intact /\ UNCHANGED <<conn, channels, reply>>
        /\ \A n \in Gateway!Given : consumers'[n] \in {consumers[n], "none"}
    BY <1>2 DEF Gateway!Unsubscribe, Gateway!DropConsumer, Gateway!TypeOK
  <2>. QED
    BY <2>1 DEF FreshInv, Gateway!Given
<1>3. ASSUME NEW call \in Gateway!Calls, Gateway!TakeLock(call)
      PROVE  FreshInv'
  <2>1. /\ work = None /\ reply = "pending" /\ NoTwoAlike(recorded)
        /\ UNCHANGED <<conn, channels, consumers, intact>>
    BY <1>3 DEF Gateway!TakeLock, HolderInv, Gateway!broker
  <2>2. reply' = "pending"
    <3>1. CASE UNCHANGED reply
      BY <2>1, <3>1
    <3>2. CASE Gateway!RestoreNext(call, Len(recorded), recorded, conn)
      <4>1. Len(recorded) \in Nat /\ conn \in BOOLEAN
        BY DEF Gateway!TypeOK
      <4>2. \/ reply' = "pending"
            \/ /\ work'.sub \in Subscriptions
               /\ reply' = IF channels[QueueOf[work'.sub]] = "stale" THEN "failed" ELSE "pending"
        BY <2>1, <3>2, <4>1, RestoreSteps
      <4>. QED
        BY <2>1, <4>2 DEF Gateway!Keys, FreshInv, GatewayAssumption, Gateway!ConstantsAssumption
    <3>. QED
      BY <1>3, <3>1, <3>2 DEF Gateway!TakeLock
  <2>. QED
    BY <2>1, <2>2 DEF FreshInv
<1>4. CASE Gateway!Dialed
  <2>1. /\ intact /\ ~conn /\ conn' = TRUE /\ UNCHANGED <<channels, consumers>>
        /\ work.call \in Gateway!Calls /\ NoTwoAlike(recorded)
    BY <1>4 DEF Gateway!Dialed, HolderInv, Gateway!Holds, Gateway!TypeOK, Gateway!Jobs
  <2>2. \/ reply' = "pending"
        \/ /\ work'.sub \in Subscriptions
           /\ reply' = IF channels[QueueOf[work'.sub]] = "stale" THEN "failed" ELSE "pending"
    <3>1. Gateway!RestoreNext(work.call, 0, recorded, TRUE)
      BY <1>4 DEF Gateway!Dialed
    <3>. QED
      BY <2>1, <3>1, RestoreSteps
  <2>. QED
    BY <2>1, <2>2 DEF Gateway!Keys, FreshInv, GatewayAssumption, Gateway!ConstantsAssumption
<1>5. CASE Gateway!ChannelOpened
  <2>1. /\ intact /\ reply = "pending" /\ conn /\ reply' = "pending"
        /\ channels' = [channels EXCEPT ![QueueOf[work.sub]] = "live"]
        /\ UNCHANGED <<conn, consumers>>
    BY <1>5 DEF Gateway!ChannelOpened, Gateway!Answered, Gateway!Holds, HolderInv,
           Gateway!Subscribing, Gateway!Requests
  <2>. QED
    BY <2>1 DEF FreshInv, Gateway!TypeOK
<1>6. CASE Gateway!QueueAsserted
  <2>1. /\ intact /\ reply = "pending" /\ conn /\ Gateway!Subscribing
        /\ UNCHANGED <<conn, channels, consumers>>
    BY <1>6 DEF Gateway!QueueAsserted, Gateway!Answered, Gateway!Holds, HolderInv,
           Gateway!Subscribing, Gateway!Requests
  <2>2. reply' = "pending"
    BY <1>6, <2>1, SubscribedReply DEF Gateway!QueueAsserted, FreshInv
  <2>. QED
    BY <2>1, <2>2 DEF FreshInv
<1>7. CASE Gateway!Consuming
  <2>1. /\ intact /\ reply = "pending" /\ conn /\ Gateway!Subscribing
        /\ work.sub \in Subscriptions
        /\ consumers' = [consumers EXCEPT ![Gateway!NameGiven] = "live"]
        /\ UNCHANGED <<conn, channels>>
    BY <1>7 DEF Gateway!Consuming, Gateway!Answered, Gateway!Holds, HolderInv,
           Gateway!Subscribing, Gateway!Requests
  <2>2. reply' = "pending"
    BY <1>7, <2>1, SubscribedReply DEF Gateway!Consuming, FreshInv
  <2>3. Gateway!NameGiven # Lost
    BY <2>1 DEF Gateway!NameGiven, GatewayAssumption, Gateway!ConstantsAssumption
  <2>. HIDE DEF Gateway!NameGiven
  <2>. QED
    BY <2>1, <2>2, <2>3 DEF FreshInv, Gateway!TypeOK, Gateway!Given
<1>8. CASE Gateway!RequestFails \/ Gateway!DialFails \/ Gateway!DisconnectFails
  BY <1>8 DEF Gateway!RequestFails, Gateway!DialFails, Gateway!DisconnectFails, Gateway!Raise,
         Gateway!Release, Gateway!broker, FreshInv
<1>9. CASE Gateway!Refused
  BY <1>9 DEF Gateway!Refused
<1>10. CASE Gateway!Cancelled
  BY <1>10 DEF Gateway!Cancelled, FreshInv, Gateway!Given
<1>11. CASE Gateway!Closed \/ Gateway!Lose
  BY <1>11 DEF Gateway!Closed, Gateway!Lose, Gateway!OnConnectionClosed, Gateway!CleanUp,
         FreshInv, Gateway!Given, GatewayAssumption, Gateway!ConstantsAssumption
<1>. QED
  BY <1>1, <1>2, <1>3, <1>4, <1>5, <1>6, <1>7, <1>8, <1>9, <1>10, <1>11
     DEF Gateway!Next, Gateway!Resume

------------------------------------------------------------------------------
(* What is consumed.                                                       *)

\* The loop goes on, if the subscriptions that it has come to are consumed.
LEMMA RestoreAccount ==
  ASSUME GatewayAssumption, Gateway!TypeOK, HolderInv, NEW call \in Gateway!Calls,
         NEW restored \in Nat,
         Gateway!RestoreNext(call, restored, recorded, TRUE),
         \A i \in 1..Len(recorded) : i > Len(recorded) - restored => recorded[i] \in Consumed'
  PROVE  IdleInv' /\ LoopInv'
<1>1. NoTwoAlike(recorded) /\ Len(recorded) \in Nat /\ DOMAIN recorded = 1..Len(recorded)
  BY DEF HolderInv, Gateway!TypeOK
<1>2. \/ work' = None /\ recorded' = recorded /\ restored >= Len(recorded)
      \/ /\ work' # None /\ work'.await \in {"channel", "queue"}
         /\ Len(recorded') > 0 /\ recorded'[Len(recorded')] = work'.sub
         /\ \/ /\ work'.restored = restored /\ restored < Len(recorded)
               /\ Len(recorded') = Len(recorded)
               /\ \A i \in 1..(Len(recorded) - 1) : recorded'[i] = recorded[i + 1]
            \/ /\ work'.restored = None /\ restored >= Len(recorded)
               /\ Len(recorded') = Len(recorded) + 1
               /\ \A i \in 1..Len(recorded) : recorded'[i] = recorded[i]
  BY <1>1, RestoreSteps
<1>3. CASE work' = None /\ recorded' = recorded /\ restored >= Len(recorded)
  BY <1>1, <1>3 DEF IdleInv, LoopInv, Gateway!Subscribing, Gateway!Elements
<1>4. CASE /\ work' # None /\ work'.await \in {"channel", "queue"}
           /\ Len(recorded') > 0 /\ recorded'[Len(recorded')] = work'.sub
           /\ work'.restored = restored /\ restored < Len(recorded)
           /\ Len(recorded') = Len(recorded)
           /\ \A i \in 1..(Len(recorded) - 1) : recorded'[i] = recorded[i + 1]
  <2>1. ASSUME NEW i \in 1..(Len(recorded) - 1), i >= Len(recorded) - restored
        PROVE  recorded'[i] \in Consumed'
    BY <1>1, <1>4, <2>1
  <2>2. work'.restored # None /\ work'.await # "consumer"
    BY <1>4 DEF GatewayAssumption, Gateway!NoneAssumption
  <2>3. IdleInv'
    BY <1>4 DEF IdleInv
  <2>. QED
    BY <1>4, <2>1, <2>2, <2>3 DEF LoopInv
<1>5. CASE /\ work' # None /\ work'.await \in {"channel", "queue"}
           /\ Len(recorded') > 0 /\ recorded'[Len(recorded')] = work'.sub
           /\ work'.restored = None /\ restored >= Len(recorded)
           /\ Len(recorded') = Len(recorded) + 1
           /\ \A i \in 1..Len(recorded) : recorded'[i] = recorded[i]
  <2>1. ASSUME NEW i \in 1..Len(recorded)
        PROVE  recorded'[i] \in Consumed'
    BY <1>1, <1>5, <2>1
  <2>. QED
    BY <1>1, <1>5, <2>1 DEF IdleInv, LoopInv, Gateway!Subscribing
<1>. QED
  BY <1>2, <1>3, <1>4, <1>5

\* So it does at the end of #subscribe, with the subscription that is done.
LEMMA SubscribedAccount ==
  ASSUME GatewayAssumption, Gateway!TypeOK, HolderInv, LoopInv, Gateway!Subscribing,
         Gateway!Subscribed, conn,
         work.sub \in Consumed', Consumed \subseteq Consumed'
  PROVE  IdleInv' /\ LoopInv'
<1>1. /\ Len(recorded) \in Nat /\ DOMAIN recorded = 1..Len(recorded)
      /\ recorded[Len(recorded)] = work.sub
      /\ work \in Gateway!Jobs /\ conn = TRUE
  BY DEF LoopInv, Gateway!TypeOK, Gateway!Subscribing
<1>2. Len(recorded) \in Nat
  BY <1>1
<1>3. CASE work.restored = None
  <2>1. ASSUME NEW i \in 1..Len(recorded) PROVE recorded[i] \in Consumed'
    <3>1. CASE i = Len(recorded)
      BY <3>1, <1>1
    <3>2. CASE i # Len(recorded)
      <4>1. i \in 1..(Len(recorded) - 1)
        BY <1>2, <3>2
      <4>2. recorded[i] \in Consumed
        BY <1>3, <4>1 DEF LoopInv
      <4>. QED
        BY <4>2
    <3>. QED
      BY <3>1, <3>2
  <2>2. work' = None /\ recorded' = recorded
    BY <1>3 DEF Gateway!Subscribed, Gateway!Release
  <2>. QED
    BY <1>1, <2>1, <2>2 DEF IdleInv, LoopInv, Gateway!Subscribing, Gateway!Elements
<1>4. CASE work.restored # None
  <2>1. work.restored \in Nat /\ work.restored + 1 \in Nat /\ work.call \in Gateway!Calls
    BY <1>1, <1>4 DEF Gateway!Jobs
  <2>2. Gateway!RestoreNext(work.call, work.restored + 1, recorded, TRUE)
    BY <1>1, <1>4 DEF Gateway!Subscribed
  <2>3. ASSUME NEW i \in 1..Len(recorded), i > Len(recorded) - (work.restored + 1)
        PROVE  recorded[i] \in Consumed'
    <3>1. CASE i = Len(recorded)
      BY <3>1, <1>1
    <3>2. CASE i # Len(recorded)
      <4>1. i \in 1..(Len(recorded) - 1) /\ i >= Len(recorded) - work.restored
        BY <1>2, <2>1, <2>3, <3>2
      <4>. QED
        BY <4>1 DEF LoopInv
    <3>. QED
      BY <3>1, <3>2
  <2>. QED
    BY <2>1, <2>2, <2>3, RestoreAccount
<1>. QED
  BY <1>3, <1>4

\* It keeps the subscriptions, too.
LEMMA SubscribedKeeps ==
  ASSUME GatewayAssumption, Gateway!TypeOK, HolderInv, Gateway!Subscribing, Gateway!Subscribed
  PROVE  Gateway!Elements(recorded) \subseteq Gateway!Elements(recorded')
<1>1. CASE work.restored = None
  BY <1>1 DEF Gateway!Subscribed
<1>2. CASE work.restored # None
  <2>1. work.restored + 1 \in Nat /\ work.call \in Gateway!Calls /\ conn \in BOOLEAN
    BY <1>2 DEF Gateway!TypeOK, Gateway!Subscribing, Gateway!Jobs
  <2>2. Gateway!RestoreNext(work.call, work.restored + 1, recorded, conn) /\ NoTwoAlike(recorded)
    BY <1>2 DEF Gateway!Subscribed, HolderInv
  <2>. QED
    BY <2>1, <2>2, RestoreSteps
<1>. QED
  BY <1>1, <1>2

\* unsubscribe() leaves the consumers that other subscriptions use.
LEMMA UnsubscribeAccount ==
  ASSUME GatewayAssumption, Gateway!TypeOK, HolderInv, AccountInv, NEW s \in Subscriptions,
         Gateway!Unsubscribe(s), intact', conn'
  PROVE  UsedInv' /\ IdleInv' /\ LoopInv'
<1>1. /\ s \in Gateway!Elements(recorded) /\ UNCHANGED <<work, conn>> /\ intact /\ conn
      /\ ~Gateway!Restoring /\ ~(Gateway!Subscribing /\ work.sub = s)
      /\ recorded' = Gateway!Without(recorded, s) /\ given' = [given EXCEPT ![s] = None]
  BY DEF Gateway!Unsubscribe
<1>2. /\ recorded \in Seq(Subscriptions) /\ NoTwoAlike(recorded)
      /\ consumers \in [Gateway!Given -> Gateway!States]
      /\ given \in [Subscriptions -> Gateway!Given \cup {None}]
      /\ None \notin Gateway!Given
  BY DEF Gateway!TypeOK, HolderInv, Gateway!Given, GatewayAssumption,
         Gateway!ConstantsAssumption
<1>3. UsedInv /\ IdleInv /\ LoopInv
  BY <1>1 DEF AccountInv
<1>4. /\ recorded' \in Seq(Subscriptions) /\ NoTwoAlike(recorded')
      /\ Gateway!Elements(recorded') = Gateway!Elements(recorded) \ {s}
      /\ Len(recorded') = Len(recorded) - 1
      /\ recorded[Len(recorded)] # s =>
           Len(recorded') > 0 /\ recorded'[Len(recorded')] = recorded[Len(recorded)]
  BY <1>1, <1>2, Removed
<1>5. ASSUME NEW t \in Gateway!Elements(recorded) \ {s}, given[t] \in Gateway!Given
      PROVE  given'[t] = given[t] /\ consumers'[given[t]] = consumers[given[t]]
  <2>1. t \in Subscriptions
    BY <1>2 DEF Gateway!Elements
  <2>2. consumers' =
          IF given[s] = None \/ \E u \in Gateway!Elements(recorded) \ {s} : given[u] = given[s]
            THEN consumers ELSE [consumers EXCEPT ![given[s]] = "none"]
    BY DEF Gateway!Unsubscribe, Gateway!DropConsumer
  <2>. QED
    BY <1>1, <1>2, <1>5, <2>1, <2>2
<1>6. UsedInv'
  <2>. SUFFICES ASSUME NEW n \in Gateway!Given, consumers'[n] # "none"
                PROVE  \E t \in Gateway!Elements(recorded') : given'[t] = n
    BY DEF UsedInv
  <2>1. consumers' =
          IF given[s] = None \/ \E u \in Gateway!Elements(recorded) \ {s} : given[u] = given[s]
            THEN consumers ELSE [consumers EXCEPT ![given[s]] = "none"]
    BY DEF Gateway!Unsubscribe, Gateway!DropConsumer
  <2>2. consumers[n] # "none"
    BY <1>2, <2>1
  <2>3. PICK t \in Gateway!Elements(recorded) : given[t] = n
    BY <1>3, <2>2 DEF UsedInv
  <2>4. PICK u \in Gateway!Elements(recorded) \ {s} : given[u] = n
    <3>1. CASE t # s
      BY <2>3, <3>1
    <3>2. CASE t = s
      BY <1>2, <2>1, <2>3, <3>2
    <3>. QED
      BY <3>1, <3>2
  <2>. QED
    BY <1>4, <1>5, <2>4
<1>7. ASSUME NEW t \in Gateway!Elements(recorded) \ {s}, t \in Consumed
      PROVE  t \in Consumed'
  <2>1. t \in Subscriptions /\ given[t] = QueueOf[t] /\ consumers[QueueOf[t]] # "none"
    BY <1>7 DEF Consumed
  <2>2. given[t] \in Gateway!Given
    BY <2>1 DEF Gateway!Given, GatewayAssumption, Gateway!ConstantsAssumption
  <2>. QED
    BY <1>5, <2>1, <2>2 DEF Consumed
<1>8. IdleInv'
  BY <1>1, <1>3, <1>4, <1>7 DEF IdleInv
<1>9. LoopInv'
  <2>. SUFFICES ASSUME Gateway!Subscribing
                PROVE  LoopInv'
    BY <1>1 DEF LoopInv, Gateway!Subscribing
  <2>1. /\ work.restored = None /\ Len(recorded) \in Nat /\ Len(recorded) > 0
        /\ recorded[Len(recorded)] = work.sub /\ work.sub # s
    BY <1>1, <1>2, <1>3 DEF Gateway!Restoring, Gateway!Subscribing, LoopInv
  <2>2. Len(recorded') > 0 /\ recorded'[Len(recorded')] = work.sub
    BY <1>4, <2>1
  <2>3. ASSUME NEW i \in 1..(Len(recorded') - 1)
        PROVE  recorded'[i] \in Consumed'
    <3>1. /\ Len(recorded') \in Nat /\ DOMAIN recorded' = 1..Len(recorded')
          /\ i \in DOMAIN recorded' /\ Len(recorded') \in DOMAIN recorded' /\ i # Len(recorded')
      <4>1. Len(recorded') \in Nat /\ DOMAIN recorded' = 1..Len(recorded')
        BY <1>4
      <4>2. Len(recorded') \in Nat /\ Len(recorded') > 0
        BY <4>1, <2>2
      <4>3. i \in 1..Len(recorded') /\ Len(recorded') \in 1..Len(recorded') /\ i # Len(recorded')
        BY <4>2
      <4>. QED
        BY <4>1, <4>3
    <3>2. recorded'[i] # work.sub
      BY <1>4, <2>2, <3>1 DEF NoTwoAlike
    <3>3. recorded'[i] \in Gateway!Elements(recorded')
      BY <3>1 DEF Gateway!Elements
    <3>4. recorded'[i] \in Gateway!Elements(recorded) \ {s}
      BY <3>3, <1>4
    <3>5. PICK j \in 1..Len(recorded) : recorded[j] = recorded'[i]
      <4>1. DOMAIN recorded = 1..Len(recorded)
        BY <1>2
      <4>. QED
        BY <3>4, <4>1 DEF Gateway!Elements
    <3>6. j \in 1..(Len(recorded) - 1)
      <4>1. j # Len(recorded)
        BY <2>1, <3>2, <3>5
      <4>2. Len(recorded) \in Nat
        BY <2>1
      <4>. QED
        BY <4>1, <4>2
    <3>7. recorded[j] \in Consumed
      BY <1>3, <2>1, <3>6 DEF LoopInv
    <3>. QED
      BY <1>7, <3>4, <3>5, <3>7
  <2>4. work.await = "consumer" => given'[work.sub] = QueueOf[work.sub]
    BY <1>1, <1>2, <1>3, <2>1 DEF LoopInv
  <2>. QED
    BY <1>1, <2>1, <2>2, <2>3, <2>4 DEF LoopInv
<1>. QED
  BY <1>6, <1>8, <1>9

\* A queue that is asserted, and its consumer.
LEMMA QueueAccount ==
  ASSUME GatewayAssumption, Gateway!TypeOK, HolderInv, NamesInv, FreshInv, AccountInv,
         Gateway!QueueAsserted \/ Gateway!Consuming,
         intact', conn'
  PROVE  UsedInv' /\ IdleInv' /\ LoopInv'
<1>1. /\ Gateway!Subscribing /\ intact /\ conn /\ conn' = conn /\ reply = "pending"
      /\ work.sub \in Subscriptions /\ work \in Gateway!Jobs
  BY DEF Gateway!QueueAsserted, Gateway!Consuming, Gateway!Answered, Gateway!Holds, HolderInv,
         Gateway!Subscribing, Gateway!Requests, Gateway!TypeOK
<1>2. UsedInv /\ IdleInv /\ LoopInv
  BY <1>1 DEF AccountInv
<1>3. /\ consumers \in [Gateway!Given -> Gateway!States]
      /\ given \in [Subscriptions -> Gateway!Given \cup {None}]
      /\ QueueOf[work.sub] \in Gateway!Given /\ QueueOf[work.sub] # Lost
      /\ None \notin Gateway!Given
  BY <1>1 DEF Gateway!TypeOK, Gateway!Given, GatewayAssumption, Gateway!ConstantsAssumption
<1>4. work.sub \in Gateway!Elements(recorded)
  <2>1. Len(recorded) \in Nat /\ DOMAIN recorded = 1..Len(recorded)
    BY DEF Gateway!TypeOK
  <2>2. Len(recorded) > 0 /\ recorded[Len(recorded)] = work.sub
    BY <1>1, <1>2 DEF LoopInv
  <2>3. Len(recorded) \in DOMAIN recorded
    BY <2>1, <2>2
  <2>. QED
    BY <2>2, <2>3 DEF Gateway!Elements
<1>5. CASE Gateway!QueueAsserted
  <2>1. given' = [given EXCEPT ![work.sub] = QueueOf[work.sub]] /\ consumers' = consumers
    BY <1>1, <1>4, <1>5 DEF Gateway!QueueAsserted, Gateway!NameGiven
  <2>2. ASSUME NEW t \in Gateway!Elements(recorded), NEW n \in Gateway!Given, given[t] = n,
               consumers[n] # "none"
        PROVE  given'[t] = n
    <3>1. CASE t # work.sub
      BY <2>1, <2>2, <3>1, <1>3
    <3>2. CASE t = work.sub
      <4>1. n \in {None, QueueOf[work.sub], Gateway!Outlived(QueueOf[work.sub])}
        BY <1>1, <2>2, <3>2 DEF NamesInv
      <4>2. n # Lost /\ n # None
        BY <1>1, <1>3, <2>2 DEF FreshInv
      <4>3. n = QueueOf[work.sub]
        BY <4>1, <4>2 DEF Gateway!Outlived
      <4>. QED
        BY <2>1, <3>2, <4>3, <1>3, <1>1
    <3>. QED
      BY <3>1, <3>2
  <2>3. Consumed \subseteq Consumed'
    BY <2>1, <1>1, <1>3 DEF Consumed
  <2>4. CASE consumers[Gateway!NameGiven] # "none" /\ Gateway!Subscribed
    <3>1. work.sub \in Consumed'
      BY <1>1, <1>3, <2>1, <2>4 DEF Gateway!NameGiven, Consumed
    <3>2. Gateway!Elements(recorded) \subseteq Gateway!Elements(recorded')
      BY <1>1, <2>4, SubscribedKeeps
    <3>3. UsedInv'
      BY <1>2, <2>1, <2>2, <3>2 DEF UsedInv
    <3>. QED
      BY <1>1, <1>2, <2>3, <2>4, <3>1, <3>3, SubscribedAccount
  <2>5. CASE work' = [work EXCEPT !.await = "consumer"] /\ UNCHANGED recorded
    <3>1. /\ work' # None /\ work'.await = "consumer" /\ work'.sub = work.sub
          /\ work'.restored = work.restored
      BY <1>1, <2>5 DEF Gateway!Jobs, Gateway!Awaits, Gateway!Requests, GatewayAssumption,
             Gateway!NoneAssumption
    <3>2. given'[work.sub] = QueueOf[work.sub]
      BY <1>1, <1>3, <2>1
    <3>3. UsedInv'
      BY <1>2, <2>1, <2>2, <2>5 DEF UsedInv
    <3>4. IdleInv'
      BY <3>1 DEF IdleInv
    <3>5. LoopInv'
      BY <1>1, <1>2, <2>3, <2>5, <3>1, <3>2 DEF LoopInv
    <3>. QED
      BY <3>3, <3>4, <3>5
  <2>. QED
    BY <1>5, <2>4, <2>5 DEF Gateway!QueueAsserted
<1>6. CASE Gateway!Consuming
  <2>1. /\ given' = given /\ Gateway!Subscribed
        /\ consumers' = [consumers EXCEPT ![QueueOf[work.sub]] = "live"]
    BY <1>1, <1>6 DEF Gateway!Consuming, Gateway!NameGiven
  <2>2. given[work.sub] = QueueOf[work.sub]
    BY <1>1, <1>2, <1>6 DEF Gateway!Consuming, Gateway!Answered, Gateway!Holds, LoopInv
  <2>3. Consumed \subseteq Consumed' /\ work.sub \in Consumed'
    BY <1>1, <1>3, <2>1, <2>2 DEF Consumed
  <2>4. Gateway!Elements(recorded) \subseteq Gateway!Elements(recorded')
    BY <1>1, <2>1, SubscribedKeeps
  <2>5. UsedInv'
    BY <1>2, <1>3, <1>4, <2>1, <2>2, <2>4 DEF UsedInv
  <2>. QED
    BY <1>1, <1>2, <2>1, <2>3, <2>5, SubscribedAccount
<1>. QED
  BY <1>5, <1>6

\* On a connection on which nothing has failed, the consumers are those of the
\* subscriptions.
LEMMA AccountStep ==
  ASSUME GatewayAssumption, Gateway!TypeOK, HolderInv, NamesInv, FreshInv, AccountInv,
         [Gateway!Next]_(Gateway!vars)
  PROVE  AccountInv'
<1>. SUFFICES ASSUME intact', conn'
              PROVE  UsedInv' /\ IdleInv' /\ LoopInv'
  BY DEF AccountInv
<1>1. ASSUME \/ Gateway!CallConnect \/ Gateway!CallDisconnect \/ Gateway!TimerFires
             \/ \E s \in Subscriptions : Gateway!CallSubscribe(s)
             \/ UNCHANGED Gateway!vars
      PROVE  UsedInv' /\ IdleInv' /\ LoopInv'
  <2>1. UNCHANGED <<consumers, conn, recorded, given, work, intact>>
    BY <1>1 DEF Gateway!CallConnect, Gateway!CallDisconnect, Gateway!TimerFires,
           Gateway!CallSubscribe, Gateway!vars, Gateway!broker
  <2>. QED
    BY <2>1 DEF AccountInv, UsedInv, IdleInv, LoopInv, Consumed, Gateway!Subscribing
<1>2. ASSUME NEW s \in Subscriptions, Gateway!Unsubscribe(s)
      PROVE  UsedInv' /\ IdleInv' /\ LoopInv'
  BY <1>2, UnsubscribeAccount
<1>3. ASSUME NEW call \in Gateway!Calls, Gateway!TakeLock(call)
      PROVE  UsedInv' /\ IdleInv' /\ LoopInv'
  <2>1. /\ work = None /\ conn /\ intact /\ UNCHANGED <<conn, consumers, given>>
    BY <1>3 DEF Gateway!TakeLock, Gateway!broker
  <2>2. UsedInv /\ Gateway!Elements(recorded) \subseteq Consumed /\ Consumed' = Consumed
    BY <2>1 DEF AccountInv, IdleInv, Consumed
  <2>3. CASE Gateway!RestoreNext(call, Len(recorded), recorded, conn)
    <3>1. /\ Len(recorded) \in Nat /\ conn = TRUE /\ NoTwoAlike(recorded)
          /\ \A i \in 1..Len(recorded) : recorded[i] \in Gateway!Elements(recorded)
      BY <2>1 DEF Gateway!TypeOK, HolderInv, Gateway!Elements
    <3>2. IdleInv' /\ LoopInv'
      BY <2>2, <2>3, <3>1, RestoreAccount
    <3>3. Gateway!Elements(recorded) \subseteq Gateway!Elements(recorded')
      BY <2>3, <3>1, RestoreSteps
    <3>4. UsedInv'
      BY <2>1, <2>2, <3>3 DEF UsedInv
    <3>. QED
      BY <3>2, <3>4
  <2>4. CASE work' = Gateway!Job(call, "cancelling", None, None) /\ UNCHANGED recorded
    <3>1. work' # None /\ work'.await = "cancelling"
      <4>1. work' \in Gateway!Jobs
        BY <2>4 DEF Gateway!Job, Gateway!Jobs, Gateway!Awaits
      <4>. QED
        BY <2>4, <4>1 DEF Gateway!Job, GatewayAssumption, Gateway!NoneAssumption
    <3>. QED
      BY <2>1, <2>2, <2>4, <3>1
         DEF UsedInv, IdleInv, LoopInv, Gateway!Subscribing, Gateway!Requests
  <2>5. CASE UNCHANGED <<work, recorded>>
    BY <2>1, <2>2, <2>5 DEF UsedInv, IdleInv, LoopInv, Gateway!Subscribing
  <2>. QED
    BY <1>3, <2>1, <2>3, <2>4, <2>5 DEF Gateway!TakeLock
<1>4. CASE Gateway!Dialed
  <2>1. /\ intact /\ ~conn /\ UNCHANGED <<consumers, given>>
        /\ Gateway!RestoreNext(work.call, 0, recorded, TRUE) /\ work.call \in Gateway!Calls
    BY <1>4 DEF Gateway!Dialed, HolderInv, Gateway!Holds, Gateway!TypeOK, Gateway!Jobs
  <2>2. UsedInv'
    BY <2>1 DEF UsedInv, FreshInv
  <2>3. \A i \in 1..Len(recorded) : i > Len(recorded) - 0 => recorded[i] \in Consumed'
    <3>1. Len(recorded) \in Nat
      BY DEF Gateway!TypeOK
    <3>. QED
      BY <3>1
  <2>. QED
    BY <2>1, <2>2, <2>3, RestoreAccount
<1>5. CASE Gateway!ChannelOpened
  <2>1. /\ intact /\ conn /\ Gateway!Subscribing /\ UNCHANGED <<consumers, recorded, given>>
        /\ work' = [work EXCEPT !.await = "queue"] /\ work \in Gateway!Jobs
    BY <1>5 DEF Gateway!ChannelOpened, Gateway!Answered, Gateway!Holds, Gateway!Subscribing,
           Gateway!Requests, Gateway!TypeOK
  <2>2. /\ work' # None /\ work'.await = "queue" /\ work'.sub = work.sub
        /\ work'.restored = work.restored
    BY <2>1 DEF Gateway!Jobs, Gateway!Awaits, Gateway!Requests, GatewayAssumption,
           Gateway!NoneAssumption
  <2>. QED
    BY <2>1, <2>2 DEF AccountInv, UsedInv, IdleInv, LoopInv, Consumed
<1>6. CASE Gateway!QueueAsserted \/ Gateway!Consuming
  BY <1>6, QueueAccount
<1>7. CASE Gateway!RequestFails \/ Gateway!DialFails \/ Gateway!DisconnectFails
  <2>1. FALSE
    BY <1>7 DEF Gateway!RequestFails, Gateway!DialFails, Gateway!DisconnectFails,
           Gateway!broker, HolderInv, Gateway!Holds, Gateway!Subscribing, Gateway!Requests
  <2>. QED
    BY <2>1
<1>8. CASE Gateway!Refused
  BY <1>8 DEF Gateway!Refused
<1>9. CASE Gateway!Cancelled
  <2>1. /\ intact /\ work \in Gateway!Jobs /\ work' = [work EXCEPT !.await = "closing"]
        /\ \A n \in Gateway!Given : consumers'[n] = "none"
    BY <1>9 DEF Gateway!Cancelled, Gateway!Holds, Gateway!TypeOK, Gateway!States, FreshInv
  <2>2. work' # None /\ work'.await = "closing"
    BY <2>1 DEF Gateway!Jobs, Gateway!Awaits, GatewayAssumption, Gateway!NoneAssumption
  <2>. QED
    BY <2>1, <2>2 DEF UsedInv, IdleInv, LoopInv, Gateway!Subscribing, Gateway!Requests
<1>10. CASE Gateway!Closed \/ Gateway!Lose
  BY <1>10 DEF Gateway!Closed, Gateway!Lose, Gateway!OnConnectionClosed, Gateway!CleanUp
<1>. QED
  BY <1>1, <1>2, <1>3, <1>4, <1>5, <1>6, <1>7, <1>8, <1>9, <1>10
     DEF Gateway!Next, Gateway!Resume

------------------------------------------------------------------------------
(* The theorems.                                                           *)

GatewayInv == Gateway!TypeOK /\ HolderInv /\ NamesInv /\ FreshInv /\ AccountInv

\* The invariant holds in every state.
LEMMA GatewayInvariant ==
  GatewayAssumption => (Gateway!Spec => []GatewayInv)
<1>. SUFFICES ASSUME GatewayAssumption
              PROVE  Gateway!Spec => []GatewayInv
  OBVIOUS
<1>1. Gateway!Init => GatewayInv
  <2>. SUFFICES ASSUME Gateway!Init
                PROVE  GatewayInv
    OBVIOUS
  <2>1. NamesInv /\ FreshInv /\ AccountInv
    BY DEF Gateway!Init, NamesInv, FreshInv, AccountInv, Gateway!Given, GatewayAssumption,
           Gateway!ConstantsAssumption
  <2>. QED
    BY <2>1, InitHolder DEF GatewayInv
<1>2. GatewayInv /\ [Gateway!Next]_(Gateway!vars) => GatewayInv'
  BY HolderStep, NamesStep, FreshStep, AccountStep DEF GatewayInv
<1>. QED
  BY <1>1, <1>2, PTL DEF Gateway!Spec

\* TypeOK is an invariant: the list of subscriptions holds subscriptions only, and the
\* loop of #restoreSubscriptions never takes one from an empty list.
THEOREM GatewayTypeCorrect ==
  GatewayAssumption => (Gateway!Spec => []Gateway!TypeOK)
<1>. SUFFICES ASSUME GatewayAssumption
              PROVE  Gateway!Spec => []Gateway!TypeOK
  OBVIOUS
<1>1. GatewayInv => Gateway!TypeOK
  BY DEF GatewayInv
<1>. QED
  BY <1>1, GatewayInvariant, PTL

\* ConsumesWhatIsSubscribed is an invariant, for any subscriptions, queues and failures:
\* between two calls, a connection on which nothing has failed has a live consumer for
\* every subscription, and no consumer without one.
THEOREM SubscribedAreConsumed ==
  GatewayAssumption => (Gateway!Spec => []Gateway!ConsumesWhatIsSubscribed)
<1>. SUFFICES ASSUME GatewayAssumption
              PROVE  Gateway!Spec => []Gateway!ConsumesWhatIsSubscribed
  OBVIOUS
<1>1. GatewayInv => Gateway!ConsumesWhatIsSubscribed
  <2>. SUFFICES ASSUME GatewayInv, conn, work = None, intact
                PROVE  /\ \A s \in Gateway!Elements(recorded) : Gateway!Served(s)
                       /\ \A n \in Gateway!Given : consumers[n] # "none" =>
                                             \E s \in Gateway!Elements(recorded) : given[s] = n
    BY DEF Gateway!ConsumesWhatIsSubscribed
  <2>1. UsedInv /\ Gateway!Elements(recorded) \subseteq Consumed
    BY DEF GatewayInv, AccountInv, IdleInv
  <2>2. \A n \in Gateway!Given : consumers[n] \in {"none", "live"}
    BY DEF GatewayInv, Gateway!TypeOK, FreshInv, Gateway!States
  <2>3. \A s \in Consumed : Gateway!Served(s)
    BY <2>2 DEF Consumed, Gateway!Served, Gateway!Given, GatewayAssumption,
           Gateway!ConstantsAssumption
  <2>. QED
    BY <2>1, <2>3 DEF UsedInv
<1>. QED
  BY <1>1, GatewayInvariant, PTL

\* SubscriptionsRetained holds of every step: the restore puts back what it takes, at
\* once, and only unsubscribe() removes a subscription, the one it is given.
THEOREM NoneIsLost ==
  GatewayAssumption => (Gateway!Spec => Gateway!SubscriptionsRetained)
<1>. SUFFICES ASSUME GatewayAssumption
              PROVE  Gateway!Spec => Gateway!SubscriptionsRetained
  OBVIOUS
<1>1. GatewayInv /\ [Gateway!Next]_(Gateway!vars) =>
        [\A s \in Subscriptions :
           s \in Gateway!Elements(recorded) /\ s \notin Gateway!Elements(recorded') =>
             Gateway!Unsubscribe(s)]_(Gateway!vars)
  <2>. SUFFICES ASSUME GatewayInv, [Gateway!Next]_(Gateway!vars), NEW s \in Subscriptions,
                       s \in Gateway!Elements(recorded), s \notin Gateway!Elements(recorded')
                PROVE  Gateway!Unsubscribe(s)
    OBVIOUS
  <2>. USE DEF GatewayInv
  <2>1. /\ NoTwoAlike(recorded) /\ recorded \in Seq(Subscriptions) /\ Len(recorded) \in Nat
        /\ conn \in BOOLEAN
    BY DEF HolderInv, Gateway!TypeOK
  <2>2. ASSUME NEW t \in Subscriptions, Gateway!Unsubscribe(t)
        PROVE  t = s
    <3>1. t \in Gateway!Elements(recorded) /\ recorded' = Gateway!Without(recorded, t)
      BY <2>2 DEF Gateway!Unsubscribe
    <3>2. Gateway!Elements(recorded') = Gateway!Elements(recorded) \ {t}
      BY <2>1, <3>1, Removed
    <3>. QED
      BY <3>2
  <2>3. ASSUME NEW call \in Gateway!Calls, Gateway!TakeLock(call)
        PROVE  FALSE
    <3>1. Gateway!RestoreNext(call, Len(recorded), recorded, conn)
      BY <2>3 DEF Gateway!TakeLock
    <3>. QED
      BY <2>1, <3>1, RestoreSteps
  <2>4. ~Gateway!Dialed
    <3>. SUFFICES ASSUME Gateway!Dialed
                  PROVE  FALSE
      OBVIOUS
    <3>1. Gateway!RestoreNext(work.call, 0, recorded, TRUE) /\ work.call \in Gateway!Calls
      BY DEF Gateway!Dialed, Gateway!Holds, Gateway!TypeOK, Gateway!Jobs
    <3>. QED
      BY <2>1, <3>1, RestoreSteps
  <2>5. ~(Gateway!QueueAsserted \/ Gateway!Consuming)
    <3>. SUFFICES ASSUME Gateway!QueueAsserted \/ Gateway!Consuming
                  PROVE  FALSE
      OBVIOUS
    <3>1. Gateway!Subscribed /\ Gateway!Subscribing
      BY DEF Gateway!QueueAsserted, Gateway!Consuming, Gateway!Answered, Gateway!Holds,
             Gateway!Subscribing, Gateway!Requests
    <3>. QED
      BY <3>1, SubscribedKeeps
  <2>6. recorded' # recorded
    OBVIOUS
  <2>. QED
    BY <2>2, <2>3, <2>4, <2>5, <2>6
       DEF Gateway!Next, Gateway!Resume, Gateway!vars, Gateway!CallConnect,
           Gateway!CallDisconnect, Gateway!TimerFires, Gateway!CallSubscribe,
           Gateway!ChannelOpened, Gateway!RequestFails, Gateway!Cancelled, Gateway!Closed,
           Gateway!Lose, Gateway!DisconnectFails, Gateway!DialFails, Gateway!Refused,
           Gateway!OnConnectionClosed
<1>. QED
  BY <1>1, GatewayInvariant, PTL DEF Gateway!Spec, Gateway!SubscriptionsRetained
===============================================================================
