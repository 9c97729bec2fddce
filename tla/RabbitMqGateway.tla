---------------------------- MODULE RabbitMqGateway ----------------------------
(***************************************************************************)
(* rabbitmq/RabbitMqGateway.ts: the connection of one process to RabbitMQ  *)
(* and the subscriptions it keeps over reconnects.                         *)
(*                                                                         *)
(* connect(), disconnect() and subscribe() take the gateway's lock, and    *)
(* hold it over every request they send to the broker. unsubscribe(), the  *)
(* reconnect timer and the event "close" of the connection do not.         *)
(*                                                                         *)
(* A channel or a consumer kept in the gateway's maps is "live", or        *)
(* "stale" when its channel or connection is closed. The name that the     *)
(* broker gives an exclusive queue is Exclusive as long as its connection  *)
(* is open, and Lost from then on.                                         *)
(***************************************************************************)
EXTENDS Naturals, Sequences, FiniteSets

CONSTANTS
  Subscriptions,  \* what the application subscribes: exchange, type and handler
  Queues,         \* names of durable queues
  QueueOf,        \* the durable queue of a subscription, or Exclusive
  Exclusive,      \* the name of the exclusive queue of the current connection
  Lost,           \* that of an earlier connection
  None,
  MaxFailures,    \* bound on lost connections, failed dials and refused requests
  MaxWaiting,     \* bound on the calls of the application that wait for the lock
  LateReplies     \* whether the last reply and the close may arrive together

ASSUME ConstantsAssumption ==
  /\ Exclusive \notin Queues /\ Lost \notin Queues \cup {Exclusive}
  /\ None \notin Subscriptions \cup Queues \cup {Exclusive, Lost}
  /\ QueueOf \in [Subscriptions -> Queues \cup {Exclusive}]
  /\ MaxFailures \in Nat /\ MaxWaiting \in Nat
  /\ LateReplies \in BOOLEAN

VARIABLES
  desired,    \* #desiredState
  timer,      \* #reconnectTimeout is running
  conn,       \* #connection is set
  channels,   \* #queueChannels, by durable queue, or Exclusive for ''
  consumers,  \* #queueConsumers, by given name of the queue
  exclusive,  \* #exclusiveQueueName
  subs,       \* #subscriptions
  given,      \* queueGivenName of each of them
  waiting,    \* calls that await #stateChangeLock
  work,       \* what the holder of the lock does, or None
  reply,      \* what becomes of the request it awaits
  failures,   \* failures so far
  intact      \* since the last clean-up, no request was refused or answered late, and
              \* no unsubscribe() met a restore (a history variable)

broker == <<conn, channels, consumers, exclusive>>
vars   == <<desired, timer, broker, subs, given, waiting, work, reply, failures, intact>>

States == {"none", "live", "stale"}
Keys   == Queues \cup {Exclusive}
Given  == Queues \cup {Exclusive, Lost}

\* Calls that take the lock. One of each is enough: a second connect() that
\* waits finds the connection, or repeats the attempt, as a later call would.
Connect      == [kind |-> "connect", sub |-> None]
Disconnect   == [kind |-> "disconnect", sub |-> None]
Subscribe(s) == [kind |-> "subscribe", sub |-> s]
Calls == {Connect, Disconnect} \cup {Subscribe(s) : s \in Subscriptions}

\* The await that the holder is suspended at.
Requests == {"channel", "queue", "consumer"}
Awaits   == {"dialing", "cancelling", "closing"} \cup Requests

\* "restored" counts the turns of the loop of #restoreSubscriptions, in which
\* "sub" is subscribed again; it is None when "sub" is subscribed on request.
Job(call, await, s, restored) ==
  [call |-> call, await |-> await, sub |-> s, restored |-> restored]

Jobs == [call : Calls, await : Awaits, sub : Subscriptions \cup {None},
         restored : Nat \cup {None}]

\* None is no job, and no number of turns of a loop.
ASSUME NoneAssumption == None \notin Jobs \cup Nat

Elements(q) == {q[i] : i \in DOMAIN q}

\* The one entry of the list that is s is removed: #subscribe records no two alike.
Without(q, s) ==
  LET k == CHOOSE i \in DOMAIN q : q[i] = s
  IN  [i \in 1..(Len(q) - 1) |-> IF i < k THEN q[i] ELSE q[i + 1]]

Outlived(name) == IF name = Exclusive THEN Lost ELSE name

Restoring   == work # None /\ work.await \in Requests /\ work.restored # None
Subscribing == work # None /\ work.await \in Requests

-----------------------------------------------------------------------------

Init ==
  /\ desired   = "disconnected"
  /\ timer     = FALSE
  /\ conn      = FALSE
  /\ channels  = [k \in Keys |-> "none"]
  /\ consumers = [n \in Given |-> "none"]
  /\ exclusive = None
  /\ subs      = <<>>
  /\ given     = [s \in Subscriptions |-> None]
  /\ waiting   = {}
  /\ work      = None
  /\ reply     = "pending"
  /\ failures  = 0
  /\ intact    = TRUE

Fault == failures < MaxFailures /\ failures' = failures + 1

Release == work' = None /\ reply' = "pending"

\* Mutant of Raise: an error while connecting does not start the timer.
RaiseSilently(connecting) ==
  /\ Release
  /\ UNCHANGED timer

\* An error leaves #subscribe or #connect. On the way out of #connect it starts
\* the reconnect timer, unless disconnect() was called meanwhile.
Raise(connecting) ==
  /\ Release
  /\ timer' = (timer \/ (connecting /\ desired = "connected"))

-----------------------------------------------------------------------------
(* Calls: what runs before the lock is awaited.                            *)

CallConnect ==
  /\ Cardinality(waiting) < MaxWaiting
  /\ desired' = "connected"
  /\ timer'   = FALSE
  /\ waiting' = waiting \cup {Connect}
  /\ UNCHANGED <<broker, subs, given, work, reply, failures, intact>>

CallSubscribe(s) ==
  /\ Cardinality(waiting) < MaxWaiting
  /\ desired' = "connected"
  /\ timer'   = FALSE
  /\ waiting' = waiting \cup {Subscribe(s)}
  /\ UNCHANGED <<broker, subs, given, work, reply, failures, intact>>

CallDisconnect ==
  /\ Cardinality(waiting) < MaxWaiting
  /\ desired' = "disconnected"
  /\ timer'   = FALSE
  /\ waiting' = waiting \cup {Disconnect}
  /\ UNCHANGED <<broker, subs, given, work, reply, failures, intact>>

\* #reconnect, called by the timer: nothing, if connected by now.
TimerFires ==
  /\ timer
  /\ timer' = FALSE
  /\ waiting' = IF conn THEN waiting ELSE waiting \cup {Connect}
  /\ UNCHANGED <<desired, broker, subs, given, work, reply, failures, intact>>

-----------------------------------------------------------------------------
(* #subscribe and the loop of #restoreSubscriptions.                       *)

\* Mutant of BeginSubscribe: the subscription is recorded if its channel is there.
BeginSubscribeUnrecorded(call, s, restored, list, open) ==
  LET channel == channels[QueueOf[s]] IN
    IF channel = "none" /\ ~open
      THEN subs' = list /\ Raise(restored # None)
      ELSE /\ subs'  = Append(list, s)
           /\ work'  = Job(call, IF channel = "none" THEN "channel" ELSE "queue", s, restored)
           /\ reply' = IF channel = "stale" THEN "failed" ELSE "pending"
           /\ UNCHANGED timer

\* #subscribe, up to its first request: the subscription is recorded, and then a
\* channel needed. A request on a closed channel fails at once.
BeginSubscribe(call, s, restored, list, open) ==
  LET channel == channels[QueueOf[s]] IN
    /\ subs' = Append(list, s)
    /\ IF channel = "none" /\ ~open
         THEN Raise(restored # None)
         ELSE /\ work'  = Job(call, IF channel = "none" THEN "channel" ELSE "queue", s, restored)
              /\ reply' = IF channel = "stale" THEN "failed" ELSE "pending"
              /\ UNCHANGED timer

\* A turn of the loop of #restoreSubscriptions: the oldest subscription is removed,
\* and #subscribe records it again at the end. After the loop #connect returns,
\* and subscribe() goes on with its own subscription, unless there is one like it.
RestoreNext(call, restored, list, open) ==
  IF restored < Len(list)
    THEN BeginSubscribe(call, Head(list), restored, Tail(list), open)
    ELSE IF call.kind = "subscribe" /\ call.sub \notin Elements(list)
      THEN BeginSubscribe(call, call.sub, None, list, open)
      ELSE subs' = list /\ Release /\ UNCHANGED timer

\* The end of #subscribe.
Subscribed ==
  IF work.restored = None
    THEN Release /\ UNCHANGED <<subs, timer>>
    ELSE RestoreNext(work.call, work.restored + 1, subs, conn)

\* The lock is had by one of the calls that wait, in any order.
TakeLock(call) ==
  /\ work = None
  /\ call \in waiting
  /\ waiting' = waiting \ {call}
  /\ \/ /\ call.kind # "disconnect" /\ ~conn
        /\ work' = Job(call, "dialing", None, None)
        /\ UNCHANGED <<reply, subs, timer>>
     \/ /\ call.kind = "subscribe" /\ conn
        /\ RestoreNext(call, Len(subs), subs, conn)
     \/ /\ call.kind = "disconnect" /\ conn
        /\ work' = Job(call, "cancelling", None, None)
        /\ UNCHANGED <<reply, subs, timer>>
     \/ /\ IF conn THEN call.kind = "connect" ELSE call.kind = "disconnect"
        /\ UNCHANGED <<work, reply, subs, timer>>
  /\ UNCHANGED <<desired, broker, given, failures, intact>>

-----------------------------------------------------------------------------
(* The holder of the lock is resumed.                                      *)

Holds(await) == work # None /\ work.await = await
Answered(await) == Holds(await) /\ reply \in {"pending", "late"}

\* The connection is established: #connection is set before anything is restored.
Dialed ==
  /\ Holds("dialing")
  /\ conn' = TRUE
  /\ RestoreNext(work.call, 0, subs, TRUE)
  /\ UNCHANGED <<desired, channels, consumers, exclusive, given, waiting, failures, intact>>

DialFails ==
  /\ Holds("dialing")
  /\ Fault
  /\ Raise(TRUE)
  /\ UNCHANGED <<desired, broker, subs, given, waiting, intact>>

\* #assertQueueChannel: the channel is kept, even if it was closed meanwhile.
ChannelOpened ==
  /\ Answered("channel")
  /\ channels' = [channels EXCEPT ![QueueOf[work.sub]] = IF reply = "late" THEN "stale" ELSE "live"]
  /\ work'  = [work EXCEPT !.await = "queue"]
  /\ reply' = IF reply = "late" THEN "failed" ELSE "pending"
  /\ intact' = (intact /\ reply # "late")
  /\ UNCHANGED <<desired, timer, conn, consumers, exclusive, subs, given, waiting, failures>>

\* The exclusive queue that the gateway remembers has gone with its connection.
QueueGone == Holds("queue") /\ QueueOf[work.sub] = Exclusive /\ exclusive = Lost

\* The name of the queue in question: the connection may have been lost since.
NameGiven == IF reply = "late" THEN Outlived(QueueOf[work.sub]) ELSE QueueOf[work.sub]

\* The queue is asserted and bound; its consumer, if it has one, is kept.
QueueAsserted ==
  /\ Answered("queue")
  /\ ~QueueGone
  /\ exclusive' = IF QueueOf[work.sub] = Exclusive THEN NameGiven ELSE exclusive
  /\ given' = IF work.sub \in Elements(subs) THEN [given EXCEPT ![work.sub] = NameGiven] ELSE given
  /\ IF consumers[NameGiven] # "none"
       THEN Subscribed
       ELSE /\ work'  = [work EXCEPT !.await = "consumer"]
            /\ reply' = IF reply = "late" THEN "failed" ELSE "pending"
            /\ UNCHANGED <<subs, timer>>
  /\ intact' = (intact /\ reply # "late")
  /\ UNCHANGED <<desired, conn, channels, consumers, waiting, failures>>

\* #assertConsumer: the consumer is kept, even if its connection was lost meanwhile.
Consuming ==
  /\ Answered("consumer")
  /\ consumers' = [consumers EXCEPT ![NameGiven] = IF reply = "late" THEN "stale" ELSE "live"]
  /\ Subscribed
  /\ intact' = (intact /\ reply # "late")
  /\ UNCHANGED <<desired, conn, channels, exclusive, given, waiting, failures>>

\* The request failed with its connection, or on a channel that was closed.
RequestFails ==
  /\ Subscribing
  /\ reply = "failed"
  /\ Raise(work.restored # None)
  /\ intact' = (intact /\ ~conn)
  /\ UNCHANGED <<desired, broker, subs, given, waiting, failures>>

\* The broker refuses the request, and closes the channel, if there is one.
Refused ==
  /\ Subscribing
  /\ reply = "pending"
  /\ IF QueueGone THEN UNCHANGED failures ELSE Fault
  /\ Raise(work.restored # None)
  /\ intact' = FALSE
  /\ LET key == QueueOf[work.sub]
         Closing(state) == IF state = "live" THEN "stale" ELSE state
     IN  IF work.await = "channel"
           THEN UNCHANGED <<channels, consumers>>
           ELSE /\ channels'  = [channels EXCEPT ![key] = Closing(@)]
                /\ consumers' = [consumers EXCEPT ![key] = Closing(@)]
  /\ UNCHANGED <<desired, conn, exclusive, subs, given, waiting>>

\* #stopConsuming: consumers whose cancellation fails are kept.
Cancelled ==
  /\ Holds("cancelling") /\ reply = "pending"
  /\ consumers' = [n \in Given |-> IF consumers[n] = "live" THEN "none" ELSE consumers[n]]
  /\ work' = [work EXCEPT !.await = "closing"]
  /\ UNCHANGED <<desired, timer, conn, channels, exclusive, subs, given, waiting, reply, failures,
                 intact>>

DisconnectFails ==
  /\ Holds("cancelling") \/ Holds("closing")
  /\ reply # "pending"
  /\ Release
  /\ UNCHANGED <<desired, timer, broker, subs, given, waiting, failures, intact>>

-----------------------------------------------------------------------------
(* The connection is closed.                                               *)

\* Mutant of CleanUp: the consumers of the connection are not forgotten.
CleanUpButConsumers ==
  /\ conn'      = FALSE
  /\ channels'  = [k \in Keys |-> "none"]
  /\ consumers' = [n \in Given |-> IF consumers[n] = "none" THEN "none" ELSE "stale"]
  /\ exclusive' = None
  /\ given'     = [s \in Subscriptions |-> Outlived(given[s])]

\* #cleanup.
CleanUp ==
  /\ conn'      = FALSE
  /\ channels'  = [k \in Keys |-> "none"]
  /\ consumers' = [n \in Given |-> "none"]
  /\ exclusive' = None
  /\ given'     = [s \in Subscriptions |-> Outlived(given[s])]

\* #onConnectionClosed: a connection that is still wanted is asked for at once.
OnConnectionClosed ==
  /\ CleanUp
  /\ intact' = TRUE
  /\ IF desired = "connected"
       THEN waiting' = waiting \cup {Connect} /\ timer' = FALSE
       ELSE UNCHANGED <<waiting, timer>>

\* disconnect() closes the connection.
Closed ==
  /\ Holds("closing") /\ reply = "pending"
  /\ OnConnectionClosed
  /\ Release
  /\ UNCHANGED <<desired, subs, failures>>

\* The connection is lost: a request under way fails, or was answered just before.
Lose ==
  /\ conn
  /\ Fault
  /\ OnConnectionClosed
  /\ IF work = None
       THEN UNCHANGED reply
       ELSE \/ reply' = "failed"
            \/ LateReplies /\ Subscribing /\ reply = "pending" /\ reply' = "late"
  /\ UNCHANGED <<desired, subs, work>>

-----------------------------------------------------------------------------
(* unsubscribe() does not take the lock.                                   *)

\* #tryDropConsumer: the consumer of the queue, unless another subscription uses it.
DropConsumer(s) ==
  LET name == given[s]
      used == \E t \in Elements(subs) \ {s} : given[t] = name
  IN  consumers' = IF name = None \/ used THEN consumers ELSE [consumers EXCEPT ![name] = "none"]

Unsubscribe(s) ==
  /\ s \in Elements(subs)
  /\ DropConsumer(s)
  /\ subs'  = Without(subs, s)
  /\ given' = [given EXCEPT ![s] = None]
  /\ intact' = (intact /\ ~Restoring /\ ~(Subscribing /\ work.sub = s))
  /\ UNCHANGED <<desired, timer, conn, channels, exclusive, waiting, work, reply, failures>>

-----------------------------------------------------------------------------

Resume ==
  \/ Dialed \/ ChannelOpened \/ QueueAsserted \/ Consuming \/ RequestFails
  \/ Cancelled \/ Closed \/ DisconnectFails
  \/ QueueGone /\ Refused

Next ==
  \/ CallConnect \/ CallDisconnect \/ TimerFires
  \/ \E s \in Subscriptions : CallSubscribe(s) \/ Unsubscribe(s)
  \/ \E call \in Calls : TakeLock(call)
  \/ Resume
  \/ DialFails \/ Refused \/ Lose

Spec == Init /\ [][Next]_vars

\* The broker answers, the timer fires, and the lock is granted to everyone who
\* waits for it (EveryRequestServed of Lock).
Fairness ==
  /\ WF_vars(Resume) /\ WF_vars(TimerFires)
  /\ \A call \in Calls : SF_vars(TakeLock(call))

FairSpec == Spec /\ Fairness

-----------------------------------------------------------------------------
(* Properties.                                                             *)

\* Types of the variables.
TypeOK ==
  /\ desired \in {"connected", "disconnected"}
  /\ timer \in BOOLEAN /\ conn \in BOOLEAN /\ intact \in BOOLEAN
  /\ channels \in [Keys -> States]
  /\ consumers \in [Given -> States]
  /\ exclusive \in {None, Exclusive, Lost}
  /\ subs \in Seq(Subscriptions)
  /\ given \in [Subscriptions -> Given \cup {None}]
  /\ waiting \subseteq Calls
  /\ work \in Jobs \cup {None}
  /\ reply \in {"pending", "failed", "late"}
  /\ failures \in 0..MaxFailures

\* The subscription's queue has a consumer on the connection.
Served(s) == conn /\ given[s] = QueueOf[s] /\ consumers[QueueOf[s]] = "live"

\* Connected and idle, the gateway consumes the queues of its subscriptions, and
\* no others: a consumer without a subscription rejects what it is given (:701).
ConsumesWhatIsSubscribed ==
  conn /\ work = None /\ intact =>
    /\ \A s \in Elements(subs) : Served(s)
    /\ \A n \in Given : consumers[n] # "none" => \E s \in Elements(subs) : given[s] = n

\* A lost connection, or an error anywhere, loses no subscription: only
\* unsubscribe() removes one, though the restore takes each of them out of the
\* list and puts it back (test 'retains subscriptions after reconnect').
SubscriptionsRetained ==
  [][\A s \in Subscriptions :
       s \in Elements(subs) /\ s \notin Elements(subs') => Unsubscribe(s)]_vars

\* A subscription of a gateway that is meant to be connected is consumed in the
\* end, over all losses and failed attempts.
EventuallyServed ==
  \A s \in Subscriptions :
    s \in Elements(subs) ~> \/ Served(s) \/ ~intact
                            \/ s \notin Elements(subs) \/ desired = "disconnected"

\* "Upon successful connection, it restores any previously active subscriptions"
\* (:212): when a connect() that made the connection returns.
RestoredOnConnect ==
  [][(QueueAsserted \/ Consuming) /\ work.call = Connect /\ work' = None /\ conn' =>
       \A s \in Elements(subs') : Served(s)']_vars
=============================================================================
