---------------------------- MODULE SagaEventHandler ----------------------------
(***************************************************************************)
(* SagaEventHandler.ts and AbstractSaga.ts: one saga of one process, the   *)
(* events of its origin, and the commands it sends in answer.              *)
(*                                                                         *)
(* Event 1 starts the saga. The others carry its origin, and are numbered  *)
(* in the order the event store keeps and publishes them; those that the   *)
(* process has not acknowledged are delivered again when it restarts, as   *)
(* a durable queue does.                                                   *)
(***************************************************************************)
EXTENDS Naturals, FiniteSets

CONSTANTS
  MaxEvents,       \* number of events of the saga
  CommandsOf,      \* how many commands the saga sends for each of them
  OriginRestored,  \* whether getSagaEvents yields the event that started the saga
  MaxFailures,     \* bound on restores, handlers and commands that fail
  MaxRestarts      \* bound on crashes of the process

Events   == 1..MaxEvents
Commands == UNION {{<<e, k>> : k \in 1..CommandsOf[e]} : e \in Events}

ASSUME ConstantsAssumption ==
  /\ MaxEvents \in Nat /\ MaxFailures \in Nat /\ MaxRestarts \in Nat
  /\ CommandsOf \in [Events -> Nat]
  /\ OriginRestored \in BOOLEAN

VARIABLES
  calls,     \* handle() for each event, by the await it is suspended at
  saga,      \* the promise in #sagasCache: "none", "pending", "ready" or "broken"
  base,      \* the event that the saga was created for, or 0
  users,     \* its usage counter
  applied,   \* events that mutated its state
  step,      \* which command of the event is being sent, or 0
  sent,      \* how often the command bus got each command
  failures,  \* failures so far
  restarts,  \* restarts so far
  ahead      \* events settled, at the last restart, before an earlier one (history)

cache == <<saga, base, users>>
vars  == <<calls, cache, applied, step, sent, failures, restarts, ahead>>

Phases  == {"none", "queued", "restoring", "waiting", "handling", "sending",
            "handled", "failed", "acked", "rejected"}
Using   == {"restoring", "waiting", "handling", "sending"}
Settled == {"acked", "rejected"}
Locked  == \E e \in Events : calls[e] \in {"handling", "sending"}

Init ==
  /\ calls    = [e \in Events |-> "none"]
  /\ saga     = "none"
  /\ base     = 0
  /\ users    = 0
  /\ applied  = {}
  /\ step     = 0
  /\ sent     = [c \in Commands |-> 0]
  /\ failures = 0
  /\ restarts = 0
  /\ ahead    = {}

Fault == failures < MaxFailures /\ failures' = failures + 1

\* Any command of the saga that the bus has, even if send() has not resolved.
OnBus == {c \in Commands : sent[c] > 0 \/ (calls[c[1]] = "sending" /\ step = c[2])}

\* An aggregate, handling a command of the saga, stores an event with its origin.
Store(e) ==
  /\ calls[e] = "none"
  /\ \A d \in Events : calls[d] = "none" => e <= d
  /\ e = 1 \/ OnBus # {}
  /\ calls' = [calls EXCEPT ![e] = "queued"]
  /\ UNCHANGED <<cache, applied, step, sent, failures, restarts, ahead>>

-----------------------------------------------------------------------------
(* handle(event), up to the saga.                                          *)

\* The saga is taken from the cache, or created there: new for the event that
\* starts it, and for others from the events stored before.
Deliver(e) ==
  /\ calls[e] = "queued"
  /\ \A d \in Events : calls[d] = "queued" => e <= d
  /\ calls' = [calls EXCEPT ![e] = "restoring"]
  /\ users' = users + 1
  /\ IF saga = "none" THEN saga' = "pending" /\ base' = e ELSE UNCHANGED <<saga, base>>
  /\ UNCHANGED <<applied, step, sent, failures, restarts, ahead>>

\* getSagaEvents of SQLite and MongoDB: the event that started the saga, and those
\* that carry its origin, before e.
WithOrigin(e) == 1..(e - 1)

\* In memory, only events that carry the origin are found: not the one that started it.
ByOrigin(e) == 2..(e - 1)

\* Mutant of Before: the event itself is restored, too.
Through(e) == IF e = 1 THEN {} ELSE 1..e

Before(e) == IF OriginRestored THEN WithOrigin(e) ELSE ByOrigin(e)

\* #createSaga, #restoreSaga.
Restored ==
  /\ saga = "pending"
  /\ saga' = "ready"
  /\ applied' = Before(base)
  /\ UNCHANGED <<calls, base, users, step, sent, failures, restarts, ahead>>

RestoreFails ==
  /\ saga = "pending"
  /\ Fault
  /\ saga' = "broken"
  /\ UNCHANGED <<calls, base, users, applied, step, sent, restarts, ahead>>

\* The call goes on to the execution lock, or ends: neither the entry nor its
\* count is released then.
Proceed(e) ==
  /\ calls[e] = "restoring"
  /\ saga \in {"ready", "broken"}
  /\ calls' = [calls EXCEPT ![e] = IF saga = "ready" THEN "waiting" ELSE "failed"]
  /\ UNCHANGED <<cache, applied, step, sent, failures, restarts, ahead>>

\* Calls that wait for the lock get it in any order.
Acquire(e) ==
  /\ calls[e] = "waiting"
  /\ ~Locked
  /\ calls' = [calls EXCEPT ![e] = "handling"]
  /\ UNCHANGED <<cache, applied, step, sent, failures, restarts, ahead>>

-----------------------------------------------------------------------------
(* handle(event), with the lock.                                           *)

\* Mutant of Leave: the lock is released, but not the entry of the cache.
LeaveCounted(e, outcome, state) ==
  /\ calls' = [calls EXCEPT ![e] = outcome]
  /\ step'  = 0
  /\ applied' = state
  /\ UNCHANGED cache

\* The lock and the entry of the cache are released: the saga is dropped, unless
\* other calls share it.
Leave(e, outcome, state) ==
  /\ calls' = [calls EXCEPT ![e] = outcome]
  /\ step'  = 0
  /\ users' = users - 1
  /\ IF users = 1
       THEN saga' = "none" /\ base' = 0 /\ applied' = {}
       ELSE UNCHANGED <<saga, base>> /\ applied' = state

\* AbstractSaga.handle: the handler, then mutate(). Its commands are sent then.
Handle(e) ==
  /\ calls[e] = "handling"
  /\ IF CommandsOf[e] = 0
       THEN Leave(e, "handled", applied \cup {e})
       ELSE /\ calls'   = [calls EXCEPT ![e] = "sending"]
            /\ step'    = 1
            /\ applied' = applied \cup {e}
            /\ UNCHANGED cache
  /\ UNCHANGED <<sent, failures, restarts, ahead>>

\* The handler throws: the saga is not mutated.
HandlerFails(e) ==
  /\ calls[e] = "handling"
  /\ Fault
  /\ Leave(e, "failed", applied)
  /\ UNCHANGED <<sent, restarts, ahead>>

\* Mutant of Send: send() awaits all that follows from the command.
SendAndWait(e) ==
  /\ calls[e] = "sending"
  /\ \A d \in Events : d > e => calls[d] \in {"none"} \cup Settled
  /\ sent' = [sent EXCEPT ![<<e, step>>] = @ + 1]
  /\ IF step < CommandsOf[e]
       THEN step' = step + 1 /\ UNCHANGED <<calls, cache, applied>>
       ELSE Leave(e, "handled", applied)
  /\ UNCHANGED <<failures, restarts, ahead>>

\* send() resolves, and the next command is sent.
Send(e) ==
  /\ calls[e] = "sending"
  /\ sent' = [sent EXCEPT ![<<e, step>>] = @ + 1]
  /\ IF step < CommandsOf[e]
       THEN step' = step + 1 /\ UNCHANGED <<calls, cache, applied>>
       ELSE Leave(e, "handled", applied)
  /\ UNCHANGED <<failures, restarts, ahead>>

\* A command that is interrupted may have been sent.
Interrupted(e) ==
  sent' = sent \/ sent' = [sent EXCEPT ![<<e, step>>] = @ + 1]

\* Mutant of SendFails: the error is only logged.
SendFailsSilently(e) ==
  /\ calls[e] = "sending"
  /\ Fault
  /\ Interrupted(e)
  /\ Leave(e, "handled", applied)
  /\ UNCHANGED <<restarts, ahead>>

\* send() rejects: the commands after it are not sent.
SendFails(e) ==
  /\ calls[e] = "sending"
  /\ Fault
  /\ Interrupted(e)
  /\ Leave(e, "failed", applied)
  /\ UNCHANGED <<restarts, ahead>>

\* The event is acknowledged, or put into the queue of the failed ones.
Settle(e) ==
  /\ calls[e] \in {"handled", "failed"}
  /\ calls' = [calls EXCEPT ![e] = IF @ = "handled" THEN "acked" ELSE "rejected"]
  /\ UNCHANGED <<cache, applied, step, sent, failures, restarts, ahead>>

-----------------------------------------------------------------------------

\* The process stops and starts again. What it has not settled is queued again.
Crash ==
  /\ restarts < MaxRestarts
  /\ restarts' = restarts + 1
  /\ calls'    = [e \in Events |-> IF calls[e] \in {"none"} \cup Settled THEN calls[e] ELSE "queued"]
  /\ saga' = "none" /\ base' = 0 /\ users' = 0 /\ applied' = {} /\ step' = 0
  /\ \/ sent' = sent
     \/ \E e \in Events : calls[e] = "sending" /\ Interrupted(e)
  /\ ahead' = {d \in Events : calls[d] \in Settled /\ \E e \in 1..(d - 1) : calls[e] \notin Settled}
  /\ UNCHANGED failures

Call(e) ==
  \/ Deliver(e) \/ Proceed(e) \/ Acquire(e)
  \/ Handle(e) \/ HandlerFails(e) \/ Send(e) \/ SendFails(e) \/ Settle(e)

Next ==
  \/ \E e \in Events : Store(e) \/ Call(e)
  \/ Restored \/ RestoreFails \/ Crash

Spec == Init /\ [][Next]_vars

\* Restores, handlers and the command bus answer, and the lock is had by everyone
\* who waits for it (EveryRequestServed of Lock).
Fairness ==
  /\ WF_vars(Restored)
  /\ \A e \in Events :
       /\ WF_vars(Deliver(e)) /\ WF_vars(Proceed(e)) /\ SF_vars(Acquire(e))
       /\ WF_vars(Handle(e)) /\ WF_vars(Send(e)) /\ WF_vars(Settle(e))

FairSpec == Spec /\ Fairness

-----------------------------------------------------------------------------
(* Properties.                                                             *)

\* Types of the variables.
TypeOK ==
  /\ calls \in [Events -> Phases]
  /\ saga \in {"none", "pending", "ready", "broken"}
  /\ base \in Events \cup {0} /\ users \in Nat /\ applied \subseteq Events
  /\ step \in Nat /\ sent \in [Commands -> Nat]
  /\ failures \in Nat /\ restarts \in Nat /\ ahead \subseteq Events

\* Why a saga may lack an event before the one it handles: its call waits still (the
\* lock does not keep the order), its handler failed, or it was settled, out of turn,
\* before the process restarted.
Excused(d) == calls[d] \in {"restoring", "waiting", "failed", "rejected"} \/ d \in ahead

\* "handlers always see the previous state" (README.md:356): whether the saga was
\* restored or is shared with other calls, it has the earlier events of its origin,
\* and not the event itself.
SeesPreviousState ==
  \A e \in Events : calls[e] = "handling" =>
    /\ e \notin applied
    /\ \A d \in 1..(e - 1) : d \in applied \/ Excused(d)

\* An event is acknowledged when the bus has all its commands; a command that fails
\* keeps the later ones from being sent; and each is sent once, and once more at most
\* for each restart.
CommandsAccounted ==
  \A c \in Commands :
    /\ calls[c[1]] = "acked" => sent[c] > 0
    /\ sent[c] <= 1 + restarts
    /\ \A k \in 1..c[2] : sent[<<c[1], k>>] >= sent[c]

\* Unless a restore failed, the cache keeps the saga as long as a call uses it, and
\* no longer: a saga kept for ever would miss what other processes handle.
CacheAccounting ==
  saga # "broken" =>
    /\ users = Cardinality({e \in Events : calls[e] \in Using})
    /\ saga = "none" <=> users = 0

\* Every event of the saga is acknowledged or rejected in the end: no call waits for
\* another that waits for it.
EveryEventSettles ==
  \A e \in Events : calls[e] = "queued" ~> calls[e] \in Settled
=============================================================================
