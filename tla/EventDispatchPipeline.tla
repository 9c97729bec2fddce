------------------------ MODULE EventDispatchPipeline -------------------------
(***************************************************************************)
(* A dispatch pipeline: EventDispatcher.dispatch() pushes batches of events *)
(* into a buffer; each processor takes them from the one before it, several *)
(* at a time and in order; one loop takes what comes out, publishes it to  *)
(* the event bus without awaiting the subscribers, and settles dispatch(). *)
(*                                                                         *)
(* The processors are those of CqrsContainerBuilder: the event storage,    *)
(* then the snapshot storage. (The augmenter of ids changes no state.) The *)
(* stages between them are the library function parallelPipe, modelled by  *)
(* what the code and its tests expect of it.                               *)
(***************************************************************************)
EXTENDS Naturals, Sequences, FiniteSets

CONSTANTS
  Batches,          \* calls of dispatch()
  Aggregates,       \* aggregate identifiers
  Aggregate,        \* the aggregate whose events a batch holds
  Size,             \* the number of events of a batch to be published
  WithSnapshot,     \* the batches that end with a snapshot event
  None,             \* no snapshot
  ConcurrentLimit   \* batches that a processor works on at a time

ASSUME ConstantsAssumption ==
  /\ Aggregate \in [Batches -> Aggregates]
  /\ Size \in [Batches -> Nat \ {0}]
  /\ WithSnapshot \subseteq Batches
  /\ None \notin Batches
  /\ ConcurrentLimit \in Nat \ {0}

VARIABLES
  pushed,      \* #pipelineInput: batches in the order of push()
  at,          \* the number of processors that have taken a batch
  state,       \* what a batch is doing there, or how its dispatch() ended
  stored,      \* the event storage: batches in commit order
  snapshots,   \* the snapshot storage: the batch each snapshot is from
  published,   \* the event bus: events <<batch, number>> in order of publish()
  pending      \* #pending: published events whose subscribers are at work

vars == <<pushed, at, state, stored, snapshots, published, pending>>

\* Mutant of Processors: snapshots are saved first.
ProcessorsReversed == <<"snapshots", "storage">>

\* The default pipeline.
Processors == <<"storage", "snapshots">>

Last == Len(Processors)

Settled == {"resolved", "rejected"}

Elements(q) == {q[i] : i \in DOMAIN q}

Before(d, b) == \E i, j \in DOMAIN pushed : i < j /\ pushed[i] = d /\ pushed[j] = b

-----------------------------------------------------------------------------

Init ==
  /\ pushed    = <<>>
  /\ at        = [b \in Batches |-> 0]
  /\ state     = [b \in Batches |-> "unsent"]
  /\ stored    = <<>>
  /\ snapshots = [a \in Aggregates |-> None]
  /\ published = <<>>
  /\ pending   = {}

Become(b, s) == state' = [state EXCEPT ![b] = s]

\* Mutant of Push: commands for an aggregate are not serialized.
PushUnserialized(b) ==
  /\ state[b] = "unsent"
  /\ pushed' = Append(pushed, b)
  /\ Become(b, "ready")
  /\ UNCHANGED <<at, stored, snapshots, published, pending>>

\* dispatch(): pushed. Its callers hold the lock of the aggregate until it
\* settles (AggregateCommandHandler).
Push(b) ==
  /\ state[b] = "unsent"
  /\ \A d \in Batches :
       Aggregate[d] = Aggregate[b] => state[d] \in {"unsent"} \cup Settled
  /\ pushed' = Append(pushed, b)
  /\ Become(b, "ready")
  /\ UNCHANGED <<at, stored, snapshots, published, pending>>

-----------------------------------------------------------------------------
(* The stages of parallelPipe.                                             *)

\* A stage hands batches on in the order it took them.
InOrder(b) == \A d \in Batches : Before(d, b) => at[d] > at[b]

BelowLimit(k) == Cardinality({d \in Batches : at[d] = k /\ state[d] = "busy"}) < ConcurrentLimit

\* The next processor takes a batch; one with an error passes through.
Take(b) ==
  /\ state[b] \in {"ready", "failed"}
  /\ at[b] < Last
  /\ InOrder(b)
  /\ BelowLimit(at[b] + 1)
  /\ at' = [at EXCEPT ![b] = @ + 1]
  /\ Become(b, IF state[b] = "failed" THEN "failed" ELSE "busy")
  /\ UNCHANGED <<pushed, stored, snapshots, published, pending>>

Busy(b, processor) == state[b] = "busy" /\ Processors[at[b]] = processor

\* process() of the event storage.
StoreEvents(b) ==
  /\ Busy(b, "storage")
  /\ stored' = Append(stored, b)
  /\ Become(b, "ready")
  /\ UNCHANGED <<pushed, at, snapshots, published, pending>>

\* process() of the snapshot storage: saves the snapshot of the aggregate and
\* filters its event out.
SaveSnapshots(b) ==
  /\ Busy(b, "snapshots")
  /\ snapshots' = IF b \in WithSnapshot
                    THEN [snapshots EXCEPT ![Aggregate[b]] = b]
                    ELSE snapshots
  /\ Become(b, "ready")
  /\ UNCHANGED <<pushed, at, stored, published, pending>>

\* process() throws: a ConcurrencyError, or any other error.
ProcessorFails(b) ==
  /\ state[b] = "busy"
  /\ Become(b, "failed")
  /\ UNCHANGED <<pushed, at, stored, snapshots, published, pending>>

-----------------------------------------------------------------------------
(* The loop that settles batches, one after the other.                     *)

\* Mutant of Turn: batches are settled as they come.
TurnOfAny(b) == at[b] = Last

Turn(b) == at[b] = Last /\ \A d \in Batches : Before(d, b) => state[d] \in Settled

Events(b, n) == [i \in 1..n |-> <<b, i>>]

\* publish() is called for the first n events.
PublishFirst(b, n) ==
  /\ published' = published \o Events(b, n)
  /\ pending'   = pending \cup Elements(Events(b, n))

\* Mutant of Publish: errors are not told from results.
PublishUnchecked(b) ==
  /\ state[b] \in {"ready", "failed"}
  /\ Turn(b)
  /\ PublishFirst(b, Size[b])
  /\ Become(b, "resolved")
  /\ UNCHANGED <<pushed, at, stored, snapshots>>

\* All events are published, and dispatch() resolves.
Publish(b) ==
  /\ state[b] = "ready"
  /\ Turn(b)
  /\ PublishFirst(b, Size[b])
  /\ Become(b, "resolved")
  /\ UNCHANGED <<pushed, at, stored, snapshots>>

\* Mutant of PublishThrows: the error is swallowed.
PublishThrowsUnnoticed(b) ==
  /\ state[b] = "ready"
  /\ Turn(b)
  /\ \E n \in 0..(Size[b] - 1) : PublishFirst(b, n)
  /\ Become(b, "resolved")
  /\ UNCHANGED <<pushed, at, stored, snapshots>>

\* publish() throws before it returns a promise: dispatch() is rejected, though
\* the events are stored and the first of them published.
PublishThrows(b) ==
  /\ state[b] = "ready"
  /\ Turn(b)
  /\ \E n \in 0..(Size[b] - 1) : PublishFirst(b, n)
  /\ Become(b, "rejected")
  /\ UNCHANGED <<pushed, at, stored, snapshots>>

\* revert() of the snapshot storage deletes the snapshot of the aggregate.
RevertSnapshots(b) ==
  snapshots' = IF b \in WithSnapshot
                 THEN [snapshots EXCEPT ![Aggregate[b]] = None]
                 ELSE snapshots

\* The batch has an error: every processor is asked to revert it, whether or not
\* it has run. The event storage has no revert().
Revert(b) ==
  /\ state[b] = "failed"
  /\ Turn(b)
  /\ RevertSnapshots(b)
  /\ Become(b, "reverted")
  /\ UNCHANGED <<pushed, at, stored, published, pending>>

\* dispatch() is rejected with the error of the processor ...
Reject(b) ==
  /\ state[b] = "reverted"
  /\ Become(b, "rejected")
  /\ UNCHANGED <<pushed, at, stored, snapshots, published, pending>>

\* Mutant of RevertFails: the error ends the loop.
RevertFailsUncaught(b) ==
  /\ state[b] = "failed"
  /\ Turn(b)
  /\ Become(b, "unsettled")
  /\ UNCHANGED <<pushed, at, stored, snapshots, published, pending>>

\* ... or with the error of a revert() that fails.
RevertFails(b) ==
  /\ state[b] = "failed"
  /\ Turn(b)
  /\ Become(b, "rejected")
  /\ UNCHANGED <<pushed, at, stored, snapshots, published, pending>>

\* The subscribers are done with an event, or one of them has failed, which only
\* the error handler hears of.
Delivered(e) ==
  /\ e \in pending
  /\ pending' = pending \ {e}
  /\ UNCHANGED <<pushed, at, state, stored, snapshots, published>>

-----------------------------------------------------------------------------

\* What the pipeline does with a batch by itself.
Step(b) ==
  \/ Take(b) \/ StoreEvents(b) \/ SaveSnapshots(b) \/ ProcessorFails(b)
  \/ Publish(b) \/ PublishThrows(b) \/ Revert(b) \/ RevertFails(b) \/ Reject(b)

\* Every dispatch() has settled, and every subscriber is done.
Quiescent ==
  /\ \A b \in Batches : state[b] \in Settled
  /\ pending = {}
  /\ UNCHANGED vars

Next ==
  \/ \E b \in Batches : Push(b) \/ Step(b)
  \/ \E e \in pending : Delivered(e)
  \/ Quiescent

Spec == Init /\ [][Next]_vars

\* Processors settle, and the stages and the loop are run.
FairSpec == Spec /\ \A b \in Batches : WF_vars(Step(b))

-----------------------------------------------------------------------------
(* Properties.                                                             *)

\* Types of the variables.
TypeOK ==
  /\ pushed \in Seq(Batches)
  /\ at \in [Batches -> 0..Last]
  /\ state \in [Batches -> {"unsent", "ready", "busy", "failed", "reverted"} \cup Settled]
  /\ stored \in Seq(Batches)
  /\ snapshots \in [Aggregates -> Batches \cup {None}]
  /\ published \in Seq(Batches \X Nat)
  /\ pending \subseteq Elements(published)

\* No subscriber hears of an event that is not in the storage, whatever fails
\* and however many batches are in the pipeline.
StoredBeforePublished == \A e \in Elements(published) : e[1] \in Elements(stored)

\* Events are published in the order of dispatch(), each at most once, though
\* processors finish out of order ("preserving FIFO ordering",
\* EventDispatchPipeline.ts:48).
FirstInFirstOut ==
  \A i, j \in DOMAIN published : i < j =>
    \/ Before(published[i][1], published[j][1])
    \/ published[i][1] = published[j][1] /\ published[i][2] < published[j][2]

\* The subscribers see the events of an aggregate in commit order.
AggregatesInOrder ==
  \A i, j \in DOMAIN published, k, l \in DOMAIN stored :
    /\ Aggregate[published[i][1]] = Aggregate[published[j][1]]
    /\ stored[k] = published[i][1] /\ stored[l] = published[j][1]
    /\ k < l
    => i < j

\* A dispatch() that resolves has stored its events and published them all.
ResolvedMeansPublished ==
  \A b \in Batches : state[b] = "resolved" =>
    b \in Elements(stored) /\ Elements(Events(b, Size[b])) \subseteq Elements(published)

\* A snapshot is of events that are in the storage: no aggregate is restored
\* from a state that was never committed.
SnapshotsOfStored ==
  \A a \in Aggregates : snapshots[a] # None => snapshots[a] \in Elements(stored)

\* Every dispatch() settles, also behind one that failed.
EveryDispatchSettles == \A b \in Batches : state[b] = "ready" ~> state[b] \in Settled
=============================================================================
