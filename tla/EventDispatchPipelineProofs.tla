---------------------- MODULE EventDispatchPipelineProofs ----------------------
(***************************************************************************)
(* Proofs about EventDispatchPipeline, for any number of batches and        *)
(* aggregates, any concurrency limit and any failures of the processors.    *)
(***************************************************************************)
EXTENDS EventDispatchPipeline, SequenceTheorems, TLAPS

------------------------------------------------------------------------------
(* Sequences and their elements.                                           *)

\* What a buffer or a log holds after one more element is appended to it.
LEMMA ElementsAppend ==
  ASSUME NEW S, NEW q \in Seq(S), NEW x \in S
  PROVE  Elements(Append(q, x)) = Elements(q) \cup {x}
<1>1. /\ DOMAIN q = 1..Len(q) /\ DOMAIN Append(q, x) = 1..(Len(q) + 1) /\ Len(q) \in Nat
      /\ \A i \in 1..Len(q) : Append(q, x)[i] = q[i]
      /\ Append(q, x)[Len(q) + 1] = x
  OBVIOUS
<1>2. Elements(Append(q, x)) \subseteq Elements(q) \cup {x}
  BY <1>1 DEF Elements
<1>3. Elements(q) \subseteq Elements(Append(q, x))
  BY <1>1 DEF Elements
<1>4. x \in Elements(Append(q, x))
  BY <1>1 DEF Elements
<1>. QED
  BY <1>2, <1>3, <1>4

\* What the bus has seen after one more batch is published.
LEMMA ElementsConcat ==
  ASSUME NEW S, NEW q \in Seq(S), NEW r \in Seq(S)
  PROVE  Elements(q \o r) = Elements(q) \cup Elements(r)
<1>1. /\ DOMAIN q = 1..Len(q) /\ DOMAIN r = 1..Len(r) /\ DOMAIN (q \o r) = 1..(Len(q) + Len(r))
      /\ Len(q) \in Nat /\ Len(r) \in Nat
      /\ \A i \in 1..Len(q) : (q \o r)[i] = q[i]
      /\ \A i \in 1..Len(r) : (q \o r)[Len(q) + i] = r[i]
  OBVIOUS
<1>2. ASSUME NEW i \in 1..(Len(q) + Len(r))
      PROVE  (q \o r)[i] \in Elements(q) \cup Elements(r)
  <2>1. CASE i <= Len(q)
    BY <1>1, <2>1 DEF Elements
  <2>2. CASE i > Len(q)
    <3>1. i - Len(q) \in 1..Len(r) /\ i = Len(q) + (i - Len(q))
      BY <1>1, <2>2
    <3>2. (q \o r)[i] = r[i - Len(q)]
      BY <1>1, <3>1
    <3>. QED
      BY <1>1, <3>1, <3>2 DEF Elements
  <2>. QED
    BY <1>1, <2>1, <2>2
<1>3. Elements(q) \subseteq Elements(q \o r)
  <2>1. 1..Len(q) \subseteq 1..(Len(q) + Len(r))
    BY <1>1
  <2>. QED
    BY <1>1, <2>1 DEF Elements
<1>4. ASSUME NEW i \in 1..Len(r)
      PROVE  r[i] \in Elements(q \o r)
  <2>1. Len(q) + i \in 1..(Len(q) + Len(r))
    BY <1>1
  <2>. QED
    BY <1>1, <2>1 DEF Elements
<1>5. Elements(q \o r) \subseteq Elements(q) \cup Elements(r)
  BY <1>1, <1>2 DEF Elements
<1>6. Elements(r) \subseteq Elements(q \o r)
  BY <1>1, <1>4 DEF Elements
<1>. QED
  BY <1>3, <1>5, <1>6

\* The first n events of a batch are events, and of that batch.
LEMMA EventsType ==
  ASSUME NEW b \in Batches, NEW n \in Nat
  PROVE  /\ Events(b, n) \in Seq(Batches \X Nat)
         /\ \A e \in Elements(Events(b, n)) : e[1] = b
<1>1. \A i \in 1..n : <<b, i>> \in Batches \X Nat /\ <<b, i>>[1] = b
  OBVIOUS
<1>2. Events(b, n) \in Seq(Batches \X Nat)
  BY <1>1 DEF Events
<1>3. DOMAIN Events(b, n) = 1..n /\ \A i \in 1..n : Events(b, n)[i] = <<b, i>>
  BY DEF Events
<1>. QED
  BY <1>1, <1>2, <1>3 DEF Elements

\* The default pipeline has two stages: the storage, then the snapshots.
LEMMA Stages == Last = 2 /\ Processors[1] = "storage" /\ Processors[2] = "snapshots"
  BY DEF Last, Processors

\* publish() of the first n events of a batch adds them to what the bus has seen.
LEMMA Publication ==
  ASSUME TypeOK, NEW b \in Batches, NEW n \in Nat, PublishFirst(b, n)
  PROVE  /\ published' \in Seq(Batches \X Nat)
         /\ Elements(published)' = Elements(published) \cup Elements(Events(b, n))
         /\ pending' = pending \cup Elements(Events(b, n))
<1>1. published \in Seq(Batches \X Nat) /\ Events(b, n) \in Seq(Batches \X Nat)
  BY EventsType DEF TypeOK
<1>2. published' = published \o Events(b, n) /\ pending' = pending \cup Elements(Events(b, n))
  BY DEF PublishFirst
<1>3. published' \in Seq(Batches \X Nat)
  BY <1>1, <1>2
<1>4. Elements(published \o Events(b, n)) = Elements(published) \cup Elements(Events(b, n))
  BY <1>1, ElementsConcat
<1>5. Elements(published)' = Elements(published \o Events(b, n))
  BY <1>2 DEF Elements
<1>. QED
  BY <1>2, <1>3, <1>4, <1>5

------------------------------------------------------------------------------
(* Type correctness.                                                       *)

\* The states of an envelope.
States == {"unsent", "ready", "busy", "failed", "reverted"} \cup Settled

\* TypeOK is an invariant: no envelope leaves the pipeline on its far side, and
\* drain() and the error handler only ever see published events.
THEOREM TypeCorrect == Spec => []TypeOK
<1>1. Init => TypeOK
  BY Stages DEF Init, TypeOK, Elements
<1>2. TypeOK /\ [Next]_vars => TypeOK'
  <2>. SUFFICES ASSUME TypeOK, [Next]_vars
                PROVE  TypeOK'
    OBVIOUS
  <2>1. ASSUME NEW b \in Batches, Push(b)
        PROVE  TypeOK'
    BY <2>1 DEF Push, Become, TypeOK, Elements, Settled
  <2>2. ASSUME NEW b \in Batches, Take(b)
        PROVE  TypeOK'
    <3>1. /\ at' \in [Batches -> 0..Last]
          /\ UNCHANGED <<pushed, stored, snapshots, published, pending>>
      BY <2>2, Stages DEF Take, TypeOK
    <3>2. PICK s \in {"failed", "busy"} : state' = [state EXCEPT ![b] = s]
      BY <2>2 DEF Take, Become
    <3>3. state' \in [Batches -> States]
      BY <3>2 DEF TypeOK, States
    <3>4. Elements(published)' = Elements(published)
      BY <3>1 DEF Elements
    <3>. QED
      BY <3>1, <3>3, <3>4 DEF TypeOK, States
  <2>3. ASSUME NEW b \in Batches, StoreEvents(b)
        PROVE  TypeOK'
    BY <2>3 DEF StoreEvents, Become, TypeOK, Elements, Settled
  <2>4. ASSUME NEW b \in Batches, SaveSnapshots(b)
        PROVE  TypeOK'
    <3>1. /\ state' \in [Batches -> States]
          /\ UNCHANGED <<pushed, at, stored, published, pending>>
      BY <2>4 DEF SaveSnapshots, Become, TypeOK, States
    <3>2. snapshots' \in [Aggregates -> Batches \cup {None}]
      BY <2>4, ConstantsAssumption DEF SaveSnapshots, TypeOK
    <3>3. Elements(published)' = Elements(published)
      BY <3>1 DEF Elements
    <3>. QED
      BY <3>1, <3>2, <3>3 DEF TypeOK, States
  <2>5. ASSUME NEW b \in Batches, ProcessorFails(b) \/ Reject(b) \/ RevertFails(b)
        PROVE  TypeOK'
    <3>1. UNCHANGED <<pushed, at, stored, snapshots, published, pending>>
      BY <2>5 DEF ProcessorFails, Reject, RevertFails
    <3>2. PICK s \in {"failed", "rejected"} : state' = [state EXCEPT ![b] = s]
      BY <2>5 DEF ProcessorFails, Reject, RevertFails, Become
    <3>3. state' \in [Batches -> States]
      BY <3>2 DEF TypeOK, States, Settled
    <3>4. Elements(published)' = Elements(published)
      BY <3>1 DEF Elements
    <3>. QED
      BY <3>1, <3>3, <3>4 DEF TypeOK, States
  <2>6. ASSUME NEW b \in Batches, Revert(b)
        PROVE  TypeOK'
    <3>1. /\ state' \in [Batches -> States]
          /\ UNCHANGED <<pushed, at, stored, published, pending>>
      BY <2>6 DEF Revert, Become, TypeOK, States
    <3>2. snapshots' \in [Aggregates -> Batches \cup {None}]
      BY <2>6, ConstantsAssumption DEF Revert, RevertSnapshots, TypeOK
    <3>3. Elements(published)' = Elements(published)
      BY <3>1 DEF Elements
    <3>. QED
      BY <3>1, <3>2, <3>3 DEF TypeOK, States
  <2>7. ASSUME NEW b \in Batches, Publish(b) \/ PublishThrows(b)
        PROVE  TypeOK'
    <3>1. PICK n \in Nat : PublishFirst(b, n)
      BY <2>7, ConstantsAssumption DEF Publish, PublishThrows
    <3>2. /\ published' \in Seq(Batches \X Nat)
          /\ pending' \subseteq Elements(published)'
          /\ Elements(published) \subseteq Elements(published)'
      BY <3>1, Publication DEF TypeOK
    <3>3. state' \in [Batches -> States] /\ UNCHANGED <<pushed, at, stored, snapshots>>
      BY <2>7 DEF Publish, PublishThrows, Become, TypeOK, States, Settled
    <3>. QED
      BY <3>2, <3>3 DEF TypeOK, States
  <2>8. ASSUME NEW e \in pending, Delivered(e)
        PROVE  TypeOK'
    BY <2>8 DEF Delivered, TypeOK, Elements
  <2>9. CASE UNCHANGED vars
    BY <2>9 DEF vars, TypeOK, Elements
  <2>. QED
    BY <2>1, <2>2, <2>3, <2>4, <2>5, <2>6, <2>7, <2>8, <2>9 DEF Next, Step, Quiescent
<1>. QED
  BY <1>1, <1>2, PTL DEF Spec

------------------------------------------------------------------------------
(* What is published, saved and resolved is stored.                        *)
(*                                                                         *)
(* The properties are not inductive: they rest on where a batch can be     *)
(* without an error. One that has left the storage is in it, and only such *)
(* a batch reaches the snapshots and the loop that publishes.              *)

\* What the place and the state of a batch tell of it.
ProgressOf(b) ==
  /\ state[b] = "unsent" => at[b] = 0
  /\ state[b] = "busy" => at[b] \in 1..2
  /\ state[b] = "ready" /\ at[b] >= 1 => b \in Elements(stored)
  /\ state[b] = "busy" /\ at[b] = 2 => b \in Elements(stored)
  /\ state[b] = "resolved" =>
       b \in Elements(stored) /\ Elements(Events(b, Size[b])) \subseteq Elements(published)

Progress == \A b \in Batches : ProgressOf(b)

CommittedInv == Progress /\ StoredBeforePublished /\ SnapshotsOfStored

\* A step moves one batch, and neither log ever shrinks: the others stay where
\* they are.
LEMMA OneBatch ==
  ASSUME CommittedInv, NEW b \in Batches,
         \A d \in Batches : d # b => state'[d] = state[d] /\ at'[d] = at[d],
         Elements(stored) \subseteq Elements(stored)',
         Elements(published) \subseteq Elements(published)',
         ProgressOf(b)'
  PROVE  Progress'
<1>. SUFFICES ASSUME NEW d \in Batches, d # b PROVE ProgressOf(d)'
  BY DEF Progress
<1>1. ProgressOf(d)
  BY DEF CommittedInv, Progress
<1>2. state'[d] = state[d] /\ at'[d] = at[d]
  OBVIOUS
<1>3. Elements(Events(d, Size[d]))' = Elements(Events(d, Size[d]))
  BY DEF Elements, Events
<1>. QED
  BY <1>1, <1>2, <1>3 DEF ProgressOf

\* A step that leaves the logs and the snapshots alone keeps the invariant when
\* the batch it moves is where ProgressOf allows.
LEMMA QuietMove ==
  ASSUME CommittedInv, NEW b \in Batches,
         \A d \in Batches : d # b => state'[d] = state[d] /\ at'[d] = at[d],
         UNCHANGED <<stored, published>>,
         \A a \in Aggregates : snapshots'[a] \in {snapshots[a], None},
         ProgressOf(b)'
  PROVE  CommittedInv'
<1>1. Elements(stored)' = Elements(stored) /\ Elements(published)' = Elements(published)
  BY DEF Elements
<1>2. Progress'
  BY <1>1, OneBatch
<1>3. StoredBeforePublished' /\ SnapshotsOfStored'
  BY <1>1 DEF CommittedInv, StoredBeforePublished, SnapshotsOfStored
<1>. QED
  BY <1>2, <1>3 DEF CommittedInv

\* CommittedInv is an invariant of the pipeline.
LEMMA Committed == Spec => []CommittedInv
<1>1. Init => CommittedInv
  BY DEF Init, CommittedInv, Progress, ProgressOf, StoredBeforePublished, SnapshotsOfStored, Elements
<1>2. TypeOK /\ CommittedInv /\ [Next]_vars => CommittedInv'
  <2>. SUFFICES ASSUME TypeOK, CommittedInv, [Next]_vars
                PROVE  CommittedInv'
    OBVIOUS
  <2>. USE Stages
  <2>1. ASSUME NEW b \in Batches, Push(b)
        PROVE  CommittedInv'
    <3>1. state'[b] = "ready" /\ at'[b] = 0
      BY <2>1 DEF Push, Become, TypeOK, CommittedInv, Progress, ProgressOf
    <3>2. ProgressOf(b)'
      BY <3>1 DEF ProgressOf
    <3>. QED
      BY <2>1, <3>2, QuietMove DEF Push, Become, TypeOK
  <2>2. ASSUME NEW b \in Batches, Take(b)
        PROVE  CommittedInv'
    <3>1. /\ state[b] \in {"ready", "failed"} /\ at[b] \in 0..1 /\ at'[b] = at[b] + 1
          /\ state'[b] = IF state[b] = "failed" THEN "failed" ELSE "busy"
          /\ UNCHANGED stored
      BY <2>2 DEF Take, Become, TypeOK
    <3>2. ProgressOf(b) /\ Elements(stored)' = Elements(stored)
      BY <3>1 DEF CommittedInv, Progress, Elements
    <3>3. ProgressOf(b)'
      BY <3>1, <3>2 DEF ProgressOf
    <3>. QED
      BY <2>2, <3>3, QuietMove DEF Take, Become, TypeOK
  <2>3. ASSUME NEW b \in Batches, StoreEvents(b)
        PROVE  CommittedInv'
    <3>1. /\ state' = [state EXCEPT ![b] = "ready"] /\ stored' = Append(stored, b)
          /\ UNCHANGED <<at, snapshots, published>>
      BY <2>3 DEF StoreEvents, Become
    <3>2. Elements(stored)' = Elements(stored) \cup {b}
      <4>1. Elements(Append(stored, b)) = Elements(stored) \cup {b}
        BY ElementsAppend DEF TypeOK
      <4>. QED
        BY <3>1, <4>1 DEF Elements
    <3>3. Elements(published)' = Elements(published)
      BY <3>1 DEF Elements
    <3>4. ProgressOf(b)'
      BY <3>1, <3>2 DEF TypeOK, ProgressOf
    <3>5. Progress'
      BY <3>1, <3>2, <3>3, <3>4, OneBatch DEF TypeOK
    <3>6. StoredBeforePublished' /\ SnapshotsOfStored'
      BY <3>1, <3>2, <3>3 DEF CommittedInv, StoredBeforePublished, SnapshotsOfStored
    <3>. QED
      BY <3>5, <3>6 DEF CommittedInv
  <2>4. ASSUME NEW b \in Batches, SaveSnapshots(b)
        PROVE  CommittedInv'
    <3>1. /\ state' = [state EXCEPT ![b] = "ready"]
          /\ \A a \in Aggregates : snapshots'[a] \in {snapshots[a], b}
          /\ UNCHANGED <<at, stored, published>>
      BY <2>4 DEF SaveSnapshots, Become, TypeOK
    <3>2. state[b] = "busy" /\ at[b] = 2
      BY <2>4 DEF SaveSnapshots, Busy, TypeOK, CommittedInv, Progress, ProgressOf
    <3>3. b \in Elements(stored) /\ Elements(stored)' = Elements(stored)
          /\ Elements(published)' = Elements(published)
      BY <3>1, <3>2 DEF CommittedInv, Progress, ProgressOf, Elements
    <3>4. ProgressOf(b)'
      BY <3>1, <3>3 DEF TypeOK, ProgressOf
    <3>5. Progress'
      BY <3>1, <3>3, <3>4, OneBatch DEF TypeOK
    <3>6. StoredBeforePublished' /\ SnapshotsOfStored'
      BY <3>1, <3>3 DEF CommittedInv, StoredBeforePublished, SnapshotsOfStored
    <3>. QED
      BY <3>5, <3>6 DEF CommittedInv
  <2>5. ASSUME NEW b \in Batches, ProcessorFails(b) \/ Reject(b) \/ RevertFails(b) \/ Revert(b)
        PROVE  CommittedInv'
    <3>1. PICK s \in {"failed", "reverted", "rejected"} : state' = [state EXCEPT ![b] = s]
      BY <2>5 DEF ProcessorFails, Reject, RevertFails, Revert, Become
    <3>2. ProgressOf(b)'
      BY <3>1 DEF TypeOK, ProgressOf
    <3>3. /\ UNCHANGED <<at, stored, published>>
          /\ \A a \in Aggregates : snapshots'[a] \in {snapshots[a], None}
      BY <2>5 DEF ProcessorFails, Reject, RevertFails, Revert, RevertSnapshots, TypeOK
    <3>. QED
      BY <3>1, <3>2, <3>3, QuietMove DEF TypeOK
  <2>6. ASSUME NEW b \in Batches, Publish(b) \/ PublishThrows(b)
        PROVE  CommittedInv'
    <3>1. PICK n \in Nat : PublishFirst(b, n) /\ (state'[b] = "resolved" => n = Size[b])
      BY <2>6, ConstantsAssumption DEF Publish, PublishThrows, Become, TypeOK
    <3>2. Elements(published)' = Elements(published) \cup Elements(Events(b, n))
      BY <3>1, Publication
    <3>3. /\ UNCHANGED <<at, stored, snapshots>>
          /\ \A d \in Batches : d # b => state'[d] = state[d]
          /\ state'[b] \in {"resolved", "rejected"}
          /\ state[b] = "ready" /\ at[b] = 2
      BY <2>6 DEF Publish, PublishThrows, Become, Turn, TypeOK
    <3>4. b \in Elements(stored) /\ Elements(stored)' = Elements(stored)
      BY <3>3 DEF CommittedInv, Progress, ProgressOf, Elements
    <3>5. Elements(Events(b, Size[b]))' = Elements(Events(b, Size[b]))
      BY DEF Elements, Events
    <3>6. ProgressOf(b)'
      BY <3>1, <3>2, <3>3, <3>4, <3>5 DEF ProgressOf
    <3>7. Progress'
      BY <3>2, <3>3, <3>4, <3>6, OneBatch
    <3>8. StoredBeforePublished'
      BY <3>2, <3>4, EventsType DEF CommittedInv, StoredBeforePublished
    <3>9. SnapshotsOfStored'
      BY <3>3, <3>4 DEF CommittedInv, SnapshotsOfStored
    <3>. QED
      BY <3>7, <3>8, <3>9 DEF CommittedInv
  <2>7. CASE UNCHANGED <<at, state, stored, snapshots, published>>
    BY <2>7 DEF CommittedInv, Progress, ProgressOf, StoredBeforePublished, SnapshotsOfStored,
                Elements, Events
  <2>8. ASSUME NEW e \in pending, Delivered(e)
        PROVE  CommittedInv'
    BY <2>7, <2>8 DEF Delivered
  <2>. QED
    BY <2>1, <2>2, <2>3, <2>4, <2>5, <2>6, <2>7, <2>8 DEF Next, Step, Quiescent, vars
<1>. QED
  BY <1>1, <1>2, TypeCorrect, PTL DEF Spec

\* Subscribers never hear of an event that is not in the storage.
THEOREM StoredFirst == Spec => []StoredBeforePublished
<1>1. CommittedInv => StoredBeforePublished
  BY DEF CommittedInv
<1>. QED
  BY <1>1, Committed, PTL

\* The snapshot storage never holds a state that was not committed.
THEOREM SnapshotsCommitted == Spec => []SnapshotsOfStored
<1>1. CommittedInv => SnapshotsOfStored
  BY DEF CommittedInv
<1>. QED
  BY <1>1, Committed, PTL

\* A dispatch() that resolves has stored and published all of its events.
THEOREM ResolvedIsFinal == Spec => []ResolvedMeansPublished
<1>1. CommittedInv => ResolvedMeansPublished
  BY DEF CommittedInv, Progress, ProgressOf, ResolvedMeansPublished
<1>. QED
  BY <1>1, Committed, PTL

------------------------------------------------------------------------------
(* The order of publication.                                               *)
(*                                                                         *)
(* A batch waits for its turn: what is settled, or being reverted, has only *)
(* settled batches before it. So when a batch is published everything      *)
(* published already was pushed earlier. That two batches of an aggregate  *)
(* are never in the pipeline together is the lock of the command handler.  *)

\* Every batch is pushed at most once.
PushedOnce == \A i, j \in DOMAIN pushed : pushed[i] = pushed[j] => i = j

\* The batches of the pipeline are those that dispatch() has been called for.
PushedInv == \A b \in Batches : (state[b] # "unsent") <=> (b \in Elements(pushed))

\* Batches leave the pipeline in the order they entered it, and before another
\* one of their aggregate enters.
TurnInv ==
  \A b, d \in Batches : Before(d, b) =>
    /\ state[b] \in {"reverted"} \cup Settled => state[d] \in Settled
    /\ Aggregate[d] = Aggregate[b] => state[d] \in Settled

\* A batch is settled by the step that publishes its events.
PublishedInv == \A e \in Elements(published) : state[e[1]] \in Settled

QueueInv == PushedOnce /\ PushedInv /\ TurnInv /\ PublishedInv /\ FirstInFirstOut

\* Two batches of the pipeline are in one order and not in the other.
LEMMA TotalOrder ==
  ASSUME TypeOK, PushedOnce, NEW b \in Elements(pushed), NEW d \in Elements(pushed)
  PROVE  /\ b # d => Before(b, d) \/ Before(d, b)
         /\ Before(b, d) => b # d /\ ~Before(d, b)
<1>1. DOMAIN pushed \subseteq Nat
  BY DEF TypeOK
<1>2. PICK i, j \in DOMAIN pushed : pushed[i] = b /\ pushed[j] = d
  BY DEF Elements
<1>3. b # d => i < j \/ j < i
  BY <1>1, <1>2
<1>4. /\ Before(b, d) => i < j
      /\ Before(d, b) => j < i
      /\ Before(b, d) /\ b = d => i < i
  BY <1>2 DEF Before, PushedOnce
<1>. QED
  BY <1>1, <1>2, <1>3, <1>4 DEF Before

\* A step that moves one batch of the pipeline, at its turn if it ends it there.
LEMMA TurnKept ==
  ASSUME TypeOK, TypeOK', QueueInv, NEW b \in Batches, UNCHANGED pushed,
         \A d \in Batches : d # b => state'[d] = state[d],
         state[b] \notin {"unsent"} \cup Settled, state'[b] # "unsent",
         \/ state'[b] \notin {"reverted"} \cup Settled
         \/ \A d \in Batches : Before(d, b) => state[d] \in Settled
  PROVE  /\ PushedOnce' /\ PushedInv' /\ TurnInv'
         /\ \A d \in Batches : state[d] \in Settled => state'[d] \in Settled
<1>1. PushedOnce'
  BY DEF QueueInv, PushedOnce
<1>2. Elements(pushed)' = Elements(pushed)
  BY DEF Elements
<1>3. PushedInv'
  BY <1>2 DEF QueueInv, PushedInv
<1>4. \A d \in Batches : state[d] \in Settled => state'[d] \in Settled
  OBVIOUS
<1>5. ASSUME NEW e \in Batches, NEW d \in Batches, Before(d, e)'
      PROVE  /\ state'[e] \in {"reverted"} \cup Settled => state'[d] \in Settled
             /\ Aggregate[d] = Aggregate[e] => state'[d] \in Settled
  <2>1. Before(d, e)
    BY <1>5 DEF Before
  <2>2. Aggregate[d] = Aggregate[e] => state[d] \in Settled
    BY <2>1 DEF QueueInv, TurnInv
  <2>3. CASE e = b
    BY <1>4, <2>1, <2>2, <2>3 DEF QueueInv, TurnInv
  <2>4. CASE e # b
    BY <1>4, <2>1, <2>2, <2>4 DEF QueueInv, TurnInv
  <2>. QED
    BY <2>3, <2>4
<1>6. TurnInv'
  BY <1>5 DEF TurnInv
<1>. QED
  BY <1>1, <1>3, <1>4, <1>6

\* If such a step publishes nothing, the order is kept.
LEMMA QueueKept ==
  ASSUME TypeOK, TypeOK', QueueInv, NEW b \in Batches, UNCHANGED <<pushed, published>>,
         \A d \in Batches : d # b => state'[d] = state[d],
         state[b] \notin {"unsent"} \cup Settled, state'[b] # "unsent",
         \/ state'[b] \notin {"reverted"} \cup Settled
         \/ \A d \in Batches : Before(d, b) => state[d] \in Settled
  PROVE  QueueInv'
<1>1. /\ PushedOnce' /\ PushedInv' /\ TurnInv'
      /\ \A d \in Batches : state[d] \in Settled => state'[d] \in Settled
  BY TurnKept
<1>2. \A e \in Elements(published) : e[1] \in Batches
  BY DEF Elements, TypeOK
<1>3. PublishedInv'
  BY <1>1, <1>2 DEF QueueInv, PublishedInv, Elements
<1>4. FirstInFirstOut'
  BY DEF QueueInv, FirstInFirstOut, Before
<1>. QED
  BY <1>1, <1>3, <1>4 DEF QueueInv

\* push(): the batch is the last of the pipeline, and the only one there of its
\* aggregate.
LEMMA QueuePush ==
  ASSUME TypeOK, TypeOK', QueueInv, NEW b \in Batches, Push(b)
  PROVE  QueueInv'
<1>1. /\ state[b] = "unsent" /\ pushed' = Append(pushed, b) /\ UNCHANGED published
      /\ state'[b] = "ready" /\ \A d \in Batches : d # b => state'[d] = state[d]
      /\ \A d \in Batches : Aggregate[d] = Aggregate[b] => state[d] \in {"unsent"} \cup Settled
  BY DEF Push, Become, TypeOK
<1>2. /\ DOMAIN pushed = 1..Len(pushed) /\ DOMAIN pushed' = 1..(Len(pushed) + 1) /\ Len(pushed) \in Nat
      /\ \A i \in 1..Len(pushed) : pushed'[i] = pushed[i]
      /\ pushed'[Len(pushed) + 1] = b
  BY <1>1 DEF TypeOK
<1>3. b \notin Elements(pushed)
  BY <1>1 DEF QueueInv, PushedInv
<1>4. Elements(pushed)' = Elements(pushed) \cup {b}
  <2>1. Elements(Append(pushed, b)) = Elements(pushed) \cup {b}
    BY ElementsAppend DEF TypeOK
  <2>. QED
    BY <1>1, <2>1 DEF Elements
<1>5. PushedOnce'
  <2>1. \A i \in 1..Len(pushed) : pushed[i] # b
    BY <1>2, <1>3 DEF Elements
  <2>. QED
    BY <1>2, <2>1 DEF QueueInv, PushedOnce
<1>6. PushedInv'
  BY <1>1, <1>4 DEF QueueInv, PushedInv
<1>7. ASSUME NEW d, NEW e, Before(d, e)
      PROVE  Before(d, e)'
  BY <1>2, <1>7 DEF Before
<1>8. ASSUME NEW d, NEW e, Before(d, e)'
      PROVE  d \in Elements(pushed) /\ (e = b \/ Before(d, e))
  <2>1. PICK i, j \in DOMAIN pushed' : i < j /\ pushed'[i] = d /\ pushed'[j] = e
    BY <1>8 DEF Before
  <2>2. i \in 1..Len(pushed) /\ (j \in 1..Len(pushed) \/ j = Len(pushed) + 1)
    BY <1>2, <2>1
  <2>. QED
    BY <1>2, <2>1, <2>2 DEF Before, Elements
<1>9. TurnInv'
  <2>. SUFFICES ASSUME NEW e \in Batches, NEW d \in Batches, Before(d, e)'
                PROVE  /\ state'[e] \in {"reverted"} \cup Settled => state'[d] \in Settled
                       /\ Aggregate[d] = Aggregate[e] => state'[d] \in Settled
    BY DEF TurnInv
  <2>1. d \in Elements(pushed) /\ d # b /\ state'[d] = state[d] /\ state[d] # "unsent"
    BY <1>1, <1>3, <1>8 DEF QueueInv, PushedInv
  <2>2. CASE e = b
    BY <1>1, <2>1, <2>2 DEF Settled
  <2>3. CASE e # b
    BY <1>1, <1>8, <2>1, <2>3 DEF QueueInv, TurnInv
  <2>. QED
    BY <2>2, <2>3
<1>10. PublishedInv'
  <2>1. \A e \in Elements(published) : e[1] \in Batches
    BY DEF Elements, TypeOK
  <2>2. Elements(published)' = Elements(published)
    BY <1>1 DEF Elements
  <2>. QED
    BY <1>1, <2>1, <2>2 DEF QueueInv, PublishedInv, Settled
<1>11. FirstInFirstOut'
  BY <1>1, <1>7 DEF QueueInv, FirstInFirstOut
<1>. QED
  BY <1>5, <1>6, <1>9, <1>10, <1>11 DEF QueueInv

\* publish(): all that the bus has seen is of batches before this one.
LEMMA QueuePublish ==
  ASSUME TypeOK, TypeOK', QueueInv, NEW b \in Batches, Publish(b) \/ PublishThrows(b)
  PROVE  QueueInv'
<1>1. PICK n \in Nat : PublishFirst(b, n)
  BY ConstantsAssumption DEF Publish, PublishThrows
<1>2. /\ UNCHANGED pushed
      /\ \A d \in Batches : d # b => state'[d] = state[d]
      /\ state[b] = "ready" /\ state'[b] \in Settled
      /\ \A d \in Batches : Before(d, b) => state[d] \in Settled
  BY DEF Publish, PublishThrows, Become, Turn, TypeOK, Settled
<1>3. /\ PushedOnce' /\ PushedInv' /\ TurnInv'
      /\ \A d \in Batches : state[d] \in Settled => state'[d] \in Settled
  BY <1>2, TurnKept DEF Settled
<1>4. \A e \in Elements(published) : e[1] \in Batches
  BY DEF Elements, TypeOK
<1>5. PublishedInv'
  <2>1. Elements(published)' = Elements(published) \cup Elements(Events(b, n))
    BY <1>1, Publication
  <2>. QED
    BY <1>2, <1>3, <1>4, <2>1, EventsType DEF QueueInv, PublishedInv
<1>6. /\ published' = published \o Events(b, n)
      /\ Events(b, n) \in Seq(Batches \X Nat) /\ published \in Seq(Batches \X Nat)
  BY <1>1, EventsType DEF PublishFirst, TypeOK
<1>. DEFINE m == Len(published)
<1>7. /\ m \in Nat /\ DOMAIN published = 1..m /\ DOMAIN published' = 1..(m + n)
      /\ \A i \in 1..m : published'[i] = published[i]
      /\ \A i \in 1..n : published'[m + i] = <<b, i>>
  <2>1. Len(Events(b, n)) = n /\ \A i \in 1..n : Events(b, n)[i] = <<b, i>>
    BY <1>6 DEF Events
  <2>2. /\ Len(published) \in Nat /\ DOMAIN published = 1..Len(published)
        /\ Len(published') = Len(published) + Len(Events(b, n))
        /\ DOMAIN published' = 1..Len(published')
        /\ \A i \in 1..Len(published) : published'[i] = published[i]
    BY <1>6
  <2>3. \A i \in 1..Len(Events(b, n)) : published'[Len(published) + i] = Events(b, n)[i]
    BY <1>6
  <2>. QED
    BY <2>1, <2>2, <2>3
<1>. HIDE DEF m
<1>8. ASSUME NEW i \in 1..m
      PROVE  Before(published[i][1], b)
  <2>1. published[i] \in Elements(published)
    BY <1>7 DEF Elements
  <2>2. published[i][1] \in Batches /\ state[published[i][1]] \in Settled
    BY <1>4, <2>1 DEF QueueInv, PublishedInv
  <2>3. published[i][1] # b
    BY <1>2, <2>2 DEF Settled
  <2>4. b \in Elements(pushed) /\ published[i][1] \in Elements(pushed)
    BY <1>2, <2>2 DEF QueueInv, PushedInv, Settled
  <2>5. ~Before(b, published[i][1])
    BY <1>2, <2>2 DEF QueueInv, TurnInv, Settled
  <2>. QED
    BY <2>3, <2>4, <2>5, TotalOrder DEF QueueInv
<1>9. FirstInFirstOut'
  <2>. SUFFICES ASSUME NEW i \in 1..(m + n), NEW j \in 1..(m + n), i < j
                PROVE  \/ Before(published'[i][1], published'[j][1])
                       \/ published'[i][1] = published'[j][1] /\ published'[i][2] < published'[j][2]
    BY <1>2, <1>7 DEF FirstInFirstOut, Before
  <2>1. CASE j <= m
    <3>1. i \in 1..m /\ j \in 1..m
      BY <1>7, <2>1
    <3>2. i \in DOMAIN published /\ j \in DOMAIN published
      BY <1>7, <3>1
    <3>. QED
      BY <1>7, <3>1, <3>2 DEF QueueInv, FirstInFirstOut
  <2>2. CASE j > m
    <3>1. j - m \in 1..n /\ j = m + (j - m)
      BY <1>7, <2>2
    <3>2. published'[j] = <<b, j - m>>
      BY <1>7, <3>1
    <3>3. CASE i <= m
      <4>1. i \in 1..m
        BY <1>7, <3>3
      <4>. QED
        BY <1>7, <1>8, <3>2, <4>1
    <3>4. CASE i > m
      <4>1. i - m \in 1..n /\ i = m + (i - m) /\ i - m < j - m
        BY <1>7, <3>4
      <4>2. published'[i] = <<b, i - m>>
        BY <1>7, <4>1
      <4>. QED
        BY <3>2, <4>1, <4>2
    <3>. QED
      BY <1>7, <3>3, <3>4
  <2>. QED
    BY <1>7, <2>1, <2>2
<1>. QED
  BY <1>3, <1>5, <1>9 DEF QueueInv

\* QueueInv is an invariant of the pipeline.
LEMMA Queue == Spec => []QueueInv
<1>1. Init => QueueInv
  BY DEF Init, QueueInv, PushedOnce, PushedInv, TurnInv, PublishedInv, FirstInFirstOut, Before,
         Elements
<1>2. TypeOK /\ TypeOK' /\ QueueInv /\ [Next]_vars => QueueInv'
  <2>. SUFFICES ASSUME TypeOK, TypeOK', QueueInv, [Next]_vars
                PROVE  QueueInv'
    OBVIOUS
  <2>1. ASSUME NEW b \in Batches, Push(b)
        PROVE  QueueInv'
    BY <2>1, QueuePush
  <2>2. ASSUME NEW b \in Batches, Take(b)
        PROVE  QueueInv'
    <3>1. /\ UNCHANGED <<pushed, published>> /\ state[b] \in {"ready", "failed"}
          /\ state'[b] \in {"busy", "failed"} /\ \A d \in Batches : d # b => state'[d] = state[d]
      BY <2>2 DEF Take, Become, TypeOK
    <3>. QED
      BY <3>1, QueueKept DEF Settled
  <2>3. ASSUME NEW b \in Batches, StoreEvents(b) \/ SaveSnapshots(b) \/ ProcessorFails(b)
        PROVE  QueueInv'
    <3>1. /\ UNCHANGED <<pushed, published>> /\ state[b] = "busy"
          /\ state'[b] \in {"ready", "failed"} /\ \A d \in Batches : d # b => state'[d] = state[d]
      BY <2>3 DEF StoreEvents, SaveSnapshots, ProcessorFails, Busy, Become, TypeOK
    <3>. QED
      BY <3>1, QueueKept DEF Settled
  <2>4. ASSUME NEW b \in Batches, Publish(b) \/ PublishThrows(b)
        PROVE  QueueInv'
    BY <2>4, QueuePublish
  <2>5. ASSUME NEW b \in Batches, Revert(b) \/ RevertFails(b)
        PROVE  QueueInv'
    <3>1. /\ UNCHANGED <<pushed, published>> /\ state[b] = "failed"
          /\ state'[b] \in {"reverted", "rejected"} /\ \A d \in Batches : d # b => state'[d] = state[d]
          /\ \A d \in Batches : Before(d, b) => state[d] \in Settled
      BY <2>5 DEF Revert, RevertFails, Turn, Become, TypeOK
    <3>. QED
      BY <3>1, QueueKept DEF Settled
  <2>6. ASSUME NEW b \in Batches, Reject(b)
        PROVE  QueueInv'
    <3>1. /\ UNCHANGED <<pushed, published>> /\ state[b] = "reverted"
          /\ state'[b] = "rejected" /\ \A d \in Batches : d # b => state'[d] = state[d]
      BY <2>6 DEF Reject, Become, TypeOK
    <3>2. \A d \in Batches : Before(d, b) => state[d] \in Settled
      BY <3>1 DEF QueueInv, TurnInv
    <3>. QED
      BY <3>1, <3>2, QueueKept DEF Settled
  <2>7. CASE UNCHANGED <<pushed, state, published>>
    BY <2>7 DEF QueueInv, PushedOnce, PushedInv, TurnInv, PublishedInv, FirstInFirstOut, Before,
                Elements
  <2>8. ASSUME NEW e \in pending, Delivered(e)
        PROVE  QueueInv'
    BY <2>7, <2>8 DEF Delivered
  <2>. QED
    BY <2>1, <2>2, <2>3, <2>4, <2>5, <2>6, <2>7, <2>8 DEF Next, Step, Quiescent, vars
<1>. QED
  BY <1>1, <1>2, TypeCorrect, PTL DEF Spec

\* Events are published in the order of dispatch(), each at most once, however
\* the processors overtake each other.
THEOREM PublishedInOrder == Spec => []FirstInFirstOut
<1>1. QueueInv => FirstInFirstOut
  BY DEF QueueInv
<1>. QED
  BY <1>1, Queue, PTL


------------------------------------------------------------------------------
(* The order of commits.                                                   *)
(*                                                                         *)
(* The batches of an aggregate are stored in the order they were pushed,    *)
(* since the second is pushed after the first has settled. The bus keeps   *)
(* that order.                                                             *)

\* A batch is stored by the first processor, once.
StoredOnce == \A b \in Elements(stored) : at[b] >= 1 /\ (state[b] = "busy" => at[b] = 2)

\* What is stored of an aggregate is stored in the order of push().
StoredInOrder ==
  \A k, l \in DOMAIN stored :
    k < l /\ Aggregate[stored[k]] = Aggregate[stored[l]] => Before(stored[k], stored[l])

\* What is stored is in the pipeline or has left it.
StoredPushed == \A b \in Elements(stored) : state[b] # "unsent"

CommitOrder == StoredOnce /\ StoredInOrder /\ StoredPushed

\* A step that stores nothing.
LEMMA CommitOrderKept ==
  ASSUME TypeOK, TypeOK', CommitOrder, NEW b \in Batches, UNCHANGED stored,
         \A d \in Batches : d # b => state'[d] = state[d] /\ at'[d] = at[d],
         \A i \in DOMAIN pushed : i \in DOMAIN pushed' /\ pushed'[i] = pushed[i],
         state'[b] # "unsent",
         \/ at'[b] = at[b] /\ state'[b] # "busy"
         \/ at'[b] = at[b] + 1
  PROVE  CommitOrder'
<1>1. Elements(stored)' = Elements(stored) /\ \A d \in Elements(stored) : d \in Batches
  BY DEF Elements, TypeOK
<1>2. ASSUME NEW d \in Elements(stored)
      PROVE  /\ state'[d] # "unsent" /\ at'[d] >= 1
             /\ state'[d] = "busy" => at'[d] = 2
  <2>1. CASE d = b
    <3>1. at[b] \in 0..2 /\ at'[b] \in 0..2
      BY Stages DEF TypeOK
    <3>2. at[b] >= 1
      BY <1>2, <2>1 DEF CommitOrder, StoredOnce
    <3>. QED
      BY <2>1, <3>1, <3>2
  <2>2. CASE d # b
    BY <1>1, <1>2, <2>2 DEF CommitOrder, StoredOnce, StoredPushed
  <2>. QED
    BY <2>1, <2>2
<1>3. \A d, e : Before(d, e) => Before(d, e)'
  BY DEF Before
<1>4. StoredInOrder'
  BY <1>3 DEF CommitOrder, StoredInOrder
<1>5. StoredOnce' /\ StoredPushed'
  BY <1>1, <1>2 DEF StoredOnce, StoredPushed
<1>. QED
  BY <1>4, <1>5 DEF CommitOrder

\* The event storage commits a batch: the others of its aggregate that are stored
\* were pushed before it, as nothing of the aggregate is settled after it.
LEMMA CommitOrderStore ==
  ASSUME TypeOK, TypeOK', Progress, QueueInv, CommitOrder, NEW b \in Batches, StoreEvents(b)
  PROVE  CommitOrder'
<1>1. /\ stored' = Append(stored, b) /\ UNCHANGED <<pushed, at>>
      /\ state[b] = "busy" /\ state'[b] = "ready" /\ \A d \in Batches : d # b => state'[d] = state[d]
  BY DEF StoreEvents, Become, Busy, TypeOK
<1>2. at[b] = 1
  <2>1. at[b] \in 1..2
    BY <1>1 DEF Progress, ProgressOf
  <2>. QED
    BY <2>1, Stages DEF StoreEvents, Busy
<1>3. Elements(stored)' = Elements(stored) \cup {b}
  <2>1. Elements(Append(stored, b)) = Elements(stored) \cup {b}
    BY ElementsAppend DEF TypeOK
  <2>. QED
    BY <1>1, <2>1 DEF Elements
<1>4. \A d \in Elements(stored) : d \in Batches /\ d # b
  <2>1. \A d \in Elements(stored) : d \in Batches
    BY DEF Elements, TypeOK
  <2>2. b \notin Elements(stored)
    BY <1>1, <1>2 DEF CommitOrder, StoredOnce
  <2>. QED
    BY <2>1, <2>2
<1>5. StoredOnce' /\ StoredPushed'
  BY <1>1, <1>2, <1>3, <1>4 DEF CommitOrder, StoredOnce, StoredPushed
<1>6. ASSUME NEW d \in Elements(stored), Aggregate[d] = Aggregate[b]
      PROVE  Before(d, b)
  <2>1. d \in Batches /\ d # b /\ d \in Elements(pushed) /\ b \in Elements(pushed)
    BY <1>1, <1>4 DEF QueueInv, PushedInv, CommitOrder, StoredPushed
  <2>2. ~Before(b, d)
    BY <1>1, <1>6, <2>1 DEF QueueInv, TurnInv, Settled
  <2>. QED
    BY <2>1, <2>2, TotalOrder DEF QueueInv
<1>. DEFINE n == Len(stored)
<1>7. /\ n \in Nat /\ DOMAIN stored = 1..n /\ DOMAIN stored' = 1..(n + 1)
      /\ stored'[n + 1] = b /\ \A k \in 1..n : stored'[k] = stored[k]
  BY <1>1 DEF TypeOK
<1>. HIDE DEF n
<1>8. StoredInOrder'
  <2>. SUFFICES ASSUME NEW k \in 1..(n + 1), NEW l \in 1..(n + 1),
                       k < l, Aggregate[stored'[k]] = Aggregate[stored'[l]]
                PROVE  Before(stored'[k], stored'[l])
    BY <1>1, <1>7 DEF StoredInOrder, Before
  <2>1. k \in 1..n
    BY <1>7
  <2>2. CASE l = n + 1
    BY <1>6, <1>7, <2>1, <2>2 DEF Elements
  <2>3. CASE l \in 1..n
    BY <1>7, <2>1, <2>3 DEF CommitOrder, StoredInOrder
  <2>. QED
    BY <1>7, <2>2, <2>3
<1>. QED
  BY <1>5, <1>8 DEF CommitOrder

\* CommitOrder is an invariant of the pipeline.
LEMMA CommitsOrdered == Spec => []CommitOrder
<1>1. Init => CommitOrder
  BY DEF Init, CommitOrder, StoredOnce, StoredInOrder, StoredPushed, Elements
<1>2. TypeOK /\ TypeOK' /\ CommittedInv /\ QueueInv /\ CommitOrder /\ [Next]_vars => CommitOrder'
  <2>. SUFFICES ASSUME TypeOK, TypeOK', CommittedInv, QueueInv, CommitOrder, [Next]_vars
                PROVE  CommitOrder'
    OBVIOUS
  <2>1. ASSUME NEW b \in Batches, Push(b)
        PROVE  CommitOrder'
    <3>1. /\ pushed' = Append(pushed, b) /\ UNCHANGED <<at, stored>>
          /\ state'[b] = "ready" /\ \A d \in Batches : d # b => state'[d] = state[d]
      BY <2>1 DEF Push, Become, TypeOK
    <3>2. \A i \in DOMAIN pushed : i \in DOMAIN pushed' /\ pushed'[i] = pushed[i]
      BY <3>1 DEF TypeOK
    <3>. QED
      BY <3>1, <3>2, CommitOrderKept
  <2>2. ASSUME NEW b \in Batches, Take(b)
        PROVE  CommitOrder'
    <3>1. /\ UNCHANGED <<pushed, stored>> /\ state'[b] \in {"busy", "failed"}
          /\ \A d \in Batches : d # b => state'[d] = state[d] /\ at'[d] = at[d]
          /\ at'[b] = at[b] + 1
      BY <2>2 DEF Take, Become, TypeOK
    <3>. QED
      BY <3>1, CommitOrderKept
  <2>3. ASSUME NEW b \in Batches, StoreEvents(b)
        PROVE  CommitOrder'
    BY <2>3, CommitOrderStore DEF CommittedInv
  <2>4. ASSUME NEW b \in Batches,
               \/ SaveSnapshots(b) \/ ProcessorFails(b) \/ Publish(b) \/ PublishThrows(b)
               \/ Revert(b) \/ RevertFails(b) \/ Reject(b)
        PROVE  CommitOrder'
    <3>1. PICK s \in {"ready", "failed", "resolved", "rejected", "reverted"} :
            state' = [state EXCEPT ![b] = s]
      BY <2>4 DEF SaveSnapshots, ProcessorFails, Publish, PublishThrows, Revert, RevertFails, Reject,
                  Become
    <3>2. UNCHANGED <<pushed, at, stored>>
      BY <2>4 DEF SaveSnapshots, ProcessorFails, Publish, PublishThrows, Revert, RevertFails, Reject
    <3>3. /\ state'[b] \notin {"unsent", "busy"}
          /\ \A d \in Batches : d # b => state'[d] = state[d] /\ at'[d] = at[d]
      BY <3>1, <3>2 DEF TypeOK
    <3>. QED
      BY <3>2, <3>3, CommitOrderKept
  <2>5. CASE UNCHANGED <<pushed, at, state, stored>>
    BY <2>5 DEF CommitOrder, StoredOnce, StoredInOrder, StoredPushed, Before, Elements
  <2>6. ASSUME NEW e \in pending, Delivered(e)
        PROVE  CommitOrder'
    BY <2>5, <2>6 DEF Delivered
  <2>. QED
    BY <2>1, <2>2, <2>3, <2>4, <2>5, <2>6 DEF Next, Step, Quiescent, vars
<1>. QED
  BY <1>1, <1>2, TypeCorrect, Committed, Queue, PTL DEF Spec

\* The subscribers see the events of an aggregate in the order they were
\* committed in, though the processors of several batches run at a time.
THEOREM PublishedInCommitOrder == Spec => []AggregatesInOrder
<1>1. TypeOK /\ QueueInv /\ CommitOrder => AggregatesInOrder
  <2>. SUFFICES ASSUME TypeOK, QueueInv, CommitOrder,
                       NEW i \in DOMAIN published, NEW j \in DOMAIN published,
                       NEW k \in DOMAIN stored, NEW l \in DOMAIN stored,
                       Aggregate[published[i][1]] = Aggregate[published[j][1]],
                       stored[k] = published[i][1], stored[l] = published[j][1], k < l
                PROVE  i < j
    BY DEF AggregatesInOrder
  <2>1. i \in Nat /\ j \in Nat
    <3>1. published \in Seq(Batches \X Nat)
      BY DEF TypeOK
    <3>2. DOMAIN published = 1..Len(published) /\ Len(published) \in Nat
      BY <3>1
    <3>. QED
      BY <3>2
  <2>. DEFINE b == published[i][1]  d == published[j][1]
  <2>2. Before(b, d)
    BY DEF CommitOrder, StoredInOrder
  <2>3. b \in Elements(pushed) /\ d \in Elements(pushed)
    BY <2>2 DEF Before, Elements
  <2>4. b # d /\ ~Before(d, b)
    BY <2>2, <2>3, TotalOrder DEF QueueInv
  <2>5. i # j /\ ~(j < i)
    BY <2>4 DEF QueueInv, FirstInFirstOut
  <2>. QED
    BY <2>1, <2>5
<1>. QED
  BY <1>1, TypeCorrect, Queue, CommitsOrdered, PTL
=============================================================================
