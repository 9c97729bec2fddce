------------------------- MODULE SagaEventHandlerProofs -------------------------
(***************************************************************************)
(* Proofs about SagaEventHandler: for any number of events, of commands    *)
(* for each of them, of failures and of restarts.                          *)
(***************************************************************************)
EXTENDS SagaEventHandler, FiniteSetTheorems, TLAPS

-----------------------------------------------------------------------------
(* Types, and the cache of sagas. A call that is past the restore has a    *)
(* saga that is ready: with this and the count of the calls that use it,   *)
(* the entry is dropped with its last user.                                *)

Participants == {e \in Events : calls[e] \in Using}

WorkOnReady ==
  \A e \in Events : calls[e] \in {"waiting", "handling", "sending"} => saga = "ready"

CacheInv == TypeOK /\ CacheAccounting /\ WorkOnReady

LEMMA ParticipantsCount ==
  /\ IsFiniteSet(Participants)
  /\ Cardinality(Participants) \in Nat
  /\ Cardinality(Participants) = 0 <=> Participants = {}
<1>1. IsFiniteSet(Events)
  BY FS_Interval, ConstantsAssumption DEF Events
<1>2. IsFiniteSet(Participants)
  BY <1>1, FS_Subset DEF Participants
<1>3. QED
  BY <1>2, FS_CardinalityType, FS_EmptySet

\* A call that comes to use the saga, and one that ceases to.
LEMMA Joins ==
  ASSUME TypeOK, NEW e \in Events, NEW to, calls' = [calls EXCEPT ![e] = to],
         calls[e] \notin Using, to \in Using
  PROVE  Cardinality(Participants') = Cardinality(Participants) + 1
<1>1. Participants' = Participants \cup {e} /\ e \notin Participants
  BY DEF Participants, TypeOK
<1>2. QED
  BY <1>1, ParticipantsCount, FS_AddElement

LEMMA Leaves ==
  ASSUME TypeOK, NEW e \in Events, NEW to, calls' = [calls EXCEPT ![e] = to],
         calls[e] \in Using, to \notin Using
  PROVE  /\ Cardinality(Participants) > 0
         /\ Cardinality(Participants') = Cardinality(Participants) - 1
         /\ Cardinality(Participants) = 1 => \A d \in Events \ {e} : calls[d] \notin Using
<1>1. Participants' = Participants \ {e} /\ e \in Participants
  BY DEF Participants, TypeOK
<1>2. Cardinality(Participants \ {e}) = Cardinality(Participants) - 1
  BY <1>1, ParticipantsCount, FS_RemoveElement
<1>3. Cardinality(Participants) = 1 => Participants = {e}
  BY <1>1, ParticipantsCount, FS_Singleton
<1>4. Cardinality(Participants) > 0
  BY <1>1, ParticipantsCount
<1>5. QED
  BY <1>1, <1>2, <1>3, <1>4 DEF Participants

LEMMA Stays ==
  ASSUME TypeOK, NEW e \in Events, NEW to, calls' = [calls EXCEPT ![e] = to],
         calls[e] \in Using <=> to \in Using
  PROVE  Participants' = Participants
  BY DEF Participants, TypeOK

LEMMA InitCache == Init => CacheInv
<1> SUFFICES ASSUME Init PROVE CacheInv
  OBVIOUS
<1>1. TypeOK
  BY ConstantsAssumption DEF Init, TypeOK, Phases
<1>2. Participants = {}
  BY DEF Init, Participants, Using
<1>3. Cardinality(Participants) = 0
  BY <1>2, FS_EmptySet
<1>4. QED
  BY <1>1, <1>3 DEF Init, CacheInv, CacheAccounting, Participants, WorkOnReady

\* The end of a call, whatever its outcome.
LEMMA LeaveCache ==
  ASSUME CacheInv, NEW e \in Events, calls[e] \in {"handling", "sending"},
         NEW outcome \in {"handled", "failed"}, NEW state \in SUBSET Events,
         Leave(e, outcome, state),
         sent' \in [Commands -> Nat], failures' \in Nat, UNCHANGED <<restarts, ahead>>
  PROVE  CacheInv'
<1>1. TypeOK /\ saga = "ready" /\ users = Cardinality(Participants)
  BY DEF CacheInv, WorkOnReady, CacheAccounting, Participants
<1>2. calls' = [calls EXCEPT ![e] = outcome]
  BY DEF Leave
<1>3. calls[e] \in Using /\ outcome \notin Using
  BY DEF Using
<1>4. /\ users > 0 /\ Cardinality(Participants') = users - 1
      /\ users = 1 => \A d \in Events \ {e} : calls[d] \notin Using
  BY <1>1, <1>2, <1>3, Leaves
<1>5. users' = users - 1 /\ users' \in Nat
  BY <1>1, <1>4 DEF Leave, TypeOK
<1>6. TypeOK'
  BY <1>1, <1>2, <1>5 DEF Leave, TypeOK, Phases
<1>7. users' = Cardinality(Participants') /\ (saga' = "none" <=> users' = 0)
  BY <1>1, <1>4, <1>5 DEF Leave, TypeOK
<1>8. WorkOnReady'
  <2>1. CASE users = 1
    <3>1. \A d \in Events : calls'[d] \notin Using
      BY <2>1, <1>1, <1>2, <1>3, <1>4 DEF TypeOK
    <3>2. QED
      BY <3>1 DEF WorkOnReady, Using
  <2>2. CASE users # 1
    BY <2>2, <1>1 DEF Leave, WorkOnReady
  <2>3. QED
    BY <2>1, <2>2
<1>9. QED
  BY <1>6, <1>7, <1>8 DEF CacheInv, CacheAccounting, Participants

LEMMA InterruptedType ==
  ASSUME TypeOK, NEW e \in Events, Interrupted(e)
  PROVE  sent' \in [Commands -> Nat]
  BY DEF TypeOK, Interrupted
LEMMA NextCache == CacheInv /\ [Next]_vars => CacheInv'
<1> SUFFICES ASSUME CacheInv, [Next]_vars PROVE CacheInv'
  OBVIOUS
<1>t. TypeOK
  BY DEF CacheInv
<1>n. users \in Nat /\ Cardinality(Participants) \in Nat
  BY <1>t, ParticipantsCount DEF TypeOK
<1>1. ASSUME NEW e \in Events, Store(e) PROVE CacheInv'
  <2>1. TypeOK'
    BY <1>1, <1>t DEF Store, TypeOK, Phases, cache
  <2>2. Participants' = Participants
    BY <1>1, <1>t, Stays DEF Store, Using
  <2>3. WorkOnReady'
    BY <1>1, <1>t DEF Store, CacheInv, WorkOnReady, TypeOK, cache
  <2>4. QED
    BY <1>1, <2>1, <2>2, <2>3 DEF CacheInv, CacheAccounting, Participants, Store, cache
<1>2. ASSUME NEW e \in Events, Deliver(e) PROVE CacheInv'
  <2>1. TypeOK'
    BY <1>2, <1>t DEF Deliver, TypeOK, Phases
  <2>2. Cardinality(Participants') = Cardinality(Participants) + 1
    BY <1>2, <1>t, Joins DEF Deliver, Using
  <2>3. WorkOnReady'
    BY <1>2, <1>t DEF Deliver, CacheInv, WorkOnReady, TypeOK
  <2>4. saga' # "broken" => users' = Cardinality(Participants') /\ (saga' = "none" <=> users' = 0)
    BY <1>2, <1>n, <2>2 DEF CacheInv, CacheAccounting, Participants, Deliver
  <2>5. QED
    BY <2>1, <2>3, <2>4 DEF CacheInv, CacheAccounting, Participants
<1>3. CASE Restored
  <2>1. Before(base) \subseteq Events
    BY <1>t, ConstantsAssumption DEF TypeOK, Before, WithOrigin, ByOrigin, Events
  <2>2. QED
    BY <1>3, <1>t, <2>1 DEF Restored, CacheInv, CacheAccounting, WorkOnReady, TypeOK
<1>4. CASE RestoreFails
  BY <1>4, <1>t, ConstantsAssumption DEF RestoreFails, Fault, CacheInv, CacheAccounting, WorkOnReady, TypeOK
<1>5. ASSUME NEW e \in Events, Proceed(e) PROVE CacheInv'
  <2>1. TypeOK'
    BY <1>5, <1>t DEF Proceed, TypeOK, Phases, cache
  <2>2. saga = "ready" => Participants' = Participants
    BY <1>5, <1>t, Stays DEF Proceed, Using
  <2>3. WorkOnReady'
    BY <1>5, <1>t DEF Proceed, CacheInv, WorkOnReady, TypeOK, cache
  <2>4. QED
    BY <1>5, <2>1, <2>2, <2>3 DEF CacheInv, CacheAccounting, Participants, Proceed, cache
<1>6. ASSUME NEW e \in Events, Acquire(e) PROVE CacheInv'
  <2>1. TypeOK'
    BY <1>6, <1>t DEF Acquire, TypeOK, Phases, cache
  <2>2. Participants' = Participants
    BY <1>6, <1>t, Stays DEF Acquire, Using
  <2>3. WorkOnReady'
    BY <1>6, <1>t DEF Acquire, CacheInv, WorkOnReady, TypeOK, cache
  <2>4. QED
    BY <1>6, <2>1, <2>2, <2>3 DEF CacheInv, CacheAccounting, Participants, Acquire, cache
<1>7. ASSUME NEW e \in Events, Handle(e) PROVE CacheInv'
  <2>1. CASE CommandsOf[e] = 0
    <3>1. Leave(e, "handled", applied \cup {e}) /\ applied \cup {e} \in SUBSET Events
      BY <1>7, <2>1, <1>t DEF Handle, TypeOK
    <3>2. QED
      BY <1>7, <3>1, <1>t, LeaveCache DEF Handle, TypeOK
  <2>2. CASE CommandsOf[e] # 0
    <3>1. TypeOK'
      BY <1>7, <2>2, <1>t DEF Handle, TypeOK, Phases, cache
    <3>2. Participants' = Participants
      BY <1>7, <2>2, <1>t, Stays DEF Handle, Using
    <3>3. WorkOnReady'
      BY <1>7, <2>2, <1>t DEF Handle, CacheInv, WorkOnReady, TypeOK, cache
    <3>4. QED
      BY <1>7, <2>2, <3>1, <3>2, <3>3 DEF CacheInv, CacheAccounting, Participants, Handle, cache
  <2>3. QED
    BY <2>1, <2>2
<1>8. ASSUME NEW e \in Events, HandlerFails(e) PROVE CacheInv'
  BY <1>8, <1>t, LeaveCache DEF HandlerFails, Fault, TypeOK
<1>9. ASSUME NEW e \in Events, Send(e) PROVE CacheInv'
  <2>1. sent' \in [Commands -> Nat]
    BY <1>9, <1>t, InterruptedType DEF Send, Interrupted
  <2>2. CASE step < CommandsOf[e]
    BY <1>9, <2>1, <2>2, <1>t DEF Send, CacheInv, CacheAccounting, WorkOnReady, TypeOK, cache
  <2>3. CASE ~(step < CommandsOf[e])
    BY <1>9, <2>1, <2>3, <1>t, LeaveCache DEF Send, TypeOK
  <2>4. QED
    BY <2>2, <2>3
<1>10. ASSUME NEW e \in Events, SendFails(e) PROVE CacheInv'
  BY <1>10, <1>t, LeaveCache, InterruptedType DEF SendFails, Fault, TypeOK
<1>11. ASSUME NEW e \in Events, Settle(e) PROVE CacheInv'
  <2>1. TypeOK'
    BY <1>11, <1>t DEF Settle, TypeOK, Phases, cache
  <2>2. Participants' = Participants
    BY <1>11, <1>t, Stays DEF Settle, Using
  <2>3. WorkOnReady'
    BY <1>11, <1>t DEF Settle, CacheInv, WorkOnReady, TypeOK, cache
  <2>4. QED
    BY <1>11, <2>1, <2>2, <2>3 DEF CacheInv, CacheAccounting, Participants, Settle, cache
<1>12. CASE Crash
  <2>1. sent' \in [Commands -> Nat]
    BY <1>12, <1>t, InterruptedType DEF Crash, TypeOK
  <2>2. \A e \in Events : calls'[e] \in {"none", "queued"} \cup Settled
    BY <1>12 DEF Crash
  <2>3. TypeOK'
    BY <1>12, <1>t, <2>1 DEF Crash, TypeOK, Phases, Settled
  <2>4. Participants' = {}
    BY <2>2 DEF Participants, Using, Settled
  <2>5. Cardinality(Participants') = 0
    BY <2>4, FS_EmptySet
  <2>6. WorkOnReady'
    BY <2>2 DEF WorkOnReady, Settled
  <2>7. QED
    BY <1>12, <2>3, <2>5, <2>6 DEF CacheInv, CacheAccounting, Participants, Crash
<1>13. CASE UNCHANGED vars
  BY <1>13 DEF CacheInv, CacheAccounting, WorkOnReady, TypeOK, vars, cache
<1>14. QED
  BY <1>1, <1>2, <1>3, <1>4, <1>5, <1>6, <1>7, <1>8, <1>9, <1>10, <1>11, <1>12, <1>13 DEF Next, Call

LEMMA CacheInvariant == Spec => []CacheInv
<1>1. QED
  BY InitCache, NextCache, PTL DEF Spec

\* The variables keep their types.
THEOREM TypeCorrect == Spec => []TypeOK
<1>1. CacheInv => TypeOK
  BY DEF CacheInv
<1>2. QED
  BY <1>1, CacheInvariant, PTL

\* While no restore has failed, the cache has a saga as long as calls use it.
THEOREM EntriesCounted == Spec => []CacheAccounting
<1>1. CacheInv => CacheAccounting
  BY DEF CacheInv
<1>2. QED
  BY <1>1, CacheInvariant, PTL

-----------------------------------------------------------------------------
(* What a saga knows. Within a run of the process events are delivered in  *)
(* order, but for those settled ahead of others before it started; hence a *)
(* saga created for "base" has from its restore all that was handled       *)
(* before, and from its handlers the rest.                                 *)

Mutated == {"sending", "handled", "acked"}
Past    == Mutated \cup {"failed", "rejected"}

InOrder ==
  \A e \in Events : \A d \in 1..(e - 1) :
    /\ calls[e] # "none" => calls[d] # "none"
    /\ calls[e] \notin {"none", "queued"} /\ e \notin ahead => calls[d] \notin {"none", "queued"}

AheadSettled == \A d \in ahead : calls[d] \in Settled

OneAtATime ==
  \A d, e \in Events :
    calls[d] \in {"handling", "sending"} /\ calls[e] \in {"handling", "sending"} => d = e

Created ==
  saga \in {"pending", "ready"} =>
    /\ base \in Events \ ahead
    /\ calls[base] \notin {"none", "queued"}
    /\ \A e \in Events : calls[e] \in Using => e >= base
    /\ \A d \in Events \ ahead : calls[d] \in Mutated => d < base \/ (saga = "ready" /\ d \in applied)

Informed ==
  saga = "ready" =>
    /\ \A d \in 1..(base - 1) : d \in applied
    /\ \A d \in applied : d < base \/ calls[d] \in Past

OrderInv == InOrder /\ AheadSettled /\ OneAtATime
StateInv == Created /\ Informed

\* A step of a call moves it on, never back to the queue, and nothing else.
LEMMA Moves ==
  ASSUME TypeOK, NEW e \in Events, Call(e)
  PROVE  /\ UNCHANGED ahead
         /\ \E to \in Phases \ {"none", "queued"} :
              /\ calls' = [calls EXCEPT ![e] = to]
              /\ to \in {"handling", "sending"} =>
                   calls[e] \in {"handling", "sending"} \/ ~Locked
         /\ calls[e] \notin Settled \cup {"none"}
         /\ calls[e] = "queued" => \A d \in Events : calls[d] = "queued" => e <= d
<1>1. CASE Deliver(e)
  <2>1. "restoring" \in Phases \ {"none", "queued"}
    BY DEF Phases
  <2>2. QED
    BY <1>1, <2>1 DEF Deliver, Settled
<1>2. CASE Proceed(e)
  <2> DEFINE to == IF saga = "ready" THEN "waiting" ELSE "failed"
  <2>1. to \in Phases \ {"none", "queued", "handling", "sending"}
    BY DEF Phases
  <2>2. calls' = [calls EXCEPT ![e] = to]
    BY <1>2 DEF Proceed
  <2>3. QED
    BY <1>2, <2>1, <2>2 DEF Proceed, Settled
<1>3. CASE Acquire(e)
  BY <1>3 DEF Acquire, Phases, Settled
<1>4. CASE Handle(e)
  BY <1>4 DEF Handle, Leave, Phases, Settled
<1>5. CASE HandlerFails(e)
  BY <1>5 DEF HandlerFails, Leave, Phases, Settled
<1>6. CASE Send(e)
  <2>1. CASE step < CommandsOf[e]
    <3>1. calls' = [calls EXCEPT ![e] = "sending"]
      BY <1>6, <2>1 DEF Send, TypeOK
    <3>2. QED
      BY <1>6, <3>1 DEF Send, Phases, Settled
  <2>2. CASE ~(step < CommandsOf[e])
    BY <1>6, <2>2 DEF Send, Leave, Phases, Settled
  <2>3. QED
    BY <2>1, <2>2
<1>7. CASE SendFails(e)
  BY <1>7 DEF SendFails, Leave, Phases, Settled
<1>8. CASE Settle(e)
  <2> DEFINE to == IF calls[e] = "handled" THEN "acked" ELSE "rejected"
  <2>1. to \in Phases \ {"none", "queued", "handling", "sending"}
    BY DEF Phases
  <2>2. calls' = [calls EXCEPT ![e] = to]
    BY <1>8 DEF Settle
  <2>3. QED
    BY <1>8, <2>1, <2>2 DEF Settle, Settled
<1>9. QED
  BY <1>1, <1>2, <1>3, <1>4, <1>5, <1>6, <1>7, <1>8 DEF Call

LEMMA NextOrder == TypeOK /\ OrderInv /\ [Next]_vars => OrderInv'
<1> SUFFICES ASSUME TypeOK, OrderInv, [Next]_vars PROVE OrderInv'
  OBVIOUS
<1> USE ConstantsAssumption
<1>1. ASSUME NEW e \in Events, Store(e) PROVE OrderInv'
  <2>1. InOrder'
    BY <1>1 DEF Store, TypeOK, OrderInv, InOrder, AheadSettled, Settled, Events
  <2>2. AheadSettled' /\ OneAtATime'
    BY <1>1 DEF Store, TypeOK, OrderInv, AheadSettled, OneAtATime, Settled
  <2>3. QED
    BY <2>1, <2>2 DEF OrderInv
<1>2. ASSUME NEW e \in Events, Call(e) PROVE OrderInv'
  <2>1. PICK to \in Phases \ {"none", "queued"} :
          /\ calls' = [calls EXCEPT ![e] = to]
          /\ to \in {"handling", "sending"} => calls[e] \in {"handling", "sending"} \/ ~Locked
    BY <1>2, Moves
  <2>2. /\ UNCHANGED ahead
        /\ calls[e] \notin Settled \cup {"none"}
        /\ calls[e] = "queued" => \A d \in Events : calls[d] = "queued" => e <= d
    BY <1>2, Moves
  <2>3. e \notin ahead
    BY <2>2 DEF OrderInv, AheadSettled
  <2>4. InOrder'
    BY <2>1, <2>2, <2>3 DEF TypeOK, OrderInv, InOrder, Events
  <2>5. AheadSettled'
    BY <2>1, <2>2, <2>3 DEF TypeOK, OrderInv, AheadSettled
  <2>6. OneAtATime'
    BY <2>1 DEF TypeOK, OrderInv, OneAtATime, Locked
  <2>7. QED
    BY <2>4, <2>5, <2>6 DEF OrderInv
<1>3. CASE Crash
  <2>1. InOrder'
    BY <1>3 DEF Crash, TypeOK, OrderInv, InOrder, Settled, Events
  <2>2. AheadSettled'
    BY <1>3 DEF Crash, TypeOK, AheadSettled, Settled
  <2>3. OneAtATime'
    BY <1>3 DEF Crash, TypeOK, OneAtATime, Settled
  <2>4. QED
    BY <2>1, <2>2, <2>3 DEF OrderInv
<1>4. CASE Restored \/ RestoreFails \/ UNCHANGED vars
  BY <1>4 DEF Restored, RestoreFails, vars, OrderInv, InOrder, AheadSettled, OneAtATime
<1>5. QED
  BY <1>1, <1>2, <1>3, <1>4 DEF Next

\* A call that uses the saga moves on: what the saga knows is right as before.
LEMMA KeepsState ==
  ASSUME TypeOK, StateInv, NEW e \in Events, NEW to \in Phases \ {"none", "queued"},
         calls' = [calls EXCEPT ![e] = to],
         UNCHANGED <<saga, base, ahead>>,
         applied \subseteq applied', applied' \subseteq applied \cup {e},
         to \in Using => calls[e] \in Using,
         calls[e] \in Past => to \in Past,
         e \in applied' => e \in applied \/ to \in Past,
         to \in Mutated => calls[e] \in Mutated \/ (saga = "ready" /\ e \in applied')
  PROVE  StateInv'
<1> USE ConstantsAssumption
<1>1. Created'
  BY DEF StateInv, Created, TypeOK
<1>2. Informed'
  BY DEF StateInv, Informed, TypeOK
<1>3. QED
  BY <1>1, <1>2 DEF StateInv

LEMMA LeaveState ==
  ASSUME CacheInv, StateInv, NEW e \in Events, calls[e] \in {"handling", "sending"},
         NEW outcome \in {"handled", "failed"}, NEW state,
         Leave(e, outcome, state), UNCHANGED ahead,
         applied \subseteq state, state \subseteq applied \cup {e},
         outcome = "handled" => calls[e] = "sending" \/ e \in state
  PROVE  StateInv'
<1>1. CASE users = 1
  BY <1>1 DEF Leave, StateInv, Created, Informed
<1>2. CASE users # 1
  <2>1. saga = "ready" /\ TypeOK
    BY DEF CacheInv, WorkOnReady
  <2>2. UNCHANGED <<saga, base>> /\ applied' = state /\ calls' = [calls EXCEPT ![e] = outcome]
    BY <1>2 DEF Leave
  <2>3. outcome \in Phases \ {"none", "queued"} /\ outcome \notin Using /\ outcome \in Past
    BY DEF Phases, Using, Past, Mutated
  <2>4. outcome \in Mutated => calls[e] \in Mutated \/ e \in applied'
    BY <2>2 DEF Mutated
  <2>5. QED
    BY <2>1, <2>2, <2>3, <2>4, KeepsState
<1>3. QED
  BY <1>1, <1>2

LEMMA NextState ==
  ASSUME OriginRestored, CacheInv, CacheInv', OrderInv, StateInv, [Next]_vars
  PROVE  StateInv'
<1> USE ConstantsAssumption
<1>t. TypeOK
  BY DEF CacheInv
<1>1. ASSUME NEW e \in Events, Store(e) PROVE StateInv'
  <2>1. Created'
    BY <1>1, <1>t DEF Store, StateInv, Created, Using, Mutated, TypeOK, cache
  <2>2. Informed'
    BY <1>1, <1>t DEF Store, StateInv, Informed, Past, Mutated, TypeOK, cache
  <2>3. QED
    BY <2>1, <2>2 DEF StateInv
<1>2. ASSUME NEW e \in Events, Deliver(e) PROVE StateInv'
  <2>1. /\ calls[e] = "queued" /\ calls' = [calls EXCEPT ![e] = "restoring"]
        /\ e \notin ahead /\ UNCHANGED <<applied, ahead>>
    BY <1>2 DEF Deliver, OrderInv, AheadSettled, Settled
  <2>2. CASE saga = "none"
    <3>1. saga' = "pending" /\ base' = e
      BY <1>2, <2>2 DEF Deliver
    <3>2. \A d \in Events : calls[d] \notin Using
      BY <2>2, <1>t, ParticipantsCount DEF CacheInv, CacheAccounting, Participants
    <3>3. \A d \in Events \ ahead : calls[d] \in Mutated => d < e
      BY <2>1, <1>t DEF OrderInv, InOrder, Mutated, Events, TypeOK
    <3>4. Created'
      BY <2>1, <3>1, <3>2, <3>3, <1>t DEF Created, Mutated, Events, TypeOK
    <3>5. QED
      BY <3>1, <3>4 DEF StateInv, Informed
  <2>3. CASE saga # "none"
    <3>1. UNCHANGED <<saga, base>>
      BY <1>2, <2>3 DEF Deliver
    <3>2. saga \in {"pending", "ready"} => e >= base
      BY <2>1, <1>t DEF OrderInv, InOrder, StateInv, Created, Events, TypeOK
    <3>3. Created'
      BY <2>1, <3>1, <3>2, <1>t DEF StateInv, Created, Mutated, TypeOK
    <3>4. Informed'
      BY <2>1, <3>1, <1>t DEF StateInv, Informed, Past, Mutated, TypeOK
    <3>5. QED
      BY <3>3, <3>4 DEF StateInv
  <2>4. QED
    BY <2>2, <2>3
<1>3. CASE Restored
  <2>1. applied' = 1..(base - 1) /\ saga = "pending" /\ saga' = "ready" /\ UNCHANGED <<calls, base, ahead>>
    BY <1>3 DEF Restored, Before, WithOrigin
  <2>2. \A d \in Events \ ahead : calls[d] \in Mutated => d \in applied'
    BY <2>1, <1>t DEF StateInv, Created, Events, TypeOK
  <2>3. Created'
    BY <2>1, <2>2 DEF StateInv, Created
  <2>4. Informed'
    BY <2>1, <1>t DEF Informed, Events, TypeOK
  <2>5. QED
    BY <2>3, <2>4 DEF StateInv
<1>4. CASE RestoreFails
  BY <1>4 DEF RestoreFails, StateInv, Created, Informed
<1>5. ASSUME NEW e \in Events, Proceed(e) PROVE StateInv'
  <2> DEFINE to == IF saga = "ready" THEN "waiting" ELSE "failed"
  <2>1. to \in Phases \ {"none", "queued"} /\ to \notin Mutated
    BY DEF Phases, Mutated
  <2>2. calls' = [calls EXCEPT ![e] = to] /\ calls[e] \in Using \ Past
        /\ UNCHANGED <<saga, base, applied, ahead>>
    BY <1>5 DEF Proceed, cache, Using, Past, Mutated
  <2> HIDE DEF to
  <2>3. QED
    BY <2>1, <2>2, <1>t, KeepsState
<1>6. ASSUME NEW e \in Events, Acquire(e) PROVE StateInv'
  <2>1. /\ calls' = [calls EXCEPT ![e] = "handling"] /\ calls[e] \in Using \ Past
        /\ UNCHANGED <<saga, base, applied, ahead>>
    BY <1>6 DEF Acquire, cache, Using, Past, Mutated
  <2>2. "handling" \in Phases \ {"none", "queued"} /\ "handling" \notin Mutated
    BY DEF Phases, Mutated
  <2>3. QED
    BY <2>1, <2>2, <1>t, KeepsState
<1>7. ASSUME NEW e \in Events, Handle(e) PROVE StateInv'
  <2>1. calls[e] = "handling" /\ UNCHANGED ahead
    BY <1>7 DEF Handle
  <2>2. CASE CommandsOf[e] = 0
    <3>1. Leave(e, "handled", applied \cup {e})
      BY <1>7, <2>2 DEF Handle
    <3>2. QED
      BY <2>1, <3>1, LeaveState
  <2>3. CASE CommandsOf[e] # 0
    <3>1. /\ calls' = [calls EXCEPT ![e] = "sending"] /\ applied' = applied \cup {e}
          /\ UNCHANGED <<saga, base>>
      BY <1>7, <2>3 DEF Handle, cache
    <3>2. "sending" \in Phases \ {"none", "queued"} /\ "sending" \in Past /\ "handling" \in Using
      BY DEF Phases, Past, Mutated, Using
    <3>3. saga = "ready"
      BY <2>1 DEF CacheInv, WorkOnReady
    <3>4. QED
      BY <2>1, <3>1, <3>2, <3>3, <1>t, KeepsState
  <2>4. QED
    BY <2>2, <2>3
<1>8. ASSUME NEW e \in Events, HandlerFails(e) PROVE StateInv'
  BY <1>8, LeaveState DEF HandlerFails
<1>9. ASSUME NEW e \in Events, Send(e) PROVE StateInv'
  <2>1. CASE step < CommandsOf[e]
    BY <1>9, <2>1 DEF Send, cache, StateInv, Created, Informed
  <2>2. CASE ~(step < CommandsOf[e])
    BY <1>9, <2>2, LeaveState DEF Send
  <2>3. QED
    BY <2>1, <2>2
<1>10. ASSUME NEW e \in Events, SendFails(e) PROVE StateInv'
  BY <1>10, LeaveState DEF SendFails
<1>11. ASSUME NEW e \in Events, Settle(e) PROVE StateInv'
  <2> DEFINE to == IF calls[e] = "handled" THEN "acked" ELSE "rejected"
  <2>1. /\ to \in Phases \ {"none", "queued"} /\ to \notin Using /\ to \in Past
        /\ to \in Mutated => calls[e] \in Mutated
    BY <1>11 DEF Settle, Phases, Mutated, Past, Using
  <2>2. calls' = [calls EXCEPT ![e] = to] /\ UNCHANGED <<saga, base, applied, ahead>>
    BY <1>11 DEF Settle, cache
  <2> HIDE DEF to
  <2>3. QED
    BY <2>1, <2>2, <1>t, KeepsState
<1>12. CASE Crash
  BY <1>12 DEF Crash, StateInv, Created, Informed
<1>13. CASE UNCHANGED vars
  BY <1>13 DEF vars, cache, StateInv, Created, Informed
<1>14. QED
  BY <1>1, <1>2, <1>3, <1>4, <1>5, <1>6, <1>7, <1>8, <1>9, <1>10, <1>11, <1>12, <1>13 DEF Next, Call

KnowledgeInv == CacheInv /\ OrderInv /\ StateInv

LEMMA StateSeen == KnowledgeInv => SeesPreviousState
<1> SUFFICES ASSUME KnowledgeInv, NEW e \in Events, calls[e] = "handling"
             PROVE  /\ e \notin applied
                    /\ \A d \in 1..(e - 1) : d \in applied \/ Excused(d)
  BY DEF SeesPreviousState
<1> USE ConstantsAssumption
<1>1. /\ TypeOK /\ saga = "ready" /\ e \notin ahead /\ e >= base
      /\ base \in Events
  BY DEF KnowledgeInv, CacheInv, WorkOnReady, OrderInv, AheadSettled, Settled, StateInv, Created, Using
<1>2. e \notin applied
  BY <1>1 DEF KnowledgeInv, StateInv, Informed, Past, Mutated, Events
<1>3. ASSUME NEW d \in 1..(e - 1) PROVE d \in applied \/ Excused(d)
  <2>1. d \in Events /\ d < e
    BY DEF Events
  <2>2. calls[d] \in Phases \ {"none", "queued", "handling"}
    BY <1>1, <2>1 DEF KnowledgeInv, OrderInv, InOrder, OneAtATime, TypeOK, Events
  <2>3. CASE calls[d] \in Mutated /\ d \notin ahead
    BY <1>1, <2>1, <2>3 DEF KnowledgeInv, StateInv, Created, Informed, Events
  <2>4. CASE calls[d] \in {"restoring", "waiting", "failed", "rejected"} \/ d \in ahead
    BY <2>4 DEF Excused
  <2>5. QED
    BY <2>2, <2>3, <2>4 DEF Phases, Mutated
<1>4. QED
  BY <1>2, <1>3

\* Where getSagaEvents yields the event that started the saga, handlers see the state
\* that the events before have left, but for those excused.
THEOREM HandlersSeeState == OriginRestored => (Spec => []SeesPreviousState)
<1> SUFFICES ASSUME OriginRestored PROVE Spec => []SeesPreviousState
  OBVIOUS
<1>1. Init => KnowledgeInv
  <2>1. Init => OrderInv
    BY DEF Init, OrderInv, InOrder, AheadSettled, OneAtATime, Events
  <2>2. Init => StateInv
    BY DEF Init, StateInv, Created, Informed
  <2>3. QED
    BY <2>1, <2>2, InitCache DEF KnowledgeInv
<1>2. KnowledgeInv /\ [Next]_vars => KnowledgeInv'
  BY NextCache, NextOrder, NextState DEF KnowledgeInv, CacheInv
<1>3. QED
  BY <1>1, <1>2, StateSeen, PTL DEF Spec

-----------------------------------------------------------------------------
(* What has been sent.                                                     *)

Fresh == {"none", "queued", "restoring", "waiting", "handling"}

\* The commands of an event are sent in their order, and again from the first one only
\* after a restart.
SentOf(e) ==
  \A k \in 1..CommandsOf[e] :
    /\ sent[<<e, k>>] <= 1 + restarts
    /\ calls[e] \in Fresh => sent[<<e, k>>] <= restarts
    /\ calls[e] = "sending" /\ step <= k => sent[<<e, k>>] <= restarts
    /\ calls[e] \in {"handled", "acked"} => sent[<<e, k>>] > 0
    /\ \A j \in 1..k : sent[<<e, j>>] >= sent[<<e, k>>]
    /\ calls[e] = "sending" /\ step <= k => \A j \in 1..(step - 1) : sent[<<e, j>>] > sent[<<e, k>>]

StepInRange == \A e \in Events : calls[e] = "sending" => step \in 1..CommandsOf[e]

SentInv == StepInRange /\ \A e \in Events : SentOf(e)

LEMMA CommandsType ==
  ASSUME TypeOK, NEW e \in Events
  PROVE  /\ CommandsOf[e] \in Nat
         /\ \A k \in 1..CommandsOf[e] : <<e, k>> \in Commands /\ sent[<<e, k>>] \in Nat
<1>1. CommandsOf[e] \in Nat
  BY ConstantsAssumption
<1>2. \A k \in 1..CommandsOf[e] : <<e, k>> \in Commands
  BY DEF Commands
<1>3. QED
  BY <1>1, <1>2 DEF TypeOK

\* Nothing is sent, and the step is of no other call that is sending.
LEMMA NotSending ==
  ASSUME TypeOK, SentInv, NEW e \in Events, NEW to, calls' = [calls EXCEPT ![e] = to],
         UNCHANGED <<sent, restarts>>,
         step' = step \/ \A d \in Events \ {e} : calls[d] # "sending",
         SentOf(e)', to = "sending" => step' \in 1..CommandsOf[e]
  PROVE  SentInv'
<1>1. ASSUME NEW d \in Events \ {e} PROVE SentOf(d)'
  BY DEF SentInv, SentOf, TypeOK
<1>2. StepInRange'
  BY DEF SentInv, StepInRange, TypeOK
<1>3. QED
  BY <1>1, <1>2 DEF SentInv

\* The command of the step reaches the bus.
LEMMA Sending ==
  ASSUME TypeOK, OneAtATime, SentInv, NEW e \in Events, calls[e] = "sending",
         sent' = [sent EXCEPT ![<<e, step>>] = @ + 1], UNCHANGED restarts
  PROVE  /\ \A d \in Events \ {e} : \A k \in 1..CommandsOf[d] : sent'[<<d, k>>] = sent[<<d, k>>]
         /\ \A k \in 1..CommandsOf[e] :
              /\ sent'[<<e, k>>] = IF k = step THEN sent[<<e, k>>] + 1 ELSE sent[<<e, k>>]
              /\ sent'[<<e, k>>] <= 1 + restarts
              /\ k > step => sent'[<<e, k>>] <= restarts
              /\ k <= step => sent'[<<e, k>>] > 0
              /\ \A j \in 1..k : sent'[<<e, j>>] >= sent'[<<e, k>>]
              /\ k > step => \A j \in 1..step : sent'[<<e, j>>] > sent'[<<e, k>>]
<1>1. step \in 1..CommandsOf[e] /\ CommandsOf[e] \in Nat /\ restarts \in Nat
  BY CommandsType DEF SentInv, StepInRange, TypeOK
<1>2. \A d \in Events \ {e} : \A k \in 1..CommandsOf[d] : sent'[<<d, k>>] = sent[<<d, k>>]
  BY CommandsType DEF TypeOK
<1>3. \A k \in 1..CommandsOf[e] :
        /\ sent[<<e, k>>] \in Nat
        /\ sent'[<<e, k>>] = IF k = step THEN sent[<<e, k>>] + 1 ELSE sent[<<e, k>>]
  BY CommandsType DEF TypeOK
<1>4. SentOf(e)
  BY DEF SentInv
<1>5. ASSUME NEW k \in 1..CommandsOf[e]
      PROVE  /\ sent'[<<e, k>>] <= 1 + restarts
             /\ k > step => sent'[<<e, k>>] <= restarts
             /\ \A j \in 1..k : sent'[<<e, j>>] >= sent'[<<e, k>>]
             /\ k > step => \A j \in 1..step : sent'[<<e, j>>] > sent'[<<e, k>>]
  BY <1>1, <1>3, <1>4 DEF SentOf
<1>6. ASSUME NEW k \in 1..CommandsOf[e], k <= step PROVE sent'[<<e, k>>] > 0
  BY <1>1, <1>3, <1>4, <1>6 DEF SentOf
<1>7. QED
  BY <1>2, <1>3, <1>5, <1>6
\* A call ends: its outcome fits what it has sent.
LEMMA LeaveSent ==
  ASSUME TypeOK, OneAtATime, SentInv, NEW e \in Events, calls[e] \in {"handling", "sending"},
         NEW outcome \in {"handled", "failed"},
         calls' = [calls EXCEPT ![e] = outcome], UNCHANGED restarts,
         \/ /\ UNCHANGED sent
            /\ outcome = "failed" \/ CommandsOf[e] = 0
         \/ /\ calls[e] = "sending" /\ sent' = [sent EXCEPT ![<<e, step>>] = @ + 1]
            /\ outcome = "failed" \/ step = CommandsOf[e]
  PROVE  SentInv'
<1>1. \A d \in Events \ {e} : calls'[d] = calls[d] /\ calls[d] # "sending"
  BY DEF OneAtATime, TypeOK
<1>2. ASSUME NEW d \in Events \ {e} PROVE SentOf(d)'
  <2>1. \A k \in 1..CommandsOf[d] : sent'[<<d, k>>] = sent[<<d, k>>]
    BY Sending
  <2>2. \A k \in 1..CommandsOf[d] : \A j \in 1..k : j \in 1..CommandsOf[d]
    BY CommandsType
  <2>3. QED
    BY <1>1, <2>1, <2>2 DEF SentInv, SentOf
<1>3. SentOf(e)'
  <2>1. calls'[e] = outcome /\ CommandsOf[e] \in Nat
    BY CommandsType DEF TypeOK
  <2>2. CASE UNCHANGED sent /\ (outcome = "failed" \/ CommandsOf[e] = 0)
    BY <2>1, <2>2 DEF SentInv, SentOf, Fresh
  <2>3. CASE /\ calls[e] = "sending" /\ sent' = [sent EXCEPT ![<<e, step>>] = @ + 1]
             /\ outcome = "failed" \/ step = CommandsOf[e]
    <3>1. \A k \in 1..CommandsOf[e] :
            /\ sent'[<<e, k>>] <= 1 + restarts
            /\ k <= step => sent'[<<e, k>>] > 0
            /\ \A j \in 1..k : sent'[<<e, j>>] >= sent'[<<e, k>>]
      BY <2>3, Sending
    <3>2. outcome = "handled" => \A k \in 1..CommandsOf[e] : k <= step
      BY <2>1, <2>3
    <3>3. QED
      BY <2>1, <3>1, <3>2 DEF SentOf, Fresh
  <2>4. QED
    BY <2>2, <2>3
<1>4. StepInRange'
  BY <1>1 DEF StepInRange, TypeOK
<1>5. QED
  BY <1>2, <1>3, <1>4 DEF SentInv

LEMMA CrashSent == ASSUME TypeOK, OneAtATime, SentInv, Crash PROVE SentInv'
<1>1. /\ restarts' = restarts + 1 /\ restarts \in Nat
      /\ \A e \in Events : calls'[e] \in {"none", "queued"} \cup Settled
      /\ \A e \in Events : calls'[e] = "acked" => calls[e] = "acked"
  BY DEF Crash, TypeOK, Settled
<1>2. ASSUME NEW e \in Events PROVE SentOf(e)'
  <2>1. CommandsOf[e] \in Nat /\ \A k \in 1..CommandsOf[e] : sent[<<e, k>>] \in Nat
    BY CommandsType
  <2>2. CASE sent' = sent
    BY <1>1, <2>1, <2>2 DEF SentInv, SentOf, Settled
  <2>3. ASSUME NEW d \in Events, calls[d] = "sending", Interrupted(d) PROVE SentOf(e)'
    <3>1. SUFFICES ASSUME sent' = [sent EXCEPT ![<<d, step>>] = @ + 1] PROVE SentOf(e)'
      BY <2>2, <2>3 DEF Interrupted
    <3>2. CASE d = e
      <4>1. \A k \in 1..CommandsOf[e] :
              /\ sent'[<<e, k>>] = IF k = step THEN sent[<<e, k>>] + 1 ELSE sent[<<e, k>>]
              /\ k = step => sent[<<e, k>>] <= restarts
              /\ sent[<<e, k>>] <= 1 + restarts
              /\ \A j \in 1..k : sent[<<e, j>>] >= sent[<<e, k>>]
              /\ k = step => \A j \in 1..(k - 1) : sent[<<e, j>>] > sent[<<e, k>>]
        BY <2>1, <2>3, <3>1, <3>2, CommandsType DEF SentInv, SentOf, TypeOK
      <4>2. calls'[e] # "acked" /\ calls'[e] # "sending"
        BY <1>1, <2>3, <3>2 DEF Settled
      <4>3. \A k \in 1..CommandsOf[e] : \A j \in 1..k : j \in 1..CommandsOf[e]
        BY <2>1
      <4>4. QED
        BY <1>1, <2>1, <4>1, <4>2, <4>3 DEF SentOf, Settled
    <3>3. CASE d # e
      <4>1. \A k \in 1..CommandsOf[e] : sent'[<<e, k>>] = sent[<<e, k>>]
        BY <2>3, <3>1, <3>3, CommandsType DEF TypeOK
      <4>2. \A k \in 1..CommandsOf[e] : \A j \in 1..k : j \in 1..CommandsOf[e]
        BY <2>1
      <4>3. QED
        BY <1>1, <2>1, <4>1, <4>2 DEF SentInv, SentOf, Settled
    <3>4. QED
      BY <3>2, <3>3
  <2>4. QED
    BY <2>2, <2>3 DEF Crash
<1>3. StepInRange'
  BY <1>1 DEF StepInRange, Settled
<1>4. QED
  BY <1>2, <1>3 DEF SentInv

LEMMA NextSent == TypeOK /\ OneAtATime /\ SentInv /\ [Next]_vars => SentInv'
<1> SUFFICES ASSUME TypeOK, OneAtATime, SentInv, [Next]_vars PROVE SentInv'
  OBVIOUS
<1>1. ASSUME NEW e \in Events, NEW to, calls' = [calls EXCEPT ![e] = to],
             calls[e] \in Fresh, to \in Fresh \cup {"failed"}, UNCHANGED <<sent, step, restarts>>
      PROVE  SentInv'
  <2>1. SentOf(e)'
    BY <1>1 DEF SentInv, SentOf, TypeOK, Fresh
  <2>2. QED
    BY <1>1, <2>1, NotSending DEF Fresh
<1>2. ASSUME NEW e \in Events, Store(e) \/ Deliver(e) \/ Proceed(e) \/ Acquire(e) PROVE SentInv'
  BY <1>1, <1>2 DEF Store, Deliver, Proceed, Acquire, Fresh
<1>3. ASSUME NEW e \in Events, Handle(e) PROVE SentInv'
  <2>1. CASE CommandsOf[e] = 0
    BY <1>3, <2>1, LeaveSent DEF Handle, Leave
  <2>2. CASE CommandsOf[e] # 0
    <3>1. calls' = [calls EXCEPT ![e] = "sending"] /\ step' = 1 /\ UNCHANGED <<sent, restarts>>
      BY <1>3, <2>2 DEF Handle
    <3>2. calls[e] = "handling" /\ \A d \in Events \ {e} : calls[d] # "sending"
      BY <1>3 DEF Handle, OneAtATime
    <3>3. 1 \in 1..CommandsOf[e]
      BY <2>2, CommandsType
    <3>4. SentOf(e)'
      BY <3>1, <3>2 DEF SentInv, SentOf, TypeOK, Fresh
    <3>5. QED
      BY <3>1, <3>2, <3>3, <3>4, NotSending
  <2>3. QED
    BY <2>1, <2>2
<1>4. ASSUME NEW e \in Events, HandlerFails(e) PROVE SentInv'
  BY <1>4, LeaveSent DEF HandlerFails, Leave
<1>5. ASSUME NEW e \in Events, Send(e) PROVE SentInv'
  <2>1. step \in 1..CommandsOf[e] /\ CommandsOf[e] \in Nat
    BY <1>5, CommandsType DEF Send, SentInv, StepInRange
  <2>2. CASE step < CommandsOf[e]
    <3>1. /\ calls[e] = "sending" /\ UNCHANGED <<calls, restarts>> /\ step' = step + 1
          /\ sent' = [sent EXCEPT ![<<e, step>>] = @ + 1]
      BY <1>5, <2>2 DEF Send
    <3>2. \A d \in Events \ {e} : calls[d] # "sending"
      BY <3>1 DEF OneAtATime
    <3>3. ASSUME NEW d \in Events \ {e} PROVE SentOf(d)'
      <4>1. \A k \in 1..CommandsOf[d] : sent'[<<d, k>>] = sent[<<d, k>>]
        BY <3>1, Sending
      <4>2. \A k \in 1..CommandsOf[d] : \A j \in 1..k : j \in 1..CommandsOf[d]
        BY CommandsType
      <4>3. QED
        BY <3>1, <3>2, <4>1, <4>2 DEF SentInv, SentOf
    <3>4. SentOf(e)'
      <4>1. \A k \in 1..CommandsOf[e] :
              /\ sent'[<<e, k>>] <= 1 + restarts
              /\ k > step => sent'[<<e, k>>] <= restarts
              /\ \A j \in 1..k : sent'[<<e, j>>] >= sent'[<<e, k>>]
              /\ k > step => \A j \in 1..step : sent'[<<e, j>>] > sent'[<<e, k>>]
        BY <3>1, Sending
      <4>2. step' - 1 = step /\ \A k \in 1..CommandsOf[e] : step' <= k => k > step
        BY <2>1, <3>1
      <4>3. QED
        BY <3>1, <4>1, <4>2 DEF SentOf, Fresh
    <3>5. StepInRange'
      BY <2>1, <2>2, <3>1, <3>2 DEF StepInRange
    <3>6. QED
      BY <3>3, <3>4, <3>5 DEF SentInv
  <2>3. CASE ~(step < CommandsOf[e])
    <3>1. step = CommandsOf[e]
      BY <2>1, <2>3
    <3>2. QED
      BY <1>5, <2>3, <3>1, LeaveSent DEF Send, Leave
  <2>4. QED
    BY <2>2, <2>3
<1>6. ASSUME NEW e \in Events, SendFails(e) PROVE SentInv'
  BY <1>6, LeaveSent DEF SendFails, Leave, Interrupted
<1>7. ASSUME NEW e \in Events, Settle(e) PROVE SentInv'
  <2> DEFINE to == IF calls[e] = "handled" THEN "acked" ELSE "rejected"
  <2>1. calls' = [calls EXCEPT ![e] = to] /\ UNCHANGED <<sent, step, restarts>>
    BY <1>7 DEF Settle
  <2>2. /\ calls'[e] = to /\ to \in {"acked", "rejected"}
        /\ to = "acked" => calls[e] = "handled"
    BY <1>7, <2>1 DEF Settle, TypeOK
  <2> HIDE DEF to
  <2>3. SentOf(e)'
    BY <2>1, <2>2 DEF SentInv, SentOf, Fresh
  <2>4. QED
    BY <2>1, <2>2, <2>3, NotSending
<1>8. CASE Restored \/ RestoreFails \/ UNCHANGED vars
  BY <1>8 DEF Restored, RestoreFails, vars, SentInv, SentOf, StepInRange
<1>9. CASE Crash
  BY <1>9, CrashSent
<1>10. QED
  BY <1>2, <1>3, <1>4, <1>5, <1>6, <1>7, <1>8, <1>9 DEF Next, Call

\* What is acknowledged has been sent, each command in its turn, and no more often than
\* the process was started.
THEOREM CommandsSent == Spec => []CommandsAccounted
<1> DEFINE Inv == TypeOK /\ OrderInv /\ SentInv
<1>1. Init => Inv
  <2>1. Init => OrderInv
    BY DEF Init, OrderInv, InOrder, AheadSettled, OneAtATime, Events
  <2>2. Init => SentInv
    <3> SUFFICES ASSUME Init PROVE SentInv
      OBVIOUS
    <3>1. TypeOK
      BY InitCache DEF CacheInv
    <3>2. \A e \in Events : calls[e] = "none" /\ \A k \in 1..CommandsOf[e] : sent[<<e, k>>] = 0
      BY <3>1, CommandsType DEF Init
    <3>3. \A e \in Events : \A k \in 1..CommandsOf[e] : \A j \in 1..k : j \in 1..CommandsOf[e]
      BY <3>1, CommandsType
    <3>4. restarts = 0
      BY DEF Init
    <3>5. QED
      BY <3>2, <3>3, <3>4 DEF SentInv, SentOf, StepInRange
  <2>3. QED
    BY <2>1, <2>2, InitCache DEF CacheInv
<1>2. Inv /\ CacheInv /\ [Next]_vars => Inv'
  BY NextCache, NextOrder, NextSent DEF OrderInv, CacheInv
<1>3. Inv => CommandsAccounted
  <2> SUFFICES ASSUME Inv, NEW e \in Events, NEW k \in 1..CommandsOf[e]
               PROVE  /\ calls[e] = "acked" => sent[<<e, k>>] > 0
                      /\ sent[<<e, k>>] <= 1 + restarts
                      /\ \A j \in 1..k : sent[<<e, j>>] >= sent[<<e, k>>]
    BY DEF CommandsAccounted, Commands
  <2>1. QED
    BY DEF SentInv, SentOf
<1>4. QED
  BY <1>1, <1>2, <1>3, CacheInvariant, PTL DEF Spec
=============================================================================
