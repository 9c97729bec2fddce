--------------------------- MODULE ProjectionProofs ---------------------------
(***************************************************************************)
(* Theorems about Projection, for any processes, events, crashes and errors *)
(* and each implementation of the lockers, and about WorkerProjection, for  *)
(* any number of events and failures and any size of the batches.           *)
(***************************************************************************)
EXTENDS Projection, FiniteSets, FiniteSetTheorems, SequenceTheorems, TLAPS

LEMMA InitType == Init => TypeOK
<1>. USE ConstantsAssumption
<1>. QED
  BY DEF Init, TypeOK, EventLock, Phase, Restoring, TaskState

\* A task is of an event.
LEMMA TaskEvent == \A t \in Tasks : t[1] \in Procs /\ t[2] \in Events
BY DEF Tasks

\* What a restore projects, or a task is given, is stored: the tasks that may record
\* their event as the checkpoint.
StoredInv ==
  /\ TypeOK
  /\ \A t \in Tasks : task[t] # "none" => t[2] <= stored

\* Each step keeps the types, and projects stored events only.
LEMMA StoredStep == StoredInv /\ [Next]_vars => StoredInv'
<1>. SUFFICES ASSUME StoredInv, [Next]_vars
              PROVE  StoredInv'
  OBVIOUS
<1>. USE ConstantsAssumption, TaskEvent
     DEF StoredInv, TypeOK, EventLock, Phase, Restoring, TaskState, Enter, Proceed,
         database, restores, bounds
<1>. DEFINE Given(t) == task[t] # "none" => t[2] <= stored
<1>1. CASE Store
  BY <1>1 DEF Store, Events
<1>2. ASSUME NEW p \in Procs, Start(p) PROVE StoredInv'
  BY <1>2 DEF Start
<1>3. ASSUME NEW p \in Procs, Crash(p) PROVE StoredInv'
  BY <1>3 DEF Crash
<1>4. ASSUME NEW p \in Procs, NEW e \in Events, Deliver(p, e) PROVE StoredInv'
  <2>. DEFINE t == <<p, e, "live">>
  <2>1. t \in Tasks /\ t[2] = e
    BY DEF Tasks
  <2>. HIDE DEF t
  <2>2. e <= stored /\ task' = [task EXCEPT ![t] = "waiting"]
    BY <1>4 DEF Deliver, t
  <2>. QED
    BY <1>4, <2>1, <2>2 DEF Deliver
<1>5. ASSUME NEW e \in Events, Expire(e) PROVE StoredInv'
  BY <1>5 DEF Expire
<1>6. ASSUME NEW t \in Tasks, Step(t) PROVE StoredInv'
  <2>1. CASE Begin(t)
    BY <2>1 DEF Begin, TryMark
  <2>2. CASE Handle(t)
    BY <2>2 DEF Handle
  <2>3. CASE Mark(t)
    BY <2>3 DEF Mark
  <2>4. CASE Record(t)
    <3>1. t[2] \in Nat /\ t[2] <= stored
      BY <2>4 DEF Record, Events
    <3>2. checkpoint' \in 0..stored'
      BY <2>4, <3>1 DEF Record
    <3>. QED
      BY <2>4, <3>2 DEF Record
  <2>5. CASE MarkFails(t)
    BY <2>5 DEF MarkFails, Throw
  <2>6. CASE Fails(t)
    BY <2>6 DEF Fails, Throw
  <2>. QED
    BY <1>6, <2>1, <2>2, <2>3, <2>4, <2>5, <2>6 DEF Step
<1>7. ASSUME NEW p \in Procs, Restore(p) PROVE StoredInv'
  <2>1. CASE LockView(p)
    BY <2>1 DEF LockView
  <2>2. CASE ReadCheckpoint(p)
    BY <2>2 DEF ReadCheckpoint
  <2>3. CASE Query(p)
    BY <2>3 DEF Query
  <2>4. CASE EndRestore(p)
    BY <2>4 DEF EndRestore
  <2>5. CASE RestoreFails(p)
    BY <2>5 DEF RestoreFails
  <2>6. ASSUME NEW e \in Events, RestoreNext(p, e) PROVE StoredInv'
    <3>. DEFINE t == <<p, e, "restore">>
    <3>1. t \in Tasks /\ t[2] = e
      BY DEF Tasks
    <3>2. e <= stored
      BY <2>6 DEF RestoreNext, ToRestore
    <3>3. TryMark(t)
      BY <2>6 DEF RestoreNext
    <3>4. UNCHANGED <<stored, checkpoint, expiries, phase, from, upTo, applied, crashes, errors>>
      BY <2>6 DEF RestoreNext
    <3>. HIDE DEF t
    <3>. QED
      BY <3>1, <3>2, <3>3, <3>4 DEF TryMark
  <2>. QED
    BY <1>7, <2>1, <2>2, <2>3, <2>4, <2>5, <2>6 DEF Restore
<1>8. CASE UNCHANGED vars
  BY <1>8 DEF vars
<1>. QED
  BY <1>1, <1>2, <1>3, <1>4, <1>5, <1>6, <1>7, <1>8 DEF Next

LEMMA StoredInvariant == Spec => []StoredInv
<1>1. Init => StoredInv
  BY InitType DEF Init, StoredInv
<1>. QED
  BY <1>1, StoredStep, PTL DEF Spec

\* The variables of the projections keep their types; the checkpoint is a stored event.
THEOREM TypeCorrect == Spec => []TypeOK
<1>1. StoredInv => TypeOK
  BY DEF StoredInv
<1>. QED
  BY <1>1, StoredInvariant, PTL
-----------------------------------------------------------------------------

\* An event whose handler has returned has taken effect; a task that ended had its
\* event projected, by itself or by another task, or found it locked.
Settled(e) == applied[e] > 0 \/ expiries[e] > 0 \/ eventLock[e] = "processing"

ProjectedInv ==
  /\ StoredInv
  /\ \A e \in Events : eventLock[e] = "processed" => applied[e] > 0
  /\ \A t \in Tasks : task[t] \in {"marking", "recording"} => applied[t[2]] > 0
  /\ \A t \in Tasks : task[t] = "done" => Settled(t[2])
  /\ \A e \in Events : eventLock[e] = "expired" => expiries[e] > 0
  /\ \A p \in Procs : phase[p] = "ready" => \A e \in ToRestore(p) : Restored(p, e)

LEMMA InitProjected == Init => ProjectedInv
<1>. SUFFICES ASSUME Init PROVE ProjectedInv
  OBVIOUS
<1>1. StoredInv
  BY InitType DEF Init, StoredInv
<1>. QED
  BY <1>1, TaskEvent DEF Init, ProjectedInv

\* tryMarkAsProjecting() of a task that has not begun.
LEMMA TryMarkStep ==
  ASSUME ProjectedInv, StoredInv', NEW t \in Tasks, task[t] \in {"none", "waiting"}, TryMark(t),
         UNCHANGED <<expiries, phase, from, upTo, applied>>
  PROVE  ProjectedInv'
<1>. USE ConstantsAssumption, TaskEvent DEF Proceed
<1>1. /\ task \in [Tasks -> TaskState]
      /\ eventLock \in [Events -> EventLock]
      /\ applied \in [Events -> Nat]
      /\ expiries \in [Events -> Nat]
  BY DEF ProjectedInv, StoredInv, TypeOK
<1>2. /\ eventLock' = [eventLock EXCEPT ![t[2]] = IF Lockable(t[2]) THEN "processing" ELSE @]
      /\ task' = [task EXCEPT ![t] = IF Lockable(t[2]) THEN "handling" ELSE "done"]
  BY DEF TryMark
<1>3. \A e \in Events : Settled(e) => Settled(e)'
  BY <1>1, <1>2 DEF Settled, Lockable, ProjectedInv
<1>4. ~Lockable(t[2]) => Settled(t[2])
  BY <1>1 DEF Settled, Lockable, ProjectedInv, EventLock
<1>5. \A u \in Tasks : task'[u] = "done" => Settled(u[2])'
  BY <1>1, <1>2, <1>3, <1>4 DEF ProjectedInv
<1>6. /\ \A e \in Events : eventLock'[e] = "processed" => applied'[e] > 0
      /\ \A e \in Events : eventLock'[e] = "expired" => expiries'[e] > 0
      /\ \A u \in Tasks : task'[u] \in {"marking", "recording"} => applied'[u[2]] > 0
  BY <1>1, <1>2 DEF ProjectedInv
<1>7. \A p \in Procs : phase'[p] = "ready" => \A e \in ToRestore(p)' : Restored(p, e)'
  <2>1. \A p \in Procs : \A e \in ToRestore(p) : Restored(p, e) => Restored(p, e)'
    BY <1>2 DEF Restored
  <2>. QED
    BY <2>1 DEF ProjectedInv, ToRestore
<1>. QED
  BY <1>5, <1>6, <1>7 DEF ProjectedInv

LEMMA ProjectedStep == ProjectedInv /\ [Next]_vars => ProjectedInv'
<1>. SUFFICES ASSUME ProjectedInv, [Next]_vars
              PROVE  ProjectedInv'
  OBVIOUS
<1>. USE ConstantsAssumption, TaskEvent DEF Enter, Proceed, database, restores, bounds
<1>0. StoredInv'
  BY StoredStep DEF ProjectedInv
<1>a. TypeOK
  BY DEF ProjectedInv, StoredInv
<1>1. CASE Store
  BY <1>0, <1>1 DEF Store, ProjectedInv, Settled, ToRestore, Restored
<1>2. ASSUME NEW p \in Procs, Start(p) PROVE ProjectedInv'
  BY <1>0, <1>a, <1>2 DEF Start, TypeOK, ProjectedInv, Settled, ToRestore, Restored
<1>3. ASSUME NEW p \in Procs, Crash(p) PROVE ProjectedInv'
  <2>1. /\ \A u \in Tasks : task'[u] # "none" => task'[u] = task[u] /\ u[1] # p
        /\ \A u \in Tasks : u[1] # p => task'[u] = task[u]
        /\ \A e \in Events : Settled(e) => Settled(e)'
    BY <1>a, <1>3 DEF Crash, TypeOK, Settled
  <2>2. \A q \in Procs : phase'[q] = "ready" =>
          /\ q # p /\ phase[q] = "ready"
          /\ ToRestore(q)' = ToRestore(q)
    BY <1>a, <1>3 DEF Crash, TypeOK, ToRestore
  <2>3. \A q \in Procs : \A e \in ToRestore(q) :
          q # p /\ Restored(q, e) /\ e \in Events => Restored(q, e)'
    BY <2>1 DEF Restored, Tasks
  <2>4. \A q \in Procs : \A e \in ToRestore(q) : e \in Events
    BY <1>a DEF TypeOK, ToRestore, Events
  <2>5. \A q \in Procs : phase'[q] = "ready" => \A e \in ToRestore(q)' : Restored(q, e)'
    BY <2>2, <2>3, <2>4 DEF ProjectedInv
  <2>6. /\ \A u \in Tasks : task'[u] \in {"marking", "recording"} => applied'[u[2]] > 0
        /\ \A u \in Tasks : task'[u] = "done" => Settled(u[2])'
    BY <1>3, <2>1 DEF Crash, ProjectedInv
  <2>. QED
    BY <1>0, <1>3, <2>5, <2>6 DEF Crash, ProjectedInv
<1>4. ASSUME NEW p \in Procs, NEW d \in Events, Deliver(p, d) PROVE ProjectedInv'
  <2>1. <<p, d, "live">> \in Tasks
    BY DEF Tasks
  <2>2. \A q \in Procs : \A e \in ToRestore(q) : Restored(q, e) => Restored(q, e)'
    BY <1>4 DEF Deliver, Restored
  <2>3. \A u \in Tasks : task'[u] = task[u] \/ task'[u] = "waiting"
    BY <1>4, <1>a, <2>1 DEF Deliver, TypeOK
  <2>. QED
    BY <1>0, <1>4, <2>2, <2>3 DEF Deliver, ProjectedInv, Settled, ToRestore
<1>5. ASSUME NEW d \in Events, Expire(d) PROVE ProjectedInv'
  <2>1. /\ \A e \in Events : Settled(e) => Settled(e)'
        /\ \A e \in Events : eventLock'[e] = "processed" => applied'[e] > 0
        /\ \A e \in Events : eventLock'[e] = "expired" => expiries'[e] > 0
    BY <1>5, <1>a DEF Expire, TypeOK, Settled, ProjectedInv
  <2>. QED
    BY <1>0, <1>5, <2>1 DEF Expire, ProjectedInv, ToRestore, Restored
<1>6. ASSUME NEW t \in Tasks, Step(t) PROVE ProjectedInv'
  <2>1. CASE Begin(t)
    BY <1>0, <2>1, TryMarkStep DEF Begin
  <2>2. CASE Handle(t)
    <3>1. \A q \in Procs : \A e \in ToRestore(q) : Restored(q, e) => Restored(q, e)'
      BY <2>2 DEF Handle, Restored
    <3>2. /\ \A e \in Events : applied[e] > 0 => applied'[e] > 0
          /\ applied'[t[2]] > 0
      BY <2>2, <1>a DEF Handle, TypeOK
    <3>3. \A u \in Tasks : u # t => task'[u] = task[u]
      BY <2>2, <1>a DEF Handle, TypeOK
    <3>. QED
      BY <1>0, <1>a, <2>2, <3>1, <3>2, <3>3 DEF Handle, TypeOK, ProjectedInv, Settled, ToRestore
  <2>3. CASE Mark(t)
    <3>1. \A q \in Procs : \A e \in ToRestore(q) : Restored(q, e) => Restored(q, e)'
      BY <2>3 DEF Mark, Restored
    <3>2. applied[t[2]] > 0
      BY <2>3 DEF Mark, ProjectedInv
    <3>3. /\ \A e \in Events : Settled(e) => Settled(e)'
          /\ \A e \in Events : eventLock'[e] = "processed" => applied'[e] > 0
          /\ \A e \in Events : eventLock'[e] = "expired" => expiries'[e] > 0
      BY <2>3, <1>a, <3>2 DEF Mark, TypeOK, ProjectedInv, Settled
    <3>4. /\ \A u \in Tasks : u # t => task'[u] = task[u]
          /\ task'[t] = "recording"
      BY <2>3, <1>a DEF Mark, TypeOK
    <3>. QED
      BY <1>0, <2>3, <3>1, <3>2, <3>3, <3>4 DEF Mark, ProjectedInv, ToRestore
  <2>4. CASE Record(t)
    <3>1. \A q \in Procs : \A e \in ToRestore(q) : Restored(q, e) => Restored(q, e)'
      BY <2>4, <1>a DEF Record, Restored, TypeOK
    <3>2. applied[t[2]] > 0
      BY <2>4 DEF Record, ProjectedInv
    <3>3. \A u \in Tasks : u # t => task'[u] = task[u]
      BY <2>4, <1>a DEF Record, TypeOK
    <3>. QED
      BY <1>0, <1>a, <2>4, <3>1, <3>2, <3>3 DEF Record, TypeOK, ProjectedInv, Settled, ToRestore
  <2>5. CASE MarkFails(t) \/ Fails(t)
    <3>1. /\ task[t] \in {"handling", "marking", "recording"}
          /\ Throw(t)
      BY <2>5 DEF MarkFails, Fails
    <3>2. \A q \in Procs : \A e \in ToRestore(q) : Restored(q, e) => Restored(q, e)'
      BY <3>1 DEF Throw, Restored
    <3>3. \A q \in Procs : phase'[q] = "ready" => phase[q] = "ready"
      BY <1>a, <3>1 DEF Throw, TypeOK
    <3>4. \A u \in Tasks : task'[u] = task[u] \/ task'[u] = "failed"
      BY <1>a, <3>1 DEF Throw, TypeOK
    <3>. QED
      BY <1>0, <3>1, <3>2, <3>3, <3>4 DEF Throw, ProjectedInv, Settled, ToRestore
  <2>. QED
    BY <1>6, <2>1, <2>2, <2>3, <2>4, <2>5 DEF Step
<1>7. ASSUME NEW p \in Procs, Restore(p) PROVE ProjectedInv'
  <2>1. CASE LockView(p)
    BY <1>0, <1>a, <2>1 DEF LockView, TypeOK, ProjectedInv, Settled, ToRestore, Restored
  <2>2. CASE ReadCheckpoint(p)
    BY <1>0, <1>a, <2>2 DEF ReadCheckpoint, TypeOK, ProjectedInv, Settled, ToRestore, Restored
  <2>3. CASE Query(p)
    BY <1>0, <1>a, <2>3 DEF Query, TypeOK, ProjectedInv, Settled, ToRestore, Restored
  <2>4. CASE EndRestore(p)
    BY <1>0, <1>a, <2>4 DEF EndRestore, TypeOK, ProjectedInv, Settled, ToRestore, Restored
  <2>5. CASE RestoreFails(p)
    BY <1>0, <1>a, <2>5 DEF RestoreFails, TypeOK, ProjectedInv, Settled, ToRestore, Restored
  <2>6. ASSUME NEW e \in Events, RestoreNext(p, e) PROVE ProjectedInv'
    <3>. DEFINE t == <<p, e, "restore">>
    <3>1. t \in Tasks
      BY DEF Tasks
    <3>2. task[t] = "none" /\ TryMark(t) /\ UNCHANGED <<expiries, phase, from, upTo, applied>>
      BY <2>6 DEF RestoreNext
    <3>. HIDE DEF t
    <3>. QED
      BY <1>0, <3>1, <3>2, TryMarkStep
  <2>. QED
    BY <1>7, <2>1, <2>2, <2>3, <2>4, <2>5, <2>6 DEF Restore
<1>8. CASE UNCHANGED vars
  BY <1>0, <1>8 DEF vars, ProjectedInv, Settled, ToRestore, Restored
<1>. QED
  BY <1>1, <1>2, <1>3, <1>4, <1>5, <1>6, <1>7, <1>8 DEF Next

LEMMA ProjectedInvariant == Spec => []ProjectedInv
BY InitProjected, ProjectedStep, PTL DEF Spec

\* An event that is marked as projected has taken effect on the view, whatever
\* expires, fails or stops (markAsProjected after the handler).
THEOREM MarkedHaveEffect == Spec => []MarkedWasApplied
<1>1. ProjectedInv => MarkedWasApplied
  BY DEF ProjectedInv, MarkedWasApplied
<1>. QED
  BY <1>1, ProjectedInvariant, PTL

\* A view that is ready has every event of its restore, but for those that were
\* locked (the loop of _restore).
THEOREM RestoredWhenReady == Spec => []CaughtUp
<1>1. ProjectedInv => CaughtUp
  <2>. SUFFICES ASSUME ProjectedInv, NEW p \in Procs, phase[p] = "ready", NEW e \in ToRestore(p)
                PROVE  Settled(e) /\ Restored(p, e)
    BY DEF CaughtUp, Settled
  <2>1. Restored(p, e)
    BY DEF ProjectedInv
  <2>2. e \in Events
    <3>1. from[p] \in Nat /\ upTo[p] \in Nat /\ upTo[p] <= LastEvent
      BY ConstantsAssumption DEF ProjectedInv, StoredInv, TypeOK
    <3>. QED
      BY <3>1, ConstantsAssumption DEF ToRestore, Events
  <2>3. <<p, e, "restore">> \in Tasks
    BY <2>2 DEF Tasks
  <2>. QED
    BY <2>1, <2>3 DEF Restored, ProjectedInv
<1>. QED
  BY <1>1, ProjectedInvariant, PTL

-----------------------------------------------------------------------------

\* The tasks that are about to apply an event; how many effects its lock allows: one
\* for each time it has been taken, which is once more than it has expired.
Handling(e) == {t \in Tasks : t[2] = e /\ task[t] = "handling"}

Allowed(e) == expiries[e] + IF eventLock[e] \in {"processing", "processed"} THEN 1 ELSE 0

Accounted(e) ==
  /\ IsFiniteSet(Handling(e))
  /\ applied[e] + Cardinality(Handling(e)) <= Allowed(e)

AccountInv == StoredInv /\ \A e \in Events : Accounted(e)

\* A step that lets no task into the handler, and takes nothing from what the lock allows.
LEMMA NoneEnters ==
  ASSUME StoredInv, StoredInv', NEW e \in Events, Accounted(e),
         \A t \in Tasks : task'[t] = "handling" => task[t] = "handling",
         applied'[e] = applied[e], Allowed(e)' >= Allowed(e)
  PROVE  Accounted(e)'
<1>1. Handling(e)' \in SUBSET Handling(e)
  BY DEF Handling
<1>2. /\ IsFiniteSet(Handling(e)')
      /\ Cardinality(Handling(e)') <= Cardinality(Handling(e))
  BY <1>1, FS_Subset DEF Accounted
<1>3. /\ Cardinality(Handling(e)) \in Nat /\ Cardinality(Handling(e)') \in Nat
      /\ applied[e] \in Nat /\ Allowed(e) \in Nat /\ Allowed(e)' \in Nat
  BY <1>2, FS_CardinalityType DEF Accounted, StoredInv, TypeOK, Allowed
<1>4. applied[e] + Cardinality(Handling(e)) <= Allowed(e)
  BY DEF Accounted
<1>5. applied'[e] + Cardinality(Handling(e)') <= Allowed(e)'
  BY <1>2, <1>3, <1>4
<1>. QED
  BY <1>2, <1>5 DEF Accounted

\* tryMarkAsProjecting() lets a task into the handler with the lock it takes.
LEMMA TryMarkAccounted ==
  ASSUME StoredInv, StoredInv', NEW t \in Tasks, task[t] # "handling", TryMark(t),
         UNCHANGED <<expiries, applied>>, NEW e \in Events, Accounted(e)
  PROVE  Accounted(e)'
<1>. USE TaskEvent
<1>1. /\ task \in [Tasks -> TaskState] /\ eventLock \in [Events -> EventLock]
      /\ applied[e] \in Nat /\ expiries[e] \in Nat
  BY DEF StoredInv, TypeOK
<1>2. /\ eventLock' = [eventLock EXCEPT ![t[2]] = IF Lockable(t[2]) THEN "processing" ELSE @]
      /\ task' = [task EXCEPT ![t] = IF Lockable(t[2]) THEN "handling" ELSE "done"]
  BY DEF TryMark, Proceed
<1>3. CASE t[2] = e /\ Lockable(e)
  <2>1. Handling(e)' = Handling(e) \cup {t}
    BY <1>1, <1>2, <1>3 DEF Handling
  <2>2. t \notin Handling(e)
    BY DEF Handling
  <2>3. /\ IsFiniteSet(Handling(e)')
        /\ Cardinality(Handling(e)') = Cardinality(Handling(e)) + 1
    BY <2>1, <2>2, FS_AddElement DEF Accounted
  <2>4. Allowed(e) = expiries[e] /\ Allowed(e)' = expiries[e] + 1
    BY <1>1, <1>2, <1>3 DEF Allowed, Lockable
  <2>5. Cardinality(Handling(e)) \in Nat
    BY FS_CardinalityType DEF Accounted
  <2>6. applied[e] + Cardinality(Handling(e)) <= Allowed(e)
    BY DEF Accounted
  <2>7. applied'[e] + Cardinality(Handling(e)') <= Allowed(e)'
    BY <1>1, <2>3, <2>4, <2>5, <2>6
  <2>. QED
    BY <2>3, <2>7 DEF Accounted
<1>4. CASE ~(t[2] = e /\ Lockable(e))
  <2>1. Handling(e)' = Handling(e)
    BY <1>1, <1>2, <1>4 DEF Handling
  <2>2. Allowed(e)' = Allowed(e)
    BY <1>1, <1>2, <1>4 DEF Allowed
  <2>. QED
    BY <2>1, <2>2 DEF Accounted
<1>. QED
  BY <1>3, <1>4

LEMMA AccountStep == AccountInv /\ [Next]_vars => AccountInv'
<1>. SUFFICES ASSUME AccountInv, [Next]_vars
              PROVE  AccountInv'
  OBVIOUS
<1>. USE ConstantsAssumption, TaskEvent DEF Enter, Proceed, database, restores, bounds
<1>0. StoredInv /\ StoredInv' /\ TypeOK
  BY StoredStep DEF AccountInv, StoredInv
<1>. SUFFICES ASSUME NEW e \in Events PROVE Accounted(e)'
  BY <1>0 DEF AccountInv
<1>a. Accounted(e)
  BY DEF AccountInv
<1>. DEFINE Quiet == /\ \A t \in Tasks : task'[t] = "handling" => task[t] = "handling"
                     /\ applied'[e] = applied[e]
                     /\ Allowed(e)' >= Allowed(e)
<1>b. Quiet => Accounted(e)'
  BY <1>0, <1>a, NoneEnters
<1>c. UNCHANGED <<eventLock, expiries>> => Allowed(e)' >= Allowed(e)
  BY <1>0 DEF Allowed, TypeOK
<1>1. CASE Store
  BY <1>b, <1>c, <1>1 DEF Store
<1>2. ASSUME NEW p \in Procs, Start(p) PROVE Accounted(e)'
  BY <1>b, <1>c, <1>2 DEF Start
<1>3. ASSUME NEW p \in Procs, Crash(p) PROVE Accounted(e)'
  BY <1>b, <1>c, <1>3 DEF Crash
<1>4. ASSUME NEW p \in Procs, NEW d \in Events, Deliver(p, d) PROVE Accounted(e)'
  <2>1. \A t \in Tasks : task'[t] = "handling" => task[t] = "handling"
    BY <1>0, <1>4 DEF Deliver, TypeOK
  <2>. QED
    BY <1>b, <1>c, <1>4, <2>1 DEF Deliver
<1>5. ASSUME NEW d \in Events, Expire(d) PROVE Accounted(e)'
  <2>1. Allowed(e)' >= Allowed(e)
    BY <1>0, <1>5 DEF Expire, Allowed, TypeOK
  <2>. QED
    BY <1>b, <1>5, <2>1 DEF Expire
<1>6. ASSUME NEW t \in Tasks, Step(t) PROVE Accounted(e)'
  <2>1. CASE Begin(t)
    BY <1>0, <1>a, <2>1, TryMarkAccounted DEF Begin
  <2>2. CASE Handle(t)
    <3>1. CASE t[2] = e
      <4>1. Handling(e)' = Handling(e) \ {t} /\ t \in Handling(e)
        BY <1>0, <2>2, <3>1 DEF Handle, Handling, TypeOK
      <4>2. /\ IsFiniteSet(Handling(e)')
            /\ Cardinality(Handling(e)') = Cardinality(Handling(e)) - 1
        BY <1>a, <4>1, FS_RemoveElement DEF Accounted
      <4>3. applied'[e] = applied[e] + 1 /\ Allowed(e)' = Allowed(e)
        BY <1>0, <2>2, <3>1 DEF Handle, Allowed, TypeOK
      <4>4. /\ Cardinality(Handling(e)) \in Nat /\ applied[e] \in Nat /\ Allowed(e) \in Nat
            /\ applied[e] + Cardinality(Handling(e)) <= Allowed(e)
        BY <1>0, <1>a, FS_CardinalityType DEF Accounted, TypeOK, Allowed
      <4>5. applied'[e] + Cardinality(Handling(e)') <= Allowed(e)'
        BY <4>2, <4>3, <4>4
      <4>. QED
        BY <4>2, <4>5 DEF Accounted
    <3>2. CASE t[2] # e
      <4>1. applied'[e] = applied[e]
        BY <1>0, <2>2, <3>2 DEF Handle, TypeOK
      <4>2. \A u \in Tasks : task'[u] = "handling" => task[u] = "handling"
        BY <1>0, <2>2 DEF Handle, TypeOK
      <4>. QED
        BY <1>b, <1>c, <2>2, <4>1, <4>2 DEF Handle
    <3>. QED
      BY <3>1, <3>2
  <2>3. CASE Mark(t)
    <3>1. Allowed(e)' >= Allowed(e)
      BY <1>0, <2>3 DEF Mark, Allowed, TypeOK
    <3>2. \A u \in Tasks : task'[u] = "handling" => task[u] = "handling"
      BY <1>0, <2>3 DEF Mark, TypeOK
    <3>. QED
      BY <1>b, <2>3, <3>1, <3>2 DEF Mark
  <2>4. CASE Record(t)
    <3>1. \A u \in Tasks : task'[u] = "handling" => task[u] = "handling"
      BY <1>0, <2>4 DEF Record, TypeOK
    <3>. QED
      BY <1>b, <1>c, <2>4, <3>1 DEF Record
  <2>5. CASE MarkFails(t) \/ Fails(t)
    <3>1. Throw(t)
      BY <2>5 DEF MarkFails, Fails
    <3>2. \A u \in Tasks : task'[u] = "handling" => task[u] = "handling"
      BY <1>0, <3>1 DEF Throw, TypeOK
    <3>. QED
      BY <1>b, <1>c, <3>1, <3>2 DEF Throw
  <2>. QED
    BY <1>6, <2>1, <2>2, <2>3, <2>4, <2>5 DEF Step
<1>7. ASSUME NEW p \in Procs, Restore(p) PROVE Accounted(e)'
  <2>1. CASE LockView(p) \/ ReadCheckpoint(p) \/ Query(p) \/ EndRestore(p) \/ RestoreFails(p)
    BY <1>b, <1>c, <2>1 DEF LockView, ReadCheckpoint, Query, EndRestore, RestoreFails
  <2>2. ASSUME NEW d \in Events, RestoreNext(p, d) PROVE Accounted(e)'
    <3>. DEFINE t == <<p, d, "restore">>
    <3>1. t \in Tasks
      BY DEF Tasks
    <3>2. task[t] = "none" /\ TryMark(t) /\ UNCHANGED <<expiries, applied>>
      BY <2>2 DEF RestoreNext
    <3>. HIDE DEF t
    <3>. QED
      BY <1>0, <1>a, <3>1, <3>2, TryMarkAccounted
  <2>. QED
    BY <1>7, <2>1, <2>2 DEF Restore
<1>8. CASE UNCHANGED vars
  BY <1>b, <1>c, <1>8 DEF vars
<1>. QED
  BY <1>1, <1>2, <1>3, <1>4, <1>5, <1>6, <1>7, <1>8 DEF Next

\* An event takes effect on the view once, and once more at most each time its lock
\* expires (tryMarkAsProjecting before the handler), in any number of processes.
THEOREM Deduplication == Spec => []EffectsAccounted
<1>1. Init => AccountInv
  <2>. SUFFICES ASSUME Init PROVE AccountInv
    OBVIOUS
  <2>1. StoredInv
    BY InitType DEF Init, StoredInv
  <2>2. ASSUME NEW e \in Events PROVE Accounted(e)
    <3>1. Handling(e) = {}
      BY DEF Init, Handling
    <3>2. IsFiniteSet(Handling(e)) /\ Cardinality(Handling(e)) = 0
      BY <3>1, FS_EmptySet
    <3>3. applied[e] = 0 /\ Allowed(e) = 0
      BY DEF Init, Allowed
    <3>. QED
      BY <3>2, <3>3 DEF Accounted
  <2>. QED
    BY <2>1, <2>2 DEF AccountInv
<1>2. AccountInv => EffectsAccounted
  <2>. SUFFICES ASSUME AccountInv, NEW e \in Events
                PROVE  applied[e] <= 1 + expiries[e]
    BY DEF EffectsAccounted
  <2>1. Cardinality(Handling(e)) \in Nat
    BY FS_CardinalityType DEF AccountInv, Accounted
  <2>2. applied[e] \in Nat /\ expiries[e] \in Nat
    BY DEF AccountInv, StoredInv, TypeOK
  <2>3. applied[e] + Cardinality(Handling(e)) <= Allowed(e)
    BY DEF AccountInv, Accounted
  <2>4. Allowed(e) <= 1 + expiries[e]
    BY <2>2 DEF Allowed
  <2>5. Allowed(e) \in Nat
    BY <2>2 DEF Allowed
  <2>. QED
    BY <2>1, <2>2, <2>3, <2>4, <2>5
<1>. QED
  BY <1>1, <1>2, AccountStep, PTL DEF Spec

------------------------------------------------------------------------------
(* Worker projections.                                                     *)

\* The constants and variables of WorkerProjection. Those that Projection also names are
\* inStorage, the events stored, and inView, the effects in the view of the worker.
CONSTANTS MaxEvents, BatchSize, MaxFailures

VARIABLES
  inStorage, published, worker, disposed, locked, restore, limit, read, batch, project, port,
  queue, handling, inView, failures, early

Worker == INSTANCE WorkerProjection WITH stored <- inStorage, applied <- inView

Callers == {"restore", "project"}
Calls   == [caller : Callers, events : Seq(Worker!Events)]

RestoreStates == {"none", "starting", "reading", "projecting", "finishing", "done", "rejected"}
ProjectStates == {"none", "waiting", "starting", "posted", "done", "rejected"}

\* A call of project() has one event.
ProjectCalls ==
  \A i \in DOMAIN port : port[i].caller = "project" => 1 \in DOMAIN port[i].events

\* The parts of TypeOK, by the steps that concern them.
StoreType == inStorage \in 0..MaxEvents /\ published \in 0..inStorage
ThreadType ==
  /\ worker \in {"starting", "ready", "exited", "failed"} /\ disposed \in BOOLEAN
  /\ early \in BOOLEAN /\ failures \in Nat
RestoreType ==
  /\ locked \in BOOLEAN /\ restore \in RestoreStates
  /\ limit \in 0..inStorage /\ read \in 0..inStorage /\ batch \in Seq(Worker!Events)
CallType ==
  /\ port \in Seq(Calls) /\ ProjectCalls
  /\ queue \in Seq(Worker!Events) /\ handling \subseteq Worker!Events
EventType ==
  /\ project \in [Worker!Events -> ProjectStates]
  /\ inView \in [Worker!Events -> Nat]

WorkerTypeInv == StoreType /\ ThreadType /\ RestoreType /\ CallType /\ EventType

\* What the port holds after a call is posted.
LEMMA PostedCall ==
  ASSUME CallType, NEW caller \in Callers, NEW events \in Seq(Worker!Events)
  PROVE  \/ worker # "ready" /\ Worker!Posted(caller, events) = port
         \/ /\ worker = "ready"
            /\ Worker!Posted(caller, events) \in Seq(Calls)
            /\ DOMAIN Worker!Posted(caller, events) = 1..(Len(port) + 1)
            /\ DOMAIN port = 1..Len(port) /\ Len(port) \in Nat
            /\ \A i \in 1..Len(port) : Worker!Posted(caller, events)[i] = port[i]
            /\ Worker!Posted(caller, events)[Len(port) + 1] = [caller |-> caller, events |-> events]
<1>. DEFINE c == [caller |-> caller, events |-> events]
<1>1. c \in Calls
  BY DEF Calls
<1>2. port \in Seq(Calls)
  BY DEF CallType
<1>. HIDE DEF c
<1>3. /\ Append(port, c) \in Seq(Calls) /\ Len(port) \in Nat
      /\ DOMAIN port = 1..Len(port) /\ DOMAIN Append(port, c) = 1..(Len(port) + 1)
      /\ \A i \in 1..Len(port) : Append(port, c)[i] = port[i]
      /\ Append(port, c)[Len(port) + 1] = c
  BY <1>1, <1>2
<1>4. Worker!Posted(caller, events) = IF worker = "ready" THEN Append(port, c) ELSE port
  BY DEF Worker!Posted, c
<1>5. c = [caller |-> caller, events |-> events]
  BY DEF c
<1>. QED
  BY <1>3, <1>4, <1>5

\* What it holds after one is taken.
LEMMA TakenCall ==
  ASSUME CallType, port # <<>>
  PROVE  /\ Head(port) = port[1] /\ Head(port) \in Calls /\ 1 \in DOMAIN port
         /\ Tail(port) \in Seq(Calls)
         /\ \A i \in DOMAIN Tail(port) : i # 0 /\ i + 1 \in DOMAIN port /\ i + 1 # 1
                                         /\ Tail(port)[i] = port[i + 1]
         /\ \A i \in DOMAIN port : i = 1 \/ (i - 1 \in DOMAIN Tail(port) /\ i = (i - 1) + 1)
<1>1. port \in Seq(Calls)
  BY DEF CallType
<1>2. /\ Len(port) \in Nat /\ Len(port) > 0 /\ DOMAIN port = 1..Len(port)
      /\ Head(port) = port[1] /\ Tail(port) \in Seq(Calls)
      /\ DOMAIN Tail(port) = 1..(Len(port) - 1)
      /\ \A i \in 1..(Len(port) - 1) : Tail(port)[i] = port[i + 1]
  BY <1>1
<1>3. 1 \in DOMAIN port /\ port[1] \in Calls
  BY <1>1, <1>2
<1>. QED
  BY <1>2, <1>3

\* Every step keeps the types.
LEMMA WorkerTypeStep ==
  ASSUME Worker!ConstantsAssumption, WorkerTypeInv, [Worker!Next]_(Worker!vars)
  PROVE  WorkerTypeInv'
<1>0. /\ StoreType /\ ThreadType /\ RestoreType /\ CallType /\ EventType
      /\ MaxEvents \in Nat /\ inStorage \in Nat /\ published \in Nat /\ read \in Nat
  BY DEF Worker!ConstantsAssumption, WorkerTypeInv, StoreType, RestoreType
<1>1. StoreType'
  <2>1. CASE Worker!Store
    BY <1>0, <2>1 DEF Worker!Store, StoreType
  <2>2. CASE Worker!Publish
    BY <1>0, <2>2 DEF Worker!Publish, StoreType
  <2>3. CASE UNCHANGED Worker!store
    BY <1>0, <2>3 DEF Worker!store, StoreType
  <2>. QED
    BY <2>1, <2>2, <2>3 DEF Worker!Next, Worker!vars, Worker!WorkerReady, Worker!WorkerFails,
       Worker!WorkerExits, Worker!Dispose, Worker!Restore, Worker!RestoreFails, Worker!Query,
       Worker!ReadNext, Worker!LastBatch, Worker!NothingLeft, Worker!Receive,
       Worker!HandleOfBatch, Worker!HandlerOfBatchFails, Worker!Project, Worker!ViewReady,
       Worker!Post, Worker!PostFails, Worker!Handle, Worker!HandlerFails, Worker!Get
<1>2. ThreadType'
  <2>1. CASE Worker!Get
    BY <1>0, <2>1 DEF Worker!Get, ThreadType, Worker!thread, Worker!remote
  <2>2. CASE Worker!WorkerReady \/ Worker!WorkerFails \/ Worker!WorkerExits \/ Worker!Dispose
    BY <1>0, <2>2 DEF Worker!WorkerReady, Worker!WorkerFails, Worker!WorkerExits,
       Worker!Dispose, ThreadType, Worker!remote
  <2>3. CASE UNCHANGED <<Worker!thread, early>> /\ failures' \in {failures, failures + 1}
    BY <1>0, <2>3 DEF Worker!thread, ThreadType
  <2>. QED
    BY <2>1, <2>2, <2>3 DEF Worker!Next, Worker!vars, Worker!Store, Worker!Publish,
       Worker!Restore, Worker!remote, Worker!RestoreFails, Worker!Query, Worker!ReadNext,
       Worker!LastBatch, Worker!NothingLeft, Worker!Receive, Worker!HandleOfBatch,
       Worker!HandlerOfBatchFails, Worker!Project, Worker!ViewReady, Worker!Post,
       Worker!PostFails, Worker!Handle, Worker!HandlerFails
<1>3. RestoreType'
  <2>1. CASE Worker!Store \/ Worker!Publish
    <3>1. /\ UNCHANGED <<locked, restore, limit, read, batch>>
          /\ inStorage' \in {inStorage, inStorage + 1}
      BY <2>1 DEF Worker!Store, Worker!Publish, Worker!restorer
    <3>2. 0..inStorage \subseteq 0..inStorage'
      BY <1>0, <3>1
    <3>. QED
      BY <1>0, <3>1, <3>2 DEF RestoreType
  <2>2. CASE Worker!Restore \/ Worker!RestoreFails \/ Worker!Query
    <3>1. /\ UNCHANGED <<inStorage, read, batch>> /\ limit' \in {limit, inStorage}
          /\ restore' \in {"starting", "rejected", "reading"} /\ locked' \in {locked, TRUE}
      BY <2>2 DEF Worker!Restore, Worker!RestoreFails, Worker!Query, Worker!store
    <3>2. inStorage \in 0..inStorage
      BY <1>0
    <3>. QED
      BY <1>0, <3>1, <3>2 DEF RestoreType, RestoreStates
  <2>3. CASE Worker!ReadNext
    <3>1. read + 1 \in Worker!Events /\ read + 1 \in 0..inStorage
      BY <1>0, <2>3 DEF Worker!ReadNext, Worker!HasNext, StoreType, RestoreType, Worker!Events
    <3>2. Append(batch, read + 1) \in Seq(Worker!Events) /\ <<>> \in Seq(Worker!Events)
      BY <1>0, <3>1 DEF RestoreType
    <3>3. /\ read' = read + 1 /\ batch' \in {Append(batch, read + 1), <<>>}
          /\ restore' \in {restore, "rejected", "projecting"}
          /\ UNCHANGED <<Worker!store, locked, limit>>
      BY <2>3 DEF Worker!ReadNext, Worker!PostBatch
    <3>. QED
      BY <1>0, <3>1, <3>2, <3>3 DEF RestoreType, RestoreStates, Worker!store
  <2>4. CASE Worker!LastBatch \/ Worker!NothingLeft
    <3>1. /\ batch' = <<>> /\ restore' \in {"rejected", "finishing", "done"}
          /\ locked' \in {locked, FALSE} /\ UNCHANGED <<Worker!store, limit, read>>
      BY <2>4 DEF Worker!LastBatch, Worker!NothingLeft, Worker!PostBatch, Worker!Unlock
    <3>2. <<>> \in Seq(Worker!Events)
      OBVIOUS
    <3>. QED
      BY <1>0, <3>1, <3>2 DEF RestoreType, RestoreStates, Worker!store
  <2>5. CASE Worker!HandleOfBatch \/ Worker!HandlerOfBatchFails
    <3>1. /\ restore' \in {restore, "done", "reading", "rejected"} /\ locked' \in {locked, FALSE}
          /\ UNCHANGED <<Worker!store, limit, read, batch>>
      BY <2>5 DEF Worker!HandleOfBatch, Worker!HandlerOfBatchFails, Worker!Unlock
    <3>. QED
      BY <1>0, <3>1 DEF RestoreType, RestoreStates, Worker!store
  <2>6. CASE UNCHANGED <<Worker!store, Worker!restorer>>
    BY <1>0, <2>6 DEF RestoreType, Worker!store, Worker!restorer
  <2>. QED
    BY <2>1, <2>2, <2>3, <2>4, <2>5, <2>6 DEF Worker!Next, Worker!vars, Worker!WorkerReady,
       Worker!WorkerFails, Worker!WorkerExits, Worker!Dispose, Worker!Receive, Worker!Project,
       Worker!ViewReady, Worker!Post, Worker!PostFails, Worker!Handle, Worker!HandlerFails,
       Worker!Get
<1>4. CallType'
  <2>1. ASSUME NEW caller \in Callers, NEW events \in Seq(Worker!Events),
               1 \in DOMAIN events \/ caller = "restore",
               port' = Worker!Posted(caller, events), UNCHANGED <<queue, handling>>
        PROVE  CallType'
    <3>1. CASE worker # "ready"
      BY <1>0, <2>1, <3>1, PostedCall DEF CallType, ProjectCalls
    <3>2. CASE worker = "ready"
      <4>1. /\ port' \in Seq(Calls) /\ DOMAIN port' = 1..(Len(port) + 1)
            /\ DOMAIN port = 1..Len(port) /\ Len(port) \in Nat
            /\ \A i \in 1..Len(port) : port'[i] = port[i]
            /\ port'[Len(port) + 1] = [caller |-> caller, events |-> events]
        BY <1>0, <2>1, <3>2, PostedCall
      <4>2. ASSUME NEW i \in DOMAIN port', port'[i].caller = "project"
            PROVE  1 \in DOMAIN port'[i].events
        <5>1. CASE i \in 1..Len(port)
          BY <1>0, <4>1, <4>2, <5>1 DEF CallType, ProjectCalls
        <5>2. CASE i = Len(port) + 1
          BY <2>1, <4>1, <4>2, <5>2
        <5>. QED
          BY <4>1, <5>1, <5>2
      <4>. QED
        BY <1>0, <2>1, <4>1, <4>2 DEF CallType, ProjectCalls
    <3>. QED
      BY <3>1, <3>2
  <2>2. CASE Worker!WorkerExits
    <3>1. port' = <<>> /\ queue' = <<>> /\ handling' = {}
      BY <2>2 DEF Worker!WorkerExits
    <3>. QED
      BY <3>1 DEF CallType, ProjectCalls
  <2>3. CASE Worker!ReadNext \/ Worker!LastBatch
    <3>1. UNCHANGED <<queue, handling>>
      BY <2>3 DEF Worker!ReadNext, Worker!LastBatch
    <3>2. UNCHANGED port \/ \E b \in Seq(Worker!Events) : port' = Worker!Posted("restore", b)
      <4>1. CASE Worker!LastBatch
        BY <1>0, <4>1 DEF Worker!LastBatch, Worker!PostBatch, RestoreType
      <4>2. CASE Worker!ReadNext
        <5>1. read + 1 \in Worker!Events
          BY <1>0, <4>2 DEF Worker!ReadNext, Worker!HasNext, StoreType, RestoreType,
             Worker!Events
        <5>2. Append(batch, read + 1) \in Seq(Worker!Events)
          BY <1>0, <5>1 DEF RestoreType
        <5>. QED
          BY <4>2, <5>2 DEF Worker!ReadNext, Worker!PostBatch
      <4>. QED
        BY <2>3, <4>1, <4>2
    <3>. QED
      BY <1>0, <2>1, <3>1, <3>2 DEF CallType, ProjectCalls, Callers
  <2>4. ASSUME NEW e \in Worker!Events, Worker!Post(e)
        PROVE  CallType'
    <3>1. /\ UNCHANGED <<queue, handling>> /\ port' = Worker!Posted("project", <<e>>)
          /\ <<e>> \in Seq(Worker!Events) /\ 1 \in DOMAIN <<e>>
      BY <2>4 DEF Worker!Post
    <3>. QED
      BY <2>1, <3>1 DEF Callers
  <2>5. CASE Worker!Receive
    <3>1. /\ port' = Tail(port) /\ port' \in Seq(Calls) /\ Head(port) \in Calls
          /\ \A i \in DOMAIN port' : i + 1 \in DOMAIN port /\ port'[i] = port[i + 1]
      BY <1>0, <2>5, TakenCall DEF Worker!Receive
    <3>2. ProjectCalls'
      BY <1>0, <3>1 DEF CallType, ProjectCalls
    <3>3. queue' \in Seq(Worker!Events)
      BY <1>0, <2>5, <3>1 DEF Worker!Receive, Calls, CallType
    <3>4. handling' \subseteq Worker!Events
      <4>1. CASE Head(port).caller = "restore"
        BY <1>0, <2>5, <4>1 DEF Worker!Receive, CallType
      <4>2. CASE Head(port).caller = "project"
        <5>1. 1 \in DOMAIN Head(port).events
          BY <1>0, <2>5, <4>2, TakenCall DEF Worker!Receive, CallType, ProjectCalls
        <5>2. Head(port).events \in Seq(Worker!Events)
          BY <3>1 DEF Calls
        <5>3. Head(port).events[1] \in Worker!Events
          BY <5>1, <5>2
        <5>. QED
          BY <1>0, <2>5, <4>2, <5>3 DEF Worker!Receive, CallType
      <4>. QED
        BY <3>1, <4>1, <4>2 DEF Calls, Callers
    <3>. QED
      BY <3>1, <3>2, <3>3, <3>4 DEF CallType
  <2>6. CASE Worker!HandleOfBatch \/ Worker!HandlerOfBatchFails
    <3>1. UNCHANGED <<port, handling>> /\ queue # <<>> /\ queue' \in {Tail(queue), <<>>}
      BY <2>6 DEF Worker!HandleOfBatch, Worker!HandlerOfBatchFails
    <3>2. queue' \in Seq(Worker!Events)
      <4>1. queue \in Seq(Worker!Events)
        BY <1>0 DEF CallType
      <4>2. Tail(queue) \in Seq(Worker!Events) /\ <<>> \in Seq(Worker!Events)
        BY <3>1, <4>1
      <4>. QED
        BY <3>1, <4>2
    <3>. QED
      BY <1>0, <3>1, <3>2 DEF CallType, ProjectCalls
  <2>7. ASSUME NEW e \in Worker!Events, Worker!Handle(e) \/ Worker!HandlerFails(e)
        PROVE  CallType'
    <3>1. UNCHANGED <<port, queue>> /\ handling' \subseteq handling
      BY <2>7 DEF Worker!Handle, Worker!HandlerFails
    <3>. QED
      BY <1>0, <3>1 DEF CallType, ProjectCalls
  <2>8. CASE UNCHANGED <<port, queue, handling>>
    BY <1>0, <2>8 DEF CallType, ProjectCalls
  <2>. QED
    BY <2>2, <2>3, <2>4, <2>5, <2>6, <2>7, <2>8 DEF Worker!Next, Worker!vars, Worker!remote,
       Worker!Store, Worker!Publish, Worker!WorkerReady, Worker!WorkerFails, Worker!Dispose,
       Worker!Restore, Worker!RestoreFails, Worker!Query, Worker!NothingLeft, Worker!Project,
       Worker!ViewReady, Worker!PostFails, Worker!Get
<1>5. EventType'
  <2>1. CASE Worker!Publish
    <3>1. /\ UNCHANGED inView
          /\ project' = project \/ \E s \in {"waiting", "starting"} :
                                      project' = [project EXCEPT ![published + 1] = s]
      BY <2>1 DEF Worker!Publish, Worker!Become, Worker!remote
    <3>. QED
      BY <1>0, <3>1 DEF EventType, ProjectStates
  <2>2. ASSUME NEW e \in Worker!Events, Worker!Project(e)
        PROVE  EventType'
    <3>1. /\ inView' = inView \/ inView' = [inView EXCEPT ![e] = @ + 1]
          /\ \E s \in ProjectStates : project' = [project EXCEPT ![e] = s]
      BY <2>2 DEF Worker!Project, Worker!ViewReady, Worker!Post, Worker!PostFails,
         Worker!Handle, Worker!HandlerFails, Worker!Become, Worker!Apply, Worker!remote,
         ProjectStates
    <3>. QED
      BY <1>0, <3>1 DEF EventType
  <2>3. CASE Worker!HandleOfBatch
    <3>1. UNCHANGED project /\ inView' = [inView EXCEPT ![Head(queue)] = @ + 1]
      BY <2>3 DEF Worker!HandleOfBatch, Worker!Apply
    <3>2. Head(queue) \in Worker!Events
      <4>1. queue \in Seq(Worker!Events) /\ queue # <<>>
        BY <1>0, <2>3 DEF CallType, Worker!HandleOfBatch
      <4>. QED
        BY <4>1
    <3>. QED
      BY <1>0, <3>1, <3>2 DEF EventType
  <2>4. CASE UNCHANGED <<project, inView>>
    BY <1>0, <2>4 DEF EventType
  <2>. QED
    BY <2>1, <2>2, <2>3, <2>4 DEF Worker!Next, Worker!vars, Worker!remote, Worker!Store,
       Worker!WorkerReady, Worker!WorkerFails, Worker!WorkerExits, Worker!Dispose,
       Worker!Restore, Worker!RestoreFails, Worker!Query, Worker!ReadNext, Worker!LastBatch,
       Worker!NothingLeft, Worker!Receive, Worker!HandlerOfBatchFails, Worker!Get
<1>. QED
  BY <1>1, <1>2, <1>3, <1>4, <1>5 DEF WorkerTypeInv

LEMMA WorkerInitType == Worker!ConstantsAssumption /\ Worker!Init => WorkerTypeInv
<1>. SUFFICES ASSUME Worker!ConstantsAssumption, Worker!Init
              PROVE  WorkerTypeInv
  OBVIOUS
<1>1. /\ port = <<>> /\ port \in Seq(Calls)
      /\ queue \in Seq(Worker!Events) /\ batch \in Seq(Worker!Events)
  BY DEF Worker!Init
<1>2. CallType
  BY <1>1 DEF Worker!Init, CallType, ProjectCalls
<1>3. StoreType /\ ThreadType
  <2>1. 0 \in 0..MaxEvents /\ 0 \in 0..0
    BY DEF Worker!ConstantsAssumption
  <2>2. inStorage = 0 /\ published = 0
    BY DEF Worker!Init
  <2>3. ThreadType
    BY DEF Worker!Init, ThreadType
  <2>. QED
    BY <2>1, <2>2, <2>3 DEF StoreType
<1>4. RestoreType
  <2>1. 0 \in 0..0 /\ inStorage = 0 /\ limit = 0 /\ read = 0 /\ restore = "none" /\ locked = FALSE
    BY DEF Worker!Init
  <2>. QED
    BY <1>1, <2>1 DEF RestoreType, RestoreStates
<1>5. EventType
  BY DEF Worker!Init, EventType, ProjectStates
<1>. QED
  BY <1>2, <1>3, <1>4, <1>5 DEF WorkerTypeInv

\* The variables of both threads keep their types.
THEOREM WorkerTypeCorrect ==
  Worker!ConstantsAssumption => (Worker!Spec => []Worker!TypeOK)
<1>. SUFFICES ASSUME Worker!ConstantsAssumption
              PROVE  Worker!Spec => []Worker!TypeOK
  OBVIOUS
<1>1. WorkerTypeInv => Worker!TypeOK
  BY DEF WorkerTypeInv, StoreType, ThreadType, RestoreType, CallType, EventType, Worker!TypeOK,
     Calls, Callers, RestoreStates, ProjectStates
<1>. QED
  BY <1>1, WorkerInitType, WorkerTypeStep, PTL DEF Worker!Spec

-----------------------------------------------------------------------------
(* The calls of restore().                                                 *)

\* The i-th call that the worker has not taken is one of restore().
RestoreCall(i) == i \in DOMAIN port /\ port[i].caller = "restore"
NoRestoreCall  == \A i \in DOMAIN port : ~RestoreCall(i)

\* restore() awaits one call at a time, of a worker that was ready once, and a worker that
\* is not ready has none.
CallInv ==
  /\ \A i, j \in DOMAIN port : RestoreCall(i) /\ RestoreCall(j) => i = j
  /\ queue # <<>> => NoRestoreCall
  /\ restore \notin {"projecting", "finishing"} => queue = <<>> /\ NoRestoreCall
  /\ worker # "ready" => port = <<>> /\ queue = <<>>
  /\ restore \in {"reading", "projecting", "finishing", "done"} => worker \in {"ready", "exited"}

\* A call that is posted is the last one.
LEMMA PostedInto ==
  ASSUME CallType, worker = "ready", NEW caller \in Callers, NEW events \in Seq(Worker!Events),
         port' = Worker!Posted(caller, events)
  PROVE  \A i \in DOMAIN port' : \/ i \in DOMAIN port /\ port'[i] = port[i]
                                 \/ i \notin DOMAIN port /\ i = Len(port) + 1
                                    /\ port'[i].caller = caller /\ port'[i].events = events
<1>1. /\ DOMAIN port' = 1..(Len(port) + 1) /\ DOMAIN port = 1..Len(port) /\ Len(port) \in Nat
      /\ \A i \in 1..Len(port) : port'[i] = port[i]
      /\ port'[Len(port) + 1] = [caller |-> caller, events |-> events]
  BY PostedCall
<1>2. \A i \in DOMAIN port' : i \in DOMAIN port \/ i = Len(port) + 1
  BY <1>1
<1>3. Len(port) + 1 \notin DOMAIN port
  BY <1>1
<1>. QED
  BY <1>1, <1>2, <1>3

LEMMA CallStep ==
  ASSUME Worker!ConstantsAssumption, WorkerTypeInv, CallInv, [Worker!Next]_(Worker!vars)
  PROVE  CallInv'
<1>0. CallType /\ RestoreType
  BY DEF WorkerTypeInv
<1>1. ASSUME UNCHANGED <<port, queue, restore, worker>>
      PROVE  CallInv'
  BY <1>1 DEF CallInv, NoRestoreCall, RestoreCall
<1>2. CASE Worker!WorkerReady \/ Worker!WorkerFails
  BY <1>2 DEF Worker!WorkerReady, Worker!WorkerFails, CallInv, NoRestoreCall, RestoreCall,
     Worker!remote, Worker!restorer
<1>3. CASE Worker!WorkerExits
  <2>1. port' = <<>> /\ queue' = <<>> /\ UNCHANGED restore /\ worker' = "exited"
    BY <1>3 DEF Worker!WorkerExits, Worker!restorer
  <2>. QED
    BY <2>1 DEF CallInv, NoRestoreCall, RestoreCall
<1>4. CASE Worker!Restore \/ Worker!RestoreFails \/ Worker!Query \/ Worker!NothingLeft
  <2>1. /\ UNCHANGED <<port, queue, worker>> /\ restore \notin {"projecting", "finishing"}
        /\ restore' \in {"starting", "rejected"}
           \/ (restore' \in {"reading", "done"} /\ (worker = "ready" \/ restore = "reading"))
    BY <1>4 DEF Worker!Restore, Worker!RestoreFails, Worker!Query, Worker!NothingLeft,
       Worker!AtEnd, Worker!Unlock, Worker!remote, Worker!thread
  <2>. QED
    BY <2>1 DEF CallInv, NoRestoreCall, RestoreCall
<1>5. CASE Worker!ReadNext \/ Worker!LastBatch
  <2>1. /\ restore = "reading" /\ UNCHANGED <<queue, worker>>
        /\ \/ restore' \in {"reading", "rejected"} /\ UNCHANGED port
           \/ /\ restore' \in {"projecting", "finishing"}
              /\ \E b \in Seq(Worker!Events) : port' = Worker!Posted("restore", b)
    <3>1. CASE Worker!LastBatch
      BY <1>0, <3>1 DEF Worker!LastBatch, Worker!AtEnd, Worker!PostBatch, RestoreType,
         Worker!thread
    <3>2. CASE Worker!ReadNext
      <4>1. read + 1 \in Worker!Events
        BY <3>2 DEF Worker!ConstantsAssumption, Worker!ReadNext, Worker!HasNext, WorkerTypeInv,
           StoreType, RestoreType, Worker!Events
      <4>2. Append(batch, read + 1) \in Seq(Worker!Events)
        BY <1>0, <4>1 DEF RestoreType
      <4>. QED
        BY <3>2, <4>2 DEF Worker!ReadNext, Worker!HasNext, Worker!PostBatch, Worker!thread
    <3>. QED
      BY <1>5, <3>1, <3>2
  <2>2. CASE restore' \in {"reading", "rejected"} /\ UNCHANGED port
    BY <2>1, <2>2 DEF CallInv, NoRestoreCall, RestoreCall
  <2>3. ASSUME restore' \in {"projecting", "finishing"},
               NEW b \in Seq(Worker!Events), port' = Worker!Posted("restore", b)
        PROVE  CallInv'
    <3>1. queue = <<>> /\ NoRestoreCall /\ worker \in {"ready", "exited"}
      BY <2>1 DEF CallInv
    <3>2. CASE worker = "ready"
      <4>1. \A i \in DOMAIN port' : \/ i \in DOMAIN port /\ port'[i] = port[i]
                                    \/ i = Len(port) + 1
        BY <1>0, <2>3, <3>2, PostedInto DEF Callers
      <4>2. \A i \in DOMAIN port' : port'[i].caller = "restore" => i = Len(port) + 1
        BY <3>1, <4>1 DEF NoRestoreCall, RestoreCall
      <4>. QED
        BY <2>1, <2>3, <3>1, <3>2, <4>2 DEF CallInv, NoRestoreCall, RestoreCall
    <3>3. CASE worker = "exited"
      <4>1. port' = port
        BY <2>3, <3>3 DEF Worker!Posted
      <4>. QED
        BY <2>1, <2>3, <3>1, <3>3, <4>1 DEF CallInv, NoRestoreCall, RestoreCall
    <3>. QED
      BY <3>1, <3>2, <3>3
  <2>. QED
    BY <2>1, <2>2, <2>3
<1>6. ASSUME NEW e \in Worker!Events, Worker!Post(e)
      PROVE  CallInv'
  <2>1. /\ UNCHANGED <<queue, restore, worker>> /\ port' = Worker!Posted("project", <<e>>)
        /\ <<e>> \in Seq(Worker!Events)
    BY <1>6 DEF Worker!Post, Worker!restorer, Worker!thread
  <2>2. CASE worker # "ready"
    <3>1. port' = port
      BY <2>1, <2>2 DEF Worker!Posted
    <3>. QED
      BY <1>1, <2>1, <3>1
  <2>3. CASE worker = "ready"
    <3>1. \A i \in DOMAIN port' : \/ i \in DOMAIN port /\ port'[i] = port[i]
                                  \/ port'[i].caller = "project"
      BY <1>0, <2>1, <2>3, PostedInto DEF Callers
    <3>2. \A i \in DOMAIN port' : RestoreCall(i)' => RestoreCall(i)
      BY <3>1 DEF RestoreCall
    <3>. QED
      BY <2>1, <2>3, <3>1, <3>2 DEF CallInv, NoRestoreCall, RestoreCall
  <2>. QED
    BY <2>2, <2>3
<1>7. CASE Worker!Receive
  <2>1. /\ port # <<>> /\ Head(port) = port[1] /\ 1 \in DOMAIN port
        /\ \A i \in DOMAIN port' : /\ i + 1 \in DOMAIN port /\ i + 1 # 1
                                   /\ port'[i] = port[i + 1]
    BY <1>0, <1>7, TakenCall DEF Worker!Receive
  <2>2. UNCHANGED <<restore, worker>> /\ worker = "ready"
    BY <1>7, <2>1 DEF Worker!Receive, CallInv, Worker!restorer, Worker!thread
  <2>3. \A i \in DOMAIN port' : RestoreCall(i)' => RestoreCall(i + 1) /\ i + 1 # 1
    BY <2>1 DEF RestoreCall
  <2>4. \A i, j \in DOMAIN port' : RestoreCall(i)' /\ RestoreCall(j)' => i = j
    <3>1. DOMAIN port' \subseteq Int
      <4>1. port' \in Seq(Calls)
        BY <1>0, <1>7, TakenCall DEF Worker!Receive
      <4>. QED
        BY <4>1
    <3>2. \A i, j \in DOMAIN port' : RestoreCall(i)' /\ RestoreCall(j)' => i + 1 = j + 1
      BY <2>1, <2>3 DEF CallInv
    <3>. QED
      BY <3>1, <3>2
  <2>5. CASE RestoreCall(1)
    <3>1. NoRestoreCall'
      BY <2>1, <2>3, <2>5 DEF CallInv, NoRestoreCall
    <3>2. restore \in {"projecting", "finishing"}
      BY <2>1, <2>5 DEF CallInv, NoRestoreCall
    <3>. QED
      BY <2>2, <2>4, <3>1, <3>2 DEF CallInv
  <2>6. CASE ~RestoreCall(1)
    <3>1. UNCHANGED queue
      BY <1>7, <2>1, <2>6 DEF Worker!Receive, RestoreCall
    <3>2. NoRestoreCall => NoRestoreCall'
      BY <2>1, <2>3 DEF NoRestoreCall
    <3>. QED
      BY <2>2, <2>4, <3>1, <3>2 DEF CallInv
  <2>. QED
    BY <2>5, <2>6
<1>8. CASE Worker!HandleOfBatch \/ Worker!HandlerOfBatchFails
  <2>1. /\ queue # <<>> /\ UNCHANGED <<port, worker>> /\ NoRestoreCall
        /\ restore \in {"projecting", "finishing"} /\ worker = "ready"
    BY <1>8 DEF Worker!HandleOfBatch, Worker!HandlerOfBatchFails, CallInv, Worker!thread
  <2>2. \/ UNCHANGED restore
        \/ queue' = <<>> /\ restore' \in {"reading", "done", "rejected"}
    <3>1. queue \in Seq(Worker!Events) /\ queue # <<>>
      BY <1>0, <2>1 DEF CallType
    <3>2. ~(Len(queue) > 1) => Tail(queue) = <<>>
      BY <3>1
    <3>. QED
      BY <1>8, <3>2 DEF Worker!HandleOfBatch, Worker!HandlerOfBatchFails, Worker!Unlock
  <2>3. NoRestoreCall'
    BY <2>1 DEF NoRestoreCall, RestoreCall
  <2>. QED
    BY <2>1, <2>2, <2>3 DEF CallInv, NoRestoreCall
<1>. QED
  BY <1>1, <1>2, <1>3, <1>4, <1>5, <1>6, <1>7, <1>8 DEF Worker!Next, Worker!vars, Worker!remote,
     Worker!restorer, Worker!thread, Worker!Store, Worker!Publish, Worker!Dispose,
     Worker!Project, Worker!ViewReady, Worker!PostFails, Worker!Handle, Worker!HandlerFails,
     Worker!Get

-----------------------------------------------------------------------------
(* The lock of the view.                                                   *)

\* It is held from the registration until restore() is done, and only then is an event
\* of the bus past it.
LockedInv ==
  /\ restore = "none" => ~locked /\ \A e \in Worker!Events : project[e] = "none"
  /\ restore \notin {"none", "done"} => locked
  /\ \A e \in Worker!Events : project[e] \in {"starting", "posted", "done"} => restore = "done"
  /\ handling # {} => restore = "done"
  /\ \A i \in DOMAIN port : port[i].caller = "project" => restore = "done"

LEMMA LockedStep ==
  ASSUME Worker!ConstantsAssumption, WorkerTypeInv, CallInv, LockedInv, [Worker!Next]_(Worker!vars)
  PROVE  LockedInv'
<1>0. /\ CallType /\ RestoreType /\ project \in [Worker!Events -> ProjectStates]
      /\ StoreType /\ MaxEvents \in Nat
  BY DEF Worker!ConstantsAssumption, WorkerTypeInv, EventType
<1>1. ASSUME UNCHANGED <<port, restore, locked, handling, project>>
      PROVE  LockedInv'
  BY <1>1 DEF LockedInv
<1>2. CASE Worker!WorkerExits
  <2>1. port' = <<>> /\ handling' = {} /\ UNCHANGED <<restore, locked, project>>
    BY <1>2 DEF Worker!WorkerExits, Worker!restorer
  <2>. QED
    BY <2>1 DEF LockedInv
<1>3. CASE Worker!Restore \/ Worker!RestoreFails \/ Worker!Query \/ Worker!NothingLeft
  <2>1. /\ UNCHANGED <<port, handling, project>> /\ restore # "done"
        /\ \/ restore' = "starting" /\ locked'
           \/ /\ restore \in {"starting", "reading"} /\ restore' \in {"rejected", "reading"}
              /\ UNCHANGED locked
           \/ restore' = "done"
    BY <1>3 DEF Worker!Restore, Worker!RestoreFails, Worker!Query, Worker!NothingLeft,
       Worker!AtEnd, Worker!Unlock, Worker!remote
  <2>. QED
    BY <2>1 DEF LockedInv
<1>4. CASE Worker!ReadNext \/ Worker!LastBatch
  <2>1. /\ restore = "reading" /\ UNCHANGED <<handling, project, locked>>
        /\ restore' \in {"reading", "rejected", "projecting", "finishing"}
        /\ \/ UNCHANGED port
           \/ \E b \in Seq(Worker!Events) : port' = Worker!Posted("restore", b)
    <3>1. CASE Worker!LastBatch
      BY <1>0, <3>1 DEF Worker!LastBatch, Worker!AtEnd, Worker!PostBatch, RestoreType
    <3>2. CASE Worker!ReadNext
      <4>1. read + 1 \in Worker!Events
        BY <1>0, <3>2 DEF Worker!ReadNext, Worker!HasNext, StoreType, RestoreType, Worker!Events
      <4>2. Append(batch, read + 1) \in Seq(Worker!Events)
        BY <1>0, <4>1 DEF RestoreType
      <4>. QED
        BY <3>2, <4>2 DEF Worker!ReadNext, Worker!HasNext, Worker!PostBatch
    <3>. QED
      BY <1>4, <3>1, <3>2
  <2>2. \A i \in DOMAIN port' : port'[i].caller # "project"
    <3>1. \A i \in DOMAIN port : port[i].caller # "project"
      BY <2>1 DEF LockedInv
    <3>2. ASSUME NEW b \in Seq(Worker!Events), port' = Worker!Posted("restore", b), worker = "ready"
          PROVE  \A i \in DOMAIN port' : port'[i].caller # "project"
      <4>1. \A i \in DOMAIN port' : \/ i \in DOMAIN port /\ port'[i] = port[i]
                                    \/ port'[i].caller = "restore"
        BY <1>0, <3>2, PostedInto DEF Callers
      <4>. QED
        BY <3>1, <4>1
    <3>3. worker # "ready" => \A b \in Seq(Worker!Events) : Worker!Posted("restore", b) = port
      BY DEF Worker!Posted
    <3>. QED
      BY <2>1, <3>1, <3>2, <3>3
  <2>. QED
    BY <2>1, <2>2 DEF LockedInv
<1>5. CASE Worker!Publish
  <2>1. /\ UNCHANGED <<port, restore, locked, handling>>
        /\ \/ restore = "none" /\ UNCHANGED project
           \/ /\ restore # "none"
              /\ project' = [project EXCEPT ![published + 1] =
                                         IF locked THEN "waiting" ELSE "starting"]
    BY <1>5 DEF Worker!Publish, Worker!Become, Worker!remote, Worker!restorer
  <2>. QED
    BY <1>0, <2>1 DEF LockedInv
<1>6. ASSUME NEW e \in Worker!Events, Worker!ViewReady(e)
      PROVE  LockedInv'
  <2>1. /\ UNCHANGED <<port, restore, locked, handling>> /\ project[e] = "waiting" /\ ~locked
        /\ project' = [project EXCEPT ![e] = "starting"]
    BY <1>6 DEF Worker!ViewReady, Worker!Become, Worker!remote, Worker!restorer
  <2>2. restore = "done"
    BY <2>1 DEF LockedInv
  <2>. QED
    BY <1>0, <2>1, <2>2 DEF LockedInv
<1>7. ASSUME NEW e \in Worker!Events,
             Worker!Post(e) \/ Worker!PostFails(e) \/ Worker!Handle(e) \/ Worker!HandlerFails(e)
      PROVE  LockedInv'
  <2>1. UNCHANGED <<restore, locked>> /\ restore = "done"
    BY <1>7 DEF Worker!Post, Worker!PostFails, Worker!Handle, Worker!HandlerFails, LockedInv,
       Worker!restorer
  <2>. QED
    BY <2>1 DEF LockedInv
<1>8. CASE Worker!Receive
  <2>1. /\ Head(port) = port[1] /\ 1 \in DOMAIN port /\ Head(port) \in Calls
        /\ \A i \in DOMAIN port' : i + 1 \in DOMAIN port /\ port'[i] = port[i + 1]
    BY <1>0, <1>8, TakenCall DEF Worker!Receive
  <2>2. /\ UNCHANGED <<restore, locked, project>>
        /\ handling' = handling \/ port[1].caller # "restore"
    BY <1>8, <2>1 DEF Worker!Receive, Worker!restorer
  <2>3. port[1].caller \in {"restore", "project"}
    BY <2>1 DEF Calls, Callers
  <2>. QED
    BY <2>1, <2>2, <2>3 DEF LockedInv
<1>9. CASE Worker!HandleOfBatch \/ Worker!HandlerOfBatchFails
  <2>1. restore \in {"projecting", "finishing"} /\ UNCHANGED <<port, project, handling>>
    BY <1>9 DEF Worker!HandleOfBatch, Worker!HandlerOfBatchFails, CallInv
  <2>2. \/ UNCHANGED <<restore, locked>>
        \/ restore' = "done"
        \/ restore' \in {"reading", "rejected"} /\ UNCHANGED locked
    BY <1>9 DEF Worker!HandleOfBatch, Worker!HandlerOfBatchFails, Worker!Unlock
  <2>. QED
    BY <2>1, <2>2 DEF LockedInv
<1>. QED
  BY <1>1, <1>2, <1>3, <1>4, <1>5, <1>6, <1>7, <1>8, <1>9 DEF Worker!Next, Worker!vars,
     Worker!remote, Worker!restorer, Worker!Store, Worker!WorkerReady, Worker!WorkerFails,
     Worker!Dispose, Worker!Project, Worker!Get

-----------------------------------------------------------------------------
(* What restore() has read.                                                *)

In(e, events) == \E i \in DOMAIN events : events[i] = e

\* An event is in the view, or on its way there in a call of restore().
InView(e) == inView[e] > 0
OnTheWay(e) == In(e, queue) \/ \E i \in DOMAIN port : RestoreCall(i) /\ In(e, port[i].events)

\* What restore() has read is in the view, collected or on the way; when restore() is
\* done, it is in the view.
ReadInv ==
  /\ restore \in {"none", "starting"} => read = 0
  /\ restore = "reading" => \A e \in 1..read : InView(e) \/ In(e, batch)
  /\ restore \in {"projecting", "finishing"} =>
       worker # "ready" \/ \A e \in 1..read : InView(e) \/ OnTheWay(e)
  /\ restore = "done" => \A e \in 1..read : InView(e)
  /\ restore \in {"finishing", "done"} => limit <= read

\* Nothing is taken out of the view.
LEMMA RestoredKept ==
  ASSUME WorkerTypeInv, [Worker!Next]_(Worker!vars), NEW e \in Worker!Events, InView(e)
  PROVE  InView(e)'
<1>1. inView \in [Worker!Events -> Nat]
  BY DEF WorkerTypeInv, EventType
<1>2. inView' = inView \/ \E d \in Worker!Events : inView' = [inView EXCEPT ![d] = @ + 1]
  <2>1. CASE Worker!HandleOfBatch
    <3>1. queue \in Seq(Worker!Events) /\ queue # <<>>
      BY <2>1 DEF Worker!HandleOfBatch, WorkerTypeInv, CallType
    <3>2. Head(queue) \in Worker!Events
      BY <3>1
    <3>. QED
      BY <2>1, <3>2 DEF Worker!HandleOfBatch, Worker!Apply
  <2>2. ASSUME NEW d \in Worker!Events, Worker!Handle(d)
        PROVE  inView' = [inView EXCEPT ![d] = @ + 1]
    BY <2>2 DEF Worker!Handle, Worker!Apply
  <2>3. CASE UNCHANGED inView
    BY <2>3
  <2>. QED
    BY <2>1, <2>2, <2>3 DEF Worker!Next, Worker!vars, Worker!remote, Worker!Store,
       Worker!Publish, Worker!WorkerReady, Worker!WorkerFails, Worker!WorkerExits,
       Worker!Dispose, Worker!Restore, Worker!RestoreFails, Worker!Query, Worker!ReadNext,
       Worker!LastBatch, Worker!NothingLeft, Worker!Receive, Worker!HandlerOfBatchFails,
       Worker!Project, Worker!ViewReady, Worker!Post, Worker!PostFails, Worker!HandlerFails,
       Worker!Get
<1>. QED
  BY <1>1, <1>2 DEF InView

\* An event that is collected is in the batch with those before it.
LEMMA InAppended ==
  ASSUME NEW s \in Seq(Worker!Events), NEW x \in Worker!Events, NEW e, In(e, s) \/ e = x
  PROVE  In(e, Append(s, x))
<1>1. /\ DOMAIN s = 1..Len(s) /\ DOMAIN Append(s, x) = 1..(Len(s) + 1) /\ Len(s) \in Nat
      /\ \A i \in 1..Len(s) : Append(s, x)[i] = s[i]
      /\ Append(s, x)[Len(s) + 1] = x
  OBVIOUS
<1>2. \A i \in DOMAIN s : i \in DOMAIN Append(s, x)
  BY <1>1
<1>3. Len(s) + 1 \in DOMAIN Append(s, x)
  BY <1>1
<1>. QED
  BY <1>1, <1>2, <1>3 DEF In

\* A batch that is posted is on its way.
LEMMA OnTheWayPosted ==
  ASSUME CallType, worker = "ready", NEW events \in Seq(Worker!Events),
         port' = Worker!Posted("restore", events),
         NEW e, In(e, events)
  PROVE  OnTheWay(e)'
<1>1. /\ DOMAIN port' = 1..(Len(port) + 1) /\ Len(port) \in Nat
      /\ port'[Len(port) + 1] = [caller |-> "restore", events |-> events]
  BY PostedCall DEF Callers
<1>2. Len(port) + 1 \in DOMAIN port'
  BY <1>1
<1>3. port'[Len(port) + 1].caller = "restore" /\ port'[Len(port) + 1].events = events
  BY <1>1
<1>. QED
  BY <1>2, <1>3 DEF OnTheWay, RestoreCall

\* What is on the way stays there until it is in the view, if the worker lives and no
\* handler throws.
LEMMA OnTheWayKept ==
  ASSUME WorkerTypeInv, CallInv, [Worker!Next]_(Worker!vars), worker' = "ready",
         ~Worker!HandlerOfBatchFails, ~Worker!ReadNext, ~Worker!LastBatch,
         NEW e \in Worker!Events, OnTheWay(e)
  PROVE  InView(e)' \/ OnTheWay(e)'
<1>0. CallType
  BY DEF WorkerTypeInv
<1>1. CASE UNCHANGED <<port, queue>>
  BY <1>1 DEF OnTheWay, RestoreCall, In
<1>2. ASSUME NEW d \in Worker!Events, Worker!Post(d)
      PROVE  OnTheWay(e)'
  <2>1. /\ UNCHANGED queue /\ worker = "ready"
        /\ port' = Worker!Posted("project", <<d>>) /\ <<d>> \in Seq(Worker!Events)
    BY <1>2 DEF Worker!Post, Worker!thread
  <2>2. /\ DOMAIN port' = 1..(Len(port) + 1) /\ DOMAIN port = 1..Len(port) /\ Len(port) \in Nat
        /\ \A i \in 1..Len(port) : port'[i] = port[i]
    BY <1>0, <2>1, PostedCall DEF Callers
  <2>3. \A i \in DOMAIN port : i \in DOMAIN port'
    BY <2>2
  <2>4. \A i \in DOMAIN port : port'[i] = port[i]
    BY <2>2
  <2>. QED
    BY <2>1, <2>3, <2>4 DEF OnTheWay, RestoreCall
<1>3. CASE Worker!Receive
  <2>1. /\ Head(port) = port[1] /\ port' = Tail(port)
        /\ \A i \in DOMAIN port' : i # 0 /\ i + 1 \in DOMAIN port /\ port'[i] = port[i + 1]
        /\ \A i \in DOMAIN port : i = 1 \/ (i - 1 \in DOMAIN port' /\ i = (i - 1) + 1)
    BY <1>0, <1>3, TakenCall DEF Worker!Receive
  <2>2. CASE In(e, queue)
    <3>1. queue # <<>> /\ 1 \in DOMAIN port
      <4>1. port # <<>>
        BY <1>3 DEF Worker!Receive
      <4>2. 1 \in DOMAIN port
        BY <1>0, <4>1, TakenCall
      <4>. QED
        BY <2>2, <4>2 DEF In
    <3>2. ~RestoreCall(1)
      BY <3>1 DEF CallInv, NoRestoreCall
    <3>3. UNCHANGED queue
      BY <1>3, <2>1, <3>1, <3>2 DEF Worker!Receive, RestoreCall
    <3>. QED
      BY <2>2, <3>3 DEF OnTheWay
  <2>3. ASSUME NEW i \in DOMAIN port, RestoreCall(i), In(e, port[i].events)
        PROVE  OnTheWay(e)'
    <3>1. CASE i = 1
      <4>1. queue' = port[1].events
        BY <1>3, <2>1, <2>3, <3>1 DEF Worker!Receive, RestoreCall
      <4>. QED
        BY <2>3, <3>1, <4>1 DEF OnTheWay
    <3>2. CASE i # 1
      <4>1. i - 1 \in DOMAIN port' /\ i = (i - 1) + 1
        BY <2>1, <3>2
      <4>2. port'[i - 1] = port[i]
        BY <2>1, <4>1
      <4>. QED
        BY <2>3, <4>1, <4>2 DEF OnTheWay, RestoreCall
    <3>. QED
      BY <3>1, <3>2
  <2>. QED
    BY <2>2, <2>3 DEF OnTheWay
<1>4. CASE Worker!HandleOfBatch
  <2>1. queue \in Seq(Worker!Events) /\ queue # <<>> /\ NoRestoreCall
    BY <1>0, <1>4 DEF Worker!HandleOfBatch, CallType, CallInv
  <2>2. PICK i \in DOMAIN queue : queue[i] = e
    BY <2>1 DEF OnTheWay, NoRestoreCall, In
  <2>3. /\ DOMAIN queue = 1..Len(queue) /\ Len(queue) \in Nat /\ Head(queue) = queue[1]
        /\ DOMAIN Tail(queue) = 1..(Len(queue) - 1)
        /\ \A j \in 1..(Len(queue) - 1) : Tail(queue)[j] = queue[j + 1]
    BY <2>1
  <2>4. CASE i = 1
    <3>1. inView' = [inView EXCEPT ![e] = @ + 1] /\ inView \in [Worker!Events -> Nat]
      BY <1>4, <2>2, <2>3, <2>4 DEF Worker!HandleOfBatch, Worker!Apply, WorkerTypeInv, EventType
    <3>. QED
      BY <3>1 DEF InView
  <2>5. CASE i # 1
    <3>1. i - 1 \in 1..(Len(queue) - 1) /\ (i - 1) + 1 = i
      BY <2>2, <2>3, <2>5
    <3>2. i - 1 \in DOMAIN Tail(queue) /\ Tail(queue)[i - 1] = e
      BY <2>2, <2>3, <3>1
    <3>3. queue' = Tail(queue)
      BY <1>4 DEF Worker!HandleOfBatch
    <3>. QED
      BY <3>2, <3>3 DEF OnTheWay, In
  <2>. QED
    BY <2>4, <2>5
<1>5. ~Worker!WorkerExits
  BY DEF Worker!WorkerExits
<1>. QED
  BY <1>1, <1>2, <1>3, <1>4, <1>5 DEF Worker!Next, Worker!vars, Worker!remote, Worker!Store,
     Worker!Publish, Worker!WorkerReady, Worker!WorkerFails, Worker!Dispose, Worker!Restore,
     Worker!RestoreFails, Worker!Query, Worker!NothingLeft, Worker!Project, Worker!ViewReady,
     Worker!PostFails, Worker!Handle, Worker!HandlerFails, Worker!Get

LEMMA ReadStep ==
  ASSUME Worker!ConstantsAssumption, WorkerTypeInv, CallInv, ReadInv, [Worker!Next]_(Worker!vars)
  PROVE  ReadInv'
<1>0. /\ CallType /\ StoreType /\ RestoreType /\ MaxEvents \in Nat
      /\ inStorage \in Nat /\ read \in Nat /\ limit \in Nat /\ batch \in Seq(Worker!Events)
  BY DEF Worker!ConstantsAssumption, WorkerTypeInv, StoreType, RestoreType
<1>1. 1..read \subseteq Worker!Events
  BY <1>0 DEF StoreType, RestoreType, Worker!Events
<1>2. \A e \in 1..read : InView(e) => InView(e)'
  BY <1>1, RestoredKept
<1>3. CASE Worker!Restore \/ Worker!RestoreFails \/ Worker!Query
  <2>1. /\ UNCHANGED read /\ restore \in {"none", "starting"}
        /\ restore' \in {"starting", "rejected", "reading"}
    BY <1>3 DEF Worker!Restore, Worker!RestoreFails, Worker!Query
  <2>2. read = 0 /\ 1..read' = {}
    BY <2>1 DEF ReadInv
  <2>. QED
    BY <2>1, <2>2 DEF ReadInv
<1>4. CASE Worker!ReadNext
  <2>1. /\ restore = "reading" /\ read' = read + 1 /\ read + 1 \in Worker!Events
        /\ 1..(read + 1) = 1..read \cup {read + 1}
    BY <1>0, <1>4 DEF Worker!ReadNext, Worker!HasNext, StoreType, RestoreType, Worker!Events
  <2>. DEFINE full == Append(batch, read + 1)
  <2>2. full \in Seq(Worker!Events) /\ \A e \in 1..read' : InView(e)' \/ In(e, full)
    <3>1. full \in Seq(Worker!Events)
      BY <1>0, <2>1
    <3>2. ASSUME NEW e \in 1..read'
          PROVE  InView(e)' \/ In(e, full)
      <4>1. e = read + 1 \/ e \in 1..read
        BY <2>1
      <4>2. InView(e)' \/ In(e, batch) \/ e = read + 1
        BY <1>2, <2>1, <4>1 DEF ReadInv
      <4>. QED
        BY <1>0, <2>1, <4>2, InAppended
    <3>. QED
      BY <3>1, <3>2
  <2>. HIDE DEF full
  <2>3. \/ batch' = full /\ UNCHANGED restore
        \/ restore' = "rejected"
        \/ restore' = "projecting" /\ port' = Worker!Posted("restore", full)
    BY <1>4 DEF Worker!ReadNext, Worker!PostBatch, full
  <2>4. UNCHANGED worker
    BY <1>4 DEF Worker!ReadNext, Worker!thread
  <2>5. CASE batch' = full /\ UNCHANGED restore
    BY <2>1, <2>2, <2>5 DEF ReadInv, In
  <2>6. CASE restore' = "rejected"
    BY <2>6 DEF ReadInv
  <2>7. CASE restore' = "projecting" /\ port' = Worker!Posted("restore", full)
    <3>1. worker = "ready" => \A e \in 1..read' : InView(e)' \/ OnTheWay(e)'
      BY <1>0, <2>2, <2>7, OnTheWayPosted
    <3>. QED
      BY <2>4, <2>7, <3>1 DEF ReadInv
  <2>. QED
    BY <2>3, <2>5, <2>6, <2>7
<1>5. CASE Worker!LastBatch
  <2>1. /\ restore = "reading" /\ read >= limit /\ UNCHANGED <<read, limit, worker>>
        /\ \/ restore' = "rejected"
           \/ restore' = "finishing" /\ port' = Worker!Posted("restore", batch)
    BY <1>5 DEF Worker!LastBatch, Worker!AtEnd, Worker!PostBatch, Worker!thread
  <2>2. CASE restore' = "rejected"
    BY <2>2 DEF ReadInv
  <2>3. CASE restore' = "finishing" /\ port' = Worker!Posted("restore", batch)
    <3>1. \A e \in 1..read' : InView(e)' \/ In(e, batch)
      BY <1>2, <2>1 DEF ReadInv
    <3>2. worker = "ready" => \A e \in 1..read' : InView(e)' \/ OnTheWay(e)'
      BY <1>0, <2>3, <3>1, OnTheWayPosted
    <3>3. limit' <= read'
      BY <1>0, <2>1
    <3>. QED
      BY <2>1, <2>3, <3>2, <3>3 DEF ReadInv
  <2>. QED
    BY <2>1, <2>2, <2>3
<1>6. CASE Worker!NothingLeft
  <2>1. /\ restore = "reading" /\ read >= limit /\ UNCHANGED <<read, limit>>
        /\ batch = <<>> /\ restore' = "done"
    BY <1>6 DEF Worker!NothingLeft, Worker!AtEnd, Worker!Unlock
  <2>2. \A e : ~In(e, batch)
    BY <2>1 DEF In
  <2>3. \A e \in 1..read' : InView(e)'
    BY <1>2, <2>1, <2>2 DEF ReadInv
  <2>4. limit' <= read'
    BY <1>0, <2>1
  <2>. QED
    BY <2>1, <2>3, <2>4 DEF ReadInv
<1>7. CASE Worker!HandlerOfBatchFails
  <2>1. restore' = "rejected"
    BY <1>7 DEF Worker!HandlerOfBatchFails
  <2>. QED
    BY <2>1 DEF ReadInv
<1>8. CASE Worker!HandleOfBatch
  <2>1. /\ UNCHANGED <<read, limit, port, worker, batch>> /\ NoRestoreCall /\ worker = "ready"
        /\ restore \in {"projecting", "finishing"} /\ queue # <<>> /\ queue' = Tail(queue)
    BY <1>8 DEF Worker!HandleOfBatch, CallInv, Worker!thread
  <2>2. \A e \in 1..read : InView(e) \/ OnTheWay(e)
    BY <2>1 DEF ReadInv
  <2>3. restore' # "rejected" =>
          ~Worker!HandlerOfBatchFails /\ ~Worker!ReadNext /\ ~Worker!LastBatch
    BY <2>1 DEF Worker!HandlerOfBatchFails, Worker!ReadNext, Worker!HasNext, Worker!LastBatch,
       Worker!AtEnd
  <2>4. CASE restore' = "rejected"
    BY <2>4 DEF ReadInv
  <2>5. CASE restore' # "rejected"
    <3>1. \A e \in 1..read' : InView(e)' \/ OnTheWay(e)'
      BY <1>1, <1>2, <2>1, <2>2, <2>3, <2>5, OnTheWayKept
    <3>2. CASE UNCHANGED restore
      BY <2>1, <3>1, <3>2 DEF ReadInv
    <3>3. CASE ~UNCHANGED restore
      <4>1. queue' = <<>>
        <5>1. queue \in Seq(Worker!Events) /\ queue # <<>>
          BY <1>0, <2>1 DEF CallType
        <5>2. ~(Len(queue) > 1) => Tail(queue) = <<>>
          BY <5>1
        <5>. QED
          BY <1>8, <2>1, <3>3, <5>2 DEF Worker!HandleOfBatch
      <4>2. NoRestoreCall'
        BY <2>1 DEF NoRestoreCall, RestoreCall
      <4>3. \A e \in 1..read' : InView(e)'
        BY <3>1, <4>1, <4>2 DEF OnTheWay, In, NoRestoreCall
      <4>4. restore' = "reading" \/ (restore' = "done" /\ restore = "finishing")
        BY <1>8, <3>3 DEF Worker!HandleOfBatch, Worker!Unlock
      <4>. QED
        BY <2>1, <4>3, <4>4 DEF ReadInv
    <3>. QED
      BY <3>2, <3>3
  <2>. QED
    BY <2>4, <2>5
<1>9. CASE /\ UNCHANGED <<restore, read, limit, batch>>
           /\ ~Worker!HandleOfBatch /\ ~Worker!HandlerOfBatchFails
           /\ ~Worker!ReadNext /\ ~Worker!LastBatch
  <2>1. worker' = "ready" => worker = "ready" \/ restore \notin {"projecting", "finishing"}
    <3>1. worker' = worker \/ worker = "starting" \/ worker' = "exited"
      BY <1>9 DEF Worker!Next, Worker!vars, Worker!thread, Worker!Store, Worker!Publish,
         Worker!WorkerReady, Worker!WorkerFails, Worker!WorkerExits, Worker!Dispose,
         Worker!Restore, Worker!RestoreFails, Worker!Query, Worker!NothingLeft, Worker!Receive,
         Worker!Project, Worker!ViewReady, Worker!Post, Worker!PostFails, Worker!Handle,
         Worker!HandlerFails, Worker!Get
    <3>. QED
      BY <3>1 DEF CallInv
  <2>2. worker' = "ready" => \A e \in 1..read : OnTheWay(e) => InView(e)' \/ OnTheWay(e)'
    BY <1>1, <1>9, OnTheWayKept
  <2>3. \A e \in 1..read : In(e, batch) => In(e, batch)'
    BY <1>9 DEF In
  <2>4. restore' \in {"projecting", "finishing"} =>
          worker' # "ready" \/ \A e \in 1..read' : InView(e)' \/ OnTheWay(e)'
    <3>1. SUFFICES ASSUME restore \in {"projecting", "finishing"}, worker' = "ready",
                          NEW e \in 1..read
                   PROVE  InView(e)' \/ OnTheWay(e)'
      BY <1>9
    <3>2. InView(e) \/ OnTheWay(e)
      BY <2>1, <3>1 DEF ReadInv
    <3>. QED
      BY <1>2, <2>2, <3>1, <3>2
  <2>5. restore' = "reading" => \A e \in 1..read' : InView(e)' \/ In(e, batch)'
    BY <1>2, <1>9, <2>3 DEF ReadInv
  <2>6. restore' = "done" => \A e \in 1..read' : InView(e)'
    BY <1>2, <1>9 DEF ReadInv
  <2>. QED
    BY <1>9, <2>4, <2>5, <2>6 DEF ReadInv
<1>. QED
  <2>1. \/ UNCHANGED <<restore, read, limit, batch>>
        \/ Worker!Restore \/ Worker!RestoreFails \/ Worker!Query
        \/ Worker!ReadNext \/ Worker!LastBatch \/ Worker!NothingLeft
        \/ Worker!HandleOfBatch \/ Worker!HandlerOfBatchFails
    BY DEF Worker!Next, Worker!vars, Worker!restorer, Worker!Store, Worker!Publish,
       Worker!WorkerReady, Worker!WorkerFails, Worker!WorkerExits, Worker!Dispose,
       Worker!Receive, Worker!Project, Worker!ViewReady, Worker!Post, Worker!PostFails,
       Worker!Handle, Worker!HandlerFails, Worker!Get
  <2>. QED
    BY <1>3, <1>4, <1>5, <1>6, <1>7, <1>8, <1>9, <2>1

-----------------------------------------------------------------------------
(* What is published.                                                      *)

\* The subscription has every event that the query has not.
SubscribedInv ==
  restore \in {"reading", "projecting", "finishing", "done"} =>
    \A e \in 1..published : project[e] = "none" => e <= limit

LEMMA SubscribedStep ==
  ASSUME Worker!ConstantsAssumption, WorkerTypeInv, CallInv, SubscribedInv,
         [Worker!Next]_(Worker!vars)
  PROVE  SubscribedInv'
<1>0. /\ StoreType /\ MaxEvents \in Nat /\ inStorage \in Nat /\ published \in Nat
      /\ published <= inStorage /\ published <= MaxEvents
      /\ project \in [Worker!Events -> ProjectStates]
  BY DEF Worker!ConstantsAssumption, WorkerTypeInv, StoreType, EventType
<1>1. 1..published \subseteq Worker!Events
  BY <1>0 DEF Worker!Events
<1>2. CASE Worker!Query
  <2>1. limit' = inStorage /\ UNCHANGED published
    BY <1>2 DEF Worker!Query, Worker!store
  <2>2. \A e \in 1..published : e <= inStorage
    BY <1>0
  <2>. QED
    BY <2>1, <2>2 DEF SubscribedInv
<1>3. CASE Worker!Publish
  <2>1. /\ UNCHANGED <<limit, restore>> /\ published' = published + 1
        /\ restore # "none" => \E s \in {"waiting", "starting"} :
                                  project' = [project EXCEPT ![published + 1] = s]
    BY <1>3 DEF Worker!Publish, Worker!Become, Worker!restorer
  <2>2. SUFFICES ASSUME restore' \in {"reading", "projecting", "finishing", "done"},
                        NEW e \in 1..published', project'[e] = "none"
                 PROVE  e <= limit'
    BY DEF SubscribedInv
  <2>3. PICK s \in {"waiting", "starting"} : project' = [project EXCEPT ![published + 1] = s]
    BY <2>1, <2>2
  <2>4. published + 1 \in Worker!Events
    BY <1>0, <1>3 DEF Worker!Publish, StoreType, Worker!Events
  <2>5. e # published + 1
    BY <1>0, <2>2, <2>3, <2>4
  <2>6. e \in 1..published
    BY <1>0, <2>1, <2>2, <2>5
  <2>7. project'[e] = project[e]
    BY <1>0, <1>1, <2>3, <2>5, <2>6
  <2>. QED
    BY <2>1, <2>2, <2>6, <2>7 DEF SubscribedInv
<1>4. ASSUME NEW d \in Worker!Events, Worker!Project(d)
      PROVE  SubscribedInv'
  <2>1. /\ UNCHANGED <<limit, restore, published>>
        /\ \E s \in {"starting", "posted", "rejected", "done"} :
             project' = [project EXCEPT ![d] = s]
    BY <1>4 DEF Worker!Project, Worker!ViewReady, Worker!Post, Worker!PostFails, Worker!Handle,
       Worker!HandlerFails, Worker!Become, Worker!restorer, Worker!store
  <2>2. \A e \in 1..published : project'[e] = "none" => project[e] = "none"
    BY <1>0, <1>1, <2>1
  <2>. QED
    BY <2>1, <2>2 DEF SubscribedInv
<1>5. CASE /\ UNCHANGED <<limit, published, project>>
           /\ restore' \in {"reading", "projecting", "finishing", "done"} =>
                restore \in {"reading", "projecting", "finishing", "done"}
  BY <1>5 DEF SubscribedInv
<1>. QED
  <2>1. CASE Worker!HandleOfBatch \/ Worker!HandlerOfBatchFails
    <3>1. restore \in {"projecting", "finishing"} /\ UNCHANGED <<limit, published, project>>
      BY <2>1 DEF Worker!HandleOfBatch, Worker!HandlerOfBatchFails, CallInv, Worker!store
    <3>. QED
      BY <1>5, <3>1
  <2>. QED
    BY <1>2, <1>3, <1>4, <1>5, <2>1 DEF Worker!Next, Worker!vars, Worker!store, Worker!restorer,
       Worker!Store, Worker!WorkerReady, Worker!WorkerFails, Worker!WorkerExits, Worker!Dispose,
       Worker!Restore, Worker!RestoreFails, Worker!ReadNext, Worker!HasNext, Worker!LastBatch,
       Worker!NothingLeft, Worker!AtEnd, Worker!PostBatch, Worker!Unlock, Worker!Receive,
       Worker!Get

-----------------------------------------------------------------------------
(* The theorems.                                                           *)

WorkerInv == WorkerTypeInv /\ CallInv /\ LockedInv /\ ReadInv /\ SubscribedInv

LEMMA WorkerInvariant ==
  Worker!ConstantsAssumption => (Worker!Spec => []WorkerInv)
<1>. SUFFICES ASSUME Worker!ConstantsAssumption
              PROVE  Worker!Spec => []WorkerInv
  OBVIOUS
<1>1. Worker!Init => WorkerInv
  <2>. SUFFICES ASSUME Worker!Init
                PROVE  WorkerInv
    OBVIOUS
  <2>1. CallInv /\ LockedInv
    BY DEF Worker!Init, CallInv, NoRestoreCall, RestoreCall, LockedInv
  <2>2. ReadInv /\ SubscribedInv
    BY DEF Worker!Init, ReadInv, SubscribedInv
  <2>. QED
    BY <2>1, <2>2, WorkerInitType DEF WorkerInv
<1>2. WorkerInv /\ [Worker!Next]_(Worker!vars) => WorkerInv'
  BY WorkerTypeStep, CallStep, LockedStep, ReadStep, SubscribedStep DEF WorkerInv
<1>. QED
  BY <1>1, <1>2, PTL DEF Worker!Spec

\* restore() and the subscription leave no event between them: once the view is restored,
\* each event that was published is in it, or project() has it.
THEOREM NoGap ==
  Worker!ConstantsAssumption => (Worker!Spec => []Worker!NothingMissed)
<1>. SUFFICES ASSUME Worker!ConstantsAssumption
              PROVE  Worker!Spec => []Worker!NothingMissed
  OBVIOUS
<1>1. WorkerInv => Worker!NothingMissed
  <2>. SUFFICES ASSUME WorkerInv, restore = "done", NEW e \in 1..published, project[e] = "none"
                PROVE  inView[e] > 0
    BY DEF Worker!NothingMissed
  <2>1. e <= limit /\ limit <= read
    BY DEF WorkerInv, SubscribedInv, ReadInv
  <2>2. read \in Nat /\ limit \in Nat /\ published \in Nat
    BY DEF WorkerInv, WorkerTypeInv, StoreType, RestoreType
  <2>3. e \in 1..read
    BY <2>1, <2>2
  <2>. QED
    BY <2>3 DEF WorkerInv, ReadInv, InView
<1>. QED
  BY <1>1, WorkerInvariant, PTL

\* The handlers of the worker get no event of the bus before its view has all that
\* restore() has read.
THEOREM RestoredBeforeHandled ==
  Worker!ConstantsAssumption => (Worker!Spec => []Worker!RestoredFirst)
<1>. SUFFICES ASSUME Worker!ConstantsAssumption
              PROVE  Worker!Spec => []Worker!RestoredFirst
  OBVIOUS
<1>1. WorkerInv => Worker!RestoredFirst
  <2>. SUFFICES ASSUME WorkerInv, NEW e \in Worker!Events, e \in handling \/ project[e] = "done",
                       NEW d \in 1..read
                PROVE  inView[d] > 0
    BY DEF Worker!RestoredFirst
  <2>1. restore = "done"
    BY DEF WorkerInv, LockedInv
  <2>. QED
    BY <2>1 DEF WorkerInv, ReadInv, InView
<1>. QED
  BY <1>1, WorkerInvariant, PTL
=============================================================================
