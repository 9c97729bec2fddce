----------------------------- MODULE Projection ------------------------------
(***************************************************************************)
(* A persistent projection: several processes update one view, which lives  *)
(* in a shared database (SQLite, MongoDB or Redis) together with the lock   *)
(* of each event, held while it is projected, and the checkpoint, the last  *)
(* event projected (IEventLocker).                                         *)
(*                                                                         *)
(* On start a process subscribes to the events, locks the view (the lock is *)
(* module ViewLocker, of which only its promise is used here), and restores *)
(* the view from the events after the checkpoint; events published to it    *)
(* meanwhile wait.  A task is one call of AbstractProjection._project(), of *)
(* a restore or of a published event.                                      *)
(***************************************************************************)
EXTENDS Naturals

CONSTANTS
  Procs,       \* processes with an instance of the projection
  Backend,     \* the implementation of the lockers
  LastEvent,   \* the events are 1..LastEvent, in storage order (bound)
  MaxCrashes,  \* most process crashes (bound)
  MaxErrors    \* most errors of handlers and of the databases (bound)

ASSUME ConstantsAssumption ==
  /\ Backend \in {"sqlite", "mongo", "redis"}
  /\ LastEvent \in Nat
  /\ MaxCrashes \in Nat
  /\ MaxErrors \in Nat

VARIABLES
  stored,      \* the number of events in the event storage
  eventLock,   \* the row or key of each event in the database
  checkpoint,  \* last_event in the database, 0 when there is none
  phase,       \* where restore() is in each process
  from, upTo,  \* the checkpoint and the last event that it has read
  task,        \* where each _project() is
  applied,     \* history: how often an event has taken effect on the view
  expiries,    \* history: how often the lock of an event has expired
  crashes, errors

database == <<eventLock, checkpoint, expiries>>
restores == <<phase, from, upTo>>
bounds   == <<crashes, errors>>
vars     == <<stored, database, restores, task, applied, bounds>>

Events == 1..LastEvent
Tasks  == Procs \X Events \X {"live", "restore"}

EventLock == {"free", "processing", "expired", "processed"}

\* In lock(); before getLastEvent(); before getEventsByTypes(); in the loop; after
\* unlock(); or stopped by an error, with the view locked.
Restoring == {"locked", "querying", "restoring"}
Phase     == {"down", "locking", "ready", "failed"} \cup Restoring

\* Awaiting the view; in the handler, with the event locked; in markAsProjected();
\* in markAsLastEvent(); returned, also when the event was locked; thrown.
TaskState == {"none", "waiting", "handling", "marking", "recording", "done", "failed"}

Init ==
  /\ stored     = 0
  /\ eventLock  = [e \in Events |-> "free"]
  /\ checkpoint = 0
  /\ phase      = [p \in Procs |-> "down"]
  /\ from       = [p \in Procs |-> 0]
  /\ upTo       = [p \in Procs |-> 0]
  /\ task       = [t \in Tasks |-> "none"]
  /\ applied    = [e \in Events |-> 0]
  /\ expiries   = [e \in Events |-> 0]
  /\ crashes    = 0
  /\ errors     = 0

Enter(p, where) == phase' = [phase EXCEPT ![p] = where]
Proceed(t, to)  == task' = [task EXCEPT ![t] = to]

\* An aggregate's event is stored.
Store ==
  /\ stored < LastEvent
  /\ stored' = stored + 1
  /\ UNCHANGED <<database, restores, task, applied, bounds>>

-----------------------------------------------------------------------------
(* The lock of an event (IEventLocker)                                     *)

\* Mutant of Lockable: a lock that has been processed is taken over, too.
LockableProcessed(e) == eventLock[e] # "processing"

\* The lock of an event is taken if it is free or expired.
Lockable(e) == eventLock[e] \in {"free", "expired"}

\* Mutant of TryMark: the event is marked as projected when its lock is taken.
TryMarkProjected(t) ==
  LET e == t[2] IN
  /\ eventLock' = [eventLock EXCEPT ![e] = IF Lockable(e) THEN "processed" ELSE @]
  /\ Proceed(t, IF Lockable(e) THEN "handling" ELSE "done")

\* tryMarkAsProjecting(): an event locked by another task is not projected.
TryMark(t) ==
  LET e == t[2] IN
  /\ eventLock' = [eventLock EXCEPT ![e] = IF Lockable(e) THEN "processing" ELSE @]
  /\ Proceed(t, IF Lockable(e) THEN "handling" ELSE "done")

\* markAsProjected() finds a lock that is not processed yet. No owner is compared:
\* it may have expired, and even have been taken over by another task.
Markable(e) == eventLock[e] \in {"processing", "expired"}

\* The lock is not prolonged: it expires under a slow handler, or after its task
\* has failed or its process has stopped. Redis then removes the key.
Expire(e) ==
  /\ eventLock[e] = "processing"
  /\ eventLock' = [eventLock EXCEPT ![e] = IF Backend = "redis" THEN "free" ELSE "expired"]
  /\ expiries'  = [expiries EXCEPT ![e] = @ + 1]
  /\ UNCHANGED <<stored, checkpoint, restores, task, applied, bounds>>

-----------------------------------------------------------------------------
(* project() and _project()                                                *)

\* An event is published to a process that is subscribed.
Deliver(p, e) ==
  /\ phase[p] # "down"
  /\ e <= stored
  /\ task[<<p, e, "live">>] = "none"
  /\ Proceed(<<p, e, "live">>, "waiting")
  /\ UNCHANGED <<stored, database, restores, applied, bounds>>

\* It is projected as soon as the view is ready.
Begin(t) ==
  /\ task[t] = "waiting"
  /\ phase[t[1]] = "ready"
  /\ TryMark(t)
  /\ UNCHANGED <<stored, checkpoint, expiries, restores, applied, bounds>>

\* The handler has updated the view.
Handle(t) ==
  /\ task[t] = "handling"
  /\ applied' = [applied EXCEPT ![t[2]] = @ + 1]
  /\ Proceed(t, "marking")
  /\ UNCHANGED <<stored, database, restores, bounds>>

Mark(t) ==
  /\ task[t] = "marking"
  /\ Markable(t[2])
  /\ eventLock' = [eventLock EXCEPT ![t[2]] = "processed"]
  /\ Proceed(t, "recording")
  /\ UNCHANGED <<stored, checkpoint, expiries, restores, applied, bounds>>

\* markAsLastEvent()
Record(t) ==
  /\ task[t] = "recording"
  /\ checkpoint' = t[2]
  /\ Proceed(t, "done")
  /\ UNCHANGED <<stored, eventLock, expiries, restores, applied, bounds>>

\* An error ends the task, and the restore it belongs to.
Throw(t) ==
  /\ Proceed(t, "failed")
  /\ phase' = IF t[3] = "restore" THEN [phase EXCEPT ![t[1]] = "failed"] ELSE phase
  /\ UNCHANGED <<stored, database, from, upTo, applied, crashes>>

\* markAsProjected() finds no lock to mark.
MarkFails(t) ==
  /\ task[t] = "marking"
  /\ ~Markable(t[2])
  /\ Throw(t)
  /\ UNCHANGED errors

\* The handler throws, or the database fails.
Fails(t) ==
  /\ task[t] \in {"handling", "marking", "recording"}
  /\ errors < MaxErrors
  /\ errors' = errors + 1
  /\ Throw(t)

-----------------------------------------------------------------------------
(* restore()                                                               *)

\* The process starts: the projection subscribes, and calls lock(), which makes it
\* "not ready" before its first await.
Start(p) ==
  /\ phase[p] = "down"
  /\ Enter(p, "locking")
  /\ UNCHANGED <<stored, database, from, upTo, task, applied, bounds>>

\* lock() returns: with SQLite at any time, with the others when no other process
\* restores (OneRestoreAtATime of ViewLocker). A process that starts again may find
\* its former lock expired or not; which one, and the lock of events, depends on
\* their times to live, which the application chooses.
LockView(p) ==
  /\ phase[p] = "locking"
  /\ Backend = "sqlite" \/ \A q \in Procs : phase[q] \notin Restoring
  /\ Enter(p, "locked")
  /\ UNCHANGED <<stored, database, from, upTo, task, applied, bounds>>

\* getLastEvent() ...
ReadCheckpoint(p) ==
  /\ phase[p] = "locked"
  /\ from' = [from EXCEPT ![p] = checkpoint]
  /\ Enter(p, "querying")
  /\ UNCHANGED <<stored, database, upTo, task, applied, bounds>>

\* ... and getEventsByTypes(), which returns the events after it.
Query(p) ==
  /\ phase[p] = "querying"
  /\ upTo' = [upTo EXCEPT ![p] = stored]
  /\ Enter(p, "restoring")
  /\ UNCHANGED <<stored, database, from, task, applied, bounds>>

ToRestore(p) == (from[p] + 1)..upTo[p]

Restored(p, e) == task[<<p, e, "restore">>] = "done"

\* The events are projected one after the other.
RestoreNext(p, e) ==
  /\ phase[p] = "restoring"
  /\ e \in ToRestore(p)
  /\ task[<<p, e, "restore">>] = "none"
  /\ \A d \in ToRestore(p) : d < e => Restored(p, d)
  /\ TryMark(<<p, e, "restore">>)
  /\ UNCHANGED <<stored, checkpoint, expiries, restores, applied, bounds>>

\* Mutant of EndRestore: the last projection is not awaited.
EndRestoreUnawaited(p) ==
  /\ phase[p] = "restoring"
  /\ \A e \in ToRestore(p) : task[<<p, e, "restore">>] # "none"
  /\ checkpoint' = IF ToRestore(p) = {} THEN checkpoint ELSE upTo[p]
  /\ Enter(p, "ready")
  /\ UNCHANGED <<stored, eventLock, expiries, from, upTo, task, applied, bounds>>

\* The loop has ended: its last event is recorded as the checkpoint, also when it
\* was locked by another task; unlock() makes the view ready before its first await.
EndRestore(p) ==
  /\ phase[p] = "restoring"
  /\ \A e \in ToRestore(p) : Restored(p, e)
  /\ checkpoint' = IF ToRestore(p) = {} THEN checkpoint ELSE upTo[p]
  /\ Enter(p, "ready")
  /\ UNCHANGED <<stored, eventLock, expiries, from, upTo, task, applied, bounds>>

\* A database fails between two events of the restore: the view stays locked.
RestoreFails(p) ==
  /\ phase[p] \in Restoring
  /\ \A e \in Events : task[<<p, e, "restore">>] \in {"none", "done"}
  /\ errors < MaxErrors
  /\ errors' = errors + 1
  /\ Enter(p, "failed")
  /\ UNCHANGED <<stored, database, from, upTo, task, applied, crashes>>

\* A process stops, with all that it was doing.
Crash(p) ==
  /\ crashes < MaxCrashes
  /\ phase[p] # "down"
  /\ crashes' = crashes + 1
  /\ Enter(p, "down")
  /\ from' = [from EXCEPT ![p] = 0]
  /\ upTo' = [upTo EXCEPT ![p] = 0]
  /\ task' = [t \in Tasks |-> IF t[1] = p THEN "none" ELSE task[t]]
  /\ UNCHANGED <<stored, database, applied, errors>>

-----------------------------------------------------------------------------

Step(t) == Begin(t) \/ Handle(t) \/ Mark(t) \/ MarkFails(t) \/ Record(t) \/ Fails(t)

Restore(p) ==
  \/ LockView(p) \/ ReadCheckpoint(p) \/ Query(p) \/ EndRestore(p) \/ RestoreFails(p)
  \/ \E e \in Events : RestoreNext(p, e)

Next ==
  \/ Store
  \/ \E p \in Procs : Start(p) \/ Restore(p) \/ Crash(p) \/ \E e \in Events : Deliver(p, e)
  \/ \E t \in Tasks : Step(t)
  \/ \E e \in Events : Expire(e)

Spec == Init /\ [][Next]_vars

-----------------------------------------------------------------------------
(* Properties.                                                             *)

\* Types of the variables; the checkpoint is a stored event.
TypeOK ==
  /\ stored \in 0..LastEvent
  /\ eventLock \in [Events -> EventLock]
  /\ checkpoint \in 0..stored
  /\ phase \in [Procs -> Phase]
  /\ from \in [Procs -> 0..stored]
  /\ upTo \in [Procs -> 0..stored]
  /\ task \in [Tasks -> TaskState]
  /\ applied \in [Events -> Nat]
  /\ expiries \in [Events -> Nat]
  /\ crashes \in Nat
  /\ errors \in Nat

\* An event takes effect on the view once, and once more at most each time its
\* lock expires, however many processes are given it, live and by restores
\* ("Per-event deduplication", README.md:448).
EffectsAccounted == \A e \in Events : applied[e] <= 1 + expiries[e]

\* An event that is marked as projected has taken effect: no later task that skips
\* it, in any process, leaves it out of the view (markAsProjected).
MarkedWasApplied == \A e \in Events : eventLock[e] = "processed" => applied[e] > 0

\* When the view is ready in a process, every event of its restore has taken effect,
\* except one that was locked: by a task of another process, or by one that failed
\* or stopped and whose lock has not expired yet, or had not when it was skipped.
CaughtUp ==
  \A p \in Procs : phase[p] = "ready" =>
    \A e \in ToRestore(p) :
      \/ applied[e] > 0
      \/ expiries[e] > 0
      \/ Restored(p, e) /\ eventLock[e] = "processing"

\* "Indicates whether the view is fully restored" (interfaces/IViewLocker.ts:10): when
\* the view is ready in a process, every event stored before its query has taken
\* effect, or some task is still to project it.
ReadyMeansRestored ==
  \A p \in Procs : phase[p] = "ready" =>
    \A e \in 1..upTo[p] :
      \/ applied[e] > 0
      \/ \E t \in Tasks : t[2] = e /\ task[t] \in {"waiting", "handling"}
=============================================================================
