-------------------------- MODULE MongoEventStorage ---------------------------
(***************************************************************************)
(* mongodb/MongoEventStorage: one collection of events that the command    *)
(* handlers of several processes write to without a transaction. A commit  *)
(* inserts its events one at a time and, when an insertion fails, deletes   *)
(* those it has inserted; a unique index keeps two events of an aggregate   *)
(* from having the same version.                                            *)
(*                                                                         *)
(* The events are those of one aggregate. A "commit" is one attempt of     *)
(* AggregateCommandHandler.execute(), from the restore of the aggregate to  *)
(* the end of commitEvents(). The collection itself is external: each of    *)
(* its operations is one atomic step.                                       *)
(***************************************************************************)
EXTENDS Naturals, FiniteSets

CONSTANTS
  Commits,      \* attempts to commit a batch of events
  Size,         \* the number of events of each batch
  MaxFailures   \* most failures of the database or of a process (bound)

ASSUME ConstantsAssumption ==
  /\ Size \in [Commits -> Nat \ {0}]
  /\ MaxFailures \in Nat

VARIABLES
  events,    \* the collection
  pc,        \* the await a commit is suspended at, or how it ended
  base,      \* the version of the aggregate the batch was decided on
  seen,      \* the commits whose events it was decided on
  inserted,  \* insertedIds: how many insertions were acknowledged
  failures   \* number of failures so far

vars == <<events, pc, base, seen, inserted, failures>>

\* An event: the n-th of a batch.
Event == [of : Commits, n : Nat \ {0}, version : Nat]

Of(c) == {e \in events : e.of = c}

\* What insertOne is given next.
NextEvent(c) == [of |-> c, n |-> inserted[c] + 1, version |-> base[c] + inserted[c]]

\* The unique index on aggregateId and aggregateVersion.
Duplicate(event) == \E e \in events : e.version = event.version

\* The loop is left by an error: a duplicate key, or any other.
Undoing == {"conflicting", "failing"}
AtWork  == {"inserting"} \cup Undoing
Settled == {"committed", "conflict", "failed", "crashed"}

-----------------------------------------------------------------------------

Init ==
  /\ events   = {}
  /\ pc       = [c \in Commits |-> "idle"]
  /\ base     = [c \in Commits |-> 0]
  /\ seen     = [c \in Commits |-> {}]
  /\ inserted = [c \in Commits |-> 0]
  /\ failures = 0

Become(c, where) == pc' = [pc EXCEPT ![c] = where]

Fail == failures < MaxFailures /\ failures' = failures + 1

\* getAggregateEvents(), sorted by version: the aggregate takes the version of
\* the last event, and the command decides on the batch.
Restore(c) ==
  /\ pc[c] = "idle"
  /\ \E v \in {0} \cup {e.version + 1 : e \in events} :
       /\ \A e \in events : e.version < v
       /\ base' = [base EXCEPT ![c] = v]
  /\ seen' = [seen EXCEPT ![c] = {e.of : e \in events}]
  /\ Become(c, "inserting")
  /\ UNCHANGED <<events, inserted, failures>>

\* insertOne() succeeds.
Insert(c) ==
  /\ pc[c] = "inserting"
  /\ inserted[c] < Size[c]
  /\ ~Duplicate(NextEvent(c))
  /\ events'   = events \cup {NextEvent(c)}
  /\ inserted' = [inserted EXCEPT ![c] = @ + 1]
  /\ UNCHANGED <<pc, base, seen, failures>>

\* Mutant of InsertConflicts: the events inserted before it are left behind.
InsertConflictsLeaving(c) ==
  /\ pc[c] = "inserting"
  /\ inserted[c] < Size[c]
  /\ Duplicate(NextEvent(c))
  /\ Become(c, "conflict")
  /\ UNCHANGED <<events, base, seen, inserted, failures>>

\* insertOne() is rejected with a duplicate key.
InsertConflicts(c) ==
  /\ pc[c] = "inserting"
  /\ inserted[c] < Size[c]
  /\ Duplicate(NextEvent(c))
  /\ Become(c, IF inserted[c] = 0 THEN "conflict" ELSE "conflicting")
  /\ UNCHANGED <<events, base, seen, inserted, failures>>

\* insertOne() is rejected with another error, before or after the event was
\* inserted. The event is not in insertedIds.
InsertFails(c) ==
  /\ pc[c] = "inserting"
  /\ inserted[c] < Size[c]
  /\ Fail
  /\ \/ UNCHANGED events
     \/ ~Duplicate(NextEvent(c)) /\ events' = events \cup {NextEvent(c)}
  /\ Become(c, IF inserted[c] = 0 THEN "failed" ELSE "failing")
  /\ UNCHANGED <<base, seen, inserted>>

\* Every event was inserted: commitEvents() resolves.
Resolve(c) ==
  /\ pc[c] = "inserting"
  /\ inserted[c] = Size[c]
  /\ Become(c, "committed")
  /\ UNCHANGED <<events, base, seen, inserted, failures>>

Outcome(c) == IF pc[c] = "conflicting" THEN "conflict" ELSE "failed"

\* Mutant of Undo: everything from the first version of the batch is deleted.
UndoByVersion(c) ==
  /\ pc[c] \in Undoing
  /\ events' = {e \in events : e.version < base[c]}
  /\ Become(c, Outcome(c))
  /\ UNCHANGED <<base, seen, inserted, failures>>

\* deleteMany() of the ids inserted, and commitEvents() is rejected.
Undo(c) ==
  /\ pc[c] \in Undoing
  /\ events' = {e \in events : e.of = c => e.n > inserted[c]}
  /\ Become(c, Outcome(c))
  /\ UNCHANGED <<base, seen, inserted, failures>>

\* deleteMany() is rejected: commitEvents() is rejected with that error.
UndoFails(c) ==
  /\ pc[c] \in Undoing
  /\ Fail
  /\ Become(c, "failed")
  /\ UNCHANGED <<events, base, seen, inserted>>

\* The process stops: what was inserted stays.
Crash(c) ==
  /\ pc[c] \in AtWork
  /\ Fail
  /\ Become(c, "crashed")
  /\ UNCHANGED <<events, base, seen, inserted>>

Quiescent ==
  /\ \A c \in Commits : pc[c] \in Settled
  /\ UNCHANGED vars

Next ==
  \/ \E c \in Commits :
       \/ Restore(c) \/ Insert(c) \/ InsertConflicts(c) \/ InsertFails(c) \/ Resolve(c)
       \/ Undo(c) \/ UndoFails(c) \/ Crash(c)
  \/ Quiescent

Spec == Init /\ [][Next]_vars

-----------------------------------------------------------------------------
(* Properties.                                                             *)

\* Types of the variables.
TypeOK ==
  /\ events \subseteq Event
  /\ pc \in [Commits -> {"idle"} \cup AtWork \cup Settled]
  /\ base \in [Commits -> Nat]
  /\ seen \in [Commits -> SUBSET Commits]
  /\ inserted \in [Commits -> Nat]
  /\ \A c \in Commits : inserted[c] <= Size[c]
  /\ failures \in 0..MaxFailures

\* Nothing that another commit undoes, fails at or leaves behind touches a batch
\* that was committed: it stays in the collection, with the versions it was
\* given, each of them held by no other event (deleteMany by insertedIds).
CommittedStays ==
  \A c \in Commits : pc[c] = "committed" =>
    /\ \A n \in 1..Size[c] : [of |-> c, n |-> n, version |-> base[c] + n - 1] \in events
    /\ \A e \in events : e.version \in base[c]..(base[c] + Size[c] - 1) => e.of = c

\* A ConcurrencyError is thrown only when none of the batch is left: the handler
\* may decide again on the whole command without storing any of it twice.
ConflictLeavesNothing == \A c \in Commits : pc[c] = "conflict" => Of(c) = {}

\* A batch is committed only on top of events that stay: no command was decided
\* on events that are not in its aggregate's stream ("conflict-safe writes with
\* optimistic concurrency", README.md:24).
DecidedOnStored ==
  \A c \in Commits : pc[c] = "committed" => \A d \in seen[c] : Of(d) # {}
=============================================================================
