-------------------------------- MODULE Lock ---------------------------------
(***************************************************************************)
(* utils/Lock.ts: the lock of one Node.js process that commands, sagas and *)
(* connection handlers take by name, or globally.                          *)
(*                                                                         *)
(* A lock is a map of Deferred promises. An acquire() that finds the lock  *)
(* taken awaits the promise of its holder; release() resolves it, which    *)
(* queues one job per waiter, and a job looks at the lock again. JavaScript *)
(* runs each piece of code up to its next await without interruption, and  *)
(* the jobs in the order they were queued.                                 *)
(***************************************************************************)
EXTENDS Naturals, Sequences, FiniteSets

CONSTANTS
  Requests,   \* calls of acquire()
  Names,      \* names of locks
  Name,       \* the name each request asks for, or Global
  Global,     \* acquire() without a name
  None        \* nobody

ASSUME ConstantsAssumption ==
  /\ Global \notin Names
  /\ Name \in [Requests -> Names \cup {Global}]
  /\ None \notin Requests

VARIABLES
  namedLocks,  \* #namedLocks: the request that holds each name
  globalLock,  \* #globalLock: the request that holds the global lock
  acquiring,   \* #globalLockAcquiringLock: the global request under way
  pc,          \* the loop a request is in, or what became of it
  on,          \* the Deferred that a request awaits, or awaited last
  waiters,     \* requests suspended on a promise, in the order they awaited
  jobs         \* requests whose promise was resolved, in the order to resume

locks == <<namedLocks, globalLock>>
vars  == <<namedLocks, globalLock, acquiring, pc, on, waiters, jobs>>

\* The Deferred of a lock, and that of a global acquire() under way.
Deferred  == {"lock", "acquiring"} \X Requests

Waiting == {"starting", "blocked"}
Owning  == {"granted", "held"}

-----------------------------------------------------------------------------

Init ==
  /\ namedLocks = [n \in Names |-> None]
  /\ globalLock = None
  /\ acquiring  = None
  /\ pc         = [r \in Requests |-> "idle"]
  /\ on         = [r \in Requests |-> <<"lock", r>>]
  /\ waiters    = <<>>
  /\ jobs       = <<>>

\* Mutant of Blocking: a named request looks at the lock of that name only.
BlockingByName(r) ==
  IF Name[r] = Global
    THEN ({namedLocks[n] : n \in Names} \cup {globalLock}) \ {None}
    ELSE {namedLocks[Name[r]]} \ {None}

\* #getAnyBlockingLock: the holders that r has to wait for. (A global request
\* waits for one named lock at a time: the code takes the oldest, here any.)
Blocking(r) ==
  IF globalLock # None     THEN {globalLock}
  ELSE IF Name[r] = Global THEN {namedLocks[n] : n \in Names} \ {None}
                           ELSE {namedLocks[Name[r]]} \ {None}

Await(r, d, queue) ==
  /\ on'      = [on EXCEPT ![r] = d]
  /\ waiters' = Append(waiters, r)
  /\ jobs'    = queue

\* Deferred.resolve: everyone who awaits the promise is resumed, before "more".
Resolve(d, queue, more) ==
  LET Awaits(r)  == on[r] = d
      Remains(r) == on[r] # d
  IN  /\ jobs'    = queue \o SelectSeq(waiters, Awaits) \o more
      /\ waiters' = SelectSeq(waiters, Remains)
      /\ UNCHANGED on

-----------------------------------------------------------------------------
(* One run of acquire() to its next await: the remaining jobs are "queue". *)

\* The first loop: a global acquire() is under way.
AwaitGlobal(r, queue) ==
  /\ pc[r] \in {"idle", "starting"}
  /\ acquiring # None
  /\ pc' = [pc EXCEPT ![r] = "starting"]
  /\ Await(r, <<"acquiring", acquiring>>, queue)
  /\ UNCHANGED <<locks, acquiring>>

\* The second loop is reached when none is, and not left before the lock is had.
MayTry(r) == acquiring = None \/ pc[r] = "blocked"

\* Mutant of AwaitLock: a global request is not announced.
AwaitLockSilently(r, queue) ==
  /\ MayTry(r)
  /\ pc' = [pc EXCEPT ![r] = "blocked"]
  /\ \E holder \in Blocking(r) : Await(r, <<"lock", holder>>, queue)
  /\ UNCHANGED <<locks, acquiring>>

\* The second loop: r awaits a holder, a global request after announcing itself.
AwaitLock(r, queue) ==
  /\ MayTry(r)
  /\ pc' = [pc EXCEPT ![r] = "blocked"]
  /\ acquiring' = IF Name[r] = Global THEN r ELSE acquiring
  /\ \E holder \in Blocking(r) : Await(r, <<"lock", holder>>, queue)
  /\ UNCHANGED locks

\* The lock is had, and acquire() returns: its caller is resumed by a job.
Take(r, queue) ==
  /\ MayTry(r)
  /\ Blocking(r) = {}
  /\ pc' = [pc EXCEPT ![r] = "granted"]
  /\ IF Name[r] = Global
       THEN /\ globalLock' = r
            /\ acquiring'  = None
            /\ Resolve(<<"acquiring", r>>, queue, <<r>>)
            /\ UNCHANGED namedLocks
       ELSE /\ namedLocks' = [namedLocks EXCEPT ![Name[r]] = r]
            /\ jobs' = Append(queue, r)
            /\ UNCHANGED <<globalLock, acquiring, waiters, on>>

Try(r, queue) == AwaitGlobal(r, queue) \/ AwaitLock(r, queue) \/ Take(r, queue)

-----------------------------------------------------------------------------

\* acquire() is called: by a message from outside, a timer, or another job while
\* jobs that resume waiters are still queued.
Call(r) ==
  /\ pc[r] = "idle"
  /\ Try(r, jobs)

\* The next job resumes acquire() in the loop it was suspended in ...
Resume(r) ==
  /\ jobs # <<>>
  /\ r = Head(jobs)
  /\ pc[r] \in Waiting
  /\ Try(r, Tail(jobs))

\* ... or the caller of acquire(), with its lease.
Enter(r) ==
  /\ jobs # <<>>
  /\ r = Head(jobs)
  /\ pc[r] = "granted"
  /\ pc'   = [pc EXCEPT ![r] = "held"]
  /\ jobs' = Tail(jobs)
  /\ UNCHANGED <<locks, acquiring, on, waiters>>

\* Mutant of Release: the marker is removed first, so that nothing is resolved.
ReleaseUnresolved(r) ==
  /\ pc[r] = "held"
  /\ pc' = [pc EXCEPT ![r] = "released"]
  /\ IF Name[r] = Global
       THEN globalLock' = None /\ UNCHANGED namedLocks
       ELSE namedLocks' = [namedLocks EXCEPT ![Name[r]] = None] /\ UNCHANGED globalLock
  /\ UNCHANGED <<acquiring, on, waiters, jobs>>

\* LockLease.release, once per lease.
Release(r) ==
  /\ pc[r] = "held"
  /\ pc' = [pc EXCEPT ![r] = "released"]
  /\ IF Name[r] = Global
       THEN globalLock' = None /\ UNCHANGED namedLocks
       ELSE namedLocks' = [namedLocks EXCEPT ![Name[r]] = None] /\ UNCHANGED globalLock
  /\ Resolve(<<"lock", r>>, jobs, <<>>)
  /\ UNCHANGED acquiring

\* Every request has been served.
Quiescent ==
  /\ \A r \in Requests : pc[r] = "released"
  /\ UNCHANGED vars

Next ==
  \/ \E r \in Requests : Call(r) \/ Resume(r) \/ Enter(r) \/ Release(r)
  \/ Quiescent

Spec == Init /\ [][Next]_vars

\* Queued jobs run, and whoever holds a lock releases it: all callers in this
\* repository do so in a finally block.
Fairness == \A r \in Requests : WF_vars(Resume(r) \/ Enter(r)) /\ WF_vars(Release(r))

FairSpec == Spec /\ Fairness

-----------------------------------------------------------------------------
(* Properties.                                                             *)

Elements(q) == {q[i] : i \in DOMAIN q}

\* Types of the variables.
TypeOK ==
  /\ namedLocks \in [Names -> Requests \cup {None}]
  /\ globalLock \in Requests \cup {None}
  /\ acquiring \in Requests \cup {None}
  /\ pc \in [Requests -> {"idle", "released"} \cup Waiting \cup Owning]
  /\ on \in [Requests -> Deferred]
  /\ Elements(waiters) \subseteq Requests
  /\ Elements(jobs) \subseteq Requests

\* Two requests hold locks together only under different names; the global lock
\* is held alone (acquire: the check and the assignment run in one piece).
MutualExclusion ==
  \A r, q \in Requests :
    r # q /\ pc[r] \in Owning /\ pc[q] \in Owning =>
      Name[r] # Global /\ Name[q] # Global /\ Name[r] # Name[q]

\* While a global acquire() waits for the current holders, no acquire() that is
\* called, or is still in the first loop, joins or overtakes it ("to ensure that
\* named lock raised after global don't squeeze before it", Lock.ts:26-27).
NoSqueezing ==
  [][\A g, r \in Requests :
       /\ g # r
       /\ Name[g] = Global
       /\ pc[g] = "blocked" /\ pc'[g] = "blocked"
       /\ pc[r] \in {"idle", "starting"}
       => pc'[r] \in {"idle", "starting"}]_vars

\* The lock as its callers see it: what becomes of acquire() and of the lease,
\* and whether a request is past the first loop.
StateOf == [starting |-> "outside", blocked |-> "inside", granted |-> "held"]

Promise == INSTANCE AtomicLock WITH
  state <- [r \in Requests |-> IF pc[r] \in DOMAIN StateOf THEN StateOf[pc[r]] ELSE pc[r]]

\* Each piece of code between two awaits is a step of AtomicLock, or is not seen by
\* the callers: that a lock is checked, awaited, checked again and assigned by jobs
\* of their own, with named and global locks in different fields, shows in nothing.
ImplementsAtomicLock == Promise!Spec

\* Every acquire() is granted.
EveryRequestServed == \A r \in Requests : pc[r] \in Waiting ~> pc[r] = "held"
=============================================================================
