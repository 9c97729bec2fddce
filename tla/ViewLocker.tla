----------------------------- MODULE ViewLocker ------------------------------
(***************************************************************************)
(* The lock of a view that several processes share (IViewLocker), as a row  *)
(* or key in SQLite, MongoDB or Redis.  A process locks the view to restore *)
(* it, and unlocks it when that is done.  The lock has a time to live, and  *)
(* a timer of its holder prolongs it at half of that time.                  *)
(*                                                                         *)
(* Time is not counted: the lock may expire whenever no timer is going to   *)
(* prolong it, and timers fire in time (a running process is never late by  *)
(* half the time to live).  A rejection that nobody handles stops the       *)
(* process, as Node.js does by default.                                     *)
(***************************************************************************)
EXTENDS Naturals

CONSTANTS
  Procs,     \* the processes that have an instance of the projection
  Backend,   \* the implementation of the lock
  Nobody,    \* no token
  MaxStarts  \* how often a process starts at most (bound)

ASSUME ConstantsAssumption ==
  /\ Backend \in {"sqlite", "mongo", "redis"}
  /\ Nobody \notin Procs
  /\ MaxStarts \in Nat

VARIABLES
  row,     \* the lock in the database: its token, and whether it has not expired
  phase,   \* where restore() is, in each process
  timer,   \* the prolongation: its timer, or the request it has sent
  starts   \* history: how often each process has started

vars == <<row, phase, timer, starts>>

Row   == [token : Procs \cup {Nobody}, live : BOOLEAN]
NoRow == [token |-> Nobody, live |-> FALSE]

\* down; in lock(); restoring; in unlock(), with the view already "ready" in this
\* process; unlocked; or stopped by an error, with the view still locked.
Phase == {"down", "locking", "restoring", "unlocking", "ready", "failed"}

\* No timer; one that is set; a request sent with the token of the process, or
\* after unlock() has dropped it.
Timer == {"off", "set", "own", "undefined"}

Init ==
  /\ row    = NoRow
  /\ phase  = [p \in Procs |-> "down"]
  /\ timer  = [p \in Procs |-> "off"]
  /\ starts = [p \in Procs |-> 0]

Enter(p, where) == phase' = [phase EXCEPT ![p] = where]
Put(p, what)    == timer' = [timer EXCEPT ![p] = what]

-----------------------------------------------------------------------------

\* lock() makes the view "not ready", with a new token, before its first await.
Lock(p) ==
  /\ phase[p] = "down"
  /\ starts[p] < MaxStarts
  /\ starts' = [starts EXCEPT ![p] = @ + 1]
  /\ Enter(p, "locking")
  /\ UNCHANGED <<row, timer>>

\* A lock is free when nobody has it, or when it has expired. SQLite compares the
\* time until which it is held with the time requested, which is always later.
Claimable == ~row.live \/ Backend = "sqlite"

\* One turn of the loop of lock() that succeeds; a turn that does not changes nothing.
Claim(p) ==
  /\ phase[p] = "locking"
  /\ Claimable
  /\ row' = [token |-> p, live |-> TRUE]
  /\ Enter(p, "restoring")
  /\ Put(p, "set")
  /\ UNCHANGED starts

\* lock() or the restore throws: unlock() is not called.
Fail(p) ==
  /\ phase[p] \in {"locking", "restoring"}
  /\ Enter(p, "failed")
  /\ UNCHANGED <<row, timer, starts>>

\* unlock(), up to its first await: the view is "ready", the timer is cancelled. A
\* request that it has sent is not.
Unlock(p) ==
  /\ phase[p] = "restoring"
  /\ Enter(p, "unlocking")
  /\ Put(p, IF timer[p] = "set" THEN "off" ELSE timer[p])
  /\ UNCHANGED <<row, starts>>

\* Mutant of Release: the token is not compared.
ReleaseAny(p) ==
  /\ phase[p] = "unlocking"
  /\ row' = NoRow
  /\ Enter(p, "ready")
  /\ UNCHANGED <<timer, starts>>

\* The rest of unlock(): the lock is removed, by SQLite whoever has it, by the
\* others if it has the token of the process, which is then dropped.
Release(p) ==
  /\ phase[p] = "unlocking"
  /\ row' = IF row.token = p \/ Backend = "sqlite" THEN NoRow ELSE row
  /\ Enter(p, "ready")
  /\ UNCHANGED <<timer, starts>>

-----------------------------------------------------------------------------

\* The token of a request sent now.
Token(p) == IF phase[p] = "ready" THEN "undefined" ELSE "own"

\* The timer fires: prolongLock() sends its request.
Prolong(p) ==
  /\ timer[p] = "set"
  /\ Put(p, Token(p))
  /\ UNCHANGED <<row, phase, starts>>

\* Mutant of Matches: the token is not compared.
MatchesAny(p, token) == row.token # Nobody

\* What a request to prolong finds: with SQLite any lock, whoever has it, expired
\* or not. With the others the lock with its token, but an undefined token is a
\* null to the MongoDB driver, and the released lock has the token null.
Matches(p, token) ==
  CASE Backend = "sqlite"    -> row.token # Nobody
    [] token = "own"         -> row.token = p
    [] token = "undefined"   -> row.token = Nobody /\ Backend = "mongo"

\* The request has prolonged the lock, and the timer is set anew, except by SQLite.
Prolonged(p) ==
  /\ timer[p] \in {"own", "undefined"}
  /\ Matches(p, timer[p])
  /\ row' = [row EXCEPT !.live = TRUE]
  /\ Put(p, IF Backend = "sqlite" THEN "off" ELSE "set")
  /\ UNCHANGED <<phase, starts>>

\* The process stops: also when prolongLock() or unlock() throw, which is all that
\* prolongLock() does when it finds no lock.
Stop(p) ==
  /\ phase[p] # "down"
  /\ Enter(p, "down")
  /\ Put(p, "off")
  /\ UNCHANGED <<row, starts>>

ProlongFails(p) ==
  /\ timer[p] \in {"own", "undefined"}
  /\ ~Matches(p, timer[p])
  /\ Stop(p)

\* Some timer is going to prolong the lock.
Kept ==
  \E p \in Procs :
    \/ timer[p] = "set" /\ Matches(p, Token(p))
    \/ timer[p] \in {"own", "undefined"} /\ Matches(p, timer[p])

\* The lock expires: Redis removes the key, in the others the row stays.
Expire ==
  /\ row.live
  /\ ~Kept
  /\ row' = IF Backend = "redis" THEN NoRow ELSE [row EXCEPT !.live = FALSE]
  /\ UNCHANGED <<phase, timer, starts>>

-----------------------------------------------------------------------------

Restore(p) == Claim(p) \/ Unlock(p) \/ Release(p)
Refresh(p) == Prolong(p) \/ Prolonged(p) \/ ProlongFails(p)

Next ==
  \/ \E p \in Procs : Lock(p) \/ Restore(p) \/ Fail(p) \/ Refresh(p) \/ Stop(p)
  \/ Expire

Spec == Init /\ [][Next]_vars

\* lock() polls, restores end, the database answers, timers fire, locks expire.
Fairness ==
  /\ \A p \in Procs : WF_vars(Restore(p)) /\ WF_vars(Refresh(p))
  /\ WF_vars(Expire)

FairSpec == Spec /\ Fairness

-----------------------------------------------------------------------------

\* Types of the variables; a timer, or a request of it, exists only after lock()
\* has returned.
TypeOK ==
  /\ row \in Row
  /\ phase \in [Procs -> Phase]
  /\ timer \in [Procs -> Timer]
  /\ starts \in [Procs -> 0..MaxStarts]
  /\ \A p \in Procs : phase[p] \in {"down", "locking"} => timer[p] = "off"

\* "Only one process rebuilds at a time" (README.md:447): between the return of
\* lock() and the call of unlock() no other process is there, though processes
\* stop, locks expire and unlock() may be late.
OneRestoreAtATime ==
  \A p, q \in Procs : phase[p] = "restoring" /\ phase[q] = "restoring" => p = q

\* "... others wait" (README.md:447), and not for ever: lock() returns, though the
\* process that has the lock may have stopped, unless a restore has failed.
WaitersServed ==
  \A p \in Procs :
    phase[p] = "locking" ~> phase[p] # "locking" \/ \E q \in Procs : phase[q] = "failed"
=============================================================================
