------------------------------ MODULE LockProofs ------------------------------
(***************************************************************************)
(* Theorems about Lock, for any requests and names, and about ViewLocker,   *)
(* for any processes and any number of starts.                              *)
(***************************************************************************)
EXTENDS Lock, TLAPS

\* The constants and variables of ViewLocker.
CONSTANTS Procs, Backend, Nobody, MaxStarts

VARIABLES row, phase, timer, starts

View == INSTANCE ViewLocker

\* The holders in the maps of the lock are exactly the requests that own one, and
\* nobody owns a named lock while the global lock is owned.
Owner(r) == IF Name[r] = Global THEN globalLock = r ELSE namedLocks[Name[r]] = r

LockInv ==
  /\ namedLocks \in [Names -> Requests \cup {None}]
  /\ globalLock \in Requests \cup {None}
  /\ pc \in [Requests -> {"idle", "released"} \cup Waiting \cup Owning]
  /\ \A r \in Requests : pc[r] \in Owning <=> Owner(r)
  /\ \A n \in Names : namedLocks[n] # None => Name[namedLocks[n]] = n
  /\ globalLock # None => \A n \in Names : namedLocks[n] = None

\* Taking a lock that nobody blocks keeps the owners apart.
LEMMA TakeStep ==
  ASSUME LockInv, NEW r \in Requests, NEW queue, pc[r] \notin Owning, Take(r, queue)
  PROVE  LockInv'
<1>. USE ConstantsAssumption DEF LockInv, Owner, Waiting, Owning
<1>1. CASE Name[r] = Global
  <2>1. /\ globalLock' = r /\ UNCHANGED namedLocks
        /\ pc' = [pc EXCEPT ![r] = "granted"]
        /\ globalLock = None
        /\ \A n \in Names : namedLocks[n] = None
    BY <1>1 DEF Take, Blocking
  <2>. QED
    BY <1>1, <2>1
<1>2. CASE Name[r] # Global
  <2>1. /\ namedLocks' = [namedLocks EXCEPT ![Name[r]] = r] /\ UNCHANGED globalLock
        /\ pc' = [pc EXCEPT ![r] = "granted"]
        /\ globalLock = None
        /\ namedLocks[Name[r]] = None
        /\ Name[r] \in Names
    <3>1. Name[r] \in Names
      BY <1>2
    <3>2. globalLock = None
      BY DEF Take, Blocking
    <3>3. namedLocks[Name[r]] = None
      BY <1>2, <3>2 DEF Take, Blocking
    <3>. QED
      BY <1>2, <3>1, <3>2, <3>3 DEF Take
  <2>2. ASSUME NEW q \in Requests
        PROVE  pc'[q] \in Owning <=> Owner(q)'
    <3>1. CASE q = r
      BY <1>2, <2>1, <3>1
    <3>2. CASE q # r
      BY <2>1, <3>2
    <3>. QED
      BY <3>1, <3>2
  <2>3. /\ \A n \in Names : namedLocks'[n] # None => Name[namedLocks'[n]] = n
        /\ globalLock' = None
    BY <2>1
  <2>4. /\ namedLocks' \in [Names -> Requests \cup {None}]
        /\ globalLock' \in Requests \cup {None}
        /\ pc' \in [Requests -> {"idle", "released"} \cup Waiting \cup Owning]
    BY <2>1
  <2>. QED
    BY <2>2, <2>3, <2>4
<1>. QED
  BY <1>1, <1>2

\* A run of acquire() to its next await keeps LockInv.
LEMMA TryStep ==
  ASSUME LockInv, NEW r \in Requests, NEW queue, pc[r] \notin Owning, Try(r, queue)
  PROVE  LockInv'
<1>1. CASE AwaitGlobal(r, queue)
  BY <1>1 DEF AwaitGlobal, LockInv, Owner, Waiting, Owning, locks
<1>2. CASE AwaitLock(r, queue)
  BY <1>2 DEF AwaitLock, LockInv, Owner, Waiting, Owning, locks
<1>. QED
  BY <1>1, <1>2, TakeStep DEF Try

\* LockInv is an invariant.
LEMMA Locking == Spec => []LockInv
<1>1. Init => LockInv
  BY ConstantsAssumption DEF Init, LockInv, Owner, Waiting, Owning
<1>2. LockInv /\ [Next]_vars => LockInv'
  <2>. SUFFICES ASSUME LockInv, [Next]_vars
                PROVE  LockInv'
    OBVIOUS
  <2>1. ASSUME NEW r \in Requests, Call(r)
        PROVE  LockInv'
    BY <2>1, TryStep DEF Call, Owning
  <2>2. ASSUME NEW r \in Requests, Resume(r)
        PROVE  LockInv'
    BY <2>2, TryStep DEF Resume, Waiting, Owning
  <2>3. ASSUME NEW r \in Requests, Enter(r)
        PROVE  LockInv'
    BY <2>3 DEF Enter, LockInv, Owner, Waiting, Owning, locks
  <2>4. ASSUME NEW r \in Requests, Release(r)
        PROVE  LockInv'
    <3>. USE ConstantsAssumption DEF LockInv, Owner, Waiting, Owning
    <3>1. CASE Name[r] = Global
      BY <2>4, <3>1 DEF Release
    <3>2. CASE Name[r] # Global
      BY <2>4, <3>2 DEF Release
    <3>. QED
      BY <3>1, <3>2
  <2>5. CASE UNCHANGED vars
    BY <2>5 DEF vars, LockInv, Owner
  <2>. QED
    BY <2>1, <2>2, <2>3, <2>4, <2>5 DEF Next, Quiescent
<1>. QED
  BY <1>1, <1>2, PTL DEF Spec

\* Named locks exclude each other by name and the global lock excludes all, for
\* any number of requests and names: what execute() and SagaEventHandler rely on.
THEOREM Exclusion == Spec => []MutualExclusion
<1>1. LockInv => MutualExclusion
  BY ConstantsAssumption DEF LockInv, Owner, MutualExclusion
<1>. QED
  BY <1>1, Locking, PTL

------------------------------------------------------------------------------
(* The announcement of global requests.                                    *)

\* A global request that waits for the holders is the one announced.
AnnouncedInv ==
  /\ pc \in [Requests -> {"idle", "released"} \cup Waiting \cup Owning]
  /\ \A g \in Requests : Name[g] = Global /\ pc[g] = "blocked" => acquiring = g

\* A run of acquire() keeps AnnouncedInv, and leaves the first loop only when no
\* global request waits.
LEMMA AnnouncedStep ==
  ASSUME AnnouncedInv, NEW r \in Requests, NEW queue, pc[r] \notin Owning, Try(r, queue)
  PROVE  /\ AnnouncedInv'
         /\ \A q \in Requests : q # r => pc'[q] = pc[q]
         /\ pc[r] \in {"idle", "starting"} /\ acquiring # None => pc'[r] = "starting"
<1>. USE ConstantsAssumption DEF AnnouncedInv, Waiting, Owning
<1>1. CASE AwaitGlobal(r, queue)
  BY <1>1 DEF AwaitGlobal
<1>2. CASE AwaitLock(r, queue)
  BY <1>2 DEF AwaitLock, MayTry
<1>3. CASE Take(r, queue)
  <2>1. pc' = [pc EXCEPT ![r] = "granted"] /\ MayTry(r)
    BY <1>3 DEF Take
  <2>2. IF Name[r] = Global THEN acquiring' = None ELSE acquiring' = acquiring
    BY <1>3 DEF Take
  <2>. QED
    BY <2>1, <2>2 DEF MayTry
<1>. QED
  BY <1>1, <1>2, <1>3 DEF Try

\* The other steps leave the announcement and the waiting requests alone.
LEMMA OtherStep ==
  ASSUME AnnouncedInv, NEW r \in Requests, Enter(r) \/ Release(r)
  PROVE  /\ AnnouncedInv'
         /\ \A q \in Requests : pc[q] \in {"idle", "starting"} => pc'[q] = pc[q]
<1>1. /\ UNCHANGED acquiring
      /\ pc[r] \in Owning
      /\ pc' = [pc EXCEPT ![r] = "held"] \/ pc' = [pc EXCEPT ![r] = "released"]
  BY DEF Enter, Release, Owning
<1>. QED
  BY <1>1 DEF AnnouncedInv, Waiting, Owning

\* AnnouncedInv is an invariant.
LEMMA Announced == Spec => []AnnouncedInv
<1>1. Init => AnnouncedInv
  BY DEF Init, AnnouncedInv, Waiting, Owning
<1>2. AnnouncedInv /\ [Next]_vars => AnnouncedInv'
  <2>1. ASSUME AnnouncedInv, NEW r \in Requests, Call(r) \/ Resume(r)
        PROVE  AnnouncedInv'
    BY <2>1, AnnouncedStep DEF Call, Resume, Waiting, Owning
  <2>2. ASSUME AnnouncedInv, UNCHANGED vars
        PROVE  AnnouncedInv'
    BY <2>2 DEF vars, AnnouncedInv
  <2>. QED
    BY <2>1, <2>2, OtherStep DEF Next, Quiescent
<1>. QED
  BY <1>1, <1>2, PTL DEF Spec

\* A named acquire() called after a global one has begun to wait for the holders
\* never gets its lock first.
THEOREM GlobalFirst == Spec => NoSqueezing
<1>. DEFINE Behind(g, r) == /\ g # r
                            /\ Name[g] = Global
                            /\ pc[g] = "blocked" /\ pc'[g] = "blocked"
                            /\ pc[r] \in {"idle", "starting"}
                            => pc'[r] \in {"idle", "starting"}
<1>1. AnnouncedInv /\ [Next]_vars => [\A g, r \in Requests : Behind(g, r)]_vars
  <2>. SUFFICES ASSUME AnnouncedInv, [Next]_vars, NEW g \in Requests, NEW r \in Requests
                PROVE  Behind(g, r)
    OBVIOUS
  <2>1. ASSUME NEW q \in Requests, Call(q) \/ Resume(q)
        PROVE  Behind(g, r)
    <3>1. \E queue : Try(q, queue)
      BY <2>1 DEF Call, Resume
    <3>2. pc[q] \notin Owning
      BY <2>1 DEF Call, Resume, Waiting, Owning
    <3>. QED
      BY <3>1, <3>2, AnnouncedStep, ConstantsAssumption DEF AnnouncedInv
  <2>2. ASSUME NEW q \in Requests, Enter(q) \/ Release(q)
        PROVE  Behind(g, r)
    BY <2>2, OtherStep
  <2>3. CASE UNCHANGED vars
    BY <2>3 DEF vars
  <2>. QED
    BY <2>1, <2>2, <2>3 DEF Next, Quiescent
<1>. QED
  BY <1>1, Announced, PTL DEF Spec, NoSqueezing

------------------------------------------------------------------------------
(* The refinement of AtomicLock.                                           *)

\* The lock as its callers see it.
Seen == [r \in Requests |-> IF pc[r] \in DOMAIN StateOf THEN StateOf[pc[r]] ELSE pc[r]]

\* What is seen of each place in the code.
SeenAt(place) == IF place \in DOMAIN StateOf THEN StateOf[place] ELSE place

LEMMA SeenPlaces ==
  /\ SeenAt("idle")     = "idle"
  /\ SeenAt("starting") = "outside"
  /\ SeenAt("blocked")  = "inside"
  /\ SeenAt("granted")  = "held"
  /\ SeenAt("held")     = "held"
  /\ SeenAt("released") = "released"
BY DEF SeenAt, StateOf

\* What is seen tells where a request is.
LEMMA SeenIs ==
  ASSUME NEW r \in Requests,
         pc \in [Requests -> {"idle", "released"} \cup Waiting \cup Owning]
  PROVE  /\ Seen[r] = "idle"    <=> pc[r] = "idle"
         /\ Seen[r] = "outside" <=> pc[r] = "starting"
         /\ Seen[r] = "inside"  <=> pc[r] = "blocked"
         /\ Seen[r] = "held"    <=> pc[r] \in Owning
<1>1. Seen[r] = SeenAt(pc[r])
  BY DEF Seen, SeenAt
<1>2. pc[r] \in {"idle", "released", "starting", "blocked", "granted", "held"}
  BY DEF Waiting, Owning
<1>. QED
  BY <1>1, <1>2, SeenPlaces DEF Owning

\* A step that moves r in the code changes what is seen of r alone.
LEMMA SeenChanges ==
  ASSUME NEW r \in Requests,
         pc \in [Requests -> {"idle", "released"} \cup Waiting \cup Owning]
  PROVE  /\ pc' = [pc EXCEPT ![r] = "starting"] => Seen' = [Seen EXCEPT ![r] = "outside"]
         /\ pc' = [pc EXCEPT ![r] = "blocked"]  => Seen' = [Seen EXCEPT ![r] = "inside"]
         /\ pc' = [pc EXCEPT ![r] = "granted"]  => Seen' = [Seen EXCEPT ![r] = "held"]
         /\ pc' = [pc EXCEPT ![r] = "held"]     => Seen' = [Seen EXCEPT ![r] = "held"]
         /\ pc' = [pc EXCEPT ![r] = "released"] => Seen' = [Seen EXCEPT ![r] = "released"]
<1>1. ASSUME NEW place, pc' = [pc EXCEPT ![r] = place]
      PROVE  Seen' = [Seen EXCEPT ![r] = SeenAt(place)]
  <2>1. Seen = [q \in Requests |-> SeenAt(pc[q])]
    BY DEF Seen, SeenAt
  <2>2. Seen' = [q \in Requests |-> SeenAt(pc'[q])]
    BY DEF Seen, SeenAt
  <2>3. \A q \in Requests : pc'[q] = IF q = r THEN place ELSE pc[q]
    BY <1>1
  <2>. QED
    BY <2>1, <2>2, <2>3
<1>. QED
  BY <1>1, SeenPlaces

\* A request may leave the first loop when nothing is announced: the door is open.
LEMMA DoorIsOpen ==
  ASSUME AnnouncedInv, NEW r \in Requests, pc[r] \in {"idle"} \cup Waiting, MayTry(r)
  PROVE  Promise!MayBeInside(r)
<1>1. \A q \in Requests :
        /\ Seen[q] = "idle"     <=> pc[q] = "idle"
        /\ Seen[q] = "outside" <=> pc[q] = "starting"
        /\ Seen[q] = "inside"  <=> pc[q] = "blocked"
  BY SeenIs DEF AnnouncedInv
<1>2. CASE pc[r] = "blocked"
  BY <1>1, <1>2 DEF Promise!MayBeInside, Seen
<1>3. CASE pc[r] \in {"idle", "starting"}
  <2>1. acquiring = None
    BY <1>3 DEF MayTry
  <2>2. \A g \in Requests : ~(Name[g] = Global /\ pc[g] = "blocked")
    BY <2>1, ConstantsAssumption DEF AnnouncedInv
  <2>. QED
    BY <1>1, <1>3, <2>2 DEF Promise!MayBeInside, Promise!Closed, Seen
<1>. QED
  BY <1>2, <1>3 DEF Waiting

\* No owner excludes a request that finds no blocking lock.
LEMMA NobodyExcludes ==
  ASSUME LockInv, NEW r \in Requests, Blocking(r) = {}, NEW q \in Requests, pc[q] \in Owning
  PROVE  ~Promise!Excludes(q, r)
<1>. USE ConstantsAssumption
<1>1. Owner(q)
  BY DEF LockInv
<1>2. globalLock = None
  BY DEF Blocking
<1>3. Name[q] # Global /\ namedLocks[Name[q]] = q /\ Name[q] \in Names
  BY <1>1, <1>2 DEF Owner
<1>4. Name[r] # Global
  BY <1>2, <1>3 DEF Blocking
<1>5. namedLocks[Name[r]] = None
  BY <1>2, <1>4 DEF Blocking
<1>. QED
  BY <1>3, <1>4, <1>5 DEF Promise!Excludes

\* A run of acquire() to its next await waits outside, goes in or takes the lock, or
\* is not seen.
LEMMA TryImplements ==
  ASSUME LockInv, AnnouncedInv, NEW r \in Requests, NEW queue,
         pc[r] \in {"idle"} \cup Waiting, Try(r, queue)
  PROVE  Promise!Next \/ UNCHANGED Seen
<1>0. pc \in [Requests -> {"idle", "released"} \cup Waiting \cup Owning]
  BY DEF LockInv
<1>1. CASE AwaitGlobal(r, queue)
  <2>1. Seen' = [Seen EXCEPT ![r] = "outside"]
    BY <1>0, <1>1, SeenChanges DEF AwaitGlobal
  <2>2. CASE pc[r] = "idle"
    <3>1. Promise!Wait(r)
      BY <1>0, <2>1, <2>2, SeenIs DEF Promise!Wait, Seen
    <3>. QED
      BY <3>1 DEF Promise!Next
  <2>3. CASE pc[r] = "starting"
    <3>1. Seen[r] = "outside"
      BY <1>0, <2>3, SeenIs
    <3>. QED
      BY <2>1, <3>1 DEF Seen
  <2>. QED
    BY <1>1, <2>2, <2>3 DEF AwaitGlobal
<1>2. CASE AwaitLock(r, queue)
  <2>1. Seen' = [Seen EXCEPT ![r] = "inside"]
    BY <1>0, <1>2, SeenChanges DEF AwaitLock
  <2>2. Promise!MayBeInside(r)
    BY <1>2, DoorIsOpen DEF AwaitLock
  <2>3. Promise!GoIn(r)
    BY <2>1, <2>2 DEF Promise!GoIn, Seen
  <2>. QED
    BY <2>3 DEF Promise!Next
<1>3. CASE Take(r, queue)
  <2>1. Seen' = [Seen EXCEPT ![r] = "held"]
    BY <1>0, <1>3, SeenChanges DEF Take
  <2>2. Promise!MayBeInside(r)
    BY <1>3, DoorIsOpen DEF Take
  <2>3. \A q \in Requests : Seen[q] = "held" => ~Promise!Excludes(q, r)
    BY <1>0, <1>3, SeenIs, NobodyExcludes DEF Take
  <2>4. Promise!Take(r)
    BY <2>1, <2>2, <2>3 DEF Promise!Take, Seen
  <2>. QED
    BY <2>4 DEF Promise!Next
<1>. QED
  BY <1>1, <1>2, <1>3 DEF Try

\* With named locks in a map, the global lock and the announcement in fields of
\* their own, and a job between the release of a lock and the next look at it,
\* Lock.ts is an atomic lock to its callers: what the modules that take one assume.
THEOREM Refinement == Spec => ImplementsAtomicLock
<1>1. Init => Promise!Init
  BY DEF Init, Promise!Init, StateOf
<1>2. LockInv /\ AnnouncedInv /\ [Next]_vars => [Promise!Next]_Seen
  <2>. SUFFICES ASSUME LockInv, AnnouncedInv, [Next]_vars
                PROVE  Promise!Next \/ UNCHANGED Seen
    OBVIOUS
  <2>0. pc \in [Requests -> {"idle", "released"} \cup Waiting \cup Owning]
    BY DEF LockInv
  <2>1. ASSUME NEW r \in Requests, Call(r) \/ Resume(r)
        PROVE  Promise!Next \/ UNCHANGED Seen
    BY <2>1, TryImplements DEF Call, Resume
  <2>2. ASSUME NEW r \in Requests, Enter(r)
        PROVE  UNCHANGED Seen
    <3>1. Seen' = [Seen EXCEPT ![r] = "held"]
      BY <2>0, <2>2, SeenChanges DEF Enter
    <3>2. Seen[r] = "held"
      BY <2>0, <2>2, SeenIs DEF Enter, Owning
    <3>. QED
      BY <3>1, <3>2 DEF Seen
  <2>3. ASSUME NEW r \in Requests, Release(r)
        PROVE  Promise!Next
    <3>1. Seen' = [Seen EXCEPT ![r] = "released"]
      BY <2>0, <2>3, SeenChanges DEF Release
    <3>2. Seen[r] = "held"
      BY <2>0, <2>3, SeenIs DEF Release, Owning
    <3>3. Promise!Release(r)
      BY <3>1, <3>2 DEF Promise!Release, Seen
    <3>. QED
      BY <3>3 DEF Promise!Next
  <2>4. CASE UNCHANGED vars
    BY <2>4 DEF vars, Seen
  <2>. QED
    BY <2>1, <2>2, <2>3, <2>4 DEF Next, Quiescent
<1>. QED
  BY <1>1, <1>2, Locking, Announced, PTL DEF Spec, ImplementsAtomicLock, Promise!Spec, Seen

------------------------------------------------------------------------------
(* The lock of a view, which processes share.                              *)

\* Types of the lock, phases and timers: a timer or its request exists only after
\* lock() has returned.
LEMMA ViewTypeStep ==
  ASSUME View!ConstantsAssumption, View!TypeOK, [View!Next]_(View!vars)
  PROVE  View!TypeOK'
<1>. USE DEF View!ConstantsAssumption, View!TypeOK, View!Row, View!NoRow, View!Phase, View!Timer, View!Enter, View!Put
<1>1. ASSUME NEW p \in Procs, View!Lock(p) PROVE View!TypeOK'
  BY <1>1 DEF View!Lock
<1>2. ASSUME NEW p \in Procs, View!Restore(p) PROVE View!TypeOK'
  <2>1. CASE View!Claim(p)
    BY <2>1 DEF View!Claim
  <2>2. CASE View!Unlock(p)
    BY <2>2 DEF View!Unlock
  <2>3. CASE View!Release(p)
    BY <2>3 DEF View!Release
  <2>. QED
    BY <1>2, <2>1, <2>2, <2>3 DEF View!Restore
<1>3. ASSUME NEW p \in Procs, View!Fail(p) PROVE View!TypeOK'
  BY <1>3 DEF View!Fail
<1>4. ASSUME NEW p \in Procs, View!Stop(p) PROVE View!TypeOK'
  BY <1>4 DEF View!Stop
<1>5. ASSUME NEW p \in Procs, View!Refresh(p) PROVE View!TypeOK'
  <2>1. CASE View!Prolong(p)
    BY <2>1 DEF View!Prolong, View!Token
  <2>2. CASE View!Prolonged(p)
    BY <2>2 DEF View!Prolonged
  <2>3. CASE View!ProlongFails(p)
    BY <1>4, <2>3 DEF View!ProlongFails
  <2>. QED
    BY <1>5, <2>1, <2>2, <2>3 DEF View!Refresh
<1>6. CASE View!Expire
  BY <1>6 DEF View!Expire
<1>7. CASE UNCHANGED View!vars
  BY <1>7 DEF View!vars
<1>. QED
  BY <1>1, <1>2, <1>3, <1>4, <1>5, <1>6, <1>7 DEF View!Next

\* The variables of the view lockers keep their types (lock, phase of restore(),
\* timer of the prolongation).
THEOREM ViewTypeCorrect == View!ConstantsAssumption => (View!Spec => []View!TypeOK)
<1>. SUFFICES ASSUME View!ConstantsAssumption
              PROVE  View!Spec => []View!TypeOK
  OBVIOUS
<1>1. View!Init => View!TypeOK
  BY DEF View!ConstantsAssumption, View!Init, View!TypeOK, View!Row, View!NoRow, View!Phase, View!Timer
<1>. QED
  BY <1>1, ViewTypeStep, PTL DEF View!Spec

-----------------------------------------------------------------------------

\* A process that restores has the lock in the database, with its token, and a
\* timer, or a request with that token, which keeps it.
LockedInv ==
  /\ View!TypeOK
  /\ \A p \in Procs : phase[p] = "restoring" =>
       row.token = p /\ row.live /\ timer[p] \in {"set", "own"}

\* No step but a claim sends a process into a restore; the others keep the lock of
\* the process that is in one.
LEMMA LockedStep ==
  ASSUME View!ConstantsAssumption, Backend # "sqlite", LockedInv, [View!Next]_(View!vars)
  PROVE  LockedInv'
<1>. USE DEF View!ConstantsAssumption, LockedInv, View!TypeOK, View!Row, View!NoRow, View!Phase, View!Timer, View!Enter, View!Put
<1>. DEFINE Locked(p) == phase[p] = "restoring" =>
                           row.token = p /\ row.live /\ timer[p] \in {"set", "own"}
<1>0. View!TypeOK'
  BY ViewTypeStep
<1>1. ASSUME NEW p \in Procs, View!Lock(p), NEW q \in Procs PROVE Locked(q)'
  BY <1>1 DEF View!Lock
<1>2. ASSUME NEW p \in Procs, View!Restore(p), NEW q \in Procs PROVE Locked(q)'
  <2>1. CASE View!Claim(p)
    <3>1. phase[q] # "restoring"
      BY <2>1 DEF View!Claim, View!Claimable
    <3>. QED
      BY <2>1, <3>1 DEF View!Claim
  <2>2. CASE View!Unlock(p)
    BY <2>2 DEF View!Unlock
  <2>3. CASE View!Release(p)
    BY <2>3 DEF View!Release
  <2>. QED
    BY <1>2, <2>1, <2>2, <2>3 DEF View!Restore
<1>3. ASSUME NEW p \in Procs, View!Fail(p), NEW q \in Procs PROVE Locked(q)'
  BY <1>3 DEF View!Fail
<1>4. ASSUME NEW p \in Procs, View!Stop(p), NEW q \in Procs PROVE Locked(q)'
  BY <1>4 DEF View!Stop
<1>5. ASSUME NEW p \in Procs, View!Refresh(p), NEW q \in Procs PROVE Locked(q)'
  <2>1. CASE View!Prolong(p)
    BY <2>1 DEF View!Prolong, View!Token
  <2>2. CASE View!Prolonged(p)
    BY <2>2 DEF View!Prolonged
  <2>3. CASE View!ProlongFails(p)
    BY <1>4, <2>3 DEF View!ProlongFails
  <2>. QED
    BY <1>5, <2>1, <2>2, <2>3 DEF View!Refresh
<1>6. ASSUME View!Expire, NEW q \in Procs PROVE Locked(q)'
  <2>1. phase[q] # "restoring"
    <3>1. SUFFICES ASSUME phase[q] = "restoring" PROVE View!Kept
      BY <1>6 DEF View!Expire
    <3>2. View!Matches(q, "own")
      BY <3>1 DEF View!Matches
    <3>3. CASE timer[q] = "set"
      BY <3>1, <3>2, <3>3 DEF View!Kept, View!Token
    <3>4. CASE timer[q] = "own"
      BY <3>2, <3>4 DEF View!Kept
    <3>. QED
      BY <3>1, <3>3, <3>4
  <2>. QED
    BY <1>6, <2>1 DEF View!Expire
<1>7. ASSUME UNCHANGED View!vars, NEW q \in Procs PROVE Locked(q)'
  BY <1>7 DEF View!vars
<1>8. ASSUME NEW q \in Procs PROVE Locked(q)'
  BY <1>1, <1>2, <1>3, <1>4, <1>5, <1>6, <1>7, <1>8 DEF View!Next
<1>. QED
  BY <1>0, <1>8

\* With MongoDB and Redis only one process restores the view at a time, however
\* late unlock() and prolongLock() are, and whenever processes stop. (SQLite's lock
\* does not keep others out.)
THEOREM OneRestore ==
  View!ConstantsAssumption /\ Backend # "sqlite" => (View!Spec => []View!OneRestoreAtATime)
<1>. SUFFICES ASSUME View!ConstantsAssumption, Backend # "sqlite"
              PROVE  View!Spec => []View!OneRestoreAtATime
  OBVIOUS
<1>1. View!Init => LockedInv
  BY DEF View!ConstantsAssumption, View!Init, LockedInv, View!TypeOK, View!Row, View!NoRow, View!Phase, View!Timer
<1>2. LockedInv /\ [View!Next]_(View!vars) => LockedInv'
  BY LockedStep
<1>3. LockedInv => View!OneRestoreAtATime
  BY DEF LockedInv, View!OneRestoreAtATime
<1>. QED
  BY <1>1, <1>2, <1>3, PTL DEF View!Spec
===============================================================================
