----------------------- MODULE AggregateCommandHandler -----------------------
(***************************************************************************)
(* The aggregate command handler: processes that share one event storage,  *)
(* each with an in-memory cache of restored aggregates (MapAssertable) and *)
(* an execution lock per aggregate.                                        *)
(*                                                                         *)
(* One "command" is one execution of AggregateCommandHandler.execute().    *)
(* Its control location pc[c] is the await it is suspended at; code between *)
(* two awaits runs in one step. An aggregate object is what its mutate()   *)
(* has been given: the history it was restored from, then the events it    *)
(* emitted itself.                                                         *)
(***************************************************************************)
EXTENDS Naturals, Sequences, FiniteSets

CONSTANTS
  Procs,                  \* Node.js processes
  Commands,               \* executions of commands
  Aggregates,             \* aggregate identifiers
  At,                     \* the process each command is sent to
  Target,                 \* the aggregate each command is addressed to
  NoCommand,              \* the owner of a free lock
  MaxRetries,             \* retryOnConcurrencyError: number of retries
  IgnoreAfterMaxRetries,  \* retryOnConcurrencyError: force-dispatch afterwards
  MaxEvents,              \* most events one command emits (bound)
  MaxCrashes              \* most process crashes (bound)

ASSUME ConstantsAssumption ==
  /\ At \in [Commands -> Procs]
  /\ Target \in [Commands -> Aggregates]
  /\ NoCommand \notin Commands
  /\ MaxRetries \in Nat
  /\ IgnoreAfterMaxRetries \in BOOLEAN
  /\ MaxEvents \in Nat
  /\ MaxCrashes \in Nat

VARIABLES
  stream,   \* the shared event storage: events of each aggregate in commit order
  cache,    \* #aggregatesCache of each process: one entry per aggregate
  usage,    \* MapAssertable.#usageCounter
  lock,     \* #executionLock: who holds the lock of an aggregate
  pc,       \* the await a command is suspended at, or how it ended
  attempt,  \* local variable of execute()
  offset,   \* eventsOffset of AbstractAggregate.handle()
  batch,    \* local variable "events" of execute()
  crashes   \* number of crashes so far

vars == <<stream, cache, usage, lock, pc, attempt, offset, batch, crashes>>

\* Cache entries and locks exist per process and aggregate.
Slots   == Procs \X Aggregates
Slot(c) == <<At[c], Target[c]>>

-----------------------------------------------------------------------------
(* Events, and the cache entries of MapAssertable.                         *)

\* The commands that left an event in a history.
CommandsOf(h) == {h[i].cmd : i \in DOMAIN h}

\* An event records the aggregate's version and, for all the data that the
\* business logic can derive from the state, the commands it had observed.
Event == [cmd : Commands, version : Nat, seen : SUBSET Commands]

\* A cache entry is absent, a factory ("lazy"), or a promise: of a running
\* restore, of the aggregate, or of an error.
Entry   == [state : {"absent", "lazy", "pending", "broken", "ready"}, hist : Seq(Event)]
Absent  == [state |-> "absent",  hist |-> <<>>]
Lazy    == [state |-> "lazy",    hist |-> <<>>]
Pending == [state |-> "pending", hist |-> <<>>]
Broken  == [state |-> "broken",  hist |-> <<>>]
Ready(h) == [state |-> "ready", hist |-> h]

\* MapAssertable.get: a factory is called when the entry is first read.
Got(entry) == IF entry.state = "lazy" THEN Pending ELSE entry

\* MapAssertable.assert: creates a missing entry, and reads it.
Asserted(entry) == IF entry.state = "absent" THEN Pending ELSE Got(entry)

\* AbstractAggregate.version: one more than that of the last event mutated by.
Version(h) == IF h = <<>> THEN 0 ELSE h[Len(h)].version + 1

\* How an execution ends: the caller got the events ("done"), a ConcurrencyError
\* ("exhausted") or another error ("rejected"), or the process crashed, with or
\* without a write still on its way to the storage.
Adrift  == {"adrift", "forcedAdrift"}
Settled == {"done", "exhausted", "rejected", "lost"} \cup Adrift

\* Between acquiring the lock and releasing it.
Holding == {"locked", "loading", "handling", "dispatching", "committed",
            "conflicted", "failed", "forcing", "forceFailed"}

InFlight == Holding \cup {"queued"}

-----------------------------------------------------------------------------

Init ==
  /\ stream  = [a \in Aggregates |-> <<>>]
  /\ cache   = [s \in Slots |-> Absent]
  /\ usage   = [s \in Slots |-> 0]
  /\ lock    = [s \in Slots |-> NoCommand]
  /\ pc      = [c \in Commands |-> "idle"]
  /\ attempt = [c \in Commands |-> 0]
  /\ offset  = [c \in Commands |-> 0]
  /\ batch   = [c \in Commands |-> <<>>]
  /\ crashes = 0

\* The finally block of execute(), run in one go with what precedes it:
\* lease.release(), then MapAssertable.release, which drops the entry with
\* its last user. "entry" is what the cache holds when the block is reached.
Leave(c, entry, how) ==
  LET s == Slot(c) IN
  /\ pc'    = [pc EXCEPT ![c] = how]
  /\ lock'  = [lock EXCEPT ![s] = NoCommand]
  /\ usage' = [usage EXCEPT ![s] = IF @ > 1 THEN @ - 1 ELSE 0]
  /\ cache' = [cache EXCEPT ![s] = IF usage[s] > 1 THEN entry ELSE Absent]

\* execute() is called: the cache entry is allocated, starting a restore when
\* there is none, and then the lock is taken if free at once.
Execute(c) ==
  LET s == Slot(c) IN
  /\ pc[c] = "idle"
  /\ cache' = [cache EXCEPT ![s] = Asserted(@)]
  /\ usage' = [usage EXCEPT ![s] = @ + 1]
  /\ \/ /\ lock[s] = NoCommand
        /\ lock' = [lock EXCEPT ![s] = c]
        /\ pc'   = [pc EXCEPT ![c] = "locked"]
     \/ /\ lock[s] # NoCommand
        /\ pc'   = [pc EXCEPT ![c] = "queued"]
        /\ UNCHANGED lock
  /\ UNCHANGED <<stream, attempt, offset, batch, crashes>>

\* Mutant of Acquire: the lock is not awaited.
AcquireAtOnce(c) ==
  /\ pc[c] = "queued"
  /\ lock' = [lock EXCEPT ![Slot(c)] = c]
  /\ pc'   = [pc EXCEPT ![c] = "locked"]
  /\ UNCHANGED <<stream, cache, usage, attempt, offset, batch, crashes>>

\* A command waiting for the lock gets it: any of them, see module Lock.
Acquire(c) ==
  /\ pc[c] = "queued"
  /\ lock[Slot(c)] = NoCommand
  /\ lock' = [lock EXCEPT ![Slot(c)] = c]
  /\ pc'   = [pc EXCEPT ![c] = "locked"]
  /\ UNCHANGED <<stream, cache, usage, attempt, offset, batch, crashes>>

\* The lock holder reads the cache entry and awaits its promise.
Get(c) ==
  /\ pc[c] = "locked"
  /\ cache' = [cache EXCEPT ![Slot(c)] = Got(@)]
  /\ pc'    = [pc EXCEPT ![c] = "loading"]
  /\ UNCHANGED <<stream, usage, lock, attempt, offset, batch, crashes>>

\* A running #restoreAggregate reads the stream of the aggregate ...
Restore(s) ==
  /\ cache[s].state = "pending"
  /\ cache' = [cache EXCEPT ![s] = Ready(stream[s[2]])]
  /\ UNCHANGED <<stream, usage, lock, pc, attempt, offset, batch, crashes>>

\* ... or is rejected; the rejected promise stays in the cache.
RestoreFails(s) ==
  /\ cache[s].state = "pending"
  /\ cache' = [cache EXCEPT ![s] = Broken]
  /\ UNCHANGED <<stream, usage, lock, pc, attempt, offset, batch, crashes>>

\* Mutant of LoadingFails: the restore is awaited outside the try block.
LoadingFailsOutsideTry(c) ==
  /\ pc[c] = "loading"
  /\ cache[Slot(c)].state = "broken"
  /\ pc' = [pc EXCEPT ![c] = "rejected"]
  /\ UNCHANGED <<stream, cache, usage, lock, attempt, offset, batch, crashes>>

\* The awaited restore was rejected. No reset: that catch block is not reached.
LoadingFails(c) ==
  /\ pc[c] = "loading"
  /\ cache[Slot(c)].state = "broken"
  /\ Leave(c, cache[Slot(c)], "rejected")
  /\ UNCHANGED <<stream, attempt, offset, batch, crashes>>

\* AbstractAggregate.handle begins: events emitted from now on are the command's.
Handle(c) ==
  /\ pc[c] = "loading"
  /\ cache[Slot(c)].state = "ready"
  /\ offset' = [offset EXCEPT ![c] = Len(cache[Slot(c)].hist)]
  /\ pc'     = [pc EXCEPT ![c] = "handling"]
  /\ UNCHANGED <<stream, cache, usage, lock, attempt, batch, crashes>>

\* AbstractAggregate.emit: makeEvent, mutate, push to changes. The cached
\* object changes at once, well before the event is committed.
Emit(c) ==
  LET s == Slot(c) IN
  /\ pc[c] = "handling"
  /\ Len(cache[s].hist) < offset[c] + MaxEvents
  /\ cache' = [cache EXCEPT ![s].hist =
                 Append(@, [cmd     |-> c,
                            version |-> Version(@),
                            seen    |-> CommandsOf(@) \ {c}])]
  /\ UNCHANGED <<stream, usage, lock, pc, attempt, offset, batch, crashes>>

\* Mutant of HandlerFails: the entry keeps the events that were never stored.
HandlerFailsKeeping(c) ==
  /\ pc[c] = "handling"
  /\ Leave(c, cache[Slot(c)], "rejected")
  /\ UNCHANGED <<stream, attempt, offset, batch, crashes>>

\* The handler throws, after any number of events: the entry is replaced.
HandlerFails(c) ==
  /\ pc[c] = "handling"
  /\ Leave(c, Lazy, "rejected")
  /\ UNCHANGED <<stream, attempt, offset, batch, crashes>>

\* The handler returns and there is nothing to dispatch.
ReturnNothing(c) ==
  /\ pc[c] = "handling"
  /\ Len(cache[Slot(c)].hist) = offset[c]
  /\ batch' = [batch EXCEPT ![c] = <<>>]
  /\ Leave(c, cache[Slot(c)], "done")
  /\ UNCHANGED <<stream, attempt, offset, crashes>>

\* The handler returns; the events it emitted are sent to the event store.
Dispatch(c) ==
  LET h == cache[Slot(c)].hist IN
  /\ pc[c] = "handling"
  /\ Len(h) > offset[c]
  /\ batch' = [batch EXCEPT ![c] = SubSeq(h, offset[c] + 1, Len(h))]
  /\ pc'    = [pc EXCEPT ![c] = "dispatching"]
  /\ UNCHANGED <<stream, cache, usage, lock, attempt, offset, crashes>>

-----------------------------------------------------------------------------
(* The event storage.                                                      *)

\* Mutant of Conflict: only the last event of the batch is compared.
ConflictOfLast(c) ==
  \E j \in DOMAIN stream[Target[c]] :
     batch[c][Len(batch[c])].version = stream[Target[c]][j].version

\* Another event of the aggregate already has the version of one of these.
Conflict(c) ==
  \E i \in DOMAIN batch[c], j \in DOMAIN stream[Target[c]] :
     batch[c][i].version = stream[Target[c]][j].version

Store(c) == stream' = [stream EXCEPT ![Target[c]] = @ \o batch[c]]

\* Mutant of Commit: every error of dispatch() is taken for a ConcurrencyError.
CommitMistaken(c) ==
  /\ pc[c] = "dispatching"
  /\ ~Conflict(c)
  /\ Store(c)
  /\ \E then \in {"committed", "conflicted"} : pc' = [pc EXCEPT ![c] = then]
  /\ UNCHANGED <<cache, usage, lock, attempt, offset, batch, crashes>>

\* commitEvents checks the versions and appends in one atomic step. The caller
\* learns of it later, or is given an error raised after the commit.
Commit(c) ==
  /\ pc[c] = "dispatching"
  /\ ~Conflict(c)
  /\ Store(c)
  /\ \E then \in {"committed", "failed"} : pc' = [pc EXCEPT ![c] = then]
  /\ UNCHANGED <<cache, usage, lock, attempt, offset, batch, crashes>>

CommitConflicts(c) ==
  /\ pc[c] = "dispatching"
  /\ Conflict(c)
  /\ pc' = [pc EXCEPT ![c] = "conflicted"]
  /\ UNCHANGED <<stream, cache, usage, lock, attempt, offset, batch, crashes>>

\* Any other error before anything is stored.
CommitFails(c) ==
  /\ pc[c] = "dispatching"
  /\ pc' = [pc EXCEPT ![c] = "failed"]
  /\ UNCHANGED <<stream, cache, usage, lock, attempt, offset, batch, crashes>>

\* dispatch({ ignoreConcurrencyError: true }) stores without the check.
ForceCommit(c) ==
  /\ pc[c] = "forcing"
  /\ Store(c)
  /\ \E then \in {"committed", "forceFailed"} : pc' = [pc EXCEPT ![c] = then]
  /\ UNCHANGED <<cache, usage, lock, attempt, offset, batch, crashes>>

ForceCommitFails(c) ==
  /\ pc[c] = "forcing"
  /\ pc' = [pc EXCEPT ![c] = "forceFailed"]
  /\ UNCHANGED <<stream, cache, usage, lock, attempt, offset, batch, crashes>>

-----------------------------------------------------------------------------
(* The end of an attempt.                                                  *)

\* dispatch() resolved: the events are returned to the caller.
Return(c) ==
  /\ pc[c] = "committed"
  /\ Leave(c, cache[Slot(c)], "done")
  /\ UNCHANGED <<stream, attempt, offset, batch, crashes>>

\* normalizeRetryResolver: what follows a ConcurrencyError. The options false,
\* n, { maxRetries, ignoreAfterMaxRetries }, 'ignore' and true are the values
\* (0, FALSE), (n, FALSE), themselves, (0, TRUE) and (5, FALSE).
RetryDecision(n) ==
  CASE n < MaxRetries                              -> "retry"
    [] n >= MaxRetries /\ IgnoreAfterMaxRetries    -> "ignore"
    [] n >= MaxRetries /\ ~IgnoreAfterMaxRetries   -> "throw"

\* The object as it was before the command.
RolledBack(c) == Ready(SubSeq(cache[Slot(c)].hist, 1, offset[c]))

\* Mutant of Retry: the object is rolled back in memory, and not read again.
RetryInMemory(c) ==
  /\ pc[c] = "conflicted"
  /\ RetryDecision(attempt[c]) = "retry"
  /\ cache'   = [cache EXCEPT ![Slot(c)] = RolledBack(c)]
  /\ attempt' = [attempt EXCEPT ![c] = @ + 1]
  /\ pc'      = [pc EXCEPT ![c] = "loading"]
  /\ UNCHANGED <<stream, usage, lock, offset, batch, crashes>>

\* The entry is reset to a factory, and the loop reads it again at once.
Retry(c) ==
  /\ pc[c] = "conflicted"
  /\ RetryDecision(attempt[c]) = "retry"
  /\ cache'   = [cache EXCEPT ![Slot(c)] = Got(Lazy)]
  /\ attempt' = [attempt EXCEPT ![c] = @ + 1]
  /\ pc'      = [pc EXCEPT ![c] = "loading"]
  /\ UNCHANGED <<stream, usage, lock, offset, batch, crashes>>

\* The entry is reset, and the same events are dispatched again.
ForceDispatch(c) ==
  /\ pc[c] = "conflicted"
  /\ RetryDecision(attempt[c]) = "ignore"
  /\ cache' = [cache EXCEPT ![Slot(c)] = Lazy]
  /\ pc'    = [pc EXCEPT ![c] = "forcing"]
  /\ UNCHANGED <<stream, usage, lock, attempt, offset, batch, crashes>>

\* The entry is reset, and the ConcurrencyError is thrown.
GiveUp(c) ==
  /\ pc[c] = "conflicted"
  /\ RetryDecision(attempt[c]) = "throw"
  /\ Leave(c, Lazy, "exhausted")
  /\ UNCHANGED <<stream, attempt, offset, batch, crashes>>

\* Mutant of Reject: the entry is rolled back in memory.
RejectInMemory(c) ==
  /\ pc[c] = "failed"
  /\ Leave(c, RolledBack(c), "rejected")
  /\ UNCHANGED <<stream, attempt, offset, batch, crashes>>

\* Another error of dispatch(): no retry.
Reject(c) ==
  /\ pc[c] = "failed"
  /\ Leave(c, Lazy, "rejected")
  /\ UNCHANGED <<stream, attempt, offset, batch, crashes>>

\* Nothing catches an error of the force-dispatch.
RejectForced(c) ==
  /\ pc[c] = "forceFailed"
  /\ Leave(c, cache[Slot(c)], "rejected")
  /\ UNCHANGED <<stream, attempt, offset, batch, crashes>>

-----------------------------------------------------------------------------
(* Crashes.                                                                *)

\* Process p stops with commands in flight and is started again with an empty
\* cache and free locks. A write already sent to the storage is adrift.
Crash(p) ==
  LET dying == {c \in Commands : At[c] = p /\ pc[c] \in InFlight} IN
  /\ crashes < MaxCrashes
  /\ dying # {}
  /\ pc' = [c \in Commands |->
               CASE c \in dying /\ pc[c] = "dispatching" -> "adrift"
                 [] c \in dying /\ pc[c] = "forcing"     -> "forcedAdrift"
                 [] c \in dying /\ pc[c] \notin {"dispatching", "forcing"} -> "lost"
                 [] c \notin dying                       -> pc[c]]
  /\ cache' = [s \in Slots |-> IF s[1] = p THEN Absent ELSE cache[s]]
  /\ usage' = [s \in Slots |-> IF s[1] = p THEN 0 ELSE usage[s]]
  /\ lock'  = [s \in Slots |-> IF s[1] = p THEN NoCommand ELSE lock[s]]
  /\ crashes' = crashes + 1
  /\ UNCHANGED <<stream, attempt, offset, batch>>

\* A write adrift reaches the storage. (Or never does.)
Land(c) ==
  /\ \/ pc[c] = "adrift" /\ ~Conflict(c)
     \/ pc[c] = "forcedAdrift"
  /\ Store(c)
  /\ pc' = [pc EXCEPT ![c] = "lost"]
  /\ UNCHANGED <<cache, usage, lock, attempt, offset, batch, crashes>>

-----------------------------------------------------------------------------

\* The continuations of command c, but for the events its handler may emit.
Step(c) ==
  \/ Acquire(c) \/ Get(c) \/ LoadingFails(c) \/ Handle(c)
  \/ HandlerFails(c) \/ ReturnNothing(c) \/ Dispatch(c)
  \/ Commit(c) \/ CommitConflicts(c) \/ CommitFails(c)
  \/ ForceCommit(c) \/ ForceCommitFails(c)
  \/ Return(c) \/ Retry(c) \/ ForceDispatch(c) \/ GiveUp(c)
  \/ Reject(c) \/ RejectForced(c)

\* Every command has been executed.
Quiescent ==
  /\ \A c \in Commands : pc[c] \in Settled
  /\ UNCHANGED vars

Next ==
  \/ \E c \in Commands : Execute(c) \/ Emit(c) \/ Step(c) \/ Land(c)
  \/ \E s \in Slots : Restore(s) \/ RestoreFails(s)
  \/ \E p \in Procs : Crash(p)
  \/ Quiescent

Spec == Init /\ [][Next]_vars

\* Continuations of settled promises run, handlers return, and the storage
\* answers. Callers need not call, and processes need not crash.
Fairness ==
  /\ \A c \in Commands : WF_vars(Step(c))
  /\ \A s \in Slots : WF_vars(Restore(s) \/ RestoreFails(s))

FairSpec == Spec /\ Fairness

-----------------------------------------------------------------------------
(* Properties.                                                             *)

\* Types of the variables.
TypeOK ==
  /\ stream \in [Aggregates -> Seq(Event)]
  /\ cache \in [Slots -> Entry]
  /\ usage \in [Slots -> Nat]
  /\ lock \in [Slots -> Commands \cup {NoCommand}]
  /\ pc \in [Commands -> {"idle"} \cup InFlight \cup Settled]
  /\ attempt \in [Commands -> Nat]
  /\ offset \in [Commands -> Nat]
  /\ batch \in [Commands -> Seq(Event)]
  /\ crashes \in Nat

\* Optimistic concurrency: every stored event was decided on exactly the
\* commands stored before it, whatever the caches, retries, failures and
\* crashes of the processes (execute(): reset of the cache entry on errors;
\* commitEvents: version check).
DecidedOnHistory ==
  \A a \in Aggregates : \A i \in DOMAIN stream[a] :
    stream[a][i].seen = {stream[a][j].cmd : j \in 1..(i - 1)} \ {stream[a][i].cmd}

\* The stored versions of an aggregate are 0, 1, 2, ... with neither a gap nor
\* a duplicate, in commit order (makeEvent, mutate, commitEvents).
ContiguousVersions ==
  \A a \in Aggregates : \A i \in DOMAIN stream[a] : stream[a][i].version = i - 1

\* The positions of a command's events in the stream.
Positions(c) == {i \in DOMAIN stream[Target[c]] : stream[Target[c]][i].cmd = c}

\* A command is stored at most once and as a whole; a caller that got events
\* finds them stored; a caller that got a ConcurrencyError finds none.
AllOrNothing ==
  \A c \in Commands :
    /\ Positions(c) # {} =>
         \E k \in 0..Len(stream[Target[c]]) :
           /\ Positions(c) = (k + 1)..(k + Len(batch[c]))
           /\ \A i \in DOMAIN batch[c] : stream[Target[c]][k + i] = batch[c][i]
    /\ pc[c] = "done" => Cardinality(Positions(c)) = Len(batch[c])
    /\ pc[c] = "exhausted" => Positions(c) = {}

\* AbstractAggregate.handle would throw "Another command is being processed"
\* if two commands of a process worked on one aggregate; the lock prevents it.
SerialHandling ==
  \A c, d \in Commands :
    /\ c # d
    /\ Slot(c) = Slot(d)
    /\ pc[c] \in Holding
    => pc[d] \notin Holding

\* MapAssertable's counter is the number of executions that have asserted the
\* entry and not released it, and the entry exists exactly while they do:
\* never dropped under a command, never leaked after the last one.
CacheAccounting ==
  \A s \in Slots :
    /\ usage[s] = Cardinality({c \in Commands : Slot(c) = s /\ pc[c] \in InFlight})
    /\ cache[s].state = "absent" <=> usage[s] = 0

\* The commands of a process on an aggregate are handled one after the other:
\* each starts from a state that includes whatever is stored of the commands
\* that its process executed before, even of one that was rejected ("any
\* commands queued on the lock start from a clean state",
\* AggregateCommandHandler.ts:185).
StartsAfterPredecessors ==
  [][\A c \in Commands :
       pc[c] = "loading" /\ pc'[c] = "handling" =>
         \A d \in Commands :
           Slot(d) = Slot(c) /\ pc[d] \in {"done", "rejected"} /\ Positions(d) # {} =>
             d \in CommandsOf(cache[Slot(c)].hist)]_vars

\* A retry starts from a longer history than the attempt that failed: it is
\* never decided on the state that has just been found stale.
RetryStartsFresher ==
  [][\A c \in Commands :
       pc[c] = "loading" /\ pc'[c] = "handling" /\ attempt[c] > 0 =>
         offset'[c] > offset[c]]_vars

\* Every execute() settles: no command waits for ever on the lock, on a cache
\* entry or in the retry loop.
EveryCommandSettles ==
  \A c \in Commands : pc[c] \in InFlight ~> pc[c] \in Settled

\* With force-dispatching off, the handler implements AggregateStore.
OutcomeOf(c) ==
  CASE pc[c] \in {"done", "exhausted", "rejected"} -> pc[c]
    [] pc[c] \in {"lost"} \cup Adrift              -> "lost"
    [] pc[c] \in {"idle"} \cup InFlight            -> "none"

ReplyOf(c) == IF pc[c] = "done" THEN {batch[c][i] : i \in DOMAIN batch[c]} ELSE {}

Promise == INSTANCE AggregateStore
             WITH outcome <- [c \in Commands |-> OutcomeOf(c)],
                  reply   <- [c \in Commands |-> ReplyOf(c)]

\* Every step of the handlers is a step of AggregateStore, or changes nothing
\* that it promises.
ImplementsAggregateStore == Promise!Spec
=============================================================================
