------------------------------ MODULE ObjectStorage ------------------------------
(***************************************************************************)
(* InMemoryView.ts, SqliteObjectStorage.ts, MongoObjectStorage.ts and      *)
(* RedisObjectStorage.ts: one record of a view, and the processes that     *)
(* create, update and delete it. Each works on one backend, chosen in      *)
(* Init; InMemoryView is of one process, and its operations are            *)
(* synchronous.                                                            *)
(*                                                                         *)
(* Data is abstracted to the set of operations whose effect it has: an     *)
(* update adds itself to the data that it has read.                        *)
(***************************************************************************)
EXTENDS Naturals

CONSTANTS
  Operations,
  KindOf,       \* "create", "update", "upsert" (updateEnforcingNew) or "delete"
  Backends,     \* subset of {"memory", "sqlite", "mongo", "redis"}
  MaxRetries,   \* maxRetries
  MaxFailures,  \* bound on requests that the database fails
  None          \* no record

Kinds == {"create", "update", "upsert", "delete"}

\* What the record may be. The life is not stored: versions start from 1 in each.
Versions == [version : Nat \ {0}, data : SUBSET Operations, life : Nat \ {0}]

ASSUME ConstantsAssumption ==
  /\ None \notin Versions /\ KindOf \in [Operations -> Kinds]
  /\ MaxRetries \in Nat /\ MaxFailures \in Nat

VARIABLES
  backend,
  record,    \* the record, or None
  calls,     \* each operation, by the request it awaits, or its outcome
  seen,      \* the record that it has read, or None
  attempts,  \* retries so far
  failures,  \* failed requests so far
  effects,   \* how often each operation has changed the record (history)
  life,      \* number of the life of the record, from its creation (history)
  kept,      \* operations with an effect on this life of it (history)
  writes,    \* changes of the record so far (history)
  since      \* value of writes when an operation was called (history)

history == <<effects, life, kept, writes, since>>
vars    == <<backend, record, calls, seen, attempts, failures, history>>

Active == {"reading", "writing"}
Errors == {"exists", "missing", "conflict", "exhausted"}

Record(version, data) == [version |-> version, data |-> data, life |-> life]

Init ==
  /\ backend  \in Backends
  /\ record   = None
  /\ calls    = [o \in Operations |-> "none"]
  /\ seen     = [o \in Operations |-> None]
  /\ attempts = [o \in Operations |-> 0]
  /\ failures = 0
  /\ effects  = [o \in Operations |-> 0]
  /\ life     = 1
  /\ kept     = {}
  /\ writes   = 0
  /\ since    = [o \in Operations |-> 0]

Become(o, state) == calls' = [calls EXCEPT ![o] = state]

\* Updates read the record first. In memory, that is one step with the write.
Call(o) ==
  /\ calls[o] = "none"
  /\ Become(o, IF KindOf[o] \in {"update", "upsert"} /\ backend # "memory"
                 THEN "reading" ELSE "writing")
  /\ since' = [since EXCEPT ![o] = writes]
  /\ UNCHANGED <<backend, record, seen, attempts, failures, effects, life, kept, writes>>

\* get() before an update. An update needs a record.
Read(o) ==
  /\ calls[o] = "reading"
  /\ seen' = [seen EXCEPT ![o] = record]
  /\ Become(o, IF record = None /\ KindOf[o] = "update" THEN "missing" ELSE "writing")
  /\ UNCHANGED <<backend, record, attempts, failures, history>>

-----------------------------------------------------------------------------
(* The write.                                                              *)

\* The record has the effect of one more operation.
Put(o, r) ==
  /\ record'  = r
  /\ effects' = [effects EXCEPT ![o] = @ + 1]
  /\ kept'    = kept \cup {o}
  /\ writes'  = writes + 1
  /\ UNCHANGED <<backend, seen, attempts, life, since>>

\* insertOne, SET NX, INSERT: nothing is done if there is a record.
Insert(o) == record = None /\ Put(o, Record(1, {o}))

\* Mutant of Matches: the record is looked up by its id alone.
MatchesId(o) == record # None /\ seen[o] # None

\* The record has the version that was read, if any was.
Matches(o) ==
  /\ record # None /\ seen[o] # None
  /\ record.version = seen[o].version

\* findOneAndUpdate, the script of Redis, UPDATE: the record is replaced if it has
\* the version that the data was computed from.
Replace(o) ==
  /\ Matches(o)
  /\ Put(o, [Record(seen[o].version + 1, seen[o].data \cup {o}) EXCEPT !.life = seen[o].life])

\* InMemoryView: the record is read and replaced in one step.
ReplaceInMemory(o) ==
  /\ backend = "memory" /\ record # None
  /\ Put(o, Record(1, record.data \cup {o}))

Remove ==
  /\ record' = None
  /\ life'   = IF record = None THEN life ELSE life + 1
  /\ kept'   = {}
  /\ writes' = IF record = None THEN writes ELSE writes + 1
  /\ UNCHANGED <<backend, seen, attempts, effects, since>>

Change(o) ==
  /\ calls[o] = "writing"
  /\ \/ KindOf[o] = "create" /\ Insert(o)
     \/ KindOf[o] = "upsert" /\ seen[o] = None /\ Insert(o)
     \/ KindOf[o] \in {"update", "upsert"} /\ (Replace(o) \/ ReplaceInMemory(o))
     \/ KindOf[o] = "delete" /\ Remove

Write(o) ==
  /\ Change(o)
  /\ Become(o, "done")
  /\ UNCHANGED failures

\* create() finds a record, and update() none in memory.
Refuse(o) ==
  /\ calls[o] = "writing"
  /\ \/ KindOf[o] = "create" /\ record # None /\ Become(o, "exists")
     \/ KindOf[o] = "update" /\ record = None /\ backend = "memory" /\ Become(o, "missing")
  /\ UNCHANGED <<backend, record, seen, attempts, failures, history>>

\* The record is not the one that was read, or was read to be none.
Mismatch(o) ==
  /\ calls[o] = "writing" /\ backend # "memory"
  /\ KindOf[o] \in {"update", "upsert"}
  /\ IF seen[o] = None THEN record # None ELSE ~Matches(o)

\* SQLite leaves it to the caller.
Conflict(o) ==
  /\ backend = "sqlite" /\ Mismatch(o)
  /\ Become(o, "conflict")
  /\ UNCHANGED <<backend, record, seen, attempts, failures, history>>

\* With Redis, update() ends if the record is gone.
Gone(o) ==
  /\ backend = "redis" /\ Mismatch(o)
  /\ KindOf[o] = "update" /\ record = None
  /\ Become(o, "missing")
  /\ UNCHANGED <<backend, record, seen, attempts, failures, history>>

\* Mutant of Retry: the record is not read again.
RetryUnread(o) ==
  /\ backend \in {"mongo", "redis"} /\ Mismatch(o)
  /\ backend = "mongo" \/ KindOf[o] = "upsert" \/ record # None
  /\ IF attempts[o] < MaxRetries
       THEN attempts' = [attempts EXCEPT ![o] = @ + 1] /\ UNCHANGED calls
       ELSE Become(o, "exhausted") /\ UNCHANGED attempts
  /\ UNCHANGED <<backend, record, seen, failures, history>>

\* With MongoDB and Redis the update starts again, MaxRetries times at most.
Retry(o) ==
  /\ backend \in {"mongo", "redis"} /\ Mismatch(o)
  /\ backend = "mongo" \/ KindOf[o] = "upsert" \/ record # None
  /\ IF attempts[o] < MaxRetries
       THEN attempts' = [attempts EXCEPT ![o] = @ + 1] /\ Become(o, "reading")
       ELSE Become(o, "exhausted") /\ UNCHANGED attempts
  /\ UNCHANGED <<backend, record, seen, failures, history>>

Fault == backend # "memory" /\ failures < MaxFailures /\ failures' = failures + 1

\* Mutant of WriteFails: the operation starts again after any error.
WriteFailsRetried(o) ==
  /\ calls[o] = "writing" /\ Fault
  /\ Change(o) \/ UNCHANGED <<backend, record, seen, attempts, history>>
  /\ Become(o, IF backend \in {"mongo", "redis"} /\ KindOf[o] \in {"update", "upsert"} THEN "reading" ELSE "failed")

\* The database fails a request, whether it has executed it or not.
WriteFails(o) ==
  /\ calls[o] = "writing" /\ Fault
  /\ Change(o) \/ UNCHANGED <<backend, record, seen, attempts, history>>
  /\ Become(o, "failed")

ReadFails(o) ==
  /\ calls[o] = "reading" /\ Fault
  /\ Become(o, "failed")
  /\ UNCHANGED <<backend, record, seen, attempts, history>>

Step(o) ==
  \/ Call(o) \/ Read(o) \/ Write(o) \/ Refuse(o) \/ Conflict(o) \/ Gone(o) \/ Retry(o)
  \/ WriteFails(o) \/ ReadFails(o)

Next == \E o \in Operations : Step(o)

Spec == Init /\ [][Next]_vars

-----------------------------------------------------------------------------
(* Properties.                                                             *)

\* Types of the variables.
TypeOK ==
  /\ backend \in Backends /\ record \in Versions \cup {None}
  /\ calls \in [Operations -> Active \cup Errors \cup {"none", "done", "failed"}]
  /\ seen \in [Operations -> Versions \cup {None}]
  /\ attempts \in [Operations -> 0..MaxRetries] /\ failures \in Nat
  /\ effects \in [Operations -> Nat] /\ life \in Nat \ {0} /\ kept \subseteq Operations
  /\ writes \in Nat /\ since \in [Operations -> Nat]

\* The record goes back, update by update, to its last creation. It need not: an update
\* that read version 1 of the record before it was deleted and created again replaces
\* version 1 of the new one.
OfThisLife == record # None => record.life = life

\* No update is lost: the record has the effect of every operation that changed it
\* since it was created, unless it was replaced by data of an earlier life.
NoLostUpdate == record # None /\ record.life = life => record.data = kept

\* An operation has its effect once if it succeeds, once at most if the database
\* failed it, and none if it reports a record that exists, is missing or changes.
EffectsAsReported ==
  \A o \in Operations :
    /\ effects[o] <= 1
    /\ calls[o] = "done" /\ KindOf[o] # "delete" => effects[o] = 1
    /\ calls[o] \in Errors => effects[o] = 0

\* An update gives up only if the record has been changed meanwhile, once for each of
\* its attempts: they do not fail for each other, or for themselves.
ExhaustedByOthers ==
  \A o \in Operations : calls[o] = "exhausted" => writes > since[o] + MaxRetries
=============================================================================
