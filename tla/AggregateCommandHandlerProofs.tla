-------------------- MODULE AggregateCommandHandlerProofs --------------------
(***************************************************************************)
(* Theorems about AggregateCommandHandler, for any processes, commands,    *)
(* aggregates, retry options and bounds.                                   *)
(***************************************************************************)
EXTENDS AggregateCommandHandler, SequenceTheorems, FiniteSetTheorems, TLAPS

-----------------------------------------------------------------------------
(* Type correctness.                                                       *)

\* A command addresses the cache entry and lock of its process and aggregate
\* (execute() works on the entry of cmd.aggregateId only).
LEMMA SlotType == \A c \in Commands : /\ Slot(c) \in Slots
                                      /\ Slot(c)[1] = At[c]
                                      /\ Slot(c)[2] = Target[c]
                                      /\ Target[c] \in Aggregates
                                      /\ At[c] \in Procs
  BY ConstantsAssumption DEF Slot, Slots

\* The values that MapAssertable is given, and what its get() and assert() make
\* of an entry, are entries.
LEMMA EntryType ==
  /\ Absent \in Entry /\ Lazy \in Entry /\ Pending \in Entry /\ Broken \in Entry
  /\ \A h \in Seq(Event) : Ready(h) \in Entry
  /\ \A e \in Entry : Got(e) \in Entry /\ Asserted(e) \in Entry
  <1>1. <<>> \in Seq(Event)
    OBVIOUS
  <1>. QED
    BY <1>1 DEF Entry, Absent, Lazy, Pending, Broken, Ready, Got, Asserted

\* An aggregate's version is a number whatever history it was mutated by.
LEMMA VersionType == \A h \in Seq(Event) : Version(h) \in Nat
  <1>. SUFFICES ASSUME NEW h \in Seq(Event), h # <<>> PROVE h[Len(h)].version + 1 \in Nat
    BY DEF Version
  <1>1. h[Len(h)] \in Event
    BY ElementOfSeq, EmptySeq, LenProperties
  <1>. QED
    BY <1>1 DEF Event

\* Leaving execute() keeps the types.
LEMMA LeaveType ==
  ASSUME TypeOK, NEW c \in Commands, NEW entry \in Entry, NEW how \in Settled,
         Leave(c, entry, how)
  PROVE  /\ cache' \in [Slots -> Entry]
         /\ usage' \in [Slots -> Nat]
         /\ lock' \in [Slots -> Commands \cup {NoCommand}]
         /\ pc' \in [Commands -> {"idle"} \cup InFlight \cup Settled]
  BY SlotType, EntryType DEF TypeOK, Leave, Entry

\* TypeOK is an invariant: in particular the lock is never owned by anything but
\* a command, and the usage counter is never negative.
THEOREM TypeCorrect == Spec => []TypeOK
<1>1. Init => TypeOK
  BY EntryType DEF Init, TypeOK
<1>2. TypeOK /\ [Next]_vars => TypeOK'
  <2>. SUFFICES ASSUME TypeOK, [Next]_vars
                PROVE  TypeOK'
    OBVIOUS
  <2>. USE SlotType, EntryType
  <2>1. ASSUME NEW c \in Commands, Execute(c)
        PROVE  TypeOK'
    <3>1. Asserted(cache[Slot(c)]) \in Entry
      BY DEF TypeOK
    <3>2. cache' \in [Slots -> Entry]
      BY <2>1, <3>1 DEF Execute, TypeOK
    <3>3. usage' \in [Slots -> Nat]
      BY <2>1 DEF Execute, TypeOK
    <3>4. /\ lock' \in [Slots -> Commands \cup {NoCommand}]
          /\ pc' \in [Commands -> {"idle"} \cup InFlight \cup Settled]
      BY <2>1 DEF Execute, TypeOK, InFlight, Holding
    <3>. QED
      BY <2>1, <3>2, <3>3, <3>4 DEF Execute, TypeOK
  <2>2. ASSUME NEW c \in Commands, Emit(c)
        PROVE  TypeOK'
    <3>. DEFINE h == cache[Slot(c)].hist
                e == [cmd |-> c, version |-> Version(h), seen |-> CommandsOf(h) \ {c}]
    <3>1. h \in Seq(Event)
      BY DEF TypeOK, Entry
    <3>2. CommandsOf(h) \subseteq Commands
      <4>1. \A i \in DOMAIN h : h[i] \in Event
        BY <3>1, ElementOfSeq, LenProperties
      <4>. QED
        BY <4>1 DEF CommandsOf, Event
    <3>3. e \in Event
      BY <3>1, <3>2, VersionType DEF Event
    <3>4. Append(h, e) \in Seq(Event)
      BY <3>1, <3>3
    <3>5. cache' = [cache EXCEPT ![Slot(c)] = [@ EXCEPT !.hist = Append(h, e)]]
      BY <2>2 DEF Emit
    <3>6. [cache[Slot(c)] EXCEPT !.hist = Append(h, e)] \in Entry
      BY <3>4 DEF TypeOK, Entry
    <3>7. cache' \in [Slots -> Entry]
      BY <3>5, <3>6 DEF TypeOK
    <3>. QED
      BY <2>2, <3>7 DEF Emit, TypeOK
  <2>3. ASSUME NEW c \in Commands, Step(c)
        PROVE  TypeOK'
    <3>1. CASE Acquire(c)
      BY <3>1 DEF Acquire, TypeOK, InFlight, Holding
    <3>2. CASE Get(c)
      BY <3>2 DEF Get, TypeOK, InFlight, Holding
    <3>3. CASE LoadingFails(c)
      BY <3>3, LeaveType DEF LoadingFails, TypeOK, Settled
    <3>4. CASE Handle(c)
      BY <3>4, LenProperties DEF Handle, TypeOK, InFlight, Holding
    <3>5. CASE HandlerFails(c)
      BY <3>5, LeaveType DEF HandlerFails, TypeOK, Settled
    <3>6. CASE ReturnNothing(c)
      <4>1. batch' \in [Commands -> Seq(Event)]
        BY <3>6 DEF ReturnNothing, TypeOK
      <4>2. cache[Slot(c)] \in Entry /\ "done" \in Settled
        BY DEF TypeOK, Settled
      <4>. QED
        BY <3>6, <4>1, <4>2, LeaveType DEF ReturnNothing, TypeOK
    <3>7. CASE Dispatch(c)
      <4>. DEFINE h == cache[Slot(c)].hist
      <4>1. h \in Seq(Event)
        BY DEF TypeOK, Entry
      <4>2. SubSeq(h, offset[c] + 1, Len(h)) \in Seq(Event)
        BY <4>1, LenProperties DEF TypeOK
      <4>. QED
        BY <3>7, <4>2 DEF Dispatch, TypeOK, InFlight, Holding
    <3>8. CASE Commit(c) \/ ForceCommit(c)
      <4>1. stream[Target[c]] \o batch[c] \in Seq(Event)
        BY DEF TypeOK
      <4>. QED
        <5>1. stream' \in [Aggregates -> Seq(Event)]
          BY <3>8, <4>1 DEF Commit, ForceCommit, Store, TypeOK
        <5>2. pc' \in [Commands -> {"idle"} \cup InFlight \cup Settled]
          BY <3>8 DEF Commit, ForceCommit, TypeOK, InFlight, Holding
        <5>. QED
          BY <3>8, <5>1, <5>2 DEF Commit, ForceCommit, TypeOK
    <3>9. CASE CommitConflicts(c) \/ CommitFails(c) \/ ForceCommitFails(c)
      BY <3>9 DEF CommitConflicts, CommitFails, ForceCommitFails, TypeOK, InFlight, Holding
    <3>10. CASE Return(c) \/ RejectForced(c)
      BY <3>10, LeaveType DEF Return, RejectForced, TypeOK, Settled
    <3>11. CASE Retry(c)
      BY <3>11 DEF Retry, TypeOK, InFlight, Holding
    <3>12. CASE ForceDispatch(c)
      BY <3>12 DEF ForceDispatch, TypeOK, InFlight, Holding
    <3>13. CASE GiveUp(c)
      BY <3>13, LeaveType DEF GiveUp, TypeOK, Settled
    <3>14. CASE Reject(c)
      BY <3>14, LeaveType DEF Reject, TypeOK, Settled
    <3>. QED
      BY <2>3, <3>1, <3>2, <3>3, <3>4, <3>5, <3>6, <3>7, <3>8, <3>9, <3>10, <3>11, <3>12,
         <3>13, <3>14 DEF Step
  <2>4. ASSUME NEW c \in Commands, Land(c)
        PROVE  TypeOK'
    <3>1. stream[Target[c]] \o batch[c] \in Seq(Event)
      BY DEF TypeOK
    <3>. QED
      BY <2>4, <3>1 DEF Land, Store, TypeOK, Settled
  <2>5. ASSUME NEW s \in Slots, Restore(s)
        PROVE  TypeOK'
    <3>1. stream[s[2]] \in Seq(Event)
      BY DEF TypeOK, Slots
    <3>. QED
      BY <2>5, <3>1 DEF Restore, TypeOK
  <2>6. ASSUME NEW s \in Slots, RestoreFails(s)
        PROVE  TypeOK'
    BY <2>6 DEF RestoreFails, TypeOK
  <2>7. ASSUME NEW p \in Procs, Crash(p)
        PROVE  TypeOK'
    BY <2>7 DEF Crash, TypeOK, Settled, Adrift
  <2>8. CASE UNCHANGED vars
    BY <2>8 DEF vars, TypeOK
  <2>. QED
    BY <2>1, <2>2, <2>3, <2>4, <2>5, <2>6, <2>7, <2>8 DEF Next, Quiescent
<1>. QED
  BY <1>1, <1>2, PTL DEF Spec

-----------------------------------------------------------------------------
(* Mutual exclusion.                                                       *)

\* A command is between Acquire and Leave exactly while it owns the lock.
LockInv == \A c \in Commands : pc[c] \in Holding <=> lock[Slot(c)] = c

\* The lock of an aggregate is owned by exactly the command that runs between
\* acquire() and the finally block of execute().
LEMMA Locking == Spec => []LockInv
<1>1. Init => LockInv
  BY ConstantsAssumption, SlotType DEF Init, LockInv, Holding
<1>2. TypeOK /\ LockInv /\ [Next]_vars => LockInv'
  <2>. SUFFICES ASSUME TypeOK, LockInv, [Next]_vars
                PROVE  LockInv'
    OBVIOUS
  <2>. USE SlotType, ConstantsAssumption DEF LockInv, TypeOK
  <2>1. ASSUME NEW c \in Commands, Execute(c)
        PROVE  LockInv'
    <3>1. CASE lock[Slot(c)] = NoCommand
      <4>1. /\ lock' = [lock EXCEPT ![Slot(c)] = c]
            /\ pc'   = [pc EXCEPT ![c] = "locked"]
        BY <2>1, <3>1 DEF Execute
      <4>. QED
        BY <2>1, <3>1, <4>1 DEF Holding
    <3>2. CASE lock[Slot(c)] # NoCommand
      <4>1. pc' = [pc EXCEPT ![c] = "queued"] /\ UNCHANGED lock
        BY <2>1, <3>2 DEF Execute
      <4>2. pc[c] = "idle"
        BY <2>1 DEF Execute
      <4>. QED
        BY <4>1, <4>2 DEF Holding
    <3>. QED
      BY <3>1, <3>2
  <2>2. ASSUME NEW c \in Commands, Emit(c)
        PROVE  LockInv'
    BY <2>2 DEF Emit
  <2>3. ASSUME NEW c \in Commands, Step(c)
        PROVE  LockInv'
    <3>1. CASE Acquire(c)
      BY <3>1 DEF Acquire, Holding
    <3>2. ASSUME pc[c] \in Holding, NEW to \in Holding,
                 pc' = [pc EXCEPT ![c] = to], UNCHANGED lock
          PROVE  LockInv'
      BY <3>2
    <3>3. ASSUME pc[c] \in Holding, NEW entry, NEW how \in Settled, Leave(c, entry, how)
          PROVE  LockInv'
      BY <3>3 DEF Leave, Holding, Settled, Adrift
    <3>. QED
      <4>. USE DEF Holding
      <4>1. CASE Get(c) \/ Handle(c) \/ Dispatch(c) \/ Retry(c) \/ ForceDispatch(c)
        BY <4>1, <3>2 DEF Get, Handle, Dispatch, Retry, ForceDispatch
      <4>2. CASE Commit(c) \/ ForceCommit(c) \/ CommitConflicts(c) \/ CommitFails(c) \/ ForceCommitFails(c)
        BY <4>2, <3>2 DEF Commit, ForceCommit, CommitConflicts, CommitFails, ForceCommitFails
      <4>3. CASE LoadingFails(c) \/ HandlerFails(c) \/ ReturnNothing(c) \/ Return(c)
        BY <4>3, <3>3 DEF LoadingFails, HandlerFails, ReturnNothing, Return, Settled
      <4>4. CASE GiveUp(c) \/ Reject(c) \/ RejectForced(c)
        BY <4>4, <3>3 DEF GiveUp, Reject, RejectForced, Settled
      <4>. QED
        BY <2>3, <3>1, <4>1, <4>2, <4>3, <4>4 DEF Step
  <2>4. ASSUME NEW c \in Commands, Land(c)
        PROVE  LockInv'
    BY <2>4 DEF Land, Holding
  <2>5. ASSUME NEW s \in Slots, Restore(s) \/ RestoreFails(s)
        PROVE  LockInv'
    BY <2>5 DEF Restore, RestoreFails
  <2>6. ASSUME NEW p \in Procs, Crash(p)
        PROVE  LockInv'
    <3>. SUFFICES ASSUME NEW c \in Commands
                  PROVE  pc'[c] \in Holding <=> lock'[Slot(c)] = c
      OBVIOUS
    <3>1. CASE At[c] = p
      <4>1. pc'[c] \notin Holding
        BY <2>6, <3>1 DEF Crash, Holding, InFlight
      <4>. QED
        BY <2>6, <3>1, <4>1 DEF Crash
    <3>2. CASE At[c] # p
      BY <2>6, <3>2 DEF Crash
    <3>. QED
      BY <3>1, <3>2
  <2>7. CASE UNCHANGED vars
    BY <2>7 DEF vars
  <2>. QED
    BY <2>1, <2>2, <2>3, <2>4, <2>5, <2>6, <2>7 DEF Next, Quiescent
<1>. QED
  BY <1>1, <1>2, TypeCorrect, PTL DEF Spec

\* Two commands of one process are never at work on the same aggregate, so that
\* the guard of AbstractAggregate.handle() ("Another command is being processed")
\* is never hit, through retries, failures and crashes.
THEOREM MutualExclusion == Spec => []SerialHandling
<1>1. LockInv => SerialHandling
  BY DEF LockInv, SerialHandling
<1>. QED
  BY <1>1, Locking, PTL

-----------------------------------------------------------------------------
(* Optimistic concurrency.                                                 *)
(*                                                                         *)
(* DecidedOnHistory and ContiguousVersions are not inductive: they hold     *)
(* because the object a command works on is, up to the command's offset, a *)
(* prefix of the stream (WorkInv), which is what the resets of the cache    *)
(* entry preserve between commands (CleanInv), and because the version     *)
(* check turns "a prefix" into "the whole stream" at the commit.           *)

Dirtying == {"handling", "dispatching", "conflicted", "failed"}
Unstored == {"idle", "queued", "locked", "loading", "handling", "dispatching",
             "conflicted", "exhausted", "adrift"}

Prefix(h, s) == /\ Len(h) <= Len(s)
                /\ \A i \in 1..Len(h) : h[i] = s[i]

Seen(s, n) == {s[j].cmd : j \in 1..n}

\* e is what command c emits on top of its offset in its stream, as event i.
Emitted(c, e, i) ==
  /\ e.cmd = c
  /\ e.version = i - 1
  /\ e.seen = Seen(stream[Target[c]], offset[c])

\* Every stored event has its position as version, and saw what precedes it.
StreamInv ==
  \A a \in Aggregates : \A i \in 1..Len(stream[a]) :
    /\ stream[a][i].version = i - 1
    /\ stream[a][i].seen = Seen(stream[a], i - 1) \ {stream[a][i].cmd}

\* Nothing is stored of a command before its commit.
UnstoredInv ==
  \A c \in Commands : pc[c] \in Unstored =>
    \A i \in 1..Len(stream[Target[c]]) : stream[Target[c]][i].cmd # c

\* The object a command works on: a prefix of the stream, then its own events.
WorkOn(c) ==
  LET h == cache[Slot(c)].hist
      s == stream[Target[c]]
  IN  /\ cache[Slot(c)].state = "ready"
      /\ offset[c] <= Len(h)
      /\ offset[c] <= Len(s)
      /\ \A i \in 1..offset[c] : h[i] = s[i]
      /\ \A i \in (offset[c] + 1)..Len(h) : Emitted(c, h[i], i)

WorkInv == \A c \in Commands : pc[c] \in {"handling", "dispatching"} => WorkOn(c)

\* The events on their way to the storage ...
BatchOf(c) ==
  /\ Len(batch[c]) > 0
  /\ offset[c] <= Len(stream[Target[c]])
  /\ \A i \in 1..Len(batch[c]) : Emitted(c, batch[c][i], offset[c] + i)

\* ... are those that the object was given.
BatchIsWork(c) ==
  LET h == cache[Slot(c)].hist
  IN  /\ Len(h) = offset[c] + Len(batch[c])
      /\ \A i \in 1..Len(batch[c]) : h[offset[c] + i] = batch[c][i]

BatchInv ==
  \A c \in Commands :
    /\ pc[c] \in {"dispatching", "adrift"} => BatchOf(c)
    /\ pc[c] = "dispatching" => BatchIsWork(c)

\* An object that no command works on is a prefix of the stream.
CleanInv ==
  \A s \in Slots :
    /\ cache[s].state = "ready"
    /\ \A c \in Commands : Slot(c) = s => pc[c] \notin Dirtying
    => Prefix(cache[s].hist, stream[s[2]])

NothingForced == \A c \in Commands : pc[c] \notin {"forcing", "forceFailed", "forcedAdrift"}

HistoryInv ==
  /\ StreamInv
  /\ UnstoredInv
  /\ WorkInv
  /\ BatchInv
  /\ CleanInv
  /\ NothingForced

\* A step that stores nothing, starts and ends no work on an object that stays
\* in the cache, and replaces only objects that nobody works on.
LEMMA QuietStep ==
  ASSUME HistoryInv,
         UNCHANGED <<stream, offset, batch>>,
         \A d \in Commands :
           \/ pc'[d] = pc[d]
           \/ pc[d] = "dispatching" /\ pc'[d] = "adrift"
           \/ pc'[d] \notin {"handling", "dispatching", "adrift", "forcing", "forceFailed", "forcedAdrift"},
         \A d \in Commands : pc'[d] \in Unstored => pc[d] \in Unstored,
         \A s \in Slots :
           \/ cache'[s] = cache[s]
           \/ /\ cache'[s].state # "ready"
              /\ \A d \in Commands : Slot(d) = s => pc'[d] \notin {"handling", "dispatching"},
         \A s \in Slots, d \in Commands :
           cache'[s].state = "ready" /\ Slot(d) = s /\ pc[d] \in Dirtying => pc'[d] \in Dirtying
  PROVE  HistoryInv'
<1>1. StreamInv'
  BY DEF HistoryInv, StreamInv, Seen
<1>2. UnstoredInv'
  BY DEF HistoryInv, UnstoredInv
<1>3. WorkInv'
  <2>. SUFFICES ASSUME NEW c \in Commands, pc'[c] \in {"handling", "dispatching"}
                PROVE  WorkOn(c)'
    BY DEF WorkInv
  <2>1. pc[c] = pc'[c] /\ cache'[Slot(c)] = cache[Slot(c)]
    BY SlotType
  <2>2. WorkOn(c)
    BY <2>1 DEF HistoryInv, WorkInv
  <2>3. \A e, i : Emitted(c, e, i)' <=> Emitted(c, e, i)
    BY DEF Emitted, Seen
  <2>. QED
    BY <2>1, <2>2, <2>3 DEF WorkOn
<1>4. BatchInv'
  <2>. SUFFICES ASSUME NEW c \in Commands
                PROVE  /\ pc'[c] \in {"dispatching", "adrift"} => BatchOf(c)'
                       /\ pc'[c] = "dispatching" => BatchIsWork(c)'
    BY DEF BatchInv
  <2>1. ASSUME pc'[c] \in {"dispatching", "adrift"}
        PROVE  BatchOf(c)'
    <3>1. BatchOf(c)
      BY <2>1 DEF HistoryInv, BatchInv
    <3>. QED
      BY <3>1 DEF BatchOf, Emitted, Seen
  <2>2. ASSUME pc'[c] = "dispatching"
        PROVE  BatchIsWork(c)'
    <3>1. BatchIsWork(c)
      BY <2>2 DEF HistoryInv, BatchInv
    <3>2. cache'[Slot(c)] = cache[Slot(c)]
      BY <2>2, SlotType
    <3>. QED
      BY <3>1, <3>2 DEF BatchIsWork, Slot
  <2>. QED
    BY <2>1, <2>2
<1>5. CleanInv'
  BY DEF HistoryInv, CleanInv, Prefix, Slot
<1>6. NothingForced'
  BY DEF HistoryInv, NothingForced
<1>. QED
  BY <1>1, <1>2, <1>3, <1>4, <1>5, <1>6 DEF HistoryInv

\* The entry of a command at work is neither missing, lazy nor pending.
LEMMA AtWork ==
  ASSUME HistoryInv, NEW s \in Slots, cache[s].state # "ready", NEW d \in Commands, Slot(d) = s
  PROVE  pc[d] \notin {"handling", "dispatching"}
  BY DEF HistoryInv, WorkInv, WorkOn

\* While c holds the lock, no other command is at work on the same object.
LEMMA Alone ==
  ASSUME LockInv, NEW c \in Commands, pc[c] \in Holding, NEW d \in Commands, d # c, Slot(d) = Slot(c)
  PROVE  pc[d] \notin Holding
  BY DEF LockInv

\* The actions of execute() that neither store nor change an object in use
\* keep the invariant.
LEMMA QuietActions ==
  ASSUME TypeOK, LockInv, HistoryInv, ~IgnoreAfterMaxRetries, NEW c \in Commands,
         \/ Execute(c) \/ Acquire(c) \/ Get(c) \/ LoadingFails(c) \/ HandlerFails(c)
         \/ CommitConflicts(c) \/ CommitFails(c) \/ Return(c) \/ Retry(c) \/ GiveUp(c) \/ Reject(c)
  PROVE  HistoryInv'
<1>. USE SlotType, EntryType, AtWork, Alone
<1>. USE DEF Unstored, Dirtying
<1>1. CASE Execute(c)
  <2>1. /\ UNCHANGED <<stream, offset, batch>>
        /\ \E to \in {"locked", "queued"} : pc' = [pc EXCEPT ![c] = to]
        /\ pc[c] = "idle"
        /\ cache' = [cache EXCEPT ![Slot(c)] = Asserted(@)]
    BY <1>1 DEF Execute
  <2>2. \A e \in Entry : Asserted(e) = e \/ (e.state # "ready" /\ Asserted(e).state # "ready")
    BY DEF Asserted, Got, Pending, Entry
  <2>3. \A s \in Slots : cache'[s] = cache[s] \/ (cache[s].state # "ready" /\ cache'[s].state # "ready")
    BY <2>1, <2>2 DEF TypeOK
  <2>. QED
    BY <2>1, <2>3, QuietStep DEF TypeOK
<1>2. CASE Acquire(c)
  BY <1>2, QuietStep DEF Acquire, TypeOK
<1>3. CASE Get(c)
  <2>1. \A e \in Entry : Got(e) = e \/ (e.state # "ready" /\ Got(e).state # "ready")
    BY DEF Got, Pending, Entry
  <2>2. \A s \in Slots : cache'[s] = cache[s] \/ (cache[s].state # "ready" /\ cache'[s].state # "ready")
    BY <1>3, <2>1 DEF Get, TypeOK
  <2>. QED
    BY <1>3, <2>2, QuietStep DEF Get, TypeOK
<1>4. ASSUME pc[c] \in Holding, UNCHANGED <<stream, offset, batch>>,
             NEW entry \in Entry, NEW how \in {"done", "exhausted", "rejected"},
             Leave(c, entry, how),
             how = "exhausted" => pc[c] \in Unstored,
             entry.state = "ready" => /\ entry = cache[Slot(c)]
                                      /\ pc[c] \notin Dirtying
      PROVE  HistoryInv'
  <2>1. \A s \in Slots : s # Slot(c) => cache'[s] = cache[s]
    BY <1>4 DEF Leave, TypeOK
  <2>2. cache'[Slot(c)] = entry \/ cache'[Slot(c)].state # "ready"
    BY <1>4 DEF Leave, TypeOK, Absent
  <2>3. /\ \A d \in Commands : d # c => pc'[d] = pc[d]
        /\ pc'[c] = how
    BY <1>4 DEF Leave, TypeOK
  <2>4. \A d \in Commands : Slot(d) = Slot(c) => pc'[d] \notin {"handling", "dispatching"}
    BY <1>4, <2>3 DEF Holding
  <2>. QED
    BY <1>4, <2>1, <2>2, <2>3, <2>4, QuietStep
<1>5. CASE LoadingFails(c)
  BY <1>4, <1>5 DEF LoadingFails, TypeOK, Holding
<1>6. CASE HandlerFails(c)
  BY <1>4, <1>6 DEF HandlerFails, Lazy, Holding
<1>7. CASE CommitConflicts(c)
  BY <1>7, QuietStep DEF CommitConflicts, TypeOK
<1>8. CASE CommitFails(c)
  BY <1>8, QuietStep DEF CommitFails, TypeOK
<1>9. CASE Return(c)
  BY <1>4, <1>9 DEF Return, TypeOK, Holding
<1>10. CASE Retry(c)
  <2>1. \A d \in Commands : d # c /\ Slot(d) = Slot(c) => pc[d] \notin Holding
    BY <1>10 DEF Retry, Holding
  <2>2. /\ \A s \in Slots : s # Slot(c) => cache'[s] = cache[s]
        /\ cache'[Slot(c)].state # "ready"
        /\ \A d \in Commands : d # c => pc'[d] = pc[d]
        /\ pc'[c] = "loading"
    BY <1>10 DEF Retry, TypeOK, Got, Lazy, Pending
  <2>. QED
    BY <1>10, <2>1, <2>2, QuietStep DEF Retry, Holding
<1>11. CASE GiveUp(c)
  BY <1>4, <1>11 DEF GiveUp, Lazy, Holding
<1>12. CASE Reject(c)
  BY <1>4, <1>12 DEF Reject, Lazy, Holding
<1>. QED
  BY <1>1, <1>2, <1>3, <1>5, <1>6, <1>7, <1>8, <1>9, <1>10, <1>11, <1>12

\* The steps in which only the command that owns the object changes it or its
\* own batch: what has to be shown is about that command and that object.
LEMMA OwnStep ==
  ASSUME TypeOK, LockInv, HistoryInv, NEW c \in Commands, pc[c] \in Holding,
         UNCHANGED stream,
         \A d \in Commands : d # c => /\ pc'[d] = pc[d]
                                      /\ offset'[d] = offset[d]
                                      /\ batch'[d] = batch[d],
         \A s \in Slots : s # Slot(c) => cache'[s] = cache[s],
         pc'[c] \in {"handling", "dispatching", "done"},
         pc'[c] \in Unstored => pc[c] \in Unstored,
         pc'[c] \in {"handling", "dispatching"} => WorkOn(c)',
         pc'[c] = "dispatching" => BatchOf(c)' /\ BatchIsWork(c)',
         pc'[c] = "done" /\ cache'[Slot(c)].state = "ready" =>
           Prefix(cache'[Slot(c)].hist, stream[Target[c]])
  PROVE  HistoryInv'
<1>. USE SlotType, Alone
<1>1. StreamInv'
  BY DEF HistoryInv, StreamInv, Seen
<1>2. UnstoredInv'
  BY DEF HistoryInv, UnstoredInv
<1>3. \A d \in Commands : d # c => \A e, i : Emitted(d, e, i)' <=> Emitted(d, e, i)
  BY DEF Emitted, Seen
<1>4. \A d \in Commands : d # c /\ Slot(d) = Slot(c) => pc[d] \notin {"handling", "dispatching"}
  BY DEF Holding
<1>5. WorkInv'
  <2>. SUFFICES ASSUME NEW d \in Commands, d # c, pc'[d] \in {"handling", "dispatching"}
                PROVE  WorkOn(d)'
    BY DEF WorkInv
  <2>1. WorkOn(d) /\ cache'[Slot(d)] = cache[Slot(d)]
    BY <1>4 DEF HistoryInv, WorkInv
  <2>. QED
    BY <1>3, <2>1 DEF WorkOn
<1>6. BatchInv'
  <2>. SUFFICES ASSUME NEW d \in Commands, d # c
                PROVE  /\ pc'[d] \in {"dispatching", "adrift"} => BatchOf(d)'
                       /\ pc'[d] = "dispatching" => BatchIsWork(d)'
    BY DEF BatchInv
  <2>1. ASSUME pc'[d] \in {"dispatching", "adrift"}
        PROVE  BatchOf(d)'
    <3>1. BatchOf(d)
      BY <2>1 DEF HistoryInv, BatchInv
    <3>. QED
      BY <1>3, <3>1 DEF BatchOf
  <2>2. ASSUME pc'[d] = "dispatching"
        PROVE  BatchIsWork(d)'
    <3>1. BatchIsWork(d) /\ cache'[Slot(d)] = cache[Slot(d)]
      BY <1>4, <2>2 DEF HistoryInv, BatchInv
    <3>. QED
      BY <3>1 DEF BatchIsWork
  <2>. QED
    BY <2>1, <2>2
<1>7. CleanInv'
  <2>. SUFFICES ASSUME NEW s \in Slots, cache'[s].state = "ready",
                       \A d \in Commands : Slot(d) = s => pc'[d] \notin Dirtying
                PROVE  Prefix(cache'[s].hist, stream[s[2]])
    BY DEF CleanInv
  <2>1. CASE s = Slot(c)
    BY <2>1 DEF Dirtying
  <2>2. CASE s # Slot(c)
    BY <2>2 DEF HistoryInv, CleanInv
  <2>. QED
    BY <2>1, <2>2
<1>8. NothingForced'
  BY DEF HistoryInv, NothingForced
<1>. QED
  BY <1>1, <1>2, <1>5, <1>6, <1>7, <1>8 DEF HistoryInv

\* AbstractAggregate.handle() begins on an object that equals the stream or a
\* prefix of it, which starts the command's work.
LEMMA HandleStep ==
  ASSUME TypeOK, LockInv, HistoryInv, NEW c \in Commands, Handle(c)
  PROVE  HistoryInv'
<1>. DEFINE h == cache[Slot(c)].hist
<1>. USE SlotType
<1>1. pc[c] \in Holding
  BY DEF Handle, Holding
<1>2. h \in Seq(Event) /\ Len(h) \in Nat
  BY LenProperties DEF TypeOK, Entry
<1>3. Prefix(h, stream[Target[c]])
  <2>1. \A d \in Commands : Slot(d) = Slot(c) => pc[d] \notin Dirtying
    BY <1>1, Alone DEF Handle, Dirtying, Holding
  <2>. QED
    BY <2>1 DEF Handle, HistoryInv, CleanInv
<1>4. /\ offset' = [offset EXCEPT ![c] = Len(h)]
      /\ pc' = [pc EXCEPT ![c] = "handling"]
      /\ UNCHANGED <<stream, cache, batch>>
      /\ pc[c] = "loading" /\ cache[Slot(c)].state = "ready"
  BY DEF Handle
<1>5. offset'[c] = Len(h) /\ pc'[c] = "handling"
  BY <1>4 DEF TypeOK
<1>6. WorkOn(c)'
  BY <1>2, <1>3, <1>4, <1>5 DEF WorkOn, Prefix
<1>. QED
  BY <1>1, <1>4, <1>5, <1>6, OwnStep DEF TypeOK, Unstored

\* An event emitted on top of a prefix of the stream continues it: its version
\* is its position, and it has seen the commands before it.
LEMMA EmitStep ==
  ASSUME TypeOK, LockInv, HistoryInv, NEW c \in Commands, Emit(c)
  PROVE  HistoryInv'
<1>. DEFINE h == cache[Slot(c)].hist
            s == stream[Target[c]]
            e == [cmd |-> c, version |-> Version(h), seen |-> CommandsOf(h) \ {c}]
<1>. USE SlotType
<1>1. pc[c] = "handling" /\ pc' = pc /\ offset' = offset /\ batch' = batch /\ stream' = stream
  BY DEF Emit
<1>2. cache' = [cache EXCEPT ![Slot(c)] = [@ EXCEPT !.hist = Append(h, e)]]
  BY DEF Emit
<1>3. h \in Seq(Event) /\ s \in Seq(Event) /\ offset[c] \in Nat
  BY DEF TypeOK, Entry
<1>4. /\ cache'[Slot(c)].hist = Append(h, e)
      /\ cache'[Slot(c)].state = cache[Slot(c)].state
      /\ \A t \in Slots : t # Slot(c) => cache'[t] = cache[t]
  BY <1>2 DEF TypeOK, Entry
<1>5. WorkOn(c)
  BY <1>1 DEF HistoryInv, WorkInv
<1>6. /\ offset[c] <= Len(h) /\ offset[c] <= Len(s)
      /\ \A i \in 1..offset[c] : h[i] = s[i]
      /\ \A i \in (offset[c] + 1)..Len(h) : Emitted(c, h[i], i)
  BY <1>5 DEF WorkOn
<1>7. \A i \in 1..Len(h) : h[i].version = i - 1
  <2>. SUFFICES ASSUME NEW i \in 1..Len(h) PROVE h[i].version = i - 1
    OBVIOUS
  <2>1. CASE i <= offset[c]
    <3>1. i \in 1..offset[c] /\ i \in 1..Len(s) /\ Target[c] \in Aggregates
      BY <1>3, <1>6, <2>1, LenProperties
    <3>. QED
      BY <1>6, <3>1 DEF HistoryInv, StreamInv
  <2>2. CASE i > offset[c]
    BY <1>3, <1>6, <2>2, LenProperties DEF Emitted
  <2>. QED
    BY <1>3, <2>1, <2>2, LenProperties
<1>8. Version(h) = Len(h)
  BY <1>3, <1>7, LenProperties, EmptySeq DEF Version
<1>9. CommandsOf(h) \ {c} = Seen(s, offset[c])
  <2>1. \A i \in 1..offset[c] : s[i].cmd # c
    BY <1>1, <1>3, <1>6, LenProperties DEF HistoryInv, UnstoredInv, Unstored
  <2>2. \A i \in (offset[c] + 1)..Len(h) : h[i].cmd = c
    BY <1>6 DEF Emitted
  <2>3. DOMAIN h = 1..Len(h) /\ Len(h) \in Nat
    BY <1>3, LenProperties
  <2>4. CommandsOf(h) \ {c} \subseteq Seen(s, offset[c])
    <3>. SUFFICES ASSUME NEW i \in 1..Len(h), h[i].cmd # c
                  PROVE  h[i].cmd \in Seen(s, offset[c])
      BY <2>3 DEF CommandsOf
    <3>1. i \in 1..offset[c]
      BY <1>3, <2>2, <2>3
    <3>. QED
      BY <1>6, <3>1 DEF Seen
  <2>5. Seen(s, offset[c]) \subseteq CommandsOf(h) \ {c}
    <3>. SUFFICES ASSUME NEW i \in 1..offset[c]
                  PROVE  s[i].cmd \in CommandsOf(h) \ {c}
      BY DEF Seen
    <3>1. i \in DOMAIN h /\ h[i] = s[i]
      BY <1>3, <1>6, <2>3
    <3>. QED
      BY <2>1, <3>1 DEF CommandsOf
  <2>. QED
    BY <2>4, <2>5
<1>10. /\ Len(Append(h, e)) = Len(h) + 1
       /\ \A i \in 1..Len(h) : Append(h, e)[i] = h[i]
       /\ Append(h, e)[Len(h) + 1] = e
       /\ Len(h) \in Nat
  BY <1>3, LenProperties
<1>11. \A x, i : Emitted(c, x, i)' <=> Emitted(c, x, i)
  BY <1>1 DEF Emitted
<1>12. Emitted(c, e, Len(h) + 1)
  BY <1>8, <1>9, <1>10 DEF Emitted
<1>13. WorkOn(c)'
  <2>1. \A i \in 1..offset[c] : Append(h, e)[i] = s[i]
    BY <1>3, <1>6, <1>10
  <2>2. ASSUME NEW i \in (offset[c] + 1)..(Len(h) + 1)
        PROVE  Emitted(c, Append(h, e)[i], i)
    <3>1. CASE i = Len(h) + 1
      BY <1>10, <1>12, <3>1
    <3>2. CASE i # Len(h) + 1
      <4>1. Len(h) \in Nat /\ offset[c] \in Nat
        BY <1>3, <1>10
      <4>2. i \in (offset[c] + 1)..Len(h) /\ i \in 1..Len(h)
        BY <3>2, <4>1
      <4>3. Emitted(c, h[i], i) /\ Append(h, e)[i] = h[i]
        BY <1>6, <1>10, <4>2
      <4>. QED
        BY <4>3
    <3>. QED
      BY <3>1, <3>2
  <2>. QED
    <3>1. cache'[Slot(c)].state = "ready"
      BY <1>4, <1>5 DEF WorkOn
    <3>2. offset[c] <= Len(Append(h, e))
      BY <1>3, <1>6, <1>10
    <3>. QED
      BY <1>1, <1>4, <1>6, <1>10, <1>11, <2>1, <2>2, <3>1, <3>2 DEF WorkOn
<1>. QED
  BY <1>1, <1>4, <1>13, OwnStep DEF Holding

\* A handler that emitted nothing leaves the object as it was restored.
LEMMA ReturnNothingStep ==
  ASSUME TypeOK, LockInv, HistoryInv, NEW c \in Commands, ReturnNothing(c)
  PROVE  HistoryInv'
<1>. USE SlotType
<1>1. /\ pc[c] = "handling" /\ Len(cache[Slot(c)].hist) = offset[c]
      /\ batch' = [batch EXCEPT ![c] = <<>>]
      /\ UNCHANGED <<stream, offset>>
      /\ Leave(c, cache[Slot(c)], "done")
  BY DEF ReturnNothing
<1>2. /\ pc' = [pc EXCEPT ![c] = "done"]
      /\ \E e \in {cache[Slot(c)], Absent} : cache' = [cache EXCEPT ![Slot(c)] = e]
  BY <1>1 DEF Leave
<1>3. Prefix(cache[Slot(c)].hist, stream[Target[c]])
  BY <1>1 DEF HistoryInv, WorkInv, WorkOn, Prefix
<1>. QED
  BY <1>1, <1>2, <1>3, OwnStep DEF TypeOK, Holding, Absent, Unstored

\* The events of a history from the n-th on, as handle() slices them off.
LEMMA TailOfHistory ==
  ASSUME NEW h \in Seq(Event), NEW n \in Nat, Len(h) \in Nat, Len(h) > n
  PROVE  LET b == SubSeq(h, n + 1, Len(h))
         IN  /\ Len(b) = Len(h) - n
             /\ \A i \in 1..Len(b) : n + i \in (n + 1)..Len(h) /\ b[i] = h[n + i]
<1>. DEFINE b == SubSeq(h, n + 1, Len(h))
<1>1. n + 1 \in 1..(Len(h) + 1) /\ Len(h) \in (n + 1 - 1)..Len(h)
  OBVIOUS
<1>2. /\ Len(b) = Len(h) - (n + 1) + 1
      /\ \A i \in 1..(Len(h) - (n + 1) + 1) : b[i] = h[n + 1 + i - 1]
  BY <1>1, SubSeqProperties
<1>. HIDE DEF b
<1>3. Len(b) = Len(h) - n
  BY <1>2
<1>4. ASSUME NEW i \in 1..(Len(h) - n)
      PROVE  n + i \in (n + 1)..Len(h) /\ b[i] = h[n + i]
  <2>1. /\ i \in 1..(Len(h) - (n + 1) + 1)
        /\ n + 1 + i - 1 = n + i
        /\ n + i \in (n + 1)..Len(h)
    OBVIOUS
  <2>. QED
    BY <1>2, <2>1
<1>5. /\ Len(b) = Len(h) - n
      /\ \A i \in 1..Len(b) : n + i \in (n + 1)..Len(h) /\ b[i] = h[n + i]
  BY <1>3, <1>4
<1>. QED
  BY <1>5 DEF b

\* What handle() returns is the part of the object's history that follows the
\* prefix it was decided on.
LEMMA DispatchStep ==
  ASSUME TypeOK, LockInv, HistoryInv, NEW c \in Commands, Dispatch(c)
  PROVE  HistoryInv'
<1>. DEFINE h == cache[Slot(c)].hist
            b == SubSeq(h, offset[c] + 1, Len(h))
<1>. USE SlotType
<1>1. /\ pc[c] = "handling" /\ pc' = [pc EXCEPT ![c] = "dispatching"]
      /\ Len(h) > offset[c]
      /\ batch' = [batch EXCEPT ![c] = b]
      /\ UNCHANGED <<stream, offset, cache>>
  BY DEF Dispatch
<1>2. h \in Seq(Event) /\ Len(h) \in Nat /\ offset[c] \in Nat
  BY LenProperties DEF TypeOK, Entry
<1>3. WorkOn(c)
  BY <1>1 DEF HistoryInv, WorkInv
<1>4. \A x, i : Emitted(c, x, i)' <=> Emitted(c, x, i)
  BY <1>1 DEF Emitted
<1>5. /\ Len(b) = Len(h) - offset[c]
      /\ \A i \in 1..Len(b) : offset[c] + i \in (offset[c] + 1)..Len(h) /\ b[i] = h[offset[c] + i]
  BY <1>1, <1>2, TailOfHistory
<1>6. batch'[c] = b /\ pc'[c] = "dispatching"
  BY <1>1 DEF TypeOK
<1>7. WorkOn(c)'
  BY <1>1, <1>3, <1>4 DEF WorkOn
<1>8. BatchIsWork(c)'
  <2>1. Len(h) = offset[c] + Len(b)
    BY <1>2, <1>5
  <2>2. \A i \in 1..Len(b) : h[offset[c] + i] = b[i]
    BY <1>5
  <2>3. cache'[Slot(c)].hist = h /\ offset'[c] = offset[c] /\ Slot(c)' = Slot(c)
    BY <1>1 DEF Slot
  <2>. HIDE DEF b, h
  <2>. QED
    BY <1>6, <2>1, <2>2, <2>3 DEF BatchIsWork
<1>9. BatchOf(c)'
  <2>1. \A i \in 1..Len(b) : Emitted(c, b[i], offset[c] + i)
    <3>. SUFFICES ASSUME NEW i \in 1..Len(b) PROVE Emitted(c, b[i], offset[c] + i)
      OBVIOUS
    <3>1. offset[c] + i \in (offset[c] + 1)..Len(h) /\ b[i] = h[offset[c] + i]
      BY <1>5
    <3>2. Emitted(c, h[offset[c] + i], offset[c] + i)
      BY <1>3, <3>1 DEF WorkOn
    <3>. QED
      BY <3>1, <3>2
  <2>2. Len(b) > 0 /\ offset[c] <= Len(stream[Target[c]])
    BY <1>1, <1>2, <1>3, <1>5 DEF WorkOn
  <2>. QED
    BY <1>1, <1>4, <1>6, <2>1, <2>2 DEF BatchOf
<1>. QED
  BY <1>1, <1>6, <1>7, <1>8, <1>9, OwnStep DEF TypeOK, Holding, Unstored

\* The version check makes the prefix that the command saw the whole stream.
LEMMA NoConflict ==
  ASSUME TypeOK, HistoryInv, NEW c \in Commands, pc[c] \in {"dispatching", "adrift"}, ~Conflict(c)
  PROVE  Len(stream[Target[c]]) = offset[c]
<1>. DEFINE s == stream[Target[c]]
<1>. USE SlotType
<1>1. BatchOf(c)
  BY DEF HistoryInv, BatchInv
<1>2. /\ s \in Seq(Event) /\ batch[c] \in Seq(Event) /\ offset[c] \in Nat
      /\ Len(s) \in Nat /\ Len(batch[c]) \in Nat
      /\ DOMAIN s = 1..Len(s) /\ DOMAIN batch[c] = 1..Len(batch[c])
  BY LenProperties DEF TypeOK
<1>3. ASSUME Len(s) > offset[c]
      PROVE  FALSE
  <2>1. 1 \in DOMAIN batch[c] /\ batch[c][1].version = offset[c]
    BY <1>1, <1>2 DEF BatchOf, Emitted
  <2>2. offset[c] + 1 \in DOMAIN s /\ s[offset[c] + 1].version = offset[c]
    BY <1>2, <1>3 DEF HistoryInv, StreamInv
  <2>. QED
    BY <2>1, <2>2 DEF Conflict
<1>. QED
  BY <1>1, <1>2, <1>3 DEF BatchOf

\* What concatenation does to two histories.
LEMMA ExtendedHistory ==
  ASSUME NEW s \in Seq(Event), NEW b \in Seq(Event)
  PROVE  /\ Len(s \o b) = Len(s) + Len(b)
         /\ \A i \in 1..Len(s) : (s \o b)[i] = s[i]
         /\ \A i \in 1..Len(b) : (s \o b)[Len(s) + i] = b[i]
<1>. DEFINE t == s \o b
<1>1. Len(s) \in Nat /\ Len(b) \in Nat
  BY LenProperties
<1>2. /\ Len(t) = Len(s) + Len(b)
      /\ \A i \in 1..(Len(s) + Len(b)) : t[i] = IF i <= Len(s) THEN s[i] ELSE b[i - Len(s)]
  BY ConcatProperties
<1>. HIDE DEF t
<1>3. ASSUME NEW i \in 1..Len(s)
      PROVE  t[i] = s[i]
  <2>1. i \in 1..(Len(s) + Len(b)) /\ i <= Len(s)
    BY <1>1
  <2>. QED
    BY <1>2, <2>1
<1>4. ASSUME NEW i \in 1..Len(b)
      PROVE  t[Len(s) + i] = b[i]
  <2>1. /\ Len(s) + i \in 1..(Len(s) + Len(b))
        /\ ~(Len(s) + i <= Len(s))
        /\ Len(s) + i - Len(s) = i
    BY <1>1
  <2>. QED
    BY <1>2, <2>1
<1>5. /\ Len(t) = Len(s) + Len(b)
      /\ \A i \in 1..Len(s) : t[i] = s[i]
      /\ \A i \in 1..Len(b) : t[Len(s) + i] = b[i]
  BY <1>2, <1>3, <1>4
<1>. QED
  BY <1>5 DEF t

\* A position of a history that was extended by m events is in one of the two.
LEMMA PositionSplit ==
  ASSUME NEW n \in Nat, NEW m \in Nat
  PROVE  \A i \in 1..(n + m) : i <= n \/ \E k \in 1..m : i = n + k
<1>. SUFFICES ASSUME NEW i \in 1..(n + m) PROVE i <= n \/ \E k \in 1..m : i = n + k
  OBVIOUS
<1>1. CASE i <= n
  BY <1>1
<1>2. CASE ~(i <= n)
  <2>1. i - n \in 1..m /\ i = n + (i - n)
    BY <1>2
  <2>. QED
    BY <2>1
<1>. QED
  BY <1>1, <1>2

\* What a commit does to the streams: it extends one of them by the batch.
LEMMA Stored ==
  ASSUME TypeOK, HistoryInv, NEW c \in Commands, pc[c] \in {"dispatching", "adrift"}, ~Conflict(c),
         Store(c)
  PROVE  /\ \A a \in Aggregates : Prefix(stream[a], stream'[a])
         /\ \A a \in Aggregates : a # Target[c] => stream'[a] = stream[a]
         /\ Len(stream'[Target[c]]) = offset[c] + Len(batch[c])
         /\ \A i \in 1..offset[c] : stream'[Target[c]][i] = stream[Target[c]][i]
         /\ \A i \in 1..Len(batch[c]) : stream'[Target[c]][offset[c] + i] = batch[c][i]
<1>. DEFINE s == stream[Target[c]]
<1>. USE SlotType
<1>1. /\ s \in Seq(Event) /\ batch[c] \in Seq(Event) /\ Len(s) = offset[c] /\ offset[c] \in Nat
      /\ Len(batch[c]) \in Nat
  BY NoConflict, LenProperties DEF TypeOK
<1>3. stream' = [stream EXCEPT ![Target[c]] = s \o batch[c]]
  BY DEF Store
<1>4. /\ stream'[Target[c]] = s \o batch[c]
      /\ \A a \in Aggregates : a # Target[c] => stream'[a] = stream[a]
  BY <1>3 DEF TypeOK
<1>. DEFINE t == s \o batch[c]
<1>. HIDE DEF t
<1>5. /\ Len(t) = offset[c] + Len(batch[c])
      /\ \A i \in 1..offset[c] : t[i] = s[i]
      /\ \A i \in 1..Len(batch[c]) : t[offset[c] + i] = batch[c][i]
  <2>1. /\ Len(t) = Len(s) + Len(batch[c])
        /\ \A i \in 1..Len(s) : t[i] = s[i]
        /\ \A i \in 1..Len(batch[c]) : t[Len(s) + i] = batch[c][i]
    BY <1>1, ExtendedHistory DEF t
  <2>. QED
    BY <1>1, <2>1
<1>6. \A a \in Aggregates : Prefix(stream[a], stream'[a])
  <2>. SUFFICES ASSUME NEW a \in Aggregates PROVE Prefix(stream[a], stream'[a])
    OBVIOUS
  <2>1. Len(stream[a]) \in Nat
    BY LenProperties DEF TypeOK
  <2>2. CASE a = Target[c]
    <3>1. stream'[a] = t
      BY <1>4, <2>2 DEF t
    <3>2. Len(s) <= Len(t) /\ \A i \in 1..Len(s) : s[i] = t[i]
      BY <1>1, <1>5
    <3>. QED
      BY <2>2, <3>1, <3>2 DEF Prefix
  <2>3. CASE a # Target[c]
    BY <1>4, <2>1, <2>3 DEF Prefix
  <2>. QED
    BY <2>2, <2>3
<1>. QED
  BY <1>4, <1>5, <1>6 DEF t

\* The commands in the first n events are the same in every longer history.
LEMMA SeenPrefix ==
  ASSUME NEW s, NEW t, NEW n \in Nat, n <= Len(s), Len(s) \in Nat, Prefix(s, t)
  PROVE  Seen(t, n) = Seen(s, n)
  BY DEF Prefix, Seen

\* commitEvents(), by a live process or as the last act of a crashed one, keeps
\* the invariant: the batch was decided on exactly the stream it extends.
LEMMA StoreStep ==
  ASSUME TypeOK, LockInv, HistoryInv, NEW c \in Commands, Commit(c) \/ (Land(c) /\ pc[c] = "adrift")
  PROVE  HistoryInv'
<1>. DEFINE s == stream[Target[c]]
            t == stream'[Target[c]]
<1>. USE SlotType
<1>1. /\ pc[c] \in {"dispatching", "adrift"} /\ ~Conflict(c) /\ Store(c)
      /\ UNCHANGED <<cache, offset, batch>>
      /\ \E to \in {"committed", "failed", "lost"} : pc' = [pc EXCEPT ![c] = to]
      /\ pc[c] = "adrift" => pc'[c] = "lost"
  BY DEF Commit, Land, TypeOK
<1>2. /\ \A a \in Aggregates : Prefix(stream[a], stream'[a])
      /\ \A a \in Aggregates : a # Target[c] => stream'[a] = stream[a]
      /\ Len(t) = offset[c] + Len(batch[c])
      /\ \A i \in 1..offset[c] : t[i] = s[i]
      /\ \A i \in 1..Len(batch[c]) : t[offset[c] + i] = batch[c][i]
      /\ Len(s) = offset[c]
  BY <1>1, Stored, NoConflict
<1>3. /\ \A d \in Commands : d # c => pc'[d] = pc[d]
      /\ pc'[c] \in {"committed", "failed", "lost"}
  BY <1>1 DEF TypeOK
<1>4. /\ \A a \in Aggregates : Len(stream[a]) \in Nat
      /\ \A d \in Commands : offset[d] \in Nat /\ Len(batch[d]) \in Nat
  BY LenProperties DEF TypeOK
<1>5. BatchOf(c)
  BY <1>1 DEF HistoryInv, BatchInv
<1>6. \A i \in 1..Len(batch[c]) : Emitted(c, batch[c][i], offset[c] + i)
  BY <1>5 DEF BatchOf
<1>7. \A i \in 1..Len(t) : i <= offset[c] \/ \E k \in 1..Len(batch[c]) : i = offset[c] + k
  <2>1. offset[c] \in Nat /\ Len(batch[c]) \in Nat /\ Len(t) = offset[c] + Len(batch[c])
    BY <1>2, <1>4
  <2>2. \A i \in 1..(offset[c] + Len(batch[c])) :
          i <= offset[c] \/ \E k \in 1..Len(batch[c]) : i = offset[c] + k
    BY <2>1, PositionSplit
  <2>. HIDE DEF t
  <2>. QED
    BY <2>1, <2>2
<1>8. \A i \in 1..offset[c] : s[i].cmd # c
  BY <1>1, <1>2 DEF HistoryInv, UnstoredInv, Unstored
<1>9. StreamInv'
  <2>. SUFFICES ASSUME NEW a \in Aggregates, NEW i \in 1..Len(stream'[a])
                PROVE  /\ stream'[a][i].version = i - 1
                       /\ stream'[a][i].seen = Seen(stream'[a], i - 1) \ {stream'[a][i].cmd}
    BY DEF StreamInv, Seen
  <2>1. CASE a # Target[c]
    BY <1>2, <2>1 DEF HistoryInv, StreamInv
  <2>2. CASE a = Target[c] /\ i <= offset[c]
    <3>1. i \in 1..Len(s) /\ t[i] = s[i] /\ i - 1 \in Nat /\ i - 1 <= Len(s)
      BY <1>2, <1>4, <2>2
    <3>2. Seen(t, i - 1) = Seen(s, i - 1)
      BY <1>2, <1>4, <3>1, SeenPrefix
    <3>. QED
      BY <2>2, <3>1, <3>2 DEF HistoryInv, StreamInv
  <2>3. CASE a = Target[c] /\ i > offset[c]
    <3>1. PICK k \in 1..Len(batch[c]) : i = offset[c] + k
      BY <1>4, <1>7, <2>3
    <3>2. t[i] = batch[c][k] /\ Emitted(c, t[i], i)
      BY <1>2, <1>6, <3>1
    <3>3. Seen(t, i - 1) \ {c} \subseteq Seen(s, offset[c])
      <4>. SUFFICES ASSUME NEW j \in 1..(i - 1), t[j].cmd # c
                    PROVE  t[j].cmd \in Seen(s, offset[c])
        BY DEF Seen
      <4>1. j \in 1..Len(t)
        BY <2>3, <1>4
      <4>2. CASE j <= offset[c]
        <5>1. j \in 1..offset[c]
          BY <1>4, <4>2
        <5>. QED
          BY <1>2, <5>1 DEF Seen
      <4>3. CASE \E l \in 1..Len(batch[c]) : j = offset[c] + l
        <5>1. PICK l \in 1..Len(batch[c]) : j = offset[c] + l
          BY <4>3
        <5>. QED
          BY <1>2, <1>6, <5>1 DEF Emitted
      <4>. QED
        BY <1>7, <4>1, <4>2, <4>3
    <3>4. Seen(s, offset[c]) \subseteq Seen(t, i - 1) \ {c}
      <4>. SUFFICES ASSUME NEW j \in 1..offset[c]
                    PROVE  s[j].cmd \in Seen(t, i - 1) \ {c}
        BY DEF Seen
      <4>1. j \in 1..(i - 1) /\ t[j] = s[j]
        BY <1>2, <1>4, <2>3
      <4>. QED
        BY <1>8, <4>1 DEF Seen
    <3>. QED
      BY <2>3, <3>2, <3>3, <3>4 DEF Emitted
  <2>. QED
    BY <1>4, <2>1, <2>2, <2>3
<1>10. UnstoredInv'
  <2>. SUFFICES ASSUME NEW d \in Commands, pc'[d] \in Unstored,
                       NEW i \in 1..Len(stream'[Target[d]])
                PROVE  stream'[Target[d]][i].cmd # d
    BY DEF UnstoredInv
  <2>1. d # c /\ pc[d] \in Unstored
    BY <1>3 DEF Unstored
  <2>2. \A j \in 1..Len(stream[Target[d]]) : stream[Target[d]][j].cmd # d
    BY <2>1 DEF HistoryInv, UnstoredInv
  <2>3. CASE Target[d] # Target[c]
    BY <1>2, <2>2, <2>3
  <2>4. CASE Target[d] = Target[c] /\ i <= offset[c]
    <3>1. i \in 1..offset[c] /\ stream'[Target[d]] = t /\ stream[Target[d]] = s
      BY <1>4, <2>4
    <3>2. i \in 1..Len(s) /\ t[i] = s[i]
      BY <1>2, <3>1
    <3>. QED
      BY <2>2, <3>1, <3>2
  <2>5. CASE Target[d] = Target[c] /\ \E k \in 1..Len(batch[c]) : i = offset[c] + k
    <3>1. PICK k \in 1..Len(batch[c]) : i = offset[c] + k
      BY <2>5
    <3>2. stream'[Target[d]] = t /\ t[i] = batch[c][k]
      BY <1>2, <2>5, <3>1
    <3>. QED
      BY <1>6, <2>1, <3>2 DEF Emitted
  <2>. QED
    BY <1>7, <2>3, <2>4, <2>5
<1>11. \A d \in Commands : offset[d] <= Len(stream[Target[d]]) =>
         \A e, i : Emitted(d, e, i)' <=> Emitted(d, e, i)
  <2>. SUFFICES ASSUME NEW d \in Commands, offset[d] <= Len(stream[Target[d]])
                PROVE  Seen(stream'[Target[d]], offset[d]) = Seen(stream[Target[d]], offset[d])
    BY <1>1 DEF Emitted, Seen
  <2>. QED
    BY <1>2, <1>4, SeenPrefix
<1>12. WorkInv'
  <2>. SUFFICES ASSUME NEW d \in Commands, pc'[d] \in {"handling", "dispatching"}
                PROVE  WorkOn(d)'
    BY DEF WorkInv
  <2>1. d # c /\ WorkOn(d)
    BY <1>3 DEF HistoryInv, WorkInv
  <2>2. Prefix(stream[Target[d]], stream'[Target[d]])
    BY <1>2
  <2>3. /\ offset[d] <= Len(stream'[Target[d]])
        /\ \A i \in 1..offset[d] : stream'[Target[d]][i] = stream[Target[d]][i]
    <3>1. offset[d] <= Len(stream[Target[d]]) /\ Len(stream'[Target[d]]) >= Len(stream[Target[d]])
      BY <2>1, <2>2 DEF WorkOn, Prefix
    <3>2. Len(stream'[Target[d]]) \in Nat
      BY <1>2, <1>4
    <3>. QED
      BY <1>4, <2>2, <3>1, <3>2 DEF Prefix
  <2>. QED
    BY <1>1, <1>11, <2>1, <2>3 DEF WorkOn
<1>13. BatchInv'
  <2>. SUFFICES ASSUME NEW d \in Commands, pc'[d] \in {"dispatching", "adrift"}
                PROVE  BatchOf(d)' /\ (pc'[d] = "dispatching" => BatchIsWork(d)')
    BY DEF BatchInv
  <2>1. d # c /\ BatchOf(d) /\ (pc[d] = "dispatching" => BatchIsWork(d))
    BY <1>3 DEF HistoryInv, BatchInv
  <2>2. offset[d] <= Len(stream'[Target[d]])
    <3>1. offset[d] <= Len(stream[Target[d]]) /\ Len(stream[Target[d]]) <= Len(stream'[Target[d]])
      BY <1>2, <2>1 DEF BatchOf, Prefix
    <3>2. Len(stream'[Target[d]]) \in Nat
      BY <1>2, <1>4
    <3>. QED
      BY <1>4, <3>1, <3>2
  <2>3. BatchOf(d)'
    BY <1>1, <1>11, <2>1, <2>2 DEF BatchOf
  <2>4. pc'[d] = "dispatching" => BatchIsWork(d)'
    BY <1>1, <1>3, <2>1 DEF BatchIsWork
  <2>. QED
    BY <2>3, <2>4
<1>14. CleanInv'
  <2>. SUFFICES ASSUME NEW r \in Slots, cache[r].state = "ready",
                       \A d \in Commands : Slot(d) = r => pc'[d] \notin Dirtying
                PROVE  Prefix(cache[r].hist, stream'[r[2]])
    BY <1>1 DEF CleanInv
  <2>1. r[2] \in Aggregates /\ Len(cache[r].hist) \in Nat
    BY LenProperties DEF Slots, TypeOK, Entry
  <2>2. CASE Slot(c) = r /\ pc[c] = "dispatching"
    <3>1. WorkOn(c) /\ BatchIsWork(c) /\ r[2] = Target[c]
      BY <2>2 DEF HistoryInv, WorkInv, BatchInv
    <3>2. ASSUME NEW i \in 1..Len(cache[r].hist)
          PROVE  cache[r].hist[i] = t[i]
      <4>1. Len(cache[r].hist) = Len(t)
        BY <1>2, <2>2, <3>1 DEF BatchIsWork
      <4>2. CASE i <= offset[c]
        BY <1>2, <1>4, <2>2, <3>1, <4>2 DEF WorkOn
      <4>3. CASE \E k \in 1..Len(batch[c]) : i = offset[c] + k
        BY <1>2, <2>2, <3>1, <4>3 DEF BatchIsWork
      <4>. QED
        BY <1>7, <3>2, <4>1, <4>2, <4>3
    <3>3. Len(cache[r].hist) <= Len(t)
      BY <1>2, <1>4, <2>2, <3>1 DEF BatchIsWork
    <3>. QED
      BY <3>1, <3>2, <3>3 DEF Prefix
  <2>3. CASE ~(Slot(c) = r /\ pc[c] = "dispatching")
    <3>1. \A d \in Commands : Slot(d) = r => pc[d] \notin Dirtying
      BY <1>1, <1>3, <2>3 DEF Dirtying
    <3>2. Prefix(cache[r].hist, stream[r[2]]) /\ Prefix(stream[r[2]], stream'[r[2]])
      BY <1>2, <2>1, <3>1 DEF HistoryInv, CleanInv
    <3>3. Len(stream[r[2]]) \in Nat /\ Len(stream'[r[2]]) \in Nat
      BY <1>2, <1>4, <2>1
    <3>. QED
      BY <2>1, <3>2, <3>3 DEF Prefix
  <2>. QED
    BY <2>2, <2>3
<1>15. NothingForced'
  BY <1>3 DEF HistoryInv, NothingForced
<1>. QED
  BY <1>9, <1>10, <1>12, <1>13, <1>14, <1>15 DEF HistoryInv

\* #restoreAggregate() yields an object whose history is the stream.
LEMMA RestoreStep ==
  ASSUME TypeOK, HistoryInv, NEW s \in Slots, Restore(s)
  PROVE  HistoryInv'
<1>. USE SlotType
<1>1. /\ UNCHANGED <<stream, pc, offset, batch>>
      /\ cache[s].state # "ready"
      /\ cache' = [cache EXCEPT ![s] = Ready(stream[s[2]])]
  BY DEF Restore
<1>2. /\ \A r \in Slots : r # s => cache'[r] = cache[r]
      /\ cache'[s].hist = stream[s[2]]
  BY <1>1 DEF TypeOK, Ready
<1>3. \A d \in Commands : pc[d] \in {"handling", "dispatching"} => Slot(d) # s
  BY <1>1, AtWork
<1>4. \A d \in Commands : \A e, i : Emitted(d, e, i)' <=> Emitted(d, e, i)
  BY <1>1 DEF Emitted
<1>5. StreamInv' /\ UnstoredInv' /\ NothingForced'
  BY <1>1 DEF HistoryInv, StreamInv, UnstoredInv, NothingForced
<1>6. WorkInv'
  BY <1>1, <1>2, <1>3, <1>4 DEF HistoryInv, WorkInv, WorkOn
<1>7. BatchInv'
  BY <1>1, <1>2, <1>3, <1>4 DEF HistoryInv, BatchInv, BatchOf, BatchIsWork
<1>8. CleanInv'
  <2>. SUFFICES ASSUME NEW r \in Slots, cache'[r].state = "ready",
                       \A d \in Commands : Slot(d) = r => pc[d] \notin Dirtying
                PROVE  Prefix(cache'[r].hist, stream[r[2]])
    BY <1>1 DEF CleanInv
  <2>1. CASE r = s
    <3>1. Len(stream[s[2]]) \in Nat
      BY LenProperties DEF TypeOK, Slots
    <3>. QED
      BY <1>2, <2>1, <3>1 DEF Prefix
  <2>2. CASE r # s
    BY <1>2, <2>2 DEF HistoryInv, CleanInv
  <2>. QED
    BY <2>1, <2>2
<1>. QED
  BY <1>5, <1>6, <1>7, <1>8 DEF HistoryInv

\* A crash leaves at most a write behind, which is checked like any other.
LEMMA CrashStep ==
  ASSUME TypeOK, HistoryInv, NEW p \in Procs, Crash(p)
  PROVE  HistoryInv'
<1>. USE SlotType
<1>1. \A d \in Commands :
        \/ pc'[d] = pc[d]
        \/ pc[d] = "dispatching" /\ pc'[d] = "adrift"
        \/ pc'[d] = "lost"
  BY DEF Crash, HistoryInv, NothingForced
<1>2. ASSUME NEW s \in Slots
      PROVE  \/ cache'[s] = cache[s]
             \/ /\ cache'[s].state # "ready"
                /\ \A d \in Commands : Slot(d) = s => pc'[d] \notin {"handling", "dispatching"}
  <2>1. CASE s[1] = p
    <3>1. cache'[s].state # "ready"
      BY <2>1 DEF Crash, Absent
    <3>2. ASSUME NEW d \in Commands, Slot(d) = s
          PROVE  pc'[d] \notin {"handling", "dispatching"}
      BY <2>1, <3>2 DEF Crash, InFlight, Holding
    <3>. QED
      BY <3>1, <3>2
  <2>2. CASE s[1] # p
    BY <2>2 DEF Crash
  <2>. QED
    BY <2>1, <2>2
<1>3. ASSUME NEW s \in Slots, NEW d \in Commands, cache'[s].state = "ready", Slot(d) = s,
             pc[d] \in Dirtying
      PROVE  pc'[d] \in Dirtying
  <2>1. At[d] # p
    BY <1>3 DEF Crash, Absent
  <2>. QED
    BY <1>3, <2>1 DEF Crash
<1>. QED
  BY <1>1, <1>2, <1>3, QuietStep DEF Crash, Unstored

\* A restore that fails leaves no object that anybody works on.
LEMMA RestoreFailsStep ==
  ASSUME TypeOK, HistoryInv, NEW s \in Slots, RestoreFails(s)
  PROVE  HistoryInv'
<1>1. /\ UNCHANGED <<stream, pc, offset, batch>>
      /\ cache[s].state # "ready"
      /\ \A r \in Slots : r # s => cache'[r] = cache[r]
      /\ cache'[s].state # "ready"
  BY DEF RestoreFails, Broken, TypeOK
<1>2. \A d \in Commands : pc[d] \in {"handling", "dispatching"} => Slot(d) # s
  BY <1>1, AtWork
<1>. QED
  BY <1>1, <1>2, QuietStep

\* HistoryInv is an invariant of the handlers without force-dispatching.
LEMMA History == ~IgnoreAfterMaxRetries => (Spec => []HistoryInv)
<1>. SUFFICES ASSUME ~IgnoreAfterMaxRetries
              PROVE  Spec => []HistoryInv
  OBVIOUS
<1>1. Init => HistoryInv
  <2>. SUFFICES ASSUME Init PROVE HistoryInv
    OBVIOUS
  <2>1. /\ \A a \in Aggregates : Len(stream[a]) = 0
        /\ \A c \in Commands : pc[c] = "idle"
        /\ \A s \in Slots : cache[s].state = "absent"
    BY DEF Init, Absent
  <2>. QED
    BY <2>1, SlotType DEF HistoryInv, StreamInv, UnstoredInv, WorkInv, BatchInv, CleanInv, NothingForced
<1>2. TypeOK /\ LockInv /\ HistoryInv /\ [Next]_vars => HistoryInv'
  <2>. SUFFICES ASSUME TypeOK, LockInv, HistoryInv, [Next]_vars
                PROVE  HistoryInv'
    OBVIOUS
  <2>1. ASSUME NEW c \in Commands, Execute(c) \/ Emit(c)
        PROVE  HistoryInv'
    BY <2>1, QuietActions, EmitStep
  <2>2. ASSUME NEW c \in Commands, Step(c)
        PROVE  HistoryInv'
    <3>1. CASE Handle(c) \/ ReturnNothing(c) \/ Dispatch(c) \/ Commit(c)
      BY <3>1, HandleStep, ReturnNothingStep, DispatchStep, StoreStep
    <3>2. ~(ForceCommit(c) \/ ForceCommitFails(c) \/ RejectForced(c))
      BY DEF ForceCommit, ForceCommitFails, RejectForced, HistoryInv, NothingForced
    <3>3. ~ForceDispatch(c)
      BY ConstantsAssumption DEF ForceDispatch, RetryDecision, TypeOK
    <3>. QED
      BY <2>2, <3>1, <3>2, <3>3, QuietActions DEF Step
  <2>3. ASSUME NEW c \in Commands, Land(c)
        PROVE  HistoryInv'
    BY <2>3, StoreStep DEF Land, HistoryInv, NothingForced
  <2>4. ASSUME NEW s \in Slots, Restore(s) \/ RestoreFails(s)
        PROVE  HistoryInv'
    BY <2>4, RestoreStep, RestoreFailsStep
  <2>5. ASSUME NEW p \in Procs, Crash(p)
        PROVE  HistoryInv'
    BY <2>5, CrashStep
  <2>6. CASE UNCHANGED vars
    BY <2>6, QuietStep DEF vars
  <2>. QED
    BY <2>1, <2>2, <2>3, <2>4, <2>5, <2>6 DEF Next, Quiescent
<1>. QED
  BY <1>1, <1>2, TypeCorrect, Locking, PTL DEF Spec

\* Without force-dispatching, every stored event was decided on exactly the
\* commands stored before it, in any number of processes and through retries,
\* failed restores and dispatches, and crashes.
THEOREM OptimisticConcurrency == ~IgnoreAfterMaxRetries => (Spec => []DecidedOnHistory)
<1>. SUFFICES ASSUME ~IgnoreAfterMaxRetries
              PROVE  Spec => []DecidedOnHistory
  OBVIOUS
<1>1. TypeOK /\ HistoryInv => DecidedOnHistory
  BY LenProperties DEF TypeOK, HistoryInv, StreamInv, Seen, DecidedOnHistory
<1>. QED
  BY <1>1, TypeCorrect, History, PTL

\* Without force-dispatching, the versions stored for an aggregate have neither
\* gaps nor duplicates.
THEOREM VersionsAreContiguous == ~IgnoreAfterMaxRetries => (Spec => []ContiguousVersions)
<1>. SUFFICES ASSUME ~IgnoreAfterMaxRetries
              PROVE  Spec => []ContiguousVersions
  OBVIOUS
<1>1. TypeOK /\ HistoryInv => ContiguousVersions
  BY LenProperties DEF TypeOK, HistoryInv, StreamInv, ContiguousVersions
<1>. QED
  BY <1>1, TypeCorrect, History, PTL

-----------------------------------------------------------------------------
(* The cache.                                                              *)

\* The executions that have asserted the cache entry s and not released it.
InUse(s) == {c \in Commands : Slot(c) = s /\ pc[c] \in InFlight}

\* CacheAccounting, and that it counts finitely many executions.
CountInv ==
  \A s \in Slots :
    /\ IsFiniteSet(InUse(s))
    /\ usage[s] = Cardinality(InUse(s))
    /\ cache[s].state = "absent" <=> usage[s] = 0

\* An entry in use is there.
LEMMA EntryInUse ==
  ASSUME CountInv, NEW c \in Commands, pc[c] \in InFlight
  PROVE  usage[Slot(c)] # 0 /\ cache[Slot(c)].state # "absent"
<1>1. Slot(c) \in Slots /\ c \in InUse(Slot(c))
  BY SlotType DEF InUse
<1>2. InUse(Slot(c)) # {} /\ IsFiniteSet(InUse(Slot(c))) /\ usage[Slot(c)] = Cardinality(InUse(Slot(c)))
  BY <1>1 DEF CountInv
<1>3. Cardinality(InUse(Slot(c))) # 0
  BY <1>2, FS_EmptySet
<1>. QED
  BY <1>1, <1>2, <1>3 DEF CountInv

\* Nothing but execute() and its finally block counts.
LEMMA CountStays ==
  ASSUME CountInv, UNCHANGED usage,
         \A c \in Commands : pc'[c] \in InFlight <=> pc[c] \in InFlight,
         \A s \in Slots : cache'[s].state = "absent" <=> cache[s].state = "absent"
  PROVE  CountInv'
<1>. SUFFICES ASSUME NEW s \in Slots
              PROVE  /\ IsFiniteSet(InUse(s)')
                     /\ usage[s] = Cardinality(InUse(s)')
                     /\ cache'[s].state = "absent" <=> usage[s] = 0
  BY DEF CountInv
<1>1. InUse(s)' = InUse(s)
  BY DEF InUse, Slot
<1>. QED
  BY <1>1 DEF CountInv

\* MapAssertable.assert() creates the entry for its first user, and adds one to
\* the counter.
LEMMA CountEnter ==
  ASSUME TypeOK, CountInv, NEW c \in Commands, Execute(c)
  PROVE  CountInv'
<1>. USE SlotType
<1>1. /\ pc[c] = "idle"
      /\ \A d \in Commands : d # c => pc'[d] = pc[d]
      /\ pc'[c] \in InFlight
      /\ usage' = [usage EXCEPT ![Slot(c)] = @ + 1]
      /\ cache' = [cache EXCEPT ![Slot(c)] = Asserted(@)]
  BY DEF Execute, TypeOK, InFlight, Holding
<1>2. \A e : Asserted(e).state # "absent"
  BY DEF Asserted, Got, Pending
<1>3. SUFFICES ASSUME NEW s \in Slots
               PROVE  /\ IsFiniteSet(InUse(s)')
                      /\ usage'[s] = Cardinality(InUse(s)')
                      /\ cache'[s].state = "absent" <=> usage'[s] = 0
  BY DEF CountInv
<1>4. CASE s = Slot(c)
  <2>1. InUse(s)' = InUse(s) \cup {c} /\ c \notin InUse(s)
    BY <1>1, <1>4 DEF InUse, Slot, InFlight, Holding
  <2>2. IsFiniteSet(InUse(s)) /\ usage[s] = Cardinality(InUse(s)) /\ usage[s] \in Nat
    BY DEF CountInv, TypeOK
  <2>3. IsFiniteSet(InUse(s)') /\ Cardinality(InUse(s)') = Cardinality(InUse(s)) + 1
    BY <2>1, <2>2, FS_AddElement
  <2>4. usage'[s] = usage[s] + 1 /\ cache'[s].state # "absent"
    BY <1>1, <1>2, <1>4 DEF TypeOK
  <2>. QED
    BY <2>2, <2>3, <2>4
<1>5. CASE s # Slot(c)
  <2>1. InUse(s)' = InUse(s)
    BY <1>1, <1>5 DEF InUse, Slot
  <2>2. usage'[s] = usage[s] /\ cache'[s] = cache[s]
    BY <1>1, <1>5 DEF TypeOK
  <2>. QED
    BY <2>1, <2>2 DEF CountInv
<1>. QED
  BY <1>4, <1>5

\* MapAssertable.release() takes one from the counter, and drops the entry with
\* its last user.
LEMMA CountLeave ==
  ASSUME TypeOK, CountInv, NEW c \in Commands, pc[c] \in InFlight,
         NEW entry, entry.state = "absent" => entry = cache[Slot(c)],
         NEW how, how \notin InFlight, Leave(c, entry, how)
  PROVE  CountInv'
<1>. USE SlotType
<1>1. /\ \A d \in Commands : d # c => pc'[d] = pc[d]
      /\ pc'[c] \notin InFlight
      /\ usage' = [usage EXCEPT ![Slot(c)] = IF @ > 1 THEN @ - 1 ELSE 0]
      /\ cache' = [cache EXCEPT ![Slot(c)] = IF usage[Slot(c)] > 1 THEN entry ELSE Absent]
  BY DEF Leave, TypeOK
<1>2. usage[Slot(c)] # 0 /\ entry.state # "absent"
  BY EntryInUse
<1>3. SUFFICES ASSUME NEW s \in Slots
               PROVE  /\ IsFiniteSet(InUse(s)')
                      /\ usage'[s] = Cardinality(InUse(s)')
                      /\ cache'[s].state = "absent" <=> usage'[s] = 0
  BY DEF CountInv
<1>4. CASE s = Slot(c)
  <2>1. InUse(s)' = InUse(s) \ {c} /\ c \in InUse(s)
    BY <1>1, <1>4 DEF InUse, Slot
  <2>2. IsFiniteSet(InUse(s)) /\ usage[s] = Cardinality(InUse(s)) /\ usage[s] \in Nat
    BY DEF CountInv, TypeOK
  <2>3. IsFiniteSet(InUse(s)') /\ Cardinality(InUse(s)') = Cardinality(InUse(s)) - 1
    BY <2>1, <2>2, FS_RemoveElement
  <2>4. /\ usage'[s] = IF usage[s] > 1 THEN usage[s] - 1 ELSE 0
        /\ cache'[s] = IF usage[s] > 1 THEN entry ELSE Absent
    BY <1>1, <1>4 DEF TypeOK
  <2>5. usage'[s] = usage[s] - 1
    BY <1>2, <1>4, <2>2, <2>4
  <2>6. cache'[s].state = "absent" <=> usage'[s] = 0
    BY <1>2, <1>4, <2>2, <2>4, <2>5 DEF Absent
  <2>. QED
    BY <2>2, <2>3, <2>5, <2>6
<1>5. CASE s # Slot(c)
  <2>1. InUse(s)' = InUse(s)
    BY <1>1, <1>5 DEF InUse, Slot
  <2>2. usage'[s] = usage[s] /\ cache'[s] = cache[s]
    BY <1>1, <1>5 DEF TypeOK
  <2>. QED
    BY <2>1, <2>2 DEF CountInv
<1>. QED
  BY <1>4, <1>5

\* A crash ends every execution of the process, and its cache with them.
LEMMA CountCrash ==
  ASSUME TypeOK, CountInv, NEW p \in Procs, Crash(p)
  PROVE  CountInv'
<1>. USE SlotType
<1>1. SUFFICES ASSUME NEW s \in Slots
               PROVE  /\ IsFiniteSet(InUse(s)')
                      /\ usage'[s] = Cardinality(InUse(s)')
                      /\ cache'[s].state = "absent" <=> usage'[s] = 0
  BY DEF CountInv
<1>2. CASE s[1] = p
  <2>1. \A d \in Commands : Slot(d) = s => pc'[d] \notin InFlight
    BY <1>2 DEF Crash, InFlight, Holding
  <2>2. InUse(s)' = {}
    BY <2>1 DEF InUse, Slot
  <2>3. usage'[s] = 0 /\ cache'[s].state = "absent"
    BY <1>2 DEF Crash, Absent
  <2>. QED
    BY <2>2, <2>3, FS_EmptySet
<1>3. CASE s[1] # p
  <2>1. \A d \in Commands : Slot(d) = s => pc'[d] = pc[d]
    BY <1>3 DEF Crash
  <2>2. InUse(s)' = InUse(s)
    BY <2>1 DEF InUse, Slot
  <2>3. usage'[s] = usage[s] /\ cache'[s] = cache[s]
    BY <1>3 DEF Crash
  <2>. QED
    BY <2>2, <2>3 DEF CountInv
<1>. QED
  BY <1>2, <1>3

LEMMA Counting == Spec => []CountInv
<1>1. Init => CountInv
  <2>. SUFFICES ASSUME Init, NEW s \in Slots
                PROVE  /\ IsFiniteSet(InUse(s))
                       /\ usage[s] = Cardinality(InUse(s))
                       /\ cache[s].state = "absent" <=> usage[s] = 0
    BY DEF CountInv
  <2>1. InUse(s) = {}
    BY DEF Init, InUse, InFlight, Holding
  <2>2. usage[s] = 0 /\ cache[s].state = "absent"
    BY DEF Init, Absent
  <2>. QED
    BY <2>1, <2>2, FS_EmptySet
<1>2. TypeOK /\ CountInv /\ [Next]_vars => CountInv'
  <2>. SUFFICES ASSUME TypeOK, CountInv, [Next]_vars
                PROVE  CountInv'
    OBVIOUS
  <2>. USE SlotType
  <2>1. ASSUME NEW c \in Commands, pc[c] \in InFlight, NEW to \in InFlight,
               pc' = [pc EXCEPT ![c] = to], UNCHANGED <<cache, usage>>
        PROVE  CountInv'
    BY <2>1, CountStays DEF TypeOK
  <2>2. ASSUME NEW c \in Commands, pc[c] \in InFlight, NEW to \in InFlight,
               pc' = [pc EXCEPT ![c] = to], UNCHANGED usage,
               NEW e, e.state = "absent" => e = cache[Slot(c)], cache' = [cache EXCEPT ![Slot(c)] = e]
        PROVE  CountInv'
    <3>1. /\ cache[Slot(c)].state # "absent" /\ cache'[Slot(c)] = e
          /\ \A s \in Slots : s # Slot(c) => cache'[s] = cache[s]
      BY <2>2, EntryInUse DEF TypeOK
    <3>. QED
      BY <2>2, <3>1, CountStays DEF TypeOK
  <2>3. ASSUME NEW c \in Commands, Emit(c)
        PROVE  CountInv'
    <3>1. \A s \in Slots : cache'[s].state = cache[s].state
      BY <2>3 DEF Emit, TypeOK, Entry
    <3>. QED
      BY <2>3, <3>1, CountStays DEF Emit
  <2>4. ASSUME NEW c \in Commands, Step(c)
        PROVE  CountInv'
    <3>. USE DEF InFlight, Holding
    <3>1. CASE Acquire(c) \/ Handle(c) \/ Dispatch(c) \/ Commit(c) \/ CommitConflicts(c) \/ CommitFails(c)
      BY <2>1, <3>1 DEF Acquire, Handle, Dispatch, Commit, CommitConflicts, CommitFails
    <3>2. CASE ForceCommit(c) \/ ForceCommitFails(c)
      BY <2>1, <3>2 DEF ForceCommit, ForceCommitFails
    <3>3. CASE Get(c)
      <4>1. Got(cache[Slot(c)]).state = "absent" => Got(cache[Slot(c)]) = cache[Slot(c)]
        BY DEF Got, Pending
      <4>. QED
        BY <2>2, <3>3, <4>1 DEF Get
    <3>4. CASE Retry(c)
      BY <2>2, <3>4 DEF Retry, Got, Lazy, Pending
    <3>5. CASE ForceDispatch(c)
      BY <2>2, <3>5 DEF ForceDispatch, Lazy
    <3>6. CASE LoadingFails(c) \/ ReturnNothing(c) \/ Return(c) \/ RejectForced(c)
      BY <3>6, CountLeave DEF LoadingFails, ReturnNothing, Return, RejectForced
    <3>7. CASE HandlerFails(c) \/ GiveUp(c) \/ Reject(c)
      <4>1. Lazy.state # "absent"
        BY DEF Lazy
      <4>. QED
        BY <3>7, <4>1, CountLeave DEF HandlerFails, GiveUp, Reject
    <3>. QED
      BY <2>4, <3>1, <3>2, <3>3, <3>4, <3>5, <3>6, <3>7 DEF Step
  <2>5. ASSUME NEW c \in Commands, Land(c)
        PROVE  CountInv'
    BY <2>5, CountStays DEF Land, TypeOK, InFlight, Holding
  <2>6. ASSUME NEW s \in Slots, Restore(s) \/ RestoreFails(s)
        PROVE  CountInv'
    <3>1. cache'[s].state # "absent" /\ cache[s].state # "absent"
      BY <2>6 DEF Restore, RestoreFails, Ready, Broken, TypeOK
    <3>2. \A r \in Slots : r # s => cache'[r] = cache[r]
      BY <2>6 DEF Restore, RestoreFails, TypeOK
    <3>. QED
      BY <2>6, <3>1, <3>2, CountStays DEF Restore, RestoreFails
  <2>7. CASE UNCHANGED vars
    BY <2>7, CountStays DEF vars
  <2>. QED
    BY <2>3, <2>4, <2>5, <2>6, <2>7, CountEnter, CountCrash DEF Next, Quiescent
<1>. QED
  BY <1>1, <1>2, TypeCorrect, PTL DEF Spec

\* MapAssertable counts exactly the executions that use an entry, and an entry is
\* in the cache exactly while it is used: it is never dropped under a command, and
\* never leaked, whatever fails, is retried or crashes.
THEOREM EntriesCounted == Spec => []CacheAccounting
<1>1. CountInv => CacheAccounting
  BY DEF CountInv, CacheAccounting, InUse
<1>. QED
  BY <1>1, Counting, PTL

-----------------------------------------------------------------------------
(* All or nothing, with and without force-dispatching.                     *)

\* Nothing of these is stored, even when they are on the way to a forced commit.
Unwritten == Unstored \cup {"forcing", "forcedAdrift"}

\* The batch of c is in the stream after its k-th event, and c is nowhere else.
WholeAt(c, k) ==
  /\ Positions(c) = (k + 1)..(k + Len(batch[c]))
  /\ \A i \in 1..Len(batch[c]) : stream[Target[c]][k + i] = batch[c][i]

Whole(c) == \E k \in 0..Len(stream[Target[c]]) : WholeAt(c, k)

\* What the object was given since the handler began is the command's.
OwnWork(c) ==
  LET h == cache[Slot(c)].hist
  IN  /\ cache[Slot(c)].state = "ready"
      /\ offset[c] <= Len(h)
      /\ \A i \in (offset[c] + 1)..Len(h) : h[i].cmd = c

OwnBatch(c) == \A i \in 1..Len(batch[c]) : batch[c][i].cmd = c

\* AllOrNothing follows from what has been written by a command at each location.
WrittenInv ==
  \A c \in Commands :
    /\ OwnBatch(c)
    /\ pc[c] = "handling" => OwnWork(c)
    /\ pc[c] \in Unwritten => Positions(c) = {}
    /\ Positions(c) = {} \/ Whole(c)
    /\ pc[c] \in {"committed", "done"} => Whole(c)

\* A step that leaves the storage and the batches alone.
LEMMA WrittenStays ==
  ASSUME WrittenInv, UNCHANGED <<stream, batch>>,
         \A d \in Commands : pc'[d] \in Unwritten => pc[d] \in Unwritten,
         \A d \in Commands : pc'[d] \in {"committed", "done"} => pc[d] \in {"committed", "done"},
         \A d \in Commands : pc'[d] = "handling" => OwnWork(d)'
  PROVE  WrittenInv'
<1>. SUFFICES ASSUME NEW d \in Commands
              PROVE  /\ OwnBatch(d)'
                     /\ pc'[d] = "handling" => OwnWork(d)'
                     /\ pc'[d] \in Unwritten => Positions(d)' = {}
                     /\ Positions(d)' = {} \/ Whole(d)'
                     /\ pc'[d] \in {"committed", "done"} => Whole(d)'
  BY DEF WrittenInv
<1>1. OwnBatch(d)' = OwnBatch(d)
  BY DEF OwnBatch
<1>2. Positions(d)' = Positions(d)
  BY DEF Positions
<1>3. Whole(d)' = Whole(d)
  BY <1>2 DEF Whole, WholeAt
<1>. QED
  BY <1>1, <1>2, <1>3 DEF WrittenInv

LEMMA OwnWorkStays ==
  ASSUME WrittenInv, NEW d \in Commands, pc[d] = "handling",
         cache'[Slot(d)] = cache[Slot(d)], offset'[d] = offset[d]
  PROVE  OwnWork(d)'
<1>1. OwnWork(d)
  BY DEF WrittenInv
<1>2. Slot(d)' = Slot(d)
  BY DEF Slot
<1>. QED
  BY <1>1, <1>2 DEF OwnWork

\* A step of the command that holds the lock of an aggregate, which changes no
\* other object.
LEMMA HolderWritten ==
  ASSUME TypeOK, LockInv, WrittenInv, NEW c \in Commands, pc[c] \in Holding,
         UNCHANGED <<stream, batch>>,
         \A d \in Commands : d # c => pc'[d] = pc[d] /\ offset'[d] = offset[d],
         \A s \in Slots : s # Slot(c) => cache'[s] = cache[s],
         pc'[c] \in Unwritten => pc[c] \in Unwritten,
         pc'[c] \in {"committed", "done"} => pc[c] \in {"committed", "done"},
         pc'[c] = "handling" => OwnWork(c)'
  PROVE  WrittenInv'
<1>1. ASSUME NEW d \in Commands, pc'[d] = "handling", d # c
      PROVE  OwnWork(d)'
  <2>1. pc[d] = "handling" /\ offset'[d] = offset[d]
    BY <1>1
  <2>2. Slot(d) # Slot(c)
    BY <1>1, <2>1, Alone DEF Holding
  <2>. QED
    BY <2>1, <2>2, SlotType, OwnWorkStays
<1>. QED
  BY <1>1, WrittenStays

\* What a commit does to the places of the commands in the streams.
LEMMA StorePositions ==
  ASSUME TypeOK, NEW c \in Commands, OwnBatch(c), Store(c)
  PROVE  LET s == stream[Target[c]]
         IN  /\ \A d \in Commands : d # c => Positions(d)' = Positions(d)
             /\ \A d \in Commands : \A i \in DOMAIN stream[Target[d]] :
                  /\ i \in DOMAIN stream'[Target[d]]
                  /\ stream'[Target[d]][i] = stream[Target[d]][i]
             /\ \A d \in Commands : Len(stream'[Target[d]]) >= Len(stream[Target[d]])
             /\ Positions(c) = {} => Positions(c)' = (Len(s) + 1)..(Len(s) + Len(batch[c]))
             /\ \A i \in 1..Len(batch[c]) : stream'[Target[c]][Len(s) + i] = batch[c][i]
<1>. DEFINE s == stream[Target[c]]
            t == stream'[Target[c]]
            n == Len(s)
            m == Len(batch[c])
<1>. USE SlotType
<1>1. /\ s \in Seq(Event) /\ batch[c] \in Seq(Event) /\ n \in Nat /\ m \in Nat
      /\ s \o batch[c] \in Seq(Event)
  BY LenProperties DEF TypeOK
<1>2. /\ t = s \o batch[c]
      /\ \A a \in Aggregates : a # Target[c] => stream'[a] = stream[a]
  BY DEF Store, TypeOK
<1>3. /\ DOMAIN s = 1..n /\ DOMAIN t = 1..Len(t)
      /\ Len(t) = n + m
      /\ \A i \in 1..n : t[i] = s[i]
      /\ \A i \in 1..m : t[n + i] = batch[c][i]
  <2>1. /\ Len(s \o batch[c]) = n + m
        /\ \A i \in 1..n : (s \o batch[c])[i] = s[i]
        /\ \A i \in 1..m : (s \o batch[c])[n + i] = batch[c][i]
    BY <1>1, ExtendedHistory
  <2>2. DOMAIN s = 1..n /\ DOMAIN (s \o batch[c]) = 1..Len(s \o batch[c])
    BY <1>1, LenProperties
  <2>. QED
    BY <1>2, <2>1, <2>2
<1>. HIDE DEF s, t, n, m
<1>4. \A i \in DOMAIN s : i \in DOMAIN t /\ t[i] = s[i]
  <2>1. \A i \in 1..n : i \in 1..(n + m)
    BY <1>1
  <2>. QED
    BY <1>3, <2>1
<1>5. \A i \in DOMAIN t : i \in DOMAIN s \/ \E k \in 1..m : i = n + k
  <2>. SUFFICES ASSUME NEW i \in 1..(n + m) PROVE i \in 1..n \/ \E k \in 1..m : i = n + k
    BY <1>3
  <2>1. i <= n \/ \E k \in 1..m : i = n + k
    BY <1>1, PositionSplit
  <2>. QED
    BY <1>1, <2>1
<1>6. \A i \in 1..m : t[n + i].cmd = c
  BY <1>3 DEF OwnBatch, m
<1>7. ASSUME NEW d \in Commands, d # c
      PROVE  Positions(d)' = Positions(d)
  <2>1. CASE Target[d] = Target[c]
    <3>1. Positions(d)' = {i \in DOMAIN t : t[i].cmd = d}
      BY <2>1 DEF Positions, t
    <3>2. Positions(d) = {i \in DOMAIN s : s[i].cmd = d}
      BY <2>1 DEF Positions, s
    <3>. QED
      BY <1>4, <1>5, <1>6, <1>7, <3>1, <3>2
  <2>2. CASE Target[d] # Target[c]
    BY <1>2, <2>2 DEF Positions
  <2>. QED
    BY <2>1, <2>2
<1>8. ASSUME NEW d \in Commands
      PROVE  /\ \A i \in DOMAIN stream[Target[d]] :
                  i \in DOMAIN stream'[Target[d]] /\ stream'[Target[d]][i] = stream[Target[d]][i]
             /\ Len(stream'[Target[d]]) >= Len(stream[Target[d]])
  <2>1. CASE Target[d] = Target[c]
    <3>1. Len(t) >= Len(s)
      BY <1>1, <1>3 DEF n
    <3>. QED
      BY <1>4, <2>1, <3>1 DEF s, t
  <2>2. CASE Target[d] # Target[c]
    <3>1. Len(stream[Target[d]]) \in Nat /\ stream'[Target[d]] = stream[Target[d]]
      BY <1>2, <2>2, LenProperties DEF TypeOK
    <3>. QED
      BY <3>1
  <2>. QED
    BY <2>1, <2>2
<1>9. ASSUME Positions(c) = {}
      PROVE  Positions(c)' = (n + 1)..(n + m)
  <2>1. Positions(c)' = {i \in DOMAIN t : t[i].cmd = c}
    BY DEF Positions, t
  <2>2. \A i \in DOMAIN s : t[i].cmd # c
    BY <1>4, <1>9 DEF Positions, s
  <2>3. \A i \in DOMAIN t : t[i].cmd = c <=> \E k \in 1..m : i = n + k
    <3>1. ASSUME NEW k \in 1..m PROVE n + k \notin DOMAIN s
      BY <1>1, <1>3, <3>1
    <3>. QED
      BY <1>5, <1>6, <2>2, <3>1
  <2>4. ASSUME NEW k \in 1..m PROVE n + k \in DOMAIN t /\ n + k \in (n + 1)..(n + m)
    BY <1>1, <1>3
  <2>5. ASSUME NEW i \in (n + 1)..(n + m) PROVE \E k \in 1..m : i = n + k
    <3>1. i - n \in 1..m /\ i = n + (i - n)
      BY <1>1
    <3>. QED
      BY <3>1
  <2>. QED
    BY <2>1, <2>3, <2>4, <2>5
<1>. QED
  BY <1>3, <1>7, <1>8, <1>9 DEF s, t, n, m

\* A commit, checked or forced, stores the whole batch of a command of which
\* nothing was stored.
LEMMA StoreWritten ==
  ASSUME TypeOK, WrittenInv, NEW c \in Commands, pc[c] \in Unwritten \ {"handling"}, Store(c),
         UNCHANGED <<cache, offset, batch>>,
         NEW to \in {"committed", "failed", "forceFailed", "lost"}, pc' = [pc EXCEPT ![c] = to]
  PROVE  WrittenInv'
<1>. DEFINE s == stream[Target[c]]
<1>. USE SlotType
<1>1. OwnBatch(c) /\ Positions(c) = {}
  BY DEF WrittenInv
<1>2. /\ \A d \in Commands : d # c => Positions(d)' = Positions(d)
      /\ \A d \in Commands : \A i \in DOMAIN stream[Target[d]] :
           /\ i \in DOMAIN stream'[Target[d]]
           /\ stream'[Target[d]][i] = stream[Target[d]][i]
      /\ \A d \in Commands : Len(stream'[Target[d]]) >= Len(stream[Target[d]])
      /\ Positions(c)' = (Len(s) + 1)..(Len(s) + Len(batch[c]))
      /\ \A i \in 1..Len(batch[c]) : stream'[Target[c]][Len(s) + i] = batch[c][i]
  BY <1>1, StorePositions
<1>3. Whole(c)'
  <2>1. Len(s) \in Nat /\ Len(stream'[Target[c]]) \in Nat
    <3>1. s \in Seq(Event) /\ stream'[Target[c]] \in Seq(Event)
      BY DEF Store, TypeOK
    <3>. QED
      BY <3>1, LenProperties
  <2>2. PICK k \in 0..Len(stream'[Target[c]]) : k = Len(s)
    BY <1>2, <2>1
  <2>3. WholeAt(c, k)'
    BY <1>2, <2>2 DEF WholeAt
  <2>. QED
    BY <2>3 DEF Whole
<1>4. ASSUME NEW d \in Commands, d # c, Whole(d)
      PROVE  Whole(d)'
  <2>1. PICK k \in 0..Len(stream[Target[d]]) : WholeAt(d, k)
    BY <1>4 DEF Whole
  <2>2. /\ Positions(d)' = (k + 1)..(k + Len(batch'[d]))
        /\ \A i \in 1..Len(batch[d]) : stream[Target[d]][k + i] = batch[d][i]
    BY <1>2, <1>4, <2>1 DEF WholeAt
  <2>3. ASSUME NEW i \in 1..Len(batch[d])
        PROVE  stream'[Target[d]][k + i] = batch'[d][i]
    <3>1. k + i \in (k + 1)..(k + Len(batch[d]))
      BY LenProperties DEF TypeOK
    <3>2. k + i \in DOMAIN stream[Target[d]]
      BY <2>1, <3>1 DEF WholeAt, Positions
    <3>. QED
      BY <1>2, <2>2, <3>2
  <2>4. k \in 0..Len(stream'[Target[d]])
    <3>1. stream'[Target[d]] \in Seq(Event)
      BY DEF Store, TypeOK
    <3>2. Len(stream[Target[d]]) \in Nat /\ Len(stream'[Target[d]]) \in Nat
      BY <3>1, LenProperties DEF TypeOK
    <3>. QED
      BY <1>2, <3>2
  <2>5. WholeAt(d, k)'
    BY <2>2, <2>3 DEF WholeAt
  <2>. QED
    BY <2>4, <2>5 DEF Whole
<1>5. ASSUME NEW d \in Commands
      PROVE  /\ OwnBatch(d)'
             /\ pc'[d] = "handling" => OwnWork(d)'
             /\ pc'[d] \in Unwritten => Positions(d)' = {}
             /\ Positions(d)' = {} \/ Whole(d)'
             /\ pc'[d] \in {"committed", "done"} => Whole(d)'
  <2>1. OwnBatch(d)'
    BY DEF WrittenInv, OwnBatch
  <2>2. CASE d = c
    <3>1. pc'[d] = to
      BY <2>2 DEF TypeOK
    <3>. QED
      BY <1>3, <2>1, <2>2, <3>1 DEF Unwritten, Unstored
  <2>3. CASE d # c
    <3>1. pc'[d] = pc[d]
      BY <2>3 DEF TypeOK
    <3>2. pc'[d] = "handling" => OwnWork(d)'
      BY <3>1, OwnWorkStays
    <3>. QED
      BY <1>2, <1>4, <2>1, <2>3, <3>1, <3>2 DEF WrittenInv
  <2>. QED
    BY <2>2, <2>3
<1>. QED
  BY <1>5 DEF WrittenInv

\* The handler returns: what it hands to the event store is the command's.
LEMMA BatchWritten ==
  ASSUME TypeOK, LockInv, WrittenInv, NEW c \in Commands, pc[c] = "handling",
         UNCHANGED <<stream, offset>>,
         NEW b \in Seq(Event), batch' = [batch EXCEPT ![c] = b],
         \A i \in 1..Len(b) : b[i].cmd = c,
         \A s \in Slots : s # Slot(c) => cache'[s] = cache[s],
         NEW to, pc' = [pc EXCEPT ![c] = to],
         to = "dispatching" \/ (to = "done" /\ b = <<>>)
  PROVE  WrittenInv'
<1>1. Positions(c)' = {}
  BY DEF WrittenInv, Positions, Unwritten, Unstored
<1>2. batch'[c] = b /\ pc'[c] = to
  BY DEF TypeOK
<1>3. OwnBatch(c)'
  BY <1>2 DEF OwnBatch
<1>4. b = <<>> => Whole(c)'
  <2>. SUFFICES ASSUME b = <<>> PROVE Whole(c)'
    OBVIOUS
  <2>1. Len(b) = 0 /\ (0 + 1)..(0 + 0) = {}
    OBVIOUS
  <2>2. PICK k \in Nat : k = 0
    OBVIOUS
  <2>3. WholeAt(c, k)'
    BY <1>1, <1>2, <2>1, <2>2 DEF WholeAt
  <2>4. k \in 0..Len(stream'[Target[c]])
    BY <2>2, SlotType, LenProperties DEF TypeOK
  <2>. QED
    BY <2>3, <2>4 DEF Whole
<1>5. ASSUME NEW d \in Commands, d # c
      PROVE  /\ OwnBatch(d)'
             /\ pc'[d] = "handling" => OwnWork(d)'
             /\ pc'[d] \in Unwritten => Positions(d)' = {}
             /\ Positions(d)' = {} \/ Whole(d)'
             /\ pc'[d] \in {"committed", "done"} => Whole(d)'
  <2>1. pc'[d] = pc[d] /\ batch'[d] = batch[d]
    BY <1>5 DEF TypeOK
  <2>2. OwnBatch(d)' /\ Positions(d)' = Positions(d)
    BY <2>1 DEF WrittenInv, OwnBatch, Positions
  <2>3. Whole(d) => Whole(d)'
    <3>1. \A k : WholeAt(d, k)' <=> WholeAt(d, k)
      BY <2>1, <2>2 DEF WholeAt
    <3>. QED
      BY <3>1 DEF Whole
  <2>4. ASSUME pc[d] = "handling"
        PROVE  OwnWork(d)'
    <3>1. Slot(d) # Slot(c)
      BY <1>5, <2>4, Alone DEF Holding
    <3>. QED
      BY <2>4, <3>1, SlotType, OwnWorkStays
  <2>. QED
    BY <2>1, <2>2, <2>3, <2>4 DEF WrittenInv
<1>6. pc'[c] # "handling"
  BY <1>2
<1>. QED
  BY <1>1, <1>2, <1>3, <1>4, <1>5, <1>6 DEF WrittenInv

\* The steps of execute() between acquiring the lock and releasing it.
LEMMA StepWritten ==
  ASSUME TypeOK, LockInv, WrittenInv, NEW c \in Commands, Emit(c) \/ Step(c)
  PROVE  WrittenInv'
<1>. USE SlotType
<1>1. CASE Emit(c)
  <2>. DEFINE h == cache[Slot(c)].hist
              e == [cmd |-> c, version |-> Version(h), seen |-> CommandsOf(h) \ {c}]
  <2>1. /\ pc[c] = "handling" /\ OwnWork(c)
        /\ UNCHANGED <<stream, pc, offset, batch>>
        /\ cache' = [cache EXCEPT ![Slot(c)] = [@ EXCEPT !.hist = Append(h, e)]]
    BY <1>1 DEF Emit, WrittenInv
  <2>2. /\ cache'[Slot(c)].state = "ready" /\ cache'[Slot(c)].hist = Append(h, e)
        /\ \A s \in Slots : s # Slot(c) => cache'[s] = cache[s]
    BY <2>1 DEF OwnWork, TypeOK, Entry
  <2>3. /\ h \in Seq(Event) /\ Len(h) \in Nat /\ offset[c] \in Nat
        /\ Len(Append(h, e)) = Len(h) + 1
        /\ Append(h, e)[Len(h) + 1] = e
        /\ \A i \in 1..Len(h) : Append(h, e)[i] = h[i]
    <3>1. h \in Seq(Event)
      BY DEF TypeOK, Entry
    <3>. QED
      BY <3>1, AppendProperties, LenProperties DEF TypeOK
  <2>. HIDE DEF h, e
  <2>4. ASSUME NEW i \in (offset[c] + 1)..(Len(h) + 1)
        PROVE  Append(h, e)[i].cmd = c
    <3>1. CASE i = Len(h) + 1
      BY <2>3, <3>1 DEF e
    <3>2. CASE i # Len(h) + 1
      <4>1. i \in 1..Len(h) /\ i \in (offset[c] + 1)..Len(h)
        BY <2>3, <3>2
      <4>. QED
        BY <2>1, <2>3, <4>1 DEF OwnWork, h
    <3>. QED
      BY <3>1, <3>2
  <2>5. offset[c] <= Len(h) + 1
    BY <2>1, <2>3 DEF OwnWork, h
  <2>6. OwnWork(c)'
    <3>1. Slot(c)' = Slot(c) /\ offset'[c] = offset[c]
      BY <2>1 DEF Slot
    <3>. QED
      BY <2>2, <2>3, <2>4, <2>5, <3>1 DEF OwnWork
  <2>. QED
    BY <2>1, <2>2, <2>6, HolderWritten DEF Holding
<1>2. CASE Acquire(c)
  BY <1>2, WrittenStays, OwnWorkStays DEF Acquire, TypeOK, Unwritten, Unstored
<1>3. ASSUME pc[c] \in Holding, UNCHANGED <<stream, offset, batch>>,
             NEW to, pc' = [pc EXCEPT ![c] = to],
             NEW e, cache' = [cache EXCEPT ![Slot(c)] = e],
             to \in Unwritten => pc[c] \in Unwritten,
             to \in {"committed", "done"} => pc[c] \in {"committed", "done"},
             to # "handling"
      PROVE  WrittenInv'
  <2>1. /\ \A d \in Commands : d # c => pc'[d] = pc[d]
        /\ pc'[c] = to
        /\ \A s \in Slots : s # Slot(c) => cache'[s] = cache[s]
    BY <1>3 DEF TypeOK
  <2>. QED
    BY <1>3, <2>1, HolderWritten
<1>4. CASE Get(c) \/ Retry(c) \/ ForceDispatch(c)
  <2>1. /\ pc[c] \in {"locked", "conflicted"} /\ UNCHANGED <<stream, offset, batch>>
        /\ \A d \in Commands : d # c => pc'[d] = pc[d]
        /\ pc'[c] \in {"loading", "forcing"}
        /\ \A s \in Slots : s # Slot(c) => cache'[s] = cache[s]
    BY <1>4 DEF Get, Retry, ForceDispatch, TypeOK
  <2>. QED
    BY <2>1, HolderWritten DEF Holding, Unwritten, Unstored
<1>5. ASSUME pc[c] \in Holding, UNCHANGED <<stream, offset, batch>>, NEW entry,
             NEW how \in {"done", "exhausted", "rejected"}, Leave(c, entry, how),
             how = "exhausted" => pc[c] \in Unwritten,
             how = "done" => pc[c] = "committed"
      PROVE  WrittenInv'
  <2>. DEFINE e == IF usage[Slot(c)] > 1 THEN entry ELSE Absent
  <2>1. pc' = [pc EXCEPT ![c] = how] /\ cache' = [cache EXCEPT ![Slot(c)] = e]
    BY <1>5 DEF Leave
  <2>2. /\ how \in Unwritten => pc[c] \in Unwritten
        /\ how \in {"committed", "done"} => pc[c] \in {"committed", "done"}
        /\ how # "handling"
    BY <1>5 DEF Unwritten, Unstored
  <2>. HIDE DEF e
  <2>. QED
    BY <1>3, <1>5, <2>1, <2>2
<1>6. CASE \/ LoadingFails(c) \/ HandlerFails(c) \/ Return(c)
           \/ GiveUp(c) \/ Reject(c) \/ RejectForced(c)
  <2>. USE DEF Holding
  <2>1. CASE LoadingFails(c)
    BY <1>5, <2>1 DEF LoadingFails
  <2>2. CASE HandlerFails(c)
    BY <1>5, <2>2 DEF HandlerFails
  <2>3. CASE Return(c)
    BY <1>5, <2>3 DEF Return
  <2>4. CASE GiveUp(c)
    BY <1>5, <2>4 DEF GiveUp, Unwritten, Unstored
  <2>5. CASE Reject(c)
    BY <1>5, <2>5 DEF Reject
  <2>6. CASE RejectForced(c)
    BY <1>5, <2>6 DEF RejectForced
  <2>. QED
    BY <1>6, <2>1, <2>2, <2>3, <2>4, <2>5, <2>6
<1>7. CASE CommitConflicts(c) \/ CommitFails(c) \/ ForceCommitFails(c)
  <2>1. pc[c] \in {"dispatching", "forcing"} /\ UNCHANGED <<stream, cache, offset, batch>>
    BY <1>7 DEF CommitConflicts, CommitFails, ForceCommitFails
  <2>2. \E to \in {"conflicted", "failed", "forceFailed"} :
          /\ pc' = [pc EXCEPT ![c] = to]
          /\ to \in Unwritten => pc[c] \in Unwritten
    BY <1>7 DEF CommitConflicts, CommitFails, ForceCommitFails, Unwritten, Unstored
  <2>. QED
    BY <2>1, <2>2, HolderWritten DEF Holding, TypeOK
<1>8. CASE Handle(c)
  <2>1. /\ \A d \in Commands : d # c => pc'[d] = pc[d] /\ offset'[d] = offset[d]
        /\ offset'[c] = Len(cache[Slot(c)].hist) /\ pc'[c] = "handling"
        /\ pc[c] = "loading" /\ cache[Slot(c)].state = "ready" /\ UNCHANGED <<stream, cache, batch>>
    BY <1>8 DEF Handle, TypeOK
  <2>2. Len(cache[Slot(c)].hist) \in Nat
    BY LenProperties DEF TypeOK, Entry
  <2>3. OwnWork(c)'
    <3>1. Slot(c)' = Slot(c)
      BY DEF Slot
    <3>. QED
      BY <2>1, <2>2, <3>1 DEF OwnWork
  <2>. QED
    BY <2>1, <2>3, HolderWritten DEF Holding, Unwritten, Unstored
<1>9. CASE ReturnNothing(c)
  <2>1. /\ pc[c] = "handling" /\ UNCHANGED <<stream, offset>>
        /\ batch' = [batch EXCEPT ![c] = <<>>]
        /\ pc' = [pc EXCEPT ![c] = "done"]
        /\ \A s \in Slots : s # Slot(c) => cache'[s] = cache[s]
    BY <1>9 DEF ReturnNothing, Leave, TypeOK
  <2>2. <<>> \in Seq(Event)
    OBVIOUS
  <2>3. PICK b \in Seq(Event) : b = <<>>
    BY <2>2
  <2>4. \A i \in 1..Len(b) : b[i].cmd = c
    BY <2>3
  <2>. QED
    BY <2>1, <2>3, <2>4, BatchWritten
<1>10. CASE Dispatch(c)
  <2>. DEFINE h == cache[Slot(c)].hist
              b == SubSeq(h, offset[c] + 1, Len(h))
  <2>1. /\ pc[c] = "handling" /\ UNCHANGED <<stream, offset, cache>>
        /\ batch' = [batch EXCEPT ![c] = b]
        /\ pc' = [pc EXCEPT ![c] = "dispatching"]
        /\ Len(h) > offset[c]
    BY <1>10 DEF Dispatch
  <2>2. OwnWork(c)
    BY <2>1 DEF WrittenInv
  <2>3. h \in Seq(Event) /\ Len(h) \in Nat /\ offset[c] \in Nat
    BY LenProperties DEF TypeOK, Entry
  <2>4. \A i \in 1..Len(b) : offset[c] + i \in (offset[c] + 1)..Len(h) /\ b[i] = h[offset[c] + i]
    BY <2>1, <2>3, TailOfHistory
  <2>5. b \in Seq(Event)
    BY <2>3, SubSeqProperties
  <2>6. \A i \in 1..Len(b) : b[i].cmd = c
    BY <2>2, <2>4 DEF OwnWork
  <2>. HIDE DEF b, h
  <2>. QED
    BY <2>1, <2>5, <2>6, BatchWritten
<1>11. CASE Commit(c) \/ ForceCommit(c)
  <2>1. /\ pc[c] \in Unwritten \ {"handling"} /\ Store(c) /\ UNCHANGED <<cache, offset, batch>>
        /\ \E to \in {"committed", "failed", "forceFailed", "lost"} : pc' = [pc EXCEPT ![c] = to]
    BY <1>11 DEF Commit, ForceCommit, Unwritten, Unstored
  <2>. QED
    BY <2>1, StoreWritten
<1>. QED
  BY <1>1, <1>2, <1>4, <1>6, <1>7, <1>8, <1>9, <1>10, <1>11 DEF Step

LEMMA Written == Spec => []WrittenInv
<1>1. Init => WrittenInv
  <2>. SUFFICES ASSUME Init, NEW c \in Commands
                PROVE  /\ OwnBatch(c)
                       /\ pc[c] = "idle"
                       /\ Positions(c) = {}
    BY DEF WrittenInv
  <2>. QED
    BY SlotType DEF Init, OwnBatch, Positions
<1>2. TypeOK /\ LockInv /\ WrittenInv /\ [Next]_vars => WrittenInv'
  <2>. SUFFICES ASSUME TypeOK, LockInv, WrittenInv, [Next]_vars
                PROVE  WrittenInv'
    OBVIOUS
  <2>. USE SlotType
  <2>1. ASSUME NEW c \in Commands, Execute(c)
        PROVE  WrittenInv'
    <3>1. /\ UNCHANGED <<stream, offset, batch>> /\ pc[c] = "idle"
          /\ \A d \in Commands : d # c => pc'[d] = pc[d]
          /\ pc'[c] \in {"locked", "queued"}
          /\ cache' = [cache EXCEPT ![Slot(c)] = Asserted(@)]
      BY <2>1 DEF Execute, TypeOK
    <3>2. ASSUME NEW d \in Commands, pc'[d] = "handling"
          PROVE  OwnWork(d)'
      <4>1. pc[d] = "handling" /\ OwnWork(d)
        BY <3>1, <3>2 DEF WrittenInv
      <4>2. Asserted(cache[Slot(d)]) = cache[Slot(d)]
        BY <4>1 DEF OwnWork, Asserted, Got
      <4>3. cache'[Slot(d)] = cache[Slot(d)]
        BY <3>1, <4>2 DEF TypeOK
      <4>. QED
        BY <3>1, <4>1, <4>3, OwnWorkStays
    <3>. QED
      BY <3>1, <3>2, WrittenStays DEF Unwritten, Unstored
  <2>2. ASSUME NEW c \in Commands, Land(c)
        PROVE  WrittenInv'
    <3>1. /\ pc[c] \in Unwritten \ {"handling"} /\ Store(c) /\ UNCHANGED <<cache, offset, batch>>
          /\ pc' = [pc EXCEPT ![c] = "lost"]
      BY <2>2 DEF Land, Unwritten, Unstored
    <3>. QED
      BY <3>1, StoreWritten
  <2>3. ASSUME NEW s \in Slots, Restore(s) \/ RestoreFails(s)
        PROVE  WrittenInv'
    <3>1. /\ UNCHANGED <<stream, pc, offset, batch>>
          /\ cache[s].state = "pending"
          /\ \A r \in Slots : r # s => cache'[r] = cache[r]
      BY <2>3 DEF Restore, RestoreFails, TypeOK
    <3>2. ASSUME NEW d \in Commands, pc[d] = "handling"
          PROVE  OwnWork(d)'
      <4>1. Slot(d) # s
        BY <3>1, <3>2 DEF WrittenInv, OwnWork
      <4>. QED
        BY <3>1, <3>2, <4>1, OwnWorkStays
    <3>. QED
      BY <3>1, <3>2, WrittenStays
  <2>4. ASSUME NEW p \in Procs, Crash(p)
        PROVE  WrittenInv'
    <3>1. UNCHANGED <<stream, offset, batch>>
      BY <2>4 DEF Crash
    <3>2. \A d \in Commands :
            \/ pc'[d] = pc[d] /\ (pc[d] = "handling" => At[d] # p)
            \/ pc[d] = "dispatching" /\ pc'[d] = "adrift"
            \/ pc[d] = "forcing" /\ pc'[d] = "forcedAdrift"
            \/ pc'[d] = "lost"
      BY <2>4 DEF Crash, InFlight, Holding
    <3>3. ASSUME NEW d \in Commands, pc'[d] = "handling"
          PROVE  OwnWork(d)'
      <4>1. pc[d] = "handling" /\ At[d] # p
        BY <3>2, <3>3
      <4>2. cache'[Slot(d)] = cache[Slot(d)]
        BY <2>4, <4>1 DEF Crash
      <4>. QED
        BY <3>1, <4>1, <4>2, OwnWorkStays
    <3>. QED
      BY <3>1, <3>2, <3>3, WrittenStays DEF Unwritten, Unstored
  <2>5. CASE UNCHANGED vars
    BY <2>5, WrittenStays, OwnWorkStays DEF vars
  <2>. QED
    BY <2>1, <2>2, <2>3, <2>4, <2>5, StepWritten DEF Next, Quiescent
<1>. QED
  BY <1>1, <1>2, TypeCorrect, Locking, PTL DEF Spec

\* A command is stored at most once and as a whole, a caller that is given events
\* finds exactly these in the stream, and one that is given a ConcurrencyError
\* finds none: with force-dispatching too, and whatever fails or crashes.
THEOREM StoredAsAWhole == Spec => []AllOrNothing
<1>1. TypeOK /\ WrittenInv => AllOrNothing
  <2>. SUFFICES ASSUME TypeOK, WrittenInv, NEW c \in Commands
                PROVE  /\ Positions(c) # {} =>
                            \E k \in 0..Len(stream[Target[c]]) :
                              /\ Positions(c) = (k + 1)..(k + Len(batch[c]))
                              /\ \A i \in DOMAIN batch[c] : stream[Target[c]][k + i] = batch[c][i]
                       /\ pc[c] = "done" => Cardinality(Positions(c)) = Len(batch[c])
                       /\ pc[c] = "exhausted" => Positions(c) = {}
    BY DEF AllOrNothing
  <2>1. DOMAIN batch[c] = 1..Len(batch[c]) /\ Len(batch[c]) \in Nat
    BY LenProperties DEF TypeOK
  <2>2. Positions(c) # {} =>
          \E k \in 0..Len(stream[Target[c]]) :
            /\ Positions(c) = (k + 1)..(k + Len(batch[c]))
            /\ \A i \in DOMAIN batch[c] : stream[Target[c]][k + i] = batch[c][i]
    BY <2>1 DEF WrittenInv, Whole, WholeAt
  <2>3. ASSUME pc[c] = "done"
        PROVE  Cardinality(Positions(c)) = Len(batch[c])
    <3>1. PICK k \in 0..Len(stream[Target[c]]) : Positions(c) = (k + 1)..(k + Len(batch[c]))
      BY <2>3 DEF WrittenInv, Whole, WholeAt
    <3>. DEFINE n == Len(batch[c])
    <3>. HIDE DEF n
    <3>2. n \in Nat /\ k + 1 \in Int /\ k + n \in Int
      BY <2>1 DEF n
    <3>3. Cardinality((k + 1)..(k + n)) = IF k + 1 > k + n THEN 0 ELSE k + n - (k + 1) + 1
      BY <3>2, FS_Interval
    <3>4. (IF k + 1 > k + n THEN 0 ELSE k + n - (k + 1) + 1) = n
      BY <3>2
    <3>. QED
      BY <3>1, <3>3, <3>4 DEF n
  <2>4. pc[c] = "exhausted" => Positions(c) = {}
    BY DEF WrittenInv, Unwritten, Unstored
  <2>. QED
    BY <2>2, <2>3, <2>4
<1>. QED
  BY <1>1, TypeCorrect, Written, PTL

-----------------------------------------------------------------------------
(* What commands start from, without force-dispatching.                    *)

\* A command that met a conflict works on an outdated object until it has a
\* newer one; one that is committed is in the object.
Attempt(c) ==
  LET e == cache[Slot(c)]
      retrying == pc[c] = "loading" /\ attempt[c] > 0
  IN  /\ pc[c] \in {"idle", "queued", "locked"} => attempt[c] = 0
      /\ pc[c] = "conflicted" \/ retrying => Len(stream[Target[c]]) > offset[c]
      /\ retrying /\ e.state = "ready" => Len(e.hist) > offset[c]
      /\ pc[c] = "handling" => Len(e.hist) <= offset[c] + MaxEvents
      /\ pc[c] \in {"dispatching", "adrift"} => Len(batch[c]) <= MaxEvents
      /\ pc[c] \in {"dispatching", "committed"} => e.state = "ready" /\ c \in CommandsOf(e.hist)

\* An object in the cache knows what is stored of the commands that its process
\* executed.
Known(s) ==
  cache[s].state = "ready" =>
    \A d \in Commands :
      Slot(d) = s /\ pc[d] \in {"done", "rejected"} /\ Positions(d) # {} =>
        d \in CommandsOf(cache[s].hist)

AttemptInv == \A c \in Commands : Attempt(c)
KnownInv   == \A s \in Slots : Known(s)

\* A step of others than d, which may replace only what nobody works on.
LEMMA AttemptStays ==
  ASSUME TypeOK, TypeOK', WrittenInv, AttemptInv, NEW d \in Commands,
         pc'[d] = pc[d], attempt'[d] = attempt[d], offset'[d] = offset[d], batch'[d] = batch[d],
         Len(stream'[Target[d]]) >= Len(stream[Target[d]]),
         \/ cache'[Slot(d)] = cache[Slot(d)]
         \/ /\ cache[Slot(d)].state # "ready"
            /\ \/ cache'[Slot(d)].state # "ready"
               \/ cache'[Slot(d)].hist = stream[Target[d]]
  PROVE  Attempt(d)'
<1>. USE SlotType
<1>1. /\ Len(stream[Target[d]]) \in Nat /\ Len(stream'[Target[d]]) \in Nat
      /\ offset[d] \in Nat
  BY LenProperties DEF TypeOK
<1>2. Attempt(d) /\ Slot(d)' = Slot(d)
  BY DEF AttemptInv, Slot
<1>3. Len(stream[Target[d]]) > offset[d] => Len(stream'[Target[d]]) > offset[d]
  BY <1>1
<1>4. CASE cache'[Slot(d)] = cache[Slot(d)]
  BY <1>2, <1>3, <1>4 DEF Attempt
<1>5. CASE /\ cache[Slot(d)].state # "ready"
           /\ \/ cache'[Slot(d)].state # "ready"
              \/ cache'[Slot(d)].hist = stream[Target[d]]
  <2>1. pc[d] \notin {"handling", "dispatching", "committed"}
    BY <1>2, <1>5 DEF WrittenInv, OwnWork, Attempt
  <2>2. /\ pc[d] = "loading" /\ attempt[d] > 0 /\ cache'[Slot(d)].state = "ready" =>
             Len(cache'[Slot(d)].hist) > offset[d]
    BY <1>2, <1>5 DEF Attempt
  <2>. QED
    BY <1>2, <1>3, <2>1, <2>2 DEF Attempt
<1>. QED
  BY <1>4, <1>5

\* A step of the command that holds the lock of an aggregate, which changes no
\* other object: what has to be shown is about that command.
LEMMA HolderAttempts ==
  ASSUME TypeOK, TypeOK', LockInv, WrittenInv, AttemptInv, NEW c \in Commands, pc[c] \in Holding,
         \A d \in Commands : d # c => /\ pc'[d] = pc[d]
                                      /\ attempt'[d] = attempt[d]
                                      /\ offset'[d] = offset[d]
                                      /\ batch'[d] = batch[d],
         \A d \in Commands : Len(stream'[Target[d]]) >= Len(stream[Target[d]]),
         \A s \in Slots : s # Slot(c) => cache'[s] = cache[s],
         Attempt(c)'
  PROVE  AttemptInv'
<1>. SUFFICES ASSUME NEW d \in Commands, d # c PROVE Attempt(d)'
  BY DEF AttemptInv
<1>1. CASE pc[d] \in Holding
  <2>1. Slot(d) # Slot(c)
    BY <1>1, Alone
  <2>. QED
    BY <2>1, SlotType, AttemptStays
<1>2. CASE pc[d] \notin Holding
  <2>1. /\ pc[d] = "adrift" => Len(batch[d]) <= MaxEvents
        /\ pc[d] \in {"idle", "queued"} => attempt[d] = 0
    BY DEF AttemptInv, Attempt
  <2>2. pc[d] \notin {"locked", "loading", "handling", "dispatching", "committed", "conflicted"}
    BY <1>2 DEF Holding
  <2>. QED
    BY <2>1, <2>2 DEF Attempt
<1>. QED
  BY <1>1, <1>2

\* A step of a command c, which may lose nothing of what its object knows.
LEMMA KnownStays ==
  ASSUME KnownInv, NEW c \in Commands,
         \A d \in Commands : d # c => pc'[d] = pc[d] /\ Positions(d)' = Positions(d),
         \A s \in Slots :
           \/ cache'[s] = cache[s]
           \/ cache'[s].state # "ready"
           \/ cache[s].state = "ready" /\ CommandsOf(cache[s].hist) \subseteq CommandsOf(cache'[s].hist),
         /\ pc'[c] \in {"done", "rejected"} /\ Positions(c)' # {}
         /\ cache'[Slot(c)].state = "ready"
         => c \in CommandsOf(cache'[Slot(c)].hist)
  PROVE  KnownInv'
<1>. SUFFICES ASSUME NEW s \in Slots, cache'[s].state = "ready", NEW d \in Commands, d # c,
                     Slot(d) = s, pc[d] \in {"done", "rejected"}, Positions(d) # {}
              PROVE  d \in CommandsOf(cache'[s].hist)
  BY DEF KnownInv, Known, Slot
<1>1. /\ cache[s].state = "ready"
      /\ CommandsOf(cache[s].hist) \subseteq CommandsOf(cache'[s].hist)
  OBVIOUS
<1>. QED
  BY <1>1 DEF KnownInv, Known

\* A conflict shows that the stream is longer than what the command has seen.
LEMMA ConflictIsStale ==
  ASSUME TypeOK, HistoryInv, NEW c \in Commands, pc[c] = "dispatching", Conflict(c)
  PROVE  Len(stream[Target[c]]) > offset[c]
<1>. DEFINE s == stream[Target[c]]
<1>. USE SlotType
<1>1. /\ Len(s) \in Nat /\ offset[c] \in Nat
      /\ DOMAIN s = 1..Len(s) /\ DOMAIN batch[c] = 1..Len(batch[c]) /\ Len(batch[c]) \in Nat
  BY LenProperties DEF TypeOK
<1>2. BatchOf(c)
  BY DEF HistoryInv, BatchInv
<1>3. PICK i \in 1..Len(batch[c]), j \in 1..Len(s) : batch[c][i].version = s[j].version
  BY <1>1 DEF Conflict
<1>4. Emitted(c, batch[c][i], offset[c] + i)
  BY <1>2 DEF BatchOf
<1>5. batch[c][i].version = (offset[c] + i) - 1
  BY <1>4 DEF Emitted
<1>6. s[j].version = j - 1
  BY DEF HistoryInv, StreamInv
<1>7. (offset[c] + i) - 1 = j - 1
  BY <1>3, <1>5, <1>6
<1>8. j = offset[c] + i /\ i > 0 /\ j <= Len(s)
  BY <1>1, <1>7
<1>. QED
  BY <1>1, <1>8

\* The steps that execute() takes while it holds the lock.
LEMMA StepAttempts ==
  ASSUME TypeOK, TypeOK', LockInv, HistoryInv, WrittenInv, AttemptInv, ~IgnoreAfterMaxRetries,
         NEW c \in Commands, Emit(c) \/ Step(c), ~Acquire(c)
  PROVE  AttemptInv'
<1>. USE SlotType
<1>. DEFINE Same == /\ \A d \in Commands : d # c => /\ pc'[d] = pc[d]
                                                   /\ attempt'[d] = attempt[d]
                                                   /\ offset'[d] = offset[d]
                                                   /\ batch'[d] = batch[d]
                    /\ \A s \in Slots : s # Slot(c) => cache'[s] = cache[s]
<1>1. \A d \in Commands : Len(stream[Target[d]]) >= Len(stream[Target[d]]) /\ Len(stream[Target[d]]) \in Nat
  BY LenProperties DEF TypeOK
<1>2. ASSUME pc[c] \in Holding, Same, UNCHANGED stream, Attempt(c)'
      PROVE  AttemptInv'
  BY <1>1, <1>2, HolderAttempts
<1>3. Attempt(c) /\ Slot(c)' = Slot(c)
  BY DEF AttemptInv, Slot
<1>4. CASE Emit(c)
  <2>. DEFINE h == cache[Slot(c)].hist
              e == [cmd |-> c, version |-> Version(h), seen |-> CommandsOf(h) \ {c}]
  <2>1. pc[c] = "handling" /\ pc' = pc /\ Same /\ UNCHANGED <<stream, attempt, offset, batch>>
    BY <1>4 DEF Emit, TypeOK
  <2>2. h \in Seq(Event) /\ Len(h) < offset[c] + MaxEvents
    BY <1>4 DEF Emit, TypeOK, Entry
  <2>3. cache'[Slot(c)].hist = Append(h, e)
    BY <1>4 DEF Emit, TypeOK, Entry
  <2>4. Len(h) \in Nat /\ Len(Append(h, e)) = Len(h) + 1 /\ offset[c] \in Nat /\ MaxEvents \in Nat
    BY <2>2, LenProperties, ConstantsAssumption DEF TypeOK
  <2>. HIDE DEF h, e
  <2>5. Len(cache'[Slot(c)].hist) <= offset[c] + MaxEvents
    BY <2>2, <2>3, <2>4
  <2>6. Attempt(c)'
    BY <1>3, <2>1, <2>5 DEF Attempt
  <2>. QED
    BY <1>2, <2>1, <2>6 DEF Holding
<1>5. CASE Get(c)
  <2>1. /\ pc[c] = "locked" /\ pc'[c] = "loading" /\ Same
        /\ UNCHANGED <<stream, attempt, offset, batch>>
    BY <1>5 DEF Get, TypeOK
  <2>2. attempt'[c] = 0
    BY <1>3, <2>1 DEF Attempt
  <2>3. Attempt(c)'
    BY <2>1, <2>2 DEF Attempt
  <2>. QED
    BY <1>2, <2>1, <2>3 DEF Holding
<1>6. CASE \/ LoadingFails(c) \/ HandlerFails(c) \/ ReturnNothing(c) \/ Return(c)
           \/ GiveUp(c) \/ Reject(c) \/ RejectForced(c)
  <2>1. /\ pc[c] \in Holding
        /\ UNCHANGED <<stream, attempt, offset>>
        /\ \A d \in Commands : d # c => batch'[d] = batch[d]
        /\ \E entry : \E how \in {"done", "exhausted", "rejected"} : Leave(c, entry, how)
    <3>1. CASE LoadingFails(c) \/ HandlerFails(c) \/ Return(c)
      BY <3>1 DEF LoadingFails, HandlerFails, Return, Holding
    <3>2. CASE GiveUp(c) \/ Reject(c) \/ RejectForced(c)
      BY <3>2 DEF GiveUp, Reject, RejectForced, Holding
    <3>3. CASE ReturnNothing(c)
      BY <3>3 DEF ReturnNothing, Holding, TypeOK
    <3>. QED
      BY <1>6, <3>1, <3>2, <3>3
  <2>2. pc'[c] \in {"done", "exhausted", "rejected"} /\ Same
    BY <2>1 DEF Leave, TypeOK
  <2>3. Attempt(c)'
    BY <2>2 DEF Attempt
  <2>. QED
    BY <1>2, <2>1, <2>2, <2>3
<1>7. CASE Handle(c)
  <2>1. /\ pc[c] = "loading" /\ pc'[c] = "handling" /\ Same
        /\ UNCHANGED <<stream, cache>> /\ offset'[c] = Len(cache[Slot(c)].hist)
    BY <1>7 DEF Handle, TypeOK
  <2>2. Len(cache[Slot(c)].hist) \in Nat /\ MaxEvents \in Nat
    BY LenProperties, ConstantsAssumption DEF TypeOK, Entry
  <2>3. Len(cache'[Slot(c)].hist) <= offset'[c] + MaxEvents
    BY <2>1, <2>2
  <2>4. Attempt(c)'
    BY <1>3, <2>1, <2>3 DEF Attempt
  <2>. QED
    BY <1>2, <2>1, <2>4 DEF Holding
<1>8. CASE Dispatch(c)
  <2>. DEFINE h == cache[Slot(c)].hist
              b == SubSeq(h, offset[c] + 1, Len(h))
  <2>1. /\ pc[c] = "handling" /\ pc'[c] = "dispatching" /\ Same
        /\ UNCHANGED <<stream, cache, attempt, offset>> /\ batch'[c] = b /\ Len(h) > offset[c]
    BY <1>8 DEF Dispatch, TypeOK
  <2>2. OwnWork(c)
    BY <2>1 DEF WrittenInv
  <2>3. h \in Seq(Event) /\ Len(h) \in Nat /\ offset[c] \in Nat /\ MaxEvents \in Nat
        /\ DOMAIN h = 1..Len(h)
    BY LenProperties, ConstantsAssumption DEF TypeOK, Entry
  <2>4. Len(b) = Len(h) - offset[c]
    BY <2>1, <2>3, TailOfHistory
  <2>5. Len(h) <= offset[c] + MaxEvents
    BY <1>3, <2>1 DEF Attempt
  <2>. HIDE DEF b
  <2>6. Len(b) <= MaxEvents
    BY <2>3, <2>4, <2>5
  <2>7. c \in CommandsOf(h)
    <3>1. Len(h) \in (offset[c] + 1)..Len(h) /\ Len(h) \in DOMAIN h
      BY <2>1, <2>3
    <3>. QED
      BY <2>2, <3>1 DEF OwnWork, CommandsOf
  <2>8. Attempt(c)'
    BY <1>3, <2>1, <2>2, <2>6, <2>7 DEF Attempt, OwnWork
  <2>. QED
    BY <1>2, <2>1, <2>8 DEF Holding
<1>9. CASE Commit(c)
  <2>1. /\ pc[c] = "dispatching" /\ pc'[c] \in {"committed", "failed"} /\ Same /\ Store(c)
        /\ UNCHANGED cache
    BY <1>9 DEF Commit, TypeOK
  <2>2. \A d \in Commands : Len(stream'[Target[d]]) >= Len(stream[Target[d]])
    BY <2>1, StorePositions DEF WrittenInv
  <2>3. Attempt(c)'
    BY <1>3, <2>1 DEF Attempt
  <2>. QED
    BY <2>1, <2>2, <2>3, HolderAttempts DEF Holding
<1>10. CASE CommitConflicts(c)
  <2>1. /\ pc[c] = "dispatching" /\ Conflict(c) /\ pc'[c] = "conflicted" /\ Same
        /\ UNCHANGED <<stream, offset>>
    BY <1>10 DEF CommitConflicts, TypeOK
  <2>2. Len(stream[Target[c]]) > offset[c]
    BY <2>1, ConflictIsStale
  <2>3. Attempt(c)'
    BY <2>1, <2>2 DEF Attempt
  <2>. QED
    BY <1>2, <2>1, <2>3 DEF Holding
<1>11. CASE CommitFails(c)
  <2>1. pc[c] = "dispatching" /\ pc'[c] = "failed" /\ Same /\ UNCHANGED stream
    BY <1>11 DEF CommitFails, TypeOK
  <2>2. Attempt(c)'
    BY <2>1 DEF Attempt
  <2>. QED
    BY <1>2, <2>1, <2>2 DEF Holding
<1>12. CASE Retry(c)
  <2>1. /\ pc[c] = "conflicted" /\ pc'[c] = "loading" /\ Same
        /\ UNCHANGED <<stream, offset>> /\ cache'[Slot(c)].state # "ready"
    BY <1>12 DEF Retry, Got, Lazy, Pending, TypeOK
  <2>2. Len(stream[Target[c]]) > offset[c]
    BY <1>3, <2>1 DEF Attempt
  <2>3. Attempt(c)'
    BY <1>3, <2>1, <2>2 DEF Attempt
  <2>. QED
    BY <1>2, <2>1, <2>3 DEF Holding
<1>13. ~(ForceCommit(c) \/ ForceCommitFails(c) \/ ForceDispatch(c))
  BY ConstantsAssumption DEF ForceCommit, ForceCommitFails, ForceDispatch, HistoryInv, NothingForced,
                             RetryDecision, TypeOK
<1>. QED
  BY <1>4, <1>5, <1>6, <1>7, <1>8, <1>9, <1>10, <1>11, <1>12, <1>13 DEF Step

LEMMA Attempts == ~IgnoreAfterMaxRetries => (Spec => []AttemptInv)
<1>. SUFFICES ASSUME ~IgnoreAfterMaxRetries
              PROVE  Spec => []AttemptInv
  OBVIOUS
<1>1. Init => AttemptInv
  BY DEF Init, AttemptInv, Attempt
<1>2. TypeOK /\ TypeOK' /\ LockInv /\ HistoryInv /\ WrittenInv /\ AttemptInv /\ [Next]_vars => AttemptInv'
  <2>. SUFFICES ASSUME TypeOK, TypeOK', LockInv, HistoryInv, WrittenInv, AttemptInv, [Next]_vars
                PROVE  AttemptInv'
    OBVIOUS
  <2>. USE SlotType
  <2>1. \A d \in Commands : Len(stream[Target[d]]) >= Len(stream[Target[d]])
    BY LenProperties DEF TypeOK
  <2>2. ASSUME NEW c \in Commands, Execute(c)
        PROVE  AttemptInv'
    <3>1. /\ UNCHANGED <<stream, attempt, offset, batch>> /\ pc[c] = "idle"
          /\ \A d \in Commands : d # c => pc'[d] = pc[d]
          /\ pc'[c] \in {"locked", "queued"}
          /\ cache' = [cache EXCEPT ![Slot(c)] = Asserted(@)]
      BY <2>2 DEF Execute, TypeOK
    <3>2. \A e : Asserted(e) = e \/ (e.state # "ready" /\ Asserted(e).state # "ready")
      BY DEF Asserted, Got, Pending
    <3>3. \A s \in Slots : cache'[s] = cache[s] \/ (cache[s].state # "ready" /\ cache'[s].state # "ready")
      BY <3>1, <3>2 DEF TypeOK
    <3>4. Attempt(c)'
      BY <3>1 DEF AttemptInv, Attempt
    <3>5. ASSUME NEW d \in Commands, d # c PROVE Attempt(d)'
      BY <2>1, <3>1, <3>3, <3>5, AttemptStays
    <3>. QED
      BY <3>4, <3>5 DEF AttemptInv
  <2>3. ASSUME NEW c \in Commands, Acquire(c)
        PROVE  AttemptInv'
    <3>1. /\ UNCHANGED <<stream, cache, attempt, offset, batch>> /\ pc[c] = "queued"
          /\ \A d \in Commands : d # c => pc'[d] = pc[d]
          /\ pc'[c] = "locked"
      BY <2>3 DEF Acquire, TypeOK
    <3>2. Attempt(c)'
      BY <3>1 DEF AttemptInv, Attempt
    <3>3. ASSUME NEW d \in Commands, d # c PROVE Attempt(d)'
      BY <2>1, <3>1, <3>3, AttemptStays
    <3>. QED
      BY <3>2, <3>3 DEF AttemptInv
  <2>4. ASSUME NEW c \in Commands, Land(c)
        PROVE  AttemptInv'
    <3>1. /\ UNCHANGED <<cache, attempt, offset, batch>> /\ Store(c)
          /\ \A d \in Commands : d # c => pc'[d] = pc[d]
          /\ pc'[c] = "lost"
      BY <2>4 DEF Land, TypeOK
    <3>2. Attempt(c)'
      BY <3>1 DEF Attempt
    <3>3. \A d \in Commands : Len(stream'[Target[d]]) >= Len(stream[Target[d]])
      BY <3>1, StorePositions DEF WrittenInv
    <3>4. ASSUME NEW d \in Commands, d # c PROVE Attempt(d)'
      BY <3>1, <3>3, <3>4, AttemptStays
    <3>. QED
      BY <3>2, <3>4 DEF AttemptInv
  <2>5. ASSUME NEW s \in Slots, Restore(s) \/ RestoreFails(s)
        PROVE  AttemptInv'
    <3>1. /\ UNCHANGED <<stream, pc, attempt, offset, batch>>
          /\ cache[s].state # "ready"
          /\ \A r \in Slots : r # s => cache'[r] = cache[r]
          /\ cache'[s].state # "ready" \/ cache'[s].hist = stream[s[2]]
      BY <2>5 DEF Restore, RestoreFails, Ready, Broken, TypeOK
    <3>2. ASSUME NEW d \in Commands PROVE Attempt(d)'
      <4>1. CASE Slot(d) = s
        <5>1. Target[d] = s[2]
          BY <4>1
        <5>. QED
          BY <2>1, <3>1, <4>1, <5>1, AttemptStays
      <4>2. CASE Slot(d) # s
        BY <2>1, <3>1, <4>2, AttemptStays
      <4>. QED
        BY <4>1, <4>2
    <3>. QED
      BY <3>2 DEF AttemptInv
  <2>6. ASSUME NEW p \in Procs, Crash(p)
        PROVE  AttemptInv'
    <3>1. UNCHANGED <<stream, attempt, offset, batch>>
      BY <2>6 DEF Crash
    <3>2. ASSUME NEW d \in Commands PROVE Attempt(d)'
      <4>1. CASE pc'[d] = pc[d]
        <5>1. cache'[Slot(d)] = cache[Slot(d)] \/ pc[d] \notin InFlight
          BY <2>6, <4>1 DEF Crash, InFlight, Holding
        <5>2. Attempt(d)
          BY DEF AttemptInv
        <5>3. CASE cache'[Slot(d)] = cache[Slot(d)]
          BY <2>1, <3>1, <4>1, <5>3, AttemptStays
        <5>4. CASE pc[d] \notin InFlight
          BY <3>1, <4>1, <5>2, <5>4 DEF Attempt, InFlight, Holding
        <5>. QED
          BY <5>1, <5>3, <5>4
      <4>2. CASE pc[d] = "dispatching" /\ pc'[d] = "adrift"
        BY <3>1, <4>2 DEF AttemptInv, Attempt
      <4>3. CASE pc'[d] \in {"lost", "forcedAdrift"}
        BY <4>3 DEF Attempt
      <4>. QED
        BY <2>6, <4>1, <4>2, <4>3 DEF Crash
    <3>. QED
      BY <3>2 DEF AttemptInv
  <2>7. CASE UNCHANGED vars
    BY <2>7 DEF vars, AttemptInv, Attempt, Slot
  <2>. QED
    BY <2>2, <2>3, <2>4, <2>5, <2>6, <2>7, StepAttempts DEF Next, Quiescent
<1>. QED
  BY <1>1, <1>2, TypeCorrect, Locking, History, Written, PTL DEF Spec

\* The steps of execute() keep, drop or extend what the cached object knows.
LEMMA StepKnown ==
  ASSUME TypeOK, HistoryInv, WrittenInv, AttemptInv, KnownInv, ~IgnoreAfterMaxRetries,
         NEW c \in Commands, Execute(c) \/ Emit(c) \/ Step(c) \/ Land(c)
  PROVE  KnownInv'
<1>. USE SlotType
<1>1. ASSUME UNCHANGED stream,
             \A d \in Commands : d # c => pc'[d] = pc[d],
             \A s \in Slots :
               \/ cache'[s] = cache[s]
               \/ cache'[s].state # "ready"
               \/ cache[s].state = "ready" /\ CommandsOf(cache[s].hist) \subseteq CommandsOf(cache'[s].hist),
             \/ pc'[c] \notin {"done", "rejected"}
             \/ Positions(c) = {}
             \/ cache'[Slot(c)].state # "ready"
             \/ c \in CommandsOf(cache'[Slot(c)].hist)
      PROVE  KnownInv'
  <2>1. \A d \in Commands : Positions(d)' = Positions(d)
    BY <1>1 DEF Positions
  <2>. QED
    BY <1>1, <2>1, KnownStays
<1>2. CASE Execute(c)
  <2>1. /\ UNCHANGED stream
        /\ \A d \in Commands : d # c => pc'[d] = pc[d]
        /\ pc'[c] \in {"locked", "queued"}
        /\ cache' = [cache EXCEPT ![Slot(c)] = Asserted(@)]
    BY <1>2 DEF Execute, TypeOK
  <2>2. \A e : Asserted(e) = e \/ Asserted(e).state # "ready"
    BY DEF Asserted, Got, Pending
  <2>3. \A s \in Slots : cache'[s] = cache[s] \/ cache'[s].state # "ready"
    BY <2>1, <2>2 DEF TypeOK
  <2>. QED
    BY <1>1, <2>1, <2>3
<1>3. CASE Emit(c)
  <2>. DEFINE h == cache[Slot(c)].hist
              e == [cmd |-> c, version |-> Version(h), seen |-> CommandsOf(h) \ {c}]
  <2>1. /\ UNCHANGED <<stream, pc>>
        /\ \A s \in Slots : s # Slot(c) => cache'[s] = cache[s]
        /\ cache'[Slot(c)].state = cache[Slot(c)].state
        /\ cache'[Slot(c)].hist = Append(h, e)
        /\ h \in Seq(Event)
        /\ pc[c] = "handling"
    BY <1>3 DEF Emit, TypeOK, Entry
  <2>2. CommandsOf(h) \subseteq CommandsOf(Append(h, e))
    <3>1. \A i \in DOMAIN h : i \in DOMAIN Append(h, e) /\ Append(h, e)[i] = h[i]
      BY <2>1
    <3>. QED
      BY <3>1 DEF CommandsOf
  <2>. HIDE DEF e
  <2>3. \A s \in Slots :
          \/ cache'[s] = cache[s]
          \/ cache'[s].state # "ready"
          \/ cache[s].state = "ready" /\ CommandsOf(cache[s].hist) \subseteq CommandsOf(cache'[s].hist)
    BY <2>1, <2>2
  <2>4. pc'[c] \notin {"done", "rejected"}
    BY <2>1
  <2>. QED
    BY <1>1, <2>1, <2>3, <2>4
<1>4. CASE Acquire(c) \/ Handle(c) \/ Dispatch(c) \/ CommitConflicts(c) \/ CommitFails(c)
  <2>1. /\ UNCHANGED <<stream, cache>>
        /\ \A d \in Commands : d # c => pc'[d] = pc[d]
        /\ pc'[c] \notin {"done", "rejected"}
    BY <1>4 DEF Acquire, Handle, Dispatch, CommitConflicts, CommitFails, TypeOK
  <2>. QED
    BY <1>1, <2>1
<1>5. CASE Get(c) \/ Retry(c)
  <2>1. /\ UNCHANGED stream
        /\ \A d \in Commands : d # c => pc'[d] = pc[d]
        /\ pc'[c] = "loading"
        /\ \A s \in Slots : s # Slot(c) => cache'[s] = cache[s]
        /\ cache'[Slot(c)] \in {Got(cache[Slot(c)]), Got(Lazy)}
    BY <1>5 DEF Get, Retry, TypeOK
  <2>2. \A e : Got(e) = e \/ Got(e).state # "ready"
    BY DEF Got, Pending
  <2>3. Got(Lazy).state # "ready"
    BY DEF Got, Lazy, Pending
  <2>4. \A s \in Slots : cache'[s] = cache[s] \/ cache'[s].state # "ready"
    BY <2>1, <2>2, <2>3
  <2>. QED
    BY <1>1, <2>1, <2>4
<1>6. ASSUME UNCHANGED stream, NEW entry, NEW how, Leave(c, entry, how),
             entry.state = "ready" =>
               /\ entry = cache[Slot(c)]
               /\ Positions(c) = {} \/ c \in CommandsOf(entry.hist)
      PROVE  KnownInv'
  <2>1. /\ \A d \in Commands : d # c => pc'[d] = pc[d]
        /\ \A s \in Slots : s # Slot(c) => cache'[s] = cache[s]
        /\ cache'[Slot(c)] = entry \/ cache'[Slot(c)].state # "ready"
    BY <1>6 DEF Leave, Absent, TypeOK
  <2>2. \A s \in Slots : cache'[s] = cache[s] \/ cache'[s].state # "ready"
    BY <1>6, <2>1
  <2>3. \/ Positions(c) = {}
        \/ cache'[Slot(c)].state # "ready"
        \/ c \in CommandsOf(cache'[Slot(c)].hist)
    BY <1>6, <2>1
  <2>. QED
    BY <1>1, <1>6, <2>1, <2>2, <2>3
<1>7. CASE LoadingFails(c)
  BY <1>6, <1>7 DEF LoadingFails
<1>8. CASE HandlerFails(c) \/ GiveUp(c) \/ Reject(c)
  <2>1. Lazy.state # "ready"
    BY DEF Lazy
  <2>2. UNCHANGED stream /\ \E how : Leave(c, Lazy, how)
    BY <1>8 DEF HandlerFails, GiveUp, Reject
  <2>. QED
    BY <1>6, <2>1, <2>2
<1>9. CASE ReturnNothing(c)
  <2>1. Positions(c) = {}
    BY <1>9 DEF ReturnNothing, WrittenInv, Unwritten, Unstored
  <2>2. UNCHANGED stream /\ Leave(c, cache[Slot(c)], "done")
    BY <1>9 DEF ReturnNothing
  <2>. QED
    BY <1>6, <2>1, <2>2
<1>10. CASE Return(c)
  <2>1. c \in CommandsOf(cache[Slot(c)].hist)
    BY <1>10 DEF Return, AttemptInv, Attempt
  <2>2. UNCHANGED stream /\ Leave(c, cache[Slot(c)], "done")
    BY <1>10 DEF Return
  <2>. QED
    BY <1>6, <2>1, <2>2
<1>11. CASE Commit(c) \/ Land(c)
  <2>1. /\ Store(c) /\ UNCHANGED cache
        /\ \A d \in Commands : d # c => pc'[d] = pc[d]
        /\ pc'[c] \notin {"done", "rejected"}
    BY <1>11 DEF Commit, Land, TypeOK
  <2>2. \A d \in Commands : d # c => Positions(d)' = Positions(d)
    BY <2>1, StorePositions DEF WrittenInv
  <2>. QED
    BY <2>1, <2>2, KnownStays
<1>12. ~(ForceCommit(c) \/ ForceCommitFails(c) \/ ForceDispatch(c) \/ RejectForced(c))
  BY ConstantsAssumption DEF ForceCommit, ForceCommitFails, ForceDispatch, RejectForced, HistoryInv,
                             NothingForced, RetryDecision, TypeOK
<1>. QED
  BY <1>2, <1>3, <1>4, <1>5, <1>7, <1>8, <1>9, <1>10, <1>11, <1>12 DEF Step

LEMMA Knowing == ~IgnoreAfterMaxRetries => (Spec => []KnownInv)
<1>. SUFFICES ASSUME ~IgnoreAfterMaxRetries
              PROVE  Spec => []KnownInv
  OBVIOUS
<1>1. Init => KnownInv
  BY DEF Init, KnownInv, Known, Absent
<1>2. TypeOK /\ HistoryInv /\ WrittenInv /\ AttemptInv /\ KnownInv /\ [Next]_vars => KnownInv'
  <2>. SUFFICES ASSUME TypeOK, HistoryInv, WrittenInv, AttemptInv, KnownInv, [Next]_vars
                PROVE  KnownInv'
    OBVIOUS
  <2>1. ASSUME NEW s \in Slots, Restore(s) \/ RestoreFails(s)
        PROVE  KnownInv'
    <3>1. /\ UNCHANGED <<stream, pc>>
          /\ \A r \in Slots : r # s => cache'[r] = cache[r]
          /\ cache'[s].state = "ready" => cache'[s].hist = stream[s[2]]
      BY <2>1 DEF Restore, RestoreFails, Ready, Broken, TypeOK
    <3>2. SUFFICES ASSUME NEW r \in Slots, cache'[r].state = "ready", NEW d \in Commands, Slot(d) = r,
                          pc[d] \in {"done", "rejected"}, Positions(d) # {}
                   PROVE  d \in CommandsOf(cache'[r].hist)
      BY <3>1 DEF KnownInv, Known, Slot, Positions
    <3>3. CASE r = s
      <4>1. cache'[r].hist = stream[Target[d]]
        BY <3>1, <3>2, <3>3, SlotType
      <4>. QED
        BY <3>2, <4>1 DEF Positions, CommandsOf
    <3>4. CASE r # s
      BY <3>1, <3>2, <3>4 DEF KnownInv, Known
    <3>. QED
      BY <3>3, <3>4
  <2>2. ASSUME NEW p \in Procs, Crash(p)
        PROVE  KnownInv'
    <3>1. UNCHANGED stream
      BY <2>2 DEF Crash
    <3>2. \A d \in Commands : pc'[d] \in {"done", "rejected"} => pc'[d] = pc[d]
      BY <2>2 DEF Crash
    <3>3. \A r \in Slots : cache'[r] = cache[r] \/ cache'[r].state # "ready"
      BY <2>2 DEF Crash, Absent
    <3>. QED
      BY <3>1, <3>2, <3>3 DEF KnownInv, Known, Slot, Positions
  <2>3. CASE UNCHANGED vars
    BY <2>3 DEF vars, KnownInv, Known, Slot, Positions
  <2>. QED
    BY <2>1, <2>2, <2>3, StepKnown DEF Next, Quiescent
<1>. QED
  BY <1>1, <1>2, TypeCorrect, History, Written, Attempts, PTL DEF Spec

\* A command begins to be handled in one way.
LEMMA OnlyHandle ==
  ASSUME TypeOK, [Next]_vars, NEW c \in Commands, pc[c] = "loading", pc'[c] = "handling"
  PROVE  Handle(c)
<1>1. pc' # pc
  OBVIOUS
<1>2. ASSUME NEW d \in Commands, Execute(d) \/ Land(d)
      PROVE  FALSE
  BY <1>2 DEF Execute, Land, TypeOK
<1>3. ASSUME NEW d \in Commands, Step(d)
      PROVE  Handle(c)
  <2>1. ASSUME NEW to, to # "handling", pc' = [pc EXCEPT ![d] = to]
        PROVE  FALSE
    BY <2>1 DEF TypeOK
  <2>2. ~(Acquire(d) \/ Get(d) \/ Dispatch(d) \/ CommitConflicts(d) \/ CommitFails(d) \/ ForceCommitFails(d))
    BY DEF Acquire, Get, Dispatch, CommitConflicts, CommitFails, ForceCommitFails, TypeOK
  <2>3. ~(Commit(d) \/ ForceCommit(d) \/ Retry(d) \/ ForceDispatch(d))
    BY DEF Commit, ForceCommit, Retry, ForceDispatch, TypeOK
  <2>4. ~(LoadingFails(d) \/ HandlerFails(d) \/ ReturnNothing(d) \/ Return(d))
    BY DEF LoadingFails, HandlerFails, ReturnNothing, Return, Leave, TypeOK
  <2>5. ~(GiveUp(d) \/ Reject(d) \/ RejectForced(d))
    BY DEF GiveUp, Reject, RejectForced, Leave, TypeOK
  <2>6. Handle(d)
    BY <1>3, <2>2, <2>3, <2>4, <2>5 DEF Step
  <2>7. d = c
    BY <2>6 DEF Handle, TypeOK
  <2>. QED
    BY <2>6, <2>7
<1>4. ASSUME NEW p \in Procs, Crash(p)
      PROVE  FALSE
  BY <1>4 DEF Crash
<1>5. /\ \A d \in Commands : ~Emit(d)
      /\ \A s \in Slots : ~(Restore(s) \/ RestoreFails(s))
      /\ ~(UNCHANGED vars)
  BY <1>1 DEF Emit, Restore, RestoreFails, vars
<1>. QED
  BY <1>2, <1>3, <1>4, <1>5 DEF Next, Quiescent

\* A retry is handled on a longer history than the attempt that met a conflict.
THEOREM RetriesAreFresher == ~IgnoreAfterMaxRetries => (Spec => RetryStartsFresher)
<1>. SUFFICES ASSUME ~IgnoreAfterMaxRetries
              PROVE  Spec => RetryStartsFresher
  OBVIOUS
<1>. DEFINE Fresher == \A c \in Commands :
              pc[c] = "loading" /\ pc'[c] = "handling" /\ attempt[c] > 0 => offset'[c] > offset[c]
<1>1. TypeOK /\ AttemptInv /\ [Next]_vars => Fresher
  <2>. SUFFICES ASSUME TypeOK, AttemptInv, [Next]_vars, NEW c \in Commands,
                       pc[c] = "loading", pc'[c] = "handling", attempt[c] > 0
                PROVE  offset'[c] > offset[c]
    OBVIOUS
  <2>1. Handle(c)
    BY OnlyHandle
  <2>2. cache[Slot(c)].state = "ready" /\ offset'[c] = Len(cache[Slot(c)].hist)
    BY <2>1 DEF Handle, TypeOK
  <2>. QED
    BY <2>2 DEF AttemptInv, Attempt
<1>2. TypeOK /\ AttemptInv /\ [Next]_vars => [Fresher]_vars
  BY <1>1
<1>. QED
  BY <1>2, TypeCorrect, Attempts, PTL DEF Spec, RetryStartsFresher

\* A command is handled on an object that has whatever is stored of the commands
\* that the process executed for the aggregate before.
THEOREM PredecessorsAreKnown == ~IgnoreAfterMaxRetries => (Spec => StartsAfterPredecessors)
<1>. SUFFICES ASSUME ~IgnoreAfterMaxRetries
              PROVE  Spec => StartsAfterPredecessors
  OBVIOUS
<1>. DEFINE Starts == \A c \in Commands :
              pc[c] = "loading" /\ pc'[c] = "handling" =>
                \A d \in Commands :
                  Slot(d) = Slot(c) /\ pc[d] \in {"done", "rejected"} /\ Positions(d) # {} =>
                    d \in CommandsOf(cache[Slot(c)].hist)
<1>1. TypeOK /\ KnownInv /\ [Next]_vars => Starts
  BY OnlyHandle, SlotType DEF Handle, KnownInv, Known
<1>2. TypeOK /\ KnownInv /\ [Next]_vars => [Starts]_vars
  BY <1>1
<1>. QED
  BY <1>2, TypeCorrect, Knowing, PTL DEF Spec, StartsAfterPredecessors

-----------------------------------------------------------------------------
(* The refinement of AggregateStore, without force-dispatching.            *)

\* What the callers of execute() know of a command, before and after a step.
LEMMA Outcomes ==
  ASSUME TypeOK, TypeOK', NEW c \in Commands
  PROVE  /\ pc[c] \in {"idle"} \cup InFlight => OutcomeOf(c) = "none"
         /\ pc[c] \in {"done", "exhausted", "rejected"} => OutcomeOf(c) = pc[c]
         /\ pc[c] \in {"lost"} \cup Adrift => OutcomeOf(c) = "lost"
         /\ pc'[c] \in {"idle"} \cup InFlight => OutcomeOf(c)' = "none"
         /\ pc'[c] \in {"done", "exhausted", "rejected"} => OutcomeOf(c)' = pc'[c]
         /\ pc'[c] \in {"lost"} \cup Adrift => OutcomeOf(c)' = "lost"
  BY DEF OutcomeOf, InFlight, Holding, Adrift

\* A step that ends no command, or only moves what a crash has left behind, and
\* gives no caller anything is not seen by anyone but the storage.
LEMMA Unseen ==
  ASSUME TypeOK, TypeOK',
         \A d \in Commands :
           /\ \/ pc'[d] = pc[d]
              \/ pc[d] \in {"idle"} \cup InFlight /\ pc'[d] \in {"idle"} \cup InFlight
              \/ pc[d] \in Adrift /\ pc'[d] = "lost"
           /\ pc[d] = "done" => batch'[d] = batch[d]
  PROVE  /\ [d \in Commands |-> OutcomeOf(d)]' = [d \in Commands |-> OutcomeOf(d)]
         /\ [d \in Commands |-> ReplyOf(d)]' = [d \in Commands |-> ReplyOf(d)]
<1>1. ASSUME NEW d \in Commands
      PROVE  OutcomeOf(d)' = OutcomeOf(d)
  <2>1. CASE pc'[d] = pc[d]
    BY <2>1 DEF OutcomeOf
  <2>2. CASE pc[d] \in {"idle"} \cup InFlight /\ pc'[d] \in {"idle"} \cup InFlight
    BY <2>2, Outcomes
  <2>3. CASE pc[d] \in Adrift /\ pc'[d] = "lost"
    BY <2>3, Outcomes
  <2>. QED
    BY <2>1, <2>2, <2>3
<1>2. ASSUME NEW d \in Commands
      PROVE  ReplyOf(d)' = ReplyOf(d)
  <2>1. pc'[d] = "done" <=> pc[d] = "done"
    BY DEF InFlight, Holding, Adrift
  <2>. QED
    BY <2>1 DEF ReplyOf
<1>. QED
  BY <1>1, <1>2

\* The events of a command in the stream are those at its positions.
LEMMA EventsAtPositions ==
  ASSUME NEW c \in Commands
  PROVE  Promise!EventsOf(c) = {stream[Target[c]][i] : i \in Positions(c)}
  BY DEF Promise!EventsOf, Positions

\* commitEvents() stores, in one step, a batch that was decided on the whole
\* stream.
LEMMA CommitImplements ==
  ASSUME TypeOK, TypeOK', HistoryInv, WrittenInv, AttemptInv, NEW c \in Commands,
         Commit(c) \/ (Land(c) /\ pc[c] = "adrift")
  PROVE  Promise!Commit(c)
<1>. DEFINE s == stream[Target[c]]
            b == batch[c]
            n == Len(b)
<1>. USE SlotType
<1>1. /\ pc[c] \in {"dispatching", "adrift"} /\ ~Conflict(c) /\ Store(c) /\ UNCHANGED batch
      /\ \A d \in Commands : d # c => pc'[d] = pc[d]
      /\ pc[c] = "dispatching" => pc'[c] \in {"committed", "failed"}
      /\ pc[c] = "adrift" => pc'[c] = "lost"
  BY DEF Commit, Land, TypeOK
<1>2. /\ s \in Seq(Event) /\ b \in Seq(Event) /\ n \in Nat /\ Len(s) \in Nat
      /\ DOMAIN s = 1..Len(s) /\ DOMAIN b = 1..n /\ Len(s) = offset[c]
  BY <1>1, LenProperties, NoConflict DEF TypeOK
<1>3. BatchOf(c)
  BY <1>1 DEF HistoryInv, BatchInv
<1>4. [d \in Commands |-> OutcomeOf(d)][c] \in {"none", "lost"}
  BY <1>1, Outcomes DEF InFlight, Holding, Adrift
<1>5. Promise!EventsOf(c) = {}
  <2>1. Positions(c) = {}
    BY <1>1 DEF WrittenInv, Unwritten, Unstored
  <2>. QED
    BY <2>1, EventsAtPositions
<1>6. n \in 1..MaxEvents
  <2>1. n > 0
    BY <1>3 DEF BatchOf
  <2>2. n <= MaxEvents
    BY <1>1 DEF AttemptInv, Attempt
  <2>. QED
    BY <1>2, <2>1, <2>2, ConstantsAssumption
<1>7. Promise!CommandsOf(s) \ {c} = Seen(s, offset[c])
  <2>1. \A i \in 1..Len(s) : s[i].cmd # c
    BY <1>1 DEF HistoryInv, UnstoredInv, Unstored
  <2>2. Promise!CommandsOf(s) = Seen(s, offset[c])
    BY <1>2 DEF Promise!CommandsOf, Seen
  <2>. QED
    BY <1>2, <2>1, <2>2 DEF Seen
<1>8. ASSUME NEW i \in 1..n
      PROVE  b[i] = [cmd     |-> c,
                     version |-> Len(s) + i - 1,
                     seen    |-> Promise!CommandsOf(s) \ {c}]
  <2>1. b[i] \in Event
    BY <1>2, ElementOfSeq
  <2>2. Emitted(c, b[i], offset[c] + i)
    BY <1>3 DEF BatchOf
  <2>3. /\ b[i].cmd = c
        /\ b[i].version = Len(s) + i - 1
        /\ b[i].seen = Promise!CommandsOf(s) \ {c}
    BY <1>2, <1>7, <2>2 DEF Emitted
  <2>4. \A e \in Event : e = [cmd |-> e.cmd, version |-> e.version, seen |-> e.seen]
    BY DEF Event
  <2>. QED
    BY <2>1, <2>3, <2>4
<1>9. b = Promise!Batch(c, s, n)
  <2>1. b = [i \in 1..n |-> b[i]]
    BY <1>2
  <2>2. \A i \in 1..n : b[i] = Promise!Batch(c, s, n)[i]
    BY <1>8 DEF Promise!Batch
  <2>3. Promise!Batch(c, s, n) = [i \in 1..n |-> Promise!Batch(c, s, n)[i]]
    BY DEF Promise!Batch
  <2>. HIDE DEF b, n
  <2>. QED
    BY <2>1, <2>2, <2>3
<1>10. stream' = [stream EXCEPT ![Target[c]] = @ \o Promise!Batch(c, @, n)]
  BY <1>1, <1>9 DEF Store
<1>11. /\ [d \in Commands |-> OutcomeOf(d)]' = [d \in Commands |-> OutcomeOf(d)]
       /\ [d \in Commands |-> ReplyOf(d)]' = [d \in Commands |-> ReplyOf(d)]
  BY <1>1, Unseen DEF InFlight, Holding, Adrift
<1>. QED
  BY <1>4, <1>5, <1>6, <1>10, <1>11 DEF Promise!Commit

\* The end of an execution changes what is known of that command only.
LEMMA Ended ==
  ASSUME TypeOK, TypeOK', NEW c \in Commands, pc[c] \in InFlight,
         NEW how \in {"done", "exhausted", "rejected"}, pc' = [pc EXCEPT ![c] = how],
         \A d \in Commands : d # c => batch'[d] = batch[d]
  PROVE  /\ [d \in Commands |-> OutcomeOf(d)][c] = "none"
         /\ [d \in Commands |-> OutcomeOf(d)]' = [[d \in Commands |-> OutcomeOf(d)] EXCEPT ![c] = how]
         /\ [d \in Commands |-> ReplyOf(d)]' =
              [[d \in Commands |-> ReplyOf(d)] EXCEPT
                 ![c] = IF how = "done" THEN {batch'[c][i] : i \in DOMAIN batch'[c]} ELSE {}]
<1>1. pc'[c] = how /\ \A d \in Commands : d # c => pc'[d] = pc[d]
  BY DEF TypeOK
<1>2. OutcomeOf(c) = "none" /\ OutcomeOf(c)' = how
  <2>1. pc[c] \in {"idle"} \cup InFlight /\ pc'[c] \in {"done", "exhausted", "rejected"}
    BY <1>1
  <2>2. OutcomeOf(c) = "none" /\ OutcomeOf(c)' = pc'[c]
    BY <2>1, Outcomes
  <2>. QED
    BY <1>1, <2>2
<1>3. ASSUME NEW d \in Commands, d # c
      PROVE  OutcomeOf(d)' = OutcomeOf(d) /\ ReplyOf(d)' = ReplyOf(d)
  <2>1. pc'[d] = pc[d] /\ batch'[d] = batch[d]
    BY <1>1, <1>3
  <2>2. pc[d] \in {"idle", "done", "exhausted", "rejected", "lost"} \cup InFlight \cup Adrift
    BY DEF TypeOK, Settled, Adrift
  <2>3. OutcomeOf(d)' = OutcomeOf(d)
    BY <2>1, <2>2, Outcomes
  <2>4. ReplyOf(d)' = ReplyOf(d)
    BY <2>1 DEF ReplyOf
  <2>. QED
    BY <2>3, <2>4
<1>4. ReplyOf(c)' = IF how = "done" THEN {batch'[c][i] : i \in DOMAIN batch'[c]} ELSE {}
  BY <1>1 DEF ReplyOf
<1>. QED
  BY <1>2, <1>3, <1>4

\* The caller is given the events that are in the stream, or none if the
\* handler emitted none.
LEMMA ReturnImplements ==
  ASSUME TypeOK, TypeOK', WrittenInv, NEW c \in Commands, Return(c) \/ ReturnNothing(c)
  PROVE  Promise!Return(c)
<1>1. /\ pc[c] \in InFlight /\ pc' = [pc EXCEPT ![c] = "done"] /\ UNCHANGED stream
      /\ \A d \in Commands : d # c => batch'[d] = batch[d]
  BY DEF Return, ReturnNothing, Leave, TypeOK, InFlight, Holding
<1>2. {batch'[c][i] : i \in DOMAIN batch'[c]} = Promise!EventsOf(c)
  <2>1. CASE Return(c)
    <3>1. batch' = batch /\ DOMAIN batch[c] = 1..Len(batch[c]) /\ Len(batch[c]) \in Nat
      BY <2>1, LenProperties DEF Return, TypeOK
    <3>2. PICK k \in 0..Len(stream[Target[c]]) : WholeAt(c, k)
      BY <2>1 DEF Return, WrittenInv, Whole
    <3>. DEFINE n == Len(batch[c])
    <3>. HIDE DEF n
    <3>3. \A i \in (k + 1)..(k + n) : i - k \in 1..n /\ i = k + (i - k)
      BY <3>1 DEF n
    <3>4. \A j \in 1..n : k + j \in (k + 1)..(k + n)
      BY <3>1 DEF n
    <3>5. /\ Positions(c) = (k + 1)..(k + n)
          /\ \A j \in 1..n : stream[Target[c]][k + j] = batch[c][j]
      BY <3>2 DEF WholeAt, n
    <3>6. {stream[Target[c]][i] : i \in Positions(c)} = {batch[c][j] : j \in 1..n}
      BY <3>3, <3>4, <3>5
    <3>. QED
      BY <3>1, <3>6, EventsAtPositions DEF n
  <2>2. CASE ReturnNothing(c)
    <3>1. batch'[c] = <<>>
      BY <2>2 DEF ReturnNothing, TypeOK
    <3>2. Positions(c) = {}
      BY <2>2 DEF ReturnNothing, WrittenInv, Unwritten, Unstored
    <3>. QED
      BY <3>1, <3>2, EventsAtPositions
  <2>. QED
    BY <2>1, <2>2
<1>3. /\ [d \in Commands |-> OutcomeOf(d)][c] = "none"
      /\ [d \in Commands |-> OutcomeOf(d)]' = [[d \in Commands |-> OutcomeOf(d)] EXCEPT ![c] = "done"]
      /\ [d \in Commands |-> ReplyOf(d)]' =
           [[d \in Commands |-> ReplyOf(d)] EXCEPT ![c] = {batch'[c][i] : i \in DOMAIN batch'[c]}]
  BY <1>1, Ended
<1>. QED
  BY <1>1, <1>2, <1>3 DEF Promise!Return

\* A ConcurrencyError reaches the caller of a command of which nothing is stored;
\* any other error leaves the caller without an answer.
LEMMA ErrorImplements ==
  ASSUME TypeOK, TypeOK', WrittenInv, NEW c \in Commands,
         GiveUp(c) \/ LoadingFails(c) \/ HandlerFails(c) \/ Reject(c)
  PROVE  Promise!GiveUp(c) \/ Promise!Fail(c)
<1>1. PICK how \in {"exhausted", "rejected"} :
        /\ pc[c] \in InFlight /\ pc' = [pc EXCEPT ![c] = how] /\ UNCHANGED <<stream, batch>>
        /\ how = "exhausted" => pc[c] = "conflicted"
  BY DEF GiveUp, LoadingFails, HandlerFails, Reject, Leave, InFlight, Holding
<1>2. /\ [d \in Commands |-> OutcomeOf(d)][c] = "none"
      /\ [d \in Commands |-> OutcomeOf(d)]' = [[d \in Commands |-> OutcomeOf(d)] EXCEPT ![c] = how]
  BY <1>1, Ended
<1>3. [d \in Commands |-> ReplyOf(d)]' = [d \in Commands |-> ReplyOf(d)]
  <2>1. \A d \in Commands : pc'[d] = "done" <=> pc[d] = "done"
    BY <1>1 DEF TypeOK, InFlight, Holding
  <2>. QED
    BY <1>1, <2>1 DEF ReplyOf
<1>4. CASE how = "exhausted"
  <2>1. Promise!EventsOf(c) = {}
    BY <1>1, <1>4, EventsAtPositions DEF WrittenInv, Unwritten, Unstored
  <2>. QED
    BY <1>1, <1>2, <1>3, <1>4, <2>1 DEF Promise!GiveUp
<1>5. CASE how = "rejected"
  BY <1>1, <1>2, <1>3, <1>5 DEF Promise!Fail
<1>. QED
  BY <1>4, <1>5

\* A crash loses the commands in flight in the process, and nothing else.
LEMMA CrashImplements ==
  ASSUME TypeOK, TypeOK', NEW p \in Procs, Crash(p)
  PROVE  \E S \in SUBSET Commands : Promise!Crash(S)
<1>. DEFINE S == {c \in Commands : At[c] = p /\ pc[c] \in InFlight}
<1>1. /\ UNCHANGED <<stream, batch>>
      /\ \A d \in S : pc'[d] \in {"lost"} \cup Adrift
      /\ \A d \in Commands : d \notin S => pc'[d] = pc[d]
  BY DEF Crash, Adrift
<1>2. \A d \in S : OutcomeOf(d) = "none" /\ OutcomeOf(d)' = "lost"
  BY <1>1, Outcomes
<1>3. \A d \in Commands : d \notin S => OutcomeOf(d)' = OutcomeOf(d)
  BY <1>1 DEF OutcomeOf
<1>4. \A d \in Commands : ReplyOf(d)' = ReplyOf(d)
  BY <1>1 DEF ReplyOf, Adrift, InFlight, Holding
<1>. HIDE DEF S
<1>5. [d \in Commands |-> OutcomeOf(d)]' =
        [d \in Commands |-> IF d \in S THEN "lost" ELSE [e \in Commands |-> OutcomeOf(e)][d]]
  BY <1>2, <1>3 DEF S
<1>6. Promise!Crash(S)
  BY <1>1, <1>2, <1>4, <1>5 DEF Promise!Crash, S
<1>7. S \in SUBSET Commands
  BY DEF S
<1>. QED
  BY <1>6, <1>7

\* The handlers, with their caches, locks, retries and crashes, implement the
\* store that AggregateStore describes: a command takes effect at most once, in
\* one step and decided on the whole stream, and its caller is told the truth.
THEOREM Refinement == ~IgnoreAfterMaxRetries => (Spec => ImplementsAggregateStore)
<1>. SUFFICES ASSUME ~IgnoreAfterMaxRetries
              PROVE  Spec => ImplementsAggregateStore
  OBVIOUS
<1>1. Init => Promise!Init
  <2>. SUFFICES ASSUME Init PROVE Promise!Init
    OBVIOUS
  <2>1. \A c \in Commands : pc[c] = "idle"
    BY DEF Init
  <2>2. \A c \in Commands : OutcomeOf(c) = "none" /\ ReplyOf(c) = {}
    BY <2>1 DEF OutcomeOf, ReplyOf, Adrift, InFlight, Holding
  <2>. QED
    BY <2>2 DEF Init, Promise!Init
<1>2. /\ TypeOK /\ TypeOK' /\ LockInv /\ HistoryInv /\ WrittenInv /\ AttemptInv
      /\ [Next]_vars
      => [Promise!Next]_(Promise!vars)
  <2>. SUFFICES ASSUME TypeOK, TypeOK', LockInv, HistoryInv, WrittenInv, AttemptInv, [Next]_vars
                PROVE  Promise!Next \/ UNCHANGED Promise!vars
    OBVIOUS
  <2>1. ASSUME UNCHANGED stream,
               \A d \in Commands :
                 /\ \/ pc'[d] = pc[d]
                    \/ pc[d] \in {"idle"} \cup InFlight /\ pc'[d] \in {"idle"} \cup InFlight
                    \/ pc[d] \in Adrift /\ pc'[d] = "lost"
                 /\ pc[d] = "done" => batch'[d] = batch[d]
        PROVE  UNCHANGED Promise!vars
    BY <2>1, Unseen DEF Promise!vars
  <2>2. ASSUME NEW c \in Commands, Execute(c) \/ Emit(c)
        PROVE  UNCHANGED Promise!vars
    BY <2>1, <2>2 DEF Execute, Emit, TypeOK, InFlight, Holding
  <2>3. ASSUME NEW c \in Commands, Step(c)
        PROVE  Promise!Next \/ UNCHANGED Promise!vars
    <3>1. CASE Acquire(c) \/ Get(c) \/ Handle(c) \/ CommitConflicts(c) \/ CommitFails(c) \/ Retry(c)
      BY <2>1, <3>1 DEF Acquire, Get, Handle, CommitConflicts, CommitFails, Retry, TypeOK, InFlight, Holding
    <3>2. CASE Dispatch(c)
      BY <2>1, <3>2 DEF Dispatch, TypeOK, InFlight, Holding
    <3>3. CASE Commit(c)
      BY <3>3, CommitImplements DEF Promise!Next
    <3>4. CASE Return(c) \/ ReturnNothing(c)
      BY <3>4, ReturnImplements DEF Promise!Next
    <3>5. CASE GiveUp(c) \/ LoadingFails(c) \/ HandlerFails(c) \/ Reject(c)
      BY <3>5, ErrorImplements DEF Promise!Next
    <3>6. ~(ForceCommit(c) \/ ForceCommitFails(c) \/ ForceDispatch(c) \/ RejectForced(c))
      BY ConstantsAssumption DEF ForceCommit, ForceCommitFails, ForceDispatch, RejectForced, HistoryInv,
                                 NothingForced, RetryDecision, TypeOK
    <3>. QED
      BY <2>3, <3>1, <3>2, <3>3, <3>4, <3>5, <3>6 DEF Step
  <2>4. ASSUME NEW c \in Commands, Land(c)
        PROVE  Promise!Next
    <3>1. pc[c] = "adrift"
      BY <2>4 DEF Land, HistoryInv, NothingForced
    <3>. QED
      BY <2>4, <3>1, CommitImplements DEF Promise!Next
  <2>5. ASSUME NEW s \in Slots, Restore(s) \/ RestoreFails(s)
        PROVE  UNCHANGED Promise!vars
    BY <2>1, <2>5 DEF Restore, RestoreFails
  <2>6. ASSUME NEW p \in Procs, Crash(p)
        PROVE  Promise!Next
    BY <2>6, CrashImplements DEF Promise!Next
  <2>7. CASE UNCHANGED vars
    BY <2>1, <2>7 DEF vars
  <2>. QED
    BY <2>2, <2>3, <2>4, <2>5, <2>6, <2>7 DEF Next, Quiescent
<1>. QED
  BY <1>1, <1>2, TypeCorrect, Locking, History, Written, Attempts, PTL
     DEF Spec, ImplementsAggregateStore, Promise!Spec
=============================================================================
