------------------------ MODULE MongoEventStorageProofs ------------------------
(***************************************************************************)
(* Proofs about MongoEventStorage, for any number of concurrent commits of  *)
(* any sizes, and any failures.                                             *)
(***************************************************************************)
EXTENDS MongoEventStorage, TLAPS

\* TypeOK is an invariant: an event never gets a negative version.
THEOREM TypeCorrect == Spec => []TypeOK
<1>1. Init => TypeOK
  BY ConstantsAssumption DEF Init, TypeOK
<1>2. TypeOK /\ [Next]_vars => TypeOK'
  <2>. SUFFICES ASSUME TypeOK, [Next]_vars
                PROVE  TypeOK'
    OBVIOUS
  <2>. USE ConstantsAssumption DEF TypeOK, Become, AtWork, Undoing, Settled
  <2>1. ASSUME NEW c \in Commits PROVE NextEvent(c) \in Event
    BY DEF NextEvent, Event
  <2>2. ASSUME NEW c \in Commits, Restore(c)
        PROVE  TypeOK'
    <3>1. base' \in [Commits -> Nat]
      BY <2>2 DEF Restore, Event
    <3>2. {e.of : e \in events} \subseteq Commits
      BY DEF Event
    <3>3. seen' \in [Commits -> SUBSET Commits]
      BY <2>2, <3>2 DEF Restore
    <3>. QED
      BY <2>2, <3>1, <3>3 DEF Restore
  <2>3. ASSUME NEW c \in Commits, Insert(c)
        PROVE  TypeOK'
    BY <2>1, <2>3 DEF Insert
  <2>4. ASSUME NEW c \in Commits, InsertConflicts(c)
        PROVE  TypeOK'
    <3>1. pc' \in [Commits -> {"idle"} \cup AtWork \cup Settled]
      BY <2>4 DEF InsertConflicts
    <3>. QED
      BY <2>4, <3>1 DEF InsertConflicts
  <2>5. ASSUME NEW c \in Commits, InsertFails(c)
        PROVE  TypeOK'
    <3>1. pc' \in [Commits -> {"idle"} \cup AtWork \cup Settled]
      BY <2>5 DEF InsertFails
    <3>. QED
      BY <2>1, <2>5, <3>1 DEF InsertFails, Fail
  <2>6. ASSUME NEW c \in Commits, Resolve(c)
        PROVE  TypeOK'
    BY <2>6 DEF Resolve
  <2>7. ASSUME NEW c \in Commits, Undo(c)
        PROVE  TypeOK'
    <3>1. pc' \in [Commits -> {"idle"} \cup AtWork \cup Settled]
      BY <2>7 DEF Undo, Outcome
    <3>. QED
      BY <2>7, <3>1 DEF Undo
  <2>8. ASSUME NEW c \in Commits, UndoFails(c) \/ Crash(c)
        PROVE  TypeOK'
    BY <2>8 DEF UndoFails, Crash, Fail
  <2>9. CASE UNCHANGED vars
    BY <2>9 DEF vars
  <2>. QED
    BY <2>2, <2>3, <2>4, <2>5, <2>6, <2>7, <2>8, <2>9 DEF Next, Quiescent
<1>. QED
  BY <1>1, <1>2, PTL DEF Spec

------------------------------------------------------------------------------
(* What a commit leaves in the collection.                                 *)
(*                                                                         *)
(* The two properties say what is there once a commit has ended. They hold  *)
(* because a commit that is under way has there exactly the events it knows *)
(* it has inserted, and every event sits at its version alone.              *)

\* The n-th event of a batch.
EventAt(c, n) == [of |-> c, n |-> n, version |-> base[c] + n - 1]

\* Every event is one of its batch, and those of a commit that has had no failed
\* insertion are the ones whose insertion was acknowledged.
BatchInv(c) ==
  /\ \A e \in Of(c) : e = EventAt(c, e.n)
  /\ pc[c] = "idle" => Of(c) = {} /\ inserted[c] = 0
  /\ pc[c] \in {"inserting", "conflicting", "committed"} =>
       /\ \A n \in 1..inserted[c] : EventAt(c, n) \in events
       /\ \A e \in Of(c) : e.n <= inserted[c]
  /\ pc[c] = "committed" => inserted[c] = Size[c]
  /\ pc[c] = "conflict" => Of(c) = {}

\* The unique index.
UniqueInv == \A e, f \in events : e.version = f.version => e = f

StorageInv == UniqueInv /\ \A c \in Commits : BatchInv(c)

\* A step of one commit touches no event of another and leaves it as it was.
LEMMA OthersUntouched ==
  ASSUME StorageInv, NEW c \in Commits,
         \A d \in Commits : d # c =>
           /\ pc'[d] = pc[d] /\ base'[d] = base[d] /\ inserted'[d] = inserted[d]
           /\ Of(d)' = Of(d),
         UniqueInv', BatchInv(c)'
  PROVE  StorageInv'
<1>. SUFFICES ASSUME NEW d \in Commits, d # c PROVE BatchInv(d)'
  BY DEF StorageInv
<1>1. BatchInv(d)
  BY DEF StorageInv
<1>2. \A n : EventAt(d, n)' = EventAt(d, n)
  BY DEF EventAt
<1>3. \A n : EventAt(d, n) \in events' <=> EventAt(d, n) \in events
  <2>1. \A n : EventAt(d, n).of = d
    BY DEF EventAt
  <2>2. \A e : e \in Of(d)' <=> e \in Of(d)
    OBVIOUS
  <2>. QED
    BY <2>1, <2>2 DEF Of
<1>. QED
  BY <1>1, <1>2, <1>3 DEF BatchInv

\* Inserting an event whose version is free keeps the versions unique, and is
\* invisible to the other commits.
LEMMA Insertion ==
  ASSUME TypeOK, StorageInv, NEW c \in Commits, ~Duplicate(NextEvent(c)),
         events' = events \cup {NextEvent(c)}
  PROVE  /\ UniqueInv'
         /\ Of(c)' = Of(c) \cup {NextEvent(c)}
         /\ \A d \in Commits : d # c => Of(d)' = Of(d)
BY DEF StorageInv, UniqueInv, Duplicate, NextEvent, Of

\* StorageInv is an invariant.
LEMMA Storage == Spec => []StorageInv
<1>1. Init => StorageInv
  BY DEF Init, StorageInv, UniqueInv, BatchInv, Of
<1>2. TypeOK /\ StorageInv /\ [Next]_vars => StorageInv'
  <2>. SUFFICES ASSUME TypeOK, StorageInv, [Next]_vars
                PROVE  StorageInv'
    OBVIOUS
  <2>1. ASSUME NEW c \in Commits, Restore(c)
        PROVE  StorageInv'
    <3>1. Of(c) = {} /\ inserted[c] = 0
      BY <2>1 DEF StorageInv, BatchInv, Restore
    <3>2. BatchInv(c)'
      BY <2>1, <3>1 DEF Restore, Become, BatchInv, Of, TypeOK
    <3>3. UniqueInv' /\ \A d \in Commits : Of(d)' = Of(d)
      BY <2>1 DEF Restore, StorageInv, UniqueInv, Of
    <3>. QED
      BY <2>1, <3>2, <3>3, OthersUntouched DEF Restore, Become, TypeOK
  <2>2. ASSUME NEW c \in Commits, Insert(c)
        PROVE  StorageInv'
    <3>1. /\ pc[c] = "inserting" /\ inserted[c] < Size[c] /\ inserted[c] \in Nat /\ base[c] \in Nat
          /\ inserted'[c] = inserted[c] + 1
          /\ UNCHANGED <<pc, base>>
      BY <2>2 DEF Insert, TypeOK
    <3>2. NextEvent(c) = EventAt(c, inserted[c] + 1)
      BY <3>1 DEF NextEvent, EventAt
    <3>3. BatchInv(c)
      BY DEF StorageInv
    <3>4. /\ UniqueInv'
          /\ Of(c)' = Of(c) \cup {NextEvent(c)}
          /\ events' = events \cup {NextEvent(c)}
          /\ \A d \in Commits : d # c => Of(d)' = Of(d)
      BY <2>2, Insertion DEF Insert
    <3>5. \A n : EventAt(c, n)' = EventAt(c, n)
      BY <3>1 DEF EventAt
    <3>6. NextEvent(c).n = inserted[c] + 1
      BY DEF NextEvent
    <3>7. \A e \in Of(c)' : e = EventAt(c, e.n) /\ e.n <= inserted[c] + 1
      <4>1. \A e \in Of(c) : e.n \in Nat
        BY DEF Of, TypeOK, Event
      <4>2. \A e \in Of(c) : e = EventAt(c, e.n) /\ e.n <= inserted[c] + 1
        BY <3>1, <3>3, <4>1 DEF BatchInv
      <4>3. NextEvent(c) = EventAt(c, NextEvent(c).n) /\ NextEvent(c).n <= inserted[c] + 1
        BY <3>1, <3>2, <3>6
      <4>. QED
        BY <3>4, <4>2, <4>3
    <3>8. \A n \in 1..(inserted[c] + 1) : EventAt(c, n) \in events'
      <4>. SUFFICES ASSUME NEW n \in 1..(inserted[c] + 1) PROVE EventAt(c, n) \in events'
        OBVIOUS
      <4>1. n \in 1..inserted[c] \/ n = inserted[c] + 1
        BY <3>1
      <4>2. \A m \in 1..inserted[c] : EventAt(c, m) \in events
        BY <3>1, <3>3 DEF BatchInv
      <4>. QED
        BY <3>2, <3>4, <4>1, <4>2
    <3>9. BatchInv(c)'
      BY <3>1, <3>5, <3>7, <3>8 DEF BatchInv
    <3>. QED
      BY <2>2, <3>4, <3>9, OthersUntouched DEF Insert, TypeOK
  <2>3. ASSUME NEW c \in Commits, InsertConflicts(c)
        PROVE  StorageInv'
    <3>1. UniqueInv' /\ \A d \in Commits : Of(d)' = Of(d)
      BY <2>3 DEF InsertConflicts, StorageInv, UniqueInv, Of
    <3>2. /\ pc[c] = "inserting" /\ UNCHANGED <<events, base, inserted>>
          /\ pc'[c] = IF inserted[c] = 0 THEN "conflict" ELSE "conflicting"
          /\ \A d \in Commits : d # c => pc'[d] = pc[d]
      BY <2>3 DEF InsertConflicts, Become, TypeOK
    <3>3. \A e \in Of(c) : e.n \in Nat \ {0}
      BY DEF Of, TypeOK, Event
    <3>4. inserted[c] = 0 => Of(c) = {}
      BY <3>2, <3>3 DEF StorageInv, BatchInv
    <3>5. \A n : EventAt(c, n)' = EventAt(c, n)
      BY <3>2 DEF EventAt
    <3>6. BatchInv(c)'
      BY <3>1, <3>2, <3>4, <3>5 DEF StorageInv, BatchInv
    <3>. QED
      BY <3>1, <3>2, <3>6, OthersUntouched
  <2>4. ASSUME NEW c \in Commits, InsertFails(c)
        PROVE  StorageInv'
    <3>1. /\ pc'[c] \in {"failed", "failing"} /\ UNCHANGED <<base, inserted>>
          /\ \A d \in Commits : d # c => pc'[d] = pc[d]
          /\ inserted[c] \in Nat /\ base[c] \in Nat
      BY <2>4 DEF InsertFails, Become, TypeOK
    <3>2. /\ UniqueInv'
          /\ Of(c)' \subseteq Of(c) \cup {NextEvent(c)}
          /\ \A d \in Commits : d # c => Of(d)' = Of(d)
      <4>1. CASE UNCHANGED events
        BY <4>1 DEF StorageInv, UniqueInv, Of
      <4>2. CASE ~Duplicate(NextEvent(c)) /\ events' = events \cup {NextEvent(c)}
        BY <4>2, Insertion
      <4>. QED
        BY <2>4, <4>1, <4>2 DEF InsertFails
    <3>3. NextEvent(c) = EventAt(c, NextEvent(c).n)
      BY <3>1 DEF NextEvent, EventAt
    <3>4. \A n : EventAt(c, n)' = EventAt(c, n)
      BY <3>1 DEF EventAt
    <3>5. BatchInv(c)'
      BY <3>1, <3>2, <3>3, <3>4 DEF StorageInv, BatchInv
    <3>. QED
      BY <3>1, <3>2, <3>5, OthersUntouched
  <2>5. ASSUME NEW c \in Commits, Undo(c)
        PROVE  StorageInv'
    <3>1. /\ pc[c] \in Undoing /\ UNCHANGED <<base, inserted>>
          /\ events' = {e \in events : e.of = c => e.n > inserted[c]}
          /\ pc'[c] = Outcome(c)
          /\ \A d \in Commits : d # c => pc'[d] = pc[d]
      BY <2>5 DEF Undo, Become, TypeOK
    <3>2. /\ UniqueInv'
          /\ Of(c)' \subseteq Of(c)
          /\ \A e \in Of(c)' : e.n > inserted[c]
          /\ \A d \in Commits : d # c => Of(d)' = Of(d)
      BY <3>1 DEF StorageInv, UniqueInv, Of
    <3>3. pc[c] = "conflicting" => Of(c)' = {}
      <4>1. \A e \in Of(c) : e.n \in Nat /\ inserted[c] \in Nat
        BY DEF Of, TypeOK, Event
      <4>. QED
        BY <3>2, <4>1 DEF StorageInv, BatchInv
    <3>4. \A n : EventAt(c, n)' = EventAt(c, n)
      BY <3>1 DEF EventAt
    <3>5. pc'[c] \in {"conflict", "failed"} /\ (pc'[c] = "conflict" => pc[c] = "conflicting")
      BY <3>1 DEF Outcome
    <3>6. BatchInv(c)'
      BY <3>2, <3>3, <3>4, <3>5 DEF StorageInv, BatchInv
    <3>. QED
      BY <3>1, <3>2, <3>6, OthersUntouched
  <2>6. ASSUME NEW c \in Commits, Resolve(c) \/ UndoFails(c) \/ Crash(c)
        PROVE  StorageInv'
    <3>1. /\ UNCHANGED <<events, base, inserted>>
          /\ \A d \in Commits : d # c => pc'[d] = pc[d]
          /\ \/ pc'[c] \in {"failed", "crashed"}
             \/ pc[c] = "inserting" /\ inserted[c] = Size[c] /\ pc'[c] = "committed"
      BY <2>6 DEF Resolve, UndoFails, Crash, Become, TypeOK
    <3>2. UniqueInv' /\ \A d \in Commits : Of(d)' = Of(d)
      BY <3>1 DEF StorageInv, UniqueInv, Of
    <3>3. \A n : EventAt(c, n)' = EventAt(c, n)
      BY <3>1 DEF EventAt
    <3>4. BatchInv(c)'
      BY <3>1, <3>2, <3>3 DEF StorageInv, BatchInv
    <3>. QED
      BY <3>1, <3>2, <3>4, OthersUntouched
  <2>7. CASE UNCHANGED vars
    BY <2>7 DEF vars, StorageInv, UniqueInv, BatchInv, Of, EventAt
  <2>. QED
    BY <2>1, <2>2, <2>3, <2>4, <2>5, <2>6, <2>7 DEF Next, Quiescent
<1>. QED
  BY <1>1, <1>2, TypeCorrect, PTL DEF Spec

\* A committed batch stays in the collection for good, whatever the commits that
\* run beside it do: deleteMany() of one never takes an event of another.
THEOREM CommittedForGood == Spec => []CommittedStays
<1>1. TypeOK /\ StorageInv => CommittedStays
  <2>. SUFFICES ASSUME TypeOK, StorageInv, NEW c \in Commits, pc[c] = "committed"
                PROVE  /\ \A n \in 1..Size[c] : EventAt(c, n) \in events
                       /\ \A e \in events :
                            e.version \in base[c]..(base[c] + Size[c] - 1) => e.of = c
    BY DEF CommittedStays, EventAt
  <2>1. \A n \in 1..Size[c] : EventAt(c, n) \in events
    BY DEF StorageInv, BatchInv
  <2>2. ASSUME NEW e \in events, e.version \in base[c]..(base[c] + Size[c] - 1)
        PROVE  e.of = c
    <3>1. base[c] \in Nat /\ Size[c] \in Nat /\ e.version \in Nat
      BY ConstantsAssumption DEF TypeOK, Event
    <3>. DEFINE n == e.version - base[c] + 1
    <3>2. n \in 1..Size[c] /\ base[c] + n - 1 = e.version
      BY <2>2, <3>1
    <3>3. EventAt(c, n) \in events /\ EventAt(c, n).version = e.version /\ EventAt(c, n).of = c
      BY <2>1, <3>2 DEF EventAt
    <3>. QED
      BY <3>3 DEF StorageInv, UniqueInv
  <2>. QED
    BY <2>1, <2>2
<1>. QED
  BY <1>1, TypeCorrect, Storage, PTL

\* A commit that is rejected with a ConcurrencyError has left nothing behind.
THEOREM NothingLeft == Spec => []ConflictLeavesNothing
<1>1. StorageInv => ConflictLeavesNothing
  BY DEF StorageInv, BatchInv, ConflictLeavesNothing
<1>. QED
  BY <1>1, Storage, PTL
=============================================================================
