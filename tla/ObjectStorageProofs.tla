-------------------------- MODULE ObjectStorageProofs --------------------------
(***************************************************************************)
(* Proofs about ObjectStorage: for any set of operations, any bound on     *)
(* retries and any number of failed requests.                              *)
(***************************************************************************)
EXTENDS ObjectStorage, TLAPS

-----------------------------------------------------------------------------
(* Type correctness.                                                       *)

\* What a successful write does to the variables keeps their types.
LEMMA ChangeType ==
  ASSUME TypeOK, NEW o \in Operations, Change(o)
  PROVE  /\ record' \in Versions \cup {None}
         /\ effects' \in [Operations -> Nat] /\ life' \in Nat \ {0}
         /\ kept' \subseteq Operations /\ writes' \in Nat
         /\ UNCHANGED <<backend, seen, attempts, since>>
<1>1. CASE Insert(o)
  <2>1. Record(1, {o}) \in Versions
    BY DEF TypeOK, Record, Versions
  <2>2. QED
    BY <1>1, <2>1 DEF TypeOK, Insert, Put
<1>2. CASE Replace(o)
  <2>1. seen[o] \in Versions
    BY <1>2 DEF TypeOK, Replace, Matches
  <2>2. [Record(seen[o].version + 1, seen[o].data \cup {o}) EXCEPT !.life = seen[o].life] \in Versions
    BY <2>1 DEF TypeOK, Record, Versions
  <2>3. QED
    BY <1>2, <2>2 DEF TypeOK, Replace, Put
<1>3. CASE ReplaceInMemory(o)
  <2>1. record \in Versions
    BY <1>3 DEF TypeOK, ReplaceInMemory
  <2>2. Record(1, record.data \cup {o}) \in Versions
    BY <2>1 DEF TypeOK, Record, Versions
  <2>3. QED
    BY <1>3, <2>2 DEF TypeOK, ReplaceInMemory, Put
<1>4. CASE Remove
  BY <1>4 DEF TypeOK, Remove
<1>5. QED
  BY <1>1, <1>2, <1>3, <1>4 DEF Change

LEMMA InitType == Init => TypeOK
  BY ConstantsAssumption DEF Init, TypeOK

LEMMA NextType == TypeOK /\ [Next]_vars => TypeOK'
<1> SUFFICES ASSUME TypeOK, [Next]_vars PROVE TypeOK'
  OBVIOUS
<1> USE ConstantsAssumption
<1>1. ASSUME NEW o \in Operations, Step(o) PROVE TypeOK'
  <2>1. CASE Call(o)
    BY <2>1 DEF TypeOK, Call, Become, Active
  <2>2. CASE Read(o)
    BY <2>2 DEF TypeOK, Read, Become, Active, Errors, history
  <2>3. CASE Write(o)
    BY <2>3, ChangeType DEF TypeOK, Write, Become
  <2>4. CASE Refuse(o)
    BY <2>4 DEF TypeOK, Refuse, Become, Errors, history
  <2>5. CASE Conflict(o)
    BY <2>5 DEF TypeOK, Conflict, Become, Errors, history
  <2>6. CASE Gone(o)
    BY <2>6 DEF TypeOK, Gone, Become, Errors, history
  <2>7. CASE Retry(o)
    <3>1. CASE attempts[o] < MaxRetries
      <4>1. attempts[o] + 1 \in 0..MaxRetries
        BY <3>1 DEF TypeOK
      <4>2. QED
        BY <2>7, <3>1, <4>1 DEF TypeOK, Retry, Become, Active, history
    <3>2. CASE ~(attempts[o] < MaxRetries)
      BY <2>7, <3>2 DEF TypeOK, Retry, Become, Errors, history
    <3>3. QED
      BY <3>1, <3>2
  <2>8. CASE WriteFails(o)
    <3>1. CASE Change(o)
      BY <2>8, <3>1, ChangeType DEF TypeOK, WriteFails, Fault, Become
    <3>2. CASE UNCHANGED <<backend, record, seen, attempts, history>>
      BY <2>8, <3>2 DEF TypeOK, WriteFails, Fault, Become, history
    <3>3. QED
      BY <2>8, <3>1, <3>2 DEF WriteFails
  <2>9. CASE ReadFails(o)
    BY <2>9 DEF TypeOK, ReadFails, Fault, Become, history
  <2>10. QED
    BY <1>1, <2>1, <2>2, <2>3, <2>4, <2>5, <2>6, <2>7, <2>8, <2>9 DEF Step
<1>2. CASE UNCHANGED vars
  BY <1>2 DEF TypeOK, vars, history
<1>3. QED
  BY <1>1, <1>2 DEF Next

\* The variables keep their types.
THEOREM TypeCorrect == Spec => []TypeOK
<1>1. QED
  BY InitType, NextType, PTL DEF Spec

-----------------------------------------------------------------------------
(* No update is lost. What has been read of the present life of the record *)
(* is older than the record, or is the record; and while there is none,    *)
(* nothing has been read of that life.                                     *)

ReadOfThisLife ==
  \A o \in Operations : seen[o] # None =>
    /\ seen[o].life <= life
    /\ seen[o].life = life =>
         /\ record # None
         /\ seen[o].version <= record.version
         /\ seen[o].version = record.version => seen[o] = record

InMemory == backend = "memory" =>
  /\ \A o \in Operations : seen[o] = None
  /\ record # None => record.life = life

LifeInv ==
  /\ ReadOfThisLife
  /\ InMemory
  /\ record = None => kept = {}
  /\ record # None => record.life <= life
  /\ NoLostUpdate

\* In memory nothing is read before the write.
NoReads == backend = "memory" => \A o \in Operations : calls[o] # "reading"

LEMMA NextNoReads == TypeOK /\ NoReads /\ [Next]_vars => NoReads'
<1> SUFFICES ASSUME TypeOK, NoReads, [Next]_vars PROVE NoReads'
  OBVIOUS
<1>1. ASSUME NEW o \in Operations, Step(o) PROVE NoReads'
  <2>1. UNCHANGED backend
    BY <1>1, ChangeType
       DEF Step, Call, Read, Write, Refuse, Conflict, Gone, Retry, WriteFails, ReadFails, history
  <2>2. \E state : Become(o, state) /\ (backend = "memory" => state # "reading")
    BY <1>1 DEF Step, Call, Read, Write, Refuse, Conflict, Gone, Retry, WriteFails, ReadFails, NoReads
  <2>3. QED
    BY <2>1, <2>2 DEF NoReads, Become, TypeOK
<1>2. CASE UNCHANGED vars
  BY <1>2 DEF NoReads, vars
<1>3. QED
  BY <1>1, <1>2 DEF Next

LEMMA ChangeLife ==
  ASSUME TypeOK, LifeInv, NEW o \in Operations, Change(o), calls[o] = "writing"
  PROVE  LifeInv'
<1> USE ConstantsAssumption
<1>1. UNCHANGED <<backend, seen>>
  BY ChangeType
<1>2. CASE Insert(o)
  <2>1. record = None /\ record' = Record(1, {o}) /\ record' # None
    BY <1>2, ChangeType DEF Insert, Put, Record, Versions, TypeOK
  <2>2. record'.life = life /\ record'.version = 1 /\ record'.data = {o}
    BY <2>1 DEF Record
  <2>3. life' = life /\ kept' = {o}
    BY <1>2, <2>1 DEF Insert, Put, LifeInv
  <2>4. \A p \in Operations : seen[p] # None => seen[p].life <= life /\ seen[p].life # life
    BY <2>1 DEF LifeInv, ReadOfThisLife
  <2>5. life \in Nat
    BY DEF TypeOK
  <2>6. ReadOfThisLife'
    BY <1>1, <2>3, <2>4 DEF ReadOfThisLife
  <2>7. InMemory'
    BY <1>1, <2>2, <2>3 DEF LifeInv, InMemory
  <2>8. QED
    BY <2>1, <2>2, <2>3, <2>5, <2>6, <2>7 DEF LifeInv, NoLostUpdate
<1>3. CASE Replace(o)
  <2> DEFINE r == seen[o]
  <2>1. r \in Versions /\ record \in Versions /\ record.version = r.version
    BY <1>3 DEF Replace, Matches, TypeOK
  <2>2. record' = [version |-> r.version + 1, data |-> r.data \cup {o}, life |-> r.life]
    BY <1>3 DEF Replace, Put, Record
  <2>3. record' # None
    BY <2>1, <2>2 DEF Versions
  <2>4. life' = life /\ kept' = kept \cup {o}
    BY <1>3 DEF Replace, Put
  <2>5. backend # "memory"
    BY <1>3 DEF Replace, Matches, LifeInv, InMemory
  <2>6. r.life <= life /\ (r.life = life => r = record)
    BY <1>3, <2>1 DEF Replace, Matches, LifeInv, ReadOfThisLife
  <2>7. ReadOfThisLife'
    <3> SUFFICES ASSUME NEW p \in Operations, seen[p] # None
                 PROVE  /\ seen[p].life <= life
                        /\ seen[p].life = life =>
                             seen[p].version <= record'.version /\ seen[p].version # record'.version
      BY <1>1, <2>3, <2>4 DEF ReadOfThisLife
    <3>1. seen[p] \in Versions
      BY DEF TypeOK
    <3>2. seen[p].life <= life /\ (seen[p].life = life => seen[p].version <= record.version)
      BY DEF LifeInv, ReadOfThisLife
    <3>3. record'.version = record.version + 1
      BY <2>1, <2>2
    <3>4. seen[p].version \in Nat /\ record.version \in Nat
      BY <2>1, <3>1 DEF Versions
    <3>5. QED
      BY <3>2, <3>3, <3>4
  <2>8. NoLostUpdate'
    <3> SUFFICES ASSUME record'.life = life PROVE record'.data = kept \cup {o}
      BY <2>4 DEF NoLostUpdate
    <3>1. r = record
      BY <2>2, <2>6
    <3>2. record.data = kept
      BY <2>1, <2>2, <3>1 DEF LifeInv, NoLostUpdate
    <3>3. QED
      BY <2>2, <3>1, <3>2
  <2>9. InMemory'
    BY <1>1, <2>5 DEF InMemory
  <2>10. record'.life <= life'
    BY <2>2, <2>4, <2>6
  <2>11. QED
    BY <2>3, <2>7, <2>8, <2>9, <2>10 DEF LifeInv
<1>4. CASE ReplaceInMemory(o)
  <2>1. record \in Versions /\ backend = "memory" /\ record.life = life /\ record.data = kept
    BY <1>4 DEF ReplaceInMemory, TypeOK, LifeInv, InMemory, NoLostUpdate
  <2>2. record' = [version |-> 1, data |-> kept \cup {o}, life |-> life]
    BY <1>4, <2>1 DEF ReplaceInMemory, Put, Record
  <2>3. record' # None
    BY <2>2 DEF Versions, TypeOK
  <2>4. life' = life /\ kept' = kept \cup {o} /\ life \in Nat
    BY <1>4 DEF ReplaceInMemory, Put, TypeOK
  <2>5. \A p \in Operations : seen'[p] = None
    BY <1>1, <2>1 DEF LifeInv, InMemory
  <2>6. QED
    BY <2>2, <2>3, <2>4, <2>5 DEF LifeInv, ReadOfThisLife, InMemory, NoLostUpdate
<1>5. CASE Remove
  <2>1. record' = None /\ kept' = {}
    BY <1>5 DEF Remove
  <2>2. life \in Nat
    BY DEF TypeOK
  <2>3. ASSUME NEW p \in Operations, seen[p] # None
        PROVE  seen[p].life <= life' /\ seen[p].life # life'
    <3>1. seen[p].life \in Nat
      BY <2>3 DEF TypeOK, Versions
    <3>2. CASE record = None
      BY <1>5, <2>3, <3>2 DEF Remove, LifeInv, ReadOfThisLife
    <3>3. CASE record # None
      <4>1. life' = life + 1
        BY <1>5, <3>3 DEF Remove
      <4>2. seen[p].life <= life
        BY <2>3 DEF LifeInv, ReadOfThisLife
      <4>3. QED
        BY <2>2, <3>1, <4>1, <4>2
    <3>4. QED
      BY <3>2, <3>3
  <2>4. ReadOfThisLife'
    BY <1>1, <2>3 DEF ReadOfThisLife
  <2>5. InMemory'
    BY <1>1, <2>1 DEF LifeInv, InMemory
  <2>6. QED
    BY <2>1, <2>4, <2>5 DEF LifeInv, NoLostUpdate
<1>6. QED
  BY <1>2, <1>3, <1>4, <1>5 DEF Change

LEMMA InitLife == Init => LifeInv /\ NoReads
  BY DEF Init, NoReads, LifeInv, ReadOfThisLife, InMemory, NoLostUpdate

LEMMA NextLife == TypeOK /\ NoReads /\ LifeInv /\ [Next]_vars => LifeInv'
<1> SUFFICES ASSUME TypeOK, NoReads, LifeInv, [Next]_vars PROVE LifeInv'
  OBVIOUS
<1>1. ASSUME UNCHANGED <<backend, record, seen, life, kept>> PROVE LifeInv'
  BY <1>1 DEF LifeInv, ReadOfThisLife, InMemory, NoLostUpdate
<1>2. ASSUME NEW o \in Operations, Step(o) PROVE LifeInv'
  <2>1. CASE Call(o)
    BY <1>1, <2>1 DEF Call
  <2>2. CASE Read(o)
    <3>1. UNCHANGED <<backend, record, life, kept>> /\ seen' = [seen EXCEPT ![o] = record]
      BY <2>2 DEF Read, history
    <3>2. backend # "memory"
      BY <2>2 DEF Read, NoReads
    <3>3. record # None => record.life \in Nat /\ record.version \in Nat
      BY DEF TypeOK, Versions
    <3>4. ReadOfThisLife'
      <4> SUFFICES ASSUME NEW p \in Operations, seen'[p] # None
                   PROVE  /\ seen'[p].life <= life
                          /\ seen'[p].life = life =>
                               /\ record # None
                               /\ seen'[p].version <= record.version
                               /\ seen'[p].version = record.version => seen'[p] = record
        BY <3>1 DEF ReadOfThisLife
      <4>1. CASE p = o
        <5>1. seen'[p] = record
          BY <3>1, <4>1 DEF TypeOK
        <5>2. QED
          BY <3>3, <5>1 DEF LifeInv
      <4>2. CASE p # o
        <5>1. seen'[p] = seen[p]
          BY <3>1, <4>2 DEF TypeOK
        <5>2. QED
          BY <5>1 DEF LifeInv, ReadOfThisLife
      <4>3. QED
        BY <4>1, <4>2
    <3>5. QED
      BY <3>1, <3>2, <3>4 DEF LifeInv, InMemory, NoLostUpdate
  <2>3. CASE Write(o)
    BY <2>3, ChangeLife DEF Write, Change
  <2>4. CASE Refuse(o)
    BY <1>1, <2>4 DEF Refuse, history
  <2>5. CASE Conflict(o)
    BY <1>1, <2>5 DEF Conflict, history
  <2>6. CASE Gone(o)
    BY <1>1, <2>6 DEF Gone, history
  <2>7. CASE Retry(o)
    BY <1>1, <2>7 DEF Retry, history
  <2>8. CASE WriteFails(o)
    <3>1. CASE Change(o)
      BY <2>8, <3>1, ChangeLife DEF WriteFails
    <3>2. CASE UNCHANGED <<backend, record, seen, attempts, history>>
      BY <1>1, <3>2 DEF history
    <3>3. QED
      BY <2>8, <3>1, <3>2 DEF WriteFails
  <2>9. CASE ReadFails(o)
    BY <1>1, <2>9 DEF ReadFails, history
  <2>10. QED
    BY <1>2, <2>1, <2>2, <2>3, <2>4, <2>5, <2>6, <2>7, <2>8, <2>9 DEF Step
<1>3. CASE UNCHANGED vars
  BY <1>1, <1>3 DEF vars, history
<1>4. QED
  BY <1>2, <1>3 DEF Next

\* No update is lost: the record has the effect of every operation that changed it
\* since it was created, unless it was replaced by data of an earlier life.
THEOREM UpdatesKept == Spec => []NoLostUpdate
<1>1. Init => TypeOK /\ NoReads /\ LifeInv
  BY InitType, InitLife
<1>2. TypeOK /\ NoReads /\ LifeInv /\ [Next]_vars => (TypeOK /\ NoReads /\ LifeInv)'
  BY NextType, NextNoReads, NextLife
<1>3. LifeInv => NoLostUpdate
  BY DEF LifeInv
<1>4. QED
  BY <1>1, <1>2, <1>3, PTL DEF Spec

-----------------------------------------------------------------------------
(* Errors mean what they say.                                              *)

Undecided == {"none", "reading", "writing"}

EffectsInv ==
  \A o \in Operations :
    /\ effects[o] <= 1
    /\ calls[o] = "done" /\ KindOf[o] # "delete" => effects[o] = 1
    /\ calls[o] \in Errors \cup Undecided => effects[o] = 0

LEMMA ChangeEffects ==
  ASSUME TypeOK, NEW o \in Operations, Change(o)
  PROVE  effects' = IF KindOf[o] = "delete" THEN effects
                    ELSE [effects EXCEPT ![o] = effects[o] + 1]
<1>1. CASE KindOf[o] = "delete"
  BY <1>1 DEF Change, Remove
<1>2. CASE KindOf[o] # "delete"
  BY <1>2 DEF Change, Insert, Replace, ReplaceInMemory, Put
<1>3. QED
  BY <1>1, <1>2

\* A step of an operation that has no effect, or one that the database has changed the
\* record by.
LEMMA NextEffects == TypeOK /\ EffectsInv /\ [Next]_vars => EffectsInv'
<1> SUFFICES ASSUME TypeOK, EffectsInv, [Next]_vars PROVE EffectsInv'
  OBVIOUS
<1>1. ASSUME NEW o \in Operations, calls[o] \in Undecided, UNCHANGED effects,
             NEW state, Become(o, state), state # "done" \/ KindOf[o] = "delete"
      PROVE  EffectsInv'
  BY <1>1 DEF EffectsInv, Become, TypeOK, Errors, Undecided
<1>2. ASSUME NEW o \in Operations, calls[o] = "writing", Change(o),
             NEW state \in {"done", "failed"}, Become(o, state)
      PROVE  EffectsInv'
  <2>1. CASE KindOf[o] = "delete"
    <3>1. UNCHANGED effects
      BY <1>2, <2>1, ChangeEffects
    <3>2. QED
      BY <1>1, <1>2, <2>1, <3>1 DEF Undecided
  <2>2. CASE KindOf[o] # "delete"
    <3>1. effects[o] = 0
      BY <1>2 DEF EffectsInv, Undecided
    <3>2. effects' = [effects EXCEPT ![o] = 1]
      BY <1>2, <2>2, <3>1, ChangeEffects
    <3>3. QED
      BY <1>2, <3>2 DEF EffectsInv, Become, TypeOK, Errors, Undecided
  <2>3. QED
    BY <2>1, <2>2
<1>3. ASSUME NEW o \in Operations, Step(o) PROVE EffectsInv'
  <2>1. CASE Call(o)
    BY <1>1, <2>1 DEF Call, Undecided
  <2>2. CASE Read(o)
    BY <1>1, <2>2 DEF Read, Undecided, history
  <2>3. CASE Write(o)
    BY <1>2, <2>3 DEF Write, Change
  <2>4. CASE Refuse(o)
    BY <1>1, <2>4 DEF Refuse, Undecided, history
  <2>5. CASE Conflict(o)
    BY <1>1, <2>5 DEF Conflict, Mismatch, Undecided, history
  <2>6. CASE Gone(o)
    BY <1>1, <2>6 DEF Gone, Mismatch, Undecided, history
  <2>7. CASE Retry(o)
    BY <1>1, <2>7 DEF Retry, Mismatch, Undecided, history
  <2>8. CASE WriteFails(o)
    <3>1. CASE Change(o)
      BY <1>2, <2>8, <3>1 DEF WriteFails
    <3>2. CASE UNCHANGED <<backend, record, seen, attempts, history>>
      BY <1>1, <2>8, <3>2 DEF WriteFails, Undecided, history
    <3>3. QED
      BY <2>8, <3>1, <3>2 DEF WriteFails
  <2>9. CASE ReadFails(o)
    BY <1>1, <2>9 DEF ReadFails, Undecided, history
  <2>10. QED
    BY <1>3, <2>1, <2>2, <2>3, <2>4, <2>5, <2>6, <2>7, <2>8, <2>9 DEF Step
<1>4. CASE UNCHANGED vars
  BY <1>4 DEF EffectsInv, vars, history
<1>5. QED
  BY <1>3, <1>4 DEF Next

\* An operation has its effect once if it succeeds, once at most if the database
\* failed it, and none if it reports a record that exists, is missing or changes.
THEOREM ReportsAreTrue == Spec => []EffectsAsReported
<1>1. Init => TypeOK /\ EffectsInv
  BY InitType DEF Init, EffectsInv
<1>2. TypeOK /\ EffectsInv /\ [Next]_vars => (TypeOK /\ EffectsInv)'
  BY NextType, NextEffects
<1>3. EffectsInv => EffectsAsReported
  BY DEF EffectsInv, EffectsAsReported
<1>4. QED
  BY <1>1, <1>2, <1>3, PTL DEF Spec

-----------------------------------------------------------------------------
(* Retries are used up by others: between the read of an attempt and its   *)
(* mismatch there is a write, and the next attempt reads after it.         *)

Reads(o) == KindOf[o] \in {"update", "upsert"} /\ backend # "memory"

RetriesInv ==
  \A o \in Operations :
    /\ calls[o] = "reading" => writes >= since[o] + attempts[o]
    /\ calls[o] = "none" => attempts[o] = 0
    /\ calls[o] = "writing" /\ Reads(o) =>
         \/ record = seen[o] /\ writes >= since[o] + attempts[o]
         \/ writes >= since[o] + attempts[o] + 1
    /\ calls[o] = "exhausted" => writes > since[o] + MaxRetries

\* A step writes, or leaves the record as it is.
Written == writes' = writes + 1 \/ UNCHANGED <<record, writes>>

LEMMA ChangeWritten ==
  ASSUME NEW o \in Operations, Change(o)
  PROVE  Written /\ UNCHANGED <<backend, seen, attempts, since>>
<1>1. CASE Remove
  BY <1>1 DEF Remove, Written
<1>2. CASE Insert(o) \/ Replace(o) \/ ReplaceInMemory(o)
  BY <1>2 DEF Insert, Replace, ReplaceInMemory, Put, Written
<1>3. QED
  BY <1>1, <1>2 DEF Change

LEMMA NextRetries == TypeOK /\ RetriesInv /\ [Next]_vars => RetriesInv'
<1> SUFFICES ASSUME TypeOK, RetriesInv, [Next]_vars PROVE RetriesInv'
  OBVIOUS
<1> USE ConstantsAssumption
<1>1. /\ writes \in Nat /\ since \in [Operations -> Nat]
      /\ attempts \in [Operations -> 0..MaxRetries] /\ MaxRetries \in Nat
  BY DEF TypeOK
<1>2. ASSUME Written, UNCHANGED <<backend, seen, attempts, since>>,
             NEW o \in Operations, NEW state \in {"missing", "exists", "conflict", "done", "failed"},
             Become(o, state)
      PROVE  RetriesInv'
  <2>1. calls' = [calls EXCEPT ![o] = state] /\ writes' >= writes /\ writes' \in Nat
    BY <1>1, <1>2 DEF Become, Written
  <2>2. ASSUME NEW p \in Operations
        PROVE  /\ calls'[p] = "reading" => writes' >= since[p] + attempts[p]
               /\ calls'[p] = "none" => attempts[p] = 0
               /\ calls'[p] = "writing" /\ Reads(p) =>
                    \/ record' = seen[p] /\ writes' >= since[p] + attempts[p]
                    \/ writes' >= since[p] + attempts[p] + 1
               /\ calls'[p] = "exhausted" => writes' > since[p] + MaxRetries
    <3>1. CASE p = o
      BY <1>2, <2>1, <3>1 DEF TypeOK
    <3>2. CASE p # o
      <4>1. calls'[p] = calls[p]
        BY <2>1, <3>2 DEF TypeOK
      <4>2. since[p] \in Nat /\ attempts[p] \in Nat
        BY <1>1
      <4>3. QED
        BY <1>1, <1>2, <2>1, <4>1, <4>2 DEF RetriesInv, Written
    <3>3. QED
      BY <3>1, <3>2
  <2>3. QED
    BY <1>2, <2>2 DEF RetriesInv, Reads
<1>3. ASSUME NEW o \in Operations, Step(o) PROVE RetriesInv'
  <2>1. CASE Call(o)
    <3>1. /\ UNCHANGED <<backend, record, seen, attempts, writes>>
          /\ since' = [since EXCEPT ![o] = writes]
          /\ calls[o] = "none" /\ attempts[o] = 0
      BY <2>1 DEF Call, RetriesInv
    <3>2. calls' = [calls EXCEPT ![o] = IF Reads(o) THEN "reading" ELSE "writing"]
      BY <2>1 DEF Call, Become, Reads
    <3>3. QED
      BY <1>1, <3>1, <3>2 DEF RetriesInv, Reads, TypeOK
  <2>2. CASE Read(o)
    <3>1. /\ UNCHANGED <<backend, record, attempts, writes, since>>
          /\ seen' = [seen EXCEPT ![o] = record] /\ calls[o] = "reading"
      BY <2>2 DEF Read, history
    <3>2. PICK state \in {"missing", "writing"} : calls' = [calls EXCEPT ![o] = state]
      BY <2>2 DEF Read, Become
    <3>3. writes >= since[o] + attempts[o]
      BY <3>1 DEF RetriesInv
    <3>4. QED
      BY <1>1, <3>1, <3>2, <3>3 DEF RetriesInv, Reads, TypeOK
  <2>3. CASE Write(o)
    BY <1>2, <2>3, ChangeWritten DEF Write
  <2>4. CASE Refuse(o)
    BY <1>2, <2>4 DEF Refuse, Written, history
  <2>5. CASE Conflict(o)
    BY <1>2, <2>5 DEF Conflict, Written, history
  <2>6. CASE Gone(o)
    BY <1>2, <2>6 DEF Gone, Written, history
  <2>7. CASE Retry(o)
    <3>1. UNCHANGED <<backend, record, seen, writes, since>> /\ calls[o] = "writing" /\ Reads(o)
      BY <2>7 DEF Retry, Mismatch, Reads, history
    <3>2. record # seen[o]
      BY <2>7 DEF Retry, Mismatch, Matches
    <3>3. writes >= since[o] + attempts[o] + 1
      BY <3>1, <3>2 DEF RetriesInv
    <3>4. CASE attempts[o] < MaxRetries
      <4>1. attempts' = [attempts EXCEPT ![o] = attempts[o] + 1] /\ calls' = [calls EXCEPT ![o] = "reading"]
        BY <2>7, <3>4 DEF Retry, Become
      <4>2. QED
        BY <1>1, <3>1, <3>3, <4>1 DEF RetriesInv, Reads, TypeOK
    <3>5. CASE ~(attempts[o] < MaxRetries)
      <4>1. UNCHANGED attempts /\ calls' = [calls EXCEPT ![o] = "exhausted"]
        BY <2>7, <3>5 DEF Retry, Become
      <4>2. attempts[o] = MaxRetries
        BY <1>1, <3>5
      <4>3. writes > since[o] + MaxRetries
        BY <1>1, <3>3, <4>2
      <4>4. QED
        BY <1>1, <3>1, <4>1, <4>3 DEF RetriesInv, Reads, TypeOK
    <3>6. QED
      BY <3>4, <3>5
  <2>8. CASE WriteFails(o)
    <3>1. Written /\ UNCHANGED <<backend, seen, attempts, since>>
      <4>1. CASE Change(o)
        BY <4>1, ChangeWritten
      <4>2. CASE UNCHANGED <<backend, record, seen, attempts, history>>
        BY <4>2 DEF Written, history
      <4>3. QED
        BY <2>8, <4>1, <4>2 DEF WriteFails
    <3>2. QED
      BY <1>2, <2>8, <3>1 DEF WriteFails
  <2>9. CASE ReadFails(o)
    BY <1>2, <2>9 DEF ReadFails, Written, history
  <2>10. QED
    BY <1>3, <2>1, <2>2, <2>3, <2>4, <2>5, <2>6, <2>7, <2>8, <2>9 DEF Step
<1>4. CASE UNCHANGED vars
  BY <1>4 DEF RetriesInv, Reads, vars, history
<1>5. QED
  BY <1>3, <1>4 DEF Next

\* An update gives up only if the record has been changed meanwhile, once for each of
\* its attempts.
THEOREM RetriesUsedUp == Spec => []ExhaustedByOthers
<1>1. Init => TypeOK /\ RetriesInv
  BY InitType DEF Init, RetriesInv
<1>2. TypeOK /\ RetriesInv /\ [Next]_vars => (TypeOK /\ RetriesInv)'
  BY NextType, NextRetries
<1>3. RetriesInv => ExhaustedByOthers
  BY DEF RetriesInv, ExhaustedByOthers
<1>4. QED
  BY <1>1, <1>2, <1>3, PTL DEF Spec
=============================================================================
