--------------------------- MODULE AggregateStore ---------------------------
(***************************************************************************)
(* What aggregate command handling promises, whatever the number of        *)
(* processes, caches, locks and retries behind it: every aggregate has one *)
(* stream of events, and a command takes effect at most once, in a single  *)
(* step, as a batch decided on the whole stream that precedes it.          *)
(*                                                                         *)
(* Abstract: it is what AggregateCommandHandler (with optimistic           *)
(* concurrency, no force-dispatching) is shown to implement.               *)
(***************************************************************************)
EXTENDS Naturals, Sequences

CONSTANTS
  Commands,     \* executions of commands
  Aggregates,   \* aggregate identifiers
  Target,       \* the aggregate each command is addressed to
  MaxEvents     \* most events one command emits (bound)

VARIABLES
  stream,       \* events of each aggregate, in commit order
  outcome,      \* how the execution of each command ended, "none" so far
  reply         \* the events the caller of execute() was given

vars == <<stream, outcome, reply>>

-----------------------------------------------------------------------------

\* The commands that left an event in a history.
CommandsOf(h) == {h[i].cmd : i \in DOMAIN h}

\* The n events that command c emits on top of the history h. "seen" stands
\* for all the data the business logic can derive from the state it decides
\* on: the commands whose effect it observed.
Batch(c, h, n) ==
  [i \in 1..n |-> [cmd     |-> c,
                   version |-> Len(h) + i - 1,
                   seen    |-> CommandsOf(h) \ {c}]]

EventsOf(c) == {e \in {stream[Target[c]][i] : i \in DOMAIN stream[Target[c]]} : e.cmd = c}

-----------------------------------------------------------------------------

Init ==
  /\ stream  = [a \in Aggregates |-> <<>>]
  /\ outcome = [c \in Commands |-> "none"]
  /\ reply   = [c \in Commands |-> {}]

\* The effect of a command: its whole batch, decided on the whole stream. The
\* write of a process that crashed may still reach the storage.
Commit(c) ==
  /\ outcome[c] \in {"none", "lost"}
  /\ EventsOf(c) = {}
  /\ \E n \in 1..MaxEvents :
       stream' = [stream EXCEPT ![Target[c]] = @ \o Batch(c, @, n)]
  /\ UNCHANGED <<outcome, reply>>

\* The caller is handed exactly the events that are in the stream.
Return(c) ==
  /\ outcome[c] = "none"
  /\ outcome' = [outcome EXCEPT ![c] = "done"]
  /\ reply'   = [reply EXCEPT ![c] = EventsOf(c)]
  /\ UNCHANGED stream

\* Retries ran out: the command had no effect.
GiveUp(c) ==
  /\ outcome[c] = "none"
  /\ EventsOf(c) = {}
  /\ outcome' = [outcome EXCEPT ![c] = "exhausted"]
  /\ UNCHANGED <<stream, reply>>

\* Any other error: the caller cannot tell whether the command took effect.
Fail(c) ==
  /\ outcome[c] = "none"
  /\ outcome' = [outcome EXCEPT ![c] = "rejected"]
  /\ UNCHANGED <<stream, reply>>

\* A crash loses all that is in flight in a process.
Crash(S) ==
  /\ \A c \in S : outcome[c] = "none"
  /\ outcome' = [c \in Commands |-> IF c \in S THEN "lost" ELSE outcome[c]]
  /\ UNCHANGED <<stream, reply>>

Next ==
  \/ \E c \in Commands : Commit(c) \/ Return(c) \/ GiveUp(c) \/ Fail(c)
  \/ \E S \in SUBSET Commands : Crash(S)

Spec == Init /\ [][Next]_vars
=============================================================================
