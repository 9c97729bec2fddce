----------------------------- MODULE AtomicLock ------------------------------
(***************************************************************************)
(* What a lock promises to those who take it, whatever promises, jobs and  *)
(* markers are behind it: a request is granted in a single step, when no   *)
(* owner excludes it, and a global request that waits inside keeps those   *)
(* who come after it outside.                                              *)
(*                                                                         *)
(* Abstract: it is what Lock is shown to implement, and as much as command *)
(* handlers, sagas and connection handlers may assume of it.               *)
(***************************************************************************)
CONSTANTS
  Requests,   \* requests for the lock
  Name,       \* the name each request asks for, or Global
  Global      \* the global lock

VARIABLE
  state       \* where each request is: "idle", "outside", "inside", "held" or "released"

-----------------------------------------------------------------------------

\* Two owners are compatible only under different names.
Excludes(q, r) ==
  /\ q # r
  /\ Name[q] = Global \/ Name[r] = Global \/ Name[q] = Name[r]

\* A global request inside closes the door behind it.
Closed == \E g \in Requests : Name[g] = Global /\ state[g] = "inside"

\* A request that is not inside yet has to find the door open.
MayBeInside(r) == state[r] = "inside" \/ (state[r] \in {"idle", "outside"} /\ ~Closed)

-----------------------------------------------------------------------------

Init == state = [r \in Requests |-> "idle"]

Wait(r) ==
  /\ state[r] = "idle"
  /\ state' = [state EXCEPT ![r] = "outside"]

GoIn(r) ==
  /\ MayBeInside(r)
  /\ state' = [state EXCEPT ![r] = "inside"]

Take(r) ==
  /\ MayBeInside(r)
  /\ \A q \in Requests : state[q] = "held" => ~Excludes(q, r)
  /\ state' = [state EXCEPT ![r] = "held"]

Release(r) ==
  /\ state[r] = "held"
  /\ state' = [state EXCEPT ![r] = "released"]

Next == \E r \in Requests : Wait(r) \/ GoIn(r) \/ Take(r) \/ Release(r)

Spec == Init /\ [][Next]_state
=============================================================================
