----------------------------- MODULE WorkerProjection -----------------------------
(***************************************************************************)
(* WorkerProxyProjection.ts in the main thread and AbstractWorkerProjection*)
(* in a worker thread: a projection whose handlers and view, an            *)
(* InMemoryView, live in the worker, and the messages between them.        *)
(*                                                                         *)
(* Events are numbered in the order the event store keeps and publishes    *)
(* them. A call is posted to the worker over a port, and handlers of       *)
(* different calls interleave there. A worker that exits answers nothing.  *)
(***************************************************************************)
EXTENDS Naturals, Sequences, FiniteSets

CONSTANTS
  MaxEvents,   \* number of events
  BatchSize,   \* RESTORE_BATCH_SIZE
  MaxFailures  \* bound on handlers that throw

ASSUME ConstantsAssumption ==
  MaxEvents \in Nat /\ BatchSize \in Nat \ {0} /\ MaxFailures \in Nat

VARIABLES
  stored,     \* events stored so far: 1 .. stored
  published,  \* events published so far, of these
  worker,     \* "starting", "ready", "exited", or "failed" (it exited before it was ready)
  disposed,   \* #disposed: calls through the proxies of the worker throw
  locked,     \* viewLocker
  restore,    \* restore(), by the await it is suspended at, or its outcome
  limit,      \* events in the storage when it was queried
  read,       \* events read from it so far
  batch,      \* those collected for the next call
  project,    \* project() of each event, by the await it is suspended at
  port,       \* calls posted to the worker: whose they are, and their events
  queue,      \* what is left of the batch in the worker
  handling,   \* events of other calls in the worker
  applied,    \* how often the view in the worker has the effect of each event
  failures,   \* handlers that threw
  early       \* whether a get() was answered before the view was restored (history)

store    == <<stored, published>>
restorer == <<locked, restore, limit, read, batch>>
remote   == <<port, queue, handling, applied, failures>>
thread   == <<worker, disposed>>
vars     == <<store, thread, restorer, project, remote, early>>

Events == 1..MaxEvents

Init ==
  /\ stored    = 0
  /\ published = 0
  /\ worker    = "starting"
  /\ disposed  = FALSE
  /\ locked    = FALSE
  /\ restore   = "none"
  /\ limit     = 0
  /\ read      = 0
  /\ batch     = <<>>
  /\ project   = [e \in Events |-> "none"]
  /\ port      = <<>>
  /\ queue     = <<>>
  /\ handling  = {}
  /\ applied   = [e \in Events |-> 0]
  /\ failures  = 0
  /\ early     = FALSE

Become(e, state) == project' = [project EXCEPT ![e] = state]

Store ==
  /\ stored < MaxEvents
  /\ stored' = stored + 1
  /\ UNCHANGED <<published, thread, restorer, project, remote, early>>

\* createWorker: the worker has said that it is ready.
WorkerReady ==
  /\ worker = "starting"
  /\ worker' = "ready"
  /\ UNCHANGED <<store, disposed, restorer, project, remote, early>>

\* It exits prematurely: #workerInit is rejected.
WorkerFails ==
  /\ worker = "starting"
  /\ worker' = "failed"
  /\ UNCHANGED <<store, disposed, restorer, project, remote, early>>

\* It exits later, with the calls it has: nothing answers them.
WorkerExits ==
  /\ worker = "ready"
  /\ worker' = "exited"
  /\ port' = <<>> /\ queue' = <<>> /\ handling' = {}
  /\ UNCHANGED <<store, disposed, restorer, project, applied, failures, early>>

\* dispose(): a worker that is ready is told to terminate, and exits some time later. One
\* that is starting goes on, though it will get no calls.
Dispose ==
  /\ ~disposed
  /\ disposed' = TRUE
  /\ UNCHANGED <<store, worker, restorer, project, remote, early>>

\* The port with one more call. A worker that exited does not get it.
Posted(caller, events) ==
  IF worker = "ready" THEN Append(port, [caller |-> caller, events |-> events]) ELSE port

-----------------------------------------------------------------------------
(* restore().                                                              *)

\* registerProjection: subscribe() is called first, then restore(), in one job.
\* Nothing else has the lock.
Restore ==
  /\ restore = "none"
  /\ locked'  = TRUE
  /\ restore' = "starting"
  /\ UNCHANGED <<store, thread, limit, read, batch, project, remote, early>>

\* #workerInit is rejected, or the proxy throws, and restore() is rejected with it. The
\* view stays locked.
RestoreFails ==
  /\ restore = "starting"
  /\ worker = "failed" \/ (worker # "starting" /\ disposed)
  /\ restore' = "rejected"
  /\ UNCHANGED <<store, thread, locked, limit, read, batch, project, remote, early>>

\* An InMemoryView has no last event: all the events are asked for.
Query ==
  /\ restore = "starting" /\ worker = "ready" /\ ~disposed
  /\ restore' = "reading"
  /\ limit'   = stored
  /\ UNCHANGED <<store, thread, locked, read, batch, project, remote, early>>

\* getEventsByTypes has another event, or has come to the end of those that there were
\* when it was called. A storage may yield events stored meanwhile.
HasNext == restore = "reading" /\ read < stored
AtEnd   == restore = "reading" /\ read >= limit

\* _projectBatch: the call is posted, or throws.
PostBatch(events, await) ==
  IF disposed
    THEN restore' = "rejected" /\ UNCHANGED port
    ELSE restore' = await /\ port' = Posted("restore", events)

\* The next event is collected. A batch that is full is posted.
ReadNext ==
  /\ HasNext
  /\ read' = read + 1
  /\ IF Len(batch) + 1 < BatchSize
       THEN batch' = Append(batch, read + 1) /\ UNCHANGED <<restore, port>>
       ELSE PostBatch(Append(batch, read + 1), "projecting") /\ batch' = <<>>
  /\ UNCHANGED <<store, thread, locked, limit, project, queue, handling, applied, failures, early>>

Unlock ==
  /\ restore' = "done"
  /\ locked'  = FALSE

\* Mutant of LastBatch: the events that are left do not fill a batch, and are dropped.
LastBatchDropped ==
  /\ AtEnd
  /\ batch # <<>>
  /\ batch' = <<>>
  /\ Unlock
  /\ UNCHANGED <<store, thread, limit, read, project, remote, early>>

\* There are no more events: those that are left make a batch.
LastBatch ==
  /\ AtEnd
  /\ batch # <<>>
  /\ batch' = <<>>
  /\ PostBatch(batch, "finishing")
  /\ UNCHANGED <<store, thread, locked, limit, read, project, queue, handling, applied, failures, early>>

NothingLeft ==
  /\ AtEnd
  /\ batch = <<>>
  /\ Unlock
  /\ UNCHANGED <<store, thread, limit, read, batch, project, remote, early>>

-----------------------------------------------------------------------------
(* project(event), for events of the event bus.                            *)

\* Mutant of Publish: the projection is subscribed when it is restored.
PublishToRestored ==
  /\ published < stored
  /\ published' = published + 1
  /\ IF restore = "none" \/ locked THEN UNCHANGED project ELSE Become(published + 1, "starting")
  /\ UNCHANGED <<stored, thread, restorer, remote, early>>

\* Mutant of Publish: project() does not wait for the lock.
PublishUnlocked ==
  /\ published < stored
  /\ published' = published + 1
  /\ IF restore = "none" THEN UNCHANGED project ELSE Become(published + 1, "starting")
  /\ UNCHANGED <<stored, thread, restorer, remote, early>>

\* The event is published, before the projection is registered or after that.
Publish ==
  /\ published < stored
  /\ published' = published + 1
  /\ IF restore = "none" THEN UNCHANGED project
     ELSE Become(published + 1, IF locked THEN "waiting" ELSE "starting")
  /\ UNCHANGED <<stored, thread, restorer, remote, early>>

\* viewLocker.once('ready') resolves.
ViewReady(e) ==
  /\ project[e] = "waiting" /\ ~locked
  /\ Become(e, "starting")
  /\ UNCHANGED <<store, thread, restorer, remote, early>>

Post(e) ==
  /\ project[e] = "starting" /\ worker \in {"ready", "exited"} /\ ~disposed
  /\ Become(e, "posted")
  /\ port' = Posted("project", <<e>>)
  /\ UNCHANGED <<store, thread, restorer, queue, handling, applied, failures, early>>

\* The proxy throws.
PostFails(e) ==
  /\ project[e] = "starting" /\ disposed
  /\ Become(e, "rejected")
  /\ UNCHANGED <<store, thread, restorer, remote, early>>

-----------------------------------------------------------------------------
(* The worker.                                                             *)

\* The next call is taken: _projectBatch or project.
Receive ==
  /\ port # <<>>
  /\ port' = Tail(port)
  /\ LET call == Head(port) IN
     IF call.caller = "restore"
       THEN queue' = call.events /\ UNCHANGED handling
       ELSE handling' = handling \cup {call.events[1]} /\ UNCHANGED queue
  /\ UNCHANGED <<store, thread, restorer, project, applied, failures, early>>

Apply(e) == applied' = [applied EXCEPT ![e] = @ + 1]

\* The handler of an event of the batch returns. The answer to the call resumes
\* restore(): it goes on reading, or unlocks the view.
HandleOfBatch ==
  /\ queue # <<>>
  /\ Apply(Head(queue))
  /\ queue' = Tail(queue)
  /\ IF Len(queue) > 1 THEN UNCHANGED <<restore, locked>>
     ELSE IF restore = "finishing" THEN Unlock
     ELSE restore' = "reading" /\ UNCHANGED locked
  /\ UNCHANGED <<store, thread, limit, read, batch, project, port, handling, failures, early>>

\* It throws: the batch ends there, restore() is rejected, and the view stays locked.
HandlerOfBatchFails ==
  /\ queue # <<>> /\ failures < MaxFailures
  /\ failures' = failures + 1
  /\ queue'   = <<>>
  /\ restore' = "rejected"
  /\ UNCHANGED <<store, thread, locked, limit, read, batch, project, port, handling, applied, early>>

Handle(e) ==
  /\ e \in handling
  /\ Apply(e)
  /\ handling' = handling \ {e}
  /\ Become(e, "done")
  /\ UNCHANGED <<store, thread, restorer, port, queue, failures, early>>

HandlerFails(e) ==
  /\ e \in handling /\ failures < MaxFailures
  /\ failures' = failures + 1
  /\ handling' = handling \ {e}
  /\ Become(e, "rejected")
  /\ UNCHANGED <<store, thread, restorer, port, queue, applied, early>>

\* A get() through the proxy of the view. The view in the worker is never locked.
Get ==
  /\ worker = "ready" /\ ~disposed
  /\ early' = (early \/ restore # "done")
  /\ UNCHANGED <<store, thread, restorer, project, remote>>

-----------------------------------------------------------------------------

Project(e) == ViewReady(e) \/ Post(e) \/ PostFails(e) \/ Handle(e) \/ HandlerFails(e)

Next ==
  \/ Store \/ Publish \/ WorkerReady \/ WorkerFails \/ WorkerExits \/ Dispose
  \/ Restore \/ RestoreFails \/ Query \/ ReadNext \/ LastBatch \/ NothingLeft
  \/ Receive \/ HandleOfBatch \/ HandlerOfBatchFails
  \/ \E e \in Events : Project(e)
  \/ Get

Spec == Init /\ [][Next]_vars

\* Both threads run, and handlers return or throw.
Fairness ==
  /\ WF_vars(Publish) /\ WF_vars(WorkerReady) /\ WF_vars(Restore) /\ WF_vars(Query)
  /\ WF_vars(ReadNext) /\ WF_vars(LastBatch) /\ WF_vars(NothingLeft)
  /\ WF_vars(Receive) /\ WF_vars(HandleOfBatch)
  /\ \A e \in Events : WF_vars(ViewReady(e)) /\ WF_vars(Post(e)) /\ WF_vars(Handle(e))

FairSpec == Spec /\ Fairness

-----------------------------------------------------------------------------
(* Properties.                                                             *)

\* Types of the variables.
TypeOK ==
  /\ stored \in 0..MaxEvents /\ published \in 0..stored
  /\ worker \in {"starting", "ready", "exited", "failed"} /\ disposed \in BOOLEAN /\ locked \in BOOLEAN
  /\ restore \in {"none", "starting", "reading", "projecting", "finishing", "done", "rejected"}
  /\ limit \in 0..stored /\ read \in 0..stored /\ batch \in Seq(Events)
  /\ project \in [Events -> {"none", "waiting", "starting", "posted", "done", "rejected"}]
  /\ port \in Seq([caller : {"restore", "project"}, events : Seq(Events)]) /\ queue \in Seq(Events) /\ handling \subseteq Events
  /\ applied \in [Events -> Nat] /\ failures \in Nat /\ early \in BOOLEAN

\* No event falls between the restore and the subscription: once the view is restored,
\* each event is in it, or will be published, or its call is on the way or was rejected.
NothingMissed ==
  restore = "done" =>
    \A e \in 1..published : applied[e] > 0 \/ project[e] # "none"

\* The worker gets an event of the bus only when its view has all the events that
\* restore() has read: handlers see the state of the events before.
RestoredFirst ==
  \A e \in Events : e \in handling \/ project[e] = "done" =>
    \A d \in 1..read : applied[d] > 0

\* Every event gets into the view in the end, if the worker lives, is not disposed, and no
\* handler throws.
EveryEventProjected ==
  \A e \in Events :
    e <= stored ~> applied[e] > 0 \/ worker \in {"exited", "failed"} \/ disposed \/ failures > 0

\* No event is projected twice. It may be: an event that is stored before the query, and
\* published after the registration, is restored and projected.
ProjectedOnce == \A e \in Events : applied[e] <= 1

\* "In-memory Projection View, which suspends get()'s until it is ready"
\* (InMemoryView.ts:18). Its lock is not the one that restore() takes.
GetSuspended == ~early
=============================================================================
