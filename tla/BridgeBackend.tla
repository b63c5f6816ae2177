--------------------------- MODULE BridgeBackend ---------------------------
(***************************************************************************)
(* The commit channel of PythonNative: the reconcilers that share one      *)
(* BridgeBackend, the asyncio loop they run on, the executor thread that   *)
(* commits into the renderer core, the core's surface, and the UI thread   *)
(* that mounts accepted transactions and emits native events.              *)
(*                                                                         *)
(* The loop is a FIFO of callbacks.  A future's done callbacks are put on  *)
(* that FIFO when it completes, so every hop between an acknowledgement    *)
(* and the code that waits for it is a step of its own, and callbacks of   *)
(* other reconcilers, and native input, run in between.                    *)
(*                                                                         *)
(* A batch of mutations is kept as the set of tags it creates, updates and *)
(* destroys; it is empty when the pass produced no operation.              *)
(***************************************************************************)
EXTENDS Naturals, Sequences, FiniteSets

CONSTANTS
  Reconcilers,      \* the hosts' reconcilers; they share the process surface
  MaxTag,           \* bound: view tags allocated in a run
  MaxFlushes,       \* bound: passes scheduled in a run
  MaxEvents,        \* bound: native events emitted in a run
  MaxFailures,      \* bound: transport errors and failed mounts in a run
  MaxRejections,    \* bound: commits refused for an invalid operation
  QueueLimit,       \* deferred events the backend keeps (4096 in the code)
  UncaughtEffects,  \* whether an effect may raise past every error boundary
  NoOne             \* stands for None

ASSUME BoundsAreNaturals ==
  /\ MaxTag \in Nat /\ MaxFlushes \in Nat /\ MaxEvents \in Nat
  /\ MaxFailures \in Nat /\ MaxRejections \in Nat
ASSUME UncaughtEffectsIsBoolean == UncaughtEffects \in BOOLEAN
ASSUME QueueLimitPositive == QueueLimit \in Nat \ {0}
ASSUME NoOneIsNoReconciler == NoOne \notin Reconcilers

VARIABLES
  \* BridgeBackend
  application,   \* identity of the running application (a fresh uuid: a count)
  revision,      \* _revision: the last acknowledged commit
  births,        \* _births: revision that created a live tag, 0 when not live
  sequences,     \* _event_sequences: last accepted sequence of a tag
  failed,        \* _failed
  pending,       \* _pending: the reconciler whose commit is in flight, or NoOne
  publishing,    \* _publishing
  queuedEvents,  \* _queued_events
  \* the application loop
  ready,         \* callbacks the loop will run, in order
  waiters,       \* done callbacks of the future in _pending, in order
  \* reconcilers
  committing,    \* whether its commit waits for a future
  queued,        \* its submit() task in _queued_commits
  batch,         \* the mutations of the commit it waits for
  outcome,       \* how that commit ended
  scheduled,     \* _flush_scheduled, or a mount the host has requested
  created,       \* whether its host has mounted it once (on_create)
  owned,         \* native views of its committed tree
  handlers,      \* EventRegistry: tags whose callbacks are registered
  \* renderer core and UI thread
  worker,        \* the executor thread running transport.commit
  surface,       \* Surface: application_, revision_, nodes_, failed_
  mountQueue,    \* transactions waiting for the UI thread
  mounting,      \* the transaction between mount_next and mount_finished
  mounted,       \* MountState: application_, revision_, views_
  sequence,      \* MountState::sequence_
  requests,      \* mark_failed requests posted to Core::work; the request names
                 \* only the surface; which application it came from is
                 \* kept to tell the requests apart
  \* counters of the bounds
  nextTag, flushes, failures, rejections

backendVars == <<application, revision, births, sequences, failed, pending,
                 publishing, queuedEvents>>
loopVars    == <<ready, waiters>>
clientVars  == <<committing, queued, batch, outcome, scheduled, created,
                 owned, handlers>>
coreVars    == <<worker, surface, mountQueue, mounting, mounted, sequence,
                 requests>>
boundVars   == <<nextTag, flushes, failures, rejections>>
vars        == <<backendVars, loopVars, clientVars, coreVars, boundVars>>

Tags  == 1 .. MaxTag
Batch == [creates : SUBSET Tags, updates : SUBSET Tags, destroys : SUBSET Tags]
Event == [application : Nat, revision : Nat, sequence : Nat, tag : Tags]

Empty == [creates |-> {}, updates |-> {}, destroys |-> {}]
Idle  == [state |-> "idle", application |-> 0, revision |-> 0,
          batch |-> Empty, result |-> "ok"]
NoTransaction == [application |-> 0, revision |-> 0, creates |-> {},
                  destroys |-> {}, replacing |-> FALSE]

Transaction == [application : Nat, revision : Nat, creates : SUBSET Tags,
                destroys : SUBSET Tags, replacing : BOOLEAN]

(* What the loop can be asked to run. *)
Callback ==
  [kind : {"flush", "create", "remount", "step", "shield", "resolve", "resume"},
   of : Reconcilers]
    \cup [kind : {"completed", "acknowledged"}]
    \cup [kind : {"surface_failed"}, application : Nat]
    \cup [kind : {"event"}, event : Event]

Call(kind, r)  == [kind |-> kind, of |-> r]
Plain(kind)    == [kind |-> kind]
Failure(a)     == [kind |-> "surface_failed", application |-> a]
Deliver(event) == [kind |-> "event", event |-> event]

Runs(kind)     == ready # <<>> /\ Head(ready).kind = kind
RunsFor(kind, r) == Runs(kind) /\ Head(ready).of = r

----------------------------------------------------------------------------
Init ==
  /\ application = 1 /\ revision = 0
  /\ births = [t \in Tags |-> 0] /\ sequences = [t \in Tags |-> 0]
  /\ failed = FALSE /\ pending = NoOne /\ publishing = FALSE
  /\ queuedEvents = <<>>
  /\ ready = <<>> /\ waiters = <<>>
  /\ committing = [r \in Reconcilers |-> FALSE]
  /\ queued = [r \in Reconcilers |-> "none"]
  /\ batch = [r \in Reconcilers |-> Empty]
  /\ outcome = [r \in Reconcilers |-> "ok"]
  /\ scheduled = [r \in Reconcilers |-> FALSE]
  /\ created = [r \in Reconcilers |-> FALSE]
  /\ owned = [r \in Reconcilers |-> {}]
  /\ handlers = {}
  /\ worker = Idle
  /\ surface = [application |-> 0, revision |-> 0, views |-> {}, failed |-> FALSE]
  /\ mountQueue = <<>> /\ mounting = NoTransaction
  /\ mounted = [application |-> 0, revision |-> 0, views |-> {}]
  /\ sequence = 0 /\ requests = {}
  /\ nextTag = 1 /\ flushes = 0 /\ failures = 0 /\ rejections = 0

----------------------------------------------------------------------------
(* The renderer core's view of an envelope (Surface::validate). *)
Replacing(w) == w.application # surface.application
LiveForAny(w) == surface.views
LiveFor(w)   == IF Replacing(w) THEN {} ELSE surface.views
Valid(w) ==
  /\ w.revision = (IF Replacing(w) THEN 0 ELSE surface.revision) + 1
  /\ Replacing(w) \/ ~surface.failed
  /\ w.batch.creates \cap LiveFor(w) = {}
  /\ w.batch.updates \cup w.batch.destroys \subseteq LiveFor(w)

----------------------------------------------------------------------------
(* A commit is in flight until its acknowledgement reached the loop. *)
BusyInTheCore == worker.state = "running"
Busy == pending # NoOne

(* apply_mutations: put b in flight, or behind the commit in flight, or     *)
(* raise.  tree and registry are what the reconciler's step has published   *)
(* by now; rest is the loop's queue without the callback that is running.   *)
Start(r, b, callback) ==
  /\ pending' = r /\ publishing' = TRUE /\ waiters' = <<callback>>
  /\ worker' = [state |-> "running", application |-> application,
                revision |-> revision + 1, batch |-> b, result |-> "ok"]

Publish(r, tree, registry) ==
  owned' = [owned EXCEPT ![r] = tree] /\ handlers' = registry

(* _abort_pass: a failed surface retires the tree, otherwise the journal    *)
(* restores the tree last accepted.                                         *)
Abort(r, tree, registry) ==
  /\ committing' = [committing EXCEPT ![r] = FALSE]
  /\ batch' = [batch EXCEPT ![r] = Empty]
  /\ IF failed THEN Publish(r, {}, registry \ tree)
               ELSE Publish(r, tree, registry)

Submit(r, b, rest, tree, registry) ==
  /\ \/ /\ Busy
        /\ queued' = [queued EXCEPT ![r] = "waiting"]
        /\ ready' = Append(rest, Call("step", r))
        /\ committing' = [committing EXCEPT ![r] = TRUE]
        /\ batch' = [batch EXCEPT ![r] = b]
        /\ Publish(r, tree, registry)
        /\ UNCHANGED <<pending, publishing, waiters, worker>>
     \/ /\ ~Busy /\ ~failed
        /\ Start(r, b, Call("resolve", r))
        /\ ready' = rest
        /\ committing' = [committing EXCEPT ![r] = TRUE]
        /\ batch' = [batch EXCEPT ![r] = b]
        /\ Publish(r, tree, registry)
        /\ UNCHANGED queued
     \/ /\ ~Busy /\ failed
        /\ Abort(r, tree, registry)
        /\ ready' = rest
        /\ UNCHANGED <<pending, publishing, waiters, worker, queued>>
  /\ UNCHANGED queuedEvents

ReleaseUnlessPublishing(rest) ==
  IF Busy \/ publishing
  THEN ready' = rest /\ UNCHANGED <<publishing, queuedEvents>>
  ELSE /\ queuedEvents' = <<>>
       /\ ready' = rest \o [i \in 1 .. Len(queuedEvents) |->
                               Deliver(queuedEvents[i])]
       /\ UNCHANGED publishing

(* release_events: nothing while another commit is in flight; otherwise the *)
(* deferred events become callbacks of their own.                           *)
ReleaseEvents(rest) ==
  IF Busy
  THEN ready' = rest /\ UNCHANGED <<publishing, queuedEvents>>
  ELSE /\ publishing' = FALSE
       /\ queuedEvents' = <<>>
       /\ ready' = IF failed THEN rest
                   ELSE rest \o [i \in 1 .. Len(queuedEvents) |->
                                   Deliver(queuedEvents[i])]

(* The fallback an ErrorBoundary mounts for an effect that raised. *)
Fallbacks(tree) ==
  {[creates |-> {nextTag}, updates |-> {}, destroys |-> {t}] :
      t \in IF nextTag <= MaxTag THEN tree ELSE {}}

(* The rest of _commit_steps once the core has accepted b: publish refs and *)
(* handlers, run the effects, commit the fallback of one that raised, and   *)
(* release the input that was kept back.                                    *)
AfterCommit(r, b, rest) ==
  LET tree     == (owned[r] \cup b.creates) \ b.destroys
      registry == (handlers \cup b.creates) \ b.destroys
  IN  \/ /\ ReleaseEvents(rest)
         /\ committing' = [committing EXCEPT ![r] = FALSE]
         /\ batch' = [batch EXCEPT ![r] = Empty]
         /\ Publish(r, tree, registry)
         /\ UNCHANGED <<queued, pending, waiters, worker, nextTag>>
      \/ \E fallback \in Fallbacks(tree) :
           /\ Submit(r, fallback, rest, tree, registry)
           /\ nextTag' = nextTag + 1
      \/ /\ UncaughtEffects
         /\ Abort(r, tree, registry)
         /\ ready' = rest
         /\ UNCHANGED <<queued, pending, publishing, waiters, worker,
                        queuedEvents, nextTag>>

----------------------------------------------------------------------------
(* Reconciler.request_render, and the host's requests to mount its tree. *)
Schedule(kind, r) ==
  /\ ~scheduled[r] /\ ~committing[r]
  /\ flushes < MaxFlushes
  /\ flushes' = flushes + 1
  /\ scheduled' = [scheduled EXCEPT ![r] = TRUE]
  /\ ready' = Append(ready, Call(kind, r))
  /\ UNCHANGED <<backendVars, waiters, committing, queued, batch, outcome,
                 created, owned, handlers, coreVars, nextTag, failures,
                 rejections>>

RequestRender(r)  == owned[r] # {} /\ Schedule("flush", r)
RequestCreate(r)  == ~created[r] /\ Schedule("create", r)
RequestRemount(r) == created[r] /\ Schedule("remount", r)

Begin(kind, r) ==
  /\ RunsFor(kind, r)
  /\ scheduled' = [scheduled EXCEPT ![r] = FALSE]

Changes(b, r) == Submit(r, b, Tail(ready), owned[r], handlers)
FirstView     == [Empty EXCEPT !.creates = {nextTag}]

(* flush_dirty: one pass over the dirty components.  It may produce no      *)
(* operation, and it may remove views.                                      *)
Flush(r) ==
  /\ Begin("flush", r)
  /\ \/ AfterCommit(r, Empty, Tail(ready))
     \/ /\ nextTag <= MaxTag
        /\ Changes([Empty EXCEPT !.creates = {nextTag}], r)
        /\ nextTag' = nextTag + 1
     \/ \E t \in owned[r] :
          /\ Changes([Empty EXCEPT !.updates = {t}], r)
          /\ UNCHANGED nextTag
     \/ \E gone \in SUBSET owned[r] \ {{}} :
          /\ Changes([Empty EXCEPT !.destroys = gone], r)
          /\ UNCHANGED nextTag
  /\ UNCHANGED <<application, revision, births, sequences, failed, outcome,
                 created, surface, mountQueue, mounting, mounted, sequence,
                 requests, flushes, failures, rejections>>

(* The host's on_create: Reconciler.mount of its first tree. *)
Create(r) ==
  /\ Begin("create", r)
  /\ nextTag <= MaxTag
  /\ created' = [created EXCEPT ![r] = TRUE]
  /\ Changes(FirstView, r)
  /\ nextTag' = nextTag + 1
  /\ UNCHANGED <<application, revision, births, sequences, failed, outcome,
                 surface, mountQueue, mounting, mounted, sequence, requests,
                 flushes, failures, rejections>>

(* The host's _full_remount.  It unmounts the old tree first; the tree is   *)
(* gone before the pass and its journal begin, so no failure brings it back *)
(* and the callbacks of its views stay registered.  With no tree left it    *)
(* mounts a new one, after BridgeBackend.reset when the surface had failed. *)
Unmount(r) ==
  /\ Begin("remount", r)
  /\ owned[r] # {}
  /\ Submit(r, [Empty EXCEPT !.destroys = owned[r]], Tail(ready), {}, handlers)
  /\ UNCHANGED <<application, revision, births, sequences, failed, outcome,
                 created, surface, mountQueue, mounting, mounted, sequence,
                 requests, nextTag, flushes, failures, rejections>>

MountAgain(r) ==
  /\ Begin("remount", r)
  /\ owned[r] = {} /\ ~failed
  /\ nextTag <= MaxTag
  /\ Changes(FirstView, r)
  /\ nextTag' = nextTag + 1
  /\ UNCHANGED <<application, revision, births, sequences, failed, outcome,
                 created, surface, mountQueue, mounting, mounted, sequence,
                 requests, flushes, failures, rejections>>

Settled == ~Busy /\ \A q \in Reconcilers : queued[q] = "none"

ResetAndMount(r) ==
  /\ Begin("remount", r)
  /\ owned[r] = {} /\ failed /\ Settled
  /\ nextTag <= MaxTag
  /\ application' = application + 1
  /\ revision' = 0
  /\ births' = [t \in Tags |-> 0] /\ sequences' = [t \in Tags |-> 0]
  /\ failed' = FALSE
  /\ queuedEvents' = <<>>
  /\ pending' = r /\ publishing' = TRUE
  /\ waiters' = <<Call("resolve", r)>>
  /\ worker' = [state |-> "running", application |-> application + 1,
                revision |-> 1, batch |-> FirstView, result |-> "ok"]
  /\ ready' = Tail(ready)
  /\ committing' = [committing EXCEPT ![r] = TRUE]
  /\ batch' = [batch EXCEPT ![r] = FirstView]
  /\ nextTag' = nextTag + 1
  /\ UNCHANGED <<queued, outcome, created, owned, handlers, surface,
                 mountQueue, mounting, mounted, sequence, requests, flushes,
                 failures, rejections>>

(* reset raises while a commit is in flight or queued. *)
ResetRefused(r) ==
  /\ Begin("remount", r)
  /\ owned[r] = {} /\ failed /\ ~Settled
  /\ ready' = Tail(ready)
  /\ UNCHANGED <<backendVars, waiters, committing, queued, batch, outcome,
                 created, owned, handlers, coreVars, boundVars>>

(* Bound: no tag is left for a new tree, so the run does without it. *)
OutOfTags(r) ==
  /\ nextTag > MaxTag
  /\ \/ Begin("create", r)
     \/ Begin("remount", r) /\ owned[r] = {} /\ (failed => Settled)
  /\ ready' = Tail(ready)
  /\ UNCHANGED <<backendVars, waiters, committing, queued, batch, outcome,
                 created, owned, handlers, coreVars, boundVars>>

----------------------------------------------------------------------------
(* The submit() task of a queued commit.  Its first step, and every wake    *)
(* that finds another commit in flight, waits on that commit; at the front  *)
(* of the queue it commits against the acknowledged revision.               *)
SubmitStep(r) ==
  /\ RunsFor("step", r)
  /\ queued[r] = "waiting"
  /\ \/ /\ Busy
        /\ waiters' = Append(waiters, Call("shield", r))
        /\ ready' = Tail(ready)
        /\ UNCHANGED <<queued, outcome, pending, publishing, worker>>
     \/ /\ ~Busy /\ ~failed
        /\ Start(r, batch[r], Call("shield", r))
        /\ queued' = [queued EXCEPT ![r] = "submitted"]
        /\ ready' = Tail(ready)
        /\ UNCHANGED outcome
     \/ /\ ~Busy /\ failed
        /\ queued' = [queued EXCEPT ![r] = "none"]
        /\ outcome' = [outcome EXCEPT ![r] = "error"]
        /\ ready' = Append(Tail(ready), Call("resolve", r))
        /\ UNCHANGED <<pending, publishing, waiters, worker>>
  /\ UNCHANGED <<application, revision, births, sequences, failed,
                 queuedEvents, committing, batch, scheduled, created, owned,
                 handlers, surface, mountQueue, mounting, mounted, sequence, requests,
                 boundVars>>

SubmitForgets(r) ==
  /\ RunsFor("step", r)
  /\ queued[r] = "submitted"
  /\ queued' = [queued EXCEPT ![r] = "none"]
  /\ ready' = Tail(ready)
  /\ UNCHANGED <<backendVars, waiters, committing, batch, outcome, scheduled,
                 created, owned, handlers, coreVars, boundVars>>

(* submit() ends with the commit it waited for, and with it the task that   *)
(* _flush_ops watches.                                                      *)
SubmitDone(r) ==
  /\ RunsFor("step", r)
  /\ queued[r] = "submitted"
  /\ queued' = [queued EXCEPT ![r] = "none"]
  /\ ready' = Append(Tail(ready), Call("resolve", r))
  /\ UNCHANGED <<backendVars, waiters, committing, batch, outcome, scheduled,
                 created, owned, handlers, coreVars, boundVars>>

(* asyncio.shield's callback wakes the task one turn later; the resolve     *)
(* callback of _flush_ops completes the future _resume_commit waits on.     *)
Hop(from, to, r) ==
  /\ RunsFor(from, r)
  /\ ready' = Append(Tail(ready), Call(to, r))
  /\ UNCHANGED <<backendVars, waiters, clientVars, coreVars, boundVars>>

Shield(r)  == Hop("shield", "step", r)
Resolve(r) == Hop("resolve", "resume", r)

(* Reconciler._resume_commit. *)
Resume(r) ==
  /\ RunsFor("resume", r)
  /\ \/ /\ outcome[r] = "ok"
        /\ AfterCommit(r, batch[r], Tail(ready))
     \/ /\ outcome[r] = "error"
        /\ Abort(r, owned[r], handlers)
        /\ ready' = Tail(ready)
        /\ UNCHANGED <<queued, pending, publishing, waiters, worker,
                       queuedEvents, nextTag>>
  /\ UNCHANGED <<application, revision, births, sequences, failed, outcome,
                 scheduled, created, surface, mountQueue, mounting, mounted,
                 sequence, requests, flushes, failures, rejections>>

(* The executor's future hands its result to the loop's, whose done callback *)
(* runs one turn later.                                                      *)
Completed ==
  /\ Runs("completed")
  /\ ready' = Append(Tail(ready), Plain("acknowledged"))
  /\ UNCHANGED <<backendVars, waiters, clientVars, coreVars, boundVars>>

(* How a reconciler sees an answer: the future it waits for has a result or *)
(* an exception.                                                            *)
Outcome(result) == IF result = "ok" THEN "ok" ELSE "error"

(* acknowledged: the executor's answer reaches the loop. *)
Acknowledged ==
  /\ Runs("acknowledged")
  /\ pending' = NoOne
  /\ worker' = Idle
  /\ ready' = Tail(ready) \o waiters
  /\ waiters' = <<>>
  /\ \/ /\ worker.result = "ok"
        /\ revision' = worker.revision
        /\ births' = [t \in Tags |->
             IF t \in worker.batch.destroys THEN 0
             ELSE IF t \in worker.batch.creates THEN worker.revision
             ELSE births[t]]
        /\ sequences' = [t \in Tags |->
             IF t \in worker.batch.destroys THEN 0 ELSE sequences[t]]
        /\ UNCHANGED <<failed, publishing, queuedEvents>>
     \/ /\ worker.result # "ok"
        /\ failed' = (worker.result = "error")
        /\ publishing' = FALSE
        /\ queuedEvents' = <<>>
        /\ UNCHANGED <<revision, births, sequences>>
  /\ outcome' = [outcome EXCEPT ![pending] = Outcome(worker.result)]
  /\ UNCHANGED <<application, committing, queued, batch, scheduled, created,
                 owned, handlers, surface, mountQueue, mounting, mounted, sequence,
                 requests, boundVars>>

(* BridgeBackend.surface_failed. *)
SurfaceFailed ==
  /\ Runs("surface_failed")
  /\ failed' = TRUE
  /\ ready' = Tail(ready)
  /\ UNCHANGED <<application, revision, births, sequences, pending, publishing,
                 queuedEvents, waiters, clientVars, coreVars, boundVars>>

----------------------------------------------------------------------------
Deferring == Busy \/ publishing

Accepts(e) ==
  /\ ~failed
  /\ e.application = application
  /\ births[e.tag] # 0
  /\ births[e.tag] <= e.revision /\ e.revision <= revision
  /\ e.sequence > sequences[e.tag]

OnEvent ==
  /\ Runs("event")
  /\ LET e == Head(ready).event IN
       \/ /\ Deferring /\ Len(queuedEvents) < QueueLimit
          /\ queuedEvents' = Append(queuedEvents, e)
          /\ UNCHANGED <<failed, sequences>>
       \/ /\ Deferring /\ Len(queuedEvents) >= QueueLimit
          /\ failed' = TRUE
          /\ UNCHANGED <<queuedEvents, sequences>>
       \/ /\ ~Deferring /\ Accepts(e)
          /\ sequences' = [sequences EXCEPT ![e.tag] = e.sequence]
          /\ UNCHANGED <<queuedEvents, failed>>
       \/ /\ ~Deferring /\ ~Accepts(e)
          /\ UNCHANGED <<queuedEvents, sequences, failed>>
  /\ ready' = Tail(ready)
  /\ UNCHANGED <<application, revision, births, pending, publishing, waiters,
                 clientVars, coreVars, boundVars>>

----------------------------------------------------------------------------
(* The executor thread inside Core::commit, under commit_mutex_. *)
CoreAccepts ==
  /\ worker.state = "running" /\ Valid(worker)
  /\ surface' = [application |-> worker.application,
                 revision    |-> worker.revision,
                 views       |-> (LiveFor(worker) \cup worker.batch.creates)
                                   \ worker.batch.destroys,
                 failed      |-> ~Replacing(worker) /\ surface.failed]
  /\ mountQueue' = Append(mountQueue,
       [application |-> worker.application, revision |-> worker.revision,
        creates |-> worker.batch.creates, destroys |-> worker.batch.destroys,
        replacing |-> Replacing(worker)])
  /\ worker' = [worker EXCEPT !.state = "done", !.result = "ok"]
  /\ UNCHANGED <<backendVars, loopVars, clientVars, mounting, mounted,
                 sequence, requests, boundVars>>

(* A rejection: the surface failed or does not know the batch's views, or   *)
(* an operation breaks its component's contract.                            *)
CoreRejects ==
  /\ worker.state = "running"
  /\ \/ ~Valid(worker) /\ UNCHANGED rejections
     \/ /\ Valid(worker) /\ rejections < MaxRejections
        /\ rejections' = rejections + 1
  /\ worker' = [worker EXCEPT !.state = "done", !.result = "rejected"]
  /\ UNCHANGED <<backendVars, loopVars, clientVars, surface, mountQueue,
                 mounting, mounted, sequence, requests, nextTag, flushes,
                 failures>>

(* transport.commit raises: before the core saw the envelope, or after. *)
TransportError ==
  /\ worker.state \in {"running", "done"} /\ worker.result # "error"
  /\ failures < MaxFailures
  /\ failures' = failures + 1
  /\ worker' = [worker EXCEPT !.state = "done", !.result = "error"]
  /\ UNCHANGED <<backendVars, loopVars, clientVars, surface, mountQueue,
                 mounting, mounted, sequence, requests, nextTag, flushes,
                 rejections>>

WorkerReturns ==
  /\ worker.state = "done"
  /\ worker' = [worker EXCEPT !.state = "returned"]
  /\ ready' = Append(ready, Plain("completed"))
  /\ UNCHANGED <<backendVars, waiters, clientVars, surface, mountQueue,
                 mounting, mounted, sequence, requests, boundVars>>

----------------------------------------------------------------------------
(* The UI thread: Core::mount_next and Core::mount_finished. *)
MountNext ==
  /\ mounting = NoTransaction /\ mountQueue # <<>>
  /\ mounting' = Head(mountQueue)
  /\ mountQueue' = Tail(mountQueue)
  /\ mounted' = [mounted EXCEPT
       !.views = ((IF mounting'.replacing THEN {} ELSE @)
                    \cup mounting'.creates) \ mounting'.destroys]
  /\ UNCHANGED <<backendVars, loopVars, clientVars, worker, surface, sequence,
                 requests, boundVars>>

MountFinished ==
  /\ mounting # NoTransaction
  /\ mounting' = NoTransaction
  /\ mounted' = [mounted EXCEPT !.application = mounting.application,
                                !.revision = mounting.revision]
  /\ \/ UNCHANGED <<requests, ready, failures>>
     \/ /\ failures < MaxFailures
        /\ failures' = failures + 1
        /\ requests' = requests \cup {mounting.application}
        /\ ready' = Append(ready, Failure(mounting.application))
  /\ UNCHANGED <<backendVars, waiters, clientVars, worker, surface, mountQueue,
                 sequence, nextTag, flushes, rejections>>

(* Core::work runs the posted mark_failed requests on the surface. *)
CoreWork ==
  /\ requests # {}
  /\ requests' = {}
  /\ surface' = [surface EXCEPT !.failed = TRUE]
  /\ UNCHANGED <<backendVars, loopVars, clientVars, worker, mountQueue,
                 mounting, mounted, sequence, boundVars>>

(* MountState::emit_event: a mounted view reports input, stamped with the   *)
(* transaction being applied, or with the last one applied.                 *)
NativeEvent(t) ==
  /\ t \in mounted.views
  /\ sequence < MaxEvents
  /\ sequence' = sequence + 1
  /\ LET of == IF mounting = NoTransaction THEN mounted ELSE mounting IN
       ready' = Append(ready, Deliver(
                  [application |-> of.application, revision |-> of.revision,
                   sequence |-> sequence + 1, tag |-> t]))
  /\ UNCHANGED <<backendVars, waiters, clientVars, worker, surface, mountQueue,
                 mounting, mounted, requests, boundVars>>

----------------------------------------------------------------------------
LoopStep ==
  \/ \E r \in Reconcilers :
       \/ Flush(r) \/ Create(r)
       \/ Unmount(r) \/ MountAgain(r) \/ ResetAndMount(r) \/ ResetRefused(r)
       \/ OutOfTags(r)
       \/ SubmitStep(r) \/ SubmitDone(r) \/ Shield(r) \/ Resolve(r) \/ Resume(r)
  \/ Completed \/ Acknowledged \/ SurfaceFailed \/ OnEvent

WorkerStep == CoreAccepts \/ CoreRejects \/ WorkerReturns

Next ==
  \/ LoopStep \/ WorkerStep \/ TransportError
  \/ \E r \in Reconcilers : 
       RequestRender(r) \/ RequestCreate(r) \/ RequestRemount(r)
  \/ MountNext \/ MountFinished \/ CoreWork
  \/ \E t \in Tags : NativeEvent(t)

Spec == Init /\ [][Next]_vars

(* The loop runs what is ready, the executor finishes the commit it runs,   *)
(* and the UI thread drains the mount queue.  Nothing is assumed of the     *)
(* application, the user, or failures.                                      *)
FairSpec ==
  Spec /\ WF_vars(LoopStep) /\ WF_vars(WorkerStep)
       /\ WF_vars(MountNext) /\ WF_vars(MountFinished) /\ WF_vars(CoreWork)

----------------------------------------------------------------------------
(* Properties *)

BackendType ==
  /\ application \in Nat /\ revision \in Nat
  /\ births \in [Tags -> Nat] /\ sequences \in [Tags -> Nat]
  /\ failed \in BOOLEAN /\ publishing \in BOOLEAN
  /\ pending \in Reconcilers \cup {NoOne}
  /\ queuedEvents \in Seq(Event)
LoopType == ready \in Seq(Callback) /\ waiters \in Seq(Callback)
ClientType ==
  /\ committing \in [Reconcilers -> BOOLEAN]
  /\ queued \in [Reconcilers -> {"none", "waiting", "submitted"}]
  /\ batch \in [Reconcilers -> Batch]
  /\ outcome \in [Reconcilers -> {"ok", "error"}]
  /\ scheduled \in [Reconcilers -> BOOLEAN]
  /\ created \in [Reconcilers -> BOOLEAN]
  /\ owned \in [Reconcilers -> SUBSET Tags] /\ handlers \in SUBSET Tags
WorkerType ==
  worker \in [state : {"idle", "running", "done", "returned"},
              application : Nat, revision : Nat, batch : Batch,
              result : {"ok", "rejected", "error"}]
CoreType ==
  /\ surface \in [application : Nat, revision : Nat, views : SUBSET Tags,
                  failed : BOOLEAN]
  /\ mountQueue \in Seq(Transaction) /\ mounting \in Transaction
  /\ mounted \in [application : Nat, revision : Nat, views : SUBSET Tags]
  /\ sequence \in Nat /\ requests \in SUBSET Nat
BoundType ==
  /\ nextTag \in Nat \ {0}
  /\ flushes \in Nat /\ failures \in Nat /\ rejections \in Nat

(* The type of every variable. *)
TypeOK ==
  BackendType /\ LoopType /\ ClientType /\ WorkerType /\ CoreType /\ BoundType

(* "Python advances its bookkeeping only after the acknowledgement": once no *)
(* commit is in flight and the surface is sound, BridgeBackend's revision    *)
(* and its table of live tags are exactly the core's, whatever was queued,   *)
(* rejected or reset before.                                                 *)
MirrorAgreement ==
  (pending = NoOne /\ ~failed) =>
    IF application = surface.application
    THEN /\ revision = surface.revision
         /\ {t \in Tags : births[t] # 0} = surface.views
    ELSE revision = 0 /\ \A t \in Tags : births[t] = 0

(* The abstract specification the channel implements. *)
Mirror == INSTANCE SurfaceMirror WITH
  Views  <- Tags,
  core   <- [application |-> surface.application,
             revision |-> surface.revision, views |-> surface.views],
  mirror <- [application |-> application, revision |-> revision,
             views |-> {t \in Tags : births[t] # 0}]

(* Every behaviour of the channel, with its queue, its worker thread, lost   *)
(* replies and remounts, is one of SurfaceMirror: the core never accepts a   *)
(* commit that was not built on the tree it holds.                           *)
ImplementsMirror == Mirror!Spec

(* A queued commit is built "against the acknowledged revision only when     *)
(* this transaction reaches the front of the queue": an envelope never       *)
(* reaches the core with a revision other than the one the core expects.     *)
CommitsAgainstCoreRevision ==
  worker.state = "running" =>
    /\ worker.application = application
    /\ worker.revision = (IF Replacing(worker) THEN 0 ELSE surface.revision) + 1

(* No one waits forever: every commit ends and the reconciler that waits for  *)
(* it resumes; input kept back during a commit leaves the queue, unless the   *)
(* surface failed and must be remounted.                                      *)
ChannelDrains ==
  /\ \A r \in Reconcilers : committing[r] ~> ~committing[r]
  /\ queuedEvents # <<>> ~> (queuedEvents = <<>> \/ failed)

=============================================================================
