# PythonNative in TLA+

TLA+ specifications of PythonNative (`src/`), the framework that renders a
Python component tree into native views.  The modules are written from the
source; every definition that stands for code is listed in `PROJECT.json`
("map") with the lines it stands for.

Contents: 1 the system, 2 the modules, 3 what the runs check, 4 what is proved,
5 findings, 6 simplifications, 7 what is not modelled, 8 the plan.

## 1. The system

Paths are relative to `src/src/pythonnative/`.

| Component | State | Operations | Talks to |
|---|---|---|---|
| Commit channel: `native_views/bridge_backend.py` | application id, acknowledged revision, live tags with their birth revision, last event sequence per tag, `_failed`, the commit in flight, queued commits, deferred input, pending commands | `apply_mutations`, acknowledgement, `surface_failed`, `defer_event`/`accept_event`/`release_events`, `command`, `reset` | reconcilers (calls, futures), transport (executor thread), bridge dispatch |
| Reconciler: `reconciler/*.py`, `journal.py`, `scheduler.py` | VNode tree, dirty components, boundaries and suspended nodes, staged operations, effects, journal, the pass waiting for its commit, deferred state writes | `mount`, `reconcile`, `flush_dirty`, `unmount`, `request_render`, `defer_input`, `wait_for_commit` | hooks (setters), host, commit channel |
| Hooks: `hooks.py`, `runtime.py` (TaskScope), `suspense.py` | per-component state lists, effects and cleanups, task scope, resources | state setters, `use_effect`, `use_transition`, `use_async`... | reconciler, application loop, threads |
| Screen host: `hosts/*.py` | current reconciler, recovery flags, refresh task, red box | `on_create`, `on_destroy`, `refresh`, surface recovery | reconciler, backend, native lifecycle |
| Bridge: `bridge/*.py` | transport, continuous-input slots | `native_callback`, `dispatch`, web transport calls | native events thread, application loop |
| Renderer core: `native/core/src/*` (C++) | shadow tree per surface, mount queue, UI-thread mirror, gesture arbiters, animation drivers, list stores | `pn_core_commit`, `mount_next`, `mount_finished`, `work`, `event` | executor thread, UI thread |
| Native managers: `native/ios`, `native/android` (Swift, Kotlin) | platform views | create, update, insert, destroy | renderer core on the UI thread |
| Native modules: `native_modules/registry.py` | pending calls, listeners | `call`, `call_async`, `dispatch_module_message`, `event_stream` | bridge |
| Query cache and stores: `query.py`, `store.py`, `storage.py` | entries, tasks, generations; values and listeners | subscribe, fetch, invalidate, set; set, update, batch | hooks, application loop, threads |
| Lists: `list_data.py`, `components/lists.py`, `native/core/src/lists.cpp` | keyed rows, change history; native rows | insert, update, remove, move, patches | hooks, commit channel |
| Navigation: `navigation/*.py` | route stacks, listeners, seeds, options | navigate, push, pop, reset, tab and drawer switches | hooks, host |
| Animation and gestures: `animated.py`, `gestures.py`, core | values, drivers, recognizers | start, cancel, events | commit channel, UI thread |
| Networking: `net.py`, `websocket.py` | connection state, queues | fetch, send, recv, ping, close | sockets, tasks |
| Dev loop: `devserver/*`, `devclient.py`, `hot_reload.py`, `refresh.py` | clients, snapshots, rpc calls, overlay files | hello, sync, reload, rpc, tunnel | sockets, threads, host |
| SDK, components, styles, CLI, templates, testing | declarations and code generation | - | - |

Threads: one application loop (asyncio) runs all Python of an app; an executor
thread runs `transport.commit`; the UI thread mounts and emits input; an events
thread hands native messages to the loop; the dev client, file watcher and
server have threads of their own.

What is hard, and what makes each part correct:

* **Commit channel.**  Several reconcilers share one surface.  An envelope
  names the revision it follows, the acknowledgement comes back asynchronously,
  the UI thread is ahead of it, and each of them can fail.  Correct when
  Python's mirror equals the core's tree whenever nothing is in flight, when no
  envelope is built on anything but the acknowledged tree, when every waiter is
  resumed exactly once, and when input neither overtakes nor precedes the
  handlers it is for.
* **Reconciler.**  State set at any time (during render, during an effect,
  while a commit is in flight, from a thread) must reach the screen, in the
  order it was set; a rejected commit must leave the last accepted tree.
* **Child lists and boundaries.**  A signal or an exception unwinds out of work
  that is half done.  Correct when no view, operation, hook state or request of
  that work is left or counted twice, when committed content survives, and when
  the content is shown in the end.
* **Screen host.**  A failed surface must be remounted once and never in a
  loop, whatever refreshes, destructions and commits are outstanding.
* **Query cache.**  One request per key; the answer of a superseded request
  never replaces newer data; a loading flag always ends.
* **Bridge and native modules.**  Input is coalesced on both sides of the bridge
  and must keep its order; a call that is cancelled while its answer travels
  must leave nothing behind.
* **Lists.**  The native rows equal the Python rows after any patch history,
  also when the history was trimmed; a row event names the row the user saw.
* **Navigation.**  Three stacks (the navigator's state, the state slot it renders
  from, UIKit's controllers) change on their own and must end alike; a guarded
  screen is asked before it goes.
* **Dev loop.**  Client files converge to the server's snapshot, and the code that
  runs is the code that was saved, also after a crash in the middle of a write.

`PROJECT.json` lists the hazards of the code one by one, each at its line.

## 2. The modules

| Module | Stands for | State in the module |
|---|---|---|
| `BridgeBackend` | `native_views/bridge_backend.py`, the commit steps of `reconciler/core.py`, `bridge/__init__.py` (`_on_event`), `native/core/src/{shadow,core,mount}.cpp` | `application`..`queuedEvents`: fields of BridgeBackend.  `ready`, `waiters`: the loop and the done callbacks of the commit's future.  `committing`..`handlers`: one entry per reconciler.  `worker`: the executor thread inside `transport.commit`.  `surface`, `mountQueue`, `mounting`, `mounted`, `requests`: the core and the UI thread |
| `SurfaceMirror` | what the channel promises | `core` and `mirror`: an application, a revision and a set of views each |
| `Reconciler` | one `Reconciler` on an asynchronous backend, with `hooks.py` setters, `use_transition` and `scheduler.py` | hook slots, dirty set, held inputs and requests, transition queue, the running callback (`phase`), what was staged and what is `shown` |
| `Suspense`, `ChildMoves` | `reconciler/boundaries.py` and `children.py`, the tree operations of `reconciler/core.py`, `use_resource`, `Surface::validate` | `tree` (the boundaries and their children), `hook` (hook states), `answer` and `watchers` (requests and their callbacks), `dirty`, the core's `view`, the `commit` in flight with its journal and publications |
| `ScreenHost` | `hosts/base.py`, `hosts/native.py` | `host`: a record per ScreenHost; `trees`: the reconcilers ever made; `backend`: the shared surface; `tasks`: the recoveries, refreshes and remounts the loop holds |
| `Mailbox` | `native_callback` and the continuous slots of `bridge/__init__.py`, the mailboxes of `PNBridge.swift` and `PNBridge.kt` | `mailbox`, `owed`, `draining` (native side), `ready` (the application loop) |
| `NativeModules` | `native_modules/registry.py` on `Mailbox`, with the promises of `PNNativeModule.swift` and `NativeModule.kt` | `promise`, `settling`, `running` (native side), `pending`, `task`, `listening` (Python) |
| `Lists`, `ListPatch` | `list_data.py`, `components/lists.py`, `native/core/src/lists.cpp` | the ListData and its journal, each mounted list's snapshot, packet and subscription, the native row store, the rows drawn |
| `ListMirror` | what a list promises | each list, the lists its packet carries, the list shown |
| `NativeStack` | `navigation/*.py` for a root stack, `PNScreenStackManager.swift` | `state`, the slot and the calls on their way to it, the commit, UIKit's `controllers`, the transition and the events between them |
| `DevSync`, `HotReload` | `devserver/watcher.py`, `server.py`, `devclient.py`, `hot_reload.py` | the project's files, the watcher's and the server's snapshots, the sessions, the overlay and its manifest on the device, the modules the application has loaded |
| `QueryClient` | `query.py` under `use_query` and `use_subscription` | entries and their order, tasks by number, who rendered and who subscribed |
| `MC...` | model values, symmetry and small instances | |
| `...Proofs` | the theorems of section 4 | |

**One callback, one or several steps.**  The application loop is a FIFO.  In
`BridgeBackend` every callback is one action (`Flush`, `Acknowledged`, `Resume`,
`OnEvent`, ...), and each hop between the executor's answer and the code that
awaits it is a callback of its own (`Completed`, `Acknowledged`, `Shield`,
`SubmitStep`, `Resolve`, `Resume`), because native input and other reconcilers
run in between.  In `Reconciler` one callback is several actions, told apart by
`phase`; nothing else of the loop runs until `phase` is "idle", only the
executor's `Answer`.  In the other modules a callback without an await is one
action, and one that awaits is an action for each part.  `ScreenHost` and
`Suspense` write such a callback as a function of a record (the `World`, the
work `w` of a pass), in which an exception or a signal is a field, so that what
a handler has already done when it raises stays done.

**Actions and code.**

* Channel: `Flush`, `Create`, `Unmount`, `MountAgain` are passes that end in
  `Submit` (`apply_mutations`), which starts the commit, queues behind the one
  in flight, or raises.  `ResetAndMount` and `ResetRefused` are a remount of a
  failed surface.  `CoreAccepts`, `CoreRejects`, `TransportError` and
  `WorkerReturns` are the executor; `MountNext`, `MountFinished`, `CoreWork` and
  `NativeEvent` the UI thread.
* Reconciler: `UserSet`, `StartTransition`, `Mount`, `Reconcile`, `Unmount`,
  `WaitForCommit` are calls of the application and the host.  `RunFlush`, `Drain`,
  `Submit`, `EffectSets`, `EffectsEnd` are a pass; `RenderRaises`, `EffectRaises`
  its failures; `RunResume`, `HeldUnmount`, `HeldElement`, `HeldNothing`,
  `ReplayInput`, `ReplayRaises`, `ReplayEnd` are `_resume_commit`.
* Child lists and boundaries: `Flush` is a pass, `Pass` its `_drain_dirty`: the
  error boundary that was reset, the Suspense boundary whose work completed, the
  application's component, the components of the content.  `Accept` and `Reject`
  end its commit; `Callback` is a completed request reaching the boundary or the
  component that waits; `Reset` the call an error's fallback was given.
* Screen host: `Create`, `Destroy`, `Update` (a render), `Restart` (the
  fallback's button), `Refresh` (changed code) are calls of the platform, the
  application and the dev client; `Answer` and `Submit` the surface,
  `ResumeSome`, `SurfaceFailed`, `RecoverSome` and `RunTask` the callbacks and
  tasks of the loop, `Elapse` a minute.
* Bridge: `Sample` is input of a view on the UI thread, `Register` Python's
  callback, `Transport` a native thread or the events thread in the mailbox,
  `DeliverSample` the handler.  Native modules: `Open`, `Cancel`, `Leave` are the
  task that iterates a stream, `Settle` and `Emit` native code, `Deliver` the main
  thread sending an answer; `DispatchAnswer`, `ResolveFuture`, `DispatchReading`,
  `Enqueue` and `Resume` are the turns of the loop that an answer or a reading
  takes.
* Lists: `Insert`, `Move`, `Update`, `Remove1`, `Clear`, `BatchBegin`,
  `BatchEnd`, `Replace` are the application's edits, `Reprops` and `Remount` what
  it does to the list; `Render` and `RenderWindow` are the list's renders,
  `Answer` the end of the commit with its effects (the subscription among them),
  `Emit` and `Deliver` a row event on both sides.
* Navigation: `Call` and `EffectCall` are `navigate`, `push`, `pop`, `replace`,
  `reset`... outside and inside of effects; `Flush`, `CoreAccepts`,
  `Acknowledged`, `EffectsEnd` the commit and what it held; `SwipeBegins`,
  `TapBack`, `SwipeCancelled`, `DidShow`, `Synchronize`, `MountNext` UIKit;
  `NativeBack` is `on_native_back`.
* Dev loop: `Save`, `RemoveFile` are the developer, `Watch` and `Serve` the
  server, `Client` the client's network thread, `Reload` the application's
  `apply_reload`, `Lose` and `Crash` the connection and the process ending.
* Query cache: `Render`, `Read`, `Subscribe`, `Abandon`, `Unsubscribe` are the
  life of a component; `Invalidate`, `InvalidateAll`, `SetData` are the client's
  calls; `Expire` is the clock passing the stale time.

**Composition.**  `BridgeBackend` composes the reconcilers' side of a commit, the
backend, the core and the UI thread.  The modules above it each take one side
of a commit in detail and see the other as an answer that may be a refusal:
`Reconciler` what is set and requested meanwhile, `Suspense` the tree and the
operations, `ScreenHost` the hosts that share the surface, `Lists` and
`NativeStack` the data that crosses it.  `ChannelDrains` justifies the weak
fairness of the answer in all of them.  `NativeModules` extends `Mailbox`, whose
queue carries view input and module messages alike; `DevSync` extends
`HotReload`; `Lists` is built on `ListPatch`, `Suspense` on `ChildMoves`, and these three
take positions and selections of a sequence from `Arrangements`.

## 3. What the runs check

| Run | Checks | Instance |
|---|---|---|
| `channel` | `MirrorAgreement`, `CommitsAgainstCoreRevision`, `ImplementsMirror` | 2 reconcilers, 2 tags, 3 passes, 1 event, 1 failure, 1 rejection, queue of 1, effects may raise; symmetric |
| `channel_liveness` | `ChannelDrains` | 2 reconcilers, 2 tags, 2 passes, 2 events, 1 failure, queue of 1 |
| `host` | `OneTree`, `BoundedRecovery`, `NewCodeShown` | 2 screens, development and release builds, 3 trees, 2 failures, 1 render, 2 code changes, 1 minute that passes; symmetric |
| `reconciler` | `EachUpdateOnce`, `UserOrder`, `NothingForgotten`, `CommittedTreeStays`, `HeldWhilePending` | 2 components, 2 calls, 1 effect that sets, 1 error, 1 rejection, 3 requests; symmetric |
| `reconciler_liveness` | `LastRequestWins`, `EventuallyShown`, `NothingHangs` | 1 component, 1 call, 1 effect and 1 render that set, 3 requests, 1 error, 1 rejection, 1 waiter |
| `suspense` | `MirrorsTree`, `OpsAccepted`, `OneStatePerElement`, `MovesMinimal`, `ContentSurvives`, `EventuallyRevealed` | contents of up to 3 keyed elements, 2 of which suspend; 3 changes, 1 change of deps, 1 failed request, 1 rejection |
| `query` | `OneSharedRequest`, `LoadingHasRequest`, `DataNeverGoesBack`, `CacheBounded` | 2 keys, 2 components, capacity 1, 3 requests, 3 mounts, 3 entries; symmetric |
| `lists` | `PacketsAccepted`, `PatchIsExact`, `CaughtUp`, `EventsNameTheShownRow`, `SendsWholeLists` | 2 keys (3 for `PatchIsExact`), 1 list, patches of at most 1 change, a journal of 2, 4 edits or other actions |
| `navigation` | `AskedBeforeRemoved`, `BackTakesTheSwiped`, `NativeFollows` | 2 screens, 3 routes, 2 calls, 1 call of an effect, 1 listener added or removed, 1 call whose listener navigates, 2 swipes or taps |
| `devsync` | `InSync`, `RunsTheSavedCode`, `SavesArrive` | 3 modules of which each may import a name of another that is known or still to come, one of them bundled with the application; 2 saves, removals or crashes, 2 connections |
| `native` | `InputInOrder`, `ReadingsWhole`, `NothingLeftBehind`, `EverythingArrives` | 1 stream, 1 other subscription of its event, 2 views (a gesture and another), 3 messages |
| `hidden_slot` | a violation of `OpsAccepted` (section 5) | a key that changes its type, beside a component that suspends |

**Why the bounds are enough.**  Two reconcilers make every order of "in flight",
"queued" and "another host's pass"; three passes let one queue, fail and
remount.  One deferred event with a queue of one reaches the limit as soon as
two are emitted (`channel_liveness`).  Two tags are a view that survives and one
that goes.  Two failures of the surface are the two recoveries a minute allows,
and two screens report a failure twice.  In `Reconciler` three requests are
mount, unmount and a replacement; the storm limit of 50 is 1 or 2, since its
code only counts.  In `Suspense` three elements are one that stays, one that has
rendered and one that suspends, in both orders, and three changes put any content
between two others; the pool of views, states and requests is never exhausted.
In the cache two keys over a capacity of one force evictions, two components
share and leave one entry, and three requests are one superseded, one current
and one more.  In `Lists` a journal of two changes expires after three edits,
and a patch limit of one makes both a patch and a reset of any longer difference.
Three routes are the root, the screen swept off and one pushed meanwhile.  Of the
three modules of the dev loop one is the entry, one is imported by it and one by that
one, or by both, or against the order of the reload; two events are a save and
what races it, a save of another module, a removal or a crash while it is written.
A second listener that navigates meets nothing the first does not.  One exception in
`reconciler_liveness` is enough to leave every path out of a pass.

**Symmetry** is used in safety runs only, over reconcilers, screens, components
and keys, which no definition orders.

**Deadlock** is not checked: a bounded run ends when its bounds are used up, and
an application that nobody touches has nothing to do.

**Fairness.**

* `channel_liveness`: `LoopStep`: asyncio runs the callbacks that are ready.
  `WorkerStep`: `transport.commit` returns or raises.  `MountNext`,
  `MountFinished`, `CoreWork`: the UI thread's run loop drains what was posted.
* `reconciler_liveness`: the loop (`LoopStep`) and the answer (`Native`).
* `suspense`: the flush that is due, the core's answer, completed requests and
  their callbacks; the first two are weak fairness with ENABLED written out, as
  the operations of a pass are costly to evaluate twice.  Requests and callbacks
  are started a bounded number of times, so one condition for all of a kind is
  as strong as one for each.  This is the one run that assumes something of
  application code: a request a component waits for ends, with a value or an error;
  without that a fallback stays for good, and rightly.
* `lists`: a batch is left, the list renders when it is due, commits are
  answered.  `navigation`: each callback of the loop, the core, the UI thread; a
  gesture that began ends, one way or the other.
* `devsync`: `Progress`: while the watcher, the server or the client's network
  thread have something to do, one of them does it; nothing says which, so the
  result does not depend on how threads are scheduled.  Reloads need no fairness,
  since what is loaded is the subject of a safety property only.
* `native`: the main thread, the mailbox and the loop.

But for the requests of `suspense`, nothing is assumed of users, the application,
failures, or whether native code and fetchers ever answer.  `host` and `query`
check safety only.

**What the properties say**, in one line each:

* `MirrorAgreement`: with no commit in flight and a sound surface, Python's
  revision and live tags are the core's.
* `CommitsAgainstCoreRevision`: an envelope that reaches the core follows the
  revision the core has, however long it was queued.
* `ImplementsMirror`: the channel is a refinement of `SurfaceMirror`.
* `ChannelDrains`: no commit and no deferred input waits forever.
* `OneTree`: a screen has one tree; what recoveries, reloads and destructions
  replaced is on its way out.
* `BoundedRecovery`: a release build recovers at most twice a minute.
* `NewCodeShown`: a host at rest shows the code that was loaded last.
* `EachUpdateOnce`, `UserOrder`: each update is applied once and in the order of
  the calls, through transitions, held inputs and rollbacks.
* `NothingForgotten`, `EventuallyShown`: state that is not on the screen has a
  flush coming, and reaches it unless a pass raised or was refused.
* `HeldWhilePending`: what a refused commit rolls back is what its render read.
* `LastRequestWins`, `CommittedTreeStays`: requests collapse to the last;
  failures leave the committed tree.
* `NothingHangs`: `wait_for_commit` returns and `is_pending` falls, but for two
  things that exceptions do: a pass that raises before its commit, or outside an
  acknowledgement, wakes nobody, and one that leaves an acknowledgement takes a held
  completion along.
* `MirrorsTree`, `OpsAccepted`: what a pass stages fits what the core has, and
  makes the surface equal the tree.
* `OneStatePerElement`: one hook state per element, mounted or kept, and no
  request without one; it says nothing once a commit was refused.
* `ContentSurvives`: committed content keeps its views and states while others
  suspend.
* `EventuallyRevealed`: the content asked for is shown in the end, or an error
  that nobody reset.
* `MovesMinimal`: the plan of child moves is right and as short as possible, for
  all orders of four children (`PlansAreMinimal`, evaluated once, at the start).
* `OneSharedRequest`: one wanted request per key, and only with subscribers.
* `DataNeverGoesBack`: a superseded fetcher's answer never replaces newer data.
* `LoadingHasRequest`: subscribers see loading exactly while a request runs.
* `CacheBounded`: over capacity only when all entries are in use; an entry in
  use is never dropped.
* `PacketsAccepted`: the native store never refuses a packet.
* `PatchIsExact`: a patch turns any list into any other.
* `CaughtUp`: a list at rest shows its source, and in each row its item.
* `EventsNameTheShownRow`: a row event names the row the user saw.
* `SendsWholeLists`: patches, resets and empty packets refine `ListMirror`, in
  which every commit carries the whole list.
* `AskedBeforeRemoved`: no route goes without its listeners having been asked.
* `BackTakesTheSwiped`: a native back removes what the user swept off.
* `NativeFollows`: UIKit ends where the navigator is, after vetoes and cancelled
  gestures too.
* `InSync`, `SavesArrive`: the device ends with the project's files, across lost
  connections and torn writes.
* `RunsTheSavedCode`: where the files can import one another, no imported module
  stays behind its file, unless an error is shown, no screen is mounted, or a file
  imports against the order of the reload.
* `InputInOrder`: coalesced input of a view arrives in the order it was made.
* `ReadingsWhole`: a stream yields each reading of its subscription once.
* `NothingLeftBehind`: a stream that has ended has left no call and no listener.
* `EverythingArrives`: an answered call does not stay pending, and the last
  sample of every view is handled.

Some properties name the exception under which the code does not keep them;
section 5 says what happens there.  Every property is broken by a small fault in
a mapped definition; the faulty forms (`LiveForAny`, `MutantFoldState`,
`MutantExpiredLate`, ...) stand beside the definition they distort and
`PROJECT.json` ("mutants") pairs them.  They take no part in the specifications.

## 4. What is proved

For every set of reconcilers, components, keys and screens and every value of the
bounds, from the assumptions named in the modules only:

| Theorem | Statement |
|---|---|
| `BridgeBackendProofs!TypeCorrect` | `Spec => []TypeOK` |
| `BridgeBackendProofs!Invariant` | `Spec => []IInv` |
| `BridgeBackendProofs!MirrorsAgree` | `Spec => []MirrorAgreement` |
| `BridgeBackendProofs!CommitsOnTheCore` | `Spec => []CommitsAgainstCoreRevision` |
| `BridgeBackendProofs!ChannelImplementsMirror` | `Spec => Mirror!Spec` |
| `ReconcilerProofs!CommittedTree` | `Spec => []CommittedTreeStays` |
| `ReconcilerProofs!StateHeld` | `Spec => HeldWhilePending` |
| `ReconcilerProofs!LastRequest` | `Spec => []LastRequestWins` |
| `ReconcilerProofs!FlushOnItsWay` | `Spec => []NothingForgotten` |
| `ReconcilerProofs!UpdatesInvariant` | `Spec => []UInv` |
| `ReconcilerProofs!OnceEach` | `Spec => []EachUpdateOnce` |
| `ReconcilerProofs!InUserOrder` | `Spec => []UserOrder` |
| `QueryClientProofs!QTypeCorrect` | `Spec => []TypeOK` |
| `QueryClientProofs!QOneRequest` | `Spec => []OneSharedRequest` |
| `QueryClientProofs!QDataNeverGoesBack` | `Spec => DataNeverGoesBack` |
| `QueryClientProofs!QLoadingHasRequest` | `Spec => []LoadingHasRequest` |
| `QueryClientProofs!QCacheBounded` | `Spec => CacheBounded` |
| `NativeStackProofs!SlotInvariant` | `Spec => []IInv` |
| `NativeStackProofs!RemovalsAsk` | `Spec => AskedBeforeRemoved` |
| `NativeStackProofs!BacksTakeTheSwiped` | `Spec => BackTakesTheSwiped` |
| `NativeModulesProofs!NothingStays` | `Spec => []NothingLeftBehind` |
| `NativeModulesProofs!ReadingsStayWhole` | `Spec => []ReadingsWhole` |
| `NativeModulesProofs!InputStaysInOrder` | `Spec => []InputInOrder` |
| `ScreenHostProofs!WorldsSound` | `Spec => []IInv` |
| `ScreenHostProofs!ScreensShowOneTree` | `Spec => []OneTree` |
| `ScreenHostProofs!RecoveryBounded` | `Spec => []BoundedRecovery` |
| `ScreenHostProofs!ReloadsReachScreens` | `Spec => []NewCodeShown` |
| `DevSyncProofs!LineSound` | `Spec => []IInv` |
| `DevSyncProofs!ClientsEndInSync` | `Spec => []InSync` |
| `DevSyncProofs!SavedCodeRuns` | `Spec => []RunsTheSavedCode` |
| `ListsProofs!PatchesAreExact` | `Spec => []PatchIsExact` |
| `ListsProofs!NoPacketIsRefused` | `Spec => []PacketsAccepted` |
| `ListsProofs!PatchesAreWholeLists` | `Spec => SendsWholeLists` |
| `ListsProofs!EventsNameShownRows` | `Spec => []EventsNameTheShownRow` |
| `ListsProofs!ListsCatchUp` | `Spec => []CaughtUp` |
| `ListsProofs!PlansMoveTheFewest` | `PlansAreMinimal`, of which `MovesMinimal` is the instance with four children |

**The channel.**  `MirrorAgreement` is not inductive: between an envelope and its
acknowledgement Python and the core differ, and the answer travels through four
places.  The strengthening has two parts.  `OneAnswer`: while a commit is in
flight, its answer is in exactly one place (the worker, a `completed` callback or
an `acknowledged` one), and in none otherwise, so no second acknowledgement can
be applied.  `Channel`: in each of those places, how the mirror, the envelope
and the core relate (equal, one commit apart, or of different applications).
Callbacks only move along the queue, which the `...Acked` lemmas state once for
appending, taking the head and splicing.  The refinement then follows by cases:
`CoreAccepts` is `Commit`, an accepted `Acknowledged` is `Acknowledge`,
`ResetAndMount` is `Reset`, everything else stutters.

**The reconciler.**  `CommittedTreeStays` speaks of the moments between callbacks.
Inductively, what is staged belongs to the root of the pass (`StagedTree`), the
root outside a pass is the acknowledged one or none (`SettledTree`), only a
commit in flight has a verdict (`VerdictPending`), and such a commit only coexists
with idle or replaying phases (`PendingPhases`).

**What the reconciler settles on.**  `LastRequestWins` and `NothingForgotten` speak of
the loop at rest, and rest is reached through a pass, its answer, its effects and
the requests that waited.  `SInv` (`ReconcilerProofs`) follows them all the way,
as long as nothing was raised or refused:
* `OneAnswer`: at most one "resume" is on the loop, and only for a commit that has
  its verdict, so an answer cannot be applied to a later commit.
* `Callers`: a held unmount or element exists only while a commit is in flight or
  while the callback of its answer is about to take it.  `Aimed`: what the held
  requests lead to, on top of what is staged, is the last request.
* `Passed`: what is staged is the root's, and is what is shown once it was
  acknowledged.
* `Marked`: a component that the last pass did not show is dirty.  `Scheduled`: a
  dirty component has a flush scheduled, or the pass goes on.  `FlushPosted`: a
  flush that is scheduled is on the loop, so no later request is swallowed by
  a stale flag.

`NothingForgotten` says nothing once a component has set state in its own render:
such an update is forgotten by the code (section 5).

**No update is lost.**  An update is in the slot of its component, in the deferred
queue behind it, or in a call that a commit in flight holds; a pass that is not
committed keeps a fourth copy, its journal, to which a refusal returns.  `UInv`
(`ReconcilerProofs`) keeps books of all four.
* `Ledger`: each slot, read as it will be once its deferred updates are replayed,
  has every update once and the user's in their order, before all that are held
  (`Slot`); so has each entry of the journal; and every live update is in its slot
  or held, now and after a rollback (`AllKept`).  A set that lands while work is
  deferred goes both into the slot and behind the base, so the slot alone would not
  show it: the invariant is about the replayed value, of which the slot holds a
  part.
* `Places`: calls are held only while a commit is in flight or its answer is
  being handled, and a journal exists only in a pass or for its commit.  So an
  update is applied at once only when no earlier one is held.
* `Newer`: an element that waited for an answer is newer than the one shown, so
  its pass has something to commit; without this the calls taken over by such a
  pass could pass its effects without being replayed.

Each action is one of six ways of moving updates (`Moving`, `Giving`, `Holding`,
`GivingHeld`, `RollingBack`, `Beginning`) or gives updates up (`GivingUp`), each
with its lemma.  The promise ends with the first exception, since a raising update
takes those behind it along; and an update that a component gives in its own
render is a part of its pass, so it goes when the core refuses that pass (`Live`).

**The cache.**  A task that is still wanted has its entry's identity and
generation, and asked later than the entry's data (`Wanted`); a task that was
cancelled has lost one of the two for good, since generations only grow and
identities are never reused (`Unwanted`).  So the check in `run()` lets exactly the
wanted answer through.  `LoadingHasRequest` needs more than what it says
(`Settled`): that fresh data is never loading, subscribed or not, since the next
subscriber joins such an entry without starting a request.  `CacheBounded` rests on
the order of the entries being strict and the cache finite (`Order`): then an
idle entry that survives a new one has a least idle survivor at or before it, all the
idle entries before that one are gone, and they were enough.

**Navigation.**  A replayed call and a render write the slot, and a native back
writes the state, none of them asking anybody.  They are harmless because the
last value on its way to the slot (held, or the slot itself) is the state the
handles act on: that is the invariant, until an effect navigates while an
earlier call is held.  From then on the step is excepted by `overtaken`.  A listener
that is asked may navigate itself, and the call then goes on from the stack the
listener left: what leaves in that step may be other routes than were asked, and the
step is excepted (`reroutes`).  The invariant covers it all the same, with
stacks whose keys rise (`Stacks`), of which `Popped`, `Pushed` and what the call makes
of them are some more (`ReroutedStacks`).

`BackTakesTheSwiped` compares the routes a count takes off with the screens UIKit
lost, so the invariant (`NavInv`) goes the whole way between the two.  `StackKeys`:
no stack of the loop, held ones included, has a key twice or one that was not
made yet.  `ScreenKeys` carries that to the views that are rendered, posted, mounted
and shown.  `SwipePops`: a transition that is not the stack's own is one screen off
what UIKit showed when it began, until it ends.  `BacksName`: an event names at
least one screen, and when it left with the stack it saw, all that its count
takes off that stack.  Keys are distinct, so the screen swept off is not among
those still shown, which is what makes the event name it.

**Native modules.**  Three invariants over the same steps, for every set of streams,
of other subscriptions of their event (`NativeAssumption`: they are not streams)
and of views.
* `Honest` and `Stage`, for `NothingLeftBehind`: an answer on its way agrees with
  what became of the native promise, and each stage of a stream's task leaves few
  states of the promise, the call table and the listener.
* `Accounted`, for `ReadingsWhole`: what was yielded, what was put aside while the
  subscription id was not known, the two legs through the loop and the mailbox
  are, one after the other, all the readings of the subscription.  Each step moves
  a reading over one of these borders; the moves are lemmas on `FlattenSeq`,
  with which a queue is read as what its entries carry.
* `Ordered` and `SlotsLast`, for `InputInOrder`.  Read from the loop's end to the
  mailbox's, the samples of a view grow from the one shown to the one sent last,
  and a gesture's end or a module message stands between the samples sent before
  and after it.  Coalescing takes an entry out of this row and puts a newer one at
  the place of the slot; it does no harm because an open slot has no discrete
  message behind it (`SlotsLast`).  What each operation does to the row is said
  once (`Follows`: which entries of the old row remain, where, and which was
  replaced), and `OrderedFollows` carries the order over.

**Screen hosts.**  A handler is a chain of operators from world to world (`Unmount`,
`Reset`, `Begin`, `Spawn`, ...), so the invariant `HInv` is one of worlds and each
operator has a lemma that it preserves it.  A handler passes through worlds that
are no state between two turns of the loop; `HInv` has a parameter for each way in
which they differ: the tree that is about to be unmounted, the screens refreshed
since the code changed, and the task about to end.
* `OneTree` needs two more facts, since what replaces a tree does not look for
  others.  A remount waits only for a tree that has been told to go (`Leaving`), so
  the tree it puts in place is the only one; and an unmount is put off only behind
  a commit (`PutOff`), whose answer makes it.  So a tree that renders is its
  screen's, and has no remount waiting for it (`Updatable`).
* `BoundedRecovery` follows from what each flag allows: no recovery without
  `recent`, one without `gaveUp` (`Counted`).
* `NewCodeShown` is about a screen with nothing under way.  In between it has the
  new code, an error, or a task that is not cancelled and will act on the tree that
  is shown (`Fresh`); a task whose screen went on to another tree brings nothing
  (`Renews`).  The reload itself is a fold over the hosts; `FoldKeeps` goes
  through its table by induction on the largest place, and needs that every screen
  with a tree is on the list (`Listed`).
A failed surface is no exception to `NewCodeShown`: whoever leaves the old code there
shows an error.

**Dev loop.**  `InSync` speaks of the moment when nothing is under way, and what is
under way to a device is held by three threads.  `IInv` (`DevSyncProofs`) reads it as
one sequence, `Line`: the message being applied, those in the connection, those
posted to the server's loop.
* `Arriving`: for each file, the content that the last message of the line leaves in
  it `Fits` what the watcher has seen.  Messages carry the bytes of the moment they
  are made, not those the watcher compared, so a content may be too old or too new; it
  fits all the same, since the disk then differs from what the watcher has seen and
  the next poll reports the file.  Here the proof needs that a content is never
  saved again (`Fresh`); section 5 says what happens otherwise.
* `Arrived`: a file no message of the line writes fits on the device already.  Until
  a change is announced (`Due`), neither has to hold for its files.
* A client that has connected and not been answered has told its files (`NetOK`), so
  the answer is the difference from the snapshot; only the broadcasts behind those
  it let pass (`after`) follow the answer.  A message that is lost or torn
  half-way leaves the client with files that its next hello names.
* `Versions`: the last message of the line names the watcher's version; with the line
  empty, the client has it.

`RunsTheSavedCode` adds `CodeRuns`: with no reload waiting and no message half-way, a
mounted application without an error runs what is on the device, if its files are
`Whole`: each is there, and the names it imports are in files that come before it in
the order of the reload.  A reload is a table over its targets, of which induction shows
that after k of them (`Half`) each module of a whole set that had its turn is as its file
has it, and none that was not imported before is loaded in another way, unless the
reload ends with an error.  A module that executes imports others, and these
others in turn: that it finds all of them (`PullsAll`) is an induction over the places
in `Order`, since each of them comes before the one that asks for it.  That a dependent
finds the modules before it reloaded follows from the order of the targets
(`ThoseInOrder`, `TargetsAre`).  A file that is torn or gone is no member of a whole
set; an application that a crash starts on it either mounts no screen or loads what the
files have (`StartedType`).  Saves that import against the order are not excluded from
the specification or from the run: while they last the property is silent, and once the
files are in order again the reload of that save mends what was left old.

**Lists.**  `ListsAssumption` asks for a journal that holds at least one change, for
an application that uses neither key of the decoration (with a header, `_prepare_snapshot`
raises at such a key; `_prepare_incremental` does not look), and for finite sets of
keys, since the inputs are enumerated from them.  The proof has three layers.
* What one change does.  `Takes` says that the store accepts a change and what it
  makes of its rows; `Plays`, that it accepts a packet's changes one after the other
  and ends with given rows.  `SequencePatchIs` shows this for the scanning adapter:
  the updates, the deletions, and then the pass in which the working order holds the
  new keys before the row at hand and the old ones that are still to come
  (`PlaceWorks`).  A row that was moved is found again, because both lists name each
  key once.
* What the journal says.  A dataset of the ListData `Follows` its source when the changes
  after it are still known and lead, one by one and shifted by the header, from its rows
  to those of now.  It does not say that the rows are equal: the row of an empty list is kept or
  left out as the dataset was made (`Shown`), since `_prepare_incremental` patches
  only while that is unchanged.  An edit adds a change to each such path, a clear
  or a trimmed journal ends it (`FollowsStep`), and `_changes_since` is known only where one is
  (`KnownChanges`).
* What a list sends.  `IInv`: the native store has the rows and the revision of the last
  commit's dataset and takes the packet under way, which leads to the dataset of the last
  render (`Books`); a row event is of an older revision or names a row that the
  store still has (`Recalls`).  `PacketsAccepted` and the refinement follow.
  `EventsNameTheShownRow` needs that a dataset at the source's revision shows the
  source as it is (`Unchanged`), and that its position is read through the same
  decoration (`ReadsTheShownRow`).

`CaughtUp` has an invariant of its own, `SInv`.  A list that is not to render
observed the last revision, unless a batch has still to announce it or the list does not
listen yet, and in that case its effect compares once more (`Heard`).  A row
component was drawn from its item as it is or from an earlier revision of it, unless the item
left since the last render (`Current`); of a sequence, from the copy in
the dataset (`DrawsCopies`).  That an unchanged revision means an unchanged item
is then all that the memoized rows need.  A snapshot that prepares nothing new still has
to copy the sequence as it is, which follows from its revisions: they go on when
anything in a row changed (`SnapshotMatches`).

**Child moves.**  `PlansMoveTheFewest` is proved for every finite set of tags, in the
module that has the lemmas about insertions and removals.  It has two halves.  The
patience sort gives each position a rank, the pile it went to (`PilesHold`): the tops of
the piles rise, a position before and below another has a lower rank, and the pile before
links each position to one that is a rank lower, earlier and below it.  So the ranks tell
the positions of an ordered part apart, and none has more than there are piles
(`RunsAreRanked`), while the links from the last pile make an ordered part with just as many
(`ChainIs`).  The plan keeps that part where it is.  After i rounds the last i children of
the order asked for are in their places among each other and among the kept ones, the
insertions so far lead there, and there is one for each of the i that is not kept
(`PlanHolds`); what holds the same children in the same order is the same (`SameOrder`).

**Inductions.**  What a recursive function yields is shown by induction over the set of
lengths, or of places, at which it does (`NatSetInduction`): `FlattenSeq` at an appended
entry and at a tail, the selection of the elements of a set from a sequence (`Those`),
the table of a reload, the passes of a patch and its replay by the store, the piles of the
patience sort and the chain through them, the rounds of a plan.

**Only model-checked**: all liveness, which needs ENABLED and is out of the
prover's reach (`NativeFollows` too); the invariants of `Suspense`, but for what
`MovesMinimal` says of the plans.  What the folds of `Suspense` compute are inductions
over data: a fold whose step is a whole handler has no such small table as `FlattenSeq`
has.  And its `Free` names the least unused view or state, which is there only while
`Size` is large enough for the contents: the invariants are not true of every value of
the constants.

## 5. Findings

**`hidden_slot`** is refuted by a run.  A child that changes its type under its key
is destroyed as soon as its replacement is built; when a later sibling suspends,
`_hide_suspense_content` keeps it in the list and hides it, and the core refuses
the commit (`reconciler/boundaries.py:322`; against boundaries.py:291).

The models contain the behaviours below too; properties they contradict say so
in their exceptions, so that the rest of the promise is still checked.  Those
marked (m) follow from the models and the code as read; the others were
reproduced on the Python code.

Commit channel
* `release_events` re-queues deferred input behind input already on the loop; of
  two presses of one view the second is delivered and the first dropped as a
  replay (`native_views/bridge_backend.py:420`).
* With two hosts, the end of one host's pass releases input of a commit the other
  has not published; it finds no handler and is lost (`bridge_backend.py:410`).
* A rejection that is acknowledged after `surface_failed` sets `_failed` back to
  False, without a remount (`bridge_backend.py:341`; against
  docs/concepts/bridge.md:143-145).
* (m) A mount failure of an application that was already replaced fails its
  successor's surface: the request names only the surface
  (`native/core/src/core.cpp:317`).

Screen host
* `_full_remount` unmounts before it resets: on an idle failed surface the
  unmount raises and the recovery ends there; with a commit pending the task
  that waits for it is never woken (`hosts/base.py:597`, `reconciler/core.py:493`).
  This is why no property says that a surface recovers.
* (m) One failure is counted twice when the core and the refused commit report
  it; a second host takes over `on_surface_failed` (`hosts/base.py:335`); after a
  reset the other hosts' trees are refused and recover in turn.

Reconciler
* The limit of fifty passes restarts with every asynchronous commit, so an effect
  that always sets state renders forever (`reconciler/core.py:362`).
* A setter called during its component's own render changes the state, but the
  dirty flag is cleared when the body returns: no render and no error
  (`core.py:921`; against docs/concepts/hooks.md:508-510).  `EventuallyShown`
  excepts it.  If the core refuses that pass, the update is gone.
* Effects of the acknowledged commit set state before the inputs queued earlier
  are replayed (`core.py:474`).  `UserOrder` orders calls of callbacks only.
* A held update function that raises drops the ones held behind it
  (`core.py:501`); so does a queued element whose pass raises in the acknowledgement
  (`core.py:499`).  When the completion of a transition is among them, `is_pending`
  stays True; `NothingHangs` excepts it.
* A render that raises before its commit, or an effect that raises outside an
  acknowledgement, leaves tasks in `wait_for_commit` asleep
  (`core.py:410`).  `NothingHangs` excepts the task that sleeps with nothing left to do.
* A transition started during a commit is rendered with `is_pending` already
  False (`hooks.py:1198`).

Boundaries
* A boundary attempted twice in one pass detaches the state it has just taken up
  again: the setters of the mounted component no longer render
  (`core.py:1346`; against hooks.py:197).
* When one of two kept components fails on the retry, the state of the other is
  neither taken up nor cleaned up, and its request runs on, also after the
  boundary is unmounted (`_retry_hidden_suspense_content` has emptied
  `suspense_hydration` before the attempt).  `OneStatePerElement` excepts runs in
  which a request failed from its last conjunct.
* A retry after a suspension whose commit is refused leaves the fallback on
  screen; a retry after `reset()` whose commit is refused leaves the error on
  screen with a `reset` that no longer does anything, as `node.error` is None
  already (`boundaries.py:156`).  `EventuallyRevealed` excepts refused commits.
* A refused commit leaves the request that its pass started for a mounted
  component running beside the one the rollback restores.

Lists, navigation
* An item removed and inserted again under its key between two renders keeps the
  row drawn before: its revision starts at 1 again (`list_data.py:145`; against
  docs/guides/lists.md:41-42).  `CaughtUp` excepts it.
* (m) A window that renders while a batch is held open across an await can read
  past the end of the source (`components/lists.py:580`); a changed
  `item_height` with an unchanged ListData sends nothing.
* A push held behind a commit and a push by an effect of that commit: the replay
  of the first overwrites the slot, and the effect's route goes without its
  `before_remove` listeners (`core.py:474`; against
  docs/guides/navigation.md:382).  `AskedBeforeRemoved` excepts it.
* (m) A `before_remove` listener that navigates: the call that asked goes on with
  the stack it finds, so a pop removes as many routes from another stack, and a route
  goes whose listeners were not asked (`navigation/handle.py:429`; against
  docs/guides/navigation.md:382, "fires for every removal").  When the listener of a native
  back navigates, the state is another than before although it may end up with all
  the routes rendered last, and the stack is not told to go back, as
  `core.state is before` compares identities (`navigators.py:649`).
  `AskedBeforeRemoved`, `BackTakesTheSwiped` and `NativeFollows` except these steps.
* (m) A native back that undoes a push before it was rendered leaves UIKit popped
  (against docs/guides/navigation.md:388-390); `NativeFollows` excepts it.
  `on_native_back` has a count and names no route, so a swipe that races another
  call removes another screen; `BackTakesTheSwiped` excepts a stack that changed
  meanwhile.  `reset(index=...)` may leave the active route below the top
  (against `navigation/state.py:5`).

Native modules, dev loop, cache
* A stream that is cancelled after native code has answered, but before the
  answer arrived, never calls `stop`: its native subscription stays open
  (`native_modules/registry.py:557`).  `NothingLeftBehind` excepts cancelled
  streams from that.
* A module can be executed before the changed module it imports from, since the
  order of a reload is by depth and name: a changed one then shows an error for code
  that is right, and a dependent stays old without one; the next save of the entry
  module clears the error while the old code still runs (`hot_reload.py:277`; against
  hot_reload.py:227-235).  `RunsTheSavedCode` excepts files that import against that
  order (`InOrder`).
* Removing a module together with an edit makes the reload raise before the edit
  is loaded; with no mounted host nothing is reloaded; a stale `.pyc` is loaded
  when two saves of one size land within a second.
* A message carries the bytes of the moment it is made, and polls compare digests:
  an edit made after a poll and undone after the message is on the device and never
  corrected (`devserver/watcher.py:143`) (m).
* A fetcher whose inner await was cancelled leaves subscribers loading with no
  request (`query.py:103`).  `LoadingHasRequest` excepts it.
* A query entry evicted between its first render and its subscription is created
  again without its initial value (`query.py:74`).

Read in the code of parts that have no module, and not reproduced:
`use_persisted_state` whose key changes keeps `touched` and writes the old key's
value under the new one (`storage.py`); a store listener that raises stops the
notification of those after it (`store.py:139`); the send of a WebSocket ping is
outside its timeout and waits for the write lock, and a pong answers waiters
whose ping has not been sent (`websocket.py`).

## 6. Simplifications

* In `BridgeBackend` a batch is the sets of tags it creates, updates and destroys;
  at most one creation per pass.  Payloads, properties and child positions are
  left out (`Suspense` has positions).  Tags are never reused, as in the code.
* Only the asynchronous commit path is modelled; no platform transport takes the
  synchronous one.
* The application id is a count instead of a uuid.  Each view has one event
  name.  Native delivery is an append to the loop's queue.
* A pass's two points that flush effects are one; a pass with no operation
  commits nothing.
* In `Reconciler` a component has one state slot and one transition flag, every
  update appends its number (so a value is its own history), the answer's hops
  are one callback, and the surface does not fail.  Setters of a tree whose
  unmount has begun, and setters during a first render, are left out.
* In `Suspense` a component reads one resource and renders one native view; there
  is one boundary of each kind, both with a fallback.  Views, states and requests
  that nothing refers to are used again.  The shortcut for an element that is the
  one rendered before (`core.py:1088-1092`) is left out: a clean component
  is rendered again where the code returns early, with the hook states it has.
* In `ScreenHost` a tree is reduced to its commits: whether it has a root, was
  asked to unmount, renders, and which code it shows.
* In `QueryClient` a value is the number of its request, time is `Expire` at any
  moment, listeners are those of the hooks (they read the snapshot and never
  call back into the cache), and all calls run on the loop thread.
  `invalidate()` gives the requests it starts one number, as they belong to
  different keys.
* In `Lists` a row is its key and its item's revision; extents and sticky flags
  travel with it.
* In `NativeStack` a transition that is not animated reports `didShow` at once,
  and the hop of a tap on an unguarded back button is part of the tap.  A
  listener that navigates makes one push or one pop, and what it sets in the slot before
  the call that asked sets it again is not kept.  The key of a route it pushed and the
  call discarded is used again.
* In `NativeModules` a call id and its subscription id are one name, the other
  listeners' subscriptions are open all along, calls that the UI thread makes
  synchronously wait for posted answers, and a stream's queue is not separated
  from what the application took out of it.
* In `DevSync` a content is never saved again (a save and its undo between two
  polls is no change), and the device's disk takes every write.  A saved module imports
  at most one name of one other module, by `from ... import`, and never one of the entry
  module.  A reload is one step: it reads the overlay as it is then, not file by file
  while the network thread writes the next message.

## 7. What is not modelled

Each component of section 1 without a module, and what the modules leave out of
the others, is listed in `PROJECT.json` with its reason.  In short: layout,
animation, styles and properties compute with reals; native managers and the
codec are calls and data; icons, tooling, templates and the CLI, which are a
large part of the sources, are declarations or sequential and keep no state at
run time.

Of the parts that do keep state: stores and persisted state, the WebSocket, the
outbox, rpc and hub of the dev server, nested navigators, tabs, drawers and deep
links, Android's native stack (it reports one back at a time and has no gesture
of its own), commands and the layout channel, gestures' arbitration, nested
boundaries and errors of effects, `SectionList` and grids.

## 8. The plan

In the order of what would hurt an application most:

1. `Store` and `PersistedState` (a load against a write, a batch against a writer
   on another thread), and `WebSocket` (ping, pong and close against the reader).
2. Nested boundaries and errors of effects in `Suspense`; a suspension that
   starts deeper in the content.
3. Nested navigators and deep links over `NativeStack`; Android's stack.
4. The outbox and rpc of `DevSync`; the commands and layout answers of the
   channel.

Theorems next: the tree invariants of `Suspense`, once their folds are written as tables
that induction can go through.
