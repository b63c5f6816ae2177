----------------------------- MODULE Reconciler -----------------------------
(***************************************************************************)
(* One Reconciler on an asynchronous backend: state setters, transitions,  *)
(* passes, the wait for the native acknowledgement, and what is replayed   *)
(* when it arrives.                                                        *)
(*                                                                         *)
(* A component has one use_state slot and one use_transition flag.  Every  *)
(* update is a functional one (append my identity), so the value of a slot *)
(* is the history of the updates applied to it.  Trees and root elements   *)
(* are numbered; 0 is None.                                                *)
(*                                                                         *)
(* A callback of the application loop is atomic in the program and a       *)
(* sequence of steps here: phase says where it stands, and nothing else of *)
(* the loop runs before phase is "idle" again.  The surface itself never   *)
(* fails here (BridgeBackend and ScreenHost model that).                   *)
(***************************************************************************)
EXTENDS Naturals, Sequences, FiniteSets, SequencesExt, TLC

CONSTANTS
  Components,
  StormLimit,      \* MAX_RENDER_PASSES (50)
  MaxUpdates,      \* bound: setter calls of callbacks and transitions
  MaxEffectSets,   \* bound: setter calls of effects
  MaxRenderSets,   \* bound: setter calls of a component during its own render
  MaxErrors,       \* bound: exceptions of renders, effects and queued updates
  MaxRejections,   \* bound: commits the core refuses
  MaxRequests,     \* bound: mount, reconcile and unmount calls
  MaxWaits         \* bound: calls of wait_for_commit

ASSUME LimitPositive == StormLimit \in Nat \ {0}
ASSUME BoundsInNat ==
  /\ MaxUpdates \in Nat /\ MaxEffectSets \in Nat /\ MaxRenderSets \in Nat
  /\ MaxErrors \in Nat /\ MaxRejections \in Nat /\ MaxRequests \in Nat
  /\ MaxWaits \in Nat

VARIABLES
  \* hook states of the mounted tree
  value,               \* HookState.states: updates applied to the slot
  busy,                \* the slot of use_transition's is_pending
  queue,               \* _state_queues: base and updates of deferred work
  \* Reconciler
  root,                \* the tree in self.root
  dirty,               \* _dirty_nodes
  covered,             \* those whose _dirty flag a finished render cleared
  renderQueued,        \* _render_queued
  flushScheduled,      \* _flush_scheduled
  pending,             \* _pending_future is not None
  inputs,              \* _pending_inputs
  queuedElement,       \* _queued_element
  unmountRequested,    \* _unmount_requested
  storm,               \* _storm
  journal,             \* the uncommitted pass's snapshots, by component
  waiter,              \* one task in wait_for_commit, via _idle_waiters
  \* TransitionQueue
  triggers, completions, transitionScheduled,
  \* the application loop and the callback it is running
  ready, phase,
  caller,              \* whether a pass runs inside _resume_commit
  replaying,           \* the inputs _resume_commit still has to call
  \* what the pass staged, what native acknowledged, and its verdict
  staged, shown, verdict,
  \* history, and counters of the bounds
  origin,              \* every update: its component, its tree, its caller
  wanted,              \* the element of the last mount or reconcile call
  trees, effectSets, renderSets, errors, rejections, requests, waits

hookVars  == <<value, busy, queue>>
passVars  == <<renderQueued, flushScheduled, pending, storm, journal>>
heldVars  == <<inputs, queuedElement, unmountRequested>>
laterVars == <<triggers, completions, transitionScheduled>>
stepVars  == <<phase, caller, replaying>>
paintVars == <<staged, shown, verdict>>
countVars == <<effectSets, renderSets, errors, rejections, requests, waits>>
vars == <<hookVars, root, dirty, covered, passVars, heldVars, waiter, laterVars, ready,
          stepVars, paintVars, origin, wanted, trees, countVars>>

NoQueue  == [open |-> FALSE, base |-> <<>>, updates |-> <<>>]
NoTree   == [tree |-> 0, element |-> 0, value |-> [c \in Components |-> <<>>],
             busy |-> [c \in Components |-> FALSE]]
Call(kind, c, u) == [kind |-> kind, of |-> c, update |-> u, tree |-> root]
NextUpdate == Len(origin) + 1

Idle      == phase = "idle"
Rendering == pending \/ phase \in {"drain", "effects"}
Unsettled == pending \/ dirty # {} \/ flushScheduled

Init ==
  /\ value = [c \in Components |-> <<>>] /\ busy = [c \in Components |-> FALSE]
  /\ queue = [c \in Components |-> NoQueue]
  /\ root = 0 /\ dirty = {} /\ covered = {}
  /\ renderQueued = FALSE /\ flushScheduled = FALSE /\ pending = FALSE
  /\ inputs = <<>> /\ queuedElement = 0 /\ unmountRequested = FALSE
  /\ storm = 0 /\ journal = <<>> /\ waiter = "none"
  /\ triggers = <<>> /\ completions = <<>> /\ transitionScheduled = FALSE
  /\ ready = <<>> /\ phase = "idle" /\ caller = "loop" /\ replaying = <<>>
  /\ staged = NoTree /\ shown = NoTree /\ verdict = "none"
  /\ origin = <<>> /\ wanted = 0 /\ trees = 0
  /\ effectSets = 0 /\ renderSets = 0 /\ errors = 0 /\ rejections = 0
  /\ requests = 0 /\ waits = 0

----------------------------------------------------------------------------
(* Scheduling.  Each operator says what one call appends to the loop. *)
FlushCall(wanting) ==
  IF wanting /\ ~Rendering /\ ~flushScheduled THEN <<"flush">> ELSE <<>>
RequestRenderEagerly(wanting) ==
  flushScheduled' = (flushScheduled \/ wanting) /\ UNCHANGED renderQueued
RequestRender(wanting) ==
  /\ renderQueued' = (renderQueued \/ (wanting /\ Rendering))
  /\ flushScheduled' = (flushScheduled \/ (wanting /\ ~Rendering))

TransitionCall == IF transitionScheduled THEN <<>> ELSE <<"transition">>

(* _settled: the task in wait_for_commit is woken, with an error or not. *)
SettleErrors(how, calls) ==
  IF waiter = "waiting" /\ how = "raised"
    THEN waiter' = how /\ ready' = Append(calls, "waiter")
    ELSE ready' = calls /\ UNCHANGED waiter
Settle(how, calls) ==
  IF waiter = "waiting" THEN waiter' = how /\ ready' = Append(calls, "waiter")
                        ELSE ready' = calls /\ UNCHANGED waiter

(* defer_input: setters and replays are held while a commit is in flight. *)
DeferNothing == FALSE
DeferInput == pending
HoldFirst(e) == <<e>> \o inputs
Hold(e) == Append(inputs, e)

(* The body of a setter once no commit is in flight (apply, flush). *)
ApplySet(c, u) ==
  /\ value' = [value EXCEPT ![c] = Append(@, u)]
  /\ queue' = IF queue[c].open
                THEN [queue EXCEPT ![c].updates = Append(@, u)] ELSE queue
  /\ dirty' = dirty \cup {c}
  /\ RequestRender(TRUE) /\ ready' = ready \o FlushCall(TRUE)
  /\ UNCHANGED <<busy, laterVars>>

Deferred(c, u) ==
  [queue EXCEPT ![c] =
     [open |-> TRUE, base |-> IF queue[c].open THEN queue[c].base ELSE value[c],
      updates |-> Append(queue[c].updates, u)]]
Trigger(c) ==
  IF queue[c].open \/ Contains(triggers, c) THEN triggers ELSE Append(triggers, c)

ApplyDefer(c, u) ==
  /\ queue' = Deferred(c, u)
  /\ triggers' = Trigger(c)
  /\ transitionScheduled' = (transitionScheduled \/ ~queue[c].open)
  /\ ready' = ready \o (IF queue[c].open THEN <<>> ELSE TransitionCall)
  /\ UNCHANGED <<value, busy, dirty, completions, renderQueued, flushScheduled>>

ReplayedOnTop(cs) ==
  [c \in Components |-> IF c \in cs /\ queue[c].open
                          THEN value[c] \o queue[c].updates ELSE value[c]]
Replayed(cs) ==
  [c \in Components |-> IF c \in cs /\ queue[c].open
                          THEN queue[c].base \o queue[c].updates ELSE value[c]]
ApplyReplay(c) ==
  LET changed == Replayed({c})[c] # value[c] IN
  /\ value' = Replayed({c})
  /\ queue' = [queue EXCEPT ![c] = NoQueue]
  /\ dirty' = IF changed THEN dirty \cup {c} ELSE dirty
  /\ RequestRender(changed) /\ ready' = ready \o FlushCall(changed)
  /\ UNCHANGED <<busy, laterVars>>

ApplyBusy(c, flag) ==
  LET changed == busy[c] # flag IN
  /\ busy' = [busy EXCEPT ![c] = flag]
  /\ dirty' = IF changed THEN dirty \cup {c} ELSE dirty
  /\ RequestRender(changed) /\ ready' = ready \o FlushCall(changed)
  /\ UNCHANGED <<value, queue, laterVars>>

Apply(e) ==
  \/ e.kind = "set" /\ ApplySet(e.of, e.update)
  \/ e.kind = "defer" /\ ApplyDefer(e.of, e.update)
  \/ e.kind = "replay" /\ ApplyReplay(e.of)
  \/ e.kind \in {"busy", "rest"} /\ ApplyBusy(e.of, e.kind = "busy")

----------------------------------------------------------------------------
(* Application callbacks between two turns of the loop. *)
Calls == Cardinality({i \in DOMAIN origin : origin[i].by = "user"})
Issue(c, by) ==
  origin' = Append(origin, [of |-> c, tree |-> root, by |-> by])

UserSet(c) ==
  /\ Idle /\ root # 0 /\ Calls < MaxUpdates
  /\ Issue(c, "user")
  /\ IF DeferInput
       THEN /\ inputs' = Hold(Call("set", c, NextUpdate))
            /\ UNCHANGED <<hookVars, dirty, renderQueued, flushScheduled,
                           laterVars, ready>>
       ELSE ApplySet(c, NextUpdate) /\ UNCHANGED inputs
  /\ UNCHANGED <<covered, root, pending, storm, journal, queuedElement, unmountRequested,
                 waiter, stepVars, paintVars, wanted, trees, countVars>>

(* start_transition: set_pending(True), the deferred setter, on_complete. *)
StartTransition(c) ==
  /\ Idle /\ root # 0 /\ Calls < MaxUpdates
  /\ Issue(c, "user")
  /\ completions' = Append(completions, c)
  /\ transitionScheduled' = TRUE
  /\ IF DeferInput
       THEN /\ inputs' = inputs \o <<Call("busy", c, 0), Call("defer", c, NextUpdate)>>
            /\ ready' = ready \o TransitionCall
            /\ UNCHANGED <<hookVars, dirty, renderQueued, flushScheduled, triggers>>
       ELSE /\ busy' = [busy EXCEPT ![c] = TRUE]
            /\ dirty' = IF busy[c] THEN dirty ELSE dirty \cup {c}
            /\ RequestRender(~busy[c])
            /\ queue' = Deferred(c, NextUpdate)
            /\ triggers' = Trigger(c)
            /\ ready' = ready \o FlushCall(~busy[c]) \o TransitionCall
            /\ UNCHANGED <<value, inputs>>
  /\ UNCHANGED <<covered, root, pending, storm, journal, queuedElement, unmountRequested,
                 waiter, stepVars, paintVars, wanted, trees, countVars>>

(* TransitionQueue.flush: the triggers in one batch, then the callbacks.   *)
(* While a commit is in flight each of them becomes a queued input.        *)
Replays == [i \in DOMAIN triggers |-> Call("replay", triggers[i], 0)]
AllRests == [i \in DOMAIN completions |-> Call("rest", completions[i], 0)]
RestsAfterReplays == IF triggers = <<>> THEN <<>> ELSE AllRests
Rests == AllRests

RunTransition ==
  LET replayed == Replayed(ToSet(triggers))
      rested   == {c \in ToSet(completions) : busy[c]}
      changed  == {c \in Components : replayed[c] # value[c]} \cup rested
      live     == transitionScheduled /\ ~DeferInput
  IN
  /\ Idle /\ ready # <<>> /\ Head(ready) = "transition"
  /\ transitionScheduled' = FALSE /\ triggers' = <<>> /\ completions' = <<>>
  /\ inputs' = IF transitionScheduled /\ DeferInput
                 THEN inputs \o Replays \o Rests ELSE inputs
  /\ IF live
       THEN /\ value' = replayed
            /\ queue' = [c \in Components |->
                           IF Contains(triggers, c) THEN NoQueue ELSE queue[c]]
            /\ busy' = [c \in Components |-> busy[c] /\ ~Contains(completions, c)]
            /\ dirty' = dirty \cup changed
            /\ RequestRender(changed # {})
            /\ ready' = Tail(ready) \o FlushCall(changed # {})
       ELSE /\ ready' = Tail(ready)
            /\ UNCHANGED <<hookVars, dirty, renderQueued, flushScheduled>>
  /\ UNCHANGED <<covered, root, pending, storm, journal, queuedElement, unmountRequested,
                 waiter, stepVars, paintVars, origin, wanted, trees,
                 countVars>>

----------------------------------------------------------------------------
(* Passes.  A pass renders into staged: the whole tree when the root       *)
(* element changed, the dirty components otherwise.                        *)
Snapshot(cs) == [c \in cs |-> [value |-> value[c], busy |-> busy[c],
                               queue |-> queue[c]]]

(* mount() of a tree of its own, with fresh hook states. *)
BeginMount(e, by) ==
  /\ trees' = trees + 1 /\ root' = trees + 1
  /\ value' = NoTree.value /\ busy' = NoTree.busy
  /\ queue' = [c \in Components |-> NoQueue]
  /\ staged' = [tree |-> trees + 1, element |-> e, value |-> NoTree.value,
                 busy |-> NoTree.busy]
  /\ journal' = <<>> /\ storm' = 0
  /\ phase' = "drain" /\ caller' = by
  /\ UNCHANGED dirty

(* reconcile() of the mounted tree. *)
BeginReconcile(e, by) ==
  /\ staged' = [tree |-> root, element |-> e, value |-> value, busy |-> busy]
  /\ journal' = Snapshot(Components) /\ storm' = 0
  /\ phase' = "drain" /\ caller' = by
  /\ UNCHANGED <<root, trees, hookVars, dirty>>

(* unmount() with no commit in flight: the hook states are discarded and   *)
(* the destroy operations are submitted.                                   *)
UnmountPass ==
  /\ root' = 0 /\ dirty' = {}
  /\ value' = NoTree.value /\ busy' = NoTree.busy
  /\ queue' = [c \in Components |-> NoQueue]
  /\ triggers' = <<>> /\ completions' = <<>> /\ transitionScheduled' = FALSE
  /\ staged' = NoTree /\ journal' = <<>> /\ storm' = 0
  /\ pending' = TRUE /\ verdict' = "none"

(* _run_scheduled_flush, and flush_dirty when it finds work. *)
SettleIdle ==
  IF pending THEN ready' = Tail(ready) /\ UNCHANGED waiter
             ELSE Settle("woken", Tail(ready))

RunFlush ==
  LET working == root # 0 /\ ~pending /\ dirty # {} IN
  /\ Idle /\ ready # <<>> /\ Head(ready) = "flush"
  /\ flushScheduled' = FALSE
  /\ IF working
       THEN /\ staged' = shown /\ journal' = <<>> /\ storm' = 0
            /\ phase' = "drain" /\ caller' = "loop"
            /\ ready' = Tail(ready) /\ UNCHANGED waiter
       ELSE /\ SettleIdle
            /\ UNCHANGED <<staged, journal, storm, phase, caller>>
  /\ UNCHANGED <<covered, hookVars, root, dirty, renderQueued, pending, heldVars, laterVars,
                 replaying, shown, verdict, origin, wanted, trees, countVars>>

(* One iteration of _drain_dirty.  A component that calls its setter while *)
(* it renders is a dirty node again, but its _dirty flag is cleared when   *)
(* its body returns, so the next iteration skips it.                       *)
Drain(setters) ==
  LET rendered == dirty \ covered IN
  /\ phase = "drain" /\ dirty # {} /\ storm < StormLimit
  /\ setters \subseteq rendered
  /\ renderSets + Cardinality(setters) <= MaxRenderSets
  /\ renderSets' = renderSets + Cardinality(setters)
  /\ storm' = storm + 1
  /\ journal' = [c \in DOMAIN journal \cup rendered |->
                   IF c \in DOMAIN journal THEN journal[c] ELSE Snapshot(rendered)[c]]
  /\ staged' = [staged EXCEPT
       !.value = [c \in Components |-> IF c \in rendered THEN value[c] ELSE @[c]],
       !.busy  = [c \in Components |-> IF c \in rendered THEN busy[c] ELSE @[c]]]
  /\ dirty' = setters /\ covered' = setters
  /\ IF setters = {}
       THEN UNCHANGED <<value, queue, origin, renderQueued>>
       ELSE \E c \in setters :
              /\ Issue(c, "render")
              /\ value' = [value EXCEPT ![c] = Append(@, NextUpdate)]
              /\ queue' = IF queue[c].open
                            THEN [queue EXCEPT ![c].updates = Append(@, NextUpdate)]
                            ELSE queue
              /\ renderQueued' = TRUE
  /\ UNCHANGED <<busy, root, flushScheduled, pending, heldVars, waiter,
                 laterVars, ready, stepVars, shown, verdict, wanted, trees,
                 effectSets, errors, rejections, requests, waits>>

(* _abort_pass: the bookkeeping the pass touched is restored, a tree that  *)
(* was being mounted is dropped, and every dirty mark is forgotten.        *)
RootKept == root
RootRestored == IF root = shown.tree THEN root ELSE 0
Abort ==
  /\ root' = RootRestored
  /\ value' = [c \in Components |-> IF c \in DOMAIN journal
                                      THEN journal[c].value ELSE value[c]]
  /\ busy'  = [c \in Components |-> IF c \in DOMAIN journal
                                      THEN journal[c].busy ELSE busy[c]]
  /\ queue' = [c \in Components |-> IF c \in DOMAIN journal
                                      THEN journal[c].queue ELSE queue[c]]
  /\ journal' = <<>> /\ staged' = shown /\ dirty' = {} /\ covered' = {}
  /\ renderQueued' = FALSE

(* A body raises past every boundary, or the storm limit is reached: the   *)
(* exception leaves the pass, and a pass inside _resume_commit takes the   *)
(* inputs that callback had still to replay with it.                       *)
RenderRaises ==
  /\ phase = "drain"
  /\ errors < MaxErrors \/ (dirty # {} /\ storm >= StormLimit)
  /\ errors' = errors + 1
  /\ Abort
  /\ phase' = "idle" /\ caller' = "loop" /\ replaying' = <<>>
  /\ UNCHANGED <<flushScheduled, pending, storm, heldVars, waiter, laterVars, ready,
                 shown, verdict, origin, wanted, trees, effectSets,
                 renderSets, rejections, requests, waits>>

(* _commit: the first _flush_ops.  A pass that changed nothing has no      *)
(* operation to submit and goes on to its effects.                         *)
Submit ==
  /\ phase = "drain" /\ dirty = {}
  /\ IF staged = shown
       THEN phase' = "effects" /\ journal' = <<>> /\ UNCHANGED <<pending, verdict, caller>>
       ELSE /\ pending' = TRUE /\ verdict' = "none"
            /\ phase' = (IF caller = "resume" THEN "inputs" ELSE "idle")
            /\ caller' = "loop" /\ UNCHANGED journal
  /\ UNCHANGED <<covered, hookVars, root, dirty, renderQueued, flushScheduled, storm,
                 heldVars, waiter, laterVars, ready, replaying, staged, shown,
                 origin, wanted, trees, countVars>>

(* The core accepts or refuses the commit; its answer reaches the loop.    *)
Answer(how) ==
  /\ pending /\ verdict = "none"
  /\ how = "rejected" => rejections < MaxRejections
  /\ rejections' = rejections + (IF how = "rejected" THEN 1 ELSE 0)
  /\ verdict' = how
  /\ ready' = Append(ready, "resume")
  /\ UNCHANGED <<covered, hookVars, root, dirty, passVars, heldVars, waiter, laterVars,
                 stepVars, staged, shown, origin, wanted, trees, effectSets,
                 renderSets, errors, requests, waits>>

(* An effect of the tree sets state: at once, and for the next pass. *)
EffectSets(c) ==
  /\ phase = "effects" /\ root # 0 /\ effectSets < MaxEffectSets
  /\ effectSets' = effectSets + 1
  /\ Issue(c, "effect")
  /\ ApplySet(c, NextUpdate)
  /\ UNCHANGED <<covered, root, pending, storm, journal, heldVars, waiter, stepVars,
                 paintVars, wanted, trees, renderSets, errors, rejections,
                 requests, waits>>

(* The effects return, and _commit_steps settles.  _pass then loops while  *)
(* a render was queued; _resume_commit goes on to the requests it held.    *)
EffectsEnd ==
  LET again == caller = "loop" /\ renderQueued /\ root # 0 /\ dirty # {} IN
  /\ phase = "effects"
  /\ phase' = IF again THEN "drain"
              ELSE IF caller = "loop" THEN "idle" ELSE "requests"
  /\ staged' = shown
  /\ renderQueued' = FALSE
  /\ Settle("woken", ready)
  /\ UNCHANGED <<covered, hookVars, root, dirty, flushScheduled, pending, storm, journal,
                 heldVars, laterVars, caller, replaying, shown, verdict, origin,
                 wanted, trees, countVars>>

(* An effect raises past every boundary, after the commit was accepted. *)
EffectRaises ==
  /\ phase = "effects" /\ root # 0 /\ errors < MaxErrors
  /\ errors' = errors + 1
  /\ Abort
  /\ IF caller = "resume"
       THEN /\ phase' = "requests"
            /\ Settle("raised", ready)
       ELSE phase' = "idle" /\ UNCHANGED <<waiter, ready>>
  /\ UNCHANGED <<flushScheduled, pending, storm, heldVars, laterVars, caller,
                 replaying, shown, verdict, origin, wanted, trees,
                 effectSets, renderSets, rejections, requests, waits>>

----------------------------------------------------------------------------
(* _resume_commit: accepted, it takes up _commit_steps at the effects;     *)
(* refused, it aborts the pass and fails the waiters.                      *)
RunResume ==
  /\ Idle /\ ready # <<>> /\ Head(ready) = "resume"
  /\ pending' = FALSE /\ verdict' = "none" /\ caller' = "resume"
  /\ IF verdict = "accepted"
       THEN /\ shown' = staged /\ journal' = <<>>
            /\ phase' = "effects" /\ ready' = Tail(ready)
            /\ UNCHANGED <<hookVars, root, dirty, covered, renderQueued, staged, waiter>>
       ELSE /\ Abort /\ UNCHANGED shown
            /\ phase' = "requests"
            /\ Settle("raised", Tail(ready))
  /\ UNCHANGED <<flushScheduled, storm, heldVars, laterVars, replaying, origin,
                 wanted, trees, countVars>>

(* The requests it held: an unmount first, then the queued element unless  *)
(* the unmount has a commit of its own in flight.  The inputs are taken    *)
(* before either.                                                          *)
HeldUnmount ==
  /\ phase = "requests" /\ unmountRequested /\ root # 0
  /\ unmountRequested' = FALSE
  /\ replaying' = inputs /\ inputs' = <<>>
  /\ UnmountPass
  /\ phase' = "inputs" /\ caller' = "loop"
  /\ UNCHANGED <<covered, renderQueued, flushScheduled, queuedElement, waiter,
                 ready, shown, origin, wanted, trees, countVars>>

HeldElement ==
  /\ phase = "requests" /\ ~(unmountRequested /\ root # 0) /\ queuedElement # 0
  /\ unmountRequested' = FALSE /\ queuedElement' = 0
  /\ replaying' = inputs /\ inputs' = <<>>
  /\ IF root = 0 THEN BeginMount(queuedElement, "resume")
                 ELSE BeginReconcile(queuedElement, "resume")
  /\ UNCHANGED <<covered, renderQueued, flushScheduled, pending, waiter, laterVars,
                 ready, shown, verdict, origin, wanted, countVars>>

HeldNothing ==
  /\ phase = "requests" /\ ~(unmountRequested /\ root # 0) /\ queuedElement = 0
  /\ unmountRequested' = FALSE
  /\ replaying' = inputs /\ inputs' = <<>>
  /\ phase' = "inputs" /\ caller' = "loop"
  /\ UNCHANGED <<hookVars, root, dirty, covered, passVars, queuedElement, waiter,
                 laterVars, ready, paintVars, origin, wanted, trees, countVars>>

(* One queued input is called: held again when a new commit is in flight,  *)
(* dropped when its component has unmounted, applied otherwise.            *)
ReplayInput ==
  LET e == Head(replaying) IN
  /\ phase = "inputs" /\ replaying # <<>>
  /\ replaying' = Tail(replaying)
  /\ inputs' = IF DeferInput THEN Hold(e) ELSE inputs
  /\ IF ~DeferInput /\ e.tree = root
       THEN Apply(e)
       ELSE UNCHANGED <<hookVars, dirty, renderQueued, flushScheduled, laterVars, ready>>
  /\ UNCHANGED <<root, covered, pending, storm, journal, queuedElement,
                 unmountRequested, waiter, phase, caller, paintVars, origin, wanted,
                 trees, countVars>>

(* The function given to a setter raises: the exception leaves             *)
(* _resume_commit, and the inputs behind it are not called.                *)
ReplayRaises ==
  /\ phase = "inputs" /\ replaying # <<>> /\ ~pending /\ errors < MaxErrors
  /\ LET e == Head(replaying) IN
       /\ e.kind = "set" /\ e.tree = root /\ ~queue[e.of].open
       /\ origin' = [origin EXCEPT ![e.update].by = "raised"]
  /\ errors' = errors + 1
  /\ replaying' = <<>> /\ phase' = "idle"
  /\ UNCHANGED <<hookVars, root, dirty, covered, passVars, heldVars, waiter,
                 laterVars, ready, caller, paintVars, wanted, trees,
                 effectSets, renderSets, rejections, requests, waits>>

ReplayEnd ==
  /\ phase = "inputs" /\ replaying = <<>>
  /\ RequestRender(dirty # {})
  /\ Settle("woken", ready \o FlushCall(dirty # {}))
  /\ phase' = "idle"
  /\ UNCHANGED <<hookVars, root, dirty, covered, pending, storm, journal, heldVars,
                 laterVars, caller, replaying, paintVars, origin, wanted,
                 trees, countVars>>

----------------------------------------------------------------------------
(* The host's calls.  Root elements are numbered by the request. *)
Request == Idle /\ requests < MaxRequests /\ requests' = requests + 1

(* unmount() while a commit is in flight, and the element to show after it. *)
RequestUnmountKeeping(e) ==
  /\ unmountRequested' = TRUE
  /\ queuedElement' = IF e = 0 THEN queuedElement ELSE e
RequestUnmount(e) == unmountRequested' = TRUE /\ queuedElement' = e

Mount ==
  /\ Request
  /\ wanted' = requests + 1
  /\ \/ /\ pending
        /\ RequestUnmount(requests + 1)
        /\ UNCHANGED <<hookVars, root, dirty, laterVars, staged, journal, storm,
                       pending, verdict, phase, caller, trees>>
     \/ /\ ~pending /\ root # 0
        /\ UnmountPass /\ queuedElement' = requests + 1
        /\ UNCHANGED <<unmountRequested, phase, caller, trees>>
     \/ /\ ~pending /\ root = 0
        /\ BeginMount(requests + 1, "loop")
        /\ UNCHANGED <<unmountRequested, queuedElement, laterVars, pending, verdict>>
  /\ UNCHANGED <<covered, renderQueued, flushScheduled, inputs, waiter, ready,
                 replaying, shown, origin, effectSets, renderSets, errors,
                 rejections, waits>>

Reconcile ==
  /\ Request
  /\ wanted' = requests + 1
  /\ \/ /\ pending
        /\ queuedElement' = requests + 1
        /\ UNCHANGED <<hookVars, root, dirty, staged, journal, storm, phase,
                       caller, trees>>
     \/ /\ ~pending /\ root # 0
        /\ BeginReconcile(requests + 1, "loop") /\ UNCHANGED queuedElement
     \/ /\ ~pending /\ root = 0
        /\ BeginMount(requests + 1, "loop") /\ UNCHANGED queuedElement
  /\ UNCHANGED <<covered, renderQueued, flushScheduled, pending, inputs,
                 unmountRequested, waiter, laterVars, ready, replaying, shown,
                 verdict, origin, effectSets, renderSets, errors, rejections,
                 waits>>

Unmount ==
  /\ Request /\ (pending \/ root # 0)
  /\ wanted' = 0
  /\ IF pending
       THEN /\ RequestUnmount(0)
            /\ UNCHANGED <<hookVars, root, dirty, laterVars, staged, journal, storm,
                           pending, verdict>>
       ELSE UnmountPass /\ UNCHANGED <<unmountRequested, queuedElement>>
  /\ UNCHANGED <<covered, renderQueued, flushScheduled, inputs, waiter, ready,
                 stepVars, shown, origin, trees, effectSets, renderSets,
                 errors, rejections, waits>>

(* wait_for_commit: its first check, and the check after every wake. *)
KeepWaiting ==
  /\ waiter' = IF Unsettled THEN "waiting" ELSE "none"
  /\ RequestRender(Unsettled /\ ~pending)

WaitForCommit ==
  /\ Idle /\ waiter = "none" /\ waits < MaxWaits
  /\ waits' = waits + 1
  /\ KeepWaiting
  /\ ready' = ready \o FlushCall(Unsettled /\ ~pending)
  /\ UNCHANGED <<hookVars, root, dirty, covered, pending, storm, journal, heldVars,
                 laterVars, stepVars, paintVars, origin, wanted, trees,
                 effectSets, renderSets, errors, rejections, requests>>

RunWaiter ==
  /\ Idle /\ ready # <<>> /\ Head(ready) = "waiter"
  /\ IF waiter = "raised"
       THEN waiter' = "none" /\ ready' = Tail(ready)
            /\ UNCHANGED <<renderQueued, flushScheduled>>
       ELSE KeepWaiting /\ ready' = Tail(ready) \o FlushCall(Unsettled /\ ~pending)
  /\ UNCHANGED <<hookVars, root, dirty, covered, pending, storm, journal, heldVars,
                 laterVars, stepVars, paintVars, origin, wanted, trees,
                 countVars>>

----------------------------------------------------------------------------
LoopStep ==
  \/ RunFlush \/ RunTransition \/ RunResume \/ RunWaiter
  \/ \E setters \in {{}} \cup {{c} : c \in Components} : Drain(setters)
  \/ RenderRaises \/ Submit
  \/ EffectsEnd \/ EffectRaises
  \/ HeldUnmount \/ HeldElement \/ HeldNothing
  \/ ReplayInput \/ ReplayRaises \/ ReplayEnd
  \/ \E c \in Components : EffectSets(c)

Native == \E how \in {"accepted", "rejected"} : Answer(how)

Application ==
  \/ \E c \in Components : UserSet(c) \/ StartTransition(c)
  \/ Mount \/ Reconcile \/ Unmount \/ WaitForCommit

Next == LoopStep \/ Native \/ Application

Spec     == Init /\ [][Next]_vars
FairSpec == Spec /\ WF_vars(LoopStep) /\ WF_vars(Native)

----------------------------------------------------------------------------
(* What the slot of c will hold once its deferred updates are replayed. *)
Logical(c) == IF queue[c].open THEN queue[c].base \o queue[c].updates ELSE value[c]
(* The calls that commits in flight hold, in order, and those that give an *)
(* update to the slot of c.                                                *)
HeldCalls == inputs \o replaying
Gives(e) == e.kind \in {"set", "defer"}
HeldFor(c) ==
  {i \in DOMAIN HeldCalls :
     HeldCalls[i].of = c /\ HeldCalls[i].tree = root /\ Gives(HeldCalls[i])}
(* The updates that are to reach the screen.  An update given by a render   *)
(* is a part of its pass, and goes with it when the core refuses it.        *)
Live(u) ==
  /\ origin[u].tree = root /\ origin[u].by # "raised"
  /\ origin[u].by = "render" => rejections = 0

(* Every update given to a setter of the mounted tree is applied, deferred *)
(* or queued, once.  A commit in flight, a refused commit and the rollback *)
(* of its journal lose none (as long as nothing raised), and none is       *)
(* applied twice, although deferred work is replayed on top of a base it   *)
(* may already have been applied to.                                       *)
EachUpdateOnce ==
  /\ errors = 0 /\ root # 0 =>
       \A u \in DOMAIN origin : Live(u) =>
         LET c == origin[u].of
         IN  Contains(Logical(c), u) \/ \E i \in HeldFor(c) : HeldCalls[i].update = u
  /\ \A c \in Components :
       /\ IsInjective(value[c])
       /\ root # 0 =>
            /\ IsInjective(Logical(c))
            /\ \A i \in HeldFor(c) : ~Contains(Logical(c), HeldCalls[i].update)
            /\ \A i, j \in HeldFor(c) : HeldCalls[i].update = HeldCalls[j].update => i = j

(* The updates that callbacks and transitions give to one setter are       *)
(* applied in the order of the calls, whatever was urgent, deferred or     *)
(* queued behind a commit ("preserving their functional order").           *)
ByUser(u) == origin[u].by = "user"
UserOrder ==
  root # 0 =>
    \A c \in Components :
      LET slot == Logical(c)
      IN  /\ \A i, j \in DOMAIN slot :
               i < j /\ ByUser(slot[i]) /\ ByUser(slot[j]) => slot[i] < slot[j]
          /\ \A i \in DOMAIN slot, j \in HeldFor(c) :
               ByUser(slot[i]) => slot[i] < HeldCalls[j].update
          /\ \A i, j \in HeldFor(c) : i < j => HeldCalls[i].update < HeldCalls[j].update

(* With the loop between two callbacks and no commit in flight, a screen   *)
(* that does not show the state has a flush on its way: requests made      *)
(* during a pass, an acknowledgement or a transition are never forgotten.  *)
(* Only what a component sets during its own render may be.                *)
NothingForgotten ==
  Idle /\ ~pending /\ root # 0 /\ errors = 0 /\ rejections = 0 /\ renderSets = 0 =>
    \/ flushScheduled /\ Contains(ready, "flush")
    \/ shown.tree = root /\ shown.value = value /\ shown.busy = busy

(* mount, reconcile and unmount calls made while commits are in flight     *)
(* collapse to the last one: once settled, the screen shows its element,   *)
(* or nothing after an unmount.                                            *)
LastRequestWins ==
  Idle /\ ~pending /\ errors = 0 /\ rejections = 0 =>
    /\ shown.element = wanted
    /\ (root = 0) <=> (wanted = 0)
    /\ shown.tree = root

(* A pass that raised, or whose commit was refused, leaves the committed    *)
(* tree in place: between two callbacks with no commit in flight the       *)
(* reconciler holds the tree on the screen, or none.                       *)
CommittedTreeStays == Idle /\ ~pending => root \in {0, shown.tree}

(* A step that applies a state update to the mounted tree never does so    *)
(* between the render of a pass and its acknowledgement, so what a refused *)
(* commit rolls back is exactly what its render read.                      *)
HeldWhilePending ==
  [][pending /\ pending' => UNCHANGED <<value, busy, queue, root, staged>>]_vars

(* Once no more updates come, the screen shows the state, if no pass raised *)
(* or was refused; but a setter that a component calls during its own       *)
(* render shows with the next update only.                                  *)
EventuallyShown ==
  <>[](root # 0 /\ errors = 0 /\ rejections = 0 /\ renderSets = 0 =>
         shown.value = value /\ shown.busy = busy)

(* A task in wait_for_commit is woken and returns or raises.  Excepted is   *)
(* one that waits for a pass that raises before its commit, or whose        *)
(* effects raise outside an acknowledgement: that wakes nobody, and the     *)
(* task sleeps although nothing is left to do.  is_pending of a transition  *)
(* does not stick.  Excepted is one whose completion was held while a       *)
(* commit was in flight, and lost with an exception that left the           *)
(* acknowledgement before its turn.                                         *)
NothingHangs ==
  /\ []<>(waiter = "none") \/ <>[](waiter = "waiting" /\ errors > 0 /\ ~Unsettled)
  /\ \A c \in Components : busy[c] ~> ~busy[c] \/ errors > 0
=============================================================================
