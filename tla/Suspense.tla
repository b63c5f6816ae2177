------------------------------ MODULE Suspense ------------------------------
(* A Suspense boundary in an ErrorBoundary (reconciler/boundaries.py and the  *)
(* tree operations of reconciler/core.py): attempts that suspend or fail,     *)
(* states kept for the retry, committed content hidden beside the fallback,   *)
(* retries in place, components that suspend on an update, an error's         *)
(* fallback and its reset, and the rollback of a refused commit.              *)
(*                                                                            *)
(* The application renders View(ErrorBoundary(Suspense( *content,             *)
(* fallback=Text), fallback=Text)), or an empty View.  An element of the      *)
(* content has a key and is a native view or "late", a component that reads a *)
(* resource and renders one native view.  A pass is one operation on a record *)
(* w: the tree and hook states it works on, what it staged, and the signal or *)
(* exception that is unwinding.                                               *)
EXTENDS Naturals, Sequences, FiniteSets, SequencesExt, ChildMoves

CONSTANTS
    Contents,        \* what the application may render: sequences of elements
    Size,            \* bound: views, hook states and fetches at any one time
    MaxChanges,      \* bound: times the application renders other content
    MaxRefetches,    \* bound: times a component changes its resource's deps
    MaxFailures,     \* bound: requests that fail
    MaxRejections    \* bound: commits the core refuses for another reason

ASSUME ContentsKeyed ==
    \A c \in Contents : \A i, j \in DOMAIN c : c[i].key = c[j].key => i = j
ASSUME SizeInNat == Size \in Nat /\ MaxChanges \in Nat /\ MaxRefetches \in Nat

VARIABLES
    wanted,      \* the content the application's state asks for
    tree,        \* the nodes of the boundaries and their children
    hook,        \* hook states: key, fetch of use_resource, deps changed, owner
    answer,      \* fetches: free, pending, ok, failed, cancelled
    watchers,    \* done callbacks of fetches: the boundary's, or a component's
    dirty,       \* _dirty_boundaries, _dirty_suspense and _dirty_nodes
    view,        \* the core's surface: live views, the container's children
    commit,      \* the commit in flight and what its pass has to undo or publish
    changes, refetches, failures, rejections

vars == <<wanted, tree, hook, answer, watchers, dirty, view, commit,
          changes, refetches, failures, rejections>>

Pool     == 1..Size
(* In dirty and watchers 0 stands for the Suspense boundary, and a hook state *)
(* for its component.                                                         *)
App      == Size + 1    \* the application's component
Boundary == Size + 2    \* the error boundary
Late(el) == el.type = "late"
Absent == <<>>      \* the application renders no boundary
NoTree == [element |-> Absent, kids |-> <<>>, fallback |-> 0, hiding |-> FALSE,
           veiled |-> {}, saved |-> {}, waits |-> {}, failed |-> FALSE, notice |-> 0]
NoHook == [key |-> 0, fetch |-> 0, stale |-> FALSE, owned |-> FALSE]
NoCommit == [open |-> FALSE, ops |-> <<>>, tree |-> NoTree, hook |-> <<>>, born |-> {},
             adopted |-> {}, closing |-> {}, detaching |-> {}]

Init ==
    /\ wanted = Absent /\ tree = NoTree
    /\ hook = [h \in Pool |-> NoHook] /\ answer = [f \in Pool |-> "free"]
    /\ watchers = {} /\ dirty = {} /\ commit = NoCommit
    /\ view = [live |-> {}, kids |-> <<>>, none |-> {}]
    /\ changes = 0 /\ refetches = 0 /\ failures = 0 /\ rejections = 0

Showing(t) == t.fallback # 0
Idle == ~commit.open

---------------------------------------------------------------------------
(* The staged operations, and what the core makes of them.                   *)
Op(code, tag, at) == [code |-> code, tag |-> tag, at |-> at]
Stage(w, code, tag) == [w EXCEPT !.ops = Append(@, Op(code, tag, 0))]

Valid(v, op) ==
    CASE op.code = "create" -> op.tag \notin v.live
      [] op.code = "insert" -> op.tag \in v.live /\ op.at <= Len(Remove(v.kids, op.tag))
      [] OTHER              -> op.tag \in v.live
Applied(v, op) ==
    CASE op.code = "create"  -> [v EXCEPT !.live = @ \cup {op.tag}]
      [] op.code = "insert"  -> [v EXCEPT !.kids = InsertAt(Remove(@, op.tag), op.at + 1, op.tag)]
      [] op.code = "hide"    -> [v EXCEPT !.none = @ \cup {op.tag}]
      [] op.code = "show"    -> [v EXCEPT !.none = @ \ {op.tag}]
      [] op.code = "destroy" -> [live |-> v.live \ {op.tag}, kids |-> Remove(v.kids, op.tag),
                                 none |-> v.none \ {op.tag}]
(* Surface::validate: an operation that does not fit refuses the commit.     *)
Checked(v, ops) ==
    FoldLeft(LAMBDA c, op : IF c.ok /\ Valid(c.view, op) THEN [c EXCEPT !.view = Applied(@, op)]
                            ELSE [c EXCEPT !.ok = FALSE],
             [ok |-> TRUE, view |-> v], ops)

---------------------------------------------------------------------------
(* Bodies.  A component starts its resource with its first render and again  *)
(* when its deps change, suspends while it is pending, and raises its error. *)
Free(used) == CHOOSE x \in Pool \ used : \A y \in Pool \ used : x <= y
Fetches(w) == {f \in Pool : w.answer[f] # "free"}
Cancelled(ans, fs) == [f \in Pool |-> IF f \in fs /\ ans[f] = "pending" THEN "cancelled" ELSE ans[f]]

Body(w, h) ==
    LET starts == w.hook[h].fetch = 0 \/ w.hook[h].stale
        f      == IF starts THEN Free(Fetches(w)) ELSE w.hook[h].fetch
        ans    == IF starts THEN [Cancelled(w.answer, {w.hook[h].fetch}) EXCEPT ![f] = "pending"]
                  ELSE w.answer
    IN [w EXCEPT !.answer = ans, !.dirty = @ \ {h},
                 !.hook[h] = [@ EXCEPT !.fetch = f, !.stale = FALSE, !.owned = TRUE],
                 !.signal = IF ans[f] \notin {"pending", "failed"} THEN <<>>
                            ELSE <<[fetch |-> f, hook |-> h, raised |-> ans[f] = "failed"]>>]
Unwinding(w) == w.signal # <<>>
Raised(w)    == Unwinding(w) /\ w.signal[1].raised
Suspended(w) == Unwinding(w) /\ ~Raised(w)

---------------------------------------------------------------------------
(* Nodes.  made is the node the last creation returned.                      *)
CreateNative(w, node) ==
    LET t == Free(w.tags)
    IN [Stage(w, "create", t) EXCEPT !.tags = @ \cup {t}, !.made = [node EXCEPT !.tag = t]]

(* _take_hydrated_hook_state: a state kept for this element, or a new one.   *)
Kept(w, el) == {h \in w.hydration : w.hook[h].key = el.key}
Create(w, el) ==
    LET node == [el |-> el, tag |-> 0, hook |-> 0, mounted |-> TRUE]
        h    == IF Kept(w, el) # {} THEN CHOOSE x \in Kept(w, el) : TRUE ELSE Free(w.hooks)
        with == [w EXCEPT !.hydration = @ \ {h}, !.hooks = @ \cup {h}, !.hook[h].key = el.key,
                          !.born = IF h \in w.hooks THEN @ ELSE @ \cup {h},
                          !.adopted = IF w.hook[h].owned THEN @ ELSE @ \cup {h}]
        done == Body(with, h)
    IN IF ~Late(el) THEN CreateNative(w, node)
       ELSE IF Unwinding(done) THEN done
       ELSE CreateNative(done, [node EXCEPT !.hook = h])

(* _destroy_tree: the state of a component is cleaned up with the commit, or *)
(* kept (salvage) while a signal unwinds; both are detached with the commit.  *)
DestroyState(w, h, keep) ==
    [w EXCEPT !.dirty = @ \ {h}, !.detaching = @ \cup {h},
              !.salvage = IF keep THEN @ \cup {h} ELSE @,
              !.closing = IF keep THEN @ ELSE @ \cup {h}]
Destroy(w, node, keep) ==
    LET state == IF node.hook = 0 THEN w ELSE DestroyState(w, node.hook, keep)
        gone  == IF node.tag = 0 THEN state ELSE Stage(state, "destroy", node.tag)
    IN IF node.mounted THEN [gone EXCEPT !.destroyed = @ \cup {node.tag}] ELSE w
DestroyAll(w, nodes, keep) == FoldLeft(LAMBDA x, n : Destroy(x, n, keep), w, nodes)
(* What is left of a destroyed node that is still in a list.                 *)
Husk(node) == [node EXCEPT !.mounted = FALSE, !.tag = IF node.hook = 0 THEN @ ELSE 0]

(* One element of _reconcile_child_list against the old node of its key, if  *)
(* any.  A node of another type is created before the old one is destroyed.  *)
Match(old, el) == {i \in DOMAIN old : old[i].el.key = el.key}
Adopt(acc, w, node) == [acc EXCEPT !.w = w, !.result = Append(@, node)]
Created(acc, fresh) ==
    IF Unwinding(fresh) THEN [acc EXCEPT !.w = fresh]
    ELSE [Adopt(acc, fresh, fresh.made) EXCEPT !.fresh = Append(@, fresh.made)]
Updated(acc, i, w) ==
    LET drawn == IF acc.old[i].tag = 0 /\ Late(acc.old[i].el) THEN CreateNative(w, acc.old[i])
                 ELSE [w EXCEPT !.made = acc.old[i]]
    IN IF Unwinding(w) THEN [acc EXCEPT !.w = w]
       ELSE [Adopt(acc, drawn, drawn.made) EXCEPT !.old[i] = drawn.made]
Replaced(acc, i, fresh) ==
    IF Unwinding(fresh) THEN [acc EXCEPT !.w = fresh]
    ELSE [Adopt(acc, Destroy(fresh, acc.old[i], FALSE), fresh.made)
            EXCEPT !.fresh = Append(@, fresh.made), !.old[i] = Husk(@)]
Reconciled(acc, el) ==
    LET i == CHOOSE x \in Match(acc.old, el) : TRUE
    IN IF Match(acc.old, el) = {} THEN Created(acc, Create(acc.w, el))
       ELSE IF acc.old[i].el.type # el.type THEN Replaced(acc, i, Create(acc.w, el))
       ELSE Updated(acc, i, IF Late(el) THEN Body(acc.w, acc.old[i].hook) ELSE acc.w)

(* _reconcile_child_list: on a signal or an exception the nodes made so far  *)
(* are destroyed, their states kept for a signal, and the old list stays,    *)
(* husks included; else what no element matched is destroyed.  With no old   *)
(* nodes it is _create_child_list.                                           *)
Concluded(acc, els) ==
    LET rest == SelectSeq(acc.old, LAMBDA n : \A i \in DOMAIN els : els[i].key # n.el.key)
    IN IF Unwinding(acc.w) THEN [w |-> DestroyAll(acc.w, acc.fresh, Suspended(acc.w)), nodes |-> acc.old]
       ELSE [w |-> DestroyAll(acc.w, rest, FALSE), nodes |-> acc.result]
ReconcileList(w, old, els) ==
    Concluded(FoldLeft(LAMBDA a, el : IF Unwinding(a.w) THEN a ELSE Reconciled(a, el),
                       [w |-> w, old |-> old, result |-> <<>>, fresh |-> <<>>], els),
              els)

---------------------------------------------------------------------------
(* The boundary.                                                             *)
Drawn(nodes) == SelectSeq(nodes, LAMBDA n : n.tag # 0)
TagsOf(nodes) == {nodes[i].tag : i \in DOMAIN nodes} \ {0}
ApplyHide(w) ==
    LET next == FoldLeft(LAMBDA x, n : IF n.tag \in w.tree.veiled THEN x ELSE Stage(x, "hide", n.tag),
                         w, Drawn(w.tree.kids))
    IN [next EXCEPT !.tree.veiled = TagsOf(w.tree.kids)]
(* Mutant of Reveal: the content stays hidden once its work has settled. *)
MutantReveal(w) == [w EXCEPT !.tree.veiled = {}]
Reveal(w) ==
    LET next == FoldLeft(LAMBDA x, n : IF n.tag \in w.tree.veiled THEN Stage(x, "show", n.tag) ELSE x,
                         w, Drawn(w.tree.kids))
    IN [next EXCEPT !.tree.veiled = {}]

Fallback == [el |-> [key |-> 0, type |-> "Text"], tag |-> 0, hook |-> 0, mounted |-> TRUE]
ShowFallback(w) ==
    IF Showing(w.tree) THEN w
    ELSE LET next == CreateNative(w, Fallback) IN [next EXCEPT !.tree.fallback = next.made.tag]
DropFallback(w) ==
    [IF Showing(w.tree) THEN Destroy(w, [Fallback EXCEPT !.tag = w.tree.fallback], FALSE) ELSE w
        EXCEPT !.tree.fallback = 0, !.tree.hiding = FALSE, !.tree.waits = {}]

(* _fold_suspended_state: what the unwinding kept, and the suspender's state *)
(* unless its node is still mounted, wait for the retry.                     *)
Mounted(t) == {t.kids[i].hook : i \in {j \in DOMAIN t.kids : t.kids[j].mounted}} \ {0}
(* Mutant of FoldState: the suspender's own state is forgotten. *)
MutantFoldState(w) == [w EXCEPT !.tree.saved = @ \cup w.salvage, !.salvage = {}]
FoldState(w) ==
    [w EXCEPT !.tree.saved = @ \cup w.salvage \cup ({w.signal[1].hook} \ Mounted(w.tree)),
              !.salvage = {}]
(* _watch_waitable, which also ends the signal.                              *)
(* Mutant of Watch: the boundary watches one piece of pending work at a time. *)
MutantWatch(w) ==
    LET f == w.signal[1].fetch
    IN [w EXCEPT !.tree.waits = @ \cup {f}, !.signal = <<>>,
                 !.watchers = IF w.tree.waits # {} THEN @ ELSE @ \cup {<<f, 0>>}]
Watch(w) ==
    LET f == w.signal[1].fetch
    IN [w EXCEPT !.tree.waits = @ \cup {f}, !.signal = <<>>,
                 !.watchers = IF f \in w.tree.waits THEN @ ELSE @ \cup {<<f, 0>>}]

Claiming(w) == [w EXCEPT !.hydration = w.tree.saved, !.tree.saved = {}, !.salvage = {}]
Disposed(w) == [w EXCEPT !.closing = @ \cup w.hydration, !.hydration = {}]
(* An exception leaves an attempt: the states it claimed go with it.          *)
Escaped(w) == [w EXCEPT !.hydration = {}]
(* _attempt_suspense_content, from scratch.                                   *)
Left(built) == [built.w EXCEPT !.tree.saved = built.w.hydration, !.hydration = {}]
Content(built, w) == [w EXCEPT !.tree.kids = built.nodes]
Built(built) ==
    IF Suspended(built.w) THEN Watch(ShowFallback(FoldState(Left(built))))
    ELSE IF Raised(built.w) THEN Escaped(built.w)
    ELSE Content(built, DropFallback(Disposed(built.w)))
BuildContent(w) == Built(ReconcileList(Claiming(w), <<>>, w.tree.element))
(* _retry_hidden_suspense_content.                                            *)
Retried(built) ==
    LET still == SelectSeq(built.nodes, LAMBDA n : n.mounted)
    IN IF Suspended(built.w)
       THEN Watch(ApplyHide([FoldState(Content(built, Left(built))) EXCEPT !.tree.kids = still]))
       ELSE IF Raised(built.w) THEN Escaped(Content(built, built.w))
       ELSE Reveal(Content(built, DropFallback(Disposed(built.w))))
RetryHidden(w) == Retried(ReconcileList(Claiming(w), w.tree.kids, w.tree.element))
Attempt(w) == IF w.tree.hiding THEN RetryHidden(w) ELSE BuildContent(w)

(* _hide_suspense_content: committed content stays mounted but hidden.       *)
Hide(w) == Watch(ShowFallback(ApplyHide([FoldState(w) EXCEPT !.tree.hiding = TRUE])))
(* Mutant of UpdateContent: an update that suspends starts from scratch. *)
FromScratch(w, built) ==
    IF Suspended(built.w)
      THEN BuildContent([DestroyAll(w, w.tree.kids, TRUE) EXCEPT !.tree.kids = <<>>])
      ELSE Content(built, built.w)
MutantUpdateContent(w) == FromScratch(w, ReconcileList(w, w.tree.kids, w.tree.element))
HideIfSuspended(w) == IF Suspended(w) THEN Hide(w) ELSE w
Updating(built) == HideIfSuspended(Content(built, built.w))
UpdateContent(w) == Updating(ReconcileList(w, w.tree.kids, w.tree.element))
(* _reconcile_suspense: a showing fallback goes on when the content is equal. *)
Dropped(w) == [w EXCEPT !.closing = @ \cup w.tree.saved, !.tree.saved = {}, !.tree.waits = {}]
ReconcileSuspense(w, content) ==
    LET next == [w EXCEPT !.tree.element = content]
    IN IF ~Showing(w.tree) THEN UpdateContent(next)
       ELSE IF content = w.tree.element THEN w
       ELSE Attempt(IF w.tree.hiding THEN next ELSE Dropped(next))
DestroySuspense(w) ==
    [DropFallback(DestroyAll([Dropped(w) EXCEPT !.dirty = @ \ {0}], w.tree.kids, FALSE))
        EXCEPT !.tree = [NoTree EXCEPT !.element = w.tree.element, !.notice = w.tree.notice]]

---------------------------------------------------------------------------
(* The error boundary.  notice is the view of its fallback, failed says that *)
(* it has an error.                                                          *)
DropNotice(w) ==
    IF w.tree.notice = 0 THEN w
    ELSE [Destroy(w, [Fallback EXCEPT !.tag = w.tree.notice], FALSE) EXCEPT !.tree.notice = 0]
(* _activate_boundary: the failed content goes, then the fallback comes.     *)
Noticed(w) == [w EXCEPT !.tree.notice = w.made.tag, !.tree.failed = TRUE]
Activate(w) ==
    Noticed(CreateNative(DropNotice(DestroySuspense([w EXCEPT !.signal = <<>>])), Fallback))
Catch(w) == IF Raised(w) THEN Activate(w) ELSE w
Restored(w) == IF Raised(w) THEN w ELSE DropNotice(w)
(* _reconcile_error_boundary: a fallback stays until its error was reset.    *)
ReconcileBoundary(w, content) ==
    LET next == [w EXCEPT !.tree.element = content]
    IN IF w.tree.failed THEN next
       ELSE Catch(IF w.tree.notice # 0 THEN Restored(BuildContent(next))
                  ELSE ReconcileSuspense(w, content))
DestroyBoundary(w) ==
    [DropNotice(DestroySuspense(w)) EXCEPT !.tree = NoTree, !.dirty = @ \ {Boundary}]

---------------------------------------------------------------------------
(* A pass: _drain_dirty and the commit.                                      *)
Flattened(t) == IF t.notice # 0 THEN <<t.notice>> ELSE
                [i \in DOMAIN Drawn(t.kids) |-> Drawn(t.kids)[i].tag]
                \o (IF Showing(t) THEN <<t.fallback>> ELSE <<>>)
(* _sync_native_children.                                                     *)
(* Mutant of Sync: views destroyed in this pass still count. *)
MutantSync(w) ==
    LET after == Flattened(w.tree)
        moves == PlanChildMoves(w.placed, after)
    IN [w EXCEPT !.placed = after,
                 !.ops = @ \o [i \in DOMAIN moves |-> Op("insert", moves[i][1], moves[i][2])]]
Sync(w) ==
    LET after == Flattened(w.tree)
        moves == PlanChildMoves(SelectSeq(w.placed, LAMBDA t : t \notin w.destroyed), after)
    IN [w EXCEPT !.placed = after,
                 !.ops = @ \o [i \in DOMAIN moves |-> Op("insert", moves[i][1], moves[i][2])]]

DrainBoundary(w) ==
    IF Boundary \in w.dirty
    THEN Sync(ReconcileBoundary([w EXCEPT !.dirty = @ \ {Boundary}], w.tree.element))
    ELSE w
DrainSuspense(w) ==
    IF 0 \in w.dirty /\ Showing(w.tree) THEN Sync(Catch(Attempt([w EXCEPT !.dirty = @ \ {0}])))
    ELSE [w EXCEPT !.dirty = @ \ {0}]
DrainApp(w) ==
    LET next == [w EXCEPT !.dirty = @ \ {App}]
    IN IF App \notin w.dirty THEN w
       ELSE IF wanted = Absent
       THEN IF w.tree = NoTree THEN next ELSE Sync(DestroyBoundary(next))
       ELSE Sync(IF w.tree = NoTree THEN Catch(BuildContent([next EXCEPT !.tree.element = wanted]))
                 ELSE ReconcileBoundary(next, wanted))
(* _update_component: a body that suspends keeps what it shows and is        *)
(* rendered again when the work completes (_register_component_retry); an    *)
(* exception goes to the error boundary (_route_error).                      *)
UpdateComponent(w, h) ==
    LET next == Body(w, h)
    IN IF h \notin w.dirty \/ h \notin Mounted(w.tree) THEN [w EXCEPT !.dirty = @ \ {h}]
       ELSE IF Suspended(next)
            THEN [next EXCEPT !.signal = <<>>, !.watchers = @ \cup {<<next.signal[1].fetch, h>>}]
            ELSE IF Raised(next) THEN Sync(Activate(next)) ELSE next
DrainComponents(w) == FoldLeft(UpdateComponent, w, [h \in Pool |-> h])

UsedHooks == Mounted(tree) \cup {n.hook : n \in ToSet(tree.kids)} \cup tree.saved
Work == [tree |-> tree, hook |-> hook, answer |-> answer, watchers |-> watchers, dirty |-> dirty,
         ops |-> <<>>, placed |-> view.kids, tags |-> view.live, hooks |-> UsedHooks,
         born |-> {}, adopted |-> {}, closing |-> {}, detaching |-> {}, destroyed |-> {},
         hydration |-> {}, salvage |-> {}, signal |-> <<>>, made |-> Fallback]
Pass == DrainComponents(DrainApp(DrainSuspense(DrainBoundary(Work))))

(* What is left once nothing refers to a state or a fetch any more.          *)
Tidy(hooks, used) == [h \in Pool |-> IF h \in used THEN hooks[h] ELSE NoHook]
TidyFetches(ans, t, hooks, watched) ==
    [f \in Pool |-> IF \/ \E h \in Pool : hooks[h].fetch = f
                       \/ ans[f] = "pending" \/ f \in t.waits \/ \E x \in watched : x[1] = f
                    THEN ans[f] ELSE "free"]

(* _publish, once the commit is accepted: states are cleaned up and detached. *)
Publish(t, hooks, ans, closing, detaching) ==
    LET used  == {n.hook : n \in ToSet(t.kids)} \cup t.saved
        after == [h \in Pool |->
                    IF h \in closing THEN NoHook
                    ELSE [hooks[h] EXCEPT !.owned = @ /\ h \notin detaching]]
    IN /\ hook' = Tidy(after, used \ {0})
       /\ answer' = TidyFetches(Cancelled(ans, {hooks[h].fetch : h \in closing}), t, hook', watchers')

Flush ==
    /\ Idle /\ dirty # {}
    /\ \E w \in {Pass} :
       /\ tree' = w.tree /\ watchers' = w.watchers /\ dirty' = w.dirty
       /\ IF w.ops = <<>>
          THEN Publish(w.tree, w.hook, w.answer, w.closing, w.detaching) /\ UNCHANGED commit
          ELSE /\ hook' = w.hook /\ answer' = w.answer
               /\ commit' = [open |-> TRUE, ops |-> w.ops, tree |-> tree, hook |-> hook, born |-> w.born,
                             adopted |-> w.adopted, closing |-> w.closing, detaching |-> w.detaching]
    /\ UNCHANGED <<wanted, view, changes, refetches, failures, rejections>>

Accept ==
    /\ commit.open /\ Checked(view, commit.ops).ok
    /\ view' = Checked(view, commit.ops).view /\ commit' = NoCommit
    /\ watchers' = watchers
    /\ Publish(tree, hook, answer, commit.closing, commit.detaching)
    /\ UNCHANGED <<wanted, tree, dirty, changes, refetches, failures, rejections>>

(* _abort_pass: the journal restores tree and states; the states the pass    *)
(* began with, or took up without an owner, are cleaned up; every dirty mark *)
(* is cleared, also those made while the commit was in flight.               *)
Reject ==
    /\ commit.open
    /\ ~Checked(view, commit.ops).ok \/ rejections < MaxRejections
    /\ tree' = commit.tree /\ dirty' = {} /\ commit' = NoCommit
    /\ hook' = [h \in Pool |-> IF h \in commit.adopted /\ h \notin commit.born
                               THEN [commit.hook[h] EXCEPT !.fetch = 0] ELSE commit.hook[h]]
    /\ answer' = TidyFetches(
                   Cancelled(answer, {hook[h].fetch : h \in commit.born} \cup
                                     {commit.hook[h].fetch : h \in commit.adopted \ commit.born}),
                   tree', hook', watchers)
    /\ rejections' = rejections + 1
    /\ UNCHANGED <<wanted, watchers, view, changes, refetches, failures>>

---------------------------------------------------------------------------
(* The application and the event loop.  Setters wait for a commit in flight. *)
SetContent(content) ==
    /\ Idle /\ changes < MaxChanges /\ content # wanted
    /\ wanted' = content /\ dirty' = dirty \cup {App} /\ changes' = changes + 1
    /\ UNCHANGED <<tree, hook, answer, watchers, view, commit, refetches, failures, rejections>>

(* A setter of a mounted component changes the deps of its resource.  The    *)
(* setter of a state without an owner marks nothing.                          *)
Refetch(h) ==
    /\ Idle /\ refetches < MaxRefetches /\ h \in Mounted(tree) /\ ~hook[h].stale
    /\ hook' = [hook EXCEPT ![h].stale = TRUE] /\ refetches' = refetches + 1
    /\ dirty' = IF hook[h].owned THEN dirty \cup {h} ELSE dirty
    /\ UNCHANGED <<wanted, tree, answer, watchers, view, commit, changes, failures, rejections>>

FetchDone(f) ==
    /\ answer[f] = "pending"
    /\ answer' = [answer EXCEPT ![f] = "ok"]
    /\ UNCHANGED <<wanted, tree, hook, watchers, dirty, view, commit, changes, refetches, failures, rejections>>

FetchFails(f) ==
    /\ answer[f] = "pending" /\ failures < MaxFailures
    /\ answer' = [answer EXCEPT ![f] = "failed"] /\ failures' = failures + 1
    /\ UNCHANGED <<wanted, tree, hook, watchers, dirty, view, commit, changes, refetches, rejections>>

(* The reset of an error's fallback, also while a commit is in flight.       *)
Reset ==
    /\ tree.failed
    /\ tree' = [tree EXCEPT !.failed = FALSE] /\ dirty' = dirty \cup {Boundary}
    /\ UNCHANGED <<wanted, hook, answer, watchers, view, commit, changes, refetches, failures, rejections>>

(* The _on_done of _watch_waitable (0) and of _register_component_retry.     *)
Retries(f, h) == IF h = 0 THEN f \in tree.waits /\ Showing(tree) ELSE h \in Mounted(tree)
Callback(f, h) ==
    /\ <<f, h>> \in watchers /\ answer[f] \in {"ok", "failed", "cancelled"}
    /\ watchers' = watchers \ {<<f, h>>}
    /\ tree' = IF h = 0 THEN [tree EXCEPT !.waits = @ \ {f}] ELSE tree
    /\ dirty' = IF Retries(f, h) THEN dirty \cup {h} ELSE dirty
    /\ answer' = TidyFetches(answer, tree', hook, watchers')
    /\ UNCHANGED <<wanted, hook, view, commit, changes, refetches, failures, rejections>>

Next ==
    \/ Flush \/ Accept \/ Reject
    \/ \E c \in Contents \cup {Absent} : SetContent(c)
    \/ \E f \in Pool : FetchDone(f) \/ FetchFails(f) \/ \E h \in {0} \cup Pool : Callback(f, h)
    \/ Reset \/ \E h \in Pool : Refetch(h)

(* The loop runs a flush that is due and callbacks that are due, the core    *)
(* answers, and requests complete.  Requests and callbacks are started a     *)
(* bounded number of times, so none of a kind can starve another.  The first *)
(* two are weak fairness with ENABLED written out.                           *)
Fairness ==
    /\ []<>~(Idle /\ dirty # {}) \/ []<><<Flush>>_vars
    /\ []<>~commit.open \/ []<><<Accept>>_vars
    /\ WF_vars(\E f \in Pool : FetchDone(f))
    /\ WF_vars(\E f \in Pool, h \in {0} \cup Pool : Callback(f, h))

Spec == Init /\ [][Next]_vars /\ Fairness

---------------------------------------------------------------------------
Listed(t) == [i \in DOMAIN t.kids |-> t.kids[i].el]

(* Between two commits the surface has what the tree says: the views of the  *)
(* content in its order, then the fallback, nothing else, and the content    *)
(* has display none exactly while the boundary hides it.                     *)
MirrorsTree ==
    Idle => /\ view.kids = Flattened(tree)
            /\ view.live = ToSet(view.kids)
            /\ view.none = IF tree.hiding THEN TagsOf(tree.kids) ELSE {}

(* "Tags absent from after are assumed to be detached already", "the content  *)
(* stays mounted and is hidden": no pass stages an operation that the core    *)
(* refuses, whatever was built, destroyed and kept while a signal unwound.   *)
OpsAccepted == Checked(view, commit.ops).ok

(* Every pending request belongs to one state, which is either mounted or    *)
(* kept for the retry, and no element has two: "cached resources resolve     *)
(* instead of refetching", and, unless one has failed, none runs on for a    *)
(* component that is gone.  It says nothing once the core has refused a      *)
(* commit: the rollback gives a mounted component its old request back, and  *)
(* the one the refused pass started runs on beside it.                       *)
OneStatePerElement ==
    Idle /\ rejections = 0 =>
        LET states == Mounted(tree) \cup tree.saved
        IN  /\ Mounted(tree) \cap tree.saved = {}
            /\ \A g, h \in states : hook[g].key = hook[h].key => g = h
            /\ failures = 0 =>
                   {f \in Pool : answer[f] = "pending"} \subseteq {hook[h].fetch : h \in states}

(* "Hook state, native views, focus, and scroll position of the siblings     *)
(* survive": an element that is mounted, and that the content had and still  *)
(* has, stays mounted with its view and its state, whatever suspends, fails  *)
(* or is rolled back around it.                                              *)
Committed == IF Idle THEN tree ELSE commit.tree
ContentSurvives ==
    [][\A m \in ToSet(Committed.kids) :
         m.mounted /\ Committed'.notice = 0 /\ m.el \in ToSet(Committed.element) \cap ToSet(Committed'.element)
           => m \in ToSet(Committed'.kids)]_vars

(* Unless the core refuses a commit, the boundaries come to show the content *)
(* that was asked for, all of it and nothing older, or an error that nobody  *)
(* has reset: no wake-up is lost.                                            *)
EventuallyRevealed ==
    <>[](rejections = 0 =>
           tree.failed \/ (tree.notice = 0 /\ ~Showing(tree) /\ Listed(tree) = wanted))

(* The plans the boundary's children are placed by, for all orders of a few  *)
(* children: carried out by the core a plan gives the order asked for, with  *)
(* the fewest insertions ("the optimum for a move-aware insert primitive").  *)
MovesMinimal == changes = 0 => PlansAreMinimal
=============================================================================
