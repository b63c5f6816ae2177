------------------------------ MODULE ScreenHost ------------------------------
(* Screen hosts (hosts/base.py) over the one surface they share: mounting,   *)
(* destroying, refreshing after a code change, and the recovery of a release *)
(* build whose surface failed.  A tree is one Reconciler, reduced to its     *)
(* commits; BridgeBackend and Reconciler have the details.  Every action is  *)
(* one turn of the application loop.  A handler is an operator from world to *)
(* world, and an exception that leaves it is the world's field raised.       *)
EXTENDS Integers, Sequences, FiniteSets, SequencesExt

CONSTANTS
    Hosts,         \* ScreenHost objects; a screen id created again is another one
    Builds,        \* build kinds to start from: TRUE is a development build
    MaxTrees,      \* bound: reconcilers made
    MaxFailures,   \* bound: failures and rejections of the surface
    MaxUpdates,    \* bound: renders
    MaxReloads,    \* bound: changed code, and retries of the fallback
    MaxElapses     \* bound: minutes that pass

ASSUME ScreenHostAssumption ==
    {MaxTrees, MaxFailures, MaxUpdates, MaxReloads, MaxElapses} \subseteq Nat /\ Builds \subseteq BOOLEAN

VARIABLES
    dev,      \* diagnostics.is_dev()
    backend,  \* failed, application, whether it has committed, whom on_surface_failed calls, the commits
    trees,    \* every Reconciler made, in the order they were made
    host,     \* each host's fields
    tasks,    \* the refresh and remount tasks that have not ended
    code,     \* version of the application's modules
    used,     \* how often each bounded action ran
    reporters, \* diagnostics._reporters: hosts in the order they were made
    recovered \* history: recoveries of a host since a minute passed or it was restarted

vars == <<dev, backend, trees, host, tasks, code, used, reporters, recovered>>

None == 0
World == [backend |-> backend, trees |-> trees, host |-> host, tasks |-> tasks,
          code |-> code, reporters |-> reporters, recovered |-> recovered, raised |-> FALSE]
Become(w) ==
    /\ backend' = w.backend /\ trees' = w.trees /\ host' = w.host
    /\ tasks' = w.tasks /\ code' = w.code /\ reporters' = w.reporters
    /\ recovered' = w.recovered /\ dev' = dev

Spend(name, bound) == used[name] < bound /\ used' = [used EXCEPT ![name] = @ + 1]

Pending(w, t) == w.trees[t].commit # "none"
NewHost == [current |-> None, born |-> FALSE, recovering |-> FALSE, recent |-> FALSE,
            gaveUp |-> FALSE, task |-> None, error |-> FALSE]
NewTree(w, h) == [owner |-> h, application |-> w.backend.application, root |-> FALSE,
                  commit |-> "none", kind |-> "none", unmount |-> FALSE, code |-> w.code,
                  fallback |-> w.host[h].gaveUp]

---------------------------------------------------------------------------
(* The reconciler and the commit channel, as the host sees them. *)

(* A pass that fails: on a failed surface the tree is retired, otherwise the *)
(* root is what it was when the pass began.                                  *)
Aborted(w, t) ==
    [w EXCEPT !.trees[t].commit = "none", !.trees[t].kind = "none",
              !.trees[t].root = ~w.backend.failed /\ w.trees[t].kind = "update"]

(* apply_mutations at the end of a pass: behind a commit in flight it waits  *)
(* its turn; on a failed surface that is idle it raises at once.             *)
Commit(w, t, kind) ==
    LET begun == [w EXCEPT !.trees[t].kind = kind, !.trees[t].root = kind # "unmount"]
    IN  IF w.backend.flight # None
        THEN [begun EXCEPT !.trees[t].commit = "queued", !.backend.queue = Append(@, t)]
        ELSE IF w.backend.failed THEN [Aborted(begun, t) EXCEPT !.raised = TRUE]
        ELSE [begun EXCEPT !.trees[t].commit = "flight", !.backend.flight = t]

(* Reconciler.unmount *)
Unmount(w, t) ==
    IF Pending(w, t) THEN [w EXCEPT !.trees[t].unmount = TRUE]
    ELSE IF ~w.trees[t].root THEN w
    ELSE Commit(w, t, "unmount")

(* BridgeBackend.reset *)
ResetRefused(w) == w.backend.flight # None \/ w.backend.queue # <<>>
Reset(w) ==
    IF ~w.backend.failed THEN w
    ELSE IF ResetRefused(w) THEN [w EXCEPT !.raised = TRUE]
    ELSE [w EXCEPT !.backend.failed = FALSE, !.backend.application = @ + 1,
                    !.backend.committed = FALSE]

---------------------------------------------------------------------------
(* ScreenHost. *)

(* _new_reconciler and its first mount.  The surface's failures go to the    *)
(* last host that made one.                                                  *)
Begin(w, h) ==
    LET t == Len(w.trees) + 1
    IN  Commit([w EXCEPT !.trees = Append(@, NewTree(w, h)), !.host[h].current = t,
                         !.backend.slot = h], t, "mount")

(* mount() of _full_remount *)
MountAnew(w, h, old) ==
    IF w.host[h].current # old THEN w
    ELSE LET clean == Reset(w) IN IF clean.raised THEN clean ELSE Begin(clean, h)

(* Tasks take the numbers that no other task of the world has. *)
Spawn(w, h, kind, t, force) ==
    LET id == CHOOSE n \in 1..(Cardinality(w.tasks) + 1) : \A x \in w.tasks : x.id # n
    IN  [w EXCEPT !.tasks = @ \cup {[id |-> id, host |-> h, kind |-> kind, tree |-> t,
                                     force |-> force, state |-> "new"]},
                  !.host[h].task = id]

(* Mutant of FullRemount: the old tree is left to the new one. *)
MutantKeepOldTree(w, h) == MountAnew(w, h, w.host[h].current)

(* _full_remount: the old tree goes first, and is waited for when it must be. *)
FullRemount(w, h) ==
    LET old == w.host[h].current
        gone == Unmount(w, old)
    IN  IF gone.raised THEN gone
        ELSE IF Pending(gone, old) THEN Spawn(gone, h, "remount", old, FALSE)
        ELSE MountAnew(gone, h, old)

(* Mutant of RecoverSurface: it does not stop when the fallback fails too. *)
MutantNeverGiveUp(w, h) ==
    LET s == w.host[h]
    IN  IF dev \/ s.recovering \/ s.current = None THEN w
        ELSE [w EXCEPT !.host[h] = [s EXCEPT !.gaveUp = @ \/ s.recent, !.recent = TRUE,
                                             !.recovering = TRUE],
                       !.recovered[h] = @ + 1]

(* _recover_surface: the first failure within a minute gets a fresh tree,    *)
(* the second the fallback, any further one nothing.                         *)
RecoverSurface(w, h) ==
    LET s == w.host[h]
    IN  IF dev \/ s.recovering \/ s.current = None \/ (s.recent /\ s.gaveUp) THEN w
        ELSE [w EXCEPT !.host[h] = [s EXCEPT !.gaveUp = @ \/ s.recent, !.recent = TRUE,
                                             !.recovering = TRUE],
                       !.recovered[h] = @ + 1]

(* failed() of _new_reconciler: a tree the host let go of fails unheard.     *)
CommitFailed(w, t) ==
    LET h == w.trees[t].owner
    IN  IF w.host[h].current # t THEN w
        ELSE IF dev THEN [w EXCEPT !.host[h].error = TRUE]
        ELSE RecoverSurface(w, h)

(* on_create *)
Create(h) ==
    /\ Len(trees) < MaxTrees
    /\ ~host[h].born
    /\ LET w == Begin([World EXCEPT !.host[h].born = TRUE, !.reporters = Append(@, h)], h)
       IN  Become([w EXCEPT !.host[h].error = @ \/ (dev /\ w.raised)])
    /\ UNCHANGED used

(* on_destroy: its tree is unmounted whatever comes of it. *)
Destroy(h) ==
    /\ host[h].current # None
    /\ Become(Unmount([World EXCEPT !.host[h].current = None, !.host[h].error = FALSE,
                                     !.reporters = RemoveFirst(@, h)], host[h].current))
    /\ UNCHANGED used

(* request_render with dirty components; held while a commit is pending.     *)
Update(h) ==
    LET t == host[h].current
    IN  /\ Spend("updates", MaxUpdates)
        /\ t # None /\ trees[t].root /\ ~Pending(World, t)
        /\ LET w == Commit(World, t, "update")
           IN  Become([w EXCEPT !.host[h].error = @ \/ (dev /\ w.raised)])
    
---------------------------------------------------------------------------
(* The channel's answers. *)

(* The core answers the commit in flight.  On a surface that was reset a     *)
(* tree of the application before names views nobody knows.                  *)
Answer ==
    LET t == backend.flight
        known == trees[t].application = backend.application
        put(result, failed) == [World EXCEPT !.trees[t].commit = result, !.backend.flight = None,
                                             !.backend.failed = failed,
                                             !.backend.committed = @ \/ result = "acknowledged"]
    IN  /\ t # None
        /\ \/ known /\ Become(put("acknowledged", backend.failed)) /\ UNCHANGED used
           \/ ~known /\ Become(put("refused", FALSE)) /\ UNCHANGED used
           \/ known /\ ~backend.failed /\ Spend("failures", MaxFailures) /\ Become(put("refused", FALSE))
           \/ backend.failed /\ Become(put("refused", TRUE)) /\ UNCHANGED used
           \/ ~backend.failed /\ Spend("failures", MaxFailures) /\ Become(put("refused", TRUE))
    
(* submit() of a queued commit, once the channel is free. *)
Submit ==
    /\ backend.flight = None /\ backend.queue # <<>>
    /\ LET t == Head(backend.queue)
           w == [World EXCEPT !.backend.queue = Tail(@)]
       IN  Become(IF backend.failed THEN [w EXCEPT !.trees[t].commit = "refused"]
                  ELSE [w EXCEPT !.trees[t].commit = "flight", !.backend.flight = t])
    /\ UNCHANGED used

Woken(w, t, state) ==
    [w EXCEPT !.tasks = {IF x.tree = t /\ x.state = "waiting" THEN [x EXCEPT !.state = state] ELSE x :
                            x \in w.tasks}]

(* _resume_commit: the pass ends or is aborted, the host hears of an error,  *)
(* whoever waits is told, and the unmount asked for meanwhile is made.  When *)
(* that raises, the waiters are not told.                                    *)
Finished(w, t) ==
    IF w.trees[t].commit = "acknowledged"
    THEN [w EXCEPT !.trees[t].commit = "none", !.trees[t].kind = "none"]
    ELSE Woken(CommitFailed(Aborted(w, t), t), t, "error")
Resume(t) ==
    /\ trees[t].commit \in {"acknowledged", "refused"}
    /\ LET done == Finished(World, t)
           asked == [done EXCEPT !.trees[t].unmount = FALSE]
           gone == IF done.trees[t].unmount THEN Unmount(asked, t) ELSE done
       IN  Become(IF gone.raised THEN gone ELSE Woken(gone, t, "ready"))
    /\ UNCHANGED used

(* surface_failed: the UI thread could not mount a transaction of this       *)
(* application; the loop may not have its acknowledgement yet.               *)
SurfaceFailed ==
    /\ Spend("failures", MaxFailures)
    /\ backend.committed \/ backend.flight # None
    /\ ~backend.failed
    /\ LET w == [World EXCEPT !.backend.failed = TRUE]
           told == IF backend.slot \in Hosts THEN RecoverSurface(w, backend.slot) ELSE w
       IN  Become(IF dev /\ reporters # <<>> THEN [told EXCEPT !.host[Last(reporters)].error = TRUE]
                  ELSE told)

---------------------------------------------------------------------------
(* Recovery, refreshes and the tasks they leave. *)

(* recover(); a host that was destroyed meanwhile has no tree to remount.    *)
Recover(h) ==
    /\ Len(trees) < MaxTrees
    /\ host[h].recovering
    /\ LET w == [World EXCEPT !.host[h].recovering = FALSE]
       IN  Become(IF host[h].current = None THEN w ELSE FullRemount(w, h))
    /\ UNCHANGED used

(* The retry button of the fallback. *)
Restart(h) ==
    LET t == host[h].current
    IN  /\ Spend("reloads", MaxReloads) /\ Len(trees) < MaxTrees
        /\ t # None /\ trees[t].fallback /\ trees[t].root /\ ~Pending(World, t)
        /\ Become(FullRemount([World EXCEPT !.host[h].gaveUp = FALSE, !.host[h].recent = FALSE,
                                            !.recovered[h] = 0], h))
    
(* _RECOVERY_WINDOW_SECONDS pass. *)
Elapse ==
    /\ Spend("elapses", MaxElapses) /\ \E h \in Hosts : host[h].recent
    /\ host' = [h \in Hosts |-> [host[h] EXCEPT !.recent = FALSE]]
    /\ recovered' = [h \in Hosts |-> 0]
    /\ UNCHANGED <<dev, backend, trees, tasks, code, reporters>>

(* _schedule_refresh: an earlier task is cancelled.  One that has not begun  *)
(* ends without a trace; one that waits runs its finally clause.             *)
Cancelled(w, h) ==
    LET earlier == {x \in w.tasks : x.host = h /\ x.id = w.host[h].task}
    IN  [w EXCEPT !.tasks = {IF x \in earlier THEN [x EXCEPT !.state =
                                 IF x.state = "new" THEN "dropped" ELSE "cancelled"] ELSE x :
                             x \in w.tasks}]

(* refresh: while a commit is pending it is put off; then Fast Refresh, which *)
(* may not apply, or a full remount.                                         *)
FastRefresh(w, h) ==
    LET t == w.host[h].current IN [Commit(w, t, "update") EXCEPT !.trees[t].code = w.code]
CanFastRefresh(w, h, force) ==
    ~force /\ ~w.backend.failed /\ w.trees[w.host[h].current].root
(* Mutant of Refreshed: a refresh during a commit is not put off but lost. *)
MutantLoseRefresh(w, h, force, fast) ==
    LET again == FullRemount([w EXCEPT !.host[h].error = FALSE], h)
    IN  IF w.host[h].current = None \/ Pending(w, w.host[h].current) THEN w
        ELSE IF fast /\ CanFastRefresh(w, h, force) THEN FastRefresh(w, h)
        ELSE [again EXCEPT !.host[h].error = @ \/ again.raised, !.raised = FALSE]

Refreshed(w, h, force, fast) ==
    LET clear == [w EXCEPT !.host[h].error = FALSE]
        again == FullRemount(clear, h)
    IN  IF w.host[h].current = None THEN w
        ELSE IF Pending(w, w.host[h].current)
        THEN Spawn(Cancelled(clear, h), h, "refresh", None, force)
        ELSE IF fast /\ CanFastRefresh(w, h, force) THEN FastRefresh(clear, h)
        ELSE [again EXCEPT !.host[h].error = @ \/ again.raised, !.raised = FALSE]

(* The dev client reloads the modules once and refreshes every live host.    *)
Refresh ==
    /\ dev /\ Len(trees) + Len(reporters) <= MaxTrees /\ Spend("reloads", MaxReloads)
    /\ \E force, fast \in BOOLEAN :
          Become(FoldLeft(LAMBDA w, h : Refreshed(w, h, force, fast),
                          [World EXCEPT !.code = @ + 1], reporters))

(* A task's first step, or its next one after it was told. *)
Ended(w, x) ==
    LET left == [w EXCEPT !.tasks = {y \in @ : y.id # x.id}]
    IN  IF x.kind = "refresh" THEN [left EXCEPT !.host[x.host].task = None] ELSE left

RunRemount(x) ==
    /\ x.kind = "remount" /\ x.state \in {"new", "ready", "error"}
    /\ IF x.state # "error" /\ Pending(World, x.tree)
       THEN Become([World EXCEPT !.tasks = (@ \ {x}) \cup {[x EXCEPT !.state = "waiting"]}])
       ELSE LET w == IF x.state = "error" THEN [World EXCEPT !.raised = TRUE]
                     ELSE MountAnew(World, x.host, x.tree)
            IN  Become(Ended([w EXCEPT !.host[x.host].error = @ \/ (dev /\ w.raised)], x))
    /\ UNCHANGED used

(* refresh_when_idle: an error of the tree it waited for is ignored, and a    *)
(* host that went on to another tree is left alone.                          *)
RunRefresh(x) ==
    LET t == IF x.tree = None THEN host[x.host].current ELSE x.tree
    IN  /\ x.kind = "refresh" /\ x.state \in {"new", "ready", "error"}
        /\ IF x.state # "error" /\ t # None /\ Pending(World, t)
           THEN Become([World EXCEPT !.tasks = (@ \ {x}) \cup
                                        {[x EXCEPT !.state = "waiting", !.tree = t]}])
           ELSE IF t = None \/ host[x.host].current # t THEN Become(Ended(World, x))
           ELSE \E fast \in BOOLEAN : Become(Ended(Refreshed(World, x.host, x.force, fast), x))
        /\ UNCHANGED used

(* A cancelled task ends; the finally clause of a refresh that had begun     *)
(* clears the host's task, whichever it is by now.                           *)
RunCancelled(x) ==
    /\ x.state \in {"cancelled", "dropped"}
    /\ Become(IF x.state = "dropped" THEN [World EXCEPT !.tasks = @ \ {x}] ELSE Ended(World, x))
    /\ UNCHANGED used

---------------------------------------------------------------------------
Init ==
    /\ dev \in Builds
    /\ backend = [failed |-> FALSE, application |-> 1, committed |-> FALSE, slot |-> None, flight |-> None, queue |-> <<>>]
    /\ trees = <<>>
    /\ host = [h \in Hosts |-> NewHost]
    /\ tasks = {}
    /\ code = 0
    /\ used = [failures |-> 0, updates |-> 0, reloads |-> 0, elapses |-> 0]
    /\ reporters = <<>>
    /\ recovered = [h \in Hosts |-> 0]

RunTask == Len(trees) < MaxTrees /\ \E x \in tasks : RunRemount(x) \/ RunRefresh(x) \/ RunCancelled(x)
ResumeSome == \E t \in DOMAIN trees : Resume(t)
RecoverSome == \E h \in Hosts : Recover(h)

Next ==
    \/ \E h \in Hosts : Create(h) \/ Destroy(h) \/ Update(h) \/ Restart(h)
    \/ Refresh
    \/ Answer \/ Submit \/ ResumeSome \/ SurfaceFailed \/ RecoverSome \/ RunTask \/ Elapse

(* The executor answers, and the loop runs every callback and task it holds. *)
Fairness == WF_vars(Answer) /\ WF_vars(Submit) /\ WF_vars(ResumeSome) /\ WF_vars(RecoverSome)
            /\ WF_vars(RunTask)

Spec == Init /\ [][Next]_vars /\ Fairness

---------------------------------------------------------------------------
(* A screen shows one tree: any other tree of the host that still has a root *)
(* has been asked to unmount, whatever recoveries, reloads and the screen's  *)
(* end did to each other.  (_full_remount, on_destroy, unmount)              *)
OneTree == \A t \in DOMAIN trees :
    trees[t].root => host[trees[t].owner].current = t \/ trees[t].unmount

(* A release build whose tree cannot be mounted does not remount for ever:   *)
(* two recoveries within a minute, whichever of the core, the refused commit *)
(* and other hosts report the failures.  (_recover_surface)                  *)
BoundedRecovery == \A h \in Hosts : recovered[h] <= 2

(* Once nothing of a host is under way its tree runs the code that was       *)
(* loaded last, unless an error is shown: a reload during a commit, a second *)
(* reload, a remount or a failure of the surface in between lose none.       *)
(* (refresh, _schedule_refresh, _full_remount)                               *)
Quiet(h) == /\ host[h].current # None /\ ~Pending(World, host[h].current)
            /\ \A x \in tasks : x.host # h
NewCodeShown == \A h \in Hosts :
    dev /\ Quiet(h) => trees[host[h].current].code = code \/ host[h].error

=============================================================================
