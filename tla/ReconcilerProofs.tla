--------------------------- MODULE ReconcilerProofs ---------------------------
(***************************************************************************)
(* What Reconciler guarantees for every value of its constants: the tree   *)
(* it holds is the one on the screen, state stands still while the native  *)
(* side mounts, the last request wins, and no state update is forgotten,   *)
(* whatever was requested while commits were in flight.                    *)
(***************************************************************************)
EXTENDS Reconciler, FiniteSetTheorems, SequenceTheorems, TLAPS

(* A pass in flight waits for the loop to be between callbacks, or for      *)
(* _resume_commit to put its inputs back.                                   *)
PendingPhases == pending => phase \in {"idle", "inputs"}

(* Only the commit in flight has a verdict. *)
VerdictPending == verdict = "accepted" => pending

(* What is staged belongs to the tree of the pass; outside a pass the tree  *)
(* is the one native acknowledged.                                          *)
StagedTree  == pending \/ phase = "drain" => staged.tree = root
SettledTree == ~pending /\ phase # "drain" => root \in {0, shown.tree}

IInv == PendingPhases /\ VerdictPending /\ StagedTree /\ SettledTree

(* The initial state satisfies the invariant. *)
LEMMA InitIInv == Init => IInv
  BY DEF Init, IInv, PendingPhases, VerdictPending, StagedTree, SettledTree, NoTree

(* Aborting a pass falls back to the tree on the screen, or to none. *)
LEMMA AbortTree == Abort => root' \in {0, shown.tree} /\ staged' = shown
  BY DEF Abort, RootRestored

(* The inductive step, one case per action. *)
LEMMA NextIInv == IInv /\ [Next]_vars => IInv'
<1> SUFFICES ASSUME IInv, [Next]_vars PROVE IInv'
  OBVIOUS
<1> USE DEF IInv, PendingPhases, VerdictPending, StagedTree, SettledTree
<1>1. CASE UNCHANGED vars
  BY <1>1 DEF vars, passVars, stepVars, paintVars
<1>2. CASE \E c \in Components : UserSet(c) \/ StartTransition(c)
  BY <1>2 DEF UserSet, StartTransition, stepVars, paintVars
<1>3. CASE Mount
  <2>1. CASE pending
    BY <1>3, <2>1 DEF Mount
  <2>2. CASE ~pending /\ root # 0
    BY <1>3, <2>2 DEF Mount, Request, Idle, UnmountPass, NoTree
  <2>3. CASE ~pending /\ root = 0
    BY <1>3, <2>3 DEF Mount, BeginMount
  <2> QED BY <2>1, <2>2, <2>3
<1>4. CASE Reconcile
  <2>1. CASE pending
    BY <1>4, <2>1 DEF Reconcile
  <2>2. CASE ~pending /\ root # 0
    BY <1>4, <2>2 DEF Reconcile, BeginReconcile
  <2>3. CASE ~pending /\ root = 0
    BY <1>4, <2>3 DEF Reconcile, BeginMount
  <2> QED BY <2>1, <2>2, <2>3
<1>5. CASE Unmount
  BY <1>5 DEF Unmount, Request, Idle, UnmountPass, NoTree, stepVars
<1>6. CASE WaitForCommit
  BY <1>6 DEF WaitForCommit, stepVars, paintVars
<1>7. CASE Native
  BY <1>7 DEF Native, Answer, passVars, stepVars
<1>8. CASE RunFlush
  BY <1>8 DEF RunFlush, Idle
<1>9. CASE RunTransition
  BY <1>9 DEF RunTransition, stepVars, paintVars
<1>10. CASE RunResume
  <2>1. CASE verdict = "accepted"
    BY <1>10, <2>1 DEF RunResume, Idle
  <2>2. CASE verdict # "accepted"
    BY <1>10, <2>2, AbortTree DEF RunResume, Idle
  <2> QED BY <2>1, <2>2
<1>11. CASE RunWaiter
  BY <1>11 DEF RunWaiter, stepVars, paintVars
<1>12. CASE \E setters \in {{}} \cup {{c} : c \in Components} : Drain(setters)
  <2> PICK setters \in {{}} \cup {{c} : c \in Components} : Drain(setters)
    BY <1>12
  <2>1. staged'.tree = staged.tree /\ root' = root /\ shown' = shown
        /\ pending' = pending /\ phase' = phase /\ verdict' = verdict
    BY DEF Drain, stepVars
  <2> QED BY <2>1
<1>13. CASE RenderRaises
  BY <1>13, AbortTree DEF RenderRaises
<1>14. CASE Submit
  BY <1>14 DEF Submit
<1>15. CASE EffectsEnd
  BY <1>15 DEF EffectsEnd
<1>16. CASE EffectRaises
  BY <1>16, AbortTree DEF EffectRaises
<1>17. CASE HeldUnmount
  BY <1>17 DEF HeldUnmount, UnmountPass, NoTree
<1>18. CASE HeldElement
  <2>1. CASE root = 0
    BY <1>18, <2>1 DEF HeldElement, BeginMount
  <2>2. CASE root # 0
    BY <1>18, <2>2 DEF HeldElement, BeginReconcile
  <2> QED BY <2>1, <2>2
<1>19. CASE HeldNothing
  BY <1>19 DEF HeldNothing, passVars, paintVars
<1>20. CASE ReplayInput
  <2>1. UNCHANGED <<root, pending, phase, staged, shown, verdict>>
    BY <1>20 DEF ReplayInput, paintVars
  <2> QED BY <2>1
<1>21. CASE ReplayRaises
  BY <1>21 DEF ReplayRaises, passVars, paintVars
<1>22. CASE ReplayEnd
  BY <1>22 DEF ReplayEnd, paintVars
<1>23. CASE \E c \in Components : EffectSets(c)
  BY <1>23 DEF EffectSets, stepVars, paintVars
<1> QED
  BY <1>1, <1>2, <1>3, <1>4, <1>5, <1>6, <1>7, <1>8, <1>9, <1>10, <1>11, <1>12,
     <1>13, <1>14, <1>15, <1>16, <1>17, <1>18, <1>19, <1>20, <1>21, <1>22, <1>23
     DEF Next, LoopStep, Application

(* The inductive invariant holds in every state. *)
THEOREM Invariant == Spec => []IInv
<1>1. Init => IInv
  BY InitIInv
<1>2. IInv /\ [Next]_vars => IInv'
  BY NextIInv
<1> QED BY <1>1, <1>2, PTL DEF Spec

(* A pass that raised, or whose commit was refused, leaves the committed    *)
(* tree in place.                                                           *)
THEOREM CommittedTree == Spec => []CommittedTreeStays
<1>1. IInv => CommittedTreeStays
  BY DEF IInv, SettledTree, CommittedTreeStays, Idle
<1> QED BY <1>1, Invariant, PTL

(* While a commit is in flight no step changes the state, the tree or what  *)
(* was staged: whatever asks to is held.                                    *)
LEMMA HeldStep ==
  IInv /\ [Next]_vars /\ pending /\ pending' => UNCHANGED <<value, busy, queue, root, staged>>
<1> SUFFICES ASSUME IInv, [Next]_vars, pending, pending'
             PROVE  UNCHANGED <<value, busy, queue, root, staged>>
  OBVIOUS
<1>0. phase \in {"idle", "inputs"}
  BY DEF IInv, PendingPhases
<1>1. CASE UNCHANGED vars
  BY <1>1 DEF vars, hookVars, paintVars
<1>2. CASE \E c \in Components : UserSet(c) \/ StartTransition(c)
  BY <1>2 DEF UserSet, StartTransition, DeferInput, hookVars, paintVars
<1>3. CASE Mount
  BY <1>3 DEF Mount, hookVars
<1>4. CASE Reconcile
  BY <1>4 DEF Reconcile, hookVars
<1>5. CASE Unmount
  BY <1>5 DEF Unmount, hookVars
<1>6. CASE WaitForCommit \/ RunWaiter \/ Native
  BY <1>6 DEF WaitForCommit, RunWaiter, Native, Answer, hookVars, paintVars
<1>7. CASE RunFlush
  BY <1>7 DEF RunFlush, hookVars
<1>8. CASE RunTransition
  BY <1>8 DEF RunTransition, DeferInput, hookVars, paintVars
<1>9. CASE RunResume
  BY <1>9 DEF RunResume
<1>10. CASE ReplayInput
  BY <1>10 DEF ReplayInput, DeferInput, hookVars, paintVars
<1>11. CASE ReplayRaises \/ ReplayEnd
  BY <1>11 DEF ReplayRaises, ReplayEnd, hookVars, paintVars
<1>12. ASSUME NEW setters PROVE ~Drain(setters)
  BY <1>0 DEF Drain
<1>13. ASSUME NEW c PROVE ~EffectSets(c)
  BY <1>0 DEF EffectSets
<1>14. ~RenderRaises /\ ~Submit /\ ~EffectsEnd /\ ~EffectRaises
       /\ ~HeldUnmount /\ ~HeldElement /\ ~HeldNothing
  BY <1>0 DEF RenderRaises, Submit, EffectsEnd, EffectRaises, HeldUnmount,
              HeldElement, HeldNothing
<1> QED
  BY <1>1, <1>2, <1>3, <1>4, <1>5, <1>6, <1>7, <1>8, <1>9, <1>10, <1>11, <1>12,
     <1>13, <1>14 DEF Next, LoopStep, Application

(* While a commit is in flight state, deferred work, the root and what was *)
(* staged stay as they are.                                                *)
THEOREM StateHeld == Spec => HeldWhilePending
<1>1. IInv /\ [Next]_vars =>
        [pending /\ pending' => UNCHANGED <<value, busy, queue, root, staged>>]_vars
  BY HeldStep
<1> QED BY <1>1, Invariant, PTL DEF Spec, HeldWhilePending

---------------------------------------------------------------------------
(* The reconciler settles on what it was asked for. *)

(* What is on the loop, and what a step that answers nothing adds to it.   *)
LoopCalls == {"flush", "transition", "waiter", "resume"}
Answerless(calls) == \A i \in DOMAIN calls : calls[i] # "resume"
OneResume(calls) == \A i, j \in DOMAIN calls : calls[i] = "resume" /\ calls[j] = "resume" => i = j
Prolongs(longer, calls) ==
  /\ longer \in Seq(LoopCalls)
  /\ Answerless(calls) => Answerless(longer)
  /\ OneResume(calls) => OneResume(longer)
  /\ Contains(calls, "flush") => Contains(longer, "flush")

OnComponents(f) == f = [c \in Components |-> f[c]]
Paint(s) ==
  /\ s = [tree |-> s.tree, element |-> s.element, value |-> s.value, busy |-> s.busy]
  /\ OnComponents(s.value) /\ OnComponents(s.busy)
Slots == OnComponents(value) /\ OnComponents(busy) /\ Paint(staged) /\ Paint(shown)
Counters ==
  /\ ready \in Seq(LoopCalls) /\ completions \in Seq(Components)
  /\ trees \in Nat /\ queuedElement \in Nat
  /\ errors \in Nat /\ rejections \in Nat /\ renderSets \in Nat /\ requests \in Nat

(* One answer of the core is on its way to the loop at a time. *)
OneAnswer ==
  /\ verdict # "none" => pending
  /\ verdict = "none" => Answerless(ready)
  /\ OneResume(ready)

(* A flush that is scheduled is on the loop. *)
FlushPosted == flushScheduled => Contains(ready, "flush")

(* The callback of an answer has the phases after the requests to itself;  *)
(* requests wait for a commit in flight or for that callback.              *)
Callers ==
  /\ caller \in {"loop", "resume"}
  /\ phase = "requests" => caller = "resume"
  /\ unmountRequested \/ queuedElement # 0 =>
       pending \/ phase = "requests" \/ (phase = "effects" /\ caller = "resume")

(* While nothing was refused or raised, the tree of the last pass is the   *)
(* one to be shown, and is shown once no commit is in flight.              *)
Clean == errors = 0 /\ rejections = 0
Passed ==
  Clean =>
    /\ verdict \in {"none", "accepted"}
    /\ staged.tree = root
    /\ (root = 0) <=> (staged.element = 0)
    /\ ~pending /\ phase # "drain" => staged = shown

(* The element the held requests lead to. *)
Aim == IF queuedElement # 0 THEN queuedElement
       ELSE IF unmountRequested THEN 0 ELSE staged.element
Aimed == Clean => wanted = Aim

(* A component that the last pass did not show is dirty, and dirty         *)
(* components have a flush scheduled or a pass to come.                    *)
Quiet == Clean /\ renderSets = 0
Marked ==
  /\ Clean => \A c \in Components : busy[c] \in BOOLEAN
  /\ Quiet => covered = {}
  /\ Quiet /\ root # 0 =>
       \A c \in Components : c \notin dirty =>
         staged.value[c] = value[c] /\ staged.busy[c] = busy[c]
Scheduled ==
  Quiet /\ ~pending /\ root # 0 /\ dirty # {} =>
    /\ Idle => flushScheduled
    /\ phase = "effects" /\ caller = "loop" => renderQueued

SInv == /\ IInv /\ Slots /\ Counters /\ OneAnswer /\ FlushPosted /\ Callers
        /\ Passed /\ Aimed /\ Marked /\ Scheduled

----------------------------------------------------------------------------
(* The queue of the loop. *)

LEMMA Posting ==
  ASSUME NEW calls \in Seq(LoopCalls), NEW more \in Seq(LoopCalls \ {"resume"})
  PROVE  /\ Prolongs(calls \o more, calls)
         /\ Contains(more, "flush") => Contains(calls \o more, "flush")
<1>1. calls \o more \in Seq(LoopCalls)
  OBVIOUS
<1>2. \A i \in DOMAIN (calls \o more) :
        IF i \in DOMAIN calls THEN (calls \o more)[i] = calls[i] ELSE (calls \o more)[i] # "resume"
  OBVIOUS
<1>3. \A i \in DOMAIN more : (calls \o more)[Len(calls) + i] = more[i] /\ Len(calls) + i \in 1..Len(calls \o more)
  OBVIOUS
<1>4. \A i \in DOMAIN calls : (calls \o more)[i] = calls[i] /\ i \in 1..Len(calls \o more)
  OBVIOUS
<1>5. Answerless(calls) => Answerless(calls \o more)
  BY <1>2 DEF Answerless
<1>6. OneResume(calls) => OneResume(calls \o more)
  BY <1>2 DEF OneResume
<1>7. Contains(calls, "flush") => Contains(calls \o more, "flush")
  BY <1>4 DEF Contains
<1>8. Contains(more, "flush") => Contains(calls \o more, "flush")
  <2> SUFFICES ASSUME NEW i \in 1..Len(more), more[i] = "flush"
               PROVE  Contains(calls \o more, "flush")
    BY DEF Contains
  <2>1. Len(calls) + i \in 1..Len(calls \o more) /\ (calls \o more)[Len(calls) + i] = "flush"
    BY <1>3
  <2> QED BY <2>1 DEF Contains
<1> QED BY <1>1, <1>5, <1>6, <1>7, <1>8 DEF Prolongs

LEMMA Settling ==
  ASSUME NEW calls \in Seq(LoopCalls), NEW how, Settle(how, calls)
  PROVE  Prolongs(ready', calls)
<1>1. <<"waiter">> \in Seq(LoopCalls \ {"resume"}) /\ Append(calls, "waiter") = calls \o <<"waiter">>
  BY DEF LoopCalls
<1>2. Prolongs(Append(calls, "waiter"), calls)
  BY <1>1, Posting
<1> QED BY <1>2 DEF Settle, Prolongs

LEMMA Taking ==
  ASSUME NEW calls \in Seq(LoopCalls), calls # <<>>
  PROVE  /\ Tail(calls) \in Seq(LoopCalls)
         /\ Answerless(calls) => Answerless(Tail(calls))
         /\ OneResume(calls) => OneResume(Tail(calls))
         /\ OneResume(calls) /\ Head(calls) = "resume" => Answerless(Tail(calls))
         /\ Head(calls) # "flush" /\ Contains(calls, "flush") => Contains(Tail(calls), "flush")
<1>1. \A i \in DOMAIN Tail(calls) : Tail(calls)[i] = calls[i + 1] /\ i + 1 \in DOMAIN calls /\ i \in Nat
  OBVIOUS
<1>2. \A i \in 1..Len(calls) : i # 1 => i - 1 \in 1..Len(Tail(calls)) /\ Tail(calls)[i - 1] = calls[i]
  OBVIOUS
<1>3. Head(calls) = calls[1] /\ 1 \in DOMAIN calls /\ Tail(calls) \in Seq(LoopCalls)
  OBVIOUS
<1>4. Answerless(calls) => Answerless(Tail(calls))
  BY <1>1 DEF Answerless
<1>5. OneResume(calls) => OneResume(Tail(calls))
  BY <1>1 DEF OneResume
<1>6. OneResume(calls) /\ Head(calls) = "resume" => Answerless(Tail(calls))
  BY <1>1, <1>3 DEF OneResume, Answerless
<1>7. Head(calls) # "flush" /\ Contains(calls, "flush") => Contains(Tail(calls), "flush")
  BY <1>2, <1>3 DEF Contains
<1> QED BY <1>3, <1>4, <1>5, <1>6, <1>7

LEMMA Flushing ==
  ASSUME NEW wanting
  PROVE  FlushCall(wanting) \in Seq(LoopCalls \ {"resume"})
<1>1. <<"flush">> \in Seq(LoopCalls \ {"resume"}) /\ <<>> \in Seq(LoopCalls \ {"resume"})
  BY DEF LoopCalls
<1> QED BY <1>1 DEF FlushCall

LEMMA TransitionPosting ==
  TransitionCall \in Seq(LoopCalls \ {"resume"}) /\ <<>> \in Seq(LoopCalls \ {"resume"})
<1>1. <<"transition">> \in Seq(LoopCalls \ {"resume"}) /\ <<>> \in Seq(LoopCalls \ {"resume"})
  BY DEF LoopCalls
<1> QED BY <1>1 DEF TransitionCall

(* A render is requested: a flush is scheduled once no pass runs. *)
LEMMA Requesting ==
  ASSUME NEW calls \in Seq(LoopCalls), NEW wanting \in BOOLEAN,
         flushScheduled => Contains(calls, "flush"),
         RequestRender(wanting), ready' = calls \o FlushCall(wanting)
  PROVE  /\ Prolongs(ready', calls)
         /\ flushScheduled' => Contains(ready', "flush")
         /\ wanting /\ ~Rendering => flushScheduled'
         /\ wanting /\ Rendering => renderQueued'
<1>1. Prolongs(ready', calls) /\ (Contains(FlushCall(wanting), "flush") => Contains(ready', "flush"))
  BY Posting, Flushing
<1>2. wanting /\ ~Rendering /\ ~flushScheduled => Contains(FlushCall(wanting), "flush")
  BY DEF FlushCall, Contains
<1> QED BY <1>1, <1>2 DEF RequestRender, Prolongs

(* A step that gives state updates and requests what they need: the calls  *)
(* it leaves on the loop, and the rest it leaves alone.                    *)
Updating(calls) ==
  /\ Prolongs(ready', calls) /\ FlushPosted'
  /\ OnComponents(value') /\ OnComponents(busy')
  /\ completions' \in Seq(Components)
  /\ Clean => \A c \in Components :
       /\ busy'[c] \in BOOLEAN
       /\ c \notin dirty' => c \notin dirty /\ value'[c] = value[c] /\ busy'[c] = busy[c]
  /\ dirty' # dirty => IF Rendering THEN renderQueued' ELSE flushScheduled'
  /\ (flushScheduled => flushScheduled') /\ (renderQueued => renderQueued')
restVars == <<root, covered, pending, queuedElement, unmountRequested, phase, caller, staged,
              shown, verdict, wanted, trees, renderSets, errors, rejections, requests>>

LEMMA Updated ==
  ASSUME SInv, IInv', NEW calls \in Seq(LoopCalls),
         Answerless(ready) => Answerless(calls), OneResume(ready) => OneResume(calls),
         Updating(calls), UNCHANGED restVars
  PROVE  SInv'
<1>1. Slots'
  BY DEF SInv, Slots, Updating, restVars, Paint, OnComponents
<1>2. Counters'
  BY DEF SInv, Counters, Updating, restVars, Prolongs
<1>3. OneAnswer'
  BY DEF SInv, OneAnswer, Updating, restVars, Prolongs
<1>4. FlushPosted' /\ Callers' /\ Passed' /\ Aimed'
  BY DEF SInv, Callers, Passed, Aimed, Aim, Clean, Updating, restVars
<1>5. Marked'
  BY DEF SInv, Marked, Clean, Quiet, Updating, restVars
<1>6. Scheduled'
  <2> SUFFICES ASSUME Quiet', ~pending', root' # 0, dirty' # {}
               PROVE  /\ Idle' => flushScheduled'
                      /\ phase' = "effects" /\ caller' = "loop" => renderQueued'
    BY DEF Scheduled
  <2>1. Quiet /\ ~pending /\ root # 0 /\ phase' = phase /\ caller' = caller
    BY DEF restVars, Quiet, Clean
  <2>2. CASE dirty' = dirty
    BY <2>1, <2>2 DEF SInv, Scheduled, Updating, Idle
  <2>3. CASE dirty' # dirty
    BY <2>1, <2>3 DEF Updating, Rendering, Idle
  <2> QED BY <2>2, <2>3
<1> QED BY <1>1, <1>2, <1>3, <1>4, <1>5, <1>6 DEF SInv

(* A setter, a transition or a replay applied with no commit in flight.     *)
LEMMA Applying ==
  ASSUME SInv, NEW e, Apply(e), ~pending
  PROVE  Updating(ready)
<1>0. /\ ready \in Seq(LoopCalls) /\ (flushScheduled => Contains(ready, "flush"))
      /\ OnComponents(value) /\ OnComponents(busy)
      /\ completions \in Seq(Components)
      /\ Clean => \A c \in Components : busy[c] \in BOOLEAN
  BY DEF SInv, Counters, FlushPosted, Slots, Marked
<1>1. CASE ApplySet(e.of, e.update)
  <2>1. /\ RequestRender(TRUE) /\ ready' = ready \o FlushCall(TRUE)
        /\ value' = [value EXCEPT ![e.of] = Append(@, e.update)] /\ busy' = busy
        /\ dirty' = dirty \cup {e.of} /\ completions' = completions
    BY <1>1 DEF ApplySet, laterVars
  <2>2. Prolongs(ready', ready) /\ FlushPosted' /\ IF Rendering THEN renderQueued' ELSE flushScheduled'
    BY <1>0, <2>1, Requesting DEF FlushPosted
  <2>3. OnComponents(value') /\ \A c \in Components : c # e.of => value'[c] = value[c]
    <3>1. DOMAIN value = Components
      BY <1>0 DEF OnComponents
    <3>2. value' = [c \in Components |-> IF c = e.of THEN Append(value[c], e.update) ELSE value[c]]
      BY <2>1, <3>1
    <3> QED BY <3>2 DEF OnComponents
  <2> QED BY <1>0, <2>1, <2>2, <2>3 DEF RequestRender, Updating
<1>2. CASE ApplyDefer(e.of, e.update)
  <2>1. /\ UNCHANGED <<value, busy, dirty, completions, renderQueued, flushScheduled>>
        /\ ready' = ready \o (IF queue[e.of].open THEN <<>> ELSE TransitionCall)
    BY <1>2 DEF ApplyDefer
  <2>2. Prolongs(ready', ready)
    BY <1>0, <2>1, Posting, TransitionPosting
  <2> QED BY <1>0, <2>1, <2>2 DEF FlushPosted, Prolongs, Updating
<1>3. CASE ApplyReplay(e.of)
  <2> DEFINE changed == Replayed({e.of})[e.of] # value[e.of]
  <2>1. /\ RequestRender(changed) /\ ready' = ready \o FlushCall(changed)
        /\ value' = Replayed({e.of}) /\ busy' = busy
        /\ dirty' = IF changed THEN dirty \cup {e.of} ELSE dirty
        /\ completions' = completions
    BY <1>3 DEF ApplyReplay, laterVars
  <2>2. /\ Prolongs(ready', ready) /\ FlushPosted'
        /\ changed => IF Rendering THEN renderQueued' ELSE flushScheduled'
    BY <1>0, <2>1, Requesting DEF FlushPosted
  <2>3. OnComponents(value') /\ \A c \in Components : c # e.of => value'[c] = value[c]
    BY <2>1 DEF Replayed, OnComponents
  <2> QED BY <1>0, <2>1, <2>2, <2>3 DEF RequestRender, Updating
<1>4. ASSUME NEW flag \in BOOLEAN, ApplyBusy(e.of, flag) PROVE Updating(ready)
  <2> DEFINE changed == busy[e.of] # flag
  <2>1. /\ RequestRender(changed) /\ ready' = ready \o FlushCall(changed)
        /\ busy' = [busy EXCEPT ![e.of] = flag] /\ value' = value
        /\ dirty' = IF changed THEN dirty \cup {e.of} ELSE dirty
        /\ completions' = completions
    BY <1>4 DEF ApplyBusy, laterVars
  <2>2. /\ Prolongs(ready', ready) /\ FlushPosted'
        /\ changed => IF Rendering THEN renderQueued' ELSE flushScheduled'
    BY <1>0, <2>1, Requesting DEF FlushPosted
  <2>3. busy' = [c \in Components |-> IF c = e.of THEN flag ELSE busy[c]]
    <3>1. DOMAIN busy = Components
      BY <1>0 DEF OnComponents
    <3> QED BY <2>1, <3>1
  <2>4. OnComponents(busy') /\ \A c \in Components : busy'[c] = IF c = e.of THEN flag ELSE busy[c]
    BY <2>3 DEF OnComponents
  <2>5. Clean => \A c \in Components : busy'[c] \in BOOLEAN
    BY <1>0, <2>4
  <2>6. \A c \in Components : c \notin dirty' => c \notin dirty /\ busy'[c] = busy[c]
    BY <2>1, <2>4
  <2> QED BY <1>0, <2>1, <2>2, <2>4, <2>5, <2>6 DEF RequestRender, Updating
<1>5. CASE ApplyBusy(e.of, e.kind = "busy")
  <2> DEFINE flag == e.kind = "busy"
  <2>1. flag \in BOOLEAN /\ ApplyBusy(e.of, flag)
    BY <1>5
  <2> HIDE DEF flag
  <2> QED BY <2>1, <1>4
<1> QED BY <1>1, <1>2, <1>3, <1>4, <1>5 DEF Apply

----------------------------------------------------------------------------
(* The initial state satisfies the invariant. *)
LEMMA InitSInv == Init => SInv
<1> SUFFICES ASSUME Init PROVE SInv
  OBVIOUS
<1>1. Slots
  BY DEF Init, Slots, Paint, OnComponents, NoTree
<1>2. Counters
  BY DEF Init, Counters
<1>3. OneAnswer /\ FlushPosted /\ Callers /\ Passed /\ Aimed /\ Scheduled
  BY DEF Init, OneAnswer, FlushPosted, Callers, Passed, Aimed, Scheduled, Aim, NoTree,
         Answerless, OneResume
<1>4. Marked
  BY DEF Init, Marked, NoTree
<1> QED BY <1>1, <1>2, <1>3, <1>4, InitIInv DEF SInv

(* What the invariant speaks of. *)
settledVars == <<value, busy, dirty, ready, completions, flushScheduled, renderQueued, restVars>>

LEMMA Standing ==
  ASSUME SInv, IInv', UNCHANGED settledVars
  PROVE  SInv'
  BY DEF SInv, settledVars, restVars, Slots, Counters, OneAnswer, FlushPosted, Callers, Passed,
         Aimed, Aim, Marked, Scheduled, Clean, Quiet, Idle, Paint

(* The two setters of start_transition, with no commit in flight. *)
LEMMA StartTransitionStep ==
  ASSUME SInv, NEW c \in Components, StartTransition(c), ~pending
  PROVE  Updating(ready)
<1> DEFINE changed == ~busy[c]
           posted == ready \o FlushCall(changed)
<1>0. /\ ready \in Seq(LoopCalls) /\ (flushScheduled => Contains(ready, "flush"))
      /\ OnComponents(value) /\ OnComponents(busy)
      /\ completions \in Seq(Components)
      /\ Clean => \A d \in Components : busy[d] \in BOOLEAN
  BY DEF SInv, Counters, FlushPosted, Slots, Marked
<1>1. /\ busy' = [busy EXCEPT ![c] = TRUE] /\ value' = value
      /\ dirty' = IF busy[c] THEN dirty ELSE dirty \cup {c}
      /\ RequestRender(changed)
      /\ ready' = posted \o TransitionCall
      /\ completions' = Append(completions, c)
  BY DEF StartTransition, DeferInput
<1>2. changed \in BOOLEAN
  OBVIOUS
<1>3. Prolongs(posted, ready) /\ (Contains(FlushCall(changed), "flush") => Contains(posted, "flush"))
  BY <1>0, Posting, Flushing
<1>4. changed /\ ~Rendering /\ ~flushScheduled => Contains(FlushCall(changed), "flush")
  BY DEF FlushCall, Contains
<1>5. Prolongs(ready', posted)
  BY <1>1, <1>3, Posting, TransitionPosting DEF Prolongs
<1>6. Prolongs(ready', ready)
  BY <1>3, <1>5 DEF Prolongs
<1>7. FlushPosted' /\ (changed => IF Rendering THEN renderQueued' ELSE flushScheduled')
      /\ (flushScheduled => flushScheduled') /\ (renderQueued => renderQueued')
  <2> HIDE DEF changed, posted
  <2>1. flushScheduled' = (flushScheduled \/ (changed /\ ~Rendering))
        /\ renderQueued' = (renderQueued \/ (changed /\ Rendering))
    BY <1>1 DEF RequestRender
  <2>2. flushScheduled' => Contains(posted, "flush")
    BY <1>0, <1>3, <1>4, <2>1 DEF Prolongs
  <2> QED BY <1>5, <2>1, <2>2 DEF Prolongs, FlushPosted
<1>8. \A d \in Components : busy'[d] = IF d = c THEN TRUE ELSE busy[d]
  BY <1>0, <1>1 DEF OnComponents
<1>9. OnComponents(busy')
  BY <1>0, <1>1 DEF OnComponents
<1>10. Clean => \A d \in Components :
         busy'[d] \in BOOLEAN /\ (d \notin dirty' => d \notin dirty /\ busy'[d] = busy[d])
  BY <1>0, <1>1, <1>8
<1>11. dirty' # dirty => changed
  BY <1>1
<1>12. completions' \in Seq(Components)
  BY <1>0, <1>1
<1> QED BY <1>0, <1>1, <1>6, <1>7, <1>9, <1>10, <1>11, <1>12 DEF Updating

(* The transitions flushed, with a commit in flight or not. *)
LEMMA RunTransitionStep ==
  ASSUME SInv, RunTransition
  PROVE  Updating(Tail(ready)) /\ UNCHANGED restVars
<1>0. /\ ready \in Seq(LoopCalls) /\ (flushScheduled => Contains(ready, "flush"))
      /\ OnComponents(value) /\ OnComponents(busy)
      /\ completions \in Seq(Components)
      /\ Clean => \A c \in Components : busy[c] \in BOOLEAN
      /\ Head(ready) = "transition" /\ ready # <<>>
  BY DEF SInv, Counters, FlushPosted, Slots, Marked, RunTransition
<1>1. Tail(ready) \in Seq(LoopCalls) /\ (flushScheduled => Contains(Tail(ready), "flush"))
  BY <1>0, Taking
<1>2. UNCHANGED restVars /\ completions' = <<>> /\ completions' \in Seq(Components)
  BY DEF RunTransition, restVars, passVars, heldVars, stepVars, paintVars, countVars
<1>3. CASE transitionScheduled /\ ~DeferInput
  <2> DEFINE replayed == Replayed(ToSet(triggers))
             rested == {c \in ToSet(completions) : busy[c]}
             changed == {c \in Components : replayed[c] # value[c]} \cup rested
  <2>1. /\ value' = replayed
        /\ busy' = [c \in Components |-> busy[c] /\ ~Contains(completions, c)]
        /\ dirty' = dirty \cup changed
        /\ RequestRender(changed # {}) /\ ready' = Tail(ready) \o FlushCall(changed # {})
    BY <1>3 DEF RunTransition
  <2>2. /\ Prolongs(ready', Tail(ready)) /\ FlushPosted'
        /\ changed # {} => IF Rendering THEN renderQueued' ELSE flushScheduled'
        /\ (flushScheduled => flushScheduled') /\ (renderQueued => renderQueued')
    <3> HIDE DEF changed
    <3> DEFINE wanting == changed # {}
    <3>1. wanting \in BOOLEAN /\ RequestRender(wanting) /\ ready' = Tail(ready) \o FlushCall(wanting)
      BY <2>1
    <3> HIDE DEF wanting
    <3>2. /\ Prolongs(ready', Tail(ready)) /\ FlushPosted'
          /\ wanting => IF Rendering THEN renderQueued' ELSE flushScheduled'
      BY <1>1, <3>1, Requesting DEF FlushPosted
    <3> QED BY <3>1, <3>2 DEF RequestRender, wanting
  <2>3. OnComponents(value') /\ OnComponents(busy')
    BY <2>1 DEF Replayed, OnComponents
  <2>4. ASSUME Clean, NEW c \in Components
        PROVE  busy'[c] \in BOOLEAN
               /\ (c \notin dirty' => c \notin dirty /\ value'[c] = value[c] /\ busy'[c] = busy[c])
    <3>1. busy'[c] = (busy[c] /\ ~Contains(completions, c)) /\ busy[c] \in BOOLEAN
      BY <1>0, <2>1, <2>4
    <3>2. Contains(completions, c) => c \in ToSet(completions)
      BY <1>0 DEF Contains, ToSet
    <3>3. c \notin dirty' => c \notin dirty /\ replayed[c] = value[c] /\ c \notin rested
      BY <2>1
    <3>4. c \notin rested => ~busy[c] \/ ~Contains(completions, c)
      BY <3>2
    <3> QED BY <2>1, <3>1, <3>3, <3>4
  <2>5. dirty' # dirty => changed # {}
    BY <2>1
  <2> HIDE DEF changed
  <2> QED BY <1>2, <2>2, <2>3, <2>4, <2>5 DEF Updating
<1>4. CASE ~(transitionScheduled /\ ~DeferInput)
  <2>1. ready' = Tail(ready)
        /\ UNCHANGED <<value, busy, dirty, renderQueued, flushScheduled>>
    BY <1>4 DEF RunTransition, hookVars
  <2> QED BY <1>0, <1>1, <1>2, <2>1 DEF Updating, Prolongs, FlushPosted
<1> QED BY <1>2, <1>3, <1>4

(* The check of wait_for_commit. *)
LEMMA KeepWaitingStep ==
  ASSUME SInv, NEW calls \in Seq(LoopCalls), KeepWaiting,
         flushScheduled => Contains(calls, "flush"),
         ready' = calls \o FlushCall(Unsettled /\ ~pending),
         UNCHANGED <<value, busy, dirty, completions>>
  PROVE  Updating(calls)
<1> DEFINE wanting == Unsettled /\ ~pending
<1>1. wanting \in BOOLEAN /\ RequestRender(wanting) /\ ready' = calls \o FlushCall(wanting)
  BY DEF KeepWaiting
<1> HIDE DEF wanting
<1>2. Prolongs(ready', calls) /\ FlushPosted'
      /\ (flushScheduled => flushScheduled') /\ (renderQueued => renderQueued')
  BY <1>1, Requesting DEF FlushPosted, RequestRender
<1>3. OnComponents(value) /\ OnComponents(busy) /\ completions \in Seq(Components)
      /\ (Clean => \A c \in Components : busy[c] \in BOOLEAN)
  BY DEF SInv, Slots, Counters, Marked
<1> QED BY <1>2, <1>3 DEF Updating

----------------------------------------------------------------------------
(* A pass begun or abandoned, for the actions that share it. *)

LEMMA Blank == Paint(NoTree) /\ OnComponents(NoTree.value) /\ OnComponents(NoTree.busy)
               /\ NoTree.tree = 0 /\ NoTree.element = 0
               /\ \A c \in Components : NoTree.busy[c] \in BOOLEAN
  BY DEF NoTree, Paint, OnComponents

(* A pass over a new tree, or over the mounted one, with the element e. *)
LEMMA Begun ==
  ASSUME SInv, NEW e \in Nat \ {0}, NEW by \in {"loop", "resume"}, ~pending,
         phase \in {"idle", "requests"},
         \/ root = 0 /\ BeginMount(e, by)
         \/ root # 0 /\ BeginReconcile(e, by),
         UNCHANGED <<covered, pending, shown, verdict, ready, completions, flushScheduled,
                     renderSets, errors, rejections>>,
         queuedElement' = 0, ~unmountRequested', Clean => wanted' = e, requests' \in Nat, IInv'
  PROVE  SInv'
<1>1. /\ phase' = "drain" /\ caller' = by /\ UNCHANGED <<dirty, covered>>
      /\ staged' = [tree |-> root', element |-> e, value |-> value', busy |-> busy']
      /\ root' # 0 /\ trees' \in Nat
      /\ OnComponents(value') /\ OnComponents(busy')
      /\ Clean => \A c \in Components : busy'[c] \in BOOLEAN
  <2>1. CASE root = 0 /\ BeginMount(e, by)
    BY <2>1, Blank DEF BeginMount, SInv, Counters
  <2>2. CASE root # 0 /\ BeginReconcile(e, by)
    BY <2>2 DEF BeginReconcile, hookVars, SInv, Slots, Counters, Marked
  <2> QED BY <2>1, <2>2
<1>2. Slots' /\ Counters'
  BY <1>1 DEF SInv, Slots, Counters, Paint
<1>3. OneAnswer' /\ FlushPosted' /\ Callers'
  BY <1>1 DEF SInv, OneAnswer, FlushPosted, Callers
<1>4. Passed' /\ Aimed'
  BY <1>1 DEF SInv, Passed, Aimed, Aim, Clean
<1>5. Marked' /\ Scheduled'
  BY <1>1 DEF SInv, Marked, Scheduled, Quiet, Clean, Idle
<1> QED BY <1>2, <1>3, <1>4, <1>5 DEF SInv

(* The tree taken down, with its destroy operations in flight. *)
LEMMA TakenDown ==
  ASSUME SInv, UnmountPass, IInv', ~pending,
         UNCHANGED <<covered, shown, ready, flushScheduled, trees, renderSets, errors,
                     rejections>>,
         phase' \in {"idle", "inputs"}, caller' \in {"loop", "resume"},
         queuedElement' \in Nat, ~unmountRequested', Clean => wanted' = queuedElement',
         requests' \in Nat
  PROVE  SInv'
<1>1. /\ root' = 0 /\ dirty' = {} /\ value' = NoTree.value /\ busy' = NoTree.busy
      /\ completions' = <<>> /\ staged' = NoTree /\ pending' /\ verdict' = "none"
  BY DEF UnmountPass
<1>2. Slots' /\ Counters'
  BY <1>1, Blank DEF SInv, Slots, Counters
<1>3. OneAnswer' /\ FlushPosted' /\ Callers'
  BY <1>1 DEF SInv, OneAnswer, FlushPosted, Callers
<1>4. Passed' /\ Aimed'
  BY <1>1, Blank DEF SInv, Passed, Aimed, Aim, Clean
<1>5. Marked' /\ Scheduled'
  BY <1>1, Blank DEF SInv, Marked, Scheduled, Quiet, Clean
<1> QED BY <1>2, <1>3, <1>4, <1>5 DEF SInv

(* A pass abandoned: something raised, or the core refused.  Nothing is    *)
(* promised of what is shown from then on.                                 *)
LEMMA Abandoned ==
  ASSUME SInv, Abort, IInv', ~Clean',
         NEW calls \in Seq(LoopCalls), Prolongs(ready', calls),
         Answerless(ready) => Answerless(calls), OneResume(ready) => OneResume(calls),
         flushScheduled => Contains(calls, "flush"),
         UNCHANGED <<shown, flushScheduled, completions, trees, queuedElement,
                     unmountRequested, renderSets, requests>>,
         errors' \in Nat /\ rejections' \in Nat, ~pending',
         verdict' = "none" /\ (verdict = "none" \/ Answerless(calls)),
         caller' \in {"loop", "resume"}, phase' = "requests" => caller' = "resume",
         unmountRequested \/ queuedElement # 0 => phase' = "requests"
  PROVE  SInv'
<1>1. Slots'
  BY DEF SInv, Abort, Slots, OnComponents
<1>2. Counters'
  BY DEF SInv, Counters, Prolongs
<1>3. OneAnswer' /\ FlushPosted' /\ Callers'
  BY DEF SInv, OneAnswer, FlushPosted, Callers, Prolongs
<1>4. Passed' /\ Aimed' /\ Marked' /\ Scheduled'
  BY DEF Passed, Aimed, Marked, Scheduled, Quiet
<1> QED BY <1>1, <1>2, <1>3, <1>4 DEF SInv

----------------------------------------------------------------------------
(* The inductive step, one case per action. *)
LEMMA NextSInv == SInv /\ [Next]_vars => SInv'
<1> SUFFICES ASSUME SInv, [Next]_vars PROVE SInv'
  OBVIOUS
<1>0. /\ IInv' /\ PendingPhases /\ ready \in Seq(LoopCalls) /\ completions \in Seq(Components)
      /\ (flushScheduled => Contains(ready, "flush"))
      /\ requests \in Nat /\ errors \in Nat /\ rejections \in Nat /\ queuedElement \in Nat
      /\ caller \in {"loop", "resume"}
      /\ Idle /\ ~pending => queuedElement = 0 /\ ~unmountRequested
  BY NextIInv DEF SInv, IInv, Counters, FlushPosted, Callers, Idle
<1>1. CASE UNCHANGED vars
  BY <1>0, <1>1, Standing
     DEF vars, settledVars, restVars, hookVars, passVars, heldVars, laterVars, stepVars,
         paintVars, countVars
<1>2. ASSUME NEW c \in Components, UserSet(c) PROVE SInv'
  <2>1. UNCHANGED restVars
    BY <1>2 DEF UserSet, restVars, stepVars, paintVars, countVars
  <2>2. CASE pending
    <3>1. UNCHANGED settledVars
      BY <1>2, <2>1, <2>2 DEF UserSet, DeferInput, settledVars, hookVars, laterVars
    <3> QED BY <1>0, <3>1, Standing
  <2>3. CASE ~pending
    <3> DEFINE e == Call("set", c, NextUpdate)
    <3>1. Apply(e)
      BY <1>2, <2>3 DEF UserSet, DeferInput, Call, Apply
    <3> HIDE DEF e
    <3>2. Updating(ready)
      BY <2>3, <3>1, Applying
    <3> QED BY <1>0, <2>1, <3>2, Updated
  <2> QED BY <2>2, <2>3
<1>3. ASSUME NEW c \in Components, StartTransition(c) PROVE SInv'
  <2>1. UNCHANGED restVars
    BY <1>3 DEF StartTransition, restVars, stepVars, paintVars, countVars
  <2>2. CASE pending
    <3>1. /\ UNCHANGED <<value, busy, dirty, renderQueued, flushScheduled>>
          /\ completions' = Append(completions, c) /\ ready' = ready \o TransitionCall
      BY <1>3, <2>2 DEF StartTransition, DeferInput, hookVars
    <3>2. Prolongs(ready', ready)
      BY <1>0, <3>1, Posting, TransitionPosting
    <3>3. Updating(ready)
      BY <1>0, <3>1, <3>2 DEF Updating, Prolongs, FlushPosted, SInv, Slots, Marked
    <3> QED BY <1>0, <2>1, <3>3, Updated
  <2>3. CASE ~pending
    BY <1>0, <1>3, <2>1, <2>3, StartTransitionStep, Updated
  <2> QED BY <2>2, <2>3
<1>4. CASE Mount
  <2>0. Idle /\ requests' = requests + 1 /\ wanted' = requests + 1 /\ requests' \in Nat
        /\ requests + 1 # 0
    BY <1>0, <1>4 DEF Mount, Request
  <2>1. CASE pending /\ RequestUnmount(requests + 1)
             /\ UNCHANGED <<hookVars, root, dirty, laterVars, staged, journal, storm,
                            pending, verdict, phase, caller, trees>>
    <3>1. /\ UNCHANGED <<value, busy, dirty, ready, completions, flushScheduled, renderQueued,
                         root, covered, pending, phase, caller, staged, shown, verdict, trees,
                         renderSets, errors, rejections>>
          /\ unmountRequested' /\ queuedElement' = requests + 1
      BY <1>4, <2>1 DEF Mount, hookVars, laterVars, RequestUnmount
    <3> QED
      BY <1>0, <2>0, <2>1, <3>1
         DEF SInv, Slots, Counters, OneAnswer, FlushPosted, Callers, Passed, Aimed, Aim,
             Marked, Scheduled, Clean, Quiet, Idle, Paint
  <2>2. CASE ~pending /\ root # 0 /\ UnmountPass /\ queuedElement' = requests + 1
             /\ UNCHANGED <<unmountRequested, phase, caller, trees>>
    BY <1>0, <1>4, <2>0, <2>2, TakenDown DEF Mount, Idle
  <2>3. CASE ~pending /\ root = 0 /\ BeginMount(requests + 1, "loop")
             /\ UNCHANGED <<unmountRequested, queuedElement, laterVars, pending, verdict>>
    BY <1>0, <1>4, <2>0, <2>3, Begun DEF Mount, Idle, laterVars
  <2> QED BY <1>4, <2>1, <2>2, <2>3 DEF Mount
<1>5. CASE Reconcile
  <2>0. Idle /\ requests' = requests + 1 /\ wanted' = requests + 1 /\ requests' \in Nat
        /\ requests + 1 # 0
    BY <1>0, <1>5 DEF Reconcile, Request
  <2>1. CASE pending
    <3>1. /\ UNCHANGED <<value, busy, dirty, ready, completions, flushScheduled, renderQueued,
                         root, covered, pending, phase, caller, staged, shown, verdict, trees,
                         unmountRequested, renderSets, errors, rejections>>
          /\ queuedElement' = requests + 1
      BY <1>5, <2>1 DEF Reconcile, hookVars, laterVars
    <3> QED
      BY <1>0, <2>0, <2>1, <3>1
         DEF SInv, Slots, Counters, OneAnswer, FlushPosted, Callers, Passed, Aimed, Aim,
             Marked, Scheduled, Clean, Quiet, Idle, Paint
  <2>2. CASE ~pending
    <3>1. /\ \/ root = 0 /\ BeginMount(requests + 1, "loop")
             \/ root # 0 /\ BeginReconcile(requests + 1, "loop")
          /\ queuedElement' = queuedElement
      BY <1>5, <2>2 DEF Reconcile
    <3> QED BY <1>0, <1>5, <2>0, <2>2, <3>1, Begun DEF Reconcile, Idle, laterVars
  <2> QED BY <2>1, <2>2
<1>6. CASE Unmount
  <2>0. Idle /\ requests' = requests + 1 /\ wanted' = 0 /\ requests' \in Nat
    BY <1>0, <1>6 DEF Unmount, Request
  <2>1. CASE pending
    <3>1. /\ UNCHANGED <<value, busy, dirty, ready, completions, flushScheduled, renderQueued,
                         root, covered, pending, phase, caller, staged, shown, verdict, trees,
                         renderSets, errors, rejections>>
          /\ unmountRequested' /\ queuedElement' = 0
      BY <1>6, <2>1 DEF Unmount, hookVars, laterVars, stepVars, RequestUnmount
    <3> QED
      BY <1>0, <2>0, <2>1, <3>1
         DEF SInv, Slots, Counters, OneAnswer, FlushPosted, Callers, Passed, Aimed, Aim,
             Marked, Scheduled, Clean, Quiet, Idle, Paint
  <2>2. CASE ~pending
    BY <1>0, <1>6, <2>0, <2>2, TakenDown DEF Unmount, Idle, stepVars
  <2> QED BY <2>1, <2>2
<1>7. CASE WaitForCommit
  <2>1. UNCHANGED restVars
    BY <1>7 DEF WaitForCommit, restVars, heldVars, stepVars, paintVars
  <2>2. Updating(ready)
    BY <1>0, <1>7, KeepWaitingStep DEF WaitForCommit, hookVars, laterVars
  <2> QED BY <1>0, <2>1, <2>2, Updated
<1>8. CASE RunWaiter
  <2>1. UNCHANGED restVars /\ Head(ready) = "waiter" /\ ready # <<>>
    BY <1>8 DEF RunWaiter, restVars, heldVars, stepVars, paintVars, countVars
  <2>2. /\ Tail(ready) \in Seq(LoopCalls) /\ (flushScheduled => Contains(Tail(ready), "flush"))
        /\ Answerless(ready) => Answerless(Tail(ready))
        /\ OneResume(ready) => OneResume(Tail(ready))
    BY <1>0, <2>1, Taking
  <2>3. CASE waiter = "raised"
    <3>1. ready' = Tail(ready)
          /\ UNCHANGED <<value, busy, dirty, completions, renderQueued, flushScheduled>>
      BY <1>8, <2>3 DEF RunWaiter, hookVars, laterVars
    <3>2. Updating(Tail(ready))
      BY <1>0, <2>2, <3>1 DEF Updating, Prolongs, FlushPosted, SInv, Slots, Marked
    <3> QED BY <1>0, <2>1, <2>2, <3>2, Updated
  <2>4. CASE waiter # "raised"
    <3>1. Updating(Tail(ready))
      BY <1>0, <1>8, <2>2, <2>4, KeepWaitingStep DEF RunWaiter, hookVars, laterVars
    <3> QED BY <1>0, <2>1, <2>2, <3>1, Updated
  <2> QED BY <2>3, <2>4
<1>9. CASE RunTransition
  <2>1. Head(ready) = "transition" /\ ready # <<>>
    BY <1>9 DEF RunTransition
  <2>2. /\ Tail(ready) \in Seq(LoopCalls)
        /\ Answerless(ready) => Answerless(Tail(ready))
        /\ OneResume(ready) => OneResume(Tail(ready))
    BY <1>0, <2>1, Taking
  <2> QED BY <1>0, <1>9, <2>2, RunTransitionStep, Updated
<1>10. CASE Native
  <2> PICK how \in {"accepted", "rejected"} : Answer(how)
    BY <1>10 DEF Native
  <2>1. /\ UNCHANGED <<value, busy, dirty, completions, flushScheduled, renderQueued, root,
                       covered, pending, queuedElement, unmountRequested, phase, caller, staged,
                       shown, wanted, trees, renderSets, errors, requests>>
        /\ pending /\ verdict = "none" /\ verdict' = how /\ ready' = Append(ready, "resume")
        /\ rejections' = rejections + (IF how = "rejected" THEN 1 ELSE 0)
    BY DEF Answer, hookVars, passVars, heldVars, laterVars, stepVars
  <2>2. ready' \in Seq(LoopCalls) /\ \A j \in 1..Len(ready) : j \in 1..Len(ready') /\ ready'[j] = ready[j]
    BY <1>0, <2>1 DEF LoopCalls
  <2>3. Answerless(ready) => OneResume(ready')
    BY <1>0, <2>1 DEF Answerless, OneResume
  <2>4. Slots' /\ Counters' /\ Callers'
    BY <2>1, <2>2 DEF SInv, Slots, Paint, Counters, Callers
  <2>5. OneAnswer'
    BY <2>1, <2>3 DEF SInv, OneAnswer
  <2>6. FlushPosted'
    BY <1>0, <2>1, <2>2 DEF FlushPosted, Contains
  <2>7. Clean' => Clean /\ how = "accepted"
    BY <1>0, <2>1 DEF Clean
  <2>8. Passed' /\ Aimed' /\ Marked' /\ Scheduled'
    BY <2>1, <2>7 DEF SInv, Passed, Aimed, Aim, Marked, Scheduled, Quiet
  <2> QED BY <1>0, <2>4, <2>5, <2>6, <2>8 DEF SInv
<1>11. CASE RunFlush
  <2>0. /\ Idle /\ ready # <<>> /\ Head(ready) = "flush" /\ ~flushScheduled'
        /\ UNCHANGED <<value, busy, dirty, completions, renderQueued, root, covered, pending,
                       queuedElement, unmountRequested, shown, verdict, wanted, trees,
                       renderSets, errors, rejections, requests>>
    BY <1>11 DEF RunFlush, hookVars, heldVars, laterVars, countVars
  <2>1. /\ Tail(ready) \in Seq(LoopCalls)
        /\ Answerless(ready) => Answerless(Tail(ready))
        /\ OneResume(ready) => OneResume(Tail(ready))
    BY <1>0, <2>0, Taking
  <2>2. Prolongs(ready', Tail(ready)) \/ ready' = Tail(ready)
    <3>1. CASE root # 0 /\ ~pending /\ dirty # {}
      BY <1>11, <3>1 DEF RunFlush
    <3>2. CASE ~(root # 0 /\ ~pending /\ dirty # {})
      BY <1>11, <2>1, <3>2, Settling DEF RunFlush, SettleIdle
    <3> QED BY <3>1, <3>2
  <2>3. /\ ready' \in Seq(LoopCalls)
        /\ Answerless(ready) => Answerless(ready')
        /\ OneResume(ready) => OneResume(ready')
    BY <2>1, <2>2 DEF Prolongs
  <2>4. \/ phase' = "drain" /\ caller' = "loop" /\ staged' = shown /\ ~pending
        \/ UNCHANGED <<phase, caller, staged>> /\ ~(root # 0 /\ ~pending /\ dirty # {})
    BY <1>11 DEF RunFlush
  <2>5. Slots' /\ Counters' /\ OneAnswer' /\ FlushPosted' /\ Callers'
    BY <2>0, <2>3, <2>4 DEF SInv, Slots, Counters, OneAnswer, FlushPosted, Callers, Idle, Paint
  <2>6. Passed' /\ Aimed'
    BY <2>0, <2>4 DEF SInv, Passed, Aimed, Aim, Clean, Idle
  <2>7. Clean => staged' = staged
    BY <2>0, <2>4 DEF SInv, Passed, Idle
  <2>8. Marked'
    BY <2>0, <2>4, <2>7 DEF SInv, Marked, Clean, Quiet
  <2>9. Scheduled'
    BY <2>0, <2>4 DEF Scheduled, Idle
  <2> QED BY <1>0, <2>5, <2>6, <2>8, <2>9 DEF SInv
<1>12. CASE RunResume
  <2>0. /\ Idle /\ ready # <<>> /\ Head(ready) = "resume"
        /\ ~pending' /\ verdict' = "none" /\ caller' = "resume"
        /\ UNCHANGED <<flushScheduled, queuedElement, unmountRequested, completions, wanted,
                       trees, renderSets, errors, rejections, requests>>
    BY <1>12 DEF RunResume, heldVars, laterVars, countVars
  <2>1. /\ Tail(ready) \in Seq(LoopCalls)
        /\ (flushScheduled => Contains(Tail(ready), "flush"))
        /\ Answerless(Tail(ready)) /\ OneResume(Tail(ready))
    BY <1>0, <2>0, Taking DEF SInv, OneAnswer
  <2>2. ~Answerless(ready) /\ verdict # "none"
    <3>1. 1 \in DOMAIN ready /\ ready[1] = "resume"
      BY <1>0, <2>0
    <3> QED BY <3>1 DEF Answerless, SInv, OneAnswer
  <2>3. CASE verdict = "accepted"
    <3>1. /\ shown' = staged /\ phase' = "effects" /\ ready' = Tail(ready)
          /\ UNCHANGED <<value, busy, root, dirty, covered, renderQueued, staged>>
      BY <1>12, <2>3 DEF RunResume, hookVars
    <3>2. Slots' /\ Counters' /\ OneAnswer' /\ FlushPosted' /\ Callers'
      BY <2>0, <2>1, <3>1 DEF SInv, Slots, Counters, OneAnswer, FlushPosted, Callers, Paint
    <3>3. Passed' /\ Aimed' /\ Marked' /\ Scheduled'
      BY <2>0, <3>1 DEF SInv, Passed, Aimed, Aim, Marked, Scheduled, Quiet, Clean, Idle
    <3> QED BY <1>0, <3>2, <3>3 DEF SInv
  <2>4. CASE verdict # "accepted"
    <3>1. ~Clean' /\ Abort /\ UNCHANGED shown /\ phase' = "requests"
          /\ Settle("raised", Tail(ready))
      BY <1>12, <2>0, <2>2, <2>4 DEF RunResume, SInv, Passed, Clean
    <3>2. Prolongs(ready', Tail(ready))
      BY <2>1, <3>1, Settling
    <3> QED BY <1>0, <2>0, <2>1, <3>1, <3>2, Abandoned
  <2> QED BY <2>3, <2>4
<1>13. CASE \E setters \in {{}} \cup {{c} : c \in Components} : Drain(setters)
  <2> PICK setters \in {{}} \cup {{c} : c \in Components} : Drain(setters)
    BY <1>13
  <2>0. /\ phase = "drain" /\ dirty' = setters /\ covered' = setters
        /\ renderSets' = renderSets + Cardinality(setters)
        /\ UNCHANGED <<busy, completions, flushScheduled, root, pending, queuedElement,
                       unmountRequested, phase, caller, shown, verdict, wanted, trees, ready,
                       errors, rejections, requests>>
    BY DEF Drain, heldVars, laterVars, stepVars
  <2>1. staged' = [tree |-> staged.tree, element |-> staged.element,
                   value |-> [c \in Components |->
                                IF c \in dirty \ covered THEN value[c] ELSE staged.value[c]],
                   busy |-> [c \in Components |->
                                IF c \in dirty \ covered THEN busy[c] ELSE staged.busy[c]]]
    <3>1. staged = [tree |-> staged.tree, element |-> staged.element, value |-> staged.value,
                    busy |-> staged.busy]
      BY DEF SInv, Slots, Paint
    <3> QED BY <3>1 DEF Drain
  <2>2. Cardinality(setters) \in Nat /\ (setters # {} => Cardinality(setters) = 1)
    <3>1. CASE setters = {}
      BY <3>1, FS_EmptySet
    <3>2. CASE setters # {}
      <4> PICK c : setters = {c}
        BY <3>2
      <4>1. Cardinality({c}) = 1
        BY FS_Singleton
      <4> QED BY <4>1
    <3> QED BY <3>1, <3>2
  <2>3. renderSets' \in Nat /\ (renderSets' = 0 => setters = {} /\ renderSets = 0)
    BY <2>0, <2>2 DEF SInv, Counters
  <2>4. OnComponents(value') /\ (setters = {} => value' = value)
    <3>1. CASE setters = {}
      BY <3>1 DEF Drain, SInv, Slots
    <3>2. CASE setters # {}
      <4> PICK c \in setters : value' = [value EXCEPT ![c] = Append(@, NextUpdate)]
        BY <3>2 DEF Drain
      <4> QED BY <3>2 DEF SInv, Slots, OnComponents
    <3> QED BY <3>1, <3>2
  <2>5. Slots' /\ Counters'
    BY <2>0, <2>1, <2>3, <2>4 DEF SInv, Slots, Counters, Paint, OnComponents
  <2>6. OneAnswer' /\ FlushPosted' /\ Callers'
    BY <2>0 DEF SInv, OneAnswer, FlushPosted, Callers
  <2>7. Passed' /\ Aimed' /\ Scheduled'
    BY <2>0, <2>1 DEF SInv, Passed, Aimed, Aim, Clean, Scheduled, Idle
  <2>8. Marked'
    <3>1. Clean' => \A c \in Components : busy'[c] \in BOOLEAN
      BY <2>0 DEF SInv, Marked, Clean
    <3>2. ASSUME Quiet', root' # 0
          PROVE  covered' = {} /\ \A c \in Components :
                   staged'.value[c] = value'[c] /\ staged'.busy[c] = busy'[c]
      <4>1. Quiet /\ setters = {} /\ value' = value /\ busy' = busy /\ root # 0
        BY <2>0, <2>3, <2>4, <3>2 DEF Quiet, Clean
      <4>2. covered = {}
        BY <4>1 DEF SInv, Marked
      <4>3. \A c \in Components : c \notin dirty =>
              staged.value[c] = value[c] /\ staged.busy[c] = busy[c]
        BY <4>1 DEF SInv, Marked
      <4> QED BY <2>0, <2>1, <4>1, <4>2, <4>3
    <3>3. Quiet' => covered' = {}
      BY <2>0, <2>3 DEF Quiet
    <3> QED BY <3>1, <3>2, <3>3 DEF Marked
  <2> QED BY <1>0, <2>5, <2>6, <2>7, <2>8 DEF SInv
<1>14. CASE RenderRaises
  <2>1. /\ Abort /\ phase = "drain" /\ phase' = "idle" /\ caller' = "loop" /\ errors' = errors + 1
        /\ UNCHANGED <<flushScheduled, pending, completions, ready, shown, verdict, wanted,
                       trees, queuedElement, unmountRequested, renderSets, rejections, requests>>
    BY <1>14 DEF RenderRaises, heldVars, laterVars
  <2>2. ~pending /\ verdict = "none" /\ queuedElement = 0 /\ ~unmountRequested
    BY <1>0, <2>1 DEF PendingPhases, SInv, OneAnswer, Callers
  <2>3. ~Clean' /\ errors' \in Nat
    BY <1>0, <2>1 DEF Clean
  <2>4. Prolongs(ready', ready)
    BY <1>0, <2>1 DEF Prolongs
  <2> QED BY <1>0, <2>1, <2>2, <2>3, <2>4, Abandoned
<1>15. CASE Submit
  <2>0. /\ phase = "drain" /\ dirty = {}
        /\ UNCHANGED <<value, busy, dirty, ready, completions, flushScheduled, renderQueued,
                       root, covered, queuedElement, unmountRequested, staged, shown, wanted,
                       trees, renderSets, errors, rejections, requests>>
    BY <1>15 DEF Submit, hookVars, heldVars, laterVars, countVars
  <2>1. ~pending /\ verdict = "none" /\ queuedElement = 0 /\ ~unmountRequested
    BY <1>0, <2>0 DEF PendingPhases, SInv, OneAnswer, Callers
  <2>2. \/ staged = shown /\ phase' = "effects" /\ UNCHANGED <<pending, verdict, caller>>
        \/ pending' /\ verdict' = "none" /\ phase' \in {"inputs", "idle"} /\ caller' = "loop"
    BY <1>15 DEF Submit
  <2>3. Slots' /\ Counters' /\ OneAnswer' /\ FlushPosted' /\ Callers'
    BY <2>0, <2>1, <2>2 DEF SInv, Slots, Counters, OneAnswer, FlushPosted, Callers, Paint
  <2>4. Passed' /\ Aimed' /\ Marked' /\ Scheduled'
    BY <2>0, <2>1, <2>2
       DEF SInv, Passed, Aimed, Aim, Marked, Scheduled, Quiet, Clean, Idle
  <2> QED BY <1>0, <2>3, <2>4 DEF SInv
<1>16. CASE EffectsEnd
  <2> DEFINE again == caller = "loop" /\ renderQueued /\ root # 0 /\ dirty # {}
  <2>0. /\ phase = "effects" /\ staged' = shown /\ Settle("woken", ready)
        /\ phase' = IF again THEN "drain" ELSE IF caller = "loop" THEN "idle" ELSE "requests"
        /\ UNCHANGED <<value, busy, dirty, completions, flushScheduled, root, covered, pending,
                       queuedElement, unmountRequested, caller, shown, verdict, wanted, trees,
                       renderSets, errors, rejections, requests>>
    BY <1>16 DEF EffectsEnd, hookVars, heldVars, laterVars, countVars
  <2>1. ~pending /\ (Clean => staged = shown)
    BY <1>0, <2>0 DEF PendingPhases, SInv, Passed
  <2>2. Prolongs(ready', ready)
    BY <1>0, <2>0, Settling
  <2>3. Slots' /\ Counters' /\ OneAnswer' /\ FlushPosted' /\ Callers'
    BY <2>0, <2>1, <2>2
       DEF SInv, Slots, Counters, OneAnswer, FlushPosted, Callers, Paint, Prolongs
  <2>4. Passed' /\ Aimed' /\ Marked'
    BY <2>0, <2>1 DEF SInv, Passed, Aimed, Aim, Marked, Quiet, Clean
  <2>5. Scheduled'
    BY <2>0, <2>1 DEF SInv, Scheduled, Callers, Quiet, Clean, Idle
  <2> QED BY <1>0, <2>3, <2>4, <2>5 DEF SInv
<1>17. CASE EffectRaises
  <2>1. /\ Abort /\ phase = "effects" /\ errors' = errors + 1
        /\ UNCHANGED <<flushScheduled, pending, completions, caller, shown, verdict, wanted,
                       trees, queuedElement, unmountRequested, renderSets, rejections, requests>>
        /\ \/ caller = "resume" /\ phase' = "requests" /\ Settle("raised", ready)
           \/ caller # "resume" /\ phase' = "idle" /\ ready' = ready
    BY <1>17 DEF EffectRaises, heldVars, laterVars
  <2>2. ~pending /\ verdict = "none"
    BY <1>0, <2>1 DEF PendingPhases, SInv, OneAnswer
  <2>3. ~Clean' /\ errors' \in Nat
    BY <1>0, <2>1 DEF Clean
  <2>4. Prolongs(ready', ready)
    <3>1. CASE ready' = ready
      BY <1>0, <3>1 DEF Prolongs
    <3> QED BY <1>0, <2>1, <3>1, Settling
  <2>5. unmountRequested \/ queuedElement # 0 => phase' = "requests"
    BY <2>1, <2>2 DEF SInv, Callers
  <2>6. phase' = "requests" => caller' = "resume"
    BY <2>1
  <2> QED BY <1>0, <2>1, <2>2, <2>3, <2>4, <2>5, <2>6, Abandoned
<1>18. CASE HeldUnmount
  <2>1. /\ ~unmountRequested' /\ UnmountPass /\ phase' = "inputs" /\ caller' = "loop"
        /\ phase = "requests" /\ unmountRequested
        /\ UNCHANGED <<covered, flushScheduled, queuedElement, ready, shown, wanted, trees,
                       renderSets, errors, rejections, requests>>
    BY <1>18 DEF HeldUnmount, countVars
  <2>2. ~pending
    BY <1>0, <2>1 DEF PendingPhases
  <2>3. Clean => wanted' = queuedElement'
    BY <2>1 DEF SInv, Aimed, Aim
  <2> QED BY <1>0, <2>1, <2>2, <2>3, TakenDown
<1>19. CASE HeldElement
  <2>1. /\ phase = "requests" /\ queuedElement # 0 /\ ~unmountRequested' /\ queuedElement' = 0
        /\ \/ root = 0 /\ BeginMount(queuedElement, "resume")
           \/ root # 0 /\ BeginReconcile(queuedElement, "resume")
        /\ UNCHANGED <<covered, pending, shown, verdict, ready, completions, flushScheduled,
                       wanted, renderSets, errors, rejections, requests>>
    BY <1>19 DEF HeldElement, laterVars, countVars
  <2>2. ~pending
    BY <1>0, <2>1 DEF PendingPhases
  <2>3. Clean => wanted' = queuedElement
    BY <2>1 DEF SInv, Aimed, Aim
  <2> QED BY <1>0, <2>1, <2>2, <2>3, Begun
<1>20. CASE HeldNothing
  <2>0. /\ phase = "requests" /\ ~(unmountRequested /\ root # 0) /\ queuedElement = 0
        /\ ~unmountRequested' /\ phase' = "inputs" /\ caller' = "loop"
        /\ UNCHANGED <<value, busy, dirty, ready, completions, flushScheduled, renderQueued,
                       root, covered, pending, queuedElement, staged, shown, verdict, wanted,
                       trees, renderSets, errors, rejections, requests>>
    BY <1>20 DEF HeldNothing, hookVars, passVars, laterVars, paintVars, countVars
  <2>1. ~pending
    BY <1>0, <2>0 DEF PendingPhases
  <2>2. Slots' /\ Counters' /\ OneAnswer' /\ FlushPosted' /\ Callers'
    BY <2>0 DEF SInv, Slots, Counters, OneAnswer, FlushPosted, Callers, Paint
  <2>3. Passed' /\ Marked' /\ Scheduled'
    BY <2>0, <2>1 DEF SInv, Passed, Marked, Scheduled, Quiet, Clean, Idle
  <2>4. Aimed'
    <3> SUFFICES ASSUME Clean PROVE wanted = staged.element
      BY <2>0 DEF Aimed, Aim, Clean
    <3>1. wanted = IF unmountRequested THEN 0 ELSE staged.element
      BY <2>0 DEF SInv, Aimed, Aim
    <3>2. root = 0 => staged.element = 0
      BY DEF SInv, Passed
    <3> QED BY <2>0, <3>1, <3>2
  <2> QED BY <1>0, <2>2, <2>3, <2>4 DEF SInv
<1>21. CASE ReplayInput
  <2>0. UNCHANGED restVars
    BY <1>21 DEF ReplayInput, restVars, paintVars, countVars
  <2> DEFINE e == Head(replaying)
  <2>1. CASE ~pending /\ e.tree = root
    <3>1. Apply(e)
      BY <1>21, <2>1 DEF ReplayInput, DeferInput
    <3> HIDE DEF e
    <3>2. Updating(ready)
      BY <2>1, <3>1, Applying
    <3> QED BY <1>0, <2>0, <3>2, Updated
  <2>2. CASE ~(~pending /\ e.tree = root)
    <3>1. UNCHANGED settledVars
      BY <1>21, <2>0, <2>2 DEF ReplayInput, DeferInput, settledVars, hookVars, laterVars
    <3> QED BY <1>0, <3>1, Standing
  <2> QED BY <2>1, <2>2
<1>22. CASE ReplayRaises
  <2>0. /\ errors' = errors + 1 /\ phase = "inputs" /\ phase' = "idle" /\ ~pending
        /\ UNCHANGED <<value, busy, dirty, ready, completions, flushScheduled, renderQueued,
                       root, covered, pending, queuedElement, unmountRequested, caller, staged,
                       shown, verdict, wanted, trees, renderSets, rejections, requests>>
    BY <1>22 DEF ReplayRaises, hookVars, passVars, heldVars, laterVars, paintVars
  <2>1. ~Clean' /\ errors' \in Nat
    BY <1>0, <2>0 DEF Clean
  <2>2. Slots' /\ Counters' /\ OneAnswer' /\ FlushPosted' /\ Callers'
    BY <2>0, <2>1 DEF SInv, Slots, Counters, OneAnswer, FlushPosted, Callers, Paint
  <2>3. Passed' /\ Aimed' /\ Marked' /\ Scheduled'
    BY <2>1 DEF Passed, Aimed, Marked, Scheduled, Quiet
  <2> QED BY <1>0, <2>2, <2>3 DEF SInv
<1>23. CASE ReplayEnd
  <2> DEFINE wanting == dirty # {}
             posted == ready \o FlushCall(wanting)
  <2>0. /\ phase = "inputs" /\ phase' = "idle" /\ RequestRender(wanting) /\ Settle("woken", posted)
        /\ UNCHANGED <<value, busy, dirty, completions, root, covered, pending, queuedElement,
                       unmountRequested, caller, staged, shown, verdict, wanted, trees,
                       renderSets, errors, rejections, requests>>
    BY <1>23 DEF ReplayEnd, hookVars, heldVars, laterVars, paintVars, countVars
  <2>1. Prolongs(posted, ready) /\ (Contains(FlushCall(wanting), "flush") => Contains(posted, "flush"))
    BY <1>0, Posting, Flushing
  <2>2. Prolongs(ready', posted)
    BY <2>0, <2>1, Settling DEF Prolongs
  <2>3. Prolongs(ready', ready)
    BY <2>1, <2>2 DEF Prolongs
  <2>4. wanting /\ ~Rendering /\ ~flushScheduled => Contains(FlushCall(wanting), "flush")
    BY DEF FlushCall, Contains
  <2>5. flushScheduled' = (flushScheduled \/ (wanting /\ ~Rendering))
    BY <2>0 DEF RequestRender
  <2>6. FlushPosted'
    <3> HIDE DEF wanting, posted
    <3> QED BY <1>0, <2>1, <2>2, <2>4, <2>5 DEF FlushPosted, Prolongs
  <2>7. Slots' /\ Counters' /\ OneAnswer' /\ Callers'
    BY <2>0, <2>3 DEF SInv, Slots, Counters, OneAnswer, Callers, Paint, Prolongs
  <2>8. Passed' /\ Aimed' /\ Marked'
    BY <2>0 DEF SInv, Passed, Aimed, Aim, Marked, Quiet, Clean
  <2>9. Scheduled'
    BY <2>0, <2>5 DEF Scheduled, Rendering, Idle
  <2> QED BY <1>0, <2>6, <2>7, <2>8, <2>9 DEF SInv
<1>24. ASSUME NEW c \in Components, EffectSets(c) PROVE SInv'
  <2>1. UNCHANGED restVars /\ phase = "effects"
    BY <1>24 DEF EffectSets, restVars, heldVars, stepVars, paintVars
  <2> DEFINE e == Call("set", c, NextUpdate)
  <2>2. ~pending
    BY <1>0, <2>1 DEF PendingPhases
  <2>3. Apply(e)
    BY <1>24 DEF EffectSets, Call, Apply
  <2> HIDE DEF e
  <2>4. Updating(ready)
    BY <2>2, <2>3, Applying
  <2> QED BY <1>0, <2>1, <2>4, Updated
<1> QED
  BY <1>1, <1>2, <1>3, <1>4, <1>5, <1>6, <1>7, <1>8, <1>9, <1>10, <1>11, <1>12,
     <1>13, <1>14, <1>15, <1>16, <1>17, <1>18, <1>19, <1>20, <1>21, <1>22, <1>23, <1>24
     DEF Next, LoopStep, Application

(* The inductive invariant holds in every state. *)
THEOREM SettledInvariant == Spec => []SInv
<1>1. Init => SInv
  BY InitSInv
<1>2. SInv /\ [Next]_vars => SInv'
  BY NextSInv
<1> QED BY <1>1, <1>2, PTL DEF Spec

(* mount, reconcile and unmount calls collapse to the last one. *)
THEOREM LastRequest == Spec => []LastRequestWins
<1>1. SInv => LastRequestWins
  <2> SUFFICES ASSUME SInv, Idle, ~pending, Clean
               PROVE  shown.element = wanted /\ ((root = 0) <=> (wanted = 0)) /\ shown.tree = root
    BY DEF LastRequestWins, Clean
  <2>1. queuedElement = 0 /\ ~unmountRequested
    BY DEF SInv, Callers, Idle
  <2>2. wanted = staged.element
    BY <2>1 DEF SInv, Aimed, Aim
  <2>3. staged = shown /\ staged.tree = root /\ ((root = 0) <=> (staged.element = 0))
    BY DEF SInv, Passed, Idle
  <2> QED BY <2>2, <2>3
<1> QED BY <1>1, SettledInvariant, PTL

(* A screen that does not show the state has a flush on its way. *)
THEOREM FlushOnItsWay == Spec => []NothingForgotten
<1>1. SInv => NothingForgotten
  <2> SUFFICES ASSUME SInv, Idle, ~pending, root # 0, Quiet, ~(flushScheduled /\ Contains(ready, "flush"))
               PROVE  shown.tree = root /\ shown.value = value /\ shown.busy = busy
    BY DEF NothingForgotten, Quiet, Clean
  <2>1. dirty = {}
    BY DEF SInv, Scheduled, FlushPosted
  <2>2. staged = shown /\ staged.tree = root
    BY DEF SInv, Passed, Quiet, Idle
  <2>3. \A c \in Components : staged.value[c] = value[c] /\ staged.busy[c] = busy[c]
    BY <2>1 DEF SInv, Marked
  <2>4. /\ staged.value = [c \in Components |-> staged.value[c]]
        /\ staged.busy = [c \in Components |-> staged.busy[c]]
        /\ value = [c \in Components |-> value[c]] /\ busy = [c \in Components |-> busy[c]]
    BY DEF SInv, Slots, Paint, OnComponents
  <2>5. [c \in Components |-> staged.value[c]] = [c \in Components |-> value[c]]
        /\ [c \in Components |-> staged.busy[c]] = [c \in Components |-> busy[c]]
    BY <2>3
  <2> QED BY <2>2, <2>4, <2>5
<1> QED BY <1>1, SettledInvariant, PTL

---------------------------------------------------------------------------
(***************************************************************************)
(* That no state update is lost, applied twice or overtaken, for every     *)
(* value of the constants of Reconciler.                                   *)
(*                                                                         *)
(* An update is in one of three places: the slot of its component, the     *)
(* deferred queue behind the slot, or the calls a commit in flight holds.  *)
(* A pass that has not been committed keeps a fourth, the journal, to      *)
(* which a refused commit returns.  The Ledger says what these places hold *)
(* and in which order; each action moves updates in one of a few ways, and *)
(* each way has a lemma.                                                   *)
(***************************************************************************)

CallKinds == {"set", "defer", "replay", "busy", "rest"}
Issued(n) == [of : Components, tree : 0..n, by : {"user", "effect", "render", "raised"}]
HeldCall(n) == [kind : CallKinds, of : Components, update : Nat, tree : 0..n]
Queue == [open : BOOLEAN, base : Seq(Nat), updates : Seq(Nat)]

(* What a slot will hold once its deferred updates are replayed. *)
Seen(v, q) == IF q.open THEN q.base \o q.updates ELSE v

(* A slot with the value v that will be s: both hold an update once, s has  *)
(* all of v, the user's updates are in their order in s, and come before    *)
(* those that are held.                                                     *)
FromUser(o, u) == o[u].by = "user"
Once(s) == \A i, j \in DOMAIN s : s[i] = s[j] => i = j
Line(v, s, o, w) ==
  /\ v \in Seq(Nat) /\ s \in Seq(Nat)
  /\ Once(v) /\ Once(s)
  /\ \A i \in DOMAIN v : \E j \in DOMAIN s : s[j] = v[i]
  /\ \A i \in DOMAIN s : s[i] \in DOMAIN o
  /\ \A i, j \in DOMAIN s : i < j /\ FromUser(o, s[i]) /\ FromUser(o, s[j]) => s[i] < s[j]
  /\ \A i \in DOMAIN s, k \in DOMAIN w : FromUser(o, s[i]) /\ Gives(w[k]) => s[i] < w[k].update
Slot(v, q, o, w) ==
  /\ q \in Queue /\ (~q.open => q.updates = <<>>)
  /\ Line(v, Seen(v, q), o, w)

(* The calls that are held give updates of the user, in their order. *)
InLine(w, o) ==
  /\ \A k \in DOMAIN w : Gives(w[k]) =>
       /\ w[k].update \in DOMAIN o
       /\ o[w[k].update] = [of |-> w[k].of, tree |-> w[k].tree, by |-> "user"]
  /\ \A k, l \in DOMAIN w : k < l /\ Gives(w[k]) /\ Gives(w[l]) => w[k].update < w[l].update

Has(s, u) == \E i \in DOMAIN s : s[i] = u
Holds(w, u) == \E k \in DOMAIN w : Gives(w[k]) /\ w[k].update = u

Typed ==
  /\ trees \in Nat /\ root \in 0..trees /\ errors \in Nat /\ rejections \in Nat
  /\ origin \in Seq(Issued(trees)) /\ HeldCalls \in Seq(HeldCall(trees))
  /\ value \in [Components -> Seq(Nat)] /\ queue \in [Components -> Queue]
  /\ DOMAIN journal \subseteq Components
Sound == \A c \in Components : Slot(value[c], queue[c], origin, HeldCalls)
SoundJournal == \A c \in DOMAIN journal : Slot(journal[c].value, journal[c].queue, origin, HeldCalls)

(* Every live update is in the slot or held; and so it would be after a     *)
(* rollback, but for those the uncommitted pass has given itself.           *)
Kept(u) == LET c == origin[u].of
           IN  Has(Seen(value[c], queue[c]), u) \/ Holds(HeldCalls, u)
KeptBack(u) == LET c == origin[u].of
               IN  Has(Seen(journal[c].value, journal[c].queue), u) \/ Holds(HeldCalls, u)
AllKept ==
  errors = 0 /\ root # 0 =>
    \A u \in DOMAIN origin : Live(u) =>
      Kept(u) /\ (origin[u].of \in DOMAIN journal /\ origin[u].by # "render" => KeptBack(u))
Ledger == Typed /\ InLine(HeldCalls, origin) /\ Sound /\ SoundJournal /\ AllKept

Arranged ==
  /\ inputs \in Seq(HeldCall(trees)) /\ replaying \in Seq(HeldCall(trees))
  /\ triggers \in Seq(Components) /\ completions \in Seq(Components)
  /\ dirty \subseteq Components
(* Calls are held while a commit is in flight, up to their replay; and a    *)
(* pass is rolled back only to where it began.                              *)
Places ==
  /\ replaying # <<>> => phase = "inputs" \/ (phase = "drain" /\ caller = "resume")
  /\ inputs # <<>> => pending \/ phase = "requests" \/ (phase = "effects" /\ caller = "resume")
  /\ DOMAIN journal # {} => pending \/ phase = "drain"
(* A request that waited for an answer asks for more than is shown, so that *)
(* its pass has something to commit.                                        *)
Newer ==
  /\ requests \in Nat /\ queuedElement \in 0..requests
  /\ staged.element \in 0..requests /\ shown.element \in 0..requests
  /\ queuedElement # 0 => shown.element < queuedElement /\ staged.element < queuedElement
  /\ phase = "drain" /\ caller = "resume" => shown.element < staged.element

UInv == Ledger /\ Arranged /\ Places /\ Newer

---------------------------------------------------------------------------
(* One slot. *)
LEMMA LineStays ==
  ASSUME NEW v, NEW s, NEW o, NEW w, NEW p, NEW x, Line(v, s, o, w),
         \A u \in DOMAIN o : u \in DOMAIN p /\ u \in Nat /\ (FromUser(p, u) => FromUser(o, u)),
         \A k \in DOMAIN x : Gives(x[k]) =>
           \/ \E l \in DOMAIN w : Gives(w[l]) /\ w[l].update = x[k].update
           \/ \A u \in DOMAIN o : u < x[k].update
  PROVE  Line(v, s, p, x)
<1>1. \A i \in DOMAIN s : s[i] \in DOMAIN p
  BY DEF Line
<1>2. \A i, j \in DOMAIN s : i < j /\ FromUser(p, s[i]) /\ FromUser(p, s[j]) => s[i] < s[j]
  BY DEF Line
<1>3. ASSUME NEW i \in DOMAIN s, NEW k \in DOMAIN x, FromUser(p, s[i]), Gives(x[k])
      PROVE  s[i] < x[k].update
  BY <1>3 DEF Line
<1> QED BY <1>1, <1>2, <1>3 DEF Line

LEMMA Appending ==
  ASSUME NEW s \in Seq(Nat), NEW u \in Nat
  PROVE  /\ Append(s, u) \in Seq(Nat) /\ DOMAIN Append(s, u) = 1..Len(s) + 1
         /\ DOMAIN s = 1..Len(s) /\ Len(s) \in Nat
         /\ \A i \in 1..Len(s) : Append(s, u)[i] = s[i]
         /\ Append(s, u)[Len(s) + 1] = u
OBVIOUS

LEMMA OnceMore ==
  ASSUME NEW s \in Seq(Nat), NEW u \in Nat, Once(s), \A i \in DOMAIN s : s[i] # u
  PROVE  Once(Append(s, u))
<1> DEFINE t == Append(s, u)
<1>1. \A i \in DOMAIN t : (i \in DOMAIN s /\ t[i] = s[i]) \/ (i = Len(s) + 1 /\ t[i] = u)
  BY Appending
<1> HIDE DEF t
<1>2. Once(t)
  BY <1>1 DEF Once
<1> QED BY <1>2 DEF t

LEMMA LineGrows ==
  ASSUME NEW v, NEW s, NEW o, NEW w, NEW u \in Nat, NEW r, Line(v, s, o, w),
         \A i \in DOMAIN o : i \in Nat, u \in DOMAIN o,
         \A i \in DOMAIN s : s[i] # u /\ (FromUser(o, u) /\ FromUser(o, s[i]) => s[i] < u),
         \A k \in DOMAIN w : FromUser(o, u) /\ Gives(w[k]) => u < w[k].update,
         r = v \/ r = Append(v, u)
  PROVE  Line(r, Append(s, u), o, w)
<1> DEFINE t == Append(s, u)
<1>0. v \in Seq(Nat) /\ s \in Seq(Nat) /\ Once(v) /\ Once(s)
  BY DEF Line
<1>1. /\ t \in Seq(Nat) /\ DOMAIN t = 1..Len(s) + 1 /\ DOMAIN s = 1..Len(s) /\ Len(s) \in Nat
      /\ \A i \in 1..Len(s) : t[i] = s[i]
      /\ t[Len(s) + 1] = u
  BY <1>0, Appending
<1>2. \A i \in DOMAIN t : (i \in DOMAIN s /\ t[i] = s[i]) \/ (i = Len(s) + 1 /\ t[i] = u)
  BY <1>1
<1>3. Once(t)
  BY <1>0, OnceMore
<1> HIDE DEF t
<1>4. \A i \in DOMAIN v : v[i] # u /\ \E j \in DOMAIN t : t[j] = v[i]
  <2> SUFFICES ASSUME NEW i \in DOMAIN v PROVE v[i] # u /\ \E j \in DOMAIN t : t[j] = v[i]
    OBVIOUS
  <2>1. PICK j \in DOMAIN s : s[j] = v[i]
    BY DEF Line
  <2>2. j \in DOMAIN t /\ t[j] = s[j]
    BY <1>1
  <2> QED BY <2>1, <2>2
<1>5. r \in Seq(Nat) /\ Once(r) /\ \A i \in DOMAIN r : \E j \in DOMAIN t : t[j] = r[i]
  <2>1. CASE r = v
    BY <1>0, <1>4, <2>1
  <2>2. CASE r = Append(v, u)
    <3>1. Once(r) /\ r \in Seq(Nat)
      BY <1>0, <1>4, <2>2, OnceMore
    <3>2. \A i \in DOMAIN r : (i \in DOMAIN v /\ r[i] = v[i]) \/ r[i] = u
      BY <1>0, <2>2, Appending
    <3>3. Len(s) + 1 \in DOMAIN t
      BY <1>1
    <3> QED BY <1>1, <1>4, <3>1, <3>2, <3>3
  <2> QED BY <2>1, <2>2
<1>6. \A i \in DOMAIN t : t[i] \in DOMAIN o
  BY <1>2 DEF Line
<1>7. ASSUME NEW i \in DOMAIN t, NEW j \in DOMAIN t, i < j, FromUser(o, t[i]), FromUser(o, t[j])
      PROVE  t[i] < t[j]
  <2>1. i \in DOMAIN s /\ t[i] = s[i]
    BY <1>1, <1>7
  <2> QED BY <1>2, <1>7, <2>1 DEF Line
<1>8. \A i \in DOMAIN t, k \in DOMAIN w : FromUser(o, t[i]) /\ Gives(w[k]) => t[i] < w[k].update
  BY <1>2 DEF Line
<1>9. Line(r, t, o, w)
  BY <1>1, <1>3, <1>5, <1>6, <1>7, <1>8 DEF Line
<1> QED BY <1>9 DEF t

(* An update fits a slot that will be s: it is new there, and in order. *)
Fits(u, s, o, w) ==
  /\ u \in Nat /\ u \in DOMAIN o
  /\ \A i \in DOMAIN s : s[i] # u /\ (FromUser(o, u) /\ FromUser(o, s[i]) => s[i] < u)
  /\ \A k \in DOMAIN w : FromUser(o, u) /\ Gives(w[k]) => u < w[k].update

LEMMA SlotStays ==
  ASSUME NEW v, NEW q, NEW o, NEW w, NEW p, NEW x, Slot(v, q, o, w),
         \A u \in DOMAIN o : u \in DOMAIN p /\ u \in Nat /\ (FromUser(p, u) => FromUser(o, u)),
         \A k \in DOMAIN x : Gives(x[k]) =>
           \/ \E l \in DOMAIN w : Gives(w[l]) /\ w[l].update = x[k].update
           \/ \A u \in DOMAIN o : u < x[k].update
  PROVE  Slot(v, q, p, x)
<1>1. Line(v, Seen(v, q), p, x)
  BY LineStays DEF Slot
<1> QED BY <1>1 DEF Slot

LEMMA AppendBehind ==
  ASSUME NEW a \in Seq(Nat), NEW b \in Seq(Nat), NEW u \in Nat
  PROVE  a \o Append(b, u) = Append(a \o b, u)
<1>1. a \o b \in Seq(Nat)
  OBVIOUS
<1>3. Append(b, u) = b \o <<u>> /\ Append(a \o b, u) = (a \o b) \o <<u>>
  BY <1>1, AppendIsConcat
<1>2. <<u>> \in Seq(Nat)
  OBVIOUS
<1> QED BY <1>2, <1>3, ConcatAssociative

(* The queue of a slot that was set, and of one that was deferred. *)
AfterSet(q, u) == IF q.open THEN [q EXCEPT !.updates = Append(@, u)] ELSE q
AfterDefer(v, q, u) ==
  [open |-> TRUE, base |-> IF q.open THEN q.base ELSE v, updates |-> Append(q.updates, u)]

LEMMA SetSlot ==
  ASSUME NEW v, NEW q, NEW o, NEW w, NEW u, Slot(v, q, o, w),
         \A i \in DOMAIN o : i \in Nat, Fits(u, Seen(v, q), o, w)
  PROVE  /\ Slot(Append(v, u), AfterSet(q, u), o, w)
         /\ Seen(Append(v, u), AfterSet(q, u)) = Append(Seen(v, q), u)
<1> DEFINE r == Append(v, u)
           p == AfterSet(q, u)
<1>0. q \in Queue /\ u \in Nat /\ v \in Seq(Nat) /\ (~q.open => q.updates = <<>>)
  BY DEF Slot, Line, Fits
<1>1. Seen(r, p) = Append(Seen(v, q), u)
  <2>1. CASE q.open
    <3>1. p.open /\ p.base = q.base /\ p.updates = Append(q.updates, u) /\ q.base \in Seq(Nat) /\ q.updates \in Seq(Nat)
      BY <1>0, <2>1 DEF Queue, AfterSet
    <3>2. q.base \o Append(q.updates, u) = Append(q.base \o q.updates, u)
      BY <1>0, <3>1, AppendBehind
    <3>3. Seen(r, p) = q.base \o Append(q.updates, u) /\ Seen(v, q) = q.base \o q.updates
      BY <2>1, <3>1 DEF Seen
    <3> QED BY <3>2, <3>3
  <2>2. CASE ~q.open
    BY <2>2 DEF Seen, AfterSet
  <2> QED BY <2>1, <2>2
<1>2. p \in Queue /\ (~p.open => p.updates = <<>>)
  <2>1. Append(q.updates, u) \in Seq(Nat)
    BY <1>0 DEF Queue
  <2> QED BY <1>0, <2>1 DEF Queue, AfterSet
<1>3. Line(r, Append(Seen(v, q), u), o, w)
  BY LineGrows DEF Slot, Fits
<1> QED BY <1>1, <1>2, <1>3 DEF Slot

LEMMA DeferSlot ==
  ASSUME NEW v, NEW q, NEW o, NEW w, NEW u, Slot(v, q, o, w),
         \A i \in DOMAIN o : i \in Nat, Fits(u, Seen(v, q), o, w)
  PROVE  /\ Slot(v, AfterDefer(v, q, u), o, w)
         /\ Seen(v, AfterDefer(v, q, u)) = Append(Seen(v, q), u)
<1> DEFINE p == AfterDefer(v, q, u)
<1>0. /\ q \in Queue /\ u \in Nat /\ v \in Seq(Nat) /\ (~q.open => q.updates = <<>>)
      /\ q.base \in Seq(Nat) /\ q.updates \in Seq(Nat)
  BY DEF Slot, Line, Fits, Queue
<1>1. Seen(v, p) = Append(Seen(v, q), u)
  <2>1. Seen(v, p) = (IF q.open THEN q.base ELSE v) \o Append(q.updates, u)
    BY DEF Seen, AfterDefer
  <2>2. CASE q.open
    BY <1>0, <2>1, <2>2, AppendBehind DEF Seen
  <2>3. CASE ~q.open
    <3>1. v \o <<>> = v
      BY <1>0
    <3>2. v \o Append(q.updates, u) = Append(v \o q.updates, u)
      BY <1>0, AppendBehind
    <3>3. q.updates = <<>> /\ Seen(v, q) = v /\ Seen(v, p) = v \o Append(q.updates, u)
      BY <1>0, <2>1, <2>3 DEF Seen
    <3> QED BY <3>1, <3>2, <3>3
  <2> QED BY <2>2, <2>3
<1>2. p \in Queue /\ p.open
  BY <1>0 DEF Queue, AfterDefer
<1>3. Line(v, Append(Seen(v, q), u), o, w)
  BY LineGrows DEF Slot, Fits
<1> QED BY <1>1, <1>2, <1>3 DEF Slot

LEMMA ReplaySlot ==
  ASSUME NEW v, NEW q, NEW o, NEW w, Slot(v, q, o, w)
  PROVE  /\ Slot(Seen(v, q), NoQueue, o, w) /\ Seen(Seen(v, q), NoQueue) = Seen(v, q)
         /\ Seen(v, q) \in Seq(Nat)
<1>1. NoQueue \in Queue /\ ~NoQueue.open /\ NoQueue.updates = <<>>
  BY DEF NoQueue, Queue
<1>2. Line(Seen(v, q), Seen(v, q), o, w)
  BY DEF Slot, Line
<1>3. Seen(Seen(v, q), NoQueue) = Seen(v, q)
  BY <1>1 DEF Seen
<1> QED BY <1>1, <1>2, <1>3 DEF Slot, Line

LEMMA EmptySlot ==
  ASSUME NEW o, NEW w
  PROVE  Slot(<<>>, NoQueue, o, w)
<1>1. NoQueue \in Queue /\ ~NoQueue.open /\ NoQueue.updates = <<>>
  BY DEF NoQueue, Queue
<1>2. Line(<<>>, <<>>, o, w)
  BY DEF Line, Once
<1> QED BY <1>1, <1>2 DEF Slot, Seen

---------------------------------------------------------------------------
(* The ways in which a step moves updates.  The journal keeps its entries,  *)
(* takes copies of slots, or forgets them.                                  *)
JournalStep ==
  /\ DOMAIN journal' \subseteq Components
  /\ \A c \in DOMAIN journal' :
       \/ c \in DOMAIN journal /\ journal'[c] = journal[c]
       \/ journal'[c].value = value[c] /\ journal'[c].queue = queue[c]

(* Calls that are held go on to be, unless they are of another tree. *)
WayStep(w, x, o, r) ==
  /\ InLine(x, o)
  /\ \A k \in DOMAIN x : Gives(x[k]) => Holds(w, x[k].update)
  /\ \A l \in DOMAIN w : Gives(w[l]) /\ w[l].tree = r => Holds(x, w[l].update)

LEMMA SameWay ==
  ASSUME NEW w, NEW o, NEW r, InLine(w, o)
  PROVE  WayStep(w, w, o, r)
BY DEF WayStep, Holds

LEMMA OriginFacts ==
  ASSUME Typed
  PROVE  \A u \in DOMAIN origin : /\ u \in Nat /\ u <= Len(origin) /\ origin[u].of \in Components
                                  /\ origin[u].tree \in Nat /\ origin[u].tree <= trees
<1>1. ASSUME NEW u \in DOMAIN origin PROVE u \in Nat /\ u <= Len(origin) /\ origin[u] \in Issued(trees)
  BY DEF Typed
<1>2. trees \in Nat
  BY DEF Typed
<1> QED BY <1>1, <1>2 DEF Issued

(* No update is given; deferred ones may be replayed. *)
LEMMA Moving ==
  ASSUME Ledger, UNCHANGED <<origin, root, trees>>,
         errors' \in Nat, errors' = 0 => errors = 0,
         rejections' \in Nat, rejections' = 0 => rejections = 0,
         value' \in [Components -> Seq(Nat)], queue' \in [Components -> Queue],
         \A c \in Components :
           \/ value'[c] = value[c] /\ queue'[c] = queue[c]
           \/ value'[c] = Seen(value[c], queue[c]) /\ queue'[c] = NoQueue,
         JournalStep,
         HeldCalls' \in Seq(HeldCall(trees)), WayStep(HeldCalls, HeldCalls', origin, root)
  PROVE  Ledger'
<1>0. Typed /\ InLine(HeldCalls, origin) /\ Sound /\ SoundJournal /\ AllKept
  BY DEF Ledger
<1>1. Typed'
  BY <1>0 DEF Typed, JournalStep
<1>2. InLine(HeldCalls, origin)'
  BY DEF WayStep
<1>3. ASSUME NEW v, NEW q, Slot(v, q, origin, HeldCalls) PROVE Slot(v, q, origin', HeldCalls')
  <2>1. \A k \in DOMAIN HeldCalls' : Gives(HeldCalls'[k]) =>
          \E l \in DOMAIN HeldCalls : Gives(HeldCalls[l]) /\ HeldCalls[l].update = HeldCalls'[k].update
    BY DEF WayStep, Holds
  <2>2. \A u \in DOMAIN origin : u \in DOMAIN origin' /\ u \in Nat /\ (FromUser(origin', u) => FromUser(origin, u))
    BY <1>0, OriginFacts
  <2> QED BY <1>3, <2>1, <2>2, SlotStays
<1>4. \A c \in Components : /\ Slot(value'[c], queue'[c], origin, HeldCalls)
                            /\ Seen(value'[c], queue'[c]) = Seen(value[c], queue[c])
  <2> SUFFICES ASSUME NEW c \in Components
               PROVE  /\ Slot(value'[c], queue'[c], origin, HeldCalls)
                      /\ Seen(value'[c], queue'[c]) = Seen(value[c], queue[c])
    OBVIOUS
  <2> DEFINE s == Seen(value[c], queue[c])
  <2>1. Slot(value[c], queue[c], origin, HeldCalls)
    BY <1>0 DEF Sound
  <2>2. Slot(s, NoQueue, origin, HeldCalls) /\ Seen(s, NoQueue) = s
    BY <2>1, ReplaySlot
  <2>3. \/ value'[c] = value[c] /\ queue'[c] = queue[c]
        \/ value'[c] = s /\ queue'[c] = NoQueue
    OBVIOUS
  <2> HIDE DEF s
  <2> QED BY <2>1, <2>2, <2>3 DEF s
<1>5. Sound'
  BY <1>3, <1>4 DEF Sound
<1>6. \A c \in DOMAIN journal' : Slot(journal'[c].value, journal'[c].queue, origin, HeldCalls)
  BY <1>0 DEF JournalStep, Sound, SoundJournal
<1>7. SoundJournal'
  BY <1>3, <1>6 DEF SoundJournal
<1>8. AllKept'
  <2> SUFFICES ASSUME errors' = 0, root' # 0, NEW u \in DOMAIN origin, Live(u)'
               PROVE  /\ Kept(u)'
                      /\ (origin[u].of \in DOMAIN journal' /\ origin[u].by # "render" => KeptBack(u)')
    BY DEF AllKept
  <2>1. Live(u) /\ Kept(u) /\ (origin[u].of \in DOMAIN journal /\ origin[u].by # "render" => KeptBack(u))
    BY <1>0 DEF AllKept, Live
  <2>2. Holds(HeldCalls, u) => Holds(HeldCalls', u)
    <3> SUFFICES ASSUME NEW k \in DOMAIN HeldCalls, Gives(HeldCalls[k]), HeldCalls[k].update = u
                 PROVE  Holds(HeldCalls', u)
      BY DEF Holds
    <3>1. origin[u].tree = HeldCalls[k].tree
      <4>1. origin[u] = [of |-> HeldCalls[k].of, tree |-> HeldCalls[k].tree, by |-> "user"]
        BY <1>0 DEF InLine
      <4> QED BY <4>1
    <3>2. origin[u].tree = root
      BY <2>1 DEF Live
    <3> QED BY <3>1, <3>2 DEF WayStep
  <2>3. origin[u].of \in Components
    BY <1>0, OriginFacts
  <2>4. Kept(u)'
    BY <1>4, <2>1, <2>2, <2>3 DEF Kept
  <2>5. ASSUME origin[u].of \in DOMAIN journal', origin[u].by # "render" PROVE KeptBack(u)'
    <3> DEFINE c == origin[u].of
    <3>1. CASE c \in DOMAIN journal /\ journal'[c] = journal[c]
      BY <2>1, <2>2, <2>5, <3>1 DEF KeptBack
    <3>2. CASE journal'[c].value = value[c] /\ journal'[c].queue = queue[c]
      BY <2>1, <2>2, <3>2 DEF Kept, KeptBack
    <3> QED BY <2>5, <3>1, <3>2 DEF JournalStep
  <2> QED BY <2>4, <2>5
<1> QED BY <1>1, <1>2, <1>5, <1>7, <1>8 DEF Ledger

(* u is given to the slot of c, at once or deferred. *)
GivenTo(c, u) ==
  /\ value' \in [Components -> Seq(Nat)] /\ queue' \in [Components -> Queue]
  /\ \A d \in Components \ {c} : value'[d] = value[d] /\ queue'[d] = queue[d]
  /\ \/ value'[c] = Append(value[c], u) /\ queue'[c] = AfterSet(queue[c], u)
     \/ value'[c] = value[c] /\ queue'[c] = AfterDefer(value[c], queue[c], u)

(* The slots take u, and all of them are as good as they were. *)
Givable(c, u, o, w) ==
  /\ c \in Components /\ GivenTo(c, u)
  /\ \A d \in Components : Slot(value[d], queue[d], o, w)
  /\ \A i \in DOMAIN o : i \in Nat
  /\ Fits(u, Seen(value[c], queue[c]), o, w)
Given(c, u, o, w) ==
  /\ \A d \in Components : Slot(value'[d], queue'[d], o, w)
  /\ \A d \in Components, x \in Nat :
       Has(Seen(value'[d], queue'[d]), x) <=> Has(Seen(value[d], queue[d]), x) \/ (d = c /\ x = u)

LEMMA GivenSlot ==
  ASSUME NEW c, NEW u, NEW o, NEW w, Givable(c, u, o, w)
  PROVE  Given(c, u, o, w)
<1>0. /\ c \in Components /\ GivenTo(c, u)
      /\ \A d \in Components : Slot(value[d], queue[d], o, w)
      /\ \A i \in DOMAIN o : i \in Nat
      /\ Fits(u, Seen(value[c], queue[c]), o, w)
  BY DEF Givable
<1>1. Slot(value[c], queue[c], o, w)
  BY <1>0
<1>2. Slot(value'[c], queue'[c], o, w) /\ Seen(value'[c], queue'[c]) = Append(Seen(value[c], queue[c]), u)
  <2>1. CASE value'[c] = Append(value[c], u) /\ queue'[c] = AfterSet(queue[c], u)
    BY <1>0, <1>1, <2>1, SetSlot
  <2>2. CASE value'[c] = value[c] /\ queue'[c] = AfterDefer(value[c], queue[c], u)
    BY <1>0, <1>1, <2>2, DeferSlot
  <2> QED BY <1>0, <2>1, <2>2 DEF GivenTo
<1>3. ASSUME NEW x \in Nat
      PROVE  Has(Seen(value'[c], queue'[c]), x) <=> Has(Seen(value[c], queue[c]), x) \/ x = u
  <2> DEFINE s == Seen(value[c], queue[c])
             t == Append(s, u)
  <2>1. s \in Seq(Nat) /\ u \in Nat
    BY <1>0, <1>1 DEF Slot, Line, Fits
  <2>2. /\ DOMAIN t = 1..Len(s) + 1 /\ DOMAIN s = 1..Len(s) /\ Len(s) \in Nat
        /\ \A i \in 1..Len(s) : t[i] = s[i]
        /\ t[Len(s) + 1] = u
    BY <2>1, Appending
  <2> HIDE DEF s, t
  <2>3. \A i \in DOMAIN t : (i \in DOMAIN s /\ t[i] = s[i]) \/ t[i] = u
    BY <2>2
  <2>4. \A i \in DOMAIN s : i \in DOMAIN t /\ t[i] = s[i]
    BY <2>2
  <2>5. Len(s) + 1 \in DOMAIN t
    BY <2>2
  <2>6. Has(t, x) <=> Has(s, x) \/ x = u
    BY <2>2, <2>3, <2>4, <2>5 DEF Has
  <2> QED BY <1>2, <2>6 DEF s, t
<1>4. \A d \in Components \ {c} : value'[d] = value[d] /\ queue'[d] = queue[d]
  BY <1>0 DEF GivenTo
<1>5. \A d \in Components : Slot(value'[d], queue'[d], o, w)
  BY <1>0, <1>2, <1>4
<1>6. \A d \in Components, x \in Nat :
        Has(Seen(value'[d], queue'[d]), x) <=> Has(Seen(value[d], queue[d]), x) \/ (d = c /\ x = u)
  BY <1>3, <1>4
<1> QED BY <1>5, <1>6 DEF Given

(* One more update has been issued. *)
IssuedStep(c, by) == origin' = Append(origin, [of |-> c, tree |-> root, by |-> by])

LEMMA IssuedFacts ==
  ASSUME Typed, NEW c \in Components, NEW by \in {"user", "effect", "render"}, IssuedStep(c, by)
  PROVE  /\ origin' \in Seq(Issued(trees)) /\ NextUpdate \in Nat
         /\ \A u : u \in DOMAIN origin' <=> u \in DOMAIN origin \/ u = NextUpdate
         /\ \A u \in DOMAIN origin : origin'[u] = origin[u] /\ u \in Nat /\ u < NextUpdate
         /\ origin'[NextUpdate] = [of |-> c, tree |-> root, by |-> by]
<1> DEFINE new == [of |-> c, tree |-> root, by |-> by]
<1>1. new \in Issued(trees) /\ origin \in Seq(Issued(trees))
  BY DEF Typed, Issued
<1> HIDE DEF new
<1>2. PICK n \in Nat : n = Len(origin) /\ DOMAIN origin = 1..n
  BY <1>1
<1>3. /\ Append(origin, new) \in Seq(Issued(trees)) /\ DOMAIN Append(origin, new) = 1..n + 1
      /\ \A u \in 1..n : Append(origin, new)[u] = origin[u]
      /\ Append(origin, new)[n + 1] = new
  BY <1>1, <1>2
<1>4. NextUpdate = n + 1
  BY <1>2 DEF NextUpdate
<1>5. origin' = Append(origin, new)
  BY DEF IssuedStep, new
<1> QED BY <1>2, <1>3, <1>4, <1>5 DEF new

(* Slots do not mind that one more update was issued. *)
LEMMA IssuedSlots ==
  ASSUME Typed, NEW c \in Components, NEW by \in {"user", "effect", "render"}, IssuedStep(c, by),
         NEW x, \A k \in DOMAIN x : Gives(x[k]) => Holds(HeldCalls, x[k].update) \/ x[k].update = NextUpdate,
         NEW v, NEW q, Slot(v, q, origin, HeldCalls)
  PROVE  Slot(v, q, origin', x)
<1>1. \A u \in DOMAIN origin : u \in DOMAIN origin' /\ u \in Nat /\ (FromUser(origin', u) => FromUser(origin, u))
  BY IssuedFacts DEF FromUser
<1>2. \A k \in DOMAIN x : Gives(x[k]) =>
        \/ \E l \in DOMAIN HeldCalls : Gives(HeldCalls[l]) /\ HeldCalls[l].update = x[k].update
        \/ \A u \in DOMAIN origin : u < x[k].update
  BY IssuedFacts DEF Holds
<1> QED BY <1>1, <1>2, SlotStays

(* An update is issued and given to its slot. *)
LEMMA Giving ==
  ASSUME Ledger, UNCHANGED <<root, trees, errors, rejections, HeldCalls>>,
         NEW c \in Components, NEW by \in {"user", "effect", "render"}, IssuedStep(c, by),
         GivenTo(c, NextUpdate),
         by = "user" => \A k \in DOMAIN HeldCalls : ~Gives(HeldCalls[k]),
         JournalStep, by # "render" => DOMAIN journal' = {}
  PROVE  Ledger'
<1> DEFINE n == NextUpdate
<1>0. Typed /\ InLine(HeldCalls, origin) /\ Sound /\ SoundJournal /\ AllKept
  BY DEF Ledger
<1>1. /\ origin' \in Seq(Issued(trees)) /\ n \in Nat
      /\ \A u : u \in DOMAIN origin' <=> u \in DOMAIN origin \/ u = n
      /\ \A u \in DOMAIN origin : origin'[u] = origin[u] /\ u \in Nat /\ u < n
      /\ origin'[n] = [of |-> c, tree |-> root, by |-> by]
  BY <1>0, IssuedFacts
<1>2. Typed'
  BY <1>0, <1>1 DEF Typed, GivenTo, JournalStep
<1>3. InLine(HeldCalls, origin)'
  BY <1>0, <1>1 DEF InLine
<1>4. \A k \in DOMAIN HeldCalls : Gives(HeldCalls[k]) => Holds(HeldCalls, HeldCalls[k].update)
  BY DEF Holds
<1>5. \A v, q : Slot(v, q, origin, HeldCalls) => Slot(v, q, origin', HeldCalls)
  BY <1>0, <1>4, IssuedSlots
<1>6. \A d \in Components : Slot(value[d], queue[d], origin', HeldCalls)
  BY <1>0, <1>5 DEF Sound
<1>7. Fits(n, Seen(value[c], queue[c]), origin', HeldCalls)
  <2>1. \A i \in DOMAIN Seen(value[c], queue[c]) : Seen(value[c], queue[c])[i] < n
    BY <1>0, <1>1 DEF Sound, Slot, Line
  <2>2. \A i \in DOMAIN Seen(value[c], queue[c]) : Seen(value[c], queue[c])[i] \in Nat
    BY <1>6 DEF Slot, Line
  <2>3. FromUser(origin', n) => by = "user"
    BY <1>1 DEF FromUser
  <2> QED BY <1>1, <2>1, <2>2, <2>3 DEF Fits
<1>8. \A u \in DOMAIN origin' : u \in Nat
  BY <1>1
<1> HIDE DEF n
<1>9. /\ \A d \in Components : Slot(value'[d], queue'[d], origin', HeldCalls)
      /\ \A d \in Components, x \in Nat :
           Has(Seen(value'[d], queue'[d]), x) <=> Has(Seen(value[d], queue[d]), x) \/ (d = c /\ x = n)
  <2>1. Givable(c, n, origin', HeldCalls)
    BY <1>6, <1>7, <1>8 DEF Givable, n
  <2>2. Given(c, n, origin', HeldCalls)
    BY <2>1, GivenSlot
  <2> QED BY <2>2 DEF Given
<1>10. Sound'
  BY <1>9 DEF Sound
<1>11. SoundJournal'
  <2>1. \A d \in DOMAIN journal' : Slot(journal'[d].value, journal'[d].queue, origin, HeldCalls)
    BY <1>0 DEF JournalStep, Sound, SoundJournal
  <2> QED BY <1>5, <2>1 DEF SoundJournal
<1>12. AllKept'
  <2> SUFFICES ASSUME errors = 0, root # 0, NEW u \in DOMAIN origin', Live(u)'
               PROVE  /\ Kept(u)'
                      /\ (origin'[u].of \in DOMAIN journal' /\ origin'[u].by # "render" => KeptBack(u)')
    BY DEF AllKept
  <2>1. CASE u = n
    <3>1. origin'[u].of = c /\ origin'[u].by = by
      BY <1>1, <2>1
    <3>2. Kept(u)'
      BY <1>1, <1>9, <2>1, <3>1 DEF Kept
    <3> QED BY <3>1, <3>2
  <2>2. CASE u \in DOMAIN origin
    <3>0. origin'[u] = origin[u] /\ origin[u].of \in Components /\ u \in Nat
      BY <1>0, <1>1, <2>2, OriginFacts
    <3>1. Live(u) /\ Kept(u) /\ (origin[u].of \in DOMAIN journal /\ origin[u].by # "render" => KeptBack(u))
      BY <1>0, <2>2, <3>0 DEF AllKept, Live
    <3>2. Kept(u)'
      BY <1>9, <3>0, <3>1 DEF Kept
    <3>3. ASSUME origin[u].of \in DOMAIN journal', origin[u].by # "render" PROVE KeptBack(u)'
      <4> DEFINE d == origin[u].of
      <4>1. CASE d \in DOMAIN journal /\ journal'[d] = journal[d]
        BY <3>0, <3>1, <3>3, <4>1 DEF KeptBack
      <4>2. CASE journal'[d].value = value[d] /\ journal'[d].queue = queue[d]
        BY <3>0, <3>1, <4>2 DEF Kept, KeptBack
      <4> QED BY <3>3, <4>1, <4>2 DEF JournalStep
    <3> QED BY <3>0, <3>2, <3>3
  <2> QED BY <1>1, <2>1, <2>2 DEF n
<1> QED BY <1>2, <1>3, <1>10, <1>11, <1>12 DEF Ledger

(* Calls are held behind those that are held already. *)
Extends(x, w) ==
  /\ \A k \in DOMAIN w : k \in DOMAIN x /\ x[k] = w[k]
  /\ \A k \in DOMAIN x \ DOMAIN w, l \in DOMAIN w : l < k

LEMMA Extending ==
  ASSUME NEW S, NEW w \in Seq(S), NEW more \in Seq(S)
  PROVE  /\ w \o more \in Seq(S) /\ Extends(w \o more, w)
         /\ \A k \in DOMAIN (w \o more) \ DOMAIN w :
              k - Len(w) \in DOMAIN more /\ (w \o more)[k] = more[k - Len(w)] /\ k = Len(w) + (k - Len(w))
         /\ \A l \in DOMAIN more : Len(w) + l \in DOMAIN (w \o more) \ DOMAIN w /\ (w \o more)[Len(w) + l] = more[l]
<1>1. PICK m \in Nat, n \in Nat : m = Len(w) /\ n = Len(more) /\ DOMAIN w = 1..m /\ DOMAIN more = 1..n
  OBVIOUS
<1>2. /\ w \o more \in Seq(S) /\ DOMAIN (w \o more) = 1..m + n
      /\ \A k \in 1..m : (w \o more)[k] = w[k]
      /\ \A k \in m + 1..m + n : (w \o more)[k] = more[k - m]
  BY <1>1
<1> DEFINE x == w \o more
<1> HIDE DEF x
<1>3. Extends(x, w)
  BY <1>1, <1>2 DEF Extends, x
<1>4. \A k \in DOMAIN x \ DOMAIN w : k - m \in DOMAIN more /\ x[k] = more[k - m] /\ k = m + (k - m)
  BY <1>1, <1>2 DEF x
<1>5. ASSUME NEW l \in DOMAIN more PROVE m + l \in DOMAIN x \ DOMAIN w /\ x[m + l] = more[l]
  <2>1. m + l \in m + 1..m + n /\ (m + l) - m = l /\ m + l \in 1..m + n
    BY <1>1
  <2> QED BY <1>1, <1>2, <2>1 DEF x
<1> QED BY <1>1, <1>2, <1>3, <1>4, <1>5 DEF x

LEMMA QuietWay ==
  ASSUME NEW w, NEW x, NEW o, NEW r, InLine(w, o), Extends(x, w),
         \A k \in DOMAIN x \ DOMAIN w : ~Gives(x[k])
  PROVE  WayStep(w, x, o, r)
<1>1. \A k \in DOMAIN x : Gives(x[k]) => k \in DOMAIN w /\ x[k] = w[k]
  BY DEF Extends
<1>2. \A k \in DOMAIN w : k \in DOMAIN x /\ x[k] = w[k]
  BY DEF Extends
<1>3. InLine(x, o)
  BY <1>1 DEF InLine
<1> QED BY <1>1, <1>2, <1>3 DEF WayStep, Holds

(* An update is issued and held. *)
LEMMA Holding ==
  ASSUME Ledger, UNCHANGED <<value, queue, journal, root, trees, errors, rejections>>,
         NEW c \in Components, IssuedStep(c, "user"),
         HeldCalls' \in Seq(HeldCall(trees)), Extends(HeldCalls', HeldCalls),
         NEW g \in DOMAIN HeldCalls' \ DOMAIN HeldCalls, Gives(HeldCalls'[g]),
         HeldCalls'[g].update = NextUpdate, HeldCalls'[g].of = c, HeldCalls'[g].tree = root,
         \A k \in DOMAIN HeldCalls' \ DOMAIN HeldCalls : Gives(HeldCalls'[k]) => k = g
  PROVE  Ledger'
<1> DEFINE n == NextUpdate
           w == HeldCalls
           x == HeldCalls'
<1>0. Typed /\ InLine(w, origin) /\ Sound /\ SoundJournal /\ AllKept
  BY DEF Ledger
<1>1. /\ origin' \in Seq(Issued(trees)) /\ n \in Nat
      /\ \A u : u \in DOMAIN origin' <=> u \in DOMAIN origin \/ u = n
      /\ \A u \in DOMAIN origin : origin'[u] = origin[u] /\ u \in Nat /\ u < n
      /\ origin'[n] = [of |-> c, tree |-> root, by |-> "user"]
  BY <1>0, IssuedFacts
<1>2. Typed'
  BY <1>0, <1>1 DEF Typed
<1>3. \A k \in DOMAIN x : Gives(x[k]) => (k \in DOMAIN w /\ x[k] = w[k]) \/ k = g
  BY DEF Extends
<1>4. \A k \in DOMAIN w : k \in DOMAIN x /\ x[k] = w[k] /\ k < g
  BY DEF Extends
<1>5. InLine(x, origin')
  <2>1. ASSUME NEW k \in DOMAIN x, Gives(x[k])
        PROVE  /\ x[k].update \in DOMAIN origin'
               /\ origin'[x[k].update] = [of |-> x[k].of, tree |-> x[k].tree, by |-> "user"]
    <3>1. CASE k = g
      BY <1>1, <3>1
    <3>2. CASE k \in DOMAIN w /\ x[k] = w[k]
      BY <1>0, <1>1, <2>1, <3>2 DEF InLine
    <3> QED BY <1>3, <2>1, <3>1, <3>2
  <2>2. ASSUME NEW k \in DOMAIN x, NEW l \in DOMAIN x, k < l, Gives(x[k]), Gives(x[l])
        PROVE  x[k].update < x[l].update
    <3>0. k \in Nat /\ l \in Nat /\ g \in Nat
      OBVIOUS
    <3>1. CASE k = g
      <4>1. l # g /\ l \in DOMAIN w
        BY <1>3, <2>2, <3>0, <3>1
      <4> QED BY <1>4, <2>2, <3>0, <3>1, <4>1
    <3>2. CASE k # g /\ l = g
      <4>1. k \in DOMAIN w /\ x[k] = w[k]
        BY <1>3, <2>2, <3>2
      <4>2. w[k].update \in DOMAIN origin
        BY <1>0, <2>2, <4>1 DEF InLine
      <4> QED BY <1>1, <3>2, <4>1, <4>2
    <3>3. CASE k # g /\ l # g
      <4>1. k \in DOMAIN w /\ x[k] = w[k] /\ l \in DOMAIN w /\ x[l] = w[l]
        BY <1>3, <2>2, <3>3
      <4> QED BY <1>0, <2>2, <4>1 DEF InLine
    <3> QED BY <3>1, <3>2, <3>3
  <2> QED BY <2>1, <2>2 DEF InLine
<1>6. ASSUME NEW k \in DOMAIN x, Gives(x[k]) PROVE Holds(w, x[k].update) \/ x[k].update = n
  BY <1>3, <1>6 DEF Holds
<1>7. \A v, q : Slot(v, q, origin, w) => Slot(v, q, origin', x)
  BY <1>0, <1>6, IssuedSlots
<1>8. Sound'
  BY <1>0, <1>7 DEF Sound
<1>9. SoundJournal'
  BY <1>0, <1>7 DEF SoundJournal
<1>10. AllKept'
  <2> SUFFICES ASSUME errors = 0, root # 0, NEW u \in DOMAIN origin', Live(u)'
               PROVE  Kept(u)' /\ (origin'[u].of \in DOMAIN journal /\ origin'[u].by # "render" => KeptBack(u)')
    BY DEF AllKept
  <2>1. CASE u = n
    <3>1. Holds(x, u)
      BY <2>1 DEF Holds
    <3> QED BY <3>1 DEF Kept, KeptBack
  <2>2. CASE u \in DOMAIN origin
    <3>0. origin'[u] = origin[u]
      BY <1>1, <2>2
    <3>1. Live(u) /\ Kept(u) /\ (origin[u].of \in DOMAIN journal /\ origin[u].by # "render" => KeptBack(u))
      BY <1>0, <2>2, <3>0 DEF AllKept, Live
    <3>2. Holds(w, u) => Holds(x, u)
      BY <1>4 DEF Holds
    <3> QED BY <3>0, <3>1, <3>2 DEF Kept, KeptBack
  <2> QED BY <1>1, <2>1, <2>2
<1> QED BY <1>2, <1>5, <1>8, <1>9, <1>10 DEF Ledger

(* The first of the calls that are held is taken. *)
LEMMA TakenCall ==
  ASSUME NEW S, NEW w \in Seq(S), w # <<>>
  PROVE  /\ Head(w) = w[1] /\ 1 \in DOMAIN w /\ Tail(w) \in Seq(S)
         /\ \A k \in DOMAIN Tail(w) : k \in Nat /\ k + 1 \in DOMAIN w /\ Tail(w)[k] = w[k + 1]
         /\ \A k \in DOMAIN w : k \in Nat /\ (k # 1 => k - 1 \in DOMAIN Tail(w) /\ Tail(w)[k - 1] = w[k])
<1>1. PICK n \in Nat : Len(w) = n + 1 /\ DOMAIN w = 1..n + 1
  BY EmptySeq
<1>2. Tail(w) \in Seq(S) /\ DOMAIN Tail(w) = 1..n /\ \A k \in 1..n : Tail(w)[k] = w[k + 1]
  BY <1>1
<1>3. \A k \in DOMAIN w : k # 1 => k - 1 \in 1..n /\ (k - 1) + 1 = k
  BY <1>1
<1> QED BY <1>1, <1>2, <1>3

LEMMA ShorterWay ==
  ASSUME NEW n, NEW w \in Seq(HeldCall(n)), w # <<>>, NEW o, NEW r, InLine(w, o),
         Gives(Head(w)) => Head(w).tree # r
  PROVE  WayStep(w, Tail(w), o, r)
<1> DEFINE x == Tail(w)
<1>1. /\ Head(w) = w[1]
      /\ \A k \in DOMAIN x : k \in Nat /\ k + 1 \in DOMAIN w /\ x[k] = w[k + 1]
      /\ \A k \in DOMAIN w : k \in Nat /\ (k # 1 => k - 1 \in DOMAIN x /\ x[k - 1] = w[k])
  BY TakenCall
<1> HIDE DEF x
<1>2. InLine(x, o)
  <2>1. \A k \in DOMAIN x, l \in DOMAIN x : k < l => k + 1 < l + 1
    BY <1>1
  <2> QED BY <1>1, <2>1 DEF InLine
<1>3. WayStep(w, x, o, r)
  BY <1>1, <1>2 DEF WayStep, Holds
<1> QED BY <1>3 DEF x

(* The first update that is held is given to its slot. *)
LEMMA GivingHeld ==
  ASSUME Ledger, UNCHANGED <<origin, root, trees, errors, rejections>>, DOMAIN journal' = {},
         HeldCalls # <<>>, HeldCalls' = Tail(HeldCalls), Gives(Head(HeldCalls)),
         GivenTo(Head(HeldCalls).of, Head(HeldCalls).update)
  PROVE  Ledger'
<1> DEFINE w == HeldCalls
           x == Tail(HeldCalls)
           e == Head(HeldCalls)
           u == e.update
           c == e.of
<1>0. Typed /\ InLine(w, origin) /\ Sound /\ AllKept
  BY DEF Ledger
<1>1. /\ e = w[1] /\ 1 \in DOMAIN w /\ x \in Seq(HeldCall(trees))
      /\ \A k \in DOMAIN x : k \in Nat /\ k + 1 \in DOMAIN w /\ x[k] = w[k + 1]
      /\ \A k \in DOMAIN w : k \in Nat /\ (k # 1 => k - 1 \in DOMAIN x /\ x[k - 1] = w[k])
  BY <1>0, TakenCall DEF Typed
<1>2. w[1] \in HeldCall(trees)
  BY <1>0, <1>1 DEF Typed
<1>3. c \in Components /\ u \in Nat
  BY <1>1, <1>2 DEF HeldCall
<1>4. /\ u \in DOMAIN origin
      /\ origin[u] = [of |-> c, tree |-> e.tree, by |-> "user"]
  BY <1>0, <1>1 DEF InLine
<1>5. \A k \in DOMAIN x : Gives(x[k]) => u < x[k].update
  <2> SUFFICES ASSUME NEW k \in DOMAIN x, Gives(x[k]) PROVE u < x[k].update
    OBVIOUS
  <2>1. k + 1 \in DOMAIN w /\ x[k] = w[k + 1] /\ 1 < k + 1
    BY <1>1
  <2> QED BY <1>0, <1>1, <2>1 DEF InLine
<1>6. InLine(x, origin)
  <2>1. \A k \in DOMAIN x, l \in DOMAIN x : k < l => k + 1 < l + 1
    BY <1>1
  <2>2. \A k \in DOMAIN x : k + 1 \in DOMAIN w /\ x[k] = w[k + 1]
    BY <1>1
  <2> HIDE DEF x, w
  <2>3. ASSUME NEW k \in DOMAIN x, Gives(x[k])
        PROVE  /\ x[k].update \in DOMAIN origin
               /\ origin[x[k].update] = [of |-> x[k].of, tree |-> x[k].tree, by |-> "user"]
    BY <1>0, <2>2, <2>3 DEF InLine
  <2>4. ASSUME NEW k \in DOMAIN x, NEW l \in DOMAIN x, k < l, Gives(x[k]), Gives(x[l])
        PROVE  x[k].update < x[l].update
    BY <1>0, <2>1, <2>2, <2>4 DEF InLine
  <2> QED BY <2>3, <2>4 DEF InLine
<1>7. \A n \in DOMAIN origin : n \in Nat
  BY <1>0, OriginFacts
<1>8. \A d \in Components : Slot(value[d], queue[d], origin, x)
  <2>1. \A k \in DOMAIN x : Gives(x[k]) =>
          \E l \in DOMAIN w : Gives(w[l]) /\ w[l].update = x[k].update
    BY <1>1
  <2> HIDE DEF x, w
  <2>2. \A n \in DOMAIN origin : n \in DOMAIN origin /\ n \in Nat /\ (FromUser(origin, n) => FromUser(origin, n))
    BY <1>7
  <2>3. \A d \in Components : Slot(value[d], queue[d], origin, w)
    BY <1>0 DEF Sound, w
  <2> QED BY <2>1, <2>2, <2>3, SlotStays
<1>9. Fits(u, Seen(value[c], queue[c]), origin, x)
  <2> DEFINE s == Seen(value[c], queue[c])
  <2>1. FromUser(origin, u)
    BY <1>4 DEF FromUser
  <2>2. Line(value[c], s, origin, w)
    BY <1>0, <1>3 DEF Sound, Slot
  <2>3. \A i \in DOMAIN s : s[i] \in Nat /\ (FromUser(origin, s[i]) => s[i] < u)
    BY <1>1, <2>2 DEF Line
  <2>4. \A i \in DOMAIN s : s[i] # u
    BY <2>1, <2>3
  <2> HIDE DEF s
  <2>5. \A k \in DOMAIN x : FromUser(origin, u) /\ Gives(x[k]) => u < x[k].update
    BY <1>5
  <2>6. Fits(u, s, origin, x)
    BY <1>3, <1>4, <2>3, <2>4, <2>5 DEF Fits
  <2> QED BY <2>6 DEF s
<1> HIDE DEF u, c, e, x, w
<1>10. GivenTo(c, u) /\ HeldCalls' = x /\ w = HeldCalls /\ origin' = origin
  BY DEF u, c, e, x, w
<1>11. /\ \A d \in Components : Slot(value'[d], queue'[d], origin, x)
       /\ \A d \in Components, n \in Nat :
            Has(Seen(value'[d], queue'[d]), n) <=> Has(Seen(value[d], queue[d]), n) \/ (d = c /\ n = u)
  <2>1. Givable(c, u, origin, x)
    BY <1>3, <1>7, <1>8, <1>9, <1>10 DEF Givable
  <2>2. Given(c, u, origin, x)
    BY <2>1, GivenSlot
  <2> QED BY <2>2 DEF Given
<1>12. Typed'
  BY <1>0, <1>1, <1>10 DEF Typed, GivenTo
<1>13. Sound' /\ SoundJournal'
  BY <1>10, <1>11 DEF Sound, SoundJournal
<1>14. AllKept'
  <2> SUFFICES ASSUME errors = 0, root # 0, NEW n \in DOMAIN origin, Live(n)' PROVE Kept(n)'
    BY DEF AllKept
  <2>1. Kept(n) /\ origin[n].of \in Components /\ n \in Nat
    BY <1>0, OriginFacts DEF AllKept, Live
  <2>2. CASE Has(Seen(value[origin[n].of], queue[origin[n].of]), n)
    BY <1>11, <2>1, <2>2 DEF Kept
  <2>3. CASE Holds(w, n)
    <3>1. PICK k \in DOMAIN w : Gives(w[k]) /\ w[k].update = n
      BY <2>3 DEF Holds
    <3>2. CASE k = 1
      <4>1. n = u /\ origin[n].of = c
        BY <1>1, <1>4, <3>1, <3>2 DEF u
      <4> QED BY <1>11, <2>1, <4>1 DEF Kept
    <3>3. CASE k # 1
      <4>1. Holds(x, n)
        BY <1>1, <3>1, <3>3 DEF Holds
      <4> QED BY <1>10, <4>1 DEF Kept
    <3> QED BY <3>2, <3>3
  <2> QED BY <1>10, <2>1, <2>2, <2>3 DEF Kept
<1> QED BY <1>6, <1>10, <1>12, <1>13, <1>14 DEF Ledger

(* A tree is mounted or unmounted: its slots begin empty. *)
LEMMA Beginning ==
  ASSUME Ledger, UNCHANGED <<origin, HeldCalls, errors, rejections>>, DOMAIN journal' = {},
         value' = [c \in Components |-> <<>>], queue' = [c \in Components |-> NoQueue],
         \/ root' = 0 /\ trees' = trees
         \/ root' = trees + 1 /\ trees' = trees + 1
  PROVE  Ledger'
<1>0. Typed /\ InLine(HeldCalls, origin)
  BY DEF Ledger
<1>1. trees \in Nat /\ trees' \in Nat /\ trees <= trees' /\ root' \in 0..trees'
  BY <1>0 DEF Typed
<1>2. Issued(trees) \subseteq Issued(trees') /\ HeldCall(trees) \subseteq HeldCall(trees')
  <2>1. 0..trees \subseteq 0..trees'
    BY <1>1
  <2> QED BY <2>1 DEF Issued, HeldCall
<1>3. origin' \in Seq(Issued(trees')) /\ HeldCalls' \in Seq(HeldCall(trees'))
  BY <1>0, <1>2 DEF Typed
<1>4. NoQueue \in Queue
  BY DEF NoQueue, Queue
<1>5. Typed'
  BY <1>0, <1>1, <1>3, <1>4 DEF Typed
<1>6. Sound' /\ SoundJournal'
  BY EmptySlot DEF Sound, SoundJournal
<1>7. AllKept'
  <2> SUFFICES ASSUME root' # 0, NEW u \in DOMAIN origin, Live(u)' PROVE FALSE
    BY DEF AllKept
  <2>1. origin[u].tree = trees + 1
    BY DEF Live
  <2> QED BY <1>0, <1>1, <2>1, OriginFacts
<1> QED BY <1>0, <1>5, <1>6, <1>7 DEF Ledger

(* A pass is rolled back, after an exception or a refusal. *)
LEMMA RollingBack ==
  ASSUME Ledger, UNCHANGED <<origin, trees>>, root' \in {0, root}, DOMAIN journal' = {},
         errors' \in Nat, errors' = 0 => errors = 0 /\ rejections' # 0,
         rejections' \in Nat, rejections' = 0 => rejections = 0,
         value' = [c \in Components |-> IF c \in DOMAIN journal THEN journal[c].value ELSE value[c]],
         queue' = [c \in Components |-> IF c \in DOMAIN journal THEN journal[c].queue ELSE queue[c]],
         HeldCalls' = HeldCalls \/ (HeldCalls' = <<>> /\ errors' # 0)
  PROVE  Ledger'
<1>0. Typed /\ InLine(HeldCalls, origin) /\ Sound /\ SoundJournal /\ AllKept
  BY DEF Ledger
<1>1. \A c \in Components : Slot(value'[c], queue'[c], origin, HeldCalls)
  BY <1>0 DEF Sound, SoundJournal
<1>2. \A c \in Components : value'[c] \in Seq(Nat) /\ queue'[c] \in Queue
  BY <1>1 DEF Slot, Line
<1>3. value' \in [Components -> Seq(Nat)] /\ queue' \in [Components -> Queue]
  BY <1>2
<1>4. Typed'
  <2>1. root' \in 0..trees /\ <<>> \in Seq(HeldCall(trees))
    BY <1>0 DEF Typed
  <2>2. HeldCalls' \in Seq(HeldCall(trees))
    BY <1>0, <2>1 DEF Typed
  <2> QED BY <1>0, <1>3, <2>1, <2>2 DEF Typed
<1>5. InLine(HeldCalls, origin)'
  BY <1>0 DEF InLine
<1>6. \A c \in Components : Slot(value'[c], queue'[c], origin, HeldCalls')
  <2>1. \A u \in DOMAIN origin : u \in DOMAIN origin /\ u \in Nat /\ (FromUser(origin, u) => FromUser(origin, u))
    BY <1>0, OriginFacts
  <2>2. \A k \in DOMAIN HeldCalls' : Gives(HeldCalls'[k]) =>
          \E l \in DOMAIN HeldCalls : Gives(HeldCalls[l]) /\ HeldCalls[l].update = HeldCalls'[k].update
    OBVIOUS
  <2> QED BY <1>1, <2>1, <2>2, SlotStays
<1>7. Sound' /\ SoundJournal'
  BY <1>6 DEF Sound, SoundJournal
<1>8. AllKept'
  <2> SUFFICES ASSUME errors' = 0, root' # 0, NEW u \in DOMAIN origin, Live(u)' PROVE Kept(u)'
    BY DEF AllKept
  <2>1. /\ Live(u) /\ Kept(u) /\ origin[u].by # "render"
        /\ origin[u].of \in DOMAIN journal => KeptBack(u)
    BY <1>0 DEF AllKept, Live
  <2>2. origin[u].of \in Components /\ HeldCalls' = HeldCalls
    BY <1>0, OriginFacts
  <2> QED BY <2>1, <2>2 DEF Kept, KeptBack
<1> QED BY <1>4, <1>5, <1>7, <1>8 DEF Ledger

(* A function that was held raises: its update is given up, and so are the  *)
(* calls behind it.                                                         *)
LEMMA GivingUp ==
  ASSUME Ledger, UNCHANGED <<value, queue, journal, root, trees, rejections>>,
         errors' \in Nat \ {0}, HeldCalls' = <<>>,
         NEW u, origin' = [origin EXCEPT ![u].by = "raised"]
  PROVE  Ledger'
<1>0. Typed /\ Sound /\ SoundJournal
  BY DEF Ledger
<1>1. /\ DOMAIN origin' = DOMAIN origin /\ origin' \in Seq(Issued(trees))
      /\ \A n \in DOMAIN origin : FromUser(origin', n) => FromUser(origin, n)
  <2>1. /\ origin \in Seq(Issued(trees)) /\ DOMAIN origin' = DOMAIN origin
        /\ \A n \in DOMAIN origin : origin'[n] = IF n = u THEN [origin[n] EXCEPT !.by = "raised"] ELSE origin[n]
    BY <1>0 DEF Typed
  <2>2. ASSUME NEW n \in DOMAIN origin
        PROVE  origin'[n] \in Issued(trees) /\ (FromUser(origin', n) => FromUser(origin, n))
    <3>1. origin[n] \in Issued(trees)
      BY <2>1
    <3>2. CASE n = u
      <4>1. origin'[n] = [origin[n] EXCEPT !.by = "raised"]
        BY <2>1, <3>2
      <4>2. origin'[n] = [of |-> origin[n].of, tree |-> origin[n].tree, by |-> "raised"]
        BY <3>1, <4>1 DEF Issued
      <4> QED BY <3>1, <4>2 DEF Issued, FromUser
    <3>3. CASE n # u
      BY <2>1, <3>1, <3>3 DEF FromUser
    <3> QED BY <3>2, <3>3
  <2>3. PICK m \in Nat : DOMAIN origin = 1..m
    BY <2>1
  <2>4. origin' \in [1..m -> Issued(trees)]
    BY <2>1, <2>2, <2>3
  <2>5. \A S, f : f \in [1..m -> S] => f \in Seq(S)
    BY SeqDef
  <2> QED BY <2>1, <2>2, <2>4, <2>5
<1>2. Typed'
  BY <1>0, <1>1 DEF Typed
<1>3. InLine(HeldCalls, origin)'
  BY DEF InLine
<1>4. \A v, q : Slot(v, q, origin, HeldCalls) => Slot(v, q, origin', HeldCalls')
  <2>1. \A n \in DOMAIN origin : n \in DOMAIN origin' /\ n \in Nat /\ (FromUser(origin', n) => FromUser(origin, n))
    BY <1>0, <1>1, OriginFacts
  <2>2. \A k \in DOMAIN HeldCalls' : FALSE
    OBVIOUS
  <2> QED BY <2>1, <2>2, SlotStays
<1>5. Sound' /\ SoundJournal'
  BY <1>0, <1>4 DEF Sound, SoundJournal
<1>6. AllKept'
  BY DEF AllKept
<1> QED BY <1>2, <1>3, <1>5, <1>6 DEF Ledger

---------------------------------------------------------------------------
(* The requests, action by action. *)
LEMMA NextNewer == Newer /\ SInv /\ [Next]_vars => Newer'
<1> SUFFICES ASSUME Newer, SInv, [Next]_vars PROVE Newer'
  OBVIOUS
<1>0. /\ requests \in Nat /\ (phase = "idle" /\ ~pending => queuedElement = 0)
      /\ (pending => phase \in {"idle", "inputs"}) /\ caller \in {"loop", "resume"}
      /\ (phase = "requests" => caller = "resume")
  BY DEF SInv, IInv, PendingPhases, Callers, Newer, Idle
<1>1. ASSUME UNCHANGED <<requests, queuedElement, staged, shown, phase, caller>> PROVE Newer'
  BY <1>1 DEF Newer
<1>2. ASSUME staged' = shown, UNCHANGED <<requests, queuedElement, shown>>,
             phase' = "drain" => caller' = "loop"
      PROVE  Newer'
  BY <1>2 DEF Newer
<1>3. ASSUME UNCHANGED <<requests, queuedElement, staged, shown>>,
             phase' = "drain" => phase = "drain" /\ caller' = caller
      PROVE  Newer'
  BY <1>3 DEF Newer
<1>4. ASSUME UNCHANGED shown, requests' = requests + 1, caller' = "loop" \/ phase' # "drain",
             staged' = staged \/ staged'.element \in {0, requests + 1},
             queuedElement' \in {0, requests + 1},
             queuedElement' # 0 => staged' = staged \/ staged'.element = 0
      PROVE  Newer'
  BY <1>4 DEF Newer
<1>5. CASE UNCHANGED vars
  BY <1>1, <1>5 DEF vars, heldVars, stepVars, paintVars, countVars
<1>6. CASE \E c \in Components : UserSet(c) \/ StartTransition(c)
  BY <1>1, <1>6 DEF UserSet, StartTransition, stepVars, paintVars, countVars
<1>7. CASE Mount
  <2>1. UNCHANGED shown /\ requests' = requests + 1 /\ phase = "idle"
    BY <1>7 DEF Mount, Request, Idle
  <2>2. CASE pending
    BY <1>4, <1>7, <2>1, <2>2 DEF Mount, RequestUnmount
  <2>3. CASE ~pending /\ root # 0
    <3>1. staged' = NoTree /\ queuedElement' = requests + 1 /\ UNCHANGED <<phase, caller>>
      BY <1>7, <2>3 DEF Mount, UnmountPass
    <3>2. NoTree.element = 0
      BY DEF NoTree
    <3>3. staged'.element = 0 /\ phase' # "drain"
      BY <2>1, <3>1, <3>2
    <3> QED BY <1>4, <2>1, <3>1, <3>3
  <2>4. CASE ~pending /\ root = 0
    BY <1>0, <1>4, <1>7, <2>1, <2>4 DEF Mount, BeginMount, Idle
  <2> QED BY <2>2, <2>3, <2>4
<1>8. CASE Reconcile
  <2>1. UNCHANGED shown /\ requests' = requests + 1 /\ phase = "idle"
    BY <1>8 DEF Reconcile, Request, Idle
  <2>2. CASE pending
    <3>1. staged' = staged /\ queuedElement' = requests + 1 /\ UNCHANGED <<phase, caller>>
      BY <1>8, <2>2 DEF Reconcile
    <3>2. phase' # "drain"
      BY <2>1, <3>1
    <3> QED BY <1>4, <2>1, <3>1, <3>2
  <2>3. CASE ~pending /\ root # 0
    <3>1. staged'.element = requests + 1 /\ queuedElement' = queuedElement /\ caller' = "loop"
      BY <1>8, <2>3 DEF Reconcile, BeginReconcile
    <3>2. queuedElement' = 0
      BY <1>0, <2>1, <2>3, <3>1 DEF Idle
    <3> QED BY <1>4, <2>1, <3>1, <3>2
  <2>4. CASE ~pending /\ root = 0
    BY <1>0, <1>4, <1>8, <2>1, <2>4 DEF Reconcile, BeginMount, Idle
  <2> QED BY <2>2, <2>3, <2>4
<1>9. CASE Unmount
  <2>1. UNCHANGED <<shown, phase, caller>> /\ requests' = requests + 1 /\ phase = "idle"
    BY <1>9 DEF Unmount, Request, Idle, stepVars
  <2>2. CASE pending
    BY <1>4, <1>9, <2>1, <2>2 DEF Unmount, RequestUnmount
  <2>3. CASE ~pending
    <3>1. staged' = NoTree /\ queuedElement' = queuedElement
      BY <1>9, <2>3 DEF Unmount, UnmountPass
    <3>2. NoTree.element = 0
      BY DEF NoTree
    <3>3. staged'.element = 0 /\ phase' # "drain" /\ queuedElement' = 0
      BY <1>0, <2>1, <2>3, <3>1, <3>2 DEF Idle
    <3> QED BY <1>4, <2>1, <3>1, <3>3
  <2> QED BY <2>2, <2>3
<1>10. CASE WaitForCommit
  BY <1>1, <1>10 DEF WaitForCommit, heldVars, stepVars, paintVars
<1>11. CASE Native
  BY <1>1, <1>11 DEF Native, Answer, heldVars, stepVars
<1>12. CASE RunFlush
  <2>1. CASE root # 0 /\ ~pending /\ dirty # {}
    BY <1>2, <1>12, <2>1 DEF RunFlush, heldVars, countVars
  <2>2. CASE ~(root # 0 /\ ~pending /\ dirty # {})
    BY <1>1, <1>12, <2>2 DEF RunFlush, heldVars, countVars
  <2> QED BY <2>1, <2>2
<1>13. CASE RunTransition
  BY <1>1, <1>13 DEF RunTransition, stepVars, paintVars, countVars
<1>14. CASE RunResume
  <2>1. CASE verdict = "accepted"
    <3>1. shown' = staged /\ staged' = staged /\ UNCHANGED <<requests, queuedElement>> /\ phase' = "effects"
      BY <1>14, <2>1 DEF RunResume, heldVars, countVars
    <3> QED BY <3>1 DEF Newer
  <2>2. CASE verdict # "accepted"
    BY <1>2, <1>14, <2>2 DEF RunResume, Abort, heldVars, countVars
  <2> QED BY <2>1, <2>2
<1>15. CASE RunWaiter
  BY <1>1, <1>15 DEF RunWaiter, heldVars, stepVars, paintVars, countVars
<1>16. CASE \E setters \in {{}} \cup {{c} : c \in Components} : Drain(setters)
  <2> PICK setters \in {{}} \cup {{c} : c \in Components} : Drain(setters)
    BY <1>16
  <2>1. staged'.element = staged.element /\ UNCHANGED <<requests, queuedElement, shown, phase, caller>>
    BY DEF Drain, heldVars, stepVars, SInv, Slots, Paint
  <2> QED BY <2>1 DEF Newer
<1>17. CASE RenderRaises
  BY <1>2, <1>17 DEF RenderRaises, Abort, heldVars
<1>18. CASE Submit
  BY <1>3, <1>18 DEF Submit, heldVars, countVars
<1>19. CASE EffectsEnd
  BY <1>2, <1>19 DEF EffectsEnd, heldVars, countVars
<1>20. CASE EffectRaises
  BY <1>2, <1>20 DEF EffectRaises, Abort, heldVars
<1>21. CASE HeldUnmount
  <2>1. staged'.element = 0 /\ UNCHANGED <<requests, queuedElement, shown>> /\ phase' = "inputs"
    BY <1>21 DEF HeldUnmount, UnmountPass, NoTree, countVars
  <2> QED BY <2>1 DEF Newer
<1>22. CASE HeldElement
  <2>1. staged'.element = queuedElement /\ queuedElement # 0 /\ queuedElement' = 0 /\ UNCHANGED <<requests, shown>>
    BY <1>22 DEF HeldElement, BeginMount, BeginReconcile, countVars
  <2> QED BY <2>1 DEF Newer
<1>23. CASE HeldNothing
  BY <1>3, <1>23 DEF HeldNothing, paintVars, countVars
<1>24. CASE ReplayInput
  BY <1>1, <1>24 DEF ReplayInput, paintVars, countVars
<1>25. CASE ReplayRaises
  BY <1>3, <1>25 DEF ReplayRaises, heldVars, paintVars
<1>26. CASE ReplayEnd
  BY <1>3, <1>26 DEF ReplayEnd, heldVars, paintVars, countVars
<1>27. CASE \E c \in Components : EffectSets(c)
  BY <1>1, <1>27 DEF EffectSets, heldVars, stepVars, paintVars
<1> QED
  BY <1>5, <1>6, <1>7, <1>8, <1>9, <1>10, <1>11, <1>12, <1>13, <1>14, <1>15, <1>16, <1>17,
     <1>18, <1>19, <1>20, <1>21, <1>22, <1>23, <1>24, <1>25, <1>26, <1>27
     DEF Next, LoopStep, Application

(* Where calls and snapshots are kept, action by action. *)
LEMMA NextPlaces == Places /\ Newer /\ SInv /\ [Next]_vars => Places'
<1> SUFFICES ASSUME Places, Newer, SInv, [Next]_vars PROVE Places'
  OBVIOUS
<1>0. /\ (pending => phase \in {"idle", "inputs"}) /\ caller \in {"loop", "resume"}
      /\ (phase = "requests" => caller = "resume")
  BY DEF SInv, IInv, PendingPhases, Callers
<1>1. ASSUME UNCHANGED <<inputs, replaying, journal, pending, phase, caller>> PROVE Places'
  BY <1>1 DEF Places
<1>2. ASSUME phase = "idle", pending, pending', UNCHANGED <<replaying, phase>> PROVE Places'
  BY <1>2 DEF Places
<1>3. ASSUME phase = "idle", ~pending, UNCHANGED <<inputs, replaying>>,
             DOMAIN journal' # {} => pending' \/ phase' = "drain"
      PROVE  Places'
  BY <1>3 DEF Places
<1>5. CASE UNCHANGED vars
  BY <1>1, <1>5 DEF vars, heldVars, stepVars, passVars
<1>6. CASE \E c \in Components : UserSet(c)
  BY <1>1, <1>2, <1>6 DEF UserSet, Idle, DeferInput, stepVars
<1>7. CASE \E c \in Components : StartTransition(c)
  BY <1>1, <1>2, <1>7 DEF StartTransition, Idle, DeferInput, stepVars
<1>8. CASE Mount
  <2>1. UNCHANGED <<inputs, replaying>> /\ phase = "idle"
    BY <1>8 DEF Mount, Request, Idle
  <2>2. CASE pending
    BY <1>1, <1>8, <2>1, <2>2 DEF Mount
  <2>3. CASE ~pending /\ root # 0
    BY <1>3, <1>8, <2>1, <2>3 DEF Mount, UnmountPass
  <2>4. CASE ~pending /\ root = 0
    BY <1>3, <1>8, <2>1, <2>4 DEF Mount, BeginMount
  <2> QED BY <2>2, <2>3, <2>4
<1>9. CASE Reconcile
  <2>1. UNCHANGED <<inputs, replaying, pending>> /\ phase = "idle"
    BY <1>9 DEF Reconcile, Request, Idle
  <2>2. CASE pending
    BY <1>1, <1>9, <2>1, <2>2 DEF Reconcile
  <2>3. CASE ~pending
    BY <1>3, <1>9, <2>1, <2>3 DEF Reconcile, BeginReconcile, BeginMount
  <2> QED BY <2>2, <2>3
<1>10. CASE Unmount
  <2>1. UNCHANGED <<inputs, replaying, phase, caller>> /\ phase = "idle"
    BY <1>10 DEF Unmount, Request, Idle, stepVars
  <2>2. CASE pending
    BY <1>1, <1>10, <2>1, <2>2 DEF Unmount
  <2>3. CASE ~pending
    BY <1>3, <1>10, <2>1, <2>3 DEF Unmount, UnmountPass
  <2> QED BY <2>2, <2>3
<1>11. CASE WaitForCommit
  BY <1>1, <1>11 DEF WaitForCommit, heldVars, stepVars
<1>12. CASE Native
  BY <1>1, <1>12 DEF Native, Answer, heldVars, stepVars, passVars
<1>13. CASE RunFlush
  <2>1. UNCHANGED <<inputs, replaying, pending>> /\ phase = "idle"
    BY <1>13 DEF RunFlush, heldVars, Idle
  <2>2. CASE root # 0 /\ ~pending /\ dirty # {}
    BY <1>3, <1>13, <2>1, <2>2 DEF RunFlush
  <2>3. CASE ~(root # 0 /\ ~pending /\ dirty # {})
    BY <1>1, <1>13, <2>1, <2>3 DEF RunFlush
  <2> QED BY <2>2, <2>3
<1>14. CASE RunTransition
  BY <1>1, <1>2, <1>14 DEF RunTransition, Idle, DeferInput, stepVars
<1>15. CASE RunResume
  BY <1>0, <1>15 DEF Places, RunResume, Abort, Idle, heldVars
<1>16. CASE RunWaiter
  BY <1>1, <1>16 DEF RunWaiter, heldVars, stepVars
<1>17. CASE \E setters \in {{}} \cup {{c} : c \in Components} : Drain(setters)
  BY <1>17 DEF Places, Drain, heldVars, stepVars
<1>18. CASE RenderRaises
  BY <1>0, <1>18 DEF Places, RenderRaises, Abort, heldVars
<1>19. CASE Submit
  <2>1. phase = "drain" /\ ~pending /\ UNCHANGED <<inputs, replaying>> /\ inputs = <<>>
    BY <1>0, <1>19 DEF Places, Submit, heldVars
  <2>2. CASE staged = shown
    <3>1. caller # "resume"
      BY <2>1, <2>2 DEF Newer
    <3> QED BY <1>19, <2>1, <2>2, <3>1 DEF Places, Submit
  <2>3. CASE staged # shown
    BY <1>19, <2>1, <2>3 DEF Places, Submit
  <2> QED BY <2>2, <2>3
<1>20. CASE EffectsEnd
  BY <1>0, <1>20 DEF Places, EffectsEnd, heldVars
<1>21. CASE EffectRaises
  BY <1>0, <1>21 DEF Places, EffectRaises, Abort, heldVars
<1>22. CASE HeldUnmount
  BY <1>22 DEF Places, HeldUnmount, UnmountPass
<1>23. CASE HeldElement
  BY <1>23 DEF Places, HeldElement, BeginMount, BeginReconcile
<1>24. CASE HeldNothing
  BY <1>0, <1>24 DEF Places, HeldNothing, passVars
<1>25. CASE ReplayInput
  <2>1. phase' = "inputs" /\ UNCHANGED <<journal, pending>> /\ (~pending => inputs' = inputs) /\ phase = "inputs"
    BY <1>25 DEF ReplayInput, DeferInput
  <2> QED BY <2>1 DEF Places
<1>26. CASE ReplayRaises
  BY <1>26 DEF Places, ReplayRaises, passVars, heldVars
<1>27. CASE ReplayEnd
  BY <1>27 DEF Places, ReplayEnd, heldVars
<1>28. CASE \E c \in Components : EffectSets(c)
  BY <1>1, <1>28 DEF EffectSets, heldVars, stepVars
<1> QED
  BY <1>5, <1>6, <1>7, <1>8, <1>9, <1>10, <1>11, <1>12, <1>13, <1>14, <1>15, <1>16, <1>17,
     <1>18, <1>19, <1>20, <1>21, <1>22, <1>23, <1>24, <1>25, <1>26, <1>27, <1>28
     DEF Next, LoopStep, Application

---------------------------------------------------------------------------
(* What the calls look like that a transition or a setter holds. *)
LEMMA Called ==
  ASSUME Typed, NEW kind \in CallKinds, NEW c \in Components, NEW u \in Nat
  PROVE  /\ Call(kind, c, u) \in HeldCall(trees)
         /\ Call(kind, c, u).update = u /\ Call(kind, c, u).of = c /\ Call(kind, c, u).tree = root
         /\ Gives(Call(kind, c, u)) <=> kind \in {"set", "defer"}
BY DEF Typed, Call, HeldCall, Gives

LEMMA CallsOfTransition ==
  ASSUME Typed, Arranged
  PROVE  /\ Replays \in Seq(HeldCall(trees)) /\ Rests \in Seq(HeldCall(trees))
         /\ Replays \o Rests \in Seq(HeldCall(trees))
         /\ \A k \in DOMAIN (Replays \o Rests) : ~Gives((Replays \o Rests)[k])
<1>1. PICK m \in Nat, n \in Nat : /\ DOMAIN triggers = 1..m /\ DOMAIN completions = 1..n
                                  /\ triggers \in [1..m -> Components] /\ completions \in [1..n -> Components]
  BY DEF Arranged
<1>2. \A k \in 1..m : /\ Replays[k] \in HeldCall(trees) /\ ~Gives(Replays[k])
  BY <1>1, Called DEF Replays, CallKinds
<1>3. \A k \in 1..n : /\ Rests[k] \in HeldCall(trees) /\ ~Gives(Rests[k])
  BY <1>1, Called DEF Rests, AllRests, CallKinds
<1>4. DOMAIN Replays = 1..m /\ DOMAIN Rests = 1..n
  BY <1>1 DEF Replays, Rests, AllRests
<1>5. Replays \in [1..m -> HeldCall(trees)] /\ Rests \in [1..n -> HeldCall(trees)]
  BY <1>1, <1>2, <1>3 DEF Replays, Rests, AllRests
<1>6. Replays \in Seq(HeldCall(trees)) /\ Rests \in Seq(HeldCall(trees))
  BY <1>5, SeqDef
<1>7. /\ Replays \o Rests \in Seq(HeldCall(trees)) /\ Len(Replays) = m
      /\ \A k \in DOMAIN (Replays \o Rests) :
           \/ k \in 1..m /\ (Replays \o Rests)[k] = Replays[k]
           \/ k - m \in 1..n /\ (Replays \o Rests)[k] = Rests[k - m]
  <2> HIDE DEF Replays, Rests
  <2> QED BY <1>4, <1>6
<1> QED BY <1>2, <1>3, <1>6, <1>7

(* Where the calls go, as one sequence. *)
LEMMA CallsMove ==
  ASSUME Arranged
  PROVE  /\ UNCHANGED <<inputs, replaying>> => HeldCalls' = HeldCalls
         /\ \A more \in Seq(HeldCall(trees)) :
              replaying = <<>> /\ replaying' = <<>> /\ inputs' = inputs \o more => HeldCalls' = HeldCalls \o more
         /\ replaying = <<>> /\ replaying' = inputs /\ inputs' = <<>> => HeldCalls' = HeldCalls
         /\ replaying # <<>> /\ replaying' = Tail(replaying) /\ inputs' = Append(inputs, Head(replaying))
              => HeldCalls' = HeldCalls
         /\ inputs = <<>> /\ inputs' = <<>> /\ replaying' \in Seq(HeldCall(trees))
              => HeldCalls = replaying /\ HeldCalls' = replaying'
         /\ inputs = <<>> /\ replaying = <<>> => HeldCalls = <<>>
<1>0. inputs \in Seq(HeldCall(trees)) /\ replaying \in Seq(HeldCall(trees))
  BY DEF Arranged
<1>1. UNCHANGED <<inputs, replaying>> => HeldCalls' = HeldCalls
  BY DEF HeldCalls
<1>2. ASSUME NEW more \in Seq(HeldCall(trees)), replaying = <<>>, replaying' = <<>>, inputs' = inputs \o more
      PROVE  HeldCalls' = HeldCalls \o more
  <2>1. inputs \o <<>> = inputs /\ (inputs \o more) \o <<>> = inputs \o more
    BY <1>0
  <2> QED BY <1>2, <2>1 DEF HeldCalls
<1>3. ASSUME replaying = <<>>, replaying' = inputs, inputs' = <<>> PROVE HeldCalls' = HeldCalls
  <2>1. inputs \o <<>> = inputs /\ <<>> \o inputs = inputs
    BY <1>0
  <2> QED BY <1>3, <2>1 DEF HeldCalls
<1>4. ASSUME replaying # <<>>, replaying' = Tail(replaying), inputs' = Append(inputs, Head(replaying))
      PROVE  HeldCalls' = HeldCalls
  <2> DEFINE e == Head(replaying)
             t == Tail(replaying)
  <2>1. e \in HeldCall(trees) /\ t \in Seq(HeldCall(trees)) /\ <<e>> \o t = replaying
    BY <1>0, <1>4
  <2> HIDE DEF e, t
  <2>2. Append(inputs, e) = inputs \o <<e>> /\ <<e>> \in Seq(HeldCall(trees))
    BY <1>0, <2>1, AppendIsConcat
  <2>3. (inputs \o <<e>>) \o t = inputs \o (<<e>> \o t)
    BY <1>0, <2>1, <2>2, ConcatAssociative
  <2> QED BY <1>4, <2>1, <2>2, <2>3 DEF HeldCalls, e, t
<1>5. ASSUME inputs = <<>>, inputs' = <<>>, replaying' \in Seq(HeldCall(trees))
      PROVE  HeldCalls = replaying /\ HeldCalls' = replaying'
  BY <1>0, <1>5 DEF HeldCalls
<1>6. ASSUME inputs = <<>>, replaying = <<>> PROVE HeldCalls = <<>>
  BY <1>6 DEF HeldCalls
<1> QED BY <1>1, <1>2, <1>3, <1>4, <1>5, <1>6

LEMMA NextArranged == Typed /\ Arranged /\ SInv /\ [Next]_vars => Arranged'
<1> SUFFICES ASSUME Typed, Arranged, SInv, [Next]_vars PROVE Arranged'
  OBVIOUS
<1>1. ASSUME UNCHANGED <<inputs, replaying, triggers, completions, trees>>, dirty' \subseteq dirty
      PROVE  Arranged'
  BY <1>1 DEF Arranged
<1>2. ASSUME inputs' \in {inputs, <<>>}, replaying' \in {inputs, replaying, <<>>},
             trees' \in {trees, trees + 1}, dirty' \subseteq dirty,
             UNCHANGED <<triggers, completions>> \/ (triggers' = <<>> /\ completions' = <<>>)
      PROVE  Arranged'
  <2>1. trees \in Nat
    BY DEF Typed
  <2>2. HeldCall(trees) \subseteq HeldCall(trees')
    <3>1. 0..trees \subseteq 0..trees'
      BY <1>2, <2>1
    <3> QED BY <3>1 DEF HeldCall
  <2>3. \A s \in Seq(HeldCall(trees)) : s \in Seq(HeldCall(trees'))
    BY <2>2
  <2>4. <<>> \in Seq(HeldCall(trees')) /\ <<>> \in Seq(Components)
    OBVIOUS
  <2>5. inputs' \in Seq(HeldCall(trees')) /\ replaying' \in Seq(HeldCall(trees'))
    BY <1>2, <2>3, <2>4 DEF Arranged
  <2>6. triggers' \in Seq(Components) /\ completions' \in Seq(Components)
    BY <1>2, <2>4 DEF Arranged
  <2>7. dirty' \subseteq Components
    BY <1>2 DEF Arranged
  <2> QED BY <2>5, <2>6, <2>7 DEF Arranged
<1>4. \A c \in Components : Trigger(c) \in Seq(Components)
  BY DEF Trigger, Arranged
<1>5. CASE UNCHANGED vars
  BY <1>1, <1>5 DEF vars, heldVars, stepVars, laterVars
<1>0. NextUpdate \in Nat
  BY DEF Typed, NextUpdate
<1>6. CASE \E c \in Components : UserSet(c)
  <2> PICK c \in Components : UserSet(c)
    BY <1>6
  <2>1. CASE pending
    <3>1. inputs' = Append(inputs, Call("set", c, NextUpdate))
      BY <2>1 DEF UserSet, DeferInput, Hold
    <3>2. Call("set", c, NextUpdate) \in HeldCall(trees)
      BY <1>0, Called DEF CallKinds
    <3>3. UNCHANGED <<replaying, triggers, completions, trees, dirty>>
      BY <2>1 DEF UserSet, DeferInput, laterVars, stepVars
    <3> QED BY <3>1, <3>2, <3>3 DEF Arranged
  <2>2. CASE ~pending
    <3>1. UNCHANGED <<inputs, replaying, triggers, completions, trees>> /\ dirty' = dirty \cup {c}
      BY <2>2 DEF UserSet, ApplySet, DeferInput, laterVars, stepVars
    <3> QED BY <3>1 DEF Arranged
  <2> QED BY <2>1, <2>2
<1>7. CASE \E c \in Components : StartTransition(c)
  <2> PICK c \in Components : StartTransition(c)
    BY <1>7
  <2>0. completions' \in Seq(Components) /\ trees' = trees /\ replaying' = replaying
    <3>1. completions' = Append(completions, c) /\ trees' = trees /\ replaying' = replaying
      BY DEF StartTransition, stepVars
    <3> QED BY <3>1 DEF Arranged
  <2>1. CASE pending
    <3>1. inputs' = inputs \o <<Call("busy", c, 0), Call("defer", c, NextUpdate)>> /\ UNCHANGED <<dirty, triggers>>
      BY <2>1 DEF StartTransition, DeferInput
    <3>2. Call("busy", c, 0) \in HeldCall(trees) /\ Call("defer", c, NextUpdate) \in HeldCall(trees)
      BY <1>0, Called DEF CallKinds
    <3>3. <<Call("busy", c, 0), Call("defer", c, NextUpdate)>> \in Seq(HeldCall(trees))
      BY <3>2
    <3> QED BY <2>0, <3>1, <3>3 DEF Arranged
  <2>2. CASE ~pending
    <3>1. inputs' = inputs /\ triggers' = Trigger(c) /\ dirty' \subseteq dirty \cup {c}
      BY <2>2 DEF StartTransition, DeferInput
    <3> QED BY <1>4, <2>0, <3>1 DEF Arranged
  <2> QED BY <2>1, <2>2
<1>8. CASE Mount
  <2>1. UNCHANGED <<inputs, replaying>>
    BY <1>8 DEF Mount
  <2>2. CASE pending
    BY <1>1, <1>8, <2>1, <2>2 DEF Mount, laterVars
  <2>3. CASE ~pending /\ root # 0
    BY <1>2, <1>8, <2>1, <2>3 DEF Mount, UnmountPass
  <2>4. CASE ~pending /\ root = 0
    BY <1>2, <1>8, <2>1, <2>4 DEF Mount, BeginMount, laterVars
  <2> QED BY <2>2, <2>3, <2>4
<1>9. CASE Reconcile
  <2>1. UNCHANGED <<inputs, replaying, triggers, completions>> /\ dirty' = dirty /\ trees' \in {trees, trees + 1}
    BY <1>9 DEF Reconcile, BeginReconcile, BeginMount, laterVars
  <2> QED BY <1>2, <2>1
<1>10. CASE Unmount
  <2>1. UNCHANGED <<inputs, replaying, trees>>
    BY <1>10 DEF Unmount, stepVars
  <2>2. CASE pending
    BY <1>1, <1>10, <2>1, <2>2 DEF Unmount, laterVars
  <2>3. CASE ~pending
    BY <1>2, <1>10, <2>1, <2>3 DEF Unmount, UnmountPass
  <2> QED BY <2>2, <2>3
<1>11. CASE WaitForCommit \/ RunWaiter
  BY <1>1, <1>11 DEF WaitForCommit, RunWaiter, heldVars, laterVars, stepVars
<1>12. CASE Native
  BY <1>1, <1>12 DEF Native, Answer, heldVars, laterVars, stepVars
<1>13. CASE RunFlush
  BY <1>1, <1>13 DEF RunFlush, heldVars, laterVars
<1>14. CASE RunTransition
  <2>1. UNCHANGED <<replaying, trees>> /\ triggers' = <<>> /\ completions' = <<>>
    BY <1>14 DEF RunTransition, stepVars
  <2>2. inputs' = inputs \o Replays \o Rests \/ inputs' = inputs
    BY <1>14 DEF RunTransition
  <2>3. inputs' \in Seq(HeldCall(trees))
    <3>1. Replays \in Seq(HeldCall(trees)) /\ Rests \in Seq(HeldCall(trees)) /\ inputs \in Seq(HeldCall(trees))
      BY CallsOfTransition DEF Arranged
    <3>2. (inputs \o Replays) \o Rests \in Seq(HeldCall(trees))
      BY <3>1
    <3> QED BY <2>2, <3>1, <3>2
  <2>4. dirty' \subseteq Components
    <3>1. PICK replayed, rested :
            /\ rested \subseteq ToSet(completions)
            /\ dirty' \subseteq dirty \cup {c \in Components : replayed[c] # value[c]} \cup rested
      BY <1>14 DEF RunTransition
    <3>2. ToSet(completions) \subseteq Components
      BY DEF Arranged, ToSet
    <3> QED BY <3>1, <3>2 DEF Arranged
  <2>5. <<>> \in Seq(Components)
    OBVIOUS
  <2> QED BY <2>1, <2>3, <2>4, <2>5 DEF Arranged
<1>15. CASE RunResume
  BY <1>1, <1>15 DEF RunResume, Abort, heldVars, laterVars
<1>17. CASE \E setters \in {{}} \cup {{c} : c \in Components} : Drain(setters)
  BY <1>1, <1>17 DEF Drain, heldVars, laterVars, stepVars
<1>18. CASE RenderRaises
  <2>1. UNCHANGED <<inputs, triggers, completions, trees>> /\ dirty' = {} /\ replaying' = <<>>
    BY <1>18 DEF RenderRaises, Abort, heldVars, laterVars
  <2> QED BY <1>2, <2>1
<1>19. CASE Submit
  BY <1>1, <1>19 DEF Submit, heldVars, laterVars
<1>20. CASE EffectsEnd
  BY <1>1, <1>20 DEF EffectsEnd, heldVars, laterVars
<1>21. CASE EffectRaises
  BY <1>1, <1>21 DEF EffectRaises, Abort, heldVars, laterVars
<1>22. CASE HeldUnmount
  <2>1. /\ inputs' = <<>> /\ replaying' = inputs /\ trees' = trees /\ dirty' = {}
        /\ triggers' = <<>> /\ completions' = <<>>
    BY <1>22 DEF HeldUnmount, UnmountPass
  <2> QED BY <1>2, <2>1
<1>23. CASE HeldElement
  <2>1. /\ inputs' = <<>> /\ replaying' = inputs /\ trees' \in {trees, trees + 1} /\ dirty' = dirty
        /\ UNCHANGED <<triggers, completions>>
    BY <1>23 DEF HeldElement, BeginMount, BeginReconcile, laterVars
  <2> QED BY <1>2, <2>1
<1>24. CASE HeldNothing
  <2>1. /\ inputs' = <<>> /\ replaying' = inputs /\ trees' = trees /\ dirty' = dirty
        /\ UNCHANGED <<triggers, completions>>
    BY <1>24 DEF HeldNothing, laterVars
  <2> QED BY <1>2, <2>1
<1>25. CASE ReplayInput
  <2> DEFINE e == Head(replaying)
  <2>1. e \in HeldCall(trees) /\ Tail(replaying) \in Seq(HeldCall(trees)) /\ trees' = trees
    BY <1>25 DEF Arranged, ReplayInput
  <2>2. replaying' = Tail(replaying) /\ inputs' \in {inputs, Append(inputs, e)}
    BY <1>25 DEF ReplayInput, Hold
  <2>3. inputs' \in Seq(HeldCall(trees)) /\ replaying' \in Seq(HeldCall(trees))
    <3> HIDE DEF e
    <3>1. inputs \in Seq(HeldCall(trees)) /\ Append(inputs, e) \in Seq(HeldCall(trees))
      BY <2>1 DEF Arranged
    <3> QED BY <2>1, <2>2, <3>1
  <2>4. e.of \in Components
    BY <2>1 DEF HeldCall
  <2>5. completions' = completions /\ triggers' \in Seq(Components) /\ dirty' \subseteq dirty \cup {e.of}
    <3>1. CASE Apply(e)
      <4>1. ASSUME UNCHANGED laterVars PROVE UNCHANGED <<triggers, completions>>
        BY <4>1 DEF laterVars
      <4>2. CASE ApplySet(e.of, e.update)
        BY <4>1, <4>2 DEF ApplySet, Arranged
      <4>3. CASE ApplyDefer(e.of, e.update)
        BY <1>4, <2>4, <4>3 DEF ApplyDefer
      <4>4. CASE ApplyReplay(e.of)
        BY <4>1, <4>4 DEF ApplyReplay, Arranged
      <4>5. CASE ApplyBusy(e.of, e.kind = "busy")
        BY <4>1, <4>5 DEF ApplyBusy, Arranged
      <4> QED BY <3>1, <4>2, <4>3, <4>4, <4>5 DEF Apply
    <3>2. CASE UNCHANGED <<dirty, laterVars>>
      BY <3>2 DEF laterVars, Arranged
    <3> QED BY <1>25, <3>1, <3>2 DEF ReplayInput
  <2> QED BY <2>1, <2>3, <2>4, <2>5 DEF Arranged
<1>26. CASE ReplayRaises
  <2>1. UNCHANGED <<inputs, triggers, completions, trees, dirty>> /\ replaying' = <<>>
    BY <1>26 DEF ReplayRaises, heldVars, laterVars
  <2> QED BY <1>2, <2>1
<1>27. CASE ReplayEnd
  BY <1>1, <1>27 DEF ReplayEnd, heldVars, laterVars
<1>28. CASE \E c \in Components : EffectSets(c)
  <2> PICK c \in Components : EffectSets(c)
    BY <1>28
  <2>1. UNCHANGED <<inputs, replaying, triggers, completions, trees>> /\ dirty' = dirty \cup {c}
    BY DEF EffectSets, ApplySet, heldVars, laterVars, stepVars
  <2> QED BY <2>1 DEF Arranged
<1> QED
  BY <1>5, <1>6, <1>7, <1>8, <1>9, <1>10, <1>11, <1>12, <1>13, <1>14, <1>15, <1>17,
     <1>18, <1>19, <1>20, <1>21, <1>22, <1>23, <1>24, <1>25, <1>26, <1>27, <1>28
     DEF Next, LoopStep, Application

---------------------------------------------------------------------------
(* What the setters, transitions and replays of the model do to the slots. *)
LEMMA SetGives ==
  ASSUME Typed, NEW c \in Components, NEW u \in Nat,
         value' = [value EXCEPT ![c] = Append(@, u)],
         queue' = IF queue[c].open THEN [queue EXCEPT ![c].updates = Append(@, u)] ELSE queue
  PROVE  GivenTo(c, u)
<1>1. value \in [Components -> Seq(Nat)] /\ queue \in [Components -> Queue]
  BY DEF Typed
<1>2. Append(value[c], u) \in Seq(Nat)
  BY <1>1
<1>3. value' \in [Components -> Seq(Nat)] /\ value'[c] = Append(value[c], u)
      /\ \A d \in Components \ {c} : value'[d] = value[d]
  BY <1>1, <1>2
<1>4. queue[c] \in Queue /\ Append(queue[c].updates, u) \in Seq(Nat)
  BY <1>1 DEF Queue
<1>5. AfterSet(queue[c], u) \in Queue
  BY <1>4 DEF AfterSet, Queue
<1>6. queue' = [queue EXCEPT ![c] = AfterSet(queue[c], u)]
  <2>1. CASE queue[c].open
    BY <1>1, <2>1 DEF AfterSet
  <2>2. CASE ~queue[c].open
    BY <1>1, <2>2 DEF AfterSet
  <2> QED BY <2>1, <2>2
<1>7. queue' \in [Components -> Queue] /\ queue'[c] = AfterSet(queue[c], u)
      /\ \A d \in Components \ {c} : queue'[d] = queue[d]
  BY <1>1, <1>5, <1>6
<1> QED BY <1>3, <1>7 DEF GivenTo

LEMMA DeferGives ==
  ASSUME Typed, NEW c \in Components, NEW u \in Nat, value' = value, queue' = Deferred(c, u)
  PROVE  GivenTo(c, u)
<1>1. value \in [Components -> Seq(Nat)] /\ queue \in [Components -> Queue]
  BY DEF Typed
<1>2. AfterDefer(value[c], queue[c], u) \in Queue
  <2>1. queue[c] \in Queue /\ Append(queue[c].updates, u) \in Seq(Nat)
    BY <1>1 DEF Queue
  <2> QED BY <1>1, <2>1 DEF AfterDefer, Queue
<1>3. queue' = [queue EXCEPT ![c] = AfterDefer(value[c], queue[c], u)]
  BY DEF Deferred, AfterDefer
<1>4. queue' \in [Components -> Queue] /\ queue'[c] = AfterDefer(value[c], queue[c], u)
      /\ \A d \in Components \ {c} : queue'[d] = queue[d]
  BY <1>1, <1>2, <1>3
<1> QED BY <1>1, <1>4 DEF GivenTo

LEMMA ReplayMoves ==
  ASSUME Typed, Sound, NEW cs, value' = Replayed(cs),
         queue' = [c \in Components |-> IF c \in cs THEN NoQueue ELSE queue[c]]
  PROVE  /\ value' \in [Components -> Seq(Nat)] /\ queue' \in [Components -> Queue]
         /\ \A c \in Components :
              \/ value'[c] = value[c] /\ queue'[c] = queue[c]
              \/ value'[c] = Seen(value[c], queue[c]) /\ queue'[c] = NoQueue
<1>1. value \in [Components -> Seq(Nat)] /\ queue \in [Components -> Queue] /\ NoQueue \in Queue
  BY DEF Typed, NoQueue, Queue
<1>2. \A c \in Components : Seen(value[c], queue[c]) \in Seq(Nat)
  BY ReplaySlot DEF Sound
<1>3. \A c \in Components : /\ value'[c] = IF c \in cs THEN Seen(value[c], queue[c]) ELSE value[c]
                            /\ queue'[c] = IF c \in cs THEN NoQueue ELSE queue[c]
  BY DEF Replayed, Seen
<1>4. DOMAIN value' = Components /\ DOMAIN queue' = Components
      /\ value' = [c \in DOMAIN value' |-> value'[c]]
  BY DEF Replayed
<1>5. \A c \in Components : value'[c] \in Seq(Nat) /\ queue'[c] \in Queue
  BY <1>1, <1>2, <1>3
<1>6. value' \in [Components -> Seq(Nat)]
  BY <1>4, <1>5
<1>7. queue' \in [Components -> Queue]
  BY <1>1
<1> QED BY <1>3, <1>6, <1>7

LEMMA HoldingBehind ==
  ASSUME Ledger, UNCHANGED <<value, queue, journal, root, trees, errors, rejections>>,
         NEW c \in Components, IssuedStep(c, "user"),
         NEW more \in Seq(HeldCall(trees)), HeldCalls' = HeldCalls \o more,
         NEW l \in DOMAIN more, Gives(more[l]),
         more[l].update = NextUpdate, more[l].of = c, more[l].tree = root,
         \A k \in DOMAIN more : Gives(more[k]) => k = l
  PROVE  Ledger'
<1>0. HeldCalls \in Seq(HeldCall(trees)) /\ Len(HeldCalls) \in Nat
  BY DEF Ledger, Typed
<1>1. /\ HeldCalls' \in Seq(HeldCall(trees)) /\ Extends(HeldCalls', HeldCalls)
      /\ \A k \in DOMAIN HeldCalls' \ DOMAIN HeldCalls :
           k - Len(HeldCalls) \in DOMAIN more /\ HeldCalls'[k] = more[k - Len(HeldCalls)]
           /\ k = Len(HeldCalls) + (k - Len(HeldCalls))
      /\ Len(HeldCalls) + l \in DOMAIN HeldCalls' \ DOMAIN HeldCalls /\ HeldCalls'[Len(HeldCalls) + l] = more[l]
  BY <1>0, Extending
<1> DEFINE g == Len(HeldCalls) + l
<1>2. g \in DOMAIN HeldCalls' \ DOMAIN HeldCalls /\ HeldCalls'[g] = more[l]
  BY <1>1
<1>3. \A k \in DOMAIN HeldCalls' \ DOMAIN HeldCalls : Gives(HeldCalls'[k]) => k = g
  BY <1>1
<1> HIDE DEF g
<1>4. HeldCalls' \in Seq(HeldCall(trees)) /\ Extends(HeldCalls', HeldCalls)
  BY <1>1
<1> QED BY <1>2, <1>3, <1>4, Holding, SMTT(30)

(* The places of the updates, action by action. *)
LEMMA NextLedger == UInv /\ SInv /\ [Next]_vars => Ledger'
<1> SUFFICES ASSUME UInv, SInv, [Next]_vars PROVE Ledger'
  OBVIOUS
<1>0. /\ Ledger /\ Typed /\ Sound /\ InLine(HeldCalls, origin) /\ Arranged /\ Places
      /\ value \in [Components -> Seq(Nat)] /\ queue \in [Components -> Queue]
      /\ HeldCalls \in Seq(HeldCall(trees)) /\ errors \in Nat /\ rejections \in Nat
      /\ NextUpdate \in Nat
  BY DEF UInv, Ledger, Typed, NextUpdate
<1>1. /\ (pending => phase \in {"idle", "inputs"}) /\ caller \in {"loop", "resume"}
      /\ (phase = "requests" => caller = "resume")
  BY DEF SInv, IInv, PendingPhases, Callers
<1>2. phase = "idle" => replaying = <<>>
  BY <1>0 DEF Places
<1>3. phase = "idle" /\ ~pending => HeldCalls = <<>> /\ inputs = <<>> /\ DOMAIN journal = {}
  BY <1>0, CallsMove DEF Places
<1>4. WayStep(HeldCalls, HeldCalls, origin, root)
  BY <1>0, SameWay
<1>5. journal' = journal \/ DOMAIN journal' = {} => JournalStep
  <2>1. DOMAIN journal \subseteq Components
    BY <1>0 DEF Typed
  <2>2. ASSUME journal' = journal PROVE JournalStep
    BY <2>1, <2>2 DEF JournalStep
  <2>3. ASSUME DOMAIN journal' = {} PROVE JournalStep
    BY <2>3 DEF JournalStep
  <2> QED BY <2>2, <2>3
<1>6. ASSUME UNCHANGED <<origin, root, trees, value, queue, inputs, replaying, errors>>,
             rejections' \in Nat, rejections' = 0 => rejections = 0, JournalStep
      PROVE  Ledger'
  <2>1. HeldCalls' = HeldCalls
    BY <1>0, <1>6, CallsMove
  <2> QED BY <1>0, <1>4, <1>6, <2>1, Moving
<1>7. ASSUME UNCHANGED <<origin, inputs, replaying, errors, rejections>>, DOMAIN journal' = {},
             value' = NoTree.value, queue' = [c \in Components |-> NoQueue],
             \/ root' = 0 /\ trees' = trees
             \/ root' = trees + 1 /\ trees' = trees + 1
      PROVE  Ledger'
  <2>1. HeldCalls' = HeldCalls
    BY <1>0, <1>7, CallsMove
  <2>2. value' = [c \in Components |-> <<>>]
    BY <1>7 DEF NoTree
  <2> QED BY <1>0, <1>7, <2>1, <2>2, Beginning
<1>8. ASSUME Abort, UNCHANGED <<origin, trees>>, HeldCalls' = HeldCalls \/ (HeldCalls' = <<>> /\ errors' # 0),
             errors' \in Nat, errors' = 0 => errors = 0 /\ rejections # 0, rejections' = rejections
      PROVE  Ledger'
  <2>1. root' \in {0, root} /\ DOMAIN journal' = {}
    BY <1>8 DEF Abort, RootRestored
  <2> QED BY <1>0, <1>8, <2>1, RollingBack DEF Abort
<1>9. CASE UNCHANGED vars
  BY <1>0, <1>5, <1>6, <1>9 DEF vars, heldVars, stepVars, hookVars, countVars, passVars
<1>10. CASE \E c \in Components : UserSet(c)
  <2> PICK c \in Components : UserSet(c)
    BY <1>10
  <2>1. /\ IssuedStep(c, "user") /\ phase = "idle"
        /\ UNCHANGED <<root, trees, journal, replaying, errors, rejections>>
    BY DEF UserSet, Issue, IssuedStep, Idle, stepVars, countVars
  <2>2. CASE pending
    <3> DEFINE e == Call("set", c, NextUpdate)
               more == <<e>>
    <3>1. inputs' = Append(inputs, e) /\ UNCHANGED <<value, queue>>
      BY <2>2 DEF UserSet, DeferInput, Hold, hookVars
    <3>2. e \in HeldCall(trees) /\ e.update = NextUpdate /\ e.of = c /\ e.tree = root /\ Gives(e)
      BY <1>0, Called DEF CallKinds
    <3> HIDE DEF e
    <3>3. more \in Seq(HeldCall(trees)) /\ DOMAIN more = {1} /\ more[1] = e /\ inputs' = inputs \o more
      BY <1>0, <3>1, <3>2, AppendIsConcat DEF Arranged
    <3>4. HeldCalls' = HeldCalls \o more
      BY <1>0, <1>2, <2>1, <3>3, CallsMove
    <3> HIDE DEF more
    <3> QED BY <1>0, <2>1, <3>1, <3>2, <3>3, <3>4, HoldingBehind
  <2>3. CASE ~pending
    <3>1. ApplySet(c, NextUpdate) /\ inputs' = inputs
      BY <2>3 DEF UserSet, DeferInput
    <3>2. GivenTo(c, NextUpdate)
      BY <1>0, <3>1, SetGives DEF ApplySet
    <3>3. HeldCalls' = HeldCalls /\ HeldCalls = <<>> /\ DOMAIN journal' = {}
      BY <1>0, <1>3, <2>1, <2>3, <3>1, CallsMove
    <3> QED BY <1>0, <1>5, <2>1, <3>2, <3>3, Giving
  <2> QED BY <2>2, <2>3
<1>11. CASE \E c \in Components : StartTransition(c)
  <2> PICK c \in Components : StartTransition(c)
    BY <1>11
  <2>1. /\ IssuedStep(c, "user") /\ phase = "idle"
        /\ UNCHANGED <<root, trees, journal, replaying, errors, rejections>>
    BY DEF StartTransition, Issue, IssuedStep, Idle, stepVars, countVars
  <2>2. CASE pending
    <3> DEFINE b == Call("busy", c, 0)
               e == Call("defer", c, NextUpdate)
               more == <<b, e>>
    <3>1. inputs' = inputs \o more /\ UNCHANGED <<value, queue>>
      BY <2>2 DEF StartTransition, DeferInput, hookVars
    <3>2. /\ b \in HeldCall(trees) /\ ~Gives(b)
          /\ e \in HeldCall(trees) /\ e.update = NextUpdate /\ e.of = c /\ e.tree = root /\ Gives(e)
      BY <1>0, Called DEF CallKinds
    <3> HIDE DEF b, e
    <3>3. more \in Seq(HeldCall(trees)) /\ DOMAIN more = {1, 2} /\ more[1] = b /\ more[2] = e
      BY <3>2
    <3>4. HeldCalls' = HeldCalls \o more
      BY <1>0, <1>2, <2>1, <3>1, <3>3, CallsMove
    <3> HIDE DEF more
    <3>5. 2 \in DOMAIN more /\ \A k \in DOMAIN more : Gives(more[k]) => k = 2
      BY <3>2, <3>3
    <3> QED BY <1>0, <2>1, <3>1, <3>2, <3>3, <3>4, <3>5, HoldingBehind
  <2>3. CASE ~pending
    <3>1. value' = value /\ queue' = Deferred(c, NextUpdate) /\ inputs' = inputs
      BY <2>3 DEF StartTransition, DeferInput
    <3>2. GivenTo(c, NextUpdate)
      BY <1>0, <3>1, DeferGives
    <3>3. HeldCalls' = HeldCalls /\ HeldCalls = <<>> /\ DOMAIN journal' = {}
      BY <1>0, <1>3, <2>1, <2>3, <3>1, CallsMove
    <3> QED BY <1>0, <1>5, <2>1, <3>2, <3>3, Giving
  <2> QED BY <2>2, <2>3
<1>12. CASE Mount
  <2>1. UNCHANGED <<origin, inputs, replaying, errors, rejections>>
    BY <1>12 DEF Mount
  <2>2. CASE pending
    <3>1. UNCHANGED <<root, trees, value, queue, journal>>
      BY <1>12, <2>2 DEF Mount, hookVars
    <3> QED BY <1>0, <1>5, <1>6, <2>1, <3>1
  <2>3. CASE ~pending /\ root # 0
    BY <1>7, <1>12, <2>1, <2>3 DEF Mount, UnmountPass
  <2>4. CASE ~pending /\ root = 0
    BY <1>7, <1>12, <2>1, <2>4 DEF Mount, BeginMount
  <2> QED BY <2>2, <2>3, <2>4
<1>13. CASE Reconcile
  <2>1. UNCHANGED <<origin, inputs, replaying, errors, rejections>>
    BY <1>13 DEF Reconcile
  <2>2. CASE pending
    <3>1. UNCHANGED <<root, trees, value, queue, journal>>
      BY <1>13, <2>2 DEF Reconcile, hookVars
    <3> QED BY <1>0, <1>5, <1>6, <2>1, <3>1
  <2>3. CASE ~pending /\ root # 0
    <3>1. UNCHANGED <<root, trees, value, queue>> /\ journal' = Snapshot(Components)
      BY <1>13, <2>3 DEF Reconcile, BeginReconcile, hookVars
    <3>2. JournalStep
      BY <3>1 DEF JournalStep, Snapshot
    <3> QED BY <1>0, <1>6, <2>1, <3>1, <3>2
  <2>4. CASE ~pending /\ root = 0
    BY <1>7, <1>13, <2>1, <2>4 DEF Reconcile, BeginMount
  <2> QED BY <2>2, <2>3, <2>4
<1>14. CASE Unmount
  <2>1. UNCHANGED <<origin, inputs, replaying, trees, errors, rejections>>
    BY <1>14 DEF Unmount, stepVars
  <2>2. CASE pending
    <3>1. UNCHANGED <<root, value, queue, journal>>
      BY <1>14, <2>2 DEF Unmount, hookVars
    <3> QED BY <1>0, <1>5, <1>6, <2>1, <3>1
  <2>3. CASE ~pending
    BY <1>7, <1>14, <2>1, <2>3 DEF Unmount, UnmountPass
  <2> QED BY <2>2, <2>3
<1>15. CASE WaitForCommit \/ RunWaiter
  <2>1. UNCHANGED <<origin, root, trees, value, queue, inputs, replaying, errors, rejections, journal>>
    BY <1>15 DEF WaitForCommit, RunWaiter, hookVars, heldVars, stepVars, countVars
  <2> QED BY <1>0, <1>5, <1>6, <2>1
<1>16. CASE Native
  <2> PICK how \in {"accepted", "rejected"} : Answer(how)
    BY <1>16 DEF Native
  <2>1. /\ UNCHANGED <<origin, root, trees, value, queue, inputs, replaying, errors, journal>>
        /\ rejections' \in {rejections, rejections + 1}
    BY <1>0 DEF Answer, hookVars, heldVars, stepVars, passVars
  <2> QED BY <1>0, <1>5, <1>6, <2>1
<1>17. CASE RunFlush
  <2>1. UNCHANGED <<origin, root, trees, value, queue, inputs, replaying, errors, rejections>>
        /\ (journal' = journal \/ DOMAIN journal' = {})
    BY <1>17 DEF RunFlush, hookVars, heldVars, countVars
  <2> QED BY <1>0, <1>5, <1>6, <2>1
<1>18. CASE RunTransition
  <2>1. /\ UNCHANGED <<origin, root, trees, replaying, errors, rejections, journal>> /\ phase = "idle"
    BY <1>18 DEF RunTransition, Idle, stepVars, countVars
  <2>2. CASE ~transitionScheduled
    <3>1. UNCHANGED <<value, queue, inputs>>
      BY <1>18, <2>2 DEF RunTransition, hookVars
    <3> QED BY <1>0, <1>5, <1>6, <2>1, <3>1
  <2>3. CASE transitionScheduled /\ pending
    <3> DEFINE more == Replays \o Rests
    <3>1. UNCHANGED <<value, queue>> /\ inputs' = inputs \o Replays \o Rests
      BY <1>18, <2>3 DEF RunTransition, DeferInput, hookVars
    <3>2. /\ more \in Seq(HeldCall(trees)) /\ \A k \in DOMAIN more : ~Gives(more[k])
          /\ Replays \in Seq(HeldCall(trees)) /\ Rests \in Seq(HeldCall(trees))
      BY <1>0, CallsOfTransition
    <3>3. inputs' = inputs \o more
      <4>1. inputs \in Seq(HeldCall(trees))
        BY <1>0 DEF Arranged
      <4> QED BY <3>1, <3>2, <4>1, ConcatAssociative
    <3> HIDE DEF more
    <3>4. HeldCalls' = HeldCalls \o more
      BY <1>0, <1>2, <2>1, <3>2, <3>3, CallsMove
    <3>5. /\ HeldCalls' \in Seq(HeldCall(trees)) /\ Extends(HeldCalls', HeldCalls)
          /\ \A k \in DOMAIN HeldCalls' \ DOMAIN HeldCalls : ~Gives(HeldCalls'[k])
      BY <1>0, <3>2, <3>4, Extending
    <3>6. WayStep(HeldCalls, HeldCalls', origin, root)
      BY <1>0, <3>5, QuietWay
    <3> QED BY <1>0, <1>5, <2>1, <3>1, <3>5, <3>6, Moving
  <2>4. CASE transitionScheduled /\ ~pending
    <3> DEFINE cs == ToSet(triggers)
    <3>1. /\ value' = Replayed(cs) /\ inputs' = inputs
          /\ queue' = [c \in Components |-> IF Contains(triggers, c) THEN NoQueue ELSE queue[c]]
      BY <1>18, <2>4 DEF RunTransition, DeferInput
    <3>2. \A c \in Components : Contains(triggers, c) <=> c \in cs
      <4>1. DOMAIN triggers = 1..Len(triggers)
        BY <1>0 DEF Arranged
      <4> QED BY <4>1 DEF Contains, ToSet
    <3>3. queue' = [c \in Components |-> IF c \in cs THEN NoQueue ELSE queue[c]]
      BY <3>1, <3>2
    <3> HIDE DEF cs
    <3>4. /\ value' \in [Components -> Seq(Nat)] /\ queue' \in [Components -> Queue]
          /\ \A c \in Components :
               \/ value'[c] = value[c] /\ queue'[c] = queue[c]
               \/ value'[c] = Seen(value[c], queue[c]) /\ queue'[c] = NoQueue
      BY <1>0, <3>1, <3>3, ReplayMoves
    <3>5. HeldCalls' = HeldCalls
      BY <1>0, <2>1, <3>1, CallsMove
    <3> QED BY <1>0, <1>4, <1>5, <2>1, <3>4, <3>5, Moving
  <2> QED BY <2>2, <2>3, <2>4
<1>19. CASE RunResume
  <2>1. /\ UNCHANGED <<origin, trees, inputs, replaying, errors, rejections>> /\ verdict # "none"
    <3>1. ready # <<>> /\ Head(ready) = "resume" /\ ready \in Seq(LoopCalls)
      BY <1>19 DEF RunResume, SInv, Counters
    <3>2. 1 \in DOMAIN ready /\ ready[1] = "resume"
      BY <3>1
    <3>3. verdict # "none"
      BY <3>2 DEF SInv, OneAnswer, Answerless
    <3> QED BY <1>19, <3>3 DEF RunResume, heldVars, countVars
  <2>2. CASE verdict = "accepted"
    <3>1. UNCHANGED <<root, value, queue>> /\ DOMAIN journal' = {}
      BY <1>19, <2>2 DEF RunResume, hookVars
    <3> QED BY <1>0, <1>5, <1>6, <2>1, <3>1
  <2>3. CASE verdict # "accepted"
    <3>1. errors = 0 => rejections # 0
      BY <2>1, <2>3 DEF SInv, Passed, Clean
    <3>2. Abort /\ HeldCalls' = HeldCalls
      BY <1>0, <1>19, <2>1, <2>3, CallsMove DEF RunResume
    <3> QED BY <1>0, <1>8, <2>1, <3>1, <3>2
  <2> QED BY <2>2, <2>3
<1>20. CASE \E setters \in {{}} \cup {{c} : c \in Components} : Drain(setters)
  <2> PICK setters \in {{}} \cup {{c} : c \in Components} : Drain(setters)
    BY <1>20
  <2> DEFINE rendered == dirty \ covered
  <2>1. /\ UNCHANGED <<root, trees, inputs, replaying, errors, rejections>> /\ setters \subseteq rendered
        /\ journal' = [c \in DOMAIN journal \cup rendered |->
                         IF c \in DOMAIN journal THEN journal[c] ELSE Snapshot(rendered)[c]]
    BY DEF Drain, stepVars, heldVars
  <2>2. rendered \subseteq Components
    BY <1>0 DEF Arranged
  <2>3. JournalStep
    <3>1. \A c \in rendered : Snapshot(rendered)[c].value = value[c] /\ Snapshot(rendered)[c].queue = queue[c]
      BY DEF Snapshot
    <3> HIDE DEF rendered
    <3> QED BY <1>0, <2>1, <2>2, <3>1 DEF JournalStep, Typed
  <2>4. CASE setters = {}
    <3>1. UNCHANGED <<value, queue, origin>>
      BY <2>4 DEF Drain
    <3> QED BY <1>0, <1>6, <2>1, <2>3, <3>1
  <2>5. CASE setters # {}
    <3>1. PICK c \in setters :
            /\ Issue(c, "render")
            /\ value' = [value EXCEPT ![c] = Append(@, NextUpdate)]
            /\ queue' = IF queue[c].open
                          THEN [queue EXCEPT ![c].updates = Append(@, NextUpdate)]
                          ELSE queue
      BY <2>5 DEF Drain
    <3>2. c \in Components /\ IssuedStep(c, "render")
      BY <2>1, <2>2, <3>1 DEF Issue, IssuedStep
    <3>3. GivenTo(c, NextUpdate)
      BY <1>0, <3>1, <3>2, SetGives
    <3>4. HeldCalls' = HeldCalls
      BY <1>0, <2>1, CallsMove
    <3> QED BY <1>0, <2>1, <2>3, <3>2, <3>3, <3>4, Giving
  <2> QED BY <2>4, <2>5
<1>21. CASE RenderRaises
  <2>1. /\ UNCHANGED <<origin, trees, inputs, rejections>> /\ Abort /\ errors' = errors + 1
        /\ replaying' = <<>> /\ inputs = <<>>
    BY <1>0, <1>1, <1>21 DEF RenderRaises, Places, heldVars
  <2>2. HeldCalls' = <<>>
    <3>1. <<>> \in Seq(HeldCall(trees))
      OBVIOUS
    <3> QED BY <1>0, <2>1, <3>1, CallsMove
  <2>3. errors' \in Nat /\ errors' # 0
    BY <1>0, <2>1
  <2> QED BY <1>8, <2>1, <2>2, <2>3
<1>22. CASE Submit
  <2>1. UNCHANGED <<origin, root, trees, value, queue, inputs, replaying, errors, rejections>>
        /\ (journal' = journal \/ DOMAIN journal' = {})
    BY <1>22 DEF Submit, hookVars, heldVars, countVars
  <2> QED BY <1>0, <1>5, <1>6, <2>1
<1>23. CASE EffectsEnd
  <2>1. UNCHANGED <<origin, root, trees, value, queue, inputs, replaying, errors, rejections, journal>>
    BY <1>23 DEF EffectsEnd, hookVars, heldVars, countVars
  <2> QED BY <1>0, <1>5, <1>6, <2>1
<1>24. CASE EffectRaises
  <2>1. UNCHANGED <<origin, trees, inputs, replaying, rejections>> /\ Abort /\ errors' = errors + 1
    BY <1>24 DEF EffectRaises, heldVars
  <2>2. HeldCalls' = HeldCalls
    BY <1>0, <2>1, CallsMove
  <2>3. errors' \in Nat /\ errors' # 0
    BY <1>0, <2>1
  <2> QED BY <1>8, <2>1, <2>2, <2>3
<1>25. CASE HeldUnmount
  <2>1. /\ UNCHANGED <<origin, trees, errors, rejections>> /\ root' = 0 /\ DOMAIN journal' = {}
        /\ value' = NoTree.value /\ queue' = [c \in Components |-> NoQueue]
        /\ replaying' = inputs /\ inputs' = <<>> /\ replaying = <<>>
    BY <1>0, <1>25 DEF HeldUnmount, UnmountPass, Places, countVars
  <2>2. HeldCalls' = HeldCalls
    BY <1>0, <2>1, CallsMove
  <2>3. value' = [c \in Components |-> <<>>]
    BY <2>1 DEF NoTree
  <2> QED BY <1>0, <2>1, <2>2, <2>3, Beginning
<1>26. CASE HeldElement
  <2>1. /\ UNCHANGED <<origin, errors, rejections>>
        /\ replaying' = inputs /\ inputs' = <<>> /\ replaying = <<>>
    BY <1>0, <1>26 DEF HeldElement, Places, countVars
  <2>2. HeldCalls' = HeldCalls
    BY <1>0, <2>1, CallsMove
  <2>3. CASE root = 0
    <3>1. /\ root' = trees + 1 /\ trees' = trees + 1 /\ DOMAIN journal' = {}
          /\ value' = NoTree.value /\ queue' = [c \in Components |-> NoQueue]
      BY <1>26, <2>3 DEF HeldElement, BeginMount
    <3>2. value' = [c \in Components |-> <<>>]
      BY <3>1 DEF NoTree
    <3> QED BY <1>0, <2>1, <2>2, <3>1, <3>2, Beginning
  <2>4. CASE root # 0
    <3>1. UNCHANGED <<root, trees, value, queue>> /\ journal' = Snapshot(Components)
      BY <1>26, <2>4 DEF HeldElement, BeginReconcile, hookVars
    <3>2. JournalStep
      BY <3>1 DEF JournalStep, Snapshot
    <3> QED BY <1>0, <1>4, <2>1, <2>2, <3>1, <3>2, Moving
  <2> QED BY <2>3, <2>4
<1>27. CASE HeldNothing
  <2>1. /\ UNCHANGED <<origin, root, trees, value, queue, journal, errors, rejections>>
        /\ replaying' = inputs /\ inputs' = <<>> /\ replaying = <<>>
    BY <1>0, <1>27 DEF HeldNothing, Places, hookVars, passVars, countVars
  <2>2. HeldCalls' = HeldCalls
    BY <1>0, <2>1, CallsMove
  <2> QED BY <1>0, <1>4, <1>5, <2>1, <2>2, Moving
<1>28. CASE ReplayInput
  <2> DEFINE e == Head(replaying)
  <2>1. /\ UNCHANGED <<origin, root, trees, journal, errors, rejections>>
        /\ replaying # <<>> /\ replaying' = Tail(replaying) /\ phase = "inputs"
    BY <1>28 DEF ReplayInput, countVars
  <2>2. CASE pending
    <3>1. UNCHANGED <<value, queue>> /\ inputs' = Append(inputs, Head(replaying))
      BY <1>28, <2>2 DEF ReplayInput, DeferInput, Hold, hookVars
    <3>2. HeldCalls' = HeldCalls
      BY <1>0, <2>1, <3>1, CallsMove
    <3> QED BY <1>0, <1>4, <1>5, <2>1, <3>1, <3>2, Moving
  <2>3. CASE ~pending
    <3>1. inputs' = inputs /\ inputs = <<>> /\ DOMAIN journal' = {}
      BY <1>0, <1>28, <2>1, <2>3 DEF ReplayInput, DeferInput, Places
    <3>2. /\ replaying \in Seq(HeldCall(trees)) /\ replaying' \in Seq(HeldCall(trees))
          /\ e \in HeldCall(trees)
      BY <1>0, <2>1 DEF Arranged
    <3>3. HeldCalls = replaying /\ HeldCalls' = Tail(HeldCalls) /\ e = Head(HeldCalls) /\ HeldCalls # <<>>
      BY <1>0, <2>1, <3>1, <3>2, CallsMove
    <3> HIDE DEF e
    <3>4. e.of \in Components /\ e.update \in Nat
      BY <3>2 DEF HeldCall
    <3>5. ASSUME Gives(e) => e.tree # root,
                 value' \in [Components -> Seq(Nat)], queue' \in [Components -> Queue],
                 \A c \in Components :
                   \/ value'[c] = value[c] /\ queue'[c] = queue[c]
                   \/ value'[c] = Seen(value[c], queue[c]) /\ queue'[c] = NoQueue
          PROVE  Ledger'
      <4>1. WayStep(HeldCalls, HeldCalls', origin, root)
        BY <1>0, <3>3, <3>5, ShorterWay
      <4>2. HeldCalls' \in Seq(HeldCall(trees))
        BY <3>2, <3>3, <2>1
      <4> QED BY <1>0, <1>5, <2>1, <3>5, <4>1, <4>2, Moving
    <3>6. CASE e.tree # root
      <4>1. UNCHANGED <<value, queue>>
        BY <1>28, <3>6 DEF ReplayInput, hookVars, e
      <4> QED BY <1>0, <3>5, <3>6, <4>1
    <3>7. CASE e.tree = root
      <4>1. Apply(e)
        BY <1>28, <2>3, <3>7 DEF ReplayInput, DeferInput, e
      <4>2. CASE e.kind = "set" /\ ApplySet(e.of, e.update)
        <5>1. GivenTo(e.of, e.update)
          BY <1>0, <3>4, <4>2, SetGives DEF ApplySet
        <5> QED BY <1>0, <2>1, <3>1, <3>3, <4>2, <5>1, GivingHeld DEF Gives
      <4>3. CASE e.kind = "defer" /\ ApplyDefer(e.of, e.update)
        <5>1. GivenTo(e.of, e.update)
          BY <1>0, <3>4, <4>3, DeferGives DEF ApplyDefer
        <5> QED BY <1>0, <2>1, <3>1, <3>3, <4>3, <5>1, GivingHeld DEF Gives
      <4>4. CASE e.kind = "replay" /\ ApplyReplay(e.of)
        <5> DEFINE cs == {e.of}
        <5>1. value' = Replayed(cs) /\ queue' = [queue EXCEPT ![e.of] = NoQueue]
          BY <4>4 DEF ApplyReplay
        <5>2. queue' = [c \in Components |-> IF c \in cs THEN NoQueue ELSE queue[c]]
          BY <1>0, <3>4, <5>1
        <5> HIDE DEF cs
        <5>3. /\ value' \in [Components -> Seq(Nat)] /\ queue' \in [Components -> Queue]
              /\ \A c \in Components :
                   \/ value'[c] = value[c] /\ queue'[c] = queue[c]
                   \/ value'[c] = Seen(value[c], queue[c]) /\ queue'[c] = NoQueue
          BY <1>0, <5>1, <5>2, ReplayMoves
        <5> QED BY <3>5, <4>4, <5>3 DEF Gives
      <4>5. CASE e.kind \in {"busy", "rest"} /\ ApplyBusy(e.of, e.kind = "busy")
        <5>1. UNCHANGED <<value, queue>>
          BY <4>5 DEF ApplyBusy
        <5> QED BY <1>0, <3>5, <4>5, <5>1 DEF Gives
      <4> QED BY <4>1, <4>2, <4>3, <4>4, <4>5 DEF Apply
    <3> QED BY <3>6, <3>7
  <2> QED BY <2>2, <2>3
<1>29. CASE ReplayRaises
  <2>1. /\ UNCHANGED <<value, queue, journal, root, trees, inputs, rejections>>
        /\ errors' = errors + 1 /\ replaying' = <<>> /\ inputs = <<>>
    BY <1>0, <1>29 DEF ReplayRaises, Places, hookVars, passVars, heldVars
  <2>2. HeldCalls' = <<>>
    <3>1. <<>> \in Seq(HeldCall(trees))
      OBVIOUS
    <3> QED BY <1>0, <2>1, <3>1, CallsMove
  <2>3. PICK u : origin' = [origin EXCEPT ![u].by = "raised"]
    BY <1>29 DEF ReplayRaises
  <2>4. errors' \in Nat \ {0}
    BY <1>0, <2>1
  <2> QED BY <1>0, <2>1, <2>2, <2>3, <2>4, GivingUp
<1>30. CASE ReplayEnd
  <2>1. UNCHANGED <<origin, root, trees, value, queue, inputs, replaying, errors, rejections, journal>>
    BY <1>30 DEF ReplayEnd, hookVars, heldVars, countVars
  <2> QED BY <1>0, <1>5, <1>6, <2>1
<1>31. CASE \E c \in Components : EffectSets(c)
  <2> PICK c \in Components : EffectSets(c)
    BY <1>31
  <2>1. /\ IssuedStep(c, "effect") /\ ApplySet(c, NextUpdate)
        /\ UNCHANGED <<root, trees, journal, inputs, replaying, errors, rejections>>
    BY DEF EffectSets, Issue, IssuedStep, heldVars, stepVars
  <2>2. GivenTo(c, NextUpdate)
    BY <1>0, <2>1, SetGives DEF ApplySet
  <2>3. HeldCalls' = HeldCalls
    BY <1>0, <2>1, CallsMove
  <2>4. DOMAIN journal' = {}
    BY <1>0, <1>1, <2>1 DEF EffectSets, Places
  <2> QED BY <1>0, <1>5, <2>1, <2>2, <2>3, <2>4, Giving
<1> QED
  BY <1>9, <1>10, <1>11, <1>12, <1>13, <1>14, <1>15, <1>16, <1>17, <1>18, <1>19, <1>20,
     <1>21, <1>22, <1>23, <1>24, <1>25, <1>26, <1>27, <1>28, <1>29, <1>30, <1>31
     DEF Next, LoopStep, Application

---------------------------------------------------------------------------
LEMMA InitUInv == Init => UInv
<1> SUFFICES ASSUME Init PROVE UInv
  OBVIOUS
<1>1. /\ trees = 0 /\ root = 0 /\ errors = 0 /\ rejections = 0 /\ origin = <<>> /\ journal = <<>>
      /\ inputs = <<>> /\ replaying = <<>> /\ triggers = <<>> /\ completions = <<>> /\ dirty = {}
      /\ requests = 0 /\ queuedElement = 0 /\ phase = "idle"
      /\ staged = NoTree /\ shown = NoTree /\ NoTree.element = 0
      /\ value = [c \in Components |-> <<>>] /\ queue = [c \in Components |-> NoQueue]
  BY DEF Init, NoTree
<1>2. HeldCalls = <<>>
  BY <1>1 DEF HeldCalls
<1>3. NoQueue \in Queue
  BY DEF NoQueue, Queue
<1>4. Typed
  BY <1>1, <1>2, <1>3 DEF Typed
<1>5. InLine(HeldCalls, origin) /\ AllKept
  BY <1>1, <1>2 DEF InLine, AllKept
<1>6. Sound /\ SoundJournal
  BY <1>1, EmptySlot DEF Sound, SoundJournal
<1>7. Arranged /\ Places /\ Newer
  BY <1>1 DEF Arranged, Places, Newer
<1> QED BY <1>4, <1>5, <1>6, <1>7 DEF UInv, Ledger

(* The places of the updates, their order, and the numbers of the requests *)
(* stay as UInv says, in every behaviour of the reconciler.                 *)
THEOREM UpdatesInvariant == Spec => []UInv
<1>1. Init => UInv
  BY InitUInv
<1>2. UInv /\ SInv /\ [Next]_vars => UInv'
  BY NextLedger, NextArranged, NextPlaces, NextNewer DEF UInv, Ledger
<1>3. Spec => []SInv
  BY SettledInvariant
<1> QED BY <1>1, <1>2, <1>3, PTL DEF Spec

(* A slot and the calls that are held, as the properties read them. *)
LEMMA Reading ==
  ASSUME UInv, NEW c \in Components
  PROVE  /\ Line(value[c], Logical(c), origin, HeldCalls)
         /\ \A u : Contains(Logical(c), u) <=> Has(Logical(c), u)
         /\ \A i \in HeldFor(c) : i \in DOMAIN HeldCalls /\ Gives(HeldCalls[i])
<1>1. Line(value[c], Logical(c), origin, HeldCalls)
  BY DEF UInv, Ledger, Sound, Slot, Seen, Logical
<1>2. DOMAIN Logical(c) = 1..Len(Logical(c))
  BY <1>1 DEF Line
<1> QED BY <1>1, <1>2 DEF Contains, Has, HeldFor

(* Every update that was given to a setter of the mounted tree is in its    *)
(* slot, deferred behind it or held by a commit in flight, and in one of    *)
(* them only: neither a commit in flight, nor its refusal and the rollback  *)
(* to the journal, nor the replay of deferred work loses it or applies it   *)
(* twice.                                                                   *)
THEOREM OnceEach == Spec => []EachUpdateOnce
<1>1. UInv => EachUpdateOnce
  <2> SUFFICES ASSUME UInv PROVE EachUpdateOnce
    OBVIOUS
  <2>0. Typed /\ InLine(HeldCalls, origin) /\ AllKept
    BY DEF UInv, Ledger
  <2>1. ASSUME errors = 0, root # 0, NEW u \in DOMAIN origin, Live(u)
        PROVE  \/ Contains(Logical(origin[u].of), u)
               \/ \E i \in HeldFor(origin[u].of) : HeldCalls[i].update = u
    <3> DEFINE c == origin[u].of
    <3>1. c \in Components /\ Kept(u)
      BY <2>0, <2>1, OriginFacts DEF AllKept
    <3>2. CASE Has(Seen(value[c], queue[c]), u)
      BY <3>1, <3>2, Reading DEF Seen, Logical
    <3>3. CASE Holds(HeldCalls, u)
      <4>1. PICK i \in DOMAIN HeldCalls : Gives(HeldCalls[i]) /\ HeldCalls[i].update = u
        BY <3>3 DEF Holds
      <4>2. origin[u] = [of |-> HeldCalls[i].of, tree |-> HeldCalls[i].tree, by |-> "user"]
        BY <2>0, <4>1 DEF InLine
      <4>3. HeldCalls[i].of = c /\ HeldCalls[i].tree = root
        BY <2>1, <4>2 DEF Live
      <4> QED BY <4>1, <4>3 DEF HeldFor
    <3> QED BY <3>1, <3>2, <3>3 DEF Kept
  <2>2. ASSUME NEW c \in Components
        PROVE  /\ IsInjective(value[c]) /\ IsInjective(Logical(c))
               /\ \A i \in HeldFor(c) : ~Contains(Logical(c), HeldCalls[i].update)
               /\ \A i, j \in HeldFor(c) : HeldCalls[i].update = HeldCalls[j].update => i = j
    <3> DEFINE s == Logical(c)
    <3>1. Line(value[c], s, origin, HeldCalls)
      BY Reading
    <3>2. IsInjective(value[c]) /\ IsInjective(s)
      BY <3>1 DEF Line, Once, IsInjective
    <3>3. ASSUME NEW i \in HeldFor(c), Has(s, HeldCalls[i].update) PROVE FALSE
      <4> DEFINE u == HeldCalls[i].update
      <4>1. PICK j \in DOMAIN s : s[j] = u
        BY <3>3 DEF Has
      <4>0. i \in DOMAIN HeldCalls /\ Gives(HeldCalls[i])
        BY Reading
      <4>2. i \in DOMAIN HeldCalls /\ Gives(HeldCalls[i]) /\ origin[u].by = "user"
        <5>1. origin[u] = [of |-> HeldCalls[i].of, tree |-> HeldCalls[i].tree, by |-> "user"]
          BY <2>0, <4>0 DEF InLine
        <5> QED BY <4>0, <5>1
      <4>3. s[j] < u /\ s[j] \in Nat
        BY <3>1, <4>1, <4>2 DEF Line, FromUser
      <4> QED BY <4>1, <4>3
    <3>4. ASSUME NEW i \in HeldFor(c), NEW j \in HeldFor(c), HeldCalls[i].update = HeldCalls[j].update
          PROVE  i = j
      <4>0. /\ i \in DOMAIN HeldCalls /\ Gives(HeldCalls[i])
            /\ j \in DOMAIN HeldCalls /\ Gives(HeldCalls[j])
        BY Reading
      <4>1. /\ i \in DOMAIN HeldCalls /\ Gives(HeldCalls[i]) /\ i \in Nat
            /\ j \in DOMAIN HeldCalls /\ Gives(HeldCalls[j]) /\ j \in Nat
            /\ HeldCalls[i].update \in Nat
        <5>1. HeldCalls \in Seq(HeldCall(trees))
          BY <2>0 DEF Typed
        <5>2. i \in Nat /\ j \in Nat /\ HeldCalls[i] \in HeldCall(trees)
          BY <4>0, <5>1
        <5> QED BY <4>0, <5>2 DEF HeldCall
      <4> QED BY <2>0, <3>4, <4>1 DEF InLine
    <3> QED BY <3>2, <3>3, <3>4, Reading
  <2> QED BY <2>1, <2>2 DEF EachUpdateOnce
<1> QED BY <1>1, UpdatesInvariant, PTL

(* Callbacks and transitions that give updates to one setter have them      *)
(* applied in the order of their calls, urgent, deferred or held.           *)
THEOREM InUserOrder == Spec => []UserOrder
<1>1. UInv => UserOrder
  <2> SUFFICES ASSUME UInv, NEW c \in Components
               PROVE  LET slot == Logical(c)
                      IN  /\ \A i, j \in DOMAIN slot :
                               i < j /\ ByUser(slot[i]) /\ ByUser(slot[j]) => slot[i] < slot[j]
                          /\ \A i \in DOMAIN slot, j \in HeldFor(c) :
                               ByUser(slot[i]) => slot[i] < HeldCalls[j].update
                          /\ \A i, j \in HeldFor(c) : i < j => HeldCalls[i].update < HeldCalls[j].update
    BY DEF UserOrder
  <2>1. Line(value[c], Logical(c), origin, HeldCalls) /\ InLine(HeldCalls, origin)
    BY Reading DEF UInv, Ledger
  <2>2. \A i \in HeldFor(c) : i \in DOMAIN HeldCalls /\ Gives(HeldCalls[i])
    BY Reading
  <2> QED BY <2>1, <2>2 DEF Line, InLine, FromUser, ByUser
<1> QED BY <1>1, UpdatesInvariant, PTL
=============================================================================
