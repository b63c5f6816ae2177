---------------------------- MODULE NativeStack ----------------------------
(* A root stack navigator on iOS: NavigatorCore and _StackNavigatorImpl       *)
(* (navigation/*.py) on the application loop, the native ScreenStack          *)
(* (PNScreenStackManager.swift) on the UI thread.                             *)
(*                                                                            *)
(* Three stacks have to agree: the state navigation calls act on, the state   *)
(* slot the navigator renders from, and UIKit's view controllers, which a     *)
(* swipe changes before Python is asked.  A route is its key and its screen;  *)
(* a route key stands for the tag of its Screen view as well.                 *)
EXTENDS Naturals, Sequences

CONSTANTS
    Screens,         \* names of the navigator's screens
    Initial,         \* the screen shown first
    Resets,          \* what the application may reset the stack to
    MaxRoutes,       \* bound: routes made, the first one included
    MaxCalls,        \* bound: navigation calls outside effects
    MaxEffectCalls,  \* bound: navigation calls of effects
    MaxListens,      \* bound: before_remove listeners added or removed
    MaxReroutes,     \* bound: calls whose before_remove listener navigates itself
    MaxBacks         \* bound: swipes and taps on the back button

ASSUME InitialAssumption == Initial \in Screens
ASSUME ResetsAssumption == Resets \subseteq Seq(Screens) \ {<<>>}
ASSUME BoundsAssumption ==
    /\ MaxRoutes \in Nat /\ MaxCalls \in Nat /\ MaxEffectCalls \in Nat
    /\ MaxListens \in Nat /\ MaxReroutes \in Nat /\ MaxBacks \in Nat

VARIABLES
    (* the navigator *)
    state,       \* NavigatorCore.state: the routes, oldest first
    slot,        \* the value of its use_state
    listeners,   \* keys of routes with a before_remove listener
    focused,     \* _use_focus_events: the route that was told it has focus
    nextKey,     \* _route_keys
    (* its reconciler *)
    dirty,       \* the navigator has to render
    phase,       \* "idle", "effects" of a pass without a commit, after which
                 \* it may go on ("again"), "resumed": those after a commit
    held,        \* values set while a commit was in flight
    heldRender,  \* _request_render while a commit was in flight
    commit,      \* "none", "sent", "accepted"
    view,        \* the children of the ScreenStack as rendered last
    (* between loop and UI thread *)
    posted,      \* what the core has posted to the UI thread
    inbox,       \* on_native_back events on their way to the loop
    (* PNLogicalStack and UIKit *)
    order,       \* PNLogicalStack.order
    guards,      \* screens whose mounted props say "guarded"
    controllers, \* navigation.viewControllers
    transition,  \* UIKit's transition: none, its own, or a swipe
    applying, scheduled, restoring,  \* flags of PNLogicalStack
    waiting,     \* synchronize waits for the end of the transition
    swipeable,   \* interactivePopGestureRecognizer.isEnabled
    (* history *)
    asked,       \* the routes that the last step asked before removing them
    overtaken,   \* an effect navigated while an earlier call was held
    reroutes,    \* calls whose before_remove listener navigated itself
    undone,      \* a back changed the state and left it all that is rendered
    calls, effectCalls, listens, backs

coreVars   == <<state, slot, nextKey, dirty, held, overtaken, reroutes>>
loopVars   == <<phase, heldRender, commit, view, focused>>
nativeVars == <<order, guards, controllers, transition, applying, scheduled,
                restoring, waiting, swipeable>>
linkVars   == <<posted, inbox>>
countVars  == <<calls, effectCalls, listens, backs>>
vars == <<coreVars, listeners, loopVars, nativeVars, linkVars, countVars,
          asked, undone>>

Keys(s)   == [i \in DOMAIN s |-> s[i].key]
KeySet(s) == {s[i].key : i \in DOMAIN s}
Upto(s, n)  == SubSeq(s, 1, n)
After(s, n) == SubSeq(s, n + 1, Len(s))
Top(s) == s[Len(s)]

Still == [kind |-> "none", seen |-> <<>>]

Init ==
    /\ state = <<[key |-> 1, name |-> Initial]>> /\ slot = state
    /\ listeners = {} /\ focused = 1 /\ nextKey = 2
    /\ dirty = FALSE /\ phase = "idle" /\ held = <<>> /\ heldRender = FALSE
    /\ commit = "none" /\ view = [order |-> <<1>>, guards |-> {}]
    /\ posted = <<>> /\ inbox = <<>>
    /\ order = <<1>> /\ guards = {} /\ controllers = <<1>> /\ transition = Still
    /\ applying = FALSE /\ scheduled = FALSE /\ restoring = FALSE
    /\ waiting = FALSE /\ swipeable = TRUE
    /\ asked = {} /\ overtaken = FALSE /\ reroutes = 0 /\ undone = FALSE
    /\ calls = 0 /\ effectCalls = 0 /\ listens = 0 /\ backs = 0

----------------------------------------------------------------------------
(* NavigatorCore: every operation ends in _commit, which changes the state at *)
(* once and the slot as soon as no commit is in flight.                       *)
SetState(new) ==
    IF commit = "none"
      THEN /\ slot' = new /\ dirty' = (dirty \/ new # slot)
           /\ overtaken' = (overtaken \/ held # <<>>)
           /\ UNCHANGED held
      ELSE held' = Append(held, new) /\ UNCHANGED <<slot, dirty, overtaken>>
Commit(new) ==
    /\ state' = new
    /\ nextKey' = (IF Top(new).key < nextKey THEN nextKey ELSE Top(new).key + 1)
    /\ IF new = state THEN UNCHANGED <<slot, dirty, held, overtaken>>
                      ELSE SetState(new)

Fresh(n) == nextKey + n - 1 <= MaxRoutes
Route(name, i) == [key |-> nextKey + i - 1, name |-> name]
Absent(s, name)  == \A i \in DOMAIN s : s[i].name # name
Find(s, name, i) == /\ s[i].name = name
                    /\ \A j \in (i + 1)..Len(s) : s[j].name # name

(* _removal_allowed: the listeners of the routes are asked, and any may veto. *)
(* One may navigate itself before it answers: it pushes a screen or pops one. *)
(* The call then goes on from the stack that the listener left (onto), or     *)
(* ends there with a veto.  The stack in between is not kept: nothing reads   *)
(* it, and a setter's value replaces the one before.                          *)
Pushed == {Append(state, Route(n, 1)) : n \in {m \in Screens : Fresh(1)}}
Popped == {Upto(state, i) : i \in {Len(state) - 1} \ {0}}
Leave(routes, new, onto) ==
    \/ /\ asked' = KeySet(routes) /\ Commit(new) /\ UNCHANGED reroutes
    \/ /\ KeySet(routes) \cap listeners # {}
       /\ asked' = {} /\ UNCHANGED coreVars
    \/ /\ KeySet(routes) \cap listeners # {} /\ reroutes < MaxReroutes
       /\ \E s \in Pushed \cup Popped \cup onto : Commit(s)
       /\ asked' = KeySet(routes) /\ reroutes' = reroutes + 1

Push(name) ==
    /\ Fresh(1)
    /\ asked' = {} /\ Commit(Append(state, Route(name, 1))) /\ UNCHANGED reroutes
Replaced(s, route) == Append(Upto(s, Len(s) - 1), route)
Replace(name) ==
    /\ Fresh(1)
    /\ Leave(<<Top(state)>>, Replaced(state, Route(name, 1)),
             {Replaced(s, Route(name, 1)) : s \in Popped}
             \cup {Replaced(s, Route(name, 2)) : s \in {x \in Pushed : Fresh(2)}})
(* Mutant of PopBackTo: only the top screen is asked.                         *)
AsksTheTop(i, onto) == Leave(<<Top(state)>>, Upto(state, i), onto)
PopBackTo(i, onto) == Leave(After(state, i), Upto(state, i), onto)
(* A count past the stack pops all but the first route.                       *)
Remaining(s, count) == IF count < Len(s) THEN Len(s) - count ELSE 1
Pop(count) ==
    LET n == Len(state) - Remaining(state, count) IN
    /\ Len(state) > 1
    /\ PopBackTo(Len(state) - n, {Upto(s, Remaining(s, n)) : s \in Pushed \cup Popped})
(* pop_to raises when the screen is gone by then.                             *)
PopToFound(name) ==
    \E i \in 1..(Len(state) - 1) :
        /\ Find(state, name, i)
        /\ PopBackTo(i, UNION {{Upto(s, j) : j \in {k \in 1..Len(s) : Find(s, name, k)}} :
                              s \in Pushed \cup Popped})
Navigate(name) == (Absent(state, name) /\ Push(name)) \/ PopToFound(name)
PopTo(name)    == (Absent(state, name) /\ Replace(name)) \/ PopToFound(name)
Reset(names) ==
    /\ Fresh(Len(names))
    /\ LET new == [i \in DOMAIN names |-> Route(names[i], i)]
       IN  Leave(state, new, {new})

NavigationCall ==
    \/ \E n \in Screens : Push(n) \/ Replace(n) \/ Navigate(n) \/ PopTo(n)
    \/ \E c \in 1..2 : Pop(c)
    \/ \E names \in Resets : Reset(names)

Call ==
    /\ phase = "idle" /\ calls < MaxCalls /\ calls' = calls + 1
    /\ NavigationCall
    /\ UNCHANGED <<listeners, loopVars, nativeVars, linkVars, undone,
                   effectCalls, listens, backs>>
EffectCall ==
    /\ phase \in {"effects", "resumed"} /\ effectCalls < MaxEffectCalls
    /\ effectCalls' = effectCalls + 1
    /\ NavigationCall
    /\ UNCHANGED <<listeners, loopVars, nativeVars, linkVars, undone,
                   calls, listens, backs>>

(* add_listener and the function it returns, for before_remove: the screen    *)
(* gets or loses its guard with the next render.                              *)
Listen(k) ==
    /\ phase # "again" /\ listens < MaxListens
    /\ listens' = listens + 1
    /\ listeners' = IF k \in listeners THEN listeners \ {k} ELSE listeners \cup {k}
    /\ IF commit = "none" THEN dirty' = TRUE /\ UNCHANGED heldRender
                          ELSE heldRender' = TRUE /\ UNCHANGED dirty
    /\ asked' = {}
    /\ UNCHANGED <<state, slot, nextKey, held, overtaken, reroutes, phase, commit, view, focused,
                   nativeVars, linkVars, undone, calls, effectCalls, backs>>

----------------------------------------------------------------------------
(* The pass: the navigator takes the slot for its state and renders a Screen  *)
(* for every route; without a difference there is nothing to commit.          *)
Rendered == [order |-> Keys(slot), guards |-> KeySet(slot) \cap listeners]
TakeSlot == state' = slot
Flush ==
    /\ phase \in {"idle", "again"} /\ commit = "none" /\ dirty
    /\ dirty' = FALSE /\ TakeSlot /\ view' = Rendered
    /\ IF Rendered = view THEN phase' = "effects" /\ UNCHANGED commit
                          ELSE phase' = "idle" /\ commit' = "sent"
    /\ asked' = {}
    /\ UNCHANGED <<slot, nextKey, held, overtaken, reroutes, heldRender, focused, listeners,
                   nativeVars, linkVars, countVars, undone>>

(* The executor hands the commit to the core, which posts it to the UI thread *)
(* and answers; the answer takes the reconciler to the effects of the pass.   *)
CoreAccepts ==
    /\ commit = "sent" /\ commit' = "accepted"
    /\ posted' = Append(posted, [kind |-> "mount", view |-> view])
    /\ asked' = {}
    /\ UNCHANGED <<coreVars, listeners, phase, heldRender, view, focused, nativeVars,
                   inbox, countVars, undone>>
Acknowledged ==
    /\ phase = "idle" /\ commit = "accepted"
    /\ commit' = "none" /\ phase' = "resumed"
    /\ asked' = {}
    /\ UNCHANGED <<coreVars, listeners, heldRender, view, focused, nativeVars,
                   linkVars, countVars, undone>>

(* The effects are done; what was set during the commit is replayed.          *)
(* Mutant of LastHeld: the values held are replayed latest first.             *)
FirstHeld == IF held = <<>> THEN slot ELSE held[1]
LastHeld == IF held = <<>> THEN slot ELSE Top(held)
EffectsEnd ==
    /\ phase \in {"effects", "resumed"}
    /\ slot' = LastHeld /\ held' = <<>> /\ heldRender' = FALSE
    /\ dirty' = (dirty \/ heldRender \/ \E i \in DOMAIN held :
                   held[i] # (IF i = 1 THEN slot ELSE held[i - 1]))
    /\ phase' = (IF phase = "effects" /\ dirty THEN "again" ELSE "idle")
    /\ focused' = Top(view.order)
    /\ asked' = {}
    /\ UNCHANGED <<state, nextKey, overtaken, reroutes, commit, view, listeners, nativeVars,
                   linkVars, countVars, undone>>

(* native_back.  UIKit may have popped already: if no call changed the state, *)
(* the stack is told to go back to it.                                        *)
(* Mutant of Restore: a veto sends nothing.                                   *)
NoRestore == UNCHANGED posted
Restore == posted' = Append(posted, [kind |-> "restore", view |-> view])
Kept == UNCHANGED <<state, reroutes>>
NativeBack ==
    /\ phase = "idle" /\ inbox # <<>>
    /\ inbox' = Tail(inbox)
    /\ \/ Pop(Head(inbox).count)
       \/ Len(state) = 1 /\ asked' = {} /\ UNCHANGED coreVars
    /\ IF Kept THEN Restore ELSE UNCHANGED posted
    /\ undone' = (undone \/ (~Kept /\ \A i \in DOMAIN view.order :
                                       view.order[i] \in KeySet(state')))
    /\ UNCHANGED <<listeners, loopVars, nativeVars, countVars>>

----------------------------------------------------------------------------
(* The UI thread: PNScreenStackManager's insertChild, removeChild and command,*)
(* and PNScreenManager's apply, which reaches the stack only from a screen    *)
(* whose controller UIKit still shows.                                        *)
NativeStep(A) ==
    /\ A /\ asked' = {}
    /\ UNCHANGED <<coreVars, listeners, loopVars, undone, calls, effectCalls, listens>>

Shown == {controllers[i] : i \in DOMAIN controllers}
MountNext == NativeStep(
    LET next == Head(posted)
        changed == (next.view.guards \ guards) \cup (guards \ next.view.guards)
    IN
    /\ posted # <<>> /\ posted' = Tail(posted)
    /\ IF next.kind = "mount"
         THEN /\ order' = next.view.order /\ guards' = next.view.guards
              /\ scheduled' = (scheduled \/ order' # order \/ changed \cap Shown # {})
              /\ UNCHANGED restoring
         ELSE restoring' = TRUE /\ scheduled' = TRUE /\ UNCHANGED <<order, guards>>
    /\ UNCHANGED <<controllers, transition, applying, waiting, swipeable, inbox, backs>>)

(* synchronize: during a transition it waits for its end; otherwise UIKit     *)
(* gets the stack of the screens, with an animation (a transition) or without.*)
Synchronize == NativeStep(
    /\ scheduled /\ scheduled' = FALSE
    /\ IF transition # Still
         THEN waiting' = TRUE
              /\ UNCHANGED <<controllers, transition, applying, restoring, swipeable>>
         ELSE /\ controllers' = order /\ restoring' = FALSE
              /\ swipeable' = (Top(order) \notin guards)
              /\ \/ UNCHANGED <<transition, applying>>
                 \/ /\ order # controllers /\ ~restoring
                    /\ transition' = [kind |-> "own", seen |-> controllers]
                    /\ applying' = TRUE
              /\ UNCHANGED waiting
    /\ UNCHANGED <<order, guards, linkVars, backs>>)

(* UIKit: a swipe, or a tap on the back button of a screen without a guard,   *)
(* takes the top controller off at once.  A swipe may be given up.            *)
Begins ==
    /\ transition = Still /\ Len(controllers) > 1 /\ backs < MaxBacks
    /\ backs' = backs + 1
PopsTop ==
    /\ controllers' = Upto(controllers, Len(controllers) - 1)
    /\ transition' = [kind |-> "swipe", seen |-> controllers]
    /\ UNCHANGED <<order, guards, applying, scheduled, restoring, waiting, swipeable,
                   linkVars>>
SwipeBegins == NativeStep(Begins /\ swipeable /\ PopsTop)
Vetoes == Top(order) \in guards
Back(count, seen, gone) ==
    [count |-> count, gone |-> gone, seen |-> seen, order |-> order]
TapBack == NativeStep(
    /\ Begins
    /\ IF Vetoes
         THEN /\ inbox' = Append(inbox, Back(1, controllers, {Top(controllers)}))
              /\ UNCHANGED <<nativeVars, posted>>
         ELSE PopsTop)

TransitionEnds ==
    /\ transition' = Still
    /\ scheduled' = (scheduled \/ waiting) /\ waiting' = FALSE
    /\ UNCHANGED <<order, guards, restoring, swipeable, posted, backs>>
SwipeCancelled == NativeStep(
    /\ transition.kind = "swipe" /\ TransitionEnds
    /\ controllers' = transition.seen
    /\ UNCHANGED <<applying, inbox>>)

(* didShow: the end of a transition of the stack's own is swallowed; after a  *)
(* pop Python is told how many screens went.                                  *)
(* Mutant of Swallowed: every end of a transition is reported.                *)
NoneSwallowed == FALSE
Swallowed == applying
DidShow == NativeStep(
    LET removed == Len(order) - Len(controllers) IN
    /\ transition # Still /\ TransitionEnds
    /\ applying' = FALSE
    /\ inbox' = IF ~Swallowed /\ Len(order) > Len(controllers)
                  THEN Append(inbox, Back(removed, transition.seen,
                         {transition.seen[i] : i \in DOMAIN transition.seen} \ Shown))
                  ELSE inbox
    /\ UNCHANGED controllers)

----------------------------------------------------------------------------
Next ==
    \/ Call \/ EffectCall \/ \E i \in DOMAIN state : Listen(state[i].key)
    \/ Flush \/ CoreAccepts \/ Acknowledged \/ EffectsEnd \/ NativeBack
    \/ MountNext \/ Synchronize \/ SwipeBegins \/ TapBack \/ SwipeCancelled \/ DidShow

(* The loop, the executor and the UI thread run what is ready; a transition   *)
(* ends.  Nothing is assumed of users and of the application's calls.         *)
Fairness ==
    /\ WF_vars(Flush) /\ WF_vars(CoreAccepts) /\ WF_vars(Acknowledged)
    /\ WF_vars(EffectsEnd) /\ WF_vars(NativeBack)
    /\ WF_vars(MountNext) /\ WF_vars(Synchronize)
    /\ WF_vars(SwipeCancelled \/ DidShow)

Spec == Init /\ [][Next]_vars /\ Fairness

----------------------------------------------------------------------------
(* A route leaves the stack only in a step that asked its before_remove       *)
(* listeners, whatever was held, replayed or popped by UIKit meanwhile        *)
(* (NavigatorCore._removal_allowed against the slot the navigator renders     *)
(* from).  Excepted are navigation by an effect while an earlier call waits   *)
(* for the commit (the replay of the earlier one takes it back), and the call *)
(* whose listener navigates itself: it goes on with a stack it has not asked. *)
AskedBeforeRemoved ==
    [][\A k \in KeySet(state) \ KeySet(state') :
         k \in asked' \/ overtaken \/ reroutes' # reroutes]_vars

(* A native back takes away what the user swept off: no other screen leaves   *)
(* unless the stack changed, in Python or on its way to UIKit, between the    *)
(* gesture and its event (on_native_back has a count and names no route), or  *)
(* a before_remove listener navigates itself; and no event comes without a    *)
(* gesture (didShow of programmatic transitions).                             *)
BackTakesTheSwiped ==
    [][inbox # <<>> /\ inbox' = Tail(inbox) =>
         LET e == Head(inbox)
             gone == KeySet(state) \ KeySet(state')
         IN \/ gone \subseteq e.gone \/ reroutes' # reroutes
            \/ e.gone # {} /\ (Keys(state) # e.seen \/ e.order # e.seen)]_vars

(* When the calls and gestures end, UIKit's controllers are the routes of the *)
(* state and the top one has the focus: a veto or a cancelled swipe is undone *)
(* natively (restore_stack, synchronize), and no swallowed or late didShow    *)
(* leaves them apart.  Excepted are backs that change the state but leave it  *)
(* every route rendered last: they undo a call that was not rendered yet, or  *)
(* their listener pushed.  The state may then be rendered as it was before,   *)
(* nothing is committed, and the stack is not told to go back.                *)
NativeFollows ==
    <>[](undone \/ (controllers = Keys(state) /\ focused = Top(state).key))
=============================================================================
