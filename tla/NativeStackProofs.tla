-------------------------- MODULE NativeStackProofs --------------------------
(* AskedBeforeRemoved and BackTakesTheSwiped for every set of screens and     *)
(* every value of the bounds.                                                 *)
(* The heart of it is that the last value on its way to the state slot is the *)
(* state the handles act on: then what Flush takes over is what it has.       *)
EXTENDS NativeStack, SequenceTheorems, TLAPS

(* A route: its screen is one of the navigator's.                             *)
RouteSet == [key : Nat, name : Screens]

(* A stack: its keys rise, so each route is in it once.                       *)
Rising(s) == \A i, j \in DOMAIN s : i < j => s[i].key < s[j].key
Stacks == {s \in Seq(RouteSet) : s # <<>> /\ Rising(s)}
StackTypes ==
    /\ state \in Stacks /\ slot \in Stacks /\ held \in Seq(Stacks)
    /\ nextKey \in Nat /\ reroutes \in Nat

(* Its routes are made already: the next one has another key.                 *)
Made(s) == Top(s).key < nextKey
StacksMade == Made(state) /\ Made(slot) /\ \A h \in DOMAIN held : Made(held[h])

(* Between the loop and UIKit: keys, and counts of screens that went.         *)
ViewSet == [order : Seq(Nat), guards : SUBSET Nat]
BackSet == [count : Nat \ {0}, gone : SUBSET Nat, seen : Seq(Nat), order : Seq(Nat)]
NativeTypes ==
    /\ view \in ViewSet /\ posted \in Seq([kind : {"mount", "restore"}, view : ViewSet])
    /\ inbox \in Seq(BackSet)
    /\ order \in Seq(Nat) /\ guards \in SUBSET Nat /\ controllers \in Seq(Nat)
    /\ transition \in [kind : {"none", "own", "swipe"}, seen : Seq(Nat)]

(* Values wait only for a commit, or for the effects that follow it.          *)
HeldDuringCommit ==
    /\ commit # "none" => phase = "idle"
    /\ held # <<>> => commit # "none" \/ phase = "resumed"

(* The last value set is the state.                                           *)
LastSet == IF held = <<>> THEN slot ELSE held[Len(held)]
SlotFollows == overtaken \/ LastSet = state

CoreInv == StackTypes /\ StacksMade /\ HeldDuringCommit /\ SlotFollows
IInv == CoreInv /\ NativeTypes

(* The first elements of a sequence.                                          *)
LEMMA UptoIs ==
    ASSUME NEW S, NEW s \in Seq(S), NEW n \in 0..Len(s)
    PROVE  /\ Upto(s, n) \in Seq(S) /\ Len(Upto(s, n)) = n
           /\ \A i \in 1..n : Upto(s, n)[i] = s[i]
<1>1. n \in Int /\ n <= Len(s) /\ Len(s) \in Nat
  OBVIOUS
<1>2. \A i \in 1..n : s[i] \in S
  BY <1>1
<1>3. /\ SubSeq(s, 1, n) \in Seq(S)
      /\ Len(SubSeq(s, 1, n)) = IF 1 <= n THEN n - 1 + 1 ELSE 0
      /\ \A i \in 1..(n - 1 + 1) : SubSeq(s, 1, n)[i] = s[1 + i - 1]
  BY <1>1, <1>2, SubSeqProperties
<1> DEFINE a == SubSeq(s, 1, n)
<1> HIDE DEF a
<1>4. Len(a) = n
  BY <1>1, <1>3 DEF a
<1>5. \A i \in 1..n : a[i] = s[i]
  <2> SUFFICES ASSUME NEW i \in 1..n PROVE a[i] = s[i]
    OBVIOUS
  <2>1. i \in 1..(n - 1 + 1) /\ 1 + i - 1 = i
    BY <1>1
  <2> QED BY <1>3, <2>1 DEF a
<1> QED BY <1>3, <1>4, <1>5 DEF a, Upto

LEMMA StackIs ==
    ASSUME NEW s \in Stacks
    PROVE  /\ s \in Seq(RouteSet) /\ s # <<>> /\ Rising(s)
           /\ Len(s) \in Nat \ {0} /\ DOMAIN s = 1..Len(s) /\ Len(s) \in DOMAIN s
           /\ Top(s) = s[Len(s)] /\ Top(s).key \in Nat
           /\ \A i \in DOMAIN s : s[i] \in RouteSet /\ s[i].key \in Nat
           /\ \A i \in DOMAIN s : s[i].key <= Top(s).key
<1>1. s \in Seq(RouteSet) /\ s # <<>> /\ Rising(s)
  BY DEF Stacks
<1>2. Len(s) \in Nat \ {0} /\ DOMAIN s = 1..Len(s) /\ Len(s) \in DOMAIN s
  BY <1>1
<1>3. Top(s) = s[Len(s)]
  BY DEF Top
<1>4. \A i \in DOMAIN s : s[i] \in RouteSet /\ s[i].key \in Nat
  <2>1. \A i \in DOMAIN s : s[i] \in RouteSet
    BY <1>1, <1>2
  <2> QED BY <2>1 DEF RouteSet
<1>5. ASSUME NEW i \in DOMAIN s PROVE s[i].key <= Top(s).key
  <2>1. CASE i = Len(s)
    BY <1>2, <1>3, <1>4, <2>1
  <2>2. CASE i < Len(s)
    <3>1. s[i].key < s[Len(s)].key
      BY <1>1, <1>2, <2>2 DEF Rising
    <3> QED BY <1>2, <1>3, <1>4, <3>1
  <2> QED BY <1>2, <2>1, <2>2
<1> QED BY <1>1, <1>2, <1>3, <1>4, <1>5

(* A pop: the keys of what it takes away are those of the routes it asks.     *)
LEMMA UptoStack ==
    ASSUME NEW s \in Stacks, NEW n \in 1..Len(s)
    PROVE  /\ Upto(s, n) \in Stacks /\ Top(Upto(s, n)).key <= Top(s).key
           /\ KeySet(s) \subseteq KeySet(Upto(s, n)) \cup KeySet(After(s, n))
<1> DEFINE a == Upto(s, n)  b == After(s, n)
<1>0. /\ s \in Seq(RouteSet) /\ Rising(s) /\ Len(s) \in Nat /\ DOMAIN s = 1..Len(s)
      /\ \A i \in DOMAIN s : s[i].key <= Top(s).key
      /\ \A i \in DOMAIN s : s[i] \in RouteSet
  BY StackIs
<1>1. /\ a \in Seq(RouteSet) /\ DOMAIN a = 1..n /\ Len(a) = n
      /\ \A i \in 1..n : a[i] = s[i]
  <2>1. n \in 0..Len(s)
    BY <1>0
  <2>2. /\ a \in Seq(RouteSet) /\ Len(a) = n /\ \A i \in 1..n : a[i] = s[i]
    BY <1>0, <2>1, UptoIs
  <2> HIDE DEF a
  <2> QED BY <2>2
<1>2. /\ DOMAIN b = 1..(Len(s) - n)
      /\ \A j \in 1..(Len(s) - n) : b[j] = s[j + n]
  <2>1. n \in Nat /\ Len(s) \in Nat /\ n <= Len(s)
    BY <1>0
  <2>2. \A i \in (n + 1)..Len(s) : s[i] \in RouteSet
    BY <1>0, <2>1
  <2>3. /\ b \in Seq(RouteSet)
        /\ Len(b) = (IF n + 1 <= Len(s) THEN Len(s) - (n + 1) + 1 ELSE 0)
        /\ \A j \in 1..(Len(s) - (n + 1) + 1) : b[j] = s[(n + 1) + j - 1]
    BY <2>1, <2>2, SubSeqProperties DEF After
  <2> HIDE DEF b
  <2>4. Len(b) = Len(s) - n
    BY <2>1, <2>3
  <2>5. ASSUME NEW j \in 1..(Len(s) - n) PROVE b[j] = s[j + n]
    <3>1. j \in 1..(Len(s) - (n + 1) + 1) /\ (n + 1) + j - 1 = j + n
      BY <2>1
    <3> QED BY <3>1, <2>3
  <2> QED BY <2>3, <2>4, <2>5
<1> HIDE DEF a, b
<1>3. ASSUME NEW i \in DOMAIN s
      PROVE  s[i].key \in KeySet(a) \cup KeySet(b)
  <2>1. CASE i <= n
    <3>1. i \in DOMAIN a /\ a[i] = s[i]
      BY <1>0, <1>1, <2>1
    <3> QED BY <3>1 DEF KeySet
  <2>2. CASE i > n
    <3>1. i - n \in DOMAIN b /\ b[i - n] = s[i]
      BY <1>0, <1>2, <2>2
    <3> QED BY <3>1 DEF KeySet
  <2> QED BY <1>0, <2>1, <2>2
<1>4. KeySet(s) \subseteq KeySet(a) \cup KeySet(b)
  BY <1>3 DEF KeySet
<1>5. Rising(a)
  BY <1>0, <1>1 DEF Rising
<1>6. a # <<>> /\ Top(a) = s[n]
  BY <1>1 DEF Top
<1> QED BY <1>0, <1>1, <1>4, <1>5, <1>6 DEF a, b, Stacks

(* A route with a later key fits on any stack shortened or not.               *)
LEMMA AppendStack ==
    ASSUME NEW s \in Seq(RouteSet), Rising(s), NEW r \in RouteSet,
           \A i \in DOMAIN s : s[i].key < r.key
    PROVE  /\ Append(s, r) \in Stacks /\ Top(Append(s, r)) = r
           /\ KeySet(s) \subseteq KeySet(Append(s, r))
<1> DEFINE t == Append(s, r)
<1>1. /\ t \in Seq(RouteSet) /\ t # <<>> /\ Len(t) = Len(s) + 1 /\ t[Len(s) + 1] = r
      /\ \A i \in DOMAIN s : i \in DOMAIN t /\ t[i] = s[i]
  <2>1. /\ t \in Seq(RouteSet) /\ Len(t) = Len(s) + 1 /\ t[Len(s) + 1] = r
        /\ \A i \in 1..Len(s) : t[i] = s[i]
    BY AppendProperties
  <2> HIDE DEF t
  <2> QED BY <2>1
<1> HIDE DEF t
<1>2. Top(t) = r
  BY <1>1 DEF Top
<1>3. KeySet(s) \subseteq KeySet(t)
  BY <1>1 DEF KeySet
<1>4. Rising(t)
  <2> SUFFICES ASSUME NEW i \in DOMAIN t, NEW j \in DOMAIN t, i < j
               PROVE  t[i].key < t[j].key
    BY DEF Rising
  <2>1. i \in DOMAIN s /\ (j \in DOMAIN s \/ j = Len(s) + 1)
    BY <1>1
  <2> QED BY <1>1, <2>1 DEF Rising
<1> QED BY <1>1, <1>2, <1>3, <1>4 DEF t, Stacks

LEMMA PushedStack ==
    ASSUME NEW s \in Stacks, NEW r \in RouteSet, Top(s).key < r.key
    PROVE  /\ Append(s, r) \in Stacks /\ Top(Append(s, r)) = r
           /\ KeySet(s) \subseteq KeySet(Append(s, r))
<1>1. s \in Seq(RouteSet) /\ Rising(s)
  BY DEF Stacks
<1>2. ASSUME NEW i \in DOMAIN s PROVE s[i].key < r.key
  BY StackIs DEF RouteSet
<1> QED BY <1>1, <1>2, AppendStack

(* A replaced top route asks for itself.                                      *)
LEMMA ReplacedStack ==
    ASSUME NEW s \in Stacks, NEW r \in RouteSet, Top(s).key < r.key
    PROVE  /\ Replaced(s, r) \in Stacks /\ Top(Replaced(s, r)) = r
           /\ KeySet(s) \subseteq KeySet(Replaced(s, r)) \cup KeySet(<<Top(s)>>)
<1> DEFINE a == Upto(s, Len(s) - 1)
<1>0. /\ s \in Seq(RouteSet) /\ Rising(s) /\ Len(s) \in Nat \ {0} /\ DOMAIN s = 1..Len(s)
      /\ \A i \in DOMAIN s : s[i].key \in Nat /\ s[i].key <= Top(s).key
      /\ Top(s).key \in Nat /\ Top(s) = s[Len(s)] /\ r.key \in Nat
  BY StackIs DEF RouteSet
<1>1. /\ a \in Seq(RouteSet) /\ DOMAIN a = 1..(Len(s) - 1)
      /\ \A i \in 1..(Len(s) - 1) : a[i] = s[i]
  <2>1. Len(s) - 1 \in 0..Len(s)
    BY <1>0
  <2>2. /\ a \in Seq(RouteSet) /\ Len(a) = Len(s) - 1
        /\ \A i \in 1..(Len(s) - 1) : a[i] = s[i]
    BY <1>0, <2>1, UptoIs
  <2> HIDE DEF a
  <2> QED BY <2>2
<1> HIDE DEF a
<1>6. \A i \in DOMAIN a : i \in DOMAIN s /\ a[i] = s[i]
  BY <1>0, <1>1
<1>7. ASSUME NEW i \in DOMAIN a PROVE a[i].key < r.key
  BY <1>0, <1>6
<1>8. Rising(a)
  BY <1>0, <1>6 DEF Rising
<1>2. Rising(a) /\ \A i \in DOMAIN a : a[i].key < r.key
  BY <1>7, <1>8
<1>3. Append(a, r) \in Stacks /\ Top(Append(a, r)) = r
      /\ KeySet(a) \subseteq KeySet(Append(a, r))
  BY <1>1, <1>2, AppendStack
<1>4. ASSUME NEW i \in DOMAIN s
      PROVE  s[i].key \in KeySet(a) \cup KeySet(<<Top(s)>>)
  <2>1. CASE i = Len(s)
    BY <1>0, <2>1 DEF KeySet
  <2>2. CASE i # Len(s)
    <3>1. i \in DOMAIN a /\ a[i] = s[i]
      BY <1>0, <1>1, <2>2
    <3> QED BY <3>1 DEF KeySet
  <2> QED BY <2>1, <2>2
<1>5. KeySet(s) \subseteq KeySet(a) \cup KeySet(<<Top(s)>>)
  BY <1>4 DEF KeySet
<1> QED BY <1>3, <1>5 DEF a, Replaced

(* _commit keeps the invariant, wherever the value goes.                      *)
LEMMA CommitStep ==
    ASSUME CoreInv, NEW new \in Stacks, Commit(new), UNCHANGED <<phase, commit>>,
           reroutes' \in Nat
    PROVE  CoreInv' /\ state' = new
<1>0. /\ state \in Stacks /\ slot \in Stacks /\ held \in Seq(Stacks) /\ nextKey \in Nat
      /\ Made(state) /\ Made(slot) /\ \A h \in DOMAIN held : Made(held[h])
  BY DEF CoreInv, StackTypes, StacksMade
<1>1. Top(new).key \in Nat
  BY StackIs
<1>2. /\ state' = new /\ nextKey' \in Nat /\ nextKey <= nextKey' /\ Top(new).key < nextKey'
  BY <1>0, <1>1 DEF Commit
<1>3. (slot' = slot \/ slot' = new) /\ (held' = held \/ held' = Append(held, new))
  BY DEF Commit, SetState
<1>4. /\ held' \in Seq(Stacks)
      /\ \A h \in DOMAIN held' : held'[h] = new \/ (h \in DOMAIN held /\ held'[h] = held[h])
  <2>1. CASE held' = held
    BY <1>0, <2>1
  <2>2. CASE held' = Append(held, new)
    <3>1. /\ held' \in Seq(Stacks) /\ Len(held') = Len(held) + 1
          /\ \A h \in 1..Len(held) : held'[h] = held[h]
          /\ held'[Len(held) + 1] = new
      BY <1>0, <2>2, AppendProperties
    <3>2. \A h \in DOMAIN held' : h \in 1..Len(held) \/ h = Len(held) + 1
      BY <1>0, <3>1
    <3>3. DOMAIN held = 1..Len(held)
      BY <1>0
    <3> QED BY <3>1, <3>2, <3>3
  <2> QED BY <1>3, <2>1, <2>2
<1>5. StackTypes'
  BY <1>0, <1>2, <1>3, <1>4 DEF StackTypes
<1>6. StacksMade'
  <2>1. ASSUME NEW s \in Stacks, Top(s).key < nextKey PROVE Top(s).key < nextKey'
    BY <1>0, <1>2, <2>1, StackIs
  <2>2. \A h \in DOMAIN held : held[h] \in Stacks
    BY <1>0
  <2>3. Top(state').key < nextKey' /\ Top(slot').key < nextKey'
    BY <1>0, <1>2, <1>3, <2>1 DEF Made
  <2>4. \A h \in DOMAIN held' : Top(held'[h]).key < nextKey'
    BY <1>0, <1>2, <1>4, <2>1, <2>2 DEF Made
  <2> QED BY <2>3, <2>4 DEF StacksMade, Made, Top
<1>7. HeldDuringCommit'
  BY DEF CoreInv, HeldDuringCommit, Commit, SetState
<1>8. SlotFollows'
  <2>1. CASE new = state
    BY <2>1 DEF CoreInv, SlotFollows, LastSet, Commit
  <2>2. CASE new # state /\ commit = "none"
    BY <2>2 DEF CoreInv, SlotFollows, LastSet, Commit, SetState
  <2>3. CASE new # state /\ commit # "none"
    <3>1. held' = Append(held, new)
      BY <2>3 DEF Commit, SetState
    <3>2. held' # <<>> /\ held'[Len(held')] = new
      BY <1>0, <3>1, AppendProperties
    <3> QED BY <3>2 DEF SlotFollows, LastSet, Commit
  <2> QED BY <2>1, <2>2, <2>3
<1> QED BY <1>2, <1>5, <1>6, <1>7, <1>8 DEF CoreInv

(* Steps that touch neither the navigator nor what its loop waits for.        *)
LEMMA Elsewhere ==
    ASSUME CoreInv, UNCHANGED <<coreVars, phase, commit>>
    PROVE  CoreInv' /\ state' = state /\ KeySet(state') = KeySet(state)
BY DEF coreVars, CoreInv, StackTypes, StacksMade, Made, Top, HeldDuringCommit, SlotFollows,
       LastSet, KeySet

(* What the step takes away was asked, unless a listener navigated itself.    *)
Asks == KeySet(state) \ KeySet(state') \subseteq asked' \/ reroutes' # reroutes

(* What a listener may leave are stacks, too.                                 *)
LEMMA ReroutedStacks ==
    ASSUME CoreInv, NEW s \in Pushed \cup Popped
    PROVE  /\ s \in Stacks /\ Top(s).key <= nextKey
           /\ s \in Popped => Top(s).key < nextKey
<1>0. state \in Stacks /\ nextKey \in Nat /\ Top(state).key < nextKey
  BY DEF CoreInv, StackTypes, StacksMade, Made
<1>1. Len(state) \in Nat \ {0} /\ Top(state).key \in Nat
  BY <1>0, StackIs
<1>2. ASSUME s \in Pushed PROVE s \in Stacks /\ Top(s).key = nextKey
  <2>1. PICK n \in Screens : s = Append(state, Route(n, 1))
    BY <1>2 DEF Pushed
  <2>2. Route(n, 1) \in RouteSet /\ Route(n, 1).key = nextKey
    BY <1>0 DEF Route, RouteSet
  <2> QED BY <1>0, <2>1, <2>2, PushedStack
<1>3. ASSUME s \in Popped PROVE s \in Stacks /\ Top(s).key < nextKey
  <2>1. PICK i \in {Len(state) - 1} \ {0} : s = Upto(state, i)
    BY <1>3 DEF Popped
  <2>2. i \in 1..Len(state)
    BY <1>1, <2>1
  <2>3. s \in Stacks /\ Top(s).key <= Top(state).key
    BY <1>0, <2>1, <2>2, UptoStack
  <2> QED BY <1>0, <1>1, <2>3, StackIs
<1>4. s \in Stacks /\ (s \in Pushed => Top(s).key = nextKey)
      /\ (s \in Popped => Top(s).key < nextKey)
  BY <1>2, <1>3
<1> QED BY <1>0, <1>4, StackIs

(* A removal that asks the routes it takes away.                              *)
LEMMA LeaveStep ==
    ASSUME CoreInv, NEW routes, NEW new \in Stacks, NEW onto \in SUBSET Stacks,
           Leave(routes, new, onto), UNCHANGED <<phase, commit>>,
           KeySet(state) \subseteq KeySet(new) \cup KeySet(routes)
    PROVE  CoreInv' /\ Asks /\ (state' \in {state, new} \/ reroutes' # reroutes)
<1>0. reroutes \in Nat
  BY DEF CoreInv, StackTypes
<1>1. CASE asked' = KeySet(routes) /\ Commit(new) /\ UNCHANGED reroutes
  BY <1>0, <1>1, CommitStep DEF Asks
<1>2. CASE UNCHANGED coreVars
  BY <1>2, Elsewhere DEF Asks
<1>3. CASE (\E s \in Pushed \cup Popped \cup onto : Commit(s)) /\ reroutes' = reroutes + 1
  <2>1. PICK s \in Pushed \cup Popped \cup onto : Commit(s)
    BY <1>3
  <2>2. s \in Stacks
    BY <2>1, ReroutedStacks
  <2> QED BY <1>0, <1>3, <2>1, <2>2, CommitStep DEF Asks
<1> QED BY <1>1, <1>2, <1>3 DEF Leave

LEMMA PopStep ==
    ASSUME CoreInv, NEW i \in 1..Len(state), NEW onto \in SUBSET Stacks,
           PopBackTo(i, onto), UNCHANGED <<phase, commit>>
    PROVE  CoreInv' /\ Asks /\ (state' \in {state, Upto(state, i)} \/ reroutes' # reroutes)
<1>1. state \in Stacks
  BY DEF CoreInv, StackTypes
<1>2. Upto(state, i) \in Stacks
      /\ KeySet(state) \subseteq KeySet(Upto(state, i)) \cup KeySet(After(state, i))
  BY <1>1, UptoStack
<1> QED BY <1>2, LeaveStep DEF PopBackTo

LEMMA PopToFoundStep ==
    ASSUME CoreInv, NEW name, PopToFound(name), UNCHANGED <<phase, commit>>
    PROVE  CoreInv' /\ Asks
<1> DEFINE onto == UNION {{Upto(s, j) : j \in {k \in 1..Len(s) : Find(s, name, k)}} :
                          s \in Pushed \cup Popped}
<1>1. PICK i \in 1..(Len(state) - 1) : PopBackTo(i, onto)
  BY DEF PopToFound
<1>2. ASSUME NEW x \in onto PROVE x \in Stacks
  <2>1. PICK s \in Pushed \cup Popped :
           x \in {Upto(s, j) : j \in {k \in 1..Len(s) : Find(s, name, k)}}
    BY <1>2
  <2>2. PICK j \in 1..Len(s) : x = Upto(s, j)
    BY <2>1
  <2> QED BY <2>2, ReroutedStacks, UptoStack
<1> HIDE DEF onto
<1>3. i \in 1..Len(state)
  <2>1. Len(state) \in Nat
    BY StackIs DEF CoreInv, StackTypes
  <2> QED BY <2>1
<1> QED BY <1>1, <1>2, <1>3, PopStep

(* A pop leaves at least the first route, and takes no more than its count.   *)
LEMMA RemainingIs ==
    ASSUME NEW s \in Stacks, NEW c \in Nat \ {0}
    PROVE  /\ Remaining(s, c) \in 1..Len(s) /\ Remaining(s, c) >= Len(s) - c
           /\ Len(s) > 1 => Len(s) - Remaining(s, c) \in Nat \ {0}
<1>1. Len(s) \in Nat \ {0}
  BY StackIs
<1>2. CASE c < Len(s)
  <2>1. Remaining(s, c) = Len(s) - c
    BY <1>2 DEF Remaining
  <2> QED BY <1>1, <1>2, <2>1
<1>3. CASE ~(c < Len(s))
  <2>1. Remaining(s, c) = 1
    BY <1>3 DEF Remaining
  <2> DEFINE n == Len(s)
  <2>2. n \in Nat \ {0} /\ c >= n
    BY <1>1, <1>3
  <2> HIDE DEF n
  <2>3. 1 \in 1..n /\ 1 >= n - c /\ (n > 1 => n - 1 \in Nat \ {0})
    BY <2>2
  <2> QED BY <2>1, <2>3 DEF n
<1> QED BY <1>2, <1>3

LEMMA PopCount ==
    ASSUME CoreInv, NEW c \in Nat \ {0}, Pop(c), UNCHANGED <<phase, commit>>
    PROVE  /\ CoreInv' /\ Asks
           /\ \/ state' = state \/ reroutes' # reroutes
              \/ \E i \in 1..Len(state) : i >= Len(state) - c /\ state' = Upto(state, i)
<1> DEFINE r == Remaining(state, c)
           n == Len(state) - r
           onto == {Upto(s, Remaining(s, n)) : s \in Pushed \cup Popped}
<1>1. state \in Stacks /\ Len(state) \in Nat
  BY StackIs DEF CoreInv, StackTypes
<1>2. PopBackTo(Len(state) - n, onto) /\ Len(state) > 1
  BY DEF Pop
<1>3. r \in 1..Len(state) /\ r >= Len(state) - c /\ n \in Nat \ {0}
  BY <1>1, <1>2, RemainingIs
<1> HIDE DEF r
<1>4. Len(state) - n = r
  BY <1>1, <1>3
<1> HIDE DEF n
<1>5. ASSUME NEW x \in onto PROVE x \in Stacks
  <2>1. PICK s \in Pushed \cup Popped : x = Upto(s, Remaining(s, n))
    BY <1>5
  <2>2. s \in Stacks
    BY <2>1, ReroutedStacks
  <2> QED BY <1>3, <2>1, <2>2, RemainingIs, UptoStack
<1> HIDE DEF onto
<1>6. PopBackTo(r, onto) /\ onto \in SUBSET Stacks
  BY <1>2, <1>4, <1>5
<1> QED BY <1>3, <1>6, PopStep

LEMMA RouteTyped ==
    ASSUME CoreInv, NEW name \in Screens, NEW i \in Nat \ {0}
    PROVE  Route(name, i) \in RouteSet /\ Route(name, i).key = nextKey + i - 1
BY DEF CoreInv, StackTypes, Route, RouteSet

(* No call of the navigation API removes a route it did not ask.              *)
LEMMA CallSteps ==
    ASSUME CoreInv, NavigationCall, UNCHANGED <<phase, commit>>
    PROVE  CoreInv' /\ Asks
<1> DEFINE Goal == CoreInv' /\ Asks
<1>1. /\ state \in Stacks /\ nextKey \in Nat /\ Top(state).key < nextKey /\ reroutes \in Nat
  BY DEF CoreInv, StackTypes, StacksMade, Made
<1>2. ASSUME NEW n \in Screens, Push(n) PROVE Goal
  <2>1. Route(n, 1) \in RouteSet /\ Route(n, 1).key = nextKey
    BY <1>1, RouteTyped
  <2>2. /\ Append(state, Route(n, 1)) \in Stacks
        /\ KeySet(state) \subseteq KeySet(Append(state, Route(n, 1)))
    BY <1>1, <2>1, PushedStack
  <2>3. Commit(Append(state, Route(n, 1))) /\ UNCHANGED reroutes
    BY <1>2 DEF Push
  <2> QED BY <1>1, <2>2, <2>3, CommitStep DEF Asks
<1>3. ASSUME NEW n \in Screens, Replace(n) PROVE Goal
  <2> DEFINE new == Replaced(state, Route(n, 1))
             onto == {Replaced(s, Route(n, 1)) : s \in Popped}
                     \cup {Replaced(s, Route(n, 2)) : s \in {x \in Pushed : Fresh(2)}}
  <2>1. /\ Route(n, 1) \in RouteSet /\ Route(n, 1).key = nextKey
        /\ Route(n, 2) \in RouteSet /\ Route(n, 2).key = nextKey + 1
    BY <1>1, RouteTyped
  <2>2. /\ new \in Stacks
        /\ KeySet(state) \subseteq KeySet(new) \cup KeySet(<<Top(state)>>)
    BY <1>1, <2>1, ReplacedStack
  <2>3. ASSUME NEW s \in Popped PROVE Replaced(s, Route(n, 1)) \in Stacks
    BY <2>1, ReroutedStacks, ReplacedStack
  <2>4. ASSUME NEW s \in Pushed PROVE Replaced(s, Route(n, 2)) \in Stacks
    <3>1. s \in Stacks /\ Top(s).key <= nextKey
      BY ReroutedStacks
    <3>2. Top(s).key < Route(n, 2).key
      BY <1>1, <2>1, <3>1, StackIs
    <3> QED BY <2>1, <3>1, <3>2, ReplacedStack
  <2>5. onto \in SUBSET Stacks
    BY <2>3, <2>4
  <2>6. Leave(<<Top(state)>>, new, onto)
    BY <1>3 DEF Replace
  <2> HIDE DEF new, onto
  <2> QED BY <2>2, <2>5, <2>6, LeaveStep
<1>4. ASSUME NEW n \in Screens, Navigate(n) PROVE Goal
  BY <1>2, <1>4, PopToFoundStep DEF Navigate
<1>5. ASSUME NEW n \in Screens, PopTo(n) PROVE Goal
  BY <1>3, <1>5, PopToFoundStep DEF PopTo
<1>6. ASSUME NEW c \in 1..2, Pop(c) PROVE Goal
  BY <1>6, PopCount
<1>7. ASSUME NEW names \in Resets, Reset(names) PROVE Goal
  <2> DEFINE new == [i \in DOMAIN names |-> Route(names[i], i)]
  <2>1. names \in Seq(Screens) /\ names # <<>>
    BY ResetsAssumption
  <2>2. new \in Stacks
    <3>1. \A i \in 1..Len(names) : Route(names[i], i) \in RouteSet
                                   /\ Route(names[i], i).key = nextKey + i - 1
      BY <2>1, RouteTyped
    <3>2. new \in Seq(RouteSet) /\ new # <<>> /\ DOMAIN new = 1..Len(names)
      BY <2>1, <3>1
    <3>3. \A i \in 1..Len(names) : new[i].key = nextKey + i - 1
      BY <2>1, <3>1
    <3> HIDE DEF new
    <3>4. Rising(new)
      BY <1>1, <2>1, <3>2, <3>3 DEF Rising
    <3> QED BY <3>2, <3>4 DEF Stacks
  <2>3. Leave(state, new, {new})
    BY <1>7 DEF Reset
  <2> HIDE DEF new
  <2> QED BY <2>2, <2>3, LeaveStep
<1> QED BY <1>2, <1>3, <1>4, <1>5, <1>6, <1>7 DEF NavigationCall

(* Every step keeps the core's invariant and asks what it removes, but for    *)
(* what an effect overtook or a listener navigated itself.                    *)
LEMMA CoreSteps ==
    ASSUME IInv, [Next]_vars
    PROVE  /\ CoreInv'
           /\ \A k \in KeySet(state) \ KeySet(state') : k \in asked' \/ overtaken
                                                   \/ reroutes' # reroutes
<1> DEFINE Goal == /\ CoreInv'
                  /\ \A k \in KeySet(state) \ KeySet(state') :
                         k \in asked' \/ overtaken \/ reroutes' # reroutes
<1>0. CoreInv
  BY DEF IInv
<1> USE <1>0
<1>1. CASE Call
  BY <1>1, CallSteps DEF Call, loopVars, Asks
<1>2. CASE EffectCall
  BY <1>2, CallSteps DEF EffectCall, loopVars, Asks
<1>3. ASSUME NEW k, Listen(k) PROVE Goal
  <2>1. UNCHANGED <<state, slot, nextKey, held, overtaken, reroutes, phase, commit>>
    BY <1>3 DEF Listen
  <2> QED BY <2>1 DEF CoreInv, StackTypes, StacksMade, Made, Top, HeldDuringCommit,
                      SlotFollows, LastSet, KeySet
<1>4. CASE Flush
  <2>1. held = <<>>
    BY <1>4 DEF Flush, CoreInv, HeldDuringCommit
  <2>2. state' = slot /\ UNCHANGED <<slot, held, nextKey, overtaken, reroutes>>
    BY <1>4 DEF Flush, TakeSlot
  <2>3. overtaken \/ state' = state
    BY <2>1, <2>2 DEF CoreInv, SlotFollows, LastSet
  <2>4. CoreInv'
    BY <1>4, <2>1, <2>2 DEF Flush, CoreInv, StackTypes, StacksMade, Made, Top,
                                   HeldDuringCommit, SlotFollows, LastSet
  <2> QED BY <2>3, <2>4
<1>5. CASE CoreAccepts
  <2>1. CoreInv' /\ state' = state
    BY <1>5 DEF CoreAccepts, coreVars, CoreInv, StackTypes, StacksMade, Made, Top,
                HeldDuringCommit, SlotFollows, LastSet
  <2> QED BY <2>1
<1>6. CASE Acknowledged
  <2>1. CoreInv' /\ state' = state
    BY <1>6 DEF Acknowledged, coreVars, CoreInv, StackTypes, StacksMade, Made, Top,
                HeldDuringCommit, SlotFollows, LastSet
  <2> QED BY <2>1
<1>7. CASE EffectsEnd
  <2>1. slot' = LastSet /\ held' = <<>> /\ UNCHANGED <<state, nextKey, overtaken, reroutes>>
    BY <1>7 DEF EffectsEnd, LastHeld, LastSet, Top
  <2>2. LastSet \in Stacks /\ Made(LastSet) /\ (overtaken \/ LastSet = state)
    <3>1. CASE held = <<>>
      BY <3>1 DEF LastSet, CoreInv, StackTypes, StacksMade, SlotFollows
    <3>2. CASE held # <<>>
      <4>1. held[Len(held)] \in Stacks /\ Made(held[Len(held)])
        <5>1. held \in Seq(Stacks) /\ \A h \in DOMAIN held : Made(held[h])
          BY DEF CoreInv, StackTypes, StacksMade
        <5>2. Len(held) \in 1..Len(held)
          BY <3>2, <5>1
        <5> QED BY <5>1, <5>2
      <4> QED BY <3>2, <4>1 DEF LastSet, CoreInv, SlotFollows
    <3> QED BY <3>1, <3>2
  <2>3. commit' = commit /\ commit = "none"
    BY <1>7 DEF EffectsEnd, CoreInv, HeldDuringCommit
  <2>4. StackTypes'
    <3>1. held' \in Seq(Stacks)
      BY <2>1
    <3> QED BY <2>1, <2>2, <3>1 DEF CoreInv, StackTypes
  <2>6. StacksMade'
    BY <2>1, <2>2 DEF CoreInv, StacksMade, Made, Top
  <2>5. HeldDuringCommit' /\ SlotFollows'
    BY <2>1, <2>2, <2>3 DEF HeldDuringCommit, SlotFollows, LastSet
  <2> QED BY <2>1, <2>4, <2>5, <2>6 DEF CoreInv
<1>8. CASE NativeBack
  <2>1. UNCHANGED <<phase, commit>>
    BY <1>8 DEF NativeBack, loopVars
  <2>2. CASE Pop(Head(inbox).count)
    <3>1. Head(inbox) \in BackSet
      BY <1>8 DEF NativeBack, IInv, NativeTypes
    <3> QED BY <2>1, <2>2, <3>1, PopCount DEF BackSet, Asks
  <2>3. CASE UNCHANGED coreVars
    BY <2>1, <2>3, Elsewhere
  <2> QED BY <1>8, <2>2, <2>3 DEF NativeBack
<1>9. CASE MountNext \/ Synchronize \/ SwipeBegins \/ TapBack \/ SwipeCancelled \/ DidShow
  <2>1. UNCHANGED <<coreVars, loopVars>>
    BY <1>9 DEF MountNext, Synchronize, SwipeBegins, TapBack, SwipeCancelled, DidShow,
                NativeStep
  <2> QED BY <2>1, Elsewhere DEF loopVars
<1>10. CASE UNCHANGED vars
  BY <1>10, Elsewhere DEF vars, loopVars
<1> QED BY <1>1, <1>2, <1>3, <1>4, <1>5, <1>6, <1>7, <1>8, <1>9, <1>10 DEF Next

(* What travels between the loop and UIKit keeps its type; above all, a back  *)
(* that reaches the loop counts at least one screen.                          *)
LEMMA KeysTyped ==
    ASSUME NEW s \in Stacks
    PROVE  Keys(s) \in Seq(Nat) /\ KeySet(s) \in SUBSET Nat
<1>1. \A i \in 1..Len(s) : s[i].key \in Nat
  <2>1. s \in Seq(RouteSet)
    BY DEF Stacks
  <2>2. \A i \in 1..Len(s) : s[i] \in RouteSet
    BY <2>1
  <2> QED BY <2>2 DEF RouteSet
<1> QED BY <1>1 DEF Keys, KeySet, Stacks

LEMMA Shortened ==
    ASSUME NEW s \in Seq(Nat), Len(s) > 1
    PROVE  Upto(s, Len(s) - 1) \in Seq(Nat) /\ Top(s) \in Nat
<1>1. Len(s) \in Nat /\ Len(s) - 1 \in Nat /\ Len(s) \in 1..Len(s)
  OBVIOUS
<1>2. \A i \in 1..(Len(s) - 1) : s[i] \in Nat
  BY <1>1
<1>3. SubSeq(s, 1, Len(s) - 1) \in Seq(Nat)
  BY <1>1, <1>2, SubSeqProperties
<1>4. s[Len(s)] \in Nat
  BY <1>1
<1> QED BY <1>3, <1>4 DEF Upto, Top

LEMMA AtMostAppended ==
    ASSUME NEW S, NEW s \in Seq(S), NEW e \in S, NEW t, t = s \/ t = Append(s, e)
    PROVE  t \in Seq(S)
BY AppendProperties

LEMMA NativeSteps ==
    ASSUME IInv, [Next]_vars
    PROVE  NativeTypes'
<1> USE DEF IInv, NativeTypes
<1>1. CASE Call \/ EffectCall \/ (\E i \in DOMAIN state : Listen(state[i].key))
           \/ Acknowledged \/ EffectsEnd \/ UNCHANGED vars
  <2>1. UNCHANGED <<view, posted, inbox, order, guards, controllers, transition>>
    BY <1>1 DEF Call, EffectCall, Listen, Acknowledged, EffectsEnd, loopVars, nativeVars,
                linkVars, vars
  <2> QED BY <2>1
<1>2. CASE Flush
  <2>1. Rendered \in ViewSet
    BY KeysTyped DEF Rendered, ViewSet, CoreInv, StackTypes
  <2> QED BY <1>2, <2>1 DEF Flush, nativeVars, linkVars
<1>3. CASE CoreAccepts
  <2>1. [kind |-> "mount", view |-> view] \in [kind : {"mount", "restore"}, view : ViewSet]
    OBVIOUS
  <2> QED BY <1>3, <2>1, AppendProperties DEF CoreAccepts, nativeVars
<1>4. CASE NativeBack
  <2>1. [kind |-> "restore", view |-> view] \in [kind : {"mount", "restore"}, view : ViewSet]
    OBVIOUS
  <2>2. inbox' \in Seq(BackSet)
    BY <1>4, HeadTailProperties DEF NativeBack
  <2>3. posted' = posted \/ posted' = Append(posted, [kind |-> "restore", view |-> view])
    BY <1>4 DEF NativeBack, Restore
  <2>4. posted' \in Seq([kind : {"mount", "restore"}, view : ViewSet])
    <3> DEFINE Posts == [kind : {"mount", "restore"}, view : ViewSet]
    <3>1. posted \in Seq(Posts) /\ [kind |-> "restore", view |-> view] \in Posts
      BY <2>1
    <3> HIDE DEF Posts
    <3>2. posted' \in Seq(Posts)
      BY <2>3, <3>1, AtMostAppended
    <3> QED BY <3>2 DEF Posts
  <2>5. UNCHANGED <<view, order, guards, controllers, transition>>
    BY <1>4 DEF NativeBack, loopVars, nativeVars
  <2> QED BY <2>2, <2>4, <2>5
<1>5. CASE MountNext
  <2> DEFINE Posts == [kind : {"mount", "restore"}, view : ViewSet]
  <2>1. posted # <<>> /\ posted' = Tail(posted) /\ posted \in Seq(Posts)
    BY <1>5 DEF MountNext, NativeStep
  <2> HIDE DEF Posts
  <2>2. posted' \in Seq(Posts) /\ Head(posted) \in Posts
    BY <2>1, HeadTailProperties
  <2> USE DEF Posts
  <2>3. UNCHANGED <<view, inbox, controllers, transition>>
    BY <1>5 DEF MountNext, NativeStep, loopVars
  <2>4. \/ order' = Head(posted).view.order /\ guards' = Head(posted).view.guards
        \/ UNCHANGED <<order, guards>>
    BY <1>5 DEF MountNext, NativeStep
  <2>5. order' \in Seq(Nat) /\ guards' \in SUBSET Nat
    BY <2>2, <2>4 DEF ViewSet
  <2> QED BY <2>2, <2>3, <2>5
<1>6. CASE Synchronize
  <2>1. UNCHANGED <<view, posted, inbox, order, guards>>
    BY <1>6 DEF Synchronize, NativeStep, loopVars, linkVars
  <2>2. /\ controllers' = controllers \/ controllers' = order
        /\ transition' = transition \/ transition' = [kind |-> "own", seen |-> controllers]
    BY <1>6 DEF Synchronize, NativeStep
  <2> QED BY <2>1, <2>2
<1>7. ASSUME Begins, PopsTop, UNCHANGED view PROVE NativeTypes'
  <2>1. Upto(controllers, Len(controllers) - 1) \in Seq(Nat)
    BY <1>7, Shortened DEF Begins
  <2> QED BY <1>7, <2>1 DEF PopsTop, linkVars
<1>8. CASE SwipeBegins
  BY <1>7, <1>8 DEF SwipeBegins, NativeStep, loopVars
<1>9. CASE TapBack
  <2>1. CASE Vetoes
    <3>1. Top(controllers) \in Nat
      BY <1>9, Shortened DEF TapBack, NativeStep, Begins
    <3>2. Back(1, controllers, {Top(controllers)}) \in BackSet
      BY <3>1 DEF Back, BackSet
    <3>3. inbox' = Append(inbox, Back(1, controllers, {Top(controllers)}))
          /\ UNCHANGED <<nativeVars, posted, view>>
      BY <1>9, <2>1 DEF TapBack, NativeStep, loopVars
    <3> QED BY <3>2, <3>3, AppendProperties DEF nativeVars
  <2>2. CASE ~Vetoes
    BY <1>7, <1>9, <2>2 DEF TapBack, NativeStep, loopVars
  <2> QED BY <2>1, <2>2
<1>10. CASE SwipeCancelled
  BY <1>10 DEF SwipeCancelled, NativeStep, TransitionEnds, Still, loopVars
<1>11. CASE DidShow
  <2> DEFINE e == Back(Len(order) - Len(controllers), transition.seen,
                       {transition.seen[i] : i \in DOMAIN transition.seen} \ Shown)
  <2>1. /\ UNCHANGED <<view, posted, order, guards, controllers>>
        /\ transition' = Still
        /\ inbox' = inbox \/ (Len(order) > Len(controllers) /\ inbox' = Append(inbox, e))
    BY <1>11 DEF DidShow, NativeStep, TransitionEnds, loopVars
  <2>2. ASSUME Len(order) > Len(controllers) PROVE e \in BackSet
    <3>1. Len(order) - Len(controllers) \in Nat \ {0}
      <4>1. Len(order) \in Nat /\ Len(controllers) \in Nat
        OBVIOUS
      <4> QED BY <2>2, <4>1
    <3>2. transition.seen \in Seq(Nat)
      OBVIOUS
    <3>3. {transition.seen[i] : i \in DOMAIN transition.seen} \ Shown \in SUBSET Nat
      BY <3>2
    <3> QED BY <3>1, <3>2, <3>3 DEF Back, BackSet
  <2>3. Still \in [kind : {"none", "own", "swipe"}, seen : Seq(Nat)]
    BY DEF Still
  <2> HIDE DEF e
  <2>4. inbox' \in Seq(BackSet)
    <3>1. inbox \in Seq(BackSet)
      OBVIOUS
    <3>2. CASE inbox' = Append(inbox, e) /\ e \in BackSet
      BY <3>1, <3>2, AtMostAppended
    <3> QED BY <2>1, <2>2, <3>1, <3>2
  <2> QED BY <2>1, <2>3, <2>4
<1> QED BY <1>1, <1>2, <1>3, <1>4, <1>5, <1>6, <1>8, <1>9, <1>10, <1>11 DEF Next

(* From the first state on, the last value set is the state.                  *)
THEOREM SlotInvariant == Spec => []IInv
<1>1. Init => IInv
  <2> SUFFICES ASSUME Init PROVE IInv
    OBVIOUS
  <2>1. <<[key |-> 1, name |-> Initial]>> \in Stacks /\ <<>> \in Seq(Stacks)
    BY InitialAssumption DEF Stacks, Rising, RouteSet
  <2>2. CoreInv
    BY <2>1 DEF Init, CoreInv, StackTypes, StacksMade, Made, Top, HeldDuringCommit,
                SlotFollows, LastSet
  <2>3. NativeTypes
    BY DEF Init, NativeTypes, ViewSet, Still
  <2> QED BY <2>2, <2>3 DEF IInv
<1>2. IInv /\ [Next]_vars => IInv'
  BY CoreSteps, NativeSteps DEF IInv
<1> QED BY <1>1, <1>2, PTL DEF Spec

(* No route leaves the stack without its before_remove listeners having been  *)
(* asked, but for what an effect overtook or a listener navigated itself:     *)
(* whatever was held during a commit, replayed after it, swiped or vetoed.    *)
THEOREM RemovalsAsk == Spec => AskedBeforeRemoved
<1>1. IInv /\ [Next]_vars =>
        [\A k \in KeySet(state) \ KeySet(state') :
             k \in asked' \/ overtaken \/ reroutes' # reroutes]_vars
  BY CoreSteps
<1> QED BY <1>1, SlotInvariant, PTL DEF Spec, AskedBeforeRemoved

----------------------------------------------------------------------------
(* BackTakesTheSwiped.  A swipe takes one screen off what UIKit showed, and a *)
(* screen is in a stack once, so the event of a pop names what it counts;     *)
(* only a stack that changed since then makes the count mean other routes.    *)

Distinct(s) == \A i, j \in DOMAIN s : s[i] = s[j] => i = j
ScreenKeys ==
    /\ Distinct(view.order) /\ Distinct(order) /\ Distinct(controllers)
    /\ \A p \in DOMAIN posted : Distinct(posted[p].view.order)
    /\ Distinct(transition.seen)

(* What UIKit shows while a gesture is under way.                             *)
SwipePops ==
    \/ transition = Still
    \/ transition.kind = "own" /\ applying
    \/ /\ Len(transition.seen) > 1
       /\ controllers = Upto(transition.seen, Len(transition.seen) - 1)

(* An event takes something away; what it counts off the stack it saw is what *)
(* it names.                                                                  *)
Names(e) ==
    /\ e.gone # {}
    /\ e.order = e.seen =>
         \A i \in DOMAIN e.seen : i > Len(e.seen) - e.count => e.seen[i] \in e.gone
BacksName == \A i \in DOMAIN inbox : Names(inbox[i])

NavInv == ScreenKeys /\ SwipePops /\ BacksName

(* What is rendered, posted, mounted and shown has a screen once.             *)
LEMMA StackDistinct ==
    ASSUME NEW s \in Stacks, NEW i \in DOMAIN s, NEW j \in DOMAIN s, s[i].key = s[j].key
    PROVE  i = j
<1>1. /\ Rising(s) /\ s[i].key \in Nat /\ s[j].key \in Nat
      /\ DOMAIN s = 1..Len(s) /\ Len(s) \in Nat
  BY StackIs
<1>2. i < j => s[i].key < s[j].key
  BY <1>1 DEF Rising
<1>3. j < i => s[j].key < s[i].key
  BY <1>1 DEF Rising
<1> QED BY <1>1, <1>2, <1>3

LEMMA StackKeys ==
    ASSUME NEW s \in Stacks
    PROVE  Distinct(Keys(s))
BY StackDistinct DEF Distinct, Keys

LEMMA DistinctUpto ==
    ASSUME NEW s \in Seq(Nat), Distinct(s), NEW n \in 0..Len(s)
    PROVE  Distinct(Upto(s, n))
<1> DEFINE a == Upto(s, n)
<1>1. a \in Seq(Nat) /\ Len(a) = n /\ \A i \in 1..n : a[i] = s[i]
  BY UptoIs
<1>2. DOMAIN s = 1..Len(s) /\ DOMAIN a = 1..n /\ Len(s) \in Nat
  BY <1>1
<1> HIDE DEF a
<1>3. Distinct(a)
  BY <1>1, <1>2 DEF Distinct
<1> QED BY <1>3 DEF a

LEMMA ScreenKeysStep ==
    ASSUME IInv, NavInv, [Next]_vars
    PROVE  ScreenKeys'
<1>0. ScreenKeys
  BY DEF NavInv
<1> DEFINE Posts == [kind : {"mount", "restore"}, view : ViewSet]
<1>1. /\ view \in ViewSet /\ posted \in Seq(Posts) /\ controllers \in Seq(Nat)
      /\ transition \in [kind : {"none", "own", "swipe"}, seen : Seq(Nat)]
  BY DEF IInv, NativeTypes
<1> HIDE DEF Posts
<1>2. ASSUME NEW p \in Posts, Distinct(p.view.order),
             posted' = posted \/ posted' = Append(posted, p)
      PROVE  \A q \in DOMAIN posted' : Distinct(posted'[q].view.order)
  <2>1. CASE posted' = posted
    BY <1>0, <2>1 DEF ScreenKeys
  <2>2. CASE posted' = Append(posted, p)
    <3>1. /\ posted' \in Seq(Posts) /\ Len(posted') = Len(posted) + 1
          /\ \A q \in 1..Len(posted) : posted'[q] = posted[q]
          /\ posted'[Len(posted) + 1] = p
      BY <1>1, <2>2, AppendProperties
    <3>2. \A q \in DOMAIN posted' : q \in 1..Len(posted) \/ q = Len(posted) + 1
      BY <1>1, <3>1
    <3>3. DOMAIN posted = 1..Len(posted)
      BY <1>1
    <3> QED BY <1>0, <1>2, <3>1, <3>2, <3>3 DEF ScreenKeys
  <2> QED BY <1>2, <2>1, <2>2
<1>3. CASE Call \/ EffectCall \/ (\E i \in DOMAIN state : Listen(state[i].key))
           \/ Acknowledged \/ EffectsEnd \/ UNCHANGED vars
  <2>1. UNCHANGED <<view, posted, order, controllers, transition>>
    BY <1>3 DEF Call, EffectCall, Listen, Acknowledged, EffectsEnd, loopVars, nativeVars,
                linkVars, vars
  <2> QED BY <1>0, <2>1 DEF ScreenKeys, Distinct
<1>4. CASE Flush
  <2>1. Distinct(Keys(slot))
    BY StackKeys DEF IInv, CoreInv, StackTypes
  <2>2. view'.order = Keys(slot) /\ UNCHANGED <<posted, order, controllers, transition>>
    BY <1>4 DEF Flush, Rendered, nativeVars, linkVars
  <2> QED BY <1>0, <2>1, <2>2 DEF ScreenKeys, Distinct
<1>5. CASE CoreAccepts \/ NativeBack
  <2>1. /\ UNCHANGED <<view, order, controllers, transition>>
        /\ \/ posted' = posted
           \/ posted' = Append(posted, [kind |-> "mount", view |-> view])
           \/ posted' = Append(posted, [kind |-> "restore", view |-> view])
    BY <1>5 DEF CoreAccepts, NativeBack, Restore, nativeVars, loopVars
  <2>2. \A kind \in {"mount", "restore"} : [kind |-> kind, view |-> view] \in Posts
    BY <1>1 DEF Posts
  <2>3. \A q \in DOMAIN posted' : Distinct(posted'[q].view.order)
    BY <1>0, <1>2, <2>1, <2>2 DEF ScreenKeys
  <2> QED BY <1>0, <2>1, <2>3 DEF ScreenKeys, Distinct
<1>6. CASE MountNext
  <2>1. /\ posted # <<>> /\ posted' = Tail(posted)
        /\ UNCHANGED <<view, controllers, transition>>
        /\ order' = order \/ order' = Head(posted).view.order
    BY <1>6 DEF MountNext, NativeStep, loopVars
  <2>2. /\ Tail(posted) \in Seq(Posts) /\ Len(Tail(posted)) = Len(posted) - 1
        /\ \A q \in 1..Len(Tail(posted)) : Tail(posted)[q] = posted[q + 1]
    BY <1>1, <2>1, HeadTailProperties
  <2>3. 1 \in DOMAIN posted /\ Head(posted) = posted[1]
    BY <1>1, <2>1
  <2>4. Distinct(order')
    BY <1>0, <2>1, <2>3 DEF ScreenKeys
  <2>5. \A q \in DOMAIN posted' : q + 1 \in DOMAIN posted /\ posted'[q] = posted[q + 1]
    <3>1. DOMAIN posted' = 1..(Len(posted) - 1) /\ Len(posted) \in Nat
      BY <1>1, <2>1, <2>2
    <3>2. DOMAIN posted = 1..Len(posted)
      BY <1>1
    <3> QED BY <2>1, <2>2, <3>1, <3>2
  <2>6. \A q \in DOMAIN posted' : Distinct(posted'[q].view.order)
    BY <1>0, <2>5 DEF ScreenKeys
  <2> QED BY <1>0, <2>1, <2>4, <2>6 DEF ScreenKeys, Distinct
<1>7. CASE Synchronize
  <2>1. /\ UNCHANGED <<view, posted, order>>
        /\ controllers' = controllers \/ controllers' = order
        /\ transition' = transition \/ transition' = [kind |-> "own", seen |-> controllers]
    BY <1>7 DEF Synchronize, NativeStep, loopVars, linkVars
  <2>2. transition'.seen = transition.seen \/ transition'.seen = controllers
    BY <2>1
  <2> QED BY <1>0, <2>1, <2>2 DEF ScreenKeys, Distinct
<1>8. CASE SwipeBegins \/ TapBack
  <2>1. /\ UNCHANGED <<view, posted, order>> /\ Len(controllers) > 1
        /\ \/ UNCHANGED <<controllers, transition>>
           \/ /\ controllers' = Upto(controllers, Len(controllers) - 1)
              /\ transition' = [kind |-> "swipe", seen |-> controllers]
    BY <1>8 DEF SwipeBegins, TapBack, NativeStep, Begins, PopsTop, loopVars, linkVars, nativeVars
  <2>2. Distinct(Upto(controllers, Len(controllers) - 1))
    <3>1. Len(controllers) - 1 \in 0..Len(controllers)
      BY <1>1, <2>1
    <3> QED BY <1>0, <1>1, <3>1, DistinctUpto DEF ScreenKeys
  <2>3. transition'.seen = transition.seen \/ transition'.seen = controllers
    BY <2>1
  <2> QED BY <1>0, <2>1, <2>2, <2>3 DEF ScreenKeys, Distinct
<1>9. CASE SwipeCancelled \/ DidShow
  <2>1. /\ UNCHANGED <<view, posted, order>> /\ transition' = Still
        /\ controllers' = controllers \/ controllers' = transition.seen
    BY <1>9 DEF SwipeCancelled, DidShow, NativeStep, TransitionEnds, loopVars
  <2>2. Distinct(transition'.seen)
    BY <2>1 DEF Still, Distinct
  <2> QED BY <1>0, <2>1, <2>2 DEF ScreenKeys, Distinct
<1> QED BY <1>3, <1>4, <1>5, <1>6, <1>7, <1>8, <1>9 DEF Next

(* A gesture is one screen off what UIKit showed, until it ends.              *)
LEMMA SwipePopsStep ==
    ASSUME SwipePops, [Next]_vars
    PROVE  SwipePops'
<1>1. CASE Call \/ EffectCall \/ (\E i \in DOMAIN state : Listen(state[i].key)) \/ Flush
           \/ CoreAccepts \/ Acknowledged \/ EffectsEnd \/ NativeBack \/ MountNext
           \/ UNCHANGED vars
  <2>1. UNCHANGED <<controllers, transition, applying>>
    BY <1>1 DEF Call, EffectCall, Listen, Flush, CoreAccepts, Acknowledged, EffectsEnd,
                NativeBack, MountNext, NativeStep, nativeVars, vars
  <2> QED BY <2>1 DEF SwipePops
<1>2. CASE Synchronize
  BY <1>2 DEF Synchronize, NativeStep, SwipePops
<1>3. CASE SwipeBegins \/ TapBack
  <2>1. CASE UNCHANGED nativeVars
    BY <2>1 DEF nativeVars, SwipePops
  <2>2. CASE Begins /\ PopsTop
    BY <2>2 DEF Begins, PopsTop, SwipePops
  <2> QED BY <1>3, <2>1, <2>2 DEF SwipeBegins, TapBack, NativeStep
<1>4. CASE SwipeCancelled \/ DidShow
  BY <1>4 DEF SwipeCancelled, DidShow, NativeStep, TransitionEnds, SwipePops
<1> QED BY <1>1, <1>2, <1>3, <1>4 DEF Next

(* The events: what a veto and what the end of a gesture report.              *)
LEMMA VetoNames ==
    ASSUME NEW c \in Seq(Nat), Len(c) > 1
    PROVE  Names(Back(1, c, {Top(c)}))
<1>1. \A i \in DOMAIN c : i > Len(c) - 1 => i = Len(c)
  OBVIOUS
<1> QED BY <1>1 DEF Names, Back, Top

LEMMA SwipeNames ==
    ASSUME IInv, NavInv, transition # Still, ~applying, NEW removed,
           removed = Len(order) - Len(controllers)
    PROVE  Names(Back(removed, transition.seen,
                      {transition.seen[i] : i \in DOMAIN transition.seen} \ Shown))
<1> DEFINE seen == transition.seen
           gone == {seen[i] : i \in DOMAIN seen} \ Shown
           n == Len(seen)
<1>1. seen \in Seq(Nat) /\ Distinct(seen) /\ n > 1 /\ controllers = Upto(seen, n - 1)
  BY DEF IInv, NativeTypes, NavInv, ScreenKeys, SwipePops
<1> HIDE DEF seen
<1>2. n \in Nat /\ n - 1 \in 0..n /\ DOMAIN seen = 1..n
  BY <1>1
<1>3. Len(controllers) = n - 1 /\ \A i \in 1..(n - 1) : controllers[i] = seen[i]
  BY <1>1, <1>2, UptoIs
<1>4. DOMAIN controllers = 1..(n - 1)
  <2>1. controllers \in Seq(Nat)
    BY DEF IInv, NativeTypes
  <2> QED BY <1>3, <2>1
<1>5. seen[n] \notin Shown
  <2> SUFFICES ASSUME NEW i \in 1..(n - 1) PROVE controllers[i] # seen[n]
    BY <1>4 DEF Shown
  <2>1. i \in 1..n /\ n \in 1..n /\ i # n
    <3> HIDE DEF n
    <3>1. n > 1
      BY <1>1 DEF n
    <3> QED BY <1>2, <3>1
  <2>2. i \in DOMAIN seen /\ n \in DOMAIN seen
    BY <1>2, <2>1
  <2> QED BY <1>1, <2>2, <1>3, <2>1 DEF Distinct
<1>6. seen[n] \in gone
  BY <1>1, <1>2, <1>5
<1>7. order = seen => \A i \in DOMAIN seen : i > n - removed => seen[i] \in gone
  <2> SUFFICES ASSUME order = seen, NEW i \in DOMAIN seen, i > n - removed
               PROVE  seen[i] \in gone
    OBVIOUS
  <2>1. removed = 1
    BY <1>2, <1>3
  <2>2. i = n
    BY <1>2, <2>1
  <2> QED BY <1>6, <2>2
<1> HIDE DEF gone
<1>8. Names(Back(removed, seen, gone))
  BY <1>6, <1>7 DEF Names, Back
<1> QED BY <1>8 DEF gone, seen

LEMMA BacksNameStep ==
    ASSUME IInv, NavInv, [Next]_vars
    PROVE  /\ BacksName'
           /\ \/ NativeBack \/ UNCHANGED inbox
              \/ \E e \in BackSet : inbox' = Append(inbox, e)
<1>0. inbox \in Seq(BackSet) /\ controllers \in Seq(Nat) /\ BacksName
  BY DEF IInv, NativeTypes, NavInv
<1>1. CASE UNCHANGED inbox
  BY <1>0, <1>1 DEF BacksName
<1>2. ASSUME NEW e, inbox' = Append(inbox, e), Names(e) PROVE BacksName' /\ e \in BackSet
  <2>1. NativeTypes'
    BY NativeSteps
  <2>2. inbox' \in Seq(BackSet)
    BY <2>1 DEF NativeTypes
  <2>3. /\ Len(inbox') = Len(inbox) + 1 /\ inbox'[Len(inbox) + 1] = e
        /\ \A i \in 1..Len(inbox) : inbox'[i] = inbox[i]
    BY <1>0, <1>2
  <2>4. Len(inbox) \in Nat /\ DOMAIN inbox = 1..Len(inbox) /\ DOMAIN inbox' = 1..Len(inbox')
    BY <1>0, <2>2
  <2>5. \A i \in DOMAIN inbox' : i \in DOMAIN inbox \/ i = Len(inbox) + 1
    BY <2>3, <2>4
  <2>6. BacksName'
    BY <1>0, <1>2, <2>3, <2>4, <2>5 DEF BacksName
  <2>7. e \in BackSet
    <3>1. Len(inbox) + 1 \in 1..Len(inbox')
      BY <2>3, <2>4
    <3> QED BY <2>2, <2>3, <3>1
  <2> QED BY <2>6, <2>7
<1>3. CASE Call \/ EffectCall \/ (\E i \in DOMAIN state : Listen(state[i].key)) \/ Flush
           \/ CoreAccepts \/ Acknowledged \/ EffectsEnd \/ MountNext \/ Synchronize
           \/ SwipeBegins \/ SwipeCancelled \/ UNCHANGED vars
  <2>1. UNCHANGED inbox
    BY <1>3 DEF Call, EffectCall, Listen, Flush, CoreAccepts, Acknowledged, EffectsEnd,
                MountNext, Synchronize, SwipeBegins, SwipeCancelled, NativeStep, PopsTop,
                linkVars, vars
  <2> QED BY <1>1, <2>1
<1>4. CASE NativeBack
  <2>1. inbox # <<>> /\ inbox' = Tail(inbox)
    BY <1>4 DEF NativeBack
  <2>2. /\ Tail(inbox) \in Seq(BackSet) /\ Len(Tail(inbox)) = Len(inbox) - 1
        /\ \A i \in 1..Len(Tail(inbox)) : Tail(inbox)[i] = inbox[i + 1]
    BY <1>0, <2>1, HeadTailProperties
  <2>3. DOMAIN inbox' = 1..(Len(inbox) - 1) /\ Len(inbox) \in Nat /\ DOMAIN inbox = 1..Len(inbox)
    BY <1>0, <2>1, <2>2
  <2>4. \A i \in DOMAIN inbox' : i + 1 \in DOMAIN inbox /\ inbox'[i] = inbox[i + 1]
    BY <2>1, <2>2, <2>3
  <2> QED BY <1>0, <1>4, <2>4 DEF BacksName
<1>5. CASE TapBack
  <2>1. CASE Vetoes
    <3>1. /\ Len(controllers) > 1
          /\ inbox' = Append(inbox, Back(1, controllers, {Top(controllers)}))
      BY <1>5, <2>1 DEF TapBack, NativeStep, Begins
    <3> QED BY <1>0, <1>2, <3>1, VetoNames
  <2>2. CASE ~Vetoes
    BY <1>1, <1>5, <2>2 DEF TapBack, NativeStep, PopsTop, linkVars
  <2> QED BY <2>1, <2>2
<1>6. CASE DidShow
  <2> DEFINE removed == Len(order) - Len(controllers)
             e == Back(removed, transition.seen,
                       {transition.seen[i] : i \in DOMAIN transition.seen} \ Shown)
  <2>1. /\ transition # Still
        /\ inbox' = inbox \/ (~applying /\ inbox' = Append(inbox, e))
    BY <1>6 DEF DidShow, NativeStep, Swallowed
  <2>2. ~applying => Names(e)
    BY <2>1, SwipeNames
  <2> HIDE DEF e
  <2> QED BY <1>1, <1>2, <2>1, <2>2
<1> QED BY <1>3, <1>4, <1>5, <1>6 DEF Next

(* The routes a pop takes are those it counts.                                *)
LEMMA PopTakes ==
    ASSUME IInv, NavInv, NativeBack
    PROVE  LET e == Head(inbox)
               gone == KeySet(state) \ KeySet(state')
           IN \/ gone \subseteq e.gone \/ reroutes' # reroutes
              \/ e.gone # {} /\ (Keys(state) # e.seen \/ e.order # e.seen)
<1> DEFINE e == Head(inbox)
           gone == KeySet(state) \ KeySet(state')
<1>1. /\ inbox # <<>> /\ inbox \in Seq(BackSet) /\ CoreInv /\ BacksName
      /\ state \in Stacks /\ state \in Seq(RouteSet)
  BY DEF NativeBack, IInv, NativeTypes, NavInv, CoreInv, StackTypes, Stacks
<1>2. e \in BackSet /\ Names(e)
  <2>1. 1 \in DOMAIN inbox /\ e = inbox[1]
    BY <1>1
  <2> QED BY <1>1, <2>1 DEF BacksName
<1>3. e.count \in Nat \ {0}
  BY <1>2 DEF BackSet
<1>4. \/ state' = state \/ reroutes' # reroutes
      \/ \E i \in 1..Len(state) : i >= Len(state) - e.count /\ state' = Upto(state, i)
  <2>1. (Pop(e.count) \/ UNCHANGED coreVars) /\ UNCHANGED <<phase, commit>>
    BY DEF NativeBack, loopVars
  <2> QED BY <1>1, <1>3, <2>1, PopCount DEF coreVars
<1> HIDE DEF e
<1>5. CASE state' = state
  BY <1>5 DEF KeySet
<1>6. ASSUME NEW i \in 1..Len(state), i >= Len(state) - e.count, state' = Upto(state, i),
             Keys(state) = e.seen, e.order = e.seen
      PROVE  gone \subseteq e.gone
  <2> SUFFICES ASSUME NEW j \in DOMAIN state, state[j].key \notin KeySet(state')
               PROVE  state[j].key \in e.gone
    BY DEF KeySet
  <2>1. Len(state) \in Nat /\ DOMAIN state = 1..Len(state) /\ i \in 0..Len(state)
    BY <1>1
  <2>2. /\ state' \in Seq(RouteSet) /\ Len(state') = i
        /\ \A m \in 1..i : state'[m] = state[m]
    BY <1>1, <1>6, <2>1, UptoIs
  <2>3. j > i
    <3> SUFFICES ASSUME j <= i PROVE FALSE
      BY <2>1
    <3>1. j \in 1..i /\ DOMAIN state' = 1..i
      BY <2>1, <2>2
    <3> QED BY <2>2, <3>1 DEF KeySet
  <2>4. /\ DOMAIN e.seen = DOMAIN state /\ Len(e.seen) = Len(state)
        /\ e.seen[j] = state[j].key
    <3>1. Keys(state) \in Seq(Nat)
      BY KeysTyped DEF IInv, CoreInv, StackTypes
    <3>2. DOMAIN Keys(state) = DOMAIN state /\ Keys(state)[j] = state[j].key
      BY DEF Keys
    <3> QED BY <1>1, <1>6, <3>1, <3>2
  <2>5. j > Len(e.seen) - e.count
    BY <1>3, <1>6, <2>1, <2>3, <2>4
  <2> QED BY <1>2, <1>6, <2>4, <2>5 DEF Names
<1>7. e.gone # {}
  BY <1>2 DEF Names
<1> QED BY <1>4, <1>5, <1>6, <1>7 DEF e

LEMMA NavInit == Init => NavInv
<1> SUFFICES ASSUME Init PROVE NavInv
  OBVIOUS
<1>1. ScreenKeys
  BY DEF Init, ScreenKeys, Distinct, Still
<1>2. SwipePops /\ BacksName
  BY DEF Init, SwipePops, BacksName
<1> QED BY <1>1, <1>2 DEF NavInv

(* A native back takes away no other screen than what the user swept off,     *)
(* unless the stack changed between the gesture and its event or a listener   *)
(* navigates itself: for any number of routes, calls and gestures             *)
(* (navigation/navigators.py, native_back).                                   *)
THEOREM BacksTakeTheSwiped == Spec => BackTakesTheSwiped
<1> DEFINE Takes == inbox # <<>> /\ inbox' = Tail(inbox) =>
               LET e == Head(inbox)
                   gone == KeySet(state) \ KeySet(state')
               IN \/ gone \subseteq e.gone \/ reroutes' # reroutes
                  \/ e.gone # {} /\ (Keys(state) # e.seen \/ e.order # e.seen)
<1>1. IInv /\ NavInv /\ [Next]_vars => NavInv'
  BY ScreenKeysStep, SwipePopsStep, BacksNameStep DEF NavInv
<1>2. IInv /\ NavInv /\ [Next]_vars => [Takes]_vars
  <2> SUFFICES ASSUME IInv, NavInv, [Next]_vars, inbox # <<>>, inbox' = Tail(inbox)
               PROVE  Takes
    OBVIOUS
  <2>1. inbox \in Seq(BackSet) /\ Len(Tail(inbox)) = Len(inbox) - 1 /\ Len(inbox) \in Nat
    BY HeadTailProperties DEF IInv, NativeTypes
  <2>2. CASE NativeBack
    BY <2>2, PopTakes
  <2>3. CASE UNCHANGED inbox
    BY <2>1, <2>3
  <2>4. ASSUME NEW e \in BackSet, inbox' = Append(inbox, e) PROVE FALSE
    <3>1. Len(Append(inbox, e)) = Len(inbox) + 1
      BY <2>1, AppendProperties
    <3> QED BY <2>1, <2>4, <3>1
  <2> QED BY <2>2, <2>3, <2>4, BacksNameStep
<1> QED BY <1>1, <1>2, NavInit, SlotInvariant, PTL DEF Spec, BackTakesTheSwiped
==============================================================================
