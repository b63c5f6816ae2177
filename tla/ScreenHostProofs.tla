--------------------------- MODULE ScreenHostProofs ---------------------------
(***************************************************************************)
(* What ScreenHost guarantees for every value of its constants: a screen   *)
(* shows one tree, a release build recovers twice at most, and changed     *)
(* code reaches every screen.                                              *)
(*                                                                         *)
(* A handler of ScreenHost is a chain of operators from world to world, so *)
(* the invariant is one of worlds, and each operator has a lemma that says *)
(* it preserves the invariant.  On the way a handler leaves one tree in a  *)
(* state of its own, the tree it is about to unmount, which the invariant  *)
(* has as a parameter.                                                     *)
(***************************************************************************)
EXTENDS ScreenHost, SequencesExt, SequenceTheorems, WellFoundedInduction, TLAPS, FiniteSetTheorems

(* Induction over the natural numbers, for a set of them. *)
LEMMA NatSetInduction ==
  ASSUME NEW T \in SUBSET Nat, 0 \in T, \A n \in T : n + 1 \in T
  PROVE  Nat \subseteq T
<1> DEFINE U == Nat \ T
<1> SUFFICES ASSUME U # {} PROVE FALSE
  OBVIOUS
<1>1. \E x \in U : \A y \in U : <<y, x>> \notin OpToRel(<, Nat)
  <2>1. U \subseteq Nat
    OBVIOUS
  <2> HIDE DEF U
  <2> QED BY <2>1, NatLessThanWellFounded, WFMin
<1>2. PICK x \in U : \A y \in U : ~(y < x)
  BY <1>1 DEF OpToRel
<1>3. x # 0 /\ x - 1 \in Nat /\ x - 1 \notin U
  BY <1>2
<1>4. x - 1 + 1 \in T
  BY <1>3
<1> QED BY <1>4

---------------------------------------------------------------------------

Trees == [owner : Hosts, application : Nat, root : BOOLEAN,
          commit : {"none", "queued", "flight", "acknowledged", "refused"},
          kind : {"none", "mount", "update", "unmount"}, unmount : BOOLEAN,
          code : Nat, fallback : BOOLEAN]
HostFields == [current : Nat, born : BOOLEAN, recovering : BOOLEAN, recent : BOOLEAN,
               gaveUp : BOOLEAN, task : Nat, error : BOOLEAN]
Tasks == [id : Nat \ {0}, host : Hosts, kind : {"refresh", "remount"}, tree : Nat, force : BOOLEAN,
          state : {"new", "waiting", "ready", "error", "cancelled", "dropped"}]
Backend == [failed : BOOLEAN, application : Nat, committed : BOOLEAN,
            slot : Hosts \cup {None}, flight : Nat, queue : Seq(Nat)]
Worlds == [backend : Backend, trees : Seq(Trees), host : [Hosts -> HostFields],
           tasks : SUBSET Tasks, code : Nat, reporters : Seq(Hosts),
           recovered : [Hosts -> Nat], raised : BOOLEAN]

(* What names a tree names one that was made. *)
Known(w) ==
  /\ w.backend.flight \in 0..Len(w.trees)
  /\ \A i \in DOMAIN w.backend.queue : w.backend.queue[i] \in DOMAIN w.trees
  /\ \A h \in Hosts : w.host[h].current \in 0..Len(w.trees)
  /\ \A x \in w.tasks : x.kind = "remount" => x.tree \in DOMAIN w.trees

(* OneTree, except for the tree u that is about to be unmounted.           *)
Alone(w, u) == \A t \in DOMAIN w.trees :
  t # u /\ w.trees[t].root => w.host[w.trees[t].owner].current = t \/ w.trees[t].unmount

(* A remount waits for a tree that has been told to go.                    *)
Leaving(w, u) == \A x \in w.tasks :
  x.kind = "remount" /\ x.tree # u /\ w.trees[x.tree].root => w.trees[x.tree].unmount

(* An unmount is put off only behind a commit. *)
PutOff(w, u) == \A t \in DOMAIN w.trees :
  t # u /\ w.trees[t].unmount => w.trees[t].commit # "none"

(* Only a tree that has a root is updated. *)
Updating(w) == \A t \in DOMAIN w.trees : w.trees[t].kind = "update" => w.trees[t].root

(* Tasks have numbers of their own, and n is one of them. *)
Numbered(w, n) ==
  /\ IsFiniteSet(w.tasks) /\ \A x, y \in w.tasks : x.id = y.id => x = y
  /\ n = None \/ \E x \in w.tasks : x.id = n

(* Recoveries are counted by the flags that bound them. *)
Counted(w) == \A h \in Hosts :
  /\ w.recovered[h] <= 2
  /\ ~w.host[h].recent => w.recovered[h] = 0
  /\ ~w.host[h].gaveUp => w.recovered[h] <= 1

(* A screen that shows a tree has been created, and the dev client knows it. *)
Listed(w) == \A h \in Hosts : w.host[h].current # None =>
  w.host[h].born /\ \E i \in DOMAIN w.reporters : w.reporters[i] = h

(* A task that will bring the tree of a screen up to date; the task with    *)
(* the number n has had its turn.                                           *)
Renews(w, x, h) ==
  /\ x.host = h /\ x.state \notin {"cancelled", "dropped"}
  /\ \/ x.kind = "refresh" /\ x.tree \in {None, w.host[h].current}
     \/ x.kind = "remount" /\ x.tree = w.host[h].current
Fresh(w, h, n) == dev /\ w.host[h].current # None =>
  \/ w.trees[w.host[h].current].code = w.code
  \/ w.host[h].error
  \/ \E x \in w.tasks : x.id # n /\ Renews(w, x, h)

(* The invariant, with the tree u on its way out, the screens in S         *)
(* refreshed since the code changed, and the task n about to end.          *)
HInv(w, u, S, n) ==
  /\ w \in Worlds /\ Known(w) /\ Alone(w, u) /\ Leaving(w, u) /\ PutOff(w, u) /\ Updating(w)
  /\ Numbered(w, n) /\ Counted(w) /\ Listed(w) /\ \A h \in S : Fresh(w, h, n)

IInv == dev \in BOOLEAN /\ HInv(World, None, Hosts, None)
---------------------------------------------------------------------------
(* Steps that concern one tree. *)

LEMMA TreeFacts ==
  ASSUME NEW w \in Worlds
  PROVE  \A t \in DOMAIN w.trees : t \in Nat \ {0} /\ w.trees[t] \in Trees /\ w.trees[t].owner \in Hosts
<1>1. w.trees \in Seq(Trees)
  BY DEF Worlds
<1>2. \A t \in DOMAIN w.trees : t \in Nat \ {0} /\ w.trees[t] \in Trees
  BY <1>1, ElementOfSeq
<1> QED BY <1>2 DEF Trees

(* v differs from w in the channel and in the tree t only. *)
Touches(w, v, t) ==
  /\ v \in Worlds
  /\ v.host = w.host /\ v.tasks = w.tasks /\ v.code = w.code
  /\ v.reporters = w.reporters /\ v.recovered = w.recovered
  /\ Len(v.trees) = Len(w.trees)
  /\ \A s \in DOMAIN w.trees : s # t => v.trees[s] = w.trees[s]
  /\ v.trees[t].owner = w.trees[t].owner
  /\ v.trees[t].code \in {w.trees[t].code, w.code}
  /\ v.backend.flight \in 0..Len(w.trees)
  /\ \A i \in DOMAIN v.backend.queue : v.backend.queue[i] \in DOMAIN w.trees

(* The tree t that comes out may stay: it is the one its screen shows and   *)
(* no remount waits for it, or it has been told to go.                      *)
Settles(w, v, t) ==
  /\ v.trees[t].root => \/ v.trees[t].unmount
                        \/ /\ w.host[v.trees[t].owner].current = t
                           /\ \A x \in w.tasks : x.kind = "remount" => x.tree # t
  /\ v.trees[t].unmount => v.trees[t].commit # "none"

LEMMA TouchedKeeps ==
  ASSUME NEW w, NEW v, NEW t \in DOMAIN w.trees, NEW u \in {None, t}, NEW e \in {None, t},
         NEW S \in SUBSET Hosts, NEW n, HInv(w, u, S, n), Touches(w, v, t),
         v.trees[t].kind = "update" => v.trees[t].root,
         e = t \/ Settles(w, v, t)
  PROVE  HInv(v, e, S, n)
<1> USE DEF None
<1>1. w \in Worlds /\ v \in Worlds
  BY DEF HInv, Touches
<1>2. w.trees \in Seq(Trees) /\ v.trees \in Seq(Trees) /\ w.tasks \in SUBSET Tasks
  BY <1>1 DEF Worlds
<1>3. DOMAIN v.trees = DOMAIN w.trees /\ t \in Nat \ {0} /\ t \in DOMAIN v.trees
  BY <1>2 DEF Touches
<1>4. Known(v)
  BY <1>3 DEF HInv, Known, Touches
<1>5. Alone(v, e)
  BY <1>3 DEF HInv, Alone, Touches, Settles
<1>6. Leaving(v, e)
  BY <1>3 DEF HInv, Known, Leaving, Touches, Settles
<1>7. PutOff(v, e)
  BY <1>3 DEF HInv, PutOff, Touches, Settles
<1>8. Updating(v)
  BY <1>3 DEF HInv, Updating, Touches
<1>9. Numbered(v, n) /\ Counted(v) /\ Listed(v)
  BY DEF HInv, Numbered, Counted, Listed, Touches
<1>10. ASSUME NEW h \in S PROVE Fresh(v, h, n)
  <2>1. Fresh(w, h, n) /\ w.host[h].current \in 0..Len(w.trees)
    BY DEF HInv, Known
  <2>2. w.host[h].current # 0 => w.host[h].current \in DOMAIN w.trees
    BY <1>2, <2>1
  <2> QED BY <2>1, <2>2 DEF Fresh, Touches, Renews
<1> QED BY <1>1, <1>4, <1>5, <1>6, <1>7, <1>8, <1>9, <1>10 DEF HInv

(* Facts about a world that differs in one tree and in the channel. *)
Put(w, v, t, r, b) ==
  /\ v \in [backend : {b}, trees : {[w.trees EXCEPT ![t] = r]}, host : {w.host}, tasks : {w.tasks},
            code : {w.code}, reporters : {w.reporters}, recovered : {w.recovered},
            raised : BOOLEAN]
  /\ r \in Trees /\ r.owner = w.trees[t].owner
  /\ b \in Backend /\ b.flight \in 0..Len(w.trees)
  /\ \A i \in DOMAIN b.queue : b.queue[i] \in DOMAIN w.trees

LEMMA PutTouches ==
  ASSUME NEW w \in Worlds, NEW v, NEW t \in DOMAIN w.trees, NEW r, NEW b, Put(w, v, t, r, b),
         r.code \in {w.trees[t].code, w.code}
  PROVE  Touches(w, v, t) /\ v.trees[t] = r /\ v.backend = b
<1>1. w.trees \in Seq(Trees) /\ t \in 1..Len(w.trees)
  BY DEF Worlds
<1>2. /\ v.trees = [w.trees EXCEPT ![t] = r] /\ v.backend = b /\ v.raised \in BOOLEAN
      /\ v.host = w.host /\ v.tasks = w.tasks /\ v.code = w.code
      /\ v.reporters = w.reporters /\ v.recovered = w.recovered
  BY DEF Put
<1>3. v.trees \in Seq(Trees) /\ Len(v.trees) = Len(w.trees)
  BY <1>1, <1>2, ExceptSeq DEF Put
<1>4. v \in Worlds
  BY <1>1, <1>2, <1>3 DEF Put, Worlds
<1> QED BY <1>1, <1>2, <1>3, <1>4 DEF Touches, Put

(* A commit at the end of a pass. *)
LEMMA CommitTouches ==
  ASSUME NEW w \in Worlds, Known(w), NEW t \in DOMAIN w.trees,
         NEW kind \in {"mount", "update", "unmount"}
  PROVE  LET v == Commit(w, t, kind)
         IN  /\ Touches(w, v, t)
             /\ v.trees[t].code = w.trees[t].code
             /\ v.trees[t].unmount = w.trees[t].unmount
             /\ v.trees[t].kind = "update" => v.trees[t].root
             /\ v.trees[t].root => kind # "unmount"
             /\ v.trees[t].commit # "none" \/ v.raised
<1> DEFINE v == Commit(w, t, kind)
           r == [w.trees[t] EXCEPT !.kind = kind, !.root = kind # "unmount"]
           begun == [w EXCEPT !.trees[t] = r]
           Ends(x) == /\ x.code = w.trees[t].code
                      /\ x.unmount = w.trees[t].unmount /\ (x.kind = "update" => x.root)
                      /\ (x.root => kind # "unmount")
<1>1. /\ w.trees \in Seq(Trees) /\ w.backend \in Backend /\ t \in 1..Len(w.trees)
      /\ w.trees[t] \in Trees /\ w.raised \in BOOLEAN
  BY ElementOfSeq DEF Worlds
<1>2. r \in Trees /\ Ends(r) /\ r.owner = w.trees[t].owner /\ r.kind = kind
  BY <1>1 DEF Trees
<1>3. [w EXCEPT !.trees[t].kind = kind, !.trees[t].root = kind # "unmount"] = begun
  BY <1>1 DEF Worlds, Trees
<1>4. begun \in [backend : {w.backend}, trees : {[w.trees EXCEPT ![t] = r]}, host : {w.host},
                 tasks : {w.tasks}, code : {w.code}, reporters : {w.reporters},
                 recovered : {w.recovered}, raised : {w.raised}]
  BY <1>1 DEF Worlds
<1> HIDE DEF begun, r
<1>8. \E x \in Trees, b \in Backend :
        Put(w, v, t, x, b) /\ Ends(x) /\ (x.commit # "none" \/ v.raised)
  <2>5. CASE w.backend.flight # None
    <3> DEFINE x == [r EXCEPT !.commit = "queued"]
               b == [w.backend EXCEPT !.queue = Append(@, t)]
    <3>1. v = [begun EXCEPT !.trees[t].commit = "queued", !.backend.queue = Append(@, t)]
      BY <1>3, <2>5 DEF Commit
    <3>2. x \in Trees /\ Ends(x) /\ x.commit = "queued" /\ x.owner = w.trees[t].owner
      BY <1>2 DEF Trees
    <3>6. [begun.trees EXCEPT ![t].commit = "queued"] = [w.trees EXCEPT ![t] = x]
      BY <1>1, <1>4
    <3> HIDE DEF x
    <3>3. b \in Backend /\ b.flight = w.backend.flight /\ b.queue = Append(w.backend.queue, t)
      <4>1. w.backend.queue \in Seq(Nat) /\ t \in Nat
        BY <1>1 DEF Backend
      <4>2. Append(w.backend.queue, t) \in Seq(Nat)
        BY <4>1, AppendProperties
      <4> QED BY <1>1, <4>1, <4>2 DEF Backend
    <3>4. \A i \in DOMAIN b.queue : b.queue[i] \in DOMAIN w.trees
      <4>1. w.backend.queue \in Seq(Nat) /\ t \in Nat
        BY <1>1 DEF Backend
      <4> QED BY <1>1, <3>3, <4>1 DEF Known
    <3> HIDE DEF b
    <3>5. v \in [backend : {b}, trees : {[w.trees EXCEPT ![t] = x]}, host : {w.host}, tasks : {w.tasks},
            code : {w.code}, reporters : {w.reporters}, recovered : {w.recovered},
            raised : BOOLEAN]
      BY <1>1, <1>4, <3>1, <3>6 DEF b
    <3> QED BY <1>1, <3>2, <3>3, <3>4, <3>5 DEF Known, Put
  <2>6. CASE w.backend.flight = None /\ w.backend.failed
    <3> DEFINE x == [r EXCEPT !.commit = "none", !.kind = "none", !.root = FALSE]
    <3>1. v = [Aborted(begun, t) EXCEPT !.raised = TRUE]
      BY <1>3, <2>6 DEF Commit
    <3>2. x \in Trees /\ Ends(x) /\ x.owner = w.trees[t].owner
      BY <1>2 DEF Trees
    <3>3. Aborted(begun, t) = [begun EXCEPT !.trees[t].commit = "none", !.trees[t].kind = "none",
                                            !.trees[t].root = FALSE]
      BY <1>4, <2>6 DEF Aborted
    <3>6. [begun.trees EXCEPT ![t].commit = "none", ![t].kind = "none", ![t].root = FALSE]
             = [w.trees EXCEPT ![t] = x]
      BY <1>1, <1>4
    <3>4. Aborted(begun, t) = [begun EXCEPT !.trees = [w.trees EXCEPT ![t] = x]]
      BY <1>1, <1>4, <3>3, <3>6
    <3> HIDE DEF x
    <3>5. v \in [backend : {w.backend}, trees : {[w.trees EXCEPT ![t] = x]}, host : {w.host},
                 tasks : {w.tasks}, code : {w.code}, reporters : {w.reporters},
                 recovered : {w.recovered}, raised : {TRUE}]
      BY <1>1, <1>4, <3>1, <3>4
    <3> QED BY <1>1, <3>2, <3>5 DEF Known, Put
  <2>7. CASE w.backend.flight = None /\ ~w.backend.failed
    <3> DEFINE x == [r EXCEPT !.commit = "flight"]
               b == [w.backend EXCEPT !.flight = t]
    <3>1. v = [begun EXCEPT !.trees[t].commit = "flight", !.backend.flight = t]
      BY <1>3, <2>7 DEF Commit
    <3>2. x \in Trees /\ Ends(x) /\ x.commit = "flight" /\ x.owner = w.trees[t].owner
      BY <1>2 DEF Trees
    <3>6. [begun.trees EXCEPT ![t].commit = "flight"] = [w.trees EXCEPT ![t] = x]
      BY <1>1, <1>4
    <3> HIDE DEF x
    <3>3. b \in Backend /\ b.flight = t /\ b.queue = w.backend.queue
      BY <1>1 DEF Backend
    <3> HIDE DEF b
    <3>5. v \in [backend : {b}, trees : {[w.trees EXCEPT ![t] = x]}, host : {w.host}, tasks : {w.tasks},
            code : {w.code}, reporters : {w.reporters}, recovered : {w.recovered},
            raised : BOOLEAN]
      BY <1>1, <1>4, <3>1, <3>6 DEF b
    <3> QED BY <1>1, <3>2, <3>3, <3>5 DEF Known, Put
  <2> QED BY <2>5, <2>6, <2>7
<1> HIDE DEF v
<1>9. PICK x \in Trees, b \in Backend :
        Put(w, v, t, x, b) /\ Ends(x) /\ (x.commit # "none" \/ v.raised)
  BY <1>8
<1>10. Touches(w, v, t) /\ v.trees[t] = x
  BY <1>9, PutTouches
<1> QED BY <1>9, <1>10 DEF v

LEMMA TouchesItself ==
  ASSUME NEW w \in Worlds, Known(w), NEW t \in DOMAIN w.trees
  PROVE  Touches(w, w, t)
BY DEF Touches, Known

(* unmount(): afterwards the tree is gone, or going. *)
LEMMA UnmountKeeps ==
  ASSUME NEW w, NEW t \in DOMAIN w.trees, NEW u \in {None, t}, NEW S \in SUBSET Hosts, NEW n,
         HInv(w, u, S, n), w.trees[t].unmount => Pending(w, t)
  PROVE  LET v == Unmount(w, t)
         IN  /\ Touches(w, v, t) /\ HInv(v, None, S, n)
             /\ v.trees[t].root => v.trees[t].unmount
             /\ ~Pending(v, t) => ~v.trees[t].root
<1> DEFINE v == Unmount(w, t)
           x == [w.trees[t] EXCEPT !.unmount = TRUE]
<1>1. w \in Worlds /\ Known(w) /\ Updating(w)
  BY DEF HInv
<1>2. /\ w.trees \in Seq(Trees) /\ w.backend \in Backend /\ t \in 1..Len(w.trees)
      /\ w.trees[t] \in Trees /\ w.raised \in BOOLEAN
  BY <1>1, ElementOfSeq DEF Worlds
<1>3. CASE Pending(w, t)
  <2>1. v = [w EXCEPT !.trees = [w.trees EXCEPT ![t] = x]]
    BY <1>1, <1>2, <1>3 DEF Unmount, Worlds
  <2>2. x \in Trees /\ x.owner = w.trees[t].owner /\ x.unmount /\ x.code = w.trees[t].code
        /\ x.commit = w.trees[t].commit /\ x.kind = w.trees[t].kind /\ x.root = w.trees[t].root
    BY <1>2 DEF Trees
  <2> HIDE DEF x
  <2>3. Put(w, v, t, x, w.backend)
    BY <1>1, <1>2, <2>1, <2>2 DEF Put, Worlds, Known
  <2> HIDE DEF v
  <2>4. Touches(w, v, t) /\ v.trees[t] = x
    BY <1>1, <2>2, <2>3, PutTouches
  <2>5. HInv(v, None, S, n)
    BY <1>1, <1>3, <2>2, <2>4, TouchedKeeps DEF Updating, Settles, Pending
  <2> QED BY <1>3, <2>2, <2>4, <2>5 DEF Pending, v
<1>4. CASE ~Pending(w, t) /\ ~w.trees[t].root
  <2>1. v = w
    BY <1>4 DEF Unmount
  <2>2. Touches(w, w, t)
    BY <1>1, TouchesItself
  <2>3. HInv(w, None, S, n)
    BY <1>1, <1>4, <2>2, TouchedKeeps DEF Updating, Settles, Pending
  <2> QED BY <1>4, <2>1, <2>2, <2>3
<1>5. CASE ~Pending(w, t) /\ w.trees[t].root
  <2>1. v = Commit(w, t, "unmount")
    BY <1>5 DEF Unmount
  <2>2. /\ Touches(w, v, t) /\ ~v.trees[t].root /\ v.trees[t].unmount = w.trees[t].unmount
        /\ v.trees[t].kind = "update" => v.trees[t].root
    BY <1>1, <2>1, CommitTouches
  <2>3. HInv(v, None, S, n)
    BY <1>1, <1>5, <2>2, TouchedKeeps DEF Settles, Pending
  <2> QED BY <2>2, <2>3
<1> QED BY <1>3, <1>4, <1>5

(* reset(): the trees stay what they are. *)
LEMMA ResetKeeps ==
  ASSUME NEW w, NEW u, NEW S \in SUBSET Hosts, NEW n, HInv(w, u, S, n)
  PROVE  LET v == Reset(w)
         IN  /\ HInv(v, u, S, n)
             /\ v.trees = w.trees /\ v.host = w.host /\ v.tasks = w.tasks
             /\ v.code = w.code /\ v.reporters = w.reporters
<1> DEFINE v == Reset(w)
<1>1. w \in Worlds /\ w.backend \in Backend
  BY DEF HInv, Worlds
<1>2. /\ v \in Worlds /\ v.trees = w.trees /\ v.host = w.host /\ v.tasks = w.tasks
      /\ v.code = w.code /\ v.reporters = w.reporters /\ v.recovered = w.recovered
      /\ v.backend.flight = w.backend.flight /\ v.backend.queue = w.backend.queue
  <2>1. CASE ~w.backend.failed
    BY <1>1, <2>1 DEF Reset, Worlds
  <2>2. CASE w.backend.failed /\ ResetRefused(w)
    <3>1. v = [w EXCEPT !.raised = TRUE]
      BY <2>2 DEF Reset
    <3> QED BY <1>1, <3>1 DEF Worlds
  <2>3. CASE w.backend.failed /\ ~ResetRefused(w)
    <3> DEFINE b == [w.backend EXCEPT !.failed = FALSE, !.application = @ + 1, !.committed = FALSE]
    <3>1. v = [w EXCEPT !.backend = b]
      BY <1>1, <2>3 DEF Reset, Worlds, Backend
    <3>2. b \in Backend
      <4>1. w.backend.application + 1 \in Nat
        BY <1>1 DEF Backend
      <4> QED BY <1>1, <4>1 DEF Backend
    <3>3. b.flight = w.backend.flight /\ b.queue = w.backend.queue
      BY <1>1 DEF Backend
    <3> HIDE DEF b
    <3> QED BY <1>1, <3>3, <3>1, <3>2 DEF Worlds
  <2> QED BY <2>1, <2>2, <2>3
<1> HIDE DEF v
<1>3. Known(v) /\ Alone(v, u) /\ Leaving(v, u) /\ PutOff(v, u) /\ Updating(v)
  BY <1>2 DEF HInv, Known, Alone, Leaving, PutOff, Updating
<1>4. Numbered(v, n) /\ Counted(v) /\ Listed(v) /\ \A h \in S : Fresh(v, h, n)
  BY <1>2 DEF HInv, Numbered, Counted, Listed, Fresh, Renews
<1> QED BY <1>2, <1>3, <1>4 DEF HInv, v

(* A new tree takes the place of those that have been told to go. *)
LEMMA BeginKeeps ==
  ASSUME NEW w, NEW h \in Hosts, NEW S \in SUBSET Hosts, NEW n, HInv(w, None, S, n),
         \A t \in DOMAIN w.trees : w.trees[t].owner = h /\ w.trees[t].root => w.trees[t].unmount,
         w.host[h].born, \E i \in DOMAIN w.reporters : w.reporters[i] = h
  PROVE  LET v == Begin(w, h)
         IN  HInv(v, None, S \cup {h}, n) /\ v.code = w.code /\ v.reporters = w.reporters
<1> USE DEF None
<1> DEFINE v == Begin(w, h)
           t == Len(w.trees) + 1
           r == NewTree(w, h)
           b == [w.backend EXCEPT !.slot = h]
           y == [w EXCEPT !.trees = Append(@, NewTree(w, h)), !.host[h].current = t,
                          !.backend.slot = h]
<1>1. /\ w \in Worlds /\ w.trees \in Seq(Trees) /\ w.backend \in Backend
      /\ w.host \in [Hosts -> HostFields] /\ w.host[h] \in HostFields
      /\ t \in Nat \ {0} /\ w.code \in Nat /\ w.tasks \in SUBSET Tasks
  BY LenProperties DEF HInv, Worlds
<1>2. r \in Trees /\ r.owner = h /\ ~r.root /\ ~r.unmount /\ r.kind = "none" /\ r.code = w.code
  BY <1>1 DEF NewTree, Trees, Backend, HostFields
<1>3. /\ y.trees = Append(w.trees, r) /\ y.host = [w.host EXCEPT ![h].current = t]
      /\ y.backend = b /\ y.tasks = w.tasks /\ y.code = w.code
      /\ y.reporters = w.reporters /\ y.recovered = w.recovered /\ y.raised = w.raised
  BY <1>1 DEF Worlds
<1>4. b \in Backend /\ b.flight = w.backend.flight /\ b.queue = w.backend.queue
  BY <1>1 DEF Backend
<1>5. y.trees \in Seq(Trees) /\ Len(y.trees) = t /\ y.trees[t] = r
      /\ \A s \in DOMAIN w.trees : y.trees[s] = w.trees[s] /\ s \in 1..t - 1
  BY <1>1, <1>2, <1>3, AppendProperties
<1>6. y.host \in [Hosts -> HostFields] /\ y.host[h].current = t /\ y.host[h].born = w.host[h].born
      /\ y.host[h].error = w.host[h].error /\ y.host[h].recent = w.host[h].recent
      /\ y.host[h].gaveUp = w.host[h].gaveUp
      /\ \A g \in Hosts : g # h => y.host[g] = w.host[g]
  <2> DEFINE f == [w.host[h] EXCEPT !.current = t]
  <2>1. f \in HostFields /\ f.current = t /\ f.born = w.host[h].born /\ f.error = w.host[h].error
        /\ f.recent = w.host[h].recent /\ f.gaveUp = w.host[h].gaveUp
    BY <1>1 DEF HostFields
  <2>2. y.host = [w.host EXCEPT ![h] = f]
    BY <1>1, <1>3
  <2> HIDE DEF y, f
  <2> QED BY <1>1, <2>1, <2>2
<1>7. y \in Worlds
  BY <1>1, <1>4, <1>5, <1>6 DEF Worlds
<1>8. DOMAIN w.trees = 1..t - 1 /\ DOMAIN y.trees = 1..t
  BY <1>1, <1>5
<1> HIDE DEF y, r, b
<1> HIDE DEF t
<1>9. Known(y)
  <2>1. Known(w)
    BY DEF HInv
  <2>2. \A g \in Hosts : y.host[g].current \in 0..t
    BY <1>1, <1>6, <1>8, <2>1 DEF Known, t
  <2>3. y.backend.flight \in 0..t
    BY <1>1, <1>3, <1>4, <2>1 DEF Known, t
  <2>4. \A i \in DOMAIN y.backend.queue : y.backend.queue[i] \in DOMAIN y.trees
    BY <1>1, <1>3, <1>4, <1>8, <2>1 DEF Known
  <2>5. \A x \in y.tasks : x.kind = "remount" => x.tree \in DOMAIN y.trees
    BY <1>1, <1>3, <1>8, <2>1 DEF Known
  <2> QED BY <1>5, <2>2, <2>3, <2>4, <2>5 DEF Known
<1>10. Alone(y, None) /\ PutOff(y, None) /\ Updating(y)
  <2>1. \A s \in DOMAIN w.trees : w.trees[s].owner \in Hosts
    BY <1>1, TreeFacts
  <2>2. \A s \in DOMAIN y.trees : s = t \/ s \in DOMAIN w.trees
    BY <1>1, <1>8
  <2>3. Alone(y, None)
    BY <1>2, <1>5, <1>6, <2>1, <2>2 DEF HInv, Alone
  <2>4. PutOff(y, None) /\ Updating(y)
    BY <1>2, <1>5, <2>2 DEF HInv, PutOff, Updating
  <2> QED BY <2>3, <2>4
<1>11. Leaving(y, None)
  BY <1>3, <1>5 DEF HInv, Leaving, Known
<1>12. Numbered(y, n) /\ Counted(y) /\ Listed(y)
  BY <1>3, <1>6 DEF HInv, Numbered, Counted, Listed
<1>13. ASSUME NEW g \in S \cup {h} PROVE Fresh(y, g, n)
  <2>1. CASE g = h
    BY <1>2, <1>3, <1>5, <1>6, <2>1 DEF Fresh
  <2>2. CASE g # h
    <3>1. Fresh(w, g, n) /\ w.host[g].current \in 0..Len(w.trees)
      BY <2>2 DEF HInv, Known
    <3> QED BY <1>1, <1>3, <1>5, <1>6, <1>8, <2>2, <3>1 DEF Fresh, Renews
  <2> QED BY <2>1, <2>2
<1>14. HInv(y, None, S \cup {h}, n)
  BY <1>7, <1>9, <1>10, <1>11, <1>12, <1>13 DEF HInv
<1>15. v = Commit(y, t, "mount")
  BY DEF Begin, y, t
<1> HIDE DEF v
<1>16. /\ Touches(y, v, t) /\ (v.trees[t].kind = "update" => v.trees[t].root)
       /\ v.trees[t].unmount = r.unmount
  BY <1>1, <1>5, <1>7, <1>8, <1>9, <1>15, CommitTouches
<1>17. Settles(y, v, t)
  BY <1>1, <1>2, <1>3, <1>6, <1>8, <1>16 DEF Settles, Touches, HInv, Known
<1>18. HInv(v, None, S \cup {h}, n)
  BY <1>1, <1>8, <1>14, <1>16, <1>17, TouchedKeeps
<1> QED BY <1>3, <1>16, <1>18 DEF Touches, v

(* mount() of _full_remount, after the old tree has gone or has been told to go. *)
LEMMA MountAnewKeeps ==
  ASSUME NEW w, NEW h \in Hosts, NEW old \in DOMAIN w.trees, NEW S \in SUBSET Hosts, NEW n,
         HInv(w, None, S, n), w.trees[old].root => w.trees[old].unmount
  PROVE  LET v == MountAnew(w, h, old)
         IN  /\ HInv(v, None, S, n) /\ v.code = w.code /\ v.reporters = w.reporters
             /\ w.host[h].current = old => v.raised \/ HInv(v, None, S \cup {h}, n)
<1> USE DEF None
<1> DEFINE v == MountAnew(w, h, old)
           y == Reset(w)
<1>1. CASE w.host[h].current # old
  BY <1>1 DEF MountAnew
<1>2. /\ HInv(y, None, S, n) /\ y.trees = w.trees /\ y.host = w.host
      /\ y.code = w.code /\ y.reporters = w.reporters
  BY ResetKeeps
<1>3. CASE w.host[h].current = old /\ y.raised
  BY <1>2, <1>3 DEF MountAnew
<1>4. CASE w.host[h].current = old /\ ~y.raised
  <2>1. v = Begin(y, h)
    BY <1>4 DEF MountAnew
  <2> HIDE DEF v, y
  <2>2. \A t \in DOMAIN y.trees : y.trees[t].owner = h /\ y.trees[t].root => y.trees[t].unmount
    BY <1>2, <1>4, TreeFacts DEF HInv, Alone
  <2>3. old # 0
    BY TreeFacts DEF HInv
  <2>4. y.host[h].born /\ \E i \in DOMAIN y.reporters : y.reporters[i] = h
    BY <1>2, <1>4, <2>3 DEF HInv, Listed
  <2>5. HInv(v, None, S \cup {h}, n) /\ v.code = y.code /\ v.reporters = y.reporters
    BY <1>2, <2>1, <2>2, <2>4, BeginKeeps
  <2>6. HInv(v, None, S, n)
    BY <2>5 DEF HInv
  <2> QED BY <1>2, <2>5, <2>6 DEF v
<1> QED BY <1>1, <1>3, <1>4

(* A number that no task has. *)
LEMMA FreshId ==
  ASSUME NEW T \in SUBSET Tasks, IsFiniteSet(T)
  PROVE  \E n \in 1..(Cardinality(T) + 1) : \A x \in T : x.id # n
<1> DEFINE N == 1..(Cardinality(T) + 1)
           f == [n \in N |-> CHOOSE x \in T : x.id = n]
<1> SUFFICES ASSUME \A n \in N : \E x \in T : x.id = n PROVE FALSE
  OBVIOUS
<1>1. Cardinality(T) \in Nat
  BY FS_CardinalityType
<1>2. IsFiniteSet(N) /\ Cardinality(N) = Cardinality(T) + 1
  BY <1>1, FS_Interval
<1>3. \A n \in N : f[n] \in T /\ f[n].id = n
  OBVIOUS
<1>4. f \in [N -> T]
  BY <1>3
<1> HIDE DEF f, N
<1>5. \E m, n \in N : m # n /\ f[m] = f[n]
  BY <1>1, <1>2, <1>4, FS_PigeonHole
<1> QED BY <1>3, <1>5

(* A task that the loop will run. *)
LEMMA SpawnKeeps ==
  ASSUME NEW w, NEW h \in Hosts, NEW kind \in {"refresh", "remount"}, NEW t \in Nat,
         NEW force \in BOOLEAN, NEW S \in SUBSET Hosts, NEW n, HInv(w, None, S, n),
         kind = "remount" => t \in DOMAIN w.trees /\ (w.trees[t].root => w.trees[t].unmount),
         t \in {None, w.host[h].current}, kind = "remount" => t # None
  PROVE  LET v == Spawn(w, h, kind, t, force)
         IN  HInv(v, None, S \cup {h}, n) /\ v.code = w.code /\ v.reporters = w.reporters
<1> USE DEF None
<1> DEFINE id == CHOOSE m \in 1..(Cardinality(w.tasks) + 1) : \A x \in w.tasks : x.id # m
           z == [id |-> id, host |-> h, kind |-> kind, tree |-> t, force |-> force, state |-> "new"]
           v == Spawn(w, h, kind, t, force)
           f == [w.host[h] EXCEPT !.task = id]
<1>1. /\ w \in Worlds /\ w.tasks \in SUBSET Tasks /\ IsFiniteSet(w.tasks)
      /\ w.host \in [Hosts -> HostFields] /\ w.host[h] \in HostFields
  BY DEF HInv, Worlds, Numbered
<1>2. id \in Nat \ {0} /\ \A x \in w.tasks : x.id # id
  <2>1. Cardinality(w.tasks) \in Nat
    BY <1>1, FS_CardinalityType
  <2> QED BY <1>1, <2>1, FreshId
<1> HIDE DEF id
<1>3. z \in Tasks /\ z.id = id /\ z.host = h /\ z.kind = kind /\ z.tree = t /\ z.state = "new"
  BY <1>2 DEF Tasks
<1>4. f \in HostFields /\ f.current = w.host[h].current /\ f.born = w.host[h].born
      /\ f.recent = w.host[h].recent /\ f.gaveUp = w.host[h].gaveUp /\ f.error = w.host[h].error
  BY <1>1, <1>2 DEF HostFields
<1>5. v = [w EXCEPT !.tasks = @ \cup {z}, !.host[h].task = id]
  BY DEF Spawn, id
<1>6. /\ v.tasks = w.tasks \cup {z} /\ v.host = [w.host EXCEPT ![h] = f]
      /\ v.trees = w.trees /\ v.backend = w.backend /\ v.code = w.code
      /\ v.reporters = w.reporters /\ v.recovered = w.recovered /\ v.raised = w.raised
  BY <1>1, <1>5 DEF Worlds
<1> HIDE DEF z, f
<1>7. v \in Worlds
  <2>1. v.host \in [Hosts -> HostFields] /\ v.tasks \in SUBSET Tasks
    BY <1>1, <1>3, <1>4, <1>6
  <2>2. v = [w EXCEPT !.tasks = w.tasks \cup {z}, !.host = [w.host EXCEPT ![h] = f]]
    BY <1>1, <1>5 DEF Worlds, f
  <2> HIDE DEF v
  <2> QED BY <1>1, <1>6, <2>1, <2>2 DEF Worlds
<1> HIDE DEF v
<1>8. \A g \in Hosts : /\ v.host[g].current = w.host[g].current /\ v.host[g].born = w.host[g].born
                       /\ v.host[g].recent = w.host[g].recent /\ v.host[g].gaveUp = w.host[g].gaveUp
                       /\ v.host[g].error = w.host[g].error
  BY <1>1, <1>4, <1>6
<1>9. \A s \in DOMAIN w.trees : w.trees[s].owner \in Hosts
  BY <1>1, TreeFacts
<1>10. Known(v)
  BY <1>3, <1>6, <1>8 DEF HInv, Known
<1>11. Alone(v, None) /\ PutOff(v, None) /\ Updating(v)
  BY <1>6, <1>8, <1>9 DEF HInv, Alone, PutOff, Updating
<1>12. Leaving(v, None)
  BY <1>3, <1>6 DEF HInv, Leaving
<1>13. Numbered(v, n)
  <2>1. IsFiniteSet(v.tasks)
    BY <1>1, <1>6, FS_AddElement
  <2> QED BY <1>2, <1>3, <1>6, <2>1 DEF HInv, Numbered
<1>14. Counted(v) /\ Listed(v)
  BY <1>6, <1>8 DEF HInv, Counted, Listed
<1>15. ASSUME NEW g \in S PROVE Fresh(v, g, n)
  <2>1. Fresh(w, g, n)
    BY DEF HInv
  <2> QED BY <1>6, <1>8, <2>1 DEF Fresh, Renews
<1>16. Fresh(v, h, n)
  <2>1. id # n
    BY <1>2 DEF HInv, Numbered
  <2>2. Renews(v, z, h)
    BY <1>3, <1>8 DEF Renews
  <2> QED BY <1>3, <1>6, <2>1, <2>2 DEF Fresh
<1> QED BY <1>6, <1>7, <1>10, <1>11, <1>12, <1>13, <1>14, <1>15, <1>16 DEF HInv, v

(* _full_remount *)
LEMMA FullRemountKeeps ==
  ASSUME NEW w, NEW h \in Hosts, NEW S \in SUBSET Hosts, NEW n,
         HInv(w, None, S, n), w.host[h].current # None
  PROVE  LET v == FullRemount(w, h)
         IN  /\ HInv(v, None, S, n) /\ v.code = w.code /\ v.reporters = w.reporters
             /\ v.raised \/ HInv(v, None, S \cup {h}, n)
<1> USE DEF None
<1> DEFINE old == w.host[h].current
           y == Unmount(w, old)
           v == FullRemount(w, h)
<1>1. old \in DOMAIN w.trees
  <2>1. w.trees \in Seq(Trees) /\ old \in 0..Len(w.trees)
    BY DEF HInv, Known, Worlds
  <2> QED BY <2>1
<1>2. w.trees[old].unmount => Pending(w, old)
  BY <1>1 DEF HInv, PutOff, Pending, Worlds
<1>3. /\ Touches(w, y, old) /\ HInv(y, None, S, n)
      /\ y.trees[old].root => y.trees[old].unmount
  BY <1>1, <1>2, UnmountKeeps
<1>4. y.host = w.host /\ y.code = w.code /\ y.reporters = w.reporters /\ old \in DOMAIN y.trees
      /\ old \in Nat /\ old # 0 /\ y.host[h].current = old
  <2>1. w.trees \in Seq(Trees) /\ y.trees \in Seq(Trees)
    BY <1>3 DEF HInv, Worlds
  <2>2. old \in Nat \ {0}
    BY <1>1, TreeFacts DEF HInv
  <2>3. y.host = w.host /\ y.code = w.code /\ y.reporters = w.reporters /\ Len(y.trees) = Len(w.trees)
    BY <1>3 DEF Touches
  <2>4. w.host[h].current = old
    BY DEF old
  <2> HIDE DEF y, old
  <2> QED BY <1>1, <2>1, <2>2, <2>3, <2>4
<1> HIDE DEF y, old, v
<1>5. CASE y.raised
  <2>1. v = y
    BY <1>5 DEF FullRemount, y, old, v
  <2> QED BY <1>3, <1>4, <1>5, <2>1 DEF v
<1>6. CASE ~y.raised /\ Pending(y, old)
  <2>1. v = Spawn(y, h, "remount", old, FALSE)
    BY <1>6 DEF FullRemount, y, old, v
  <2>2. HInv(v, None, S \cup {h}, n) /\ v.code = y.code /\ v.reporters = y.reporters
    BY <1>3, <1>4, <2>1, SpawnKeeps
  <2> QED BY <1>4, <2>2 DEF HInv, v
<1>7. CASE ~y.raised /\ ~Pending(y, old)
  <2>1. v = MountAnew(y, h, old)
    BY <1>7 DEF FullRemount, y, old, v
  <2> QED BY <1>3, <1>4, <2>1, MountAnewKeeps DEF v
<1> QED BY <1>5, <1>6, <1>7

---------------------------------------------------------------------------
(* Steps that concern a screen's fields or its tasks. *)

(* v differs from w in fields of the host h that name no tree. *)
Marks(w, v, h) ==
  /\ v \in Worlds
  /\ v.trees = w.trees /\ v.tasks = w.tasks /\ v.code = w.code /\ v.reporters = w.reporters
  /\ v.backend.flight = w.backend.flight /\ v.backend.queue = w.backend.queue
  /\ \A g \in Hosts : g # h => v.host[g] = w.host[g]
  /\ v.host[h].current = w.host[h].current /\ v.host[h].born = w.host[h].born

LEMMA MarksKeep ==
  ASSUME NEW w, NEW v, NEW h \in Hosts, NEW u, NEW S \in SUBSET Hosts, NEW n,
         HInv(w, u, S, n), Marks(w, v, h), Counted(v)
  PROVE  /\ HInv(v, u, S \ {h}, n)
         /\ v.host[h].error => HInv(v, u, S \cup {h}, n)
         /\ v.host[h].error \/ v.host[h].error = w.host[h].error => HInv(v, u, S, n)
<1>1. w \in Worlds /\ v \in Worlds
  BY DEF HInv, Marks
<1>2. \A g \in Hosts : v.host[g].current = w.host[g].current /\ v.host[g].born = w.host[g].born
  BY DEF Marks
<1>3. Known(v) /\ Listed(v)
  BY <1>2 DEF HInv, Known, Listed, Marks
<1>4. Alone(v, u)
  BY <1>1, <1>2, TreeFacts DEF HInv, Alone, Marks
<1>5. Leaving(v, u) /\ PutOff(v, u) /\ Updating(v) /\ Numbered(v, n)
  BY DEF HInv, Leaving, PutOff, Updating, Numbered, Marks
<1>6. \A g \in S : g # h \/ v.host[h].error = w.host[h].error => Fresh(v, g, n)
  BY <1>2 DEF HInv, Fresh, Renews, Marks
<1>7. v.host[h].error => Fresh(v, h, n)
  BY DEF Fresh
<1> QED BY <1>1, <1>3, <1>4, <1>5, <1>6, <1>7 DEF HInv

(* One record of a host for another. *)
WithHost(w, h, f) == [w EXCEPT !.host[h] = f]
LEMMA HostMarks ==
  ASSUME NEW w \in Worlds, NEW h \in Hosts, NEW f \in HostFields,
         f.current = w.host[h].current, f.born = w.host[h].born,
         NEW v, v = WithHost(w, h, f)
  PROVE  /\ Marks(w, v, h) /\ v.host[h] = f /\ v.recovered = w.recovered
         /\ v.backend = w.backend /\ v.raised = w.raised
         /\ Counted(w) /\ f.recent = w.host[h].recent /\ f.gaveUp = w.host[h].gaveUp => Counted(v)
<1>1. w.host \in [Hosts -> HostFields]
  BY DEF Worlds
<1>2. /\ v.host = [w.host EXCEPT ![h] = f] /\ v.trees = w.trees /\ v.tasks = w.tasks
      /\ v.code = w.code /\ v.reporters = w.reporters /\ v.backend = w.backend
      /\ v.recovered = w.recovered /\ v.raised = w.raised
  BY DEF Worlds, WithHost
<1>3. v.host \in [Hosts -> HostFields] /\ v.host[h] = f /\ \A g \in Hosts : g # h => v.host[g] = w.host[g]
  BY <1>1, <1>2
<1>4. v \in Worlds
  <2>1. v = [w EXCEPT !.host = v.host]
    BY <1>2 DEF Worlds, WithHost
  <2> QED BY <1>3, <2>1 DEF Worlds
<1>5. Counted(w) /\ f.recent = w.host[h].recent /\ f.gaveUp = w.host[h].gaveUp => Counted(v)
  BY <1>2, <1>3 DEF Counted
<1> QED BY <1>2, <1>3, <1>4, <1>5 DEF Marks

(* _recover_surface *)
LEMMA RecoverKeeps ==
  ASSUME NEW w, NEW u, NEW S \in SUBSET Hosts, NEW n, HInv(w, u, S, n), NEW h \in Hosts
  PROVE  LET v == RecoverSurface(w, h)
         IN  /\ HInv(v, u, S, n) /\ v.trees = w.trees /\ v.code = w.code
             /\ v.reporters = w.reporters /\ v.tasks = w.tasks /\ v.backend = w.backend
<1> DEFINE v == RecoverSurface(w, h)
           s == w.host[h]
           f == [s EXCEPT !.gaveUp = @ \/ s.recent, !.recent = TRUE, !.recovering = TRUE]
<1>1. w \in Worlds /\ w.host \in [Hosts -> HostFields] /\ s \in HostFields
      /\ w.recovered \in [Hosts -> Nat] /\ Counted(w)
  BY DEF HInv, Worlds
<1>2. CASE v = w
  BY <1>2
<1>3. CASE v # w
  <2>1. ~(s.recent /\ s.gaveUp)
    BY <1>3 DEF RecoverSurface
  <2>2. v = [w EXCEPT !.host[h] = f, !.recovered[h] = @ + 1]
    BY <1>3 DEF RecoverSurface
  <2>3. f \in HostFields /\ f.current = s.current /\ f.born = s.born /\ f.error = s.error
        /\ f.recent /\ f.gaveUp = (s.gaveUp \/ s.recent)
    BY <1>1 DEF HostFields
  <2>4. /\ v.host = [w.host EXCEPT ![h] = f] /\ v.recovered = [w.recovered EXCEPT ![h] = @ + 1]
        /\ v.trees = w.trees /\ v.tasks = w.tasks /\ v.code = w.code /\ v.reporters = w.reporters
        /\ v.backend = w.backend /\ v.raised = w.raised
    BY <1>1, <2>2 DEF Worlds
  <2> HIDE DEF f
  <2>5. v.host \in [Hosts -> HostFields] /\ v.recovered \in [Hosts -> Nat]
        /\ v.host[h] = f /\ \A g \in Hosts : g # h => v.host[g] = w.host[g]
    BY <1>1, <2>3, <2>4
  <2>6. v = [w EXCEPT !.host = v.host, !.recovered = v.recovered]
    BY <1>1, <2>2, <2>4 DEF Worlds
  <2> HIDE DEF v
  <2>7. v \in Worlds
    BY <1>1, <2>5, <2>6 DEF Worlds
  <2>8. Counted(v)
    BY <1>1, <2>1, <2>3, <2>4 DEF Counted, HostFields
  <2>9. Marks(w, v, h)
    BY <2>3, <2>4, <2>5, <2>7 DEF Marks
  <2>10. HInv(v, u, S, n)
    BY <2>3, <2>5, <2>8, <2>9, MarksKeep
  <2> QED BY <2>4, <2>10 DEF v
<1> QED BY <1>2, <1>3

(* The tasks become others with the same numbers; those of the hosts in R   *)
(* are as alive as they were.                                               *)
LEMMA MappedKeeps ==
  ASSUME NEW w, NEW u, NEW S \in SUBSET Hosts, NEW n, HInv(w, u, S, n), NEW R \in SUBSET S,
         NEW f,
         \A x \in w.tasks :
            /\ f[x] \in Tasks /\ f[x].id = x.id /\ f[x].host = x.host /\ f[x].kind = x.kind
            /\ f[x].tree = x.tree
            /\ x.host \in R /\ f[x].state \in {"cancelled", "dropped"} => x.state \in {"cancelled", "dropped"},
         NEW v, v = [w EXCEPT !.tasks = {f[x] : x \in w.tasks}]
  PROVE  /\ HInv(v, u, R, n) /\ v.trees = w.trees /\ v.host = w.host /\ v.code = w.code
         /\ v.reporters = w.reporters /\ v.backend = w.backend /\ v.raised = w.raised
<1> DEFINE T == {f[x] : x \in w.tasks}
           g == [x \in w.tasks |-> f[x]]
<1>1. w \in Worlds /\ T \in SUBSET Tasks
  BY DEF HInv
<1>2. /\ v \in Worlds /\ v.tasks = T /\ v.trees = w.trees /\ v.host = w.host /\ v.code = w.code
      /\ v.reporters = w.reporters /\ v.backend = w.backend /\ v.raised = w.raised
      /\ v.recovered = w.recovered
  BY <1>1 DEF Worlds
<1>3. IsFiniteSet(T)
  <2>1. g \in Surjection(w.tasks, T)
    BY DEF Surjection
  <2> HIDE DEF T, g
  <2> QED BY <2>1, FS_Surjection DEF HInv, Numbered
<1>4. Known(v) /\ Alone(v, u) /\ Leaving(v, u) /\ PutOff(v, u) /\ Updating(v)
  BY <1>2 DEF HInv, Known, Alone, Leaving, PutOff, Updating
<1>5. Counted(v) /\ Listed(v)
  BY <1>2 DEF HInv, Counted, Listed
<1>6. Numbered(v, n)
  BY <1>2, <1>3 DEF HInv, Numbered
<1>7. ASSUME NEW h \in R PROVE Fresh(v, h, n)
  <2>1. Fresh(w, h, n)
    BY DEF HInv
  <2>2. \A x \in w.tasks : Renews(w, x, h) => Renews(v, f[x], h)
    BY <1>2 DEF Renews
  <2> QED BY <1>2, <2>1, <2>2 DEF Fresh
<1> QED BY <1>2, <1>4, <1>5, <1>6, <1>7 DEF HInv

(* Whoever waits for a tree is told. *)
LEMMA WokenKeeps ==
  ASSUME NEW w, NEW u, NEW S \in SUBSET Hosts, NEW n, HInv(w, u, S, n), NEW t,
         NEW state \in {"ready", "error"}
  PROVE  LET v == Woken(w, t, state)
         IN  /\ HInv(v, u, S, n) /\ v.trees = w.trees /\ v.host = w.host /\ v.code = w.code
             /\ v.reporters = w.reporters /\ v.backend = w.backend /\ v.raised = w.raised
<1> DEFINE f == [x \in w.tasks |-> IF x.tree = t /\ x.state = "waiting" THEN [x EXCEPT !.state = state] ELSE x]
<1>1. w.tasks \in SUBSET Tasks
  BY DEF HInv, Worlds
<1>2. \A x \in w.tasks :
        /\ f[x] \in Tasks /\ f[x].id = x.id /\ f[x].host = x.host /\ f[x].kind = x.kind
        /\ f[x].tree = x.tree
        /\ f[x].state \in {"cancelled", "dropped"} => x.state \in {"cancelled", "dropped"}
  BY <1>1 DEF Tasks
<1>3. Woken(w, t, state) = [w EXCEPT !.tasks = {f[x] : x \in w.tasks}]
  <2>1. {f[x] : x \in w.tasks} = {IF x.tree = t /\ x.state = "waiting" THEN [x EXCEPT !.state = state] ELSE x :
                                     x \in w.tasks}
    OBVIOUS
  <2> QED BY <2>1 DEF Woken
<1> HIDE DEF f
<1> QED BY <1>2, <1>3, MappedKeeps

(* The task of a screen is cancelled. *)
LEMMA CancelledKeeps ==
  ASSUME NEW w, NEW S \in SUBSET Hosts, NEW n, HInv(w, None, S, n), NEW h \in Hosts
  PROVE  LET v == Cancelled(w, h)
         IN  /\ HInv(v, None, S \ {h}, n) /\ v.trees = w.trees /\ v.host = w.host /\ v.code = w.code
             /\ v.reporters = w.reporters /\ v.backend = w.backend /\ v.raised = w.raised
<1> DEFINE R == S \ {h}
           E == {x \in w.tasks : x.host = h /\ x.id = w.host[h].task}
           f == [x \in w.tasks |-> IF x \in E THEN [x EXCEPT !.state =
                                      IF x.state = "new" THEN "dropped" ELSE "cancelled"] ELSE x]
<1>1. w.tasks \in SUBSET Tasks
  BY DEF HInv, Worlds
<1>2. \A x \in w.tasks :
        /\ f[x] \in Tasks /\ f[x].id = x.id /\ f[x].host = x.host /\ f[x].kind = x.kind
        /\ f[x].tree = x.tree
        /\ x.host \in R /\ f[x].state \in {"cancelled", "dropped"} => x.state \in {"cancelled", "dropped"}
  BY <1>1 DEF Tasks
<1>3. Cancelled(w, h) = [w EXCEPT !.tasks = {f[x] : x \in w.tasks}]
  <2>1. {f[x] : x \in w.tasks} = {IF x \in E THEN [x EXCEPT !.state =
                                     IF x.state = "new" THEN "dropped" ELSE "cancelled"] ELSE x : x \in w.tasks}
    OBVIOUS
  <2> QED BY <2>1 DEF Cancelled
<1>4. R \in SUBSET S
  OBVIOUS
<1> HIDE DEF f, E, R
<1>5. /\ HInv(Cancelled(w, h), None, R, n)
      /\ Cancelled(w, h).trees = w.trees /\ Cancelled(w, h).host = w.host
      /\ Cancelled(w, h).code = w.code /\ Cancelled(w, h).reporters = w.reporters
      /\ Cancelled(w, h).backend = w.backend /\ Cancelled(w, h).raised = w.raised
  BY <1>2, <1>3, <1>4, MappedKeeps
<1> QED BY <1>5 DEF R

(* A task ends: the screens in S did not count on it. *)
Left(w, x) == [w EXCEPT !.tasks = {y \in @ : y.id # x.id}]
LEMMA LeftKeeps ==
  ASSUME NEW w, NEW x \in Tasks, NEW S \in SUBSET Hosts, HInv(w, None, S, x.id)
  PROVE  LET v == Left(w, x)
         IN  /\ HInv(v, None, S, None) /\ v.trees = w.trees /\ v.host = w.host /\ v.code = w.code
             /\ v.reporters = w.reporters /\ v.backend = w.backend /\ v.raised = w.raised
<1> DEFINE T == {y \in w.tasks : y.id # x.id}
           left == Left(w, x)
<1>1. w \in Worlds
  BY DEF HInv
<1>2. /\ left \in Worlds /\ left.tasks = T /\ left.trees = w.trees /\ left.host = w.host
      /\ left.code = w.code /\ left.reporters = w.reporters /\ left.backend = w.backend
      /\ left.recovered = w.recovered /\ left.raised = w.raised
  BY <1>1 DEF Worlds, Left
<1> HIDE DEF left
<1>3. Known(left) /\ Alone(left, None) /\ Leaving(left, None) /\ PutOff(left, None) /\ Updating(left)
  BY <1>2 DEF HInv, Known, Alone, Leaving, PutOff, Updating
<1>4. Numbered(left, None)
  <2>1. IsFiniteSet(T)
    BY FS_Subset DEF HInv, Numbered
  <2> QED BY <1>2, <2>1 DEF HInv, Numbered
<1>5. Counted(left) /\ Listed(left)
  BY <1>2 DEF HInv, Counted, Listed
<1>6. \A h \in S : Fresh(left, h, None)
  <2>1. \A y \in w.tasks : y.id # None
    BY <1>1 DEF Worlds, Tasks, None
  <2> QED BY <1>2, <2>1 DEF HInv, Fresh, Renews
<1>7. HInv(left, None, S, None)
  BY <1>2, <1>3, <1>4, <1>5, <1>6 DEF HInv
<1> QED BY <1>2, <1>7 DEF left

LEMMA EndedKeeps ==
  ASSUME NEW w, NEW x \in Tasks, NEW S \in SUBSET Hosts, HInv(w, None, S, x.id)
  PROVE  LET v == Ended(w, x) IN HInv(v, None, S, None) /\ v.code = w.code
<1> DEFINE v == Ended(w, x)
           left == Left(w, x)
           f == [left.host[x.host] EXCEPT !.task = None]
<1>1. x.host \in Hosts
  BY DEF Tasks
<1>2. HInv(left, None, S, None) /\ left.code = w.code
  BY LeftKeeps
<1>3. left = [w EXCEPT !.tasks = {y \in @ : y.id # x.id}]
  BY DEF Left
<1> HIDE DEF left
<1>4. left \in Worlds /\ left.host \in [Hosts -> HostFields] /\ Counted(left)
  BY <1>2 DEF HInv, Worlds
<1>8. CASE x.kind # "refresh"
  <2>1. v = left
    BY <1>3, <1>8 DEF Ended
  <2> QED BY <1>2, <2>1 DEF v
<1>9. CASE x.kind = "refresh"
  <2>1. v = WithHost(left, x.host, f)
    BY <1>3, <1>4, <1>9 DEF Ended, Worlds, WithHost
  <2>2. left.host[x.host] \in HostFields
    BY <1>1, <1>4
  <2>3. f \in HostFields /\ f.current = left.host[x.host].current /\ f.born = left.host[x.host].born
        /\ f.error = left.host[x.host].error /\ f.recent = left.host[x.host].recent
        /\ f.gaveUp = left.host[x.host].gaveUp
    BY <2>2 DEF HostFields, None
  <2> HIDE DEF f, v
  <2>4. Marks(left, v, x.host) /\ v.host[x.host] = f /\ Counted(v)
    BY <1>1, <1>4, <2>1, <2>3, HostMarks
  <2>5. HInv(v, None, S, None)
    BY <1>1, <1>2, <2>3, <2>4, MarksKeep
  <2> QED BY <1>2, <2>4, <2>5 DEF Marks, v
<1> QED BY <1>8, <1>9

(* A tree that is updated is the one its screen shows. *)
LEMMA Updatable ==
  ASSUME NEW w, NEW S \in SUBSET Hosts, NEW n, HInv(w, None, S, n), NEW t \in DOMAIN w.trees,
         w.trees[t].root, ~Pending(w, t)
  PROVE  /\ w.host[w.trees[t].owner].current = t /\ ~w.trees[t].unmount
         /\ \A x \in w.tasks : x.kind = "remount" => x.tree # t
<1>1. t # None
  BY TreeFacts DEF HInv, None
<1> QED BY <1>1, TreeFacts DEF HInv, PutOff, Alone, Leaving, Pending, None, Worlds, Tasks

(* Fast Refresh puts the new code into the tree that is there. *)
LEMMA FastRefreshKeeps ==
  ASSUME NEW w, NEW h \in Hosts, NEW S \in SUBSET Hosts, NEW n, HInv(w, None, S, n),
         w.host[h].current \in DOMAIN w.trees, w.trees[w.host[h].current].root,
         ~Pending(w, w.host[h].current)
  PROVE  LET v == FastRefresh(w, h)
         IN  HInv(v, None, S \cup {h}, n) /\ v.code = w.code /\ v.reporters = w.reporters
<1> DEFINE t == w.host[h].current
           y == Commit(w, t, "update")
           x == [y.trees[t] EXCEPT !.code = w.code]
           v == FastRefresh(w, h)
<1>1. w \in Worlds /\ Known(w) /\ w.code \in Nat
  BY DEF HInv, Worlds
<1>2. /\ Touches(w, y, t) /\ (y.trees[t].kind = "update" => y.trees[t].root)
      /\ y.trees[t].unmount = w.trees[t].unmount
  BY <1>1, CommitTouches
<1>3. y \in Worlds /\ Known(y) /\ t \in DOMAIN y.trees
  <2>1. y \in Worlds /\ w.trees \in Seq(Trees) /\ y.trees \in Seq(Trees)
    BY <1>1, <1>2 DEF Touches, Worlds
  <2> HIDE DEF y
  <2>2. DOMAIN y.trees = DOMAIN w.trees
    BY <1>2, <2>1 DEF Touches
  <2> QED BY <1>1, <1>2, <2>1, <2>2 DEF Touches, Known
<1>4. v = [y EXCEPT !.trees[t].code = w.code]
  BY DEF FastRefresh
<1> HIDE DEF y
<1>5. y.trees \in Seq(Trees) /\ y.trees[t] \in Trees /\ t \in Nat \ {0}
  BY <1>3, TreeFacts DEF Worlds
<1>6. /\ x \in Trees /\ x.owner = y.trees[t].owner /\ x.code = w.code /\ x.kind = y.trees[t].kind
      /\ x.root = y.trees[t].root /\ x.unmount = y.trees[t].unmount
  BY <1>1, <1>5 DEF Trees
<1>7. v = [y EXCEPT !.trees = [y.trees EXCEPT ![t] = x]]
  BY <1>3, <1>4, <1>5 DEF Worlds
<1> HIDE DEF x, v
<1>8. Put(y, v, t, x, y.backend)
  BY <1>3, <1>6, <1>7 DEF Put, Worlds, Known
<1>9. y.code = w.code
  BY <1>2 DEF Touches
<1>10. Touches(y, v, t) /\ v.trees[t] = x
  BY <1>3, <1>6, <1>8, <1>9, PutTouches
<1>11. Touches(w, v, t)
  <2>1. w.trees \in Seq(Trees) /\ y.trees \in Seq(Trees)
    BY <1>1, <1>3 DEF Worlds
  <2>2. DOMAIN y.trees = DOMAIN w.trees
    BY <1>2, <2>1 DEF Touches
  <2> QED BY <1>2, <1>6, <1>9, <1>10, <2>2 DEF Touches
<1>12. Settles(w, v, t)
  <2>1. /\ w.host[w.trees[t].owner].current = t /\ ~w.trees[t].unmount
        /\ \A z \in w.tasks : z.kind = "remount" => z.tree # t
    BY Updatable
  <2>2. v.trees[t].owner = w.trees[t].owner /\ ~v.trees[t].unmount
    BY <1>2, <1>6, <1>10, <1>11, <2>1 DEF Touches
  <2> QED BY <2>1, <2>2 DEF Settles
<1>13. HInv(v, None, S, n)
  BY <1>2, <1>6, <1>10, <1>11, <1>12, TouchedKeeps
<1>14. Fresh(v, h, n)
  BY <1>6, <1>10, <1>11 DEF Fresh, Touches
<1> QED BY <1>11, <1>13, <1>14 DEF HInv, Touches, v

(* Only the host's error changes. *)
WithError(w, h, e) == [w EXCEPT !.host[h].error = e]
LEMMA ErrorMarks ==
  ASSUME NEW w \in Worlds, NEW h \in Hosts, NEW e \in BOOLEAN
  PROVE  LET v == WithError(w, h, e)
         IN  /\ Marks(w, v, h) /\ v.backend = w.backend /\ v.raised = w.raised
             /\ v.recovered = w.recovered /\ v.host[h].error = e
             /\ Counted(w) => Counted(v)
<1> DEFINE f == [w.host[h] EXCEPT !.error = e]
           v == WithError(w, h, e)
<1>1. w.host \in [Hosts -> HostFields] /\ w.host[h] \in HostFields
  BY DEF Worlds
<1>2. /\ f \in HostFields /\ f.current = w.host[h].current /\ f.born = w.host[h].born /\ f.error = e
      /\ f.recent = w.host[h].recent /\ f.gaveUp = w.host[h].gaveUp
  BY <1>1 DEF HostFields
<1>3. v = WithHost(w, h, f)
  BY <1>1 DEF Worlds, WithHost, WithError
<1> HIDE DEF f, v
<1>4. /\ Marks(w, v, h) /\ v.host[h] = f /\ v.backend = w.backend
      /\ v.raised = w.raised /\ v.recovered = w.recovered /\ (Counted(w) => Counted(v))
  BY <1>1, <1>2, <1>3, HostMarks
<1> QED BY <1>2, <1>4 DEF v

LEMMA ErrorKeeps ==
  ASSUME NEW w, NEW u, NEW S \in SUBSET Hosts, NEW n, HInv(w, u, S, n), NEW h \in Hosts,
         NEW e \in BOOLEAN
  PROVE  LET v == WithError(w, h, e)
         IN  /\ HInv(v, u, S \ {h}, n)
             /\ e => HInv(v, u, S \cup {h}, n)
             /\ e \/ e = w.host[h].error => HInv(v, u, S, n)
<1> DEFINE v == WithError(w, h, e)
<1>1. w \in Worlds /\ Counted(w)
  BY DEF HInv
<1>2. Marks(w, v, h) /\ v.host[h].error = e /\ Counted(v)
  BY <1>1, ErrorMarks
<1> HIDE DEF v
<1>3. /\ HInv(v, u, S \ {h}, n)
      /\ v.host[h].error => HInv(v, u, S \cup {h}, n)
      /\ v.host[h].error \/ v.host[h].error = w.host[h].error => HInv(v, u, S, n)
  BY <1>2, MarksKeep
<1> QED BY <1>2, <1>3 DEF v

(* Another flag for an error that left a handler. *)
LEMMA RaisedKeeps ==
  ASSUME NEW w, NEW u, NEW S \in SUBSET Hosts, NEW n, HInv(w, u, S, n),
         NEW v \in Worlds, v.trees = w.trees, v.host = w.host, v.tasks = w.tasks,
         v.code = w.code, v.reporters = w.reporters, v.recovered = w.recovered,
         v.backend.flight = w.backend.flight, v.backend.queue = w.backend.queue
  PROVE  HInv(v, u, S, n)
<1>1. Known(v) /\ Alone(v, u) /\ Leaving(v, u) /\ PutOff(v, u) /\ Updating(v)
  BY DEF HInv, Known, Alone, Leaving, PutOff, Updating
<1>2. Numbered(v, n) /\ Counted(v) /\ Listed(v) /\ \A h \in S : Fresh(v, h, n)
  BY DEF HInv, Numbered, Counted, Listed, Fresh, Renews
<1> QED BY <1>1, <1>2 DEF HInv

(* refresh *)
LEMMA RefreshedKeeps ==
  ASSUME NEW w, NEW h \in Hosts, NEW force, force \in BOOLEAN, NEW fast,
         NEW S \in SUBSET Hosts, NEW n, HInv(w, None, S, n)
  PROVE  LET v == Refreshed(w, h, force, fast)
         IN  HInv(v, None, S \cup {h}, n) /\ v.code = w.code /\ v.reporters = w.reporters
<1> DEFINE v == Refreshed(w, h, force, fast)
           clear == WithError(w, h, FALSE)
           again == FullRemount(clear, h)
           R == S \ {h}
<1>1. CASE w.host[h].current = None
  <2>1. v = w
    BY <1>1 DEF Refreshed
  <2>2. Fresh(w, h, n)
    BY <1>1 DEF Fresh
  <2> QED BY <2>1, <2>2 DEF HInv
<1>2. R \in SUBSET Hosts /\ R \cup {h} = S \cup {h}
  OBVIOUS
<1>3. /\ clear.trees = w.trees /\ clear.tasks = w.tasks /\ clear.code = w.code
      /\ clear.reporters = w.reporters /\ clear.backend = w.backend
      /\ clear.host[h].current = w.host[h].current /\ HInv(clear, None, R, n)
  <2>1. Marks(w, clear, h) /\ clear.backend = w.backend /\ HInv(clear, None, R, n)
    <3>1. PICK e \in BOOLEAN : clear = WithError(w, h, e)
      OBVIOUS
    <3>2. w \in Worlds
      BY DEF HInv
    <3> HIDE DEF clear, R
    <3>3. Marks(w, clear, h) /\ clear.backend = w.backend
      BY <3>1, <3>2, ErrorMarks
    <3>4. HInv(clear, None, S \ {h}, n)
      BY <3>1, ErrorKeeps
    <3> QED BY <3>3, <3>4 DEF R
  <2> QED BY <2>1 DEF Marks
<1>4. w.host[h].current # None => w.host[h].current \in DOMAIN w.trees
  <2>1. w.trees \in Seq(Trees) /\ w.host[h].current \in 0..Len(w.trees)
    BY DEF HInv, Known, Worlds
  <2> QED BY <2>1 DEF None
<1> HIDE DEF clear, R
<1>5. CASE w.host[h].current # None /\ Pending(w, w.host[h].current)
  <2> DEFINE y == Cancelled(clear, h)
  <2>1. v = Spawn(y, h, "refresh", None, force)
    BY <1>5 DEF Refreshed, clear, WithError
  <2>2. /\ HInv(y, None, R \ {h}, n) /\ y.trees = clear.trees /\ y.host = clear.host
        /\ y.code = clear.code /\ y.reporters = clear.reporters
    BY <1>2, <1>3, CancelledKeeps
  <2>3. R \ {h} = R /\ HInv(y, None, R, n)
    <3>1. R \ {h} = R
      BY DEF R
    <3> QED BY <2>2, <3>1
  <2> HIDE DEF y
  <2>4. None \in Nat
    BY DEF None
  <2>5. LET z == Spawn(y, h, "refresh", None, force)
        IN  HInv(z, None, R \cup {h}, n) /\ z.code = y.code /\ z.reporters = y.reporters
    BY <1>2, <2>2, <2>3, <2>4, SpawnKeeps
  <2> QED BY <1>2, <1>3, <2>1, <2>2, <2>5
<1>6. CASE w.host[h].current # None /\ ~Pending(w, w.host[h].current) /\ fast /\ CanFastRefresh(w, h, force)
  <2>1. v = FastRefresh(clear, h)
    BY <1>6 DEF Refreshed, clear, WithError
  <2>2. clear.trees[clear.host[h].current].root /\ ~Pending(clear, clear.host[h].current)
    BY <1>3, <1>6 DEF CanFastRefresh, Pending
  <2>3. LET z == FastRefresh(clear, h)
        IN  HInv(z, None, R \cup {h}, n) /\ z.code = clear.code /\ z.reporters = clear.reporters
    BY <1>2, <1>3, <1>4, <1>6, <2>2, FastRefreshKeeps
  <2> QED BY <1>2, <1>3, <2>1, <2>3
<1>7. CASE /\ w.host[h].current # None /\ ~Pending(w, w.host[h].current)
           /\ ~(fast /\ CanFastRefresh(w, h, force))
  <2>1. v = [again EXCEPT !.host[h].error = @ \/ again.raised, !.raised = FALSE]
    BY <1>7 DEF Refreshed, clear, WithError
  <2>2. /\ HInv(again, None, R, n) /\ again.code = clear.code /\ again.reporters = clear.reporters
        /\ again.raised \/ HInv(again, None, R \cup {h}, n)
    BY <1>2, <1>3, <1>7, FullRemountKeeps
  <2> HIDE DEF again
  <2>3. again \in Worlds /\ again.raised \in BOOLEAN /\ again.host \in [Hosts -> HostFields]
        /\ again.host[h].error \in BOOLEAN
    BY <2>2 DEF HInv, Worlds, HostFields
  <2> DEFINE e == again.host[h].error \/ again.raised
             y == WithError(again, h, e)
             Q == R \cup {h}
  <2>4. v = [y EXCEPT !.raised = FALSE] /\ e \in BOOLEAN /\ Q \in SUBSET Hosts
    BY <1>2, <2>1, <2>3 DEF Worlds, WithError
  <2> HIDE DEF e
  <2>10. Marks(again, y, h)
    BY <2>3, <2>4, ErrorMarks
  <2>5. HInv(y, None, Q, n) /\ Marks(again, y, h)
    <3>1. CASE again.raised
      BY <1>2, <2>2, <2>4, <2>10, <3>1, ErrorKeeps DEF e
    <3>2. CASE ~again.raised
      <4>1. HInv(again, None, Q, n) /\ e = again.host[h].error
        BY <2>2, <2>3, <3>2 DEF e
      <4> HIDE DEF Q
      <4> QED BY <2>4, <2>10, <4>1, ErrorKeeps
    <3> QED BY <3>1, <3>2
  <2> HIDE DEF y, Q, v
  <2>6. y \in Worlds
    BY <2>5 DEF HInv
  <2>7. /\ v \in Worlds /\ v.trees = y.trees /\ v.host = y.host /\ v.tasks = y.tasks
        /\ v.code = y.code /\ v.reporters = y.reporters /\ v.recovered = y.recovered
        /\ v.backend.flight = y.backend.flight /\ v.backend.queue = y.backend.queue
    BY <2>4, <2>6 DEF Worlds
  <2>8. HInv(v, None, Q, n)
    BY <2>4, <2>5, <2>7, RaisedKeeps
  <2>9. v.code = w.code /\ v.reporters = w.reporters
    BY <1>3, <2>2, <2>5, <2>7 DEF Marks
  <2> QED BY <1>2, <2>8, <2>9 DEF Q, v
<1> QED BY <1>1, <1>5, <1>6, <1>7

---------------------------------------------------------------------------
(* A reload refreshes the screens one after the other.                      *)
(* The table of its intermediate worlds, for the sets of places in the list, *)
(* exists by induction on the largest place.                                *)
Refreshing(w, force, fast, f, s) ==
  IF s = {} THEN w
  ELSE LET i == Max(s) IN Refreshed(f[s \ {i}], w.reporters[i], force, fast)

LEMMA MaxIn ==
  ASSUME NEW m \in Nat, NEW s \in SUBSET (1..m), s # {}
  PROVE  Max(s) \in s /\ \A y \in s : y <= Max(s)
<1> DEFINE T == {k \in Nat : \A r \in SUBSET (1..k) : r # {} => \E x \in r : \A y \in r : x >= y}
<1>1. 0 \in T
  <2>1. 1..0 = {}
    OBVIOUS
  <2> QED BY <2>1
<1>2. ASSUME NEW k \in T PROVE k + 1 \in T
  <2> SUFFICES ASSUME NEW r \in SUBSET (1..k + 1), r # {} PROVE \E x \in r : \A y \in r : x >= y
    OBVIOUS
  <2>1. CASE k + 1 \in r
    BY <2>1
  <2>2. CASE k + 1 \notin r
    <3>1. r \in SUBSET (1..k)
      BY <2>2
    <3> QED BY <3>1
  <2> QED BY <2>1, <2>2
<1>3. m \in T
  <2> HIDE DEF T
  <2>1. T \in SUBSET Nat
    BY DEF T
  <2> QED BY <1>1, <1>2, <2>1, NatSetInduction
<1> QED BY <1>3 DEF Max

IsTable(w, force, fast, m, f) == f = [s \in SUBSET (1..m) |-> Refreshing(w, force, fast, f, s)]

LEMMA RoundsExist ==
  ASSUME NEW w, NEW force, NEW fast, NEW m \in Nat
  PROVE  \E f : IsTable(w, force, fast, m, f)
<1> DEFINE P(k) == {s \in SUBSET (1..m) : s \subseteq 1..k}
           T == {k \in Nat : \E f : f = [s \in P(k) |-> Refreshing(w, force, fast, f, s)]}
<1>1. 0 \in T
  <2> DEFINE f == [s \in P(0) |-> w]
  <2>1. \A s \in P(0) : s = {}
    OBVIOUS
  <2>2. f = [s \in P(0) |-> Refreshing(w, force, fast, f, s)]
    BY <2>1 DEF Refreshing
  <2> HIDE DEF f, P
  <2> QED BY <2>2
<1>2. ASSUME NEW k \in T PROVE k + 1 \in T
  <2> PICK f : f = [s \in P(k) |-> Refreshing(w, force, fast, f, s)]
    BY <1>2
  <2> DEFINE g == [s \in P(k + 1) |-> Refreshing(w, force, fast, f, s)]
  <2>1. \A s \in P(k) : f[s] = Refreshing(w, force, fast, f, s) /\ g[s] = f[s]
    BY <1>2
  <2>2. ASSUME NEW s \in P(k + 1), s # {} PROVE s \ {Max(s)} \in P(k)
    <3>1. Max(s) \in s /\ (\A y \in s : y <= Max(s)) /\ s \subseteq 1..k + 1 /\ k \in Nat
      BY <1>2, <2>2, MaxIn
    <3> DEFINE i == Max(s)
    <3>2. i \in 1..k + 1 /\ i \in s /\ \A y \in s : y <= i
      BY <3>1
    <3> HIDE DEF i
    <3>3. s \ {i} \subseteq 1..k
      <4> SUFFICES ASSUME NEW y \in s, y # i PROVE y \in 1..k
        OBVIOUS
      <4>1. y \in 1..k + 1 /\ y <= i
        BY <3>1, <3>2
      <4> QED BY <3>1, <3>2, <4>1
    <3>4. s \ {i} \in SUBSET (1..m)
      OBVIOUS
    <3> QED BY <3>3, <3>4 DEF i
  <2>3. ASSUME NEW s \in P(k + 1) PROVE g[s] = Refreshing(w, force, fast, g, s)
    <3>1. s # {} => g[s \ {Max(s)}] = f[s \ {Max(s)}]
      BY <2>1, <2>2
    <3>2. g[s] = Refreshing(w, force, fast, f, s)
      OBVIOUS
    <3> HIDE DEF g
    <3> QED BY <3>1, <3>2 DEF Refreshing
  <2>4. g = [s \in P(k + 1) |-> Refreshing(w, force, fast, g, s)]
    <3>1. g = [s \in P(k + 1) |-> g[s]]
      OBVIOUS
    <3> HIDE DEF g
    <3> QED BY <2>3, <3>1
  <2> HIDE DEF g, P
  <2> QED BY <1>2, <2>4
<1>3. m \in T
  <2> HIDE DEF T
  <2>1. T \in SUBSET Nat
    BY DEF T
  <2> QED BY <1>1, <1>2, <2>1, NatSetInduction
<1>4. P(m) = SUBSET (1..m)
  OBVIOUS
<1> QED BY <1>3, <1>4 DEF IsTable

Renewed(w, force, fast, hs) == FoldLeft(LAMBDA y, h : Refreshed(y, h, force, fast), w, hs)
LEMMA FoldKeeps ==
  ASSUME NEW w, HInv(w, None, {}, None), NEW force, force \in BOOLEAN, NEW fast,
         NEW rs, rs = w.reporters
  PROVE  LET v == Renewed(w, force, fast, rs)
         IN  HInv(v, None, Hosts, None)
<1> DEFINE m == Len(rs)
           P == SUBSET (1..m)
           Told(s) == {rs[i] : i \in s}
           iter == CHOOSE f : IsTable(w, force, fast, m, f)
           T == {k \in Nat : \A s \in P : s \subseteq 1..k =>
                   HInv(iter[s], None, Told(s), None) /\ iter[s].reporters = rs}
<1>1. rs \in Seq(Hosts) /\ m \in Nat /\ DOMAIN rs = 1..m /\ \A i \in 1..m : rs[i] \in Hosts
  BY DEF HInv, Worlds
<1>2. Renewed(w, force, fast, rs) = iter[1..m]
  BY <1>1 DEF Renewed, FoldLeft, MapThenFoldSet, Refreshing, IsTable
<1>3. \A s \in P : iter[s] = Refreshing(w, force, fast, iter, s)
  <2>1. \E f : IsTable(w, force, fast, m, f)
    BY <1>1, RoundsExist
  <2>2. iter = [s \in P |-> Refreshing(w, force, fast, iter, s)]
    BY <2>1 DEF IsTable
  <2> HIDE DEF iter
  <2> QED BY <2>2
<1> HIDE DEF iter
<1>4. 0 \in T
  <2>1. \A s \in P : s \subseteq 1..0 => s = {}
    OBVIOUS
  <2>2. iter[{}] = w
    BY <1>3 DEF Refreshing
  <2>3. Told({}) = {}
    OBVIOUS
  <2>4. HInv(iter[{}], None, Told({}), None) /\ iter[{}].reporters = rs
    BY <2>2, <2>3
  <2> HIDE DEF Told, m
  <2> QED BY <2>1, <2>4
<1>5. ASSUME NEW k \in T PROVE k + 1 \in T
  <2> SUFFICES ASSUME NEW s \in P, s \subseteq 1..k + 1, s # {}
               PROVE  HInv(iter[s], None, Told(s), None) /\ iter[s].reporters = rs
    <3>1. HInv(iter[{}], None, Told({}), None) /\ iter[{}].reporters = rs
      <4>1. iter[{}] = w /\ Told({}) = {}
        BY <1>3 DEF Refreshing
      <4> QED BY <4>1
    <3>2. k + 1 \in Nat
      OBVIOUS
    <3> HIDE DEF Told, m
    <3> QED BY <3>1, <3>2
  <2> DEFINE i == Max(s)
             r == s \ {i}
  <2>1. i \in s /\ (\A y \in s : y <= i) /\ k \in Nat
    BY <1>1, MaxIn
  <2>2. r \in P /\ r \subseteq 1..k /\ i \in 1..m
    <3> HIDE DEF i, m
    <3>1. i \in 1..k + 1 /\ i \in 1..m
      BY <2>1
    <3>2. \A y \in r : y \in 1..k + 1 /\ y <= i /\ y # i
      BY <2>1
    <3>3. \A y \in r : y \in 1..k
      BY <2>1, <3>1, <3>2
    <3> QED BY <3>1, <3>3
  <2>3. iter[s] = Refreshed(iter[r], rs[i], force, fast)
    BY <1>3 DEF Refreshing
  <2> HIDE DEF i
  <2>4. HInv(iter[r], None, Told(r), None) /\ iter[r].reporters = rs
    BY <2>2
  <2>5. Told(s) = Told(r) \cup {rs[i]} /\ Told(r) \in SUBSET Hosts /\ rs[i] \in Hosts
    BY <1>1, <2>1, <2>2
  <2> DEFINE y == iter[r]
             h == rs[i]
             z == Refreshed(y, h, force, fast)
  <2>6. HInv(y, None, Told(r), None) /\ y.reporters = rs /\ h \in Hosts
    BY <2>4, <2>5
  <2> HIDE DEF Told, r, y, h
  <2>7. HInv(z, None, Told(r) \cup {h}, None) /\ z.reporters = y.reporters
    <3> DEFINE Q == Told(r)
    <3>1. Q \in SUBSET Hosts /\ HInv(y, None, Q, None)
      BY <2>5, <2>6
    <3> HIDE DEF Q
    <3>2. HInv(z, None, Q \cup {h}, None)
      BY <2>6, <3>1, RefreshedKeeps
    <3>3. z.reporters = y.reporters
      BY <2>6, <3>1, <3>2, RefreshedKeeps
    <3> QED BY <3>2, <3>3 DEF Q
  <2> QED BY <2>3, <2>5, <2>6, <2>7 DEF y, h
<1>6. m \in T
  <2> HIDE DEF T
  <2>1. T \in SUBSET Nat
    BY DEF T
  <2> QED BY <1>1, <1>4, <1>5, <2>1, NatSetInduction
<1>7. HInv(iter[1..m], None, Told(1..m), None) /\ iter[1..m].reporters = rs
  BY <1>6
<1>8. \A h \in Hosts : Fresh(iter[1..m], h, None)
  <2> SUFFICES ASSUME NEW h \in Hosts, h \notin Told(1..m) PROVE Fresh(iter[1..m], h, None)
    BY <1>7 DEF HInv
  <2>1. iter[1..m].host[h].current = None
    BY <1>1, <1>7 DEF HInv, Listed
  <2> QED BY <2>1 DEF Fresh
<1> QED BY <1>2, <1>7, <1>8 DEF HInv

---------------------------------------------------------------------------
(* The actions. *)

(* The world an action leaves is the next state. *)
LEMMA BecomeKeeps ==
  ASSUME NEW w, HInv(w, None, Hosts, None), Become(w), dev \in BOOLEAN
  PROVE  IInv'
<1> DEFINE v == [backend |-> w.backend, trees |-> w.trees, host |-> w.host, tasks |-> w.tasks,
                 code |-> w.code, reporters |-> w.reporters, recovered |-> w.recovered,
                 raised |-> FALSE]
<1>1. v \in Worlds
  BY DEF HInv, Worlds
<1>2. HInv(v, None, Hosts, None)
  BY <1>1, RaisedKeeps
<1>3. World' = v /\ dev' = dev
  BY DEF World, Become
<1> HIDE DEF v
<1>4. \A h \in Hosts : Fresh(v, h, None) /\ (dev' /\ v.host[h].current # None =>
        \/ v.trees[v.host[h].current].code = v.code
        \/ v.host[h].error
        \/ \E x \in v.tasks : x.id # None /\ Renews(v, x, h))
  BY <1>2, <1>3 DEF HInv, Fresh
<1> QED BY <1>2, <1>3, <1>4 DEF IInv, HInv, Fresh

(* An error is shown, or none. *)
LEMMA NotedKeeps ==
  ASSUME NEW w, NEW S \in SUBSET Hosts, NEW n, HInv(w, None, S, n), NEW h \in Hosts,
         NEW b, b \in BOOLEAN
  PROVE  LET v == [w EXCEPT !.host[h].error = @ \/ b]
         IN  HInv(v, None, S, n) /\ (b => HInv(v, None, S \cup {h}, n)) 
<1> DEFINE e == w.host[h].error \/ b
           v == [w EXCEPT !.host[h].error = @ \/ b]
<1>1. w \in Worlds /\ w.host[h].error \in BOOLEAN /\ e \in BOOLEAN
  BY DEF HInv, Worlds, HostFields
<1>2. v = WithError(w, h, e)
  BY <1>1 DEF WithError, HInv, Worlds
<1>3. b => e
  OBVIOUS
<1>4. e \/ e = w.host[h].error
  BY <1>1
<1> HIDE DEF e, v
<1>5. HInv(v, None, S, n)
  BY <1>1, <1>2, <1>4, ErrorKeeps
<1>6. e => HInv(v, None, S \cup {h}, n)
  BY <1>1, <1>2, ErrorKeeps
<1> QED BY <1>3, <1>5, <1>6 DEF v

LEMMA MinIn ==
  ASSUME NEW m \in Nat, NEW s \in SUBSET (1..m), s # {}
  PROVE  Min(s) \in s
<1> DEFINE T == {k \in Nat : \A r \in SUBSET (1..k) : r # {} => \E x \in r : \A y \in r : x <= y}
<1>1. 0 \in T
  <2>1. 1..0 = {}
    OBVIOUS
  <2> QED BY <2>1
<1>2. ASSUME NEW k \in T PROVE k + 1 \in T
  <2> SUFFICES ASSUME NEW r \in SUBSET (1..k + 1), r # {} PROVE \E x \in r : \A y \in r : x <= y
    OBVIOUS
  <2>1. CASE r = {k + 1}
    BY <2>1
  <2>2. CASE r # {k + 1}
    <3>1. r \ {k + 1} \in SUBSET (1..k) /\ r \ {k + 1} # {}
      BY <2>2
    <3>2. PICK x \in r \ {k + 1} : \A y \in r \ {k + 1} : x <= y
      BY <3>1
    <3>3. x \in 1..k /\ x <= k + 1
      BY <3>1
    <3> QED BY <3>2, <3>3
  <2> QED BY <2>1, <2>2
<1>3. m \in T
  <2> HIDE DEF T
  <2>1. T \in SUBSET Nat
    BY DEF T
  <2> QED BY <1>1, <1>2, <2>1, NatSetInduction
<1> QED BY <1>3 DEF Min

(* Without the first e, a list has all the others that it had. *)
LEMMA RemoveFirstKeeps ==
  ASSUME NEW S, NEW s \in Seq(S), NEW e
  PROVE  LET r == RemoveFirst(s, e)
         IN  /\ r \in Seq(S)
             /\ \A i \in DOMAIN s : s[i] # e => \E j \in DOMAIN r : r[j] = s[i]
<1> DEFINE I == {i \in 1..Len(s) : s[i] = e}
           r == RemoveFirst(s, e)
<1>1. CASE I = {}
  BY <1>1 DEF RemoveFirst
<1>2. CASE I # {}
  <2> DEFINE k == Min(I)
             a == SubSeq(s, 1, k - 1)
             b == SubSeq(s, k + 1, Len(s))
  <2>1. k \in 1..Len(s) /\ s[k] = e
    <3>1. k \in I
      <4>1. Len(s) \in Nat /\ I \in SUBSET (1..Len(s))
        OBVIOUS
      <4> HIDE DEF I
      <4> QED BY <1>2, <4>1, MinIn
    <3> HIDE DEF k
    <3> QED BY <3>1
  <2>2. r = a \o b
    BY <1>2 DEF RemoveFirst, RemoveAt, SelectInSeq
  <2> HIDE DEF k
  <2>3. /\ a \in Seq(S) /\ b \in Seq(S) /\ Len(a) = k - 1 /\ Len(b) = Len(s) - k
        /\ \A j \in 1..k - 1 : a[j] = s[j]
        /\ \A j \in 1..Len(s) - k : b[j] = s[k + j]
    BY <2>1
  <2> HIDE DEF a, b, r
  <2>4. /\ r \in Seq(S) /\ Len(r) = Len(s) - 1
        /\ \A j \in 1..k - 1 : r[j] = s[j]
        /\ \A j \in k + 1..Len(s) : r[j - 1] = s[j]
    <3>1. r \in Seq(S) /\ Len(r) = Len(s) - 1
      BY <2>1, <2>2, <2>3
    <3>2. \A j \in 1..k - 1 : r[j] = s[j]
      BY <2>1, <2>2, <2>3
    <3>3. ASSUME NEW j \in k + 1..Len(s) PROVE r[j - 1] = s[j]
      <4>1. j - k \in 1..Len(s) - k /\ b[j - k] = s[j]
        BY <2>1, <2>3
      <4>2. j - 1 = Len(a) + (j - k) /\ j - 1 \in Len(a) + 1..Len(a) + Len(b)
        BY <2>1, <2>3
      <4>3. (a \o b)[j - 1] = b[j - 1 - Len(a)]
        BY <2>3, <4>2, ConcatProperties
      <4>4. j - 1 - Len(a) = j - k
        BY <2>1, <2>3
      <4> QED BY <2>2, <4>1, <4>3, <4>4
    <3> QED BY <3>1, <3>2, <3>3
  <2>5. ASSUME NEW i \in DOMAIN s, s[i] # e PROVE \E j \in DOMAIN r : r[j] = s[i]
    <3>1. i \in 1..k - 1 \/ i \in k + 1..Len(s)
      BY <2>1, <2>5
    <3>2. CASE i \in 1..k - 1
      <4>1. i \in DOMAIN r
        BY <2>1, <2>4, <3>2
      <4> QED BY <2>4, <3>2, <4>1
    <3>3. CASE i \in k + 1..Len(s)
      <4>1. i - 1 \in DOMAIN r
        BY <2>1, <2>4, <3>3
      <4> QED BY <2>4, <3>3, <4>1
    <3> QED BY <3>1, <3>2, <3>3
  <2> QED BY <2>4, <2>5 DEF r
<1> QED BY <1>1, <1>2

LEMMA CreateKeeps == ASSUME IInv, NEW h \in Hosts, Create(h) PROVE IInv'
<1> DEFINE f == [host[h] EXCEPT !.born = TRUE]
           y == [World EXCEPT !.host[h].born = TRUE, !.reporters = Append(@, h)]
           w == Begin(y, h)
           v == [w EXCEPT !.host[h].error = @ \/ (dev /\ w.raised)]
<1>1. HInv(World, None, Hosts, None) /\ dev \in BOOLEAN /\ ~host[h].born /\ Become(v)
  BY DEF IInv, Create
<1>2. /\ World \in Worlds /\ host \in [Hosts -> HostFields] /\ host[h] \in HostFields
      /\ reporters \in Seq(Hosts) /\ Append(reporters, h) \in Seq(Hosts)
  BY <1>1, AppendProperties DEF HInv, Worlds, World
<1>3. f \in HostFields /\ f.born /\ f.current = host[h].current /\ f.error = host[h].error
      /\ f.recent = host[h].recent /\ f.gaveUp = host[h].gaveUp
  BY <1>2 DEF HostFields
<1>4. /\ y.trees = trees /\ y.backend = backend /\ y.tasks = tasks /\ y.code = code
      /\ y.recovered = recovered /\ y.raised = FALSE
      /\ y.host = [host EXCEPT ![h] = f] /\ y.reporters = Append(reporters, h)
  BY <1>2 DEF World
<1> HIDE DEF f
<1>5. y \in Worlds
  <2>1. y.host \in [Hosts -> HostFields]
    BY <1>2, <1>3, <1>4
  <2>2. y = [World EXCEPT !.host = y.host, !.reporters = Append(reporters, h)]
    BY <1>4 DEF World
  <2> HIDE DEF y
  <2> QED BY <1>2, <2>1, <2>2 DEF Worlds
<1> HIDE DEF y
<1>6. host[h].current = None
  BY <1>1 DEF HInv, Listed, World
<1>7. \A g \in Hosts : /\ y.host[g].current = host[g].current /\ y.host[g].error = host[g].error
                       /\ y.host[g].recent = host[g].recent /\ y.host[g].gaveUp = host[g].gaveUp
                       /\ host[g].born => y.host[g].born
  BY <1>2, <1>3, <1>4
<1>8. Known(y) /\ Alone(y, None) /\ Leaving(y, None) /\ PutOff(y, None) /\ Updating(y)
  BY <1>1, <1>2, <1>4, <1>7, TreeFacts DEF HInv, Known, Alone, Leaving, PutOff, Updating, World
<1>9. Numbered(y, None) /\ Counted(y)
  BY <1>1, <1>4, <1>7 DEF HInv, Numbered, Counted, World
<1>10. Listed(y)
  <2>1. \A i \in DOMAIN reporters : i \in DOMAIN y.reporters /\ y.reporters[i] = reporters[i]
    BY <1>2, <1>4, AppendProperties
  <2>2. Listed(World) /\ World.host = host /\ World.reporters = reporters
    BY <1>1 DEF HInv, World
  <2> QED BY <1>7, <2>1, <2>2 DEF Listed
<1>11. \A g \in Hosts : Fresh(y, g, None)
  BY <1>1, <1>4, <1>7 DEF HInv, Fresh, Renews, World
<1>12. HInv(y, None, Hosts, None)
  BY <1>5, <1>8, <1>9, <1>10, <1>11 DEF HInv
<1>13. y.host[h].born /\ \E i \in DOMAIN y.reporters : y.reporters[i] = h
  <2>1. y.host[h].born
    BY <1>2, <1>3, <1>4
  <2>2. Append(reporters, h)[Len(reporters) + 1] = h /\ Len(reporters) + 1 \in DOMAIN Append(reporters, h)
    BY <1>2, AppendProperties
  <2> QED BY <1>4, <2>1, <2>2
<1>14. \A t \in DOMAIN y.trees : y.trees[t].owner = h /\ y.trees[t].root => y.trees[t].unmount
  BY <1>5, <1>6, <1>7, <1>8, TreeFacts DEF Alone, None
<1>15. HInv(w, None, Hosts \cup {h}, None)
  BY <1>12, <1>13, <1>14, BeginKeeps
<1> HIDE DEF w
<1>16. HInv(w, None, Hosts, None) /\ (dev /\ w.raised) \in BOOLEAN
  BY <1>15 DEF HInv
<1>17. HInv(v, None, Hosts, None)
  BY <1>16, NotedKeeps
<1> QED BY <1>1, <1>17, BecomeKeeps

LEMMA DestroyKeeps == ASSUME IInv, NEW h \in Hosts, Destroy(h) PROVE IInv'
<1> USE DEF None
<1> DEFINE old == host[h].current
           f == [host[h] EXCEPT !.current = None, !.error = FALSE]
           y == [World EXCEPT !.host[h].current = None, !.host[h].error = FALSE,
                              !.reporters = RemoveFirst(@, h)]
           w == Unmount(y, old)
<1>1. HInv(World, None, Hosts, None) /\ dev \in BOOLEAN /\ old # None /\ Become(w)
  BY DEF IInv, Destroy
<1>2. /\ World \in Worlds /\ host \in [Hosts -> HostFields] /\ host[h] \in HostFields
      /\ reporters \in Seq(Hosts) /\ RemoveFirst(reporters, h) \in Seq(Hosts)
      /\ trees \in Seq(Trees)
  BY <1>1, RemoveFirstKeeps DEF HInv, Worlds, World
<1>3. f \in HostFields /\ f.born = host[h].born /\ f.current = None
      /\ f.recent = host[h].recent /\ f.gaveUp = host[h].gaveUp
  BY <1>2 DEF HostFields
<1>4. /\ y.trees = trees /\ y.backend = backend /\ y.tasks = tasks /\ y.code = code
      /\ y.recovered = recovered /\ y.raised = FALSE
      /\ y.host = [host EXCEPT ![h] = f] /\ y.reporters = RemoveFirst(reporters, h)
  BY <1>2 DEF World
<1>5. old \in DOMAIN trees
  BY <1>1, <1>2 DEF HInv, Known, World
<1> HIDE DEF f, old
<1>6. y \in Worlds
  <2>1. y.host \in [Hosts -> HostFields]
    BY <1>2, <1>3, <1>4
  <2>2. y = [World EXCEPT !.host = y.host, !.reporters = RemoveFirst(reporters, h)]
    BY <1>4 DEF World
  <2> HIDE DEF y
  <2> QED BY <1>2, <2>1, <2>2 DEF Worlds
<1> HIDE DEF y
<1>7. /\ y.host[h].current = None
      /\ \A g \in Hosts : g # h => y.host[g].current = host[g].current /\ y.host[g].error = host[g].error
      /\ \A g \in Hosts : /\ y.host[g].born = host[g].born
                          /\ y.host[g].recent = host[g].recent /\ y.host[g].gaveUp = host[g].gaveUp
  BY <1>2, <1>3, <1>4
<1>8. Known(y) /\ Leaving(y, old) /\ PutOff(y, old) /\ Updating(y)
  BY <1>1, <1>2, <1>4, <1>7 DEF HInv, Known, Leaving, PutOff, Updating, World
<1>9. Alone(y, old)
  <2>1. \A t \in DOMAIN trees : t # None /\ trees[t].owner \in Hosts
    BY <1>2, TreeFacts DEF World
  <2> QED BY <1>1, <1>4, <1>7, <2>1 DEF HInv, Alone, World, old
<1>10. Numbered(y, None) /\ Counted(y)
  BY <1>1, <1>4, <1>7 DEF HInv, Numbered, Counted, World
<1>11. Listed(y)
  <2>1. \A i \in DOMAIN reporters : reporters[i] # h => \E j \in DOMAIN y.reporters : y.reporters[j] = reporters[i]
    BY <1>2, <1>4, RemoveFirstKeeps
  <2>2. Listed(World) /\ World.host = host /\ World.reporters = reporters
    BY <1>1 DEF HInv, World
  <2> QED BY <1>7, <2>1, <2>2 DEF Listed
<1>12. ASSUME NEW g \in Hosts PROVE Fresh(y, g, None)
  <2>1. Fresh(World, g, None)
    BY <1>1 DEF HInv
  <2> QED BY <1>4, <1>7, <2>1 DEF Fresh, Renews, World
<1>13. HInv(y, old, Hosts, None)
  BY <1>6, <1>8, <1>9, <1>10, <1>11, <1>12 DEF HInv
<1>14. y.trees[old].unmount => Pending(y, old)
  BY <1>1, <1>4, <1>5 DEF HInv, PutOff, Pending, World, old
<1>15. HInv(w, None, Hosts, None)
  BY <1>4, <1>5, <1>13, <1>14, UnmountKeeps
<1> QED BY <1>1, <1>15, BecomeKeeps

LEMMA ElapseKeeps == ASSUME IInv, Elapse PROVE IInv'
<1> DEFINE y == [World EXCEPT !.host = host', !.recovered = recovered']
<1>1. HInv(World, None, Hosts, None) /\ dev \in BOOLEAN
  BY DEF IInv
<1>2. /\ World \in Worlds /\ host \in [Hosts -> HostFields]
      /\ host' = [h \in Hosts |-> [host[h] EXCEPT !.recent = FALSE]]
      /\ recovered' = [h \in Hosts |-> 0]
  BY <1>1 DEF HInv, Worlds, World, Elapse
<1>3. host' \in [Hosts -> HostFields] /\ recovered' \in [Hosts -> Nat]
      /\ \A h \in Hosts : /\ host'[h].current = host[h].current /\ host'[h].error = host[h].error
                          /\ host'[h].born = host[h].born
  BY <1>2 DEF HostFields
<1>4. y \in Worlds
  BY <1>2, <1>3 DEF Worlds
<1>5. /\ y.trees = trees /\ y.backend = backend /\ y.tasks = tasks /\ y.code = code
      /\ y.reporters = reporters /\ y.host = host' /\ y.recovered = recovered'
  BY DEF World
<1>6. Become(y)
  BY <1>5 DEF Become, Elapse
<1> HIDE DEF y
<1>7. Known(y) /\ Leaving(y, None) /\ PutOff(y, None) /\ Updating(y)
  BY <1>1, <1>3, <1>5 DEF HInv, Known, Leaving, PutOff, Updating, World
<1>8. Alone(y, None)
  <2>1. \A t \in DOMAIN trees : trees[t].owner \in Hosts
    BY <1>2, TreeFacts DEF World
  <2> QED BY <1>1, <1>3, <1>5, <2>1 DEF HInv, Alone, World
<1>9. Numbered(y, None) /\ Listed(y)
  BY <1>1, <1>3, <1>5 DEF HInv, Numbered, Listed, World
<1>10. Counted(y)
  BY <1>2, <1>5 DEF Counted
<1>11. ASSUME NEW g \in Hosts PROVE Fresh(y, g, None)
  <2>1. Fresh(World, g, None)
    BY <1>1 DEF HInv
  <2> QED BY <1>3, <1>5, <2>1 DEF Fresh, Renews, World
<1>12. HInv(y, None, Hosts, None)
  BY <1>4, <1>7, <1>8, <1>9, <1>10, <1>11 DEF HInv
<1> QED BY <1>1, <1>6, <1>12, BecomeKeeps

LEMMA UpdateKeeps == ASSUME IInv, NEW h \in Hosts, Update(h) PROVE IInv'
<1> DEFINE t == host[h].current
           w == Commit(World, t, "update")
           v == [w EXCEPT !.host[h].error = @ \/ (dev /\ w.raised)]
<1>1. HInv(World, None, Hosts, None) /\ dev \in BOOLEAN /\ t # None /\ Become(v)
  BY DEF IInv, Update
<1>2. t \in DOMAIN World.trees /\ World.trees[t].root /\ ~Pending(World, t)
  BY <1>1 DEF HInv, Known, Worlds, World, Update, None
<1>3. World \in Worlds /\ Known(World)
  BY <1>1 DEF HInv
<1>4. /\ World.host[World.trees[t].owner].current = t /\ ~World.trees[t].unmount
      /\ \A x \in World.tasks : x.kind = "remount" => x.tree # t
  BY <1>1, <1>2, Updatable
<1> HIDE DEF t
<1>5. /\ Touches(World, w, t) /\ (w.trees[t].kind = "update" => w.trees[t].root)
      /\ w.trees[t].unmount = World.trees[t].unmount
  BY <1>2, <1>3, CommitTouches
<1> HIDE DEF w, v
<1>6. Settles(World, w, t)
  BY <1>4, <1>5 DEF Settles, Touches
<1>7. HInv(w, None, Hosts, None)
  BY <1>1, <1>2, <1>5, <1>6, TouchedKeeps
<1>8. HInv(v, None, Hosts, None)
  <2>1. (dev /\ w.raised) \in BOOLEAN
    BY <1>1, <1>7 DEF HInv, Worlds
  <2> QED BY <1>7, <2>1, NotedKeeps DEF v
<1> QED BY <1>1, <1>8, BecomeKeeps

(* The channel says what has become of the commit of a tree. *)
LEMMA SaidKeeps ==
  ASSUME NEW w, NEW S \in SUBSET Hosts, NEW n, HInv(w, None, S, n), NEW t \in DOMAIN w.trees,
         NEW v, NEW b, NEW result \in {"queued", "flight", "acknowledged", "refused"},
         Put(w, v, t, [w.trees[t] EXCEPT !.commit = result], b)
  PROVE  HInv(v, None, S, n)
<1> DEFINE r == [w.trees[t] EXCEPT !.commit = result]
<1>1. w \in Worlds /\ w.trees[t] \in Trees /\ t # None
  BY TreeFacts DEF HInv, None
<1>2. /\ r.root = w.trees[t].root /\ r.unmount = w.trees[t].unmount /\ r.kind = w.trees[t].kind
      /\ r.owner = w.trees[t].owner /\ r.code = w.trees[t].code /\ r.commit = result
  BY <1>1 DEF Trees
<1>6. Put(w, v, t, r, b)
  OBVIOUS
<1> HIDE DEF r
<1>3. Touches(w, v, t) /\ v.trees[t] = r
  BY <1>1, <1>2, <1>6, PutTouches
<1>4. \A x \in w.tasks : x.tree # None \/ x.kind # "remount"
  BY TreeFacts DEF HInv, Known, None
<1>5. Settles(w, v, t)
  BY <1>1, <1>2, <1>3 DEF Settles, HInv, Alone, Leaving
<1> QED BY <1>2, <1>3, <1>5, TouchedKeeps DEF HInv, Updating

LEMMA AnswerKeeps == ASSUME IInv, Answer PROVE IInv'
<1> DEFINE t == backend.flight
           put(result, failed) == [World EXCEPT !.trees[t].commit = result, !.backend.flight = None,
                                                !.backend.failed = failed,
                                                !.backend.committed = @ \/ result = "acknowledged"]
<1>1. HInv(World, None, Hosts, None) /\ dev \in BOOLEAN /\ t # None
  BY DEF IInv, Answer
<1>2. World \in Worlds /\ backend \in Backend /\ t \in DOMAIN trees /\ trees[t] \in Trees
  BY <1>1, TreeFacts DEF HInv, Known, Worlds, World, None
<1>3. ASSUME NEW result \in {"acknowledged", "refused"}, NEW failed \in BOOLEAN
      PROVE  HInv(put(result, failed), None, Hosts, None)
  <2> DEFINE r == [trees[t] EXCEPT !.commit = result]
             b == [backend EXCEPT !.flight = None, !.failed = failed,
                                  !.committed = @ \/ result = "acknowledged"]
             v == put(result, failed)
  <2>1. r \in Trees /\ r.owner = trees[t].owner
    BY <1>2 DEF Trees
  <2>2. b \in Backend /\ b.flight = None /\ b.queue = backend.queue
    BY <1>2 DEF Backend, None
  <2>3. v = [World EXCEPT !.trees = [trees EXCEPT ![t] = r], !.backend = b]
    BY <1>2 DEF World, Backend
  <2> HIDE DEF b, r, v
  <2>6. b.flight \in 0..Len(trees) /\ \A i \in DOMAIN b.queue : b.queue[i] \in DOMAIN trees
    BY <1>1, <1>2, <2>2 DEF HInv, Known, World, Worlds, None
  <2>4. Put(World, v, t, r, b)
    BY <1>2, <2>1, <2>2, <2>3, <2>6 DEF Put, World, Worlds
  <2>5. HInv(v, None, Hosts, None)
    <3>1. t \in DOMAIN World.trees /\ r = [World.trees[t] EXCEPT !.commit = result]
      BY <1>2 DEF World, r
    <3> QED BY <1>1, <2>4, <3>1, SaidKeeps
  <2> QED BY <2>5 DEF v
<1>4. \E result \in {"acknowledged", "refused"}, failed \in BOOLEAN : Become(put(result, failed))
  <2>1. backend.failed \in BOOLEAN
    BY <1>2 DEF Backend
  <2> QED BY <2>1 DEF Answer
<1> HIDE DEF put
<1> QED BY <1>1, <1>3, <1>4, BecomeKeeps

LEMMA SubmitKeeps == ASSUME IInv, Submit PROVE IInv'
<1> DEFINE t == Head(backend.queue)
           result == IF backend.failed THEN "refused" ELSE "flight"
           b == [backend EXCEPT !.queue = Tail(@), !.flight = IF backend.failed THEN @ ELSE t]
           r == [trees[t] EXCEPT !.commit = result]
           w == [World EXCEPT !.backend.queue = Tail(@)]
           v == IF backend.failed THEN [w EXCEPT !.trees[t].commit = "refused"]
                ELSE [w EXCEPT !.trees[t].commit = "flight", !.backend.flight = t]
<1>1. HInv(World, None, Hosts, None) /\ dev \in BOOLEAN /\ backend.queue # <<>> /\ Become(v)
  BY DEF IInv, Submit
<1>2. World \in Worlds /\ backend \in Backend /\ backend.queue \in Seq(Nat) /\ trees \in Seq(Trees)
      /\ Known(World)
  BY <1>1 DEF HInv, Worlds, World, Backend
<1>3. /\ t = backend.queue[1] /\ 1 \in DOMAIN backend.queue /\ Tail(backend.queue) \in Seq(Nat)
      /\ \A i \in DOMAIN Tail(backend.queue) :
            i + 1 \in DOMAIN backend.queue /\ Tail(backend.queue)[i] = backend.queue[i + 1]
  BY <1>1, <1>2, HeadTailProperties
<1>4. t \in DOMAIN trees /\ trees[t] \in Trees /\ t \in Nat
  BY <1>2, <1>3, TreeFacts DEF Known, World
<1>5. r \in Trees /\ r.owner = trees[t].owner
  BY <1>4 DEF Trees
<1>6. b \in Backend /\ b.flight \in {backend.flight, t} /\ b.queue = Tail(backend.queue)
  BY <1>2, <1>3, <1>4 DEF Backend
<1>7. v = [World EXCEPT !.trees = [trees EXCEPT ![t] = r], !.backend = b]
  <2>1. CASE backend.failed
    BY <1>2, <2>1 DEF World, Backend
  <2>2. CASE ~backend.failed
    BY <1>2, <2>2 DEF World, Backend
  <2> QED BY <2>1, <2>2
<1> HIDE DEF b, r, t, v, result
<1>8. b.flight \in 0..Len(trees) /\ \A i \in DOMAIN b.queue : b.queue[i] \in DOMAIN trees
  BY <1>2, <1>3, <1>4, <1>6 DEF Known, World
<1>9. Put(World, v, t, r, b)
  BY <1>2, <1>4, <1>5, <1>6, <1>7, <1>8 DEF Put, World, Worlds
<1>10. HInv(v, None, Hosts, None)
  <2>1. t \in DOMAIN World.trees /\ r = [World.trees[t] EXCEPT !.commit = result]
        /\ result \in {"refused", "flight"}
    BY <1>4 DEF World, r, result
  <2> QED BY <1>1, <1>9, <2>1, SaidKeeps
<1> QED BY <1>1, <1>10, BecomeKeeps

(* A tree's commit is answered and its pass ends, or is undone. *)
Passed(w, t, root) == [w EXCEPT !.trees[t].commit = "none", !.trees[t].kind = "none",
                                !.trees[t].root = root]
LEMMA PassedKeeps ==
  ASSUME NEW w, NEW S \in SUBSET Hosts, NEW n, HInv(w, None, S, n), NEW t \in DOMAIN w.trees,
         NEW root, root \in BOOLEAN, root => w.trees[t].root
  PROVE  LET v == Passed(w, t, root)
         IN  /\ HInv(v, t, S, n) /\ (~w.trees[t].unmount => HInv(v, None, S, n))
             /\ t \in DOMAIN v.trees /\ v.trees[t].unmount = w.trees[t].unmount
<1> DEFINE v == Passed(w, t, root)
           r == [w.trees[t] EXCEPT !.commit = "none", !.kind = "none", !.root = root]
<1>1. w \in Worlds /\ w.trees \in Seq(Trees) /\ w.trees[t] \in Trees /\ t # None /\ Known(w)
  BY TreeFacts DEF HInv, None, Worlds
<1>2. /\ r \in Trees /\ r.root = root /\ r.unmount = w.trees[t].unmount /\ r.kind = "none"
      /\ r.owner = w.trees[t].owner /\ r.code = w.trees[t].code
  BY <1>1 DEF Trees
<1>3. v = [w EXCEPT !.trees = [w.trees EXCEPT ![t] = r]]
  <2>1. [w.trees EXCEPT ![t].commit = "none", ![t].kind = "none", ![t].root = root]
           = [w.trees EXCEPT ![t] = r]
    BY <1>1
  <2> HIDE DEF r
  <2> QED BY <1>1, <2>1 DEF Passed, Worlds
<1> HIDE DEF r, v
<1>4. Put(w, v, t, r, w.backend)
  BY <1>1, <1>2, <1>3 DEF Put, Worlds, Known
<1>5. Touches(w, v, t) /\ v.trees[t] = r
  BY <1>1, <1>2, <1>4, PutTouches
<1>6. HInv(v, t, S, n)
  BY <1>2, <1>5, TouchedKeeps
<1>7. t \in DOMAIN v.trees
  BY <1>1, <1>5 DEF Touches, Worlds
<1>8. ASSUME ~w.trees[t].unmount PROVE HInv(v, None, S, n)
  <2>1. \A x \in w.tasks : x.kind = "remount" => x.tree # None
    BY <1>1, TreeFacts DEF Known, None
  <2>2. Settles(w, v, t)
    BY <1>1, <1>2, <1>5, <1>8, <2>1 DEF Settles, HInv, Alone, Leaving
  <2> QED BY <1>2, <1>5, <2>2, TouchedKeeps
<1> QED BY <1>2, <1>5, <1>6, <1>7, <1>8 DEF v

(* The host hears that a commit of its tree was refused. *)
LEMMA CommitFailedKeeps ==
  ASSUME NEW w, NEW u, NEW n, HInv(w, u, Hosts, n), NEW t \in DOMAIN w.trees
  PROVE  LET v == CommitFailed(w, t) IN HInv(v, u, Hosts, n) /\ v.trees = w.trees
<1> DEFINE h == w.trees[t].owner
           v == CommitFailed(w, t)
<1>1. w \in Worlds /\ h \in Hosts
  BY TreeFacts DEF HInv
<1> HIDE DEF h
<1>2. CASE v = w
  BY <1>2
<1>3. CASE v = WithError(w, h, TRUE)
  <2> HIDE DEF v
  <2>1. HInv(v, u, Hosts, n)
    BY <1>1, <1>3, ErrorKeeps
  <2>2. Marks(w, v, h)
    BY <1>1, <1>3, ErrorMarks
  <2> QED BY <2>1, <2>2 DEF Marks, v
<1>4. CASE v = RecoverSurface(w, h)
  <2> HIDE DEF v
  <2> QED BY <1>1, <1>4, RecoverKeeps DEF v
<1>5. v = w \/ v = WithError(w, h, TRUE) \/ v = RecoverSurface(w, h)
  BY DEF CommitFailed, WithError, h
<1> QED BY <1>2, <1>3, <1>4, <1>5

LEMMA FinishedKeeps ==
  ASSUME NEW w, HInv(w, None, Hosts, None), NEW t \in DOMAIN w.trees
  PROVE  LET v == Finished(w, t)
         IN  /\ HInv(v, t, Hosts, None) /\ (~w.trees[t].unmount => HInv(v, None, Hosts, None))
             /\ t \in DOMAIN v.trees /\ v.trees[t].unmount = w.trees[t].unmount
<1> DEFINE v == Finished(w, t)
<1>1. w \in Worlds /\ w.trees \in Seq(Trees) /\ w.trees[t] \in Trees /\ Updating(w)
  BY TreeFacts DEF HInv, Worlds
<1>2. CASE w.trees[t].commit = "acknowledged"
  <2>1. w.trees[t].root \in BOOLEAN
    BY <1>1 DEF Trees
  <2>2. v = Passed(w, t, w.trees[t].root)
    <3> DEFINE a == [w.trees EXCEPT ![t].commit = "none", ![t].kind = "none"]
               b == [w.trees EXCEPT ![t].commit = "none", ![t].kind = "none",
                                    ![t].root = w.trees[t].root]
    <3>1. a = b
      BY <1>1 DEF Trees
    <3>2. v = [w EXCEPT !.trees = a] /\ Passed(w, t, w.trees[t].root) = [w EXCEPT !.trees = b]
      BY <1>1, <1>2 DEF Finished, Passed, Worlds
    <3> HIDE DEF a, b
    <3> QED BY <3>1, <3>2
  <2> DEFINE root == w.trees[t].root
  <2> HIDE DEF v, root
  <2>3. root \in BOOLEAN /\ (root => w.trees[t].root) /\ v = Passed(w, t, root)
    BY <2>1, <2>2 DEF root
  <2>4. /\ HInv(v, t, Hosts, None) /\ (~w.trees[t].unmount => HInv(v, None, Hosts, None))
        /\ t \in DOMAIN v.trees /\ v.trees[t].unmount = w.trees[t].unmount
    BY <2>3, PassedKeeps
  <2> QED BY <2>4 DEF v
<1>3. CASE w.trees[t].commit # "acknowledged"
  <2> DEFINE root == ~w.backend.failed /\ w.trees[t].kind = "update"
             y == Passed(w, t, root)
             z == CommitFailed(y, t)
  <2>1. v = Woken(z, t, "error")
    BY <1>3 DEF Finished, Aborted, Passed
  <2>2. root \in BOOLEAN /\ (root => w.trees[t].root)
    BY <1>1 DEF Updating
  <2> HIDE DEF v, root
  <2>3. /\ HInv(y, t, Hosts, None) /\ (~w.trees[t].unmount => HInv(y, None, Hosts, None))
        /\ t \in DOMAIN y.trees /\ y.trees[t].unmount = w.trees[t].unmount
    BY <2>2, PassedKeeps
  <2> HIDE DEF y
  <2>4. /\ HInv(z, t, Hosts, None) /\ (~w.trees[t].unmount => HInv(z, None, Hosts, None))
        /\ z.trees = y.trees
    BY <2>3, CommitFailedKeeps
  <2> HIDE DEF z
  <2>5. HInv(v, t, Hosts, None) /\ v.trees = z.trees
    BY <2>1, <2>4, WokenKeeps
  <2>6. ~w.trees[t].unmount => HInv(v, None, Hosts, None)
    BY <2>1, <2>4, WokenKeeps
  <2> QED BY <2>3, <2>4, <2>5, <2>6 DEF v
<1> QED BY <1>2, <1>3

LEMMA ResumeKeeps == ASSUME IInv, NEW t \in DOMAIN trees, Resume(t) PROVE IInv'
<1> DEFINE done == Finished(World, t)
           asked == [done EXCEPT !.trees[t].unmount = FALSE]
           gone == IF done.trees[t].unmount THEN Unmount(asked, t) ELSE done
           v == IF gone.raised THEN gone ELSE Woken(gone, t, "ready")
<1>1. HInv(World, None, Hosts, None) /\ dev \in BOOLEAN /\ Become(v) /\ t \in DOMAIN World.trees
  BY DEF IInv, Resume, World
<1>2. /\ HInv(done, t, Hosts, None)
      /\ ~World.trees[t].unmount => HInv(done, None, Hosts, None)
      /\ t \in DOMAIN done.trees /\ done.trees[t].unmount = World.trees[t].unmount
  BY <1>1, FinishedKeeps
<1> HIDE DEF done
<1>3. HInv(gone, None, Hosts, None)
  <2>1. CASE ~done.trees[t].unmount
    BY <1>2, <2>1
  <2>2. CASE done.trees[t].unmount
    <3> DEFINE r == [done.trees[t] EXCEPT !.unmount = FALSE]
    <3>1. done \in Worlds /\ done.trees \in Seq(Trees) /\ done.trees[t] \in Trees /\ Known(done)
          /\ Updating(done)
      BY <1>2, TreeFacts DEF HInv, Worlds
    <3>2. r \in Trees /\ r.owner = done.trees[t].owner /\ r.code = done.trees[t].code
          /\ r.kind = done.trees[t].kind /\ r.root = done.trees[t].root /\ ~r.unmount
      BY <3>1 DEF Trees
    <3>3. asked = [done EXCEPT !.trees = [done.trees EXCEPT ![t] = r]]
      BY <3>1 DEF Worlds
    <3> HIDE DEF r, asked
    <3>4. Put(done, asked, t, r, done.backend)
      BY <1>2, <3>1, <3>2, <3>3 DEF Put, Worlds, Known
    <3>5. Touches(done, asked, t) /\ asked.trees[t] = r
      BY <1>2, <3>1, <3>2, <3>4, PutTouches
    <3>6. HInv(asked, t, Hosts, None)
      BY <1>2, <3>1, <3>2, <3>5, TouchedKeeps DEF Updating
    <3>7. t \in DOMAIN asked.trees
      BY <1>2, <3>1, <3>5 DEF Touches, Worlds
    <3> QED BY <2>2, <3>2, <3>5, <3>6, <3>7, UnmountKeeps
  <2> QED BY <2>1, <2>2
<1> HIDE DEF gone
<1>4. HInv(v, None, Hosts, None)
  BY <1>3, WokenKeeps
<1> QED BY <1>1, <1>4, BecomeKeeps

LEMMA SurfaceFailedKeeps == ASSUME IInv, SurfaceFailed PROVE IInv'
<1> DEFINE w == [World EXCEPT !.backend.failed = TRUE]
           told == IF backend.slot \in Hosts THEN RecoverSurface(w, backend.slot) ELSE w
           v == IF dev /\ reporters # <<>> THEN WithError(told, Last(reporters), TRUE) ELSE told
<1>1. HInv(World, None, Hosts, None) /\ dev \in BOOLEAN /\ Become(v)
  BY DEF IInv, SurfaceFailed, WithError
<1>2. World \in Worlds /\ backend \in Backend /\ reporters \in Seq(Hosts)
  BY <1>1 DEF HInv, Worlds, World
<1>3. w \in Worlds /\ w.trees = World.trees /\ w.host = World.host /\ w.tasks = World.tasks
      /\ w.code = World.code /\ w.reporters = World.reporters /\ w.recovered = World.recovered
      /\ w.backend.flight = backend.flight /\ w.backend.queue = backend.queue
  <2> DEFINE b == [backend EXCEPT !.failed = TRUE]
  <2>1. b \in Backend /\ b.flight = backend.flight /\ b.queue = backend.queue
    BY <1>2 DEF Backend
  <2>2. w = [World EXCEPT !.backend = b]
    BY DEF World
  <2> HIDE DEF b, w
  <2> QED BY <1>2, <2>1, <2>2 DEF Worlds, World
<1>4. HInv(w, None, Hosts, None)
  BY <1>1, <1>3, RaisedKeeps DEF World
<1> HIDE DEF w
<1>5. HInv(told, None, Hosts, None)
  BY <1>4, RecoverKeeps
<1> HIDE DEF told
<1>6. HInv(v, None, Hosts, None)
  <2>1. CASE dev /\ reporters # <<>>
    <3>1. Last(reporters) \in Hosts
      BY <1>2, <2>1 DEF Last
    <3> HIDE DEF v
    <3>2. v = WithError(told, Last(reporters), TRUE)
      BY <2>1 DEF v
    <3> QED BY <1>5, <3>1, <3>2, ErrorKeeps
  <2>2. CASE ~(dev /\ reporters # <<>>)
    BY <1>5, <2>2
  <2> QED BY <2>1, <2>2
<1> QED BY <1>1, <1>6, BecomeKeeps

LEMMA RecoverStepKeeps == ASSUME IInv, NEW h \in Hosts, Recover(h) PROVE IInv'
<1> DEFINE f == [host[h] EXCEPT !.recovering = FALSE]
           w == [World EXCEPT !.host[h].recovering = FALSE]
           v == IF host[h].current = None THEN w ELSE FullRemount(w, h)
<1>1. HInv(World, None, Hosts, None) /\ dev \in BOOLEAN /\ Become(v)
  BY DEF IInv, Recover
<1>2. World \in Worlds /\ host[h] \in HostFields /\ Counted(World)
  BY <1>1 DEF HInv, Worlds, World
<1>3. /\ f \in HostFields /\ f.current = host[h].current /\ f.born = host[h].born
      /\ f.error = host[h].error /\ f.recent = host[h].recent /\ f.gaveUp = host[h].gaveUp
  BY <1>2 DEF HostFields
<1>4. w = WithHost(World, h, f)
  BY DEF World, WithHost
<1> HIDE DEF f, w
<1>5. Marks(World, w, h) /\ w.host[h] = f /\ Counted(w)
  BY <1>2, <1>3, <1>4, HostMarks DEF World
<1>6. HInv(w, None, Hosts, None)
  <2>1. w.host[h].error = World.host[h].error
    BY <1>3, <1>5 DEF World
  <2> QED BY <1>1, <1>5, <2>1, MarksKeep
<1>7. HInv(v, None, Hosts, None)
  BY <1>3, <1>5, <1>6, FullRemountKeeps
<1> HIDE DEF v
<1> QED BY <1>1, <1>7, BecomeKeeps

LEMMA RestartKeeps == ASSUME IInv, NEW h \in Hosts, Restart(h) PROVE IInv'
<1> DEFINE f == [host[h] EXCEPT !.gaveUp = FALSE, !.recent = FALSE]
           w == [World EXCEPT !.host[h].gaveUp = FALSE, !.host[h].recent = FALSE,
                              !.recovered[h] = 0]
           v == FullRemount(w, h)
<1>1. HInv(World, None, Hosts, None) /\ dev \in BOOLEAN /\ host[h].current # None /\ Become(v)
  BY DEF IInv, Restart
<1>2. /\ World \in Worlds /\ host \in [Hosts -> HostFields] /\ host[h] \in HostFields
      /\ recovered \in [Hosts -> Nat] /\ Counted(World)
  BY <1>1 DEF HInv, Worlds, World
<1>3. /\ f \in HostFields /\ f.current = host[h].current /\ f.born = host[h].born
      /\ f.error = host[h].error
  BY <1>2 DEF HostFields
<1>4. /\ w.host = [host EXCEPT ![h] = f] /\ w.recovered = [recovered EXCEPT ![h] = 0]
      /\ w.trees = trees /\ w.tasks = tasks /\ w.code = code /\ w.reporters = reporters
      /\ w.backend = backend
  BY <1>2 DEF World
<1>11. w = [World EXCEPT !.host = [host EXCEPT ![h] = f], !.recovered = [recovered EXCEPT ![h] = 0]]
  BY <1>2 DEF World
<1> HIDE DEF f, w
<1>5. w.host \in [Hosts -> HostFields] /\ w.recovered \in [Hosts -> Nat]
      /\ w.host[h] = f /\ \A g \in Hosts : g # h => w.host[g] = host[g]
  BY <1>2, <1>3, <1>4
<1>6. w \in Worlds
  <2>1. w = [World EXCEPT !.host = w.host, !.recovered = w.recovered]
    BY <1>4, <1>11
  <2> QED BY <1>2, <1>5, <2>1 DEF Worlds
<1> HIDE DEF v
<1>7. Marks(World, w, h)
  BY <1>3, <1>4, <1>5, <1>6 DEF Marks, World
<1>8. Counted(w)
  BY <1>2, <1>4, <1>5 DEF Counted, World
<1>9. HInv(w, None, Hosts, None)
  <2>1. w.host[h].error = World.host[h].error
    BY <1>3, <1>5 DEF World
  <2> QED BY <1>1, <1>7, <1>8, <2>1, MarksKeep
<1>10. HInv(v, None, Hosts, None)
  BY <1>1, <1>3, <1>5, <1>9, FullRemountKeeps DEF v
<1> QED BY <1>1, <1>10, BecomeKeeps

LEMMA RefreshKeeps == ASSUME IInv, Refresh PROVE IInv'
<1> DEFINE w == [World EXCEPT !.code = @ + 1]
<1>1. HInv(World, None, Hosts, None) /\ dev \in BOOLEAN
  BY DEF IInv
<1>2. World \in Worlds /\ code + 1 \in Nat
  BY <1>1 DEF HInv, Worlds, World
<1>3. w = [World EXCEPT !.code = code + 1]
  BY DEF World
<1>4. /\ w \in Worlds /\ w.trees = trees /\ w.host = host /\ w.tasks = tasks
      /\ w.reporters = reporters /\ w.recovered = recovered /\ w.backend = backend
  BY <1>2 DEF Worlds, World
<1>5. PICK force, fast \in BOOLEAN : Become(Renewed(w, force, fast, reporters))
  BY DEF Refresh, Renewed
<1> HIDE DEF w
<1>6. Known(w) /\ Alone(w, None) /\ Leaving(w, None) /\ PutOff(w, None) /\ Updating(w)
  BY <1>1, <1>4 DEF HInv, Known, Alone, Leaving, PutOff, Updating, World
<1>7. Numbered(w, None) /\ Counted(w) /\ Listed(w)
  BY <1>1, <1>4 DEF HInv, Numbered, Counted, Listed, World
<1>8. HInv(w, None, {}, None)
  BY <1>4, <1>6, <1>7 DEF HInv
<1>9. HInv(Renewed(w, force, fast, reporters), None, Hosts, None)
  BY <1>4, <1>8, FoldKeeps
<1> QED BY <1>1, <1>5, <1>9, BecomeKeeps

(* A task that has had its turn: other screens count on other tasks. *)
LEMMA TurnKeeps ==
  ASSUME IInv, NEW x \in tasks
  PROVE  /\ x \in Tasks /\ HInv(World, None, Hosts \ {x.host}, x.id)
         /\ ~Renews(World, x, x.host) => HInv(World, None, Hosts, x.id)
<1> DEFINE R == Hosts \ {x.host}
<1>1. /\ World \in Worlds /\ Known(World) /\ Alone(World, None) /\ Leaving(World, None)
      /\ PutOff(World, None) /\ Updating(World) /\ Counted(World) /\ Listed(World)
      /\ Numbered(World, None) /\ \A h \in Hosts : Fresh(World, h, None)
  BY DEF IInv, HInv
<1>2. World.tasks = tasks /\ x \in Tasks
  BY <1>1 DEF World, Worlds
<1>3. Numbered(World, x.id)
  BY <1>1, <1>2 DEF Numbered
<1>4. ASSUME NEW h \in Hosts, h # x.host \/ ~Renews(World, x, x.host) PROVE Fresh(World, h, x.id)
  <2>1. ~Renews(World, x, h)
    BY <1>4 DEF Renews
  <2>2. \A y \in tasks : Renews(World, y, h) => y.id # x.id
    BY <1>1, <1>2, <2>1 DEF Numbered
  <2>3. Fresh(World, h, None)
    BY <1>1
  <2> QED BY <1>2, <2>2, <2>3 DEF Fresh
<1>5. HInv(World, None, R, x.id)
  BY <1>1, <1>3, <1>4 DEF HInv
<1>6. ~Renews(World, x, x.host) => HInv(World, None, Hosts, x.id)
  BY <1>1, <1>3, <1>4 DEF HInv
<1> QED BY <1>2, <1>5, <1>6

(* A task waits, for the tree that its screen shows if it names none. *)
LEMMA WaitsKeeps ==
  ASSUME IInv, NEW x \in tasks, NEW t \in Nat, t = x.tree \/ (x.tree = None /\ t = host[x.host].current),
         x.kind = "remount" => t = x.tree, x.state \notin {"cancelled", "dropped"},
         NEW v, v = [World EXCEPT !.tasks = (@ \ {x}) \cup {[x EXCEPT !.state = "waiting", !.tree = t]}]
  PROVE  HInv(v, None, Hosts, None)
<1> USE DEF None
<1> DEFINE z == [x EXCEPT !.state = "waiting", !.tree = t]
           T == (tasks \ {x}) \cup {z}
<1>1. HInv(World, None, Hosts, None) /\ World \in Worlds /\ tasks \in SUBSET Tasks
      /\ IsFiniteSet(tasks) /\ \A y \in tasks : y.id = x.id => y = x
  BY DEF IInv, HInv, Worlds, World, Numbered
<1>2. /\ z \in Tasks /\ z.id = x.id /\ z.host = x.host /\ z.kind = x.kind /\ z.tree = t
      /\ z.state = "waiting" /\ z.force = x.force
  BY <1>1 DEF Tasks
<1>3. v = [World EXCEPT !.tasks = T]
  BY DEF World
<1> HIDE DEF z
<1>4. T \in SUBSET Tasks /\ IsFiniteSet(T)
  <2>1. IsFiniteSet(tasks \ {x})
    BY <1>1, FS_RemoveElement
  <2> QED BY <1>1, <1>2, <2>1, FS_AddElement
<1>5. /\ v \in Worlds /\ v.tasks = T /\ v.trees = trees /\ v.host = host /\ v.code = code
      /\ v.reporters = reporters /\ v.backend = backend /\ v.recovered = recovered
  <2>1. v \in Worlds
    BY <1>1, <1>3, <1>4 DEF Worlds
  <2> QED BY <1>3, <2>1 DEF World
<1>6. Known(v) /\ Alone(v, None) /\ Leaving(v, None) /\ PutOff(v, None) /\ Updating(v)
  BY <1>1, <1>2, <1>5 DEF HInv, Known, Alone, Leaving, PutOff, Updating, World
<1>7. Counted(v) /\ Listed(v)
  BY <1>1, <1>5 DEF HInv, Counted, Listed, World
<1>8. Numbered(v, None)
  <2>1. \A a, b \in tasks : a.id = b.id => a = b
    BY <1>1 DEF HInv, Numbered, World
  <2>2. \A a, b \in T : a.id = b.id => a = b
    BY <1>2, <2>1
  <2> HIDE DEF T
  <2> QED BY <1>4, <1>5, <2>2 DEF Numbered
<1>9. ASSUME NEW h \in Hosts PROVE Fresh(v, h, None)
  <2>1. Fresh(World, h, None)
    BY <1>1 DEF HInv
  <2>2. Renews(World, x, h) => Renews(v, z, h) /\ z.id # None
    BY <1>1, <1>2, <1>5 DEF Renews, World, Tasks
  <2>3. \A y \in tasks : Renews(World, y, h) => Renews(v, y, h)
    BY <1>5 DEF Renews, World
  <2> QED BY <1>2, <1>5, <2>1, <2>2, <2>3 DEF Fresh, World
<1> QED BY <1>5, <1>6, <1>7, <1>8, <1>9 DEF HInv

LEMMA RunRemountKeeps == ASSUME IInv, NEW x \in tasks, RunRemount(x) PROVE IInv'
<1> USE DEF None
<1> DEFINE h == x.host
           w == IF x.state = "error" THEN [World EXCEPT !.raised = TRUE]
                ELSE MountAnew(World, h, x.tree)
           v == [w EXCEPT !.host[h].error = @ \/ (dev /\ w.raised)]
<1>1. /\ HInv(World, None, Hosts, None) /\ dev \in BOOLEAN /\ World \in Worlds /\ World.tasks = tasks
      /\ x \in Tasks /\ HInv(World, None, Hosts \ {h}, x.id)
      /\ ~Renews(World, x, h) => HInv(World, None, Hosts, x.id)
  BY TurnKeeps DEF IInv, HInv, World
<1>2. h \in Hosts /\ x.tree \in Nat /\ x.kind = "remount"
  BY <1>1 DEF Tasks, RunRemount
<1>3. CASE x.state # "error" /\ Pending(World, x.tree)
  <2> DEFINE z == [World EXCEPT !.tasks = (@ \ {x}) \cup {[x EXCEPT !.state = "waiting"]}]
  <2>1. z = [World EXCEPT !.tasks = (@ \ {x}) \cup {[x EXCEPT !.state = "waiting", !.tree = x.tree]}]
    BY <1>1 DEF Tasks
  <2>2. Become(z) /\ x.state \notin {"cancelled", "dropped"}
    BY <1>3 DEF RunRemount
  <2> HIDE DEF z
  <2>3. HInv(z, None, Hosts, None)
    BY <1>2, <2>1, <2>2, WaitsKeeps
  <2> QED BY <1>1, <2>2, <2>3, BecomeKeeps
<1>4. CASE ~(x.state # "error" /\ Pending(World, x.tree))
  <2>1. Become(Ended(v, x))
    BY <1>4 DEF RunRemount
  <2> DEFINE S == Hosts \ {h}
  <2>2. /\ S \in SUBSET Hosts /\ S \cup {h} = Hosts /\ HInv(World, None, S, x.id)
    BY <1>1, <1>2
  <2> HIDE DEF h, S
  <2>3. HInv(w, None, S, x.id) /\ (w.raised \/ HInv(w, None, Hosts, x.id))
    <3>1. CASE x.state = "error"
      <4> DEFINE y == [World EXCEPT !.raised = TRUE]
      <4>1. w = y
        BY <3>1
      <4>2. /\ y \in Worlds /\ y.trees = World.trees /\ y.host = World.host /\ y.tasks = World.tasks
            /\ y.code = World.code /\ y.reporters = World.reporters
            /\ y.recovered = World.recovered /\ y.backend = World.backend /\ y.raised
        BY <1>1 DEF Worlds, World
      <4> HIDE DEF y
      <4>3. HInv(y, None, S, x.id)
        BY <2>2, <4>2, RaisedKeeps
      <4> HIDE DEF w
      <4> QED BY <4>1, <4>2, <4>3
    <3>2. CASE x.state # "error"
      <4>1. w = MountAnew(World, h, x.tree)
        BY <3>2
      <4>2. x.tree \in DOMAIN World.trees /\ x.tree # None
        BY <1>1, <1>2, TreeFacts DEF HInv, Known
      <4>3. World.trees[x.tree].root => World.trees[x.tree].unmount
        BY <1>1, <1>2, <4>2 DEF HInv, Leaving
      <4> HIDE DEF w
      <4>4. /\ HInv(w, None, S, x.id)
            /\ World.host[h].current = x.tree => w.raised \/ HInv(w, None, S \cup {h}, x.id)
        BY <1>2, <2>2, <4>1, <4>2, <4>3, MountAnewKeeps
      <4>5. CASE World.host[h].current = x.tree
        BY <2>2, <4>4, <4>5
      <4>6. CASE World.host[h].current # x.tree
        <5>1. ~Renews(World, x, h)
          BY <1>2, <4>6 DEF Renews
        <5>2. w = World
          BY <4>1, <4>6 DEF MountAnew
        <5> QED BY <1>1, <4>4, <5>1, <5>2
      <4> QED BY <4>5, <4>6
    <3> QED BY <3>1, <3>2
  <2> HIDE DEF w
  <2>4. (dev /\ w.raised) \in BOOLEAN /\ h \in Hosts
    BY <1>1, <1>2, <2>3 DEF HInv, Worlds
  <2>5. HInv(v, None, S, x.id) /\ ((dev /\ w.raised) => HInv(v, None, S \cup {h}, x.id))
    BY <2>2, <2>3, <2>4, NotedKeeps
  <2>6. ~w.raised => HInv(v, None, Hosts, x.id)
    BY <2>3, <2>4, NotedKeeps
  <2> HIDE DEF v
  <2>7. ~dev => HInv(v, None, Hosts, x.id)
    BY <2>5 DEF HInv, Fresh
  <2>8. HInv(v, None, Hosts, x.id)
    BY <1>1, <2>2, <2>4, <2>5, <2>6, <2>7
  <2>9. HInv(Ended(v, x), None, Hosts, None)
    BY <1>1, <2>8, EndedKeeps
  <2> QED BY <1>1, <2>1, <2>9, BecomeKeeps
<1> QED BY <1>3, <1>4

LEMMA RunRefreshKeeps == ASSUME IInv, NEW x \in tasks, RunRefresh(x) PROVE IInv'
<1> USE DEF None
<1> DEFINE h == x.host
           t == IF x.tree = None THEN host[h].current ELSE x.tree
           R == Hosts \ {h}
<1>1. /\ HInv(World, None, Hosts, None) /\ dev \in BOOLEAN /\ World \in Worlds
      /\ x \in Tasks /\ HInv(World, None, R, x.id)
      /\ ~Renews(World, x, h) => HInv(World, None, Hosts, x.id)
  BY TurnKeeps DEF IInv, HInv, World
<1>2. h \in Hosts /\ t \in Nat /\ x.kind = "refresh" /\ x.state \notin {"cancelled", "dropped"}
      /\ x.force \in BOOLEAN /\ R \in SUBSET Hosts /\ R \cup {h} = Hosts
  BY <1>1 DEF Tasks, RunRefresh, HInv, Worlds, World, HostFields
<1>3. CASE x.state # "error" /\ t # None /\ Pending(World, t)
  <2> DEFINE z == [World EXCEPT !.tasks = (@ \ {x}) \cup {[x EXCEPT !.state = "waiting", !.tree = t]}]
  <2>1. Become(z)
    BY <1>3 DEF RunRefresh
  <2>2. t = x.tree \/ (x.tree = None /\ t = host[h].current)
    OBVIOUS
  <2> HIDE DEF t
  <2>3. HInv(z, None, Hosts, None)
    BY <1>2, <2>2, WaitsKeeps
  <2> HIDE DEF z
  <2> QED BY <1>1, <2>1, <2>3, BecomeKeeps
<1>4. CASE ~(x.state # "error" /\ t # None /\ Pending(World, t)) /\ (t = None \/ host[h].current # t)
  <2>1. Become(Ended(World, x))
    BY <1>4 DEF RunRefresh
  <2>2. HInv(World, None, Hosts, x.id)
    <3>1. CASE t = None
      <4>1. World.host[h].current = None
        BY <3>1 DEF World
      <4>2. Fresh(World, h, x.id)
        BY <4>1 DEF Fresh
      <4> QED BY <1>1, <1>2, <4>2 DEF HInv
    <3>2. CASE t # None
      <4>1. ~Renews(World, x, h)
        BY <1>2, <1>4, <3>2 DEF Renews, World
      <4> QED BY <1>1, <4>1
    <3> QED BY <3>1, <3>2
  <2>3. HInv(Ended(World, x), None, Hosts, None)
    BY <1>1, <2>2, EndedKeeps
  <2> QED BY <1>1, <2>1, <2>3, BecomeKeeps
<1>5. CASE ~(x.state # "error" /\ t # None /\ Pending(World, t)) /\ ~(t = None \/ host[h].current # t)
  <2>1. PICK fast \in BOOLEAN : Become(Ended(Refreshed(World, h, x.force, fast), x))
    BY <1>5 DEF RunRefresh
  <2> DEFINE v == Refreshed(World, h, x.force, fast)
  <2> HIDE DEF h, R
  <2>2. HInv(v, None, R \cup {h}, x.id)
    BY <1>1, <1>2, RefreshedKeeps
  <2> HIDE DEF v
  <2>3. HInv(Ended(v, x), None, Hosts, None)
    BY <1>1, <1>2, <2>2, EndedKeeps
  <2> QED BY <1>1, <2>1, <2>3, BecomeKeeps DEF v
<1> QED BY <1>3, <1>4, <1>5

LEMMA RunCancelledKeeps == ASSUME IInv, NEW x \in tasks, RunCancelled(x) PROVE IInv'
<1>1. /\ dev \in BOOLEAN /\ x \in Tasks /\ HInv(World, None, Hosts, x.id) /\ World \in Worlds
  BY TurnKeeps DEF IInv, HInv, Renews, RunCancelled
<1>2. CASE x.state = "dropped"
  <2>1. {y \in tasks : y.id # x.id} = tasks \ {x}
    BY DEF IInv, HInv, Numbered, World
  <2>2. Left(World, x) = [World EXCEPT !.tasks = @ \ {x}]
    BY <2>1 DEF Left, World
  <2>3. Become(Left(World, x))
    BY <1>2, <2>2 DEF RunCancelled
  <2>4. HInv(Left(World, x), None, Hosts, None)
    BY <1>1, LeftKeeps
  <2> QED BY <1>1, <2>3, <2>4, BecomeKeeps
<1>3. CASE x.state # "dropped"
  <2>1. Become(Ended(World, x))
    BY <1>3 DEF RunCancelled
  <2>2. HInv(Ended(World, x), None, Hosts, None)
    BY <1>1, EndedKeeps
  <2> QED BY <1>1, <2>1, <2>2, BecomeKeeps
<1> QED BY <1>2, <1>3

---------------------------------------------------------------------------
(* The theorems. *)

LEMMA InitIInv == ASSUME Init PROVE IInv
<1> USE DEF None
<1>1. dev \in BOOLEAN
  BY ScreenHostAssumption DEF Init
<1>2. World \in Worlds
  <2>1. backend \in Backend
    <3>1. <<>> \in Seq(Nat)
      OBVIOUS
    <3> QED BY <3>1 DEF Init, Backend
  <2>2. trees \in Seq(Trees) /\ reporters \in Seq(Hosts)
    BY DEF Init
  <2>3. host \in [Hosts -> HostFields]
    BY DEF Init, NewHost, HostFields
  <2> QED BY <2>1, <2>2, <2>3 DEF Init, World, Worlds
<1>3. Known(World) /\ Alone(World, None) /\ Leaving(World, None) /\ PutOff(World, None)
      /\ Updating(World)
  BY DEF Init, World, Known, Alone, Leaving, PutOff, Updating, NewHost
<1>4. Numbered(World, None)
  BY FS_EmptySet DEF Init, World, Numbered
<1>5. Counted(World) /\ Listed(World) /\ \A h \in Hosts : Fresh(World, h, None)
  BY DEF Init, World, Counted, Listed, Fresh, NewHost
<1> QED BY <1>1, <1>2, <1>3, <1>4, <1>5 DEF IInv, HInv

LEMMA NextIInv == ASSUME IInv, [Next]_vars PROVE IInv'
<1>1. ASSUME NEW h \in Hosts, Create(h) \/ Destroy(h) \/ Update(h) \/ Restart(h) PROVE IInv'
  BY <1>1, CreateKeeps, DestroyKeeps, UpdateKeeps, RestartKeeps
<1>2. CASE Refresh
  BY <1>2, RefreshKeeps
<1>3. CASE Answer
  BY <1>3, AnswerKeeps
<1>4. CASE Submit
  BY <1>4, SubmitKeeps
<1>5. CASE ResumeSome
  BY <1>5, ResumeKeeps DEF ResumeSome
<1>6. CASE SurfaceFailed
  BY <1>6, SurfaceFailedKeeps
<1>7. CASE RecoverSome
  BY <1>7, RecoverStepKeeps DEF RecoverSome
<1>8. CASE RunTask
  BY <1>8, RunRemountKeeps, RunRefreshKeeps, RunCancelledKeeps DEF RunTask
<1>9. CASE Elapse
  BY <1>9, ElapseKeeps
<1>10. CASE UNCHANGED vars
  <2>1. World' = World /\ dev' = dev
    BY <1>10 DEF vars, World
  <2>2. HInv(World, None, Hosts, None) /\ Become(World) /\ dev \in BOOLEAN
    BY <1>10 DEF IInv, Become, World, vars
  <2> QED BY <2>2, BecomeKeeps
<1> QED BY <1>1, <1>2, <1>3, <1>4, <1>5, <1>6, <1>7, <1>8, <1>9, <1>10 DEF Next

(* What the worlds of the loop have in common always holds between its turns. *)
THEOREM WorldsSound == Spec => []IInv
BY InitIInv, NextIInv, PTL DEF Spec

(* A screen shows one tree: whatever recoveries, reloads, restarts and the   *)
(* screen's end did to each other, any other tree of the host that still has *)
(* a root has been told to unmount.  (_full_remount, on_destroy, unmount)    *)
THEOREM ScreensShowOneTree == Spec => []OneTree
<1>1. ASSUME IInv PROVE OneTree
  BY <1>1, TreeFacts DEF IInv, HInv, Alone, OneTree, World, None
<1> QED BY <1>1, WorldsSound, PTL

(* A release build recovers a screen twice within a minute at most, however  *)
(* many hosts, commits and reports of the core there are.                    *)
(* (_recover_surface)                                                        *)
THEOREM RecoveryBounded == Spec => []BoundedRecovery
<1>1. ASSUME IInv PROVE BoundedRecovery
  BY <1>1 DEF IInv, HInv, Counted, BoundedRecovery, World
<1> QED BY <1>1, WorldsSound, PTL

(* A screen with nothing under way runs the code that was loaded last, or    *)
(* shows an error: no order of reloads, commits, remounts and failures loses *)
(* a reload.  (refresh, _schedule_refresh, _full_remount)                    *)
THEOREM ReloadsReachScreens == Spec => []NewCodeShown
<1>1. ASSUME IInv PROVE NewCodeShown
  <2> SUFFICES ASSUME NEW h \in Hosts, dev, Quiet(h)
               PROVE  trees[host[h].current].code = code \/ host[h].error
    BY DEF NewCodeShown
  <2>1. Fresh(World, h, None)
    BY <1>1 DEF IInv, HInv
  <2> QED BY <2>1 DEF Fresh, Renews, Quiet, World
<1> QED BY <1>1, WorldsSound, PTL

===============================================================================
