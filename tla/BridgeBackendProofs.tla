------------------------- MODULE BridgeBackendProofs -------------------------
(***************************************************************************)
(* Proofs about BridgeBackend, for any set of reconcilers and any bounds.  *)
(***************************************************************************)
EXTENDS BridgeBackend, TLAPS

USE DEF Busy

Kinds == {"flush", "create", "remount", "step", "shield", "resolve", "resume"}

(* The callbacks the code puts on the loop are callbacks. *)
LEMMA CallbackFacts ==
  /\ \A k \in Kinds, r \in Reconcilers : Call(k, r) \in Callback
  /\ \A k \in {"completed", "acknowledged"} : Plain(k) \in Callback
  /\ \A a \in Nat : Failure(a) \in Callback
  /\ \A e \in Event : Deliver(e) \in Callback
  BY DEF Kinds, Call, Plain, Failure, Deliver, Callback

(* Running the callback at the head of the loop's queue leaves a queue. *)
LEMMA Running ==
  ASSUME LoopType, ready # <<>>
  PROVE  /\ Head(ready) \in Callback
         /\ Tail(ready) \in Seq(Callback)
  BY DEF LoopType

(* The empty queue is a queue of any type. *)
LEMMA NoneQueued ==
  ASSUME NEW S
  PROVE  <<>> \in Seq(S)
  OBVIOUS

(* Appending keeps the type of a queue. *)
LEMMA AppendType ==
  ASSUME NEW S, NEW s \in Seq(S), NEW x \in S
  PROVE  Append(s, x) \in Seq(S)
  OBVIOUS

(* The batches passes produce. *)
LEMMA Batches ==
  /\ Empty \in Batch
  /\ \A T \in SUBSET Tags :
       /\ [Empty EXCEPT !.creates = T] \in Batch
       /\ [Empty EXCEPT !.updates = T] \in Batch
       /\ [Empty EXCEPT !.destroys = T] \in Batch
  BY DEF Empty, Batch

(* The next tag is a tag while the bound allows another. *)
LEMMA TagRange ==
  ASSUME BoundType, nextTag <= MaxTag
  PROVE  nextTag \in Tags
  BY BoundsAreNaturals DEF BoundType, Tags

----------------------------------------------------------------------------
(* Type correctness *)

(* Releasing deferred input keeps the loop's type. *)
LEMMA ReleaseType ==
  ASSUME TypeOK, NEW rest \in Seq(Callback), ReleaseEvents(rest)
  PROVE  /\ ready' \in Seq(Callback)
         /\ publishing' \in BOOLEAN
         /\ queuedEvents' \in Seq(Event)
<1>1. [i \in 1 .. Len(queuedEvents) |-> Deliver(queuedEvents[i])]
        \in Seq(Callback)
  <2>1. \A i \in 1 .. Len(queuedEvents) : Deliver(queuedEvents[i]) \in Callback
    BY CallbackFacts DEF TypeOK, BackendType
  <2>2. Len(queuedEvents) \in Nat
    BY DEF TypeOK, BackendType
  <2>. QED BY <2>1, <2>2
<1>2. rest \o [i \in 1 .. Len(queuedEvents) |-> Deliver(queuedEvents[i])]
        \in Seq(Callback)
  BY <1>1
<1>3. <<>> \in Seq(Event)
  OBVIOUS
<1>4. CASE pending # NoOne
  BY <1>4 DEF ReleaseEvents, TypeOK, BackendType
<1>5. CASE pending = NoOne
  BY <1>2, <1>3, <1>5 DEF ReleaseEvents
<1>. QED BY <1>4, <1>5

(* What submitting, resuming and giving up a commit may change. *)
CommitTypes ==
  /\ LoopType /\ WorkerType
  /\ pending \in Reconcilers \cup {NoOne} /\ publishing \in BOOLEAN
  /\ queuedEvents \in Seq(Event)
  /\ committing \in [Reconcilers -> BOOLEAN]
  /\ queued \in [Reconcilers -> {"none", "waiting", "submitted"}]
  /\ batch \in [Reconcilers -> Batch]
  /\ owned \in [Reconcilers -> SUBSET Tags]
  /\ handlers \in SUBSET Tags

(* Submitting well-formed mutations, and giving up, keep the types. *)
LEMMA SubmitType ==
  ASSUME TypeOK,
         NEW r \in Reconcilers, NEW b \in Batch, NEW rest \in Seq(Callback),
         NEW tree \in SUBSET Tags, NEW registry \in SUBSET Tags,
         Submit(r, b, rest, tree, registry)
  PROVE  CommitTypes'
<1>0. queuedEvents' \in Seq(Event)
  BY DEF Submit, TypeOK, BackendType
<1>1. CASE pending # NoOne
  <2>1. Call("step", r) \in Callback
    BY CallbackFacts DEF Kinds
  <2>2. ready' = Append(rest, Call("step", r)) /\ UNCHANGED <<waiters, worker>>
    BY <1>1 DEF Submit
  <2>3. LoopType' /\ WorkerType'
    BY <2>1, <2>2 DEF TypeOK, LoopType, WorkerType
  <2>4. /\ queued' = [queued EXCEPT ![r] = "waiting"]
        /\ committing' = [committing EXCEPT ![r] = TRUE]
        /\ batch' = [batch EXCEPT ![r] = b]
        /\ owned' = [owned EXCEPT ![r] = tree] /\ handlers' = registry
        /\ UNCHANGED <<pending, publishing>>
    BY <1>1 DEF Submit, Publish
  <2>. QED
    BY <1>0, <2>3, <2>4 DEF CommitTypes, TypeOK, BackendType, ClientType
<1>2. CASE pending = NoOne /\ ~failed
  <2>1. Call("resolve", r) \in Callback
    BY CallbackFacts DEF Kinds
  <2>2. ready' = rest /\ Start(r, b, Call("resolve", r))
    BY <1>2 DEF Submit
  <2>3. LoopType' /\ WorkerType'
    BY <2>1, <2>2 DEF Start, TypeOK, LoopType, WorkerType, BackendType
  <2>4. /\ UNCHANGED queued
        /\ committing' = [committing EXCEPT ![r] = TRUE]
        /\ batch' = [batch EXCEPT ![r] = b]
        /\ owned' = [owned EXCEPT ![r] = tree] /\ handlers' = registry
        /\ pending' = r /\ publishing' = TRUE
    BY <1>2 DEF Submit, Start, Publish
  <2>. QED
    BY <1>0, <2>3, <2>4 DEF CommitTypes, TypeOK, BackendType, ClientType
<1>3. CASE pending = NoOne /\ failed
  <2>1. ready' = rest /\ UNCHANGED <<waiters, worker>>
    BY <1>3 DEF Submit
  <2>2. LoopType' /\ WorkerType'
    BY <2>1 DEF TypeOK, LoopType, WorkerType
  <2>. QED
    BY ZenonT(40), <1>0, <1>3, <2>2, Batches
    DEF CommitTypes, Submit, Abort, TypeOK, BackendType, ClientType, Publish
<1>. QED BY <1>1, <1>2, <1>3 DEF TypeOK, BackendType

(* So does giving up. *)
LEMMA AbortType ==
  ASSUME TypeOK,
         NEW r \in Reconcilers, NEW tree \in SUBSET Tags,
         NEW registry \in SUBSET Tags, NEW rest \in Seq(Callback),
         Abort(r, tree, registry), ready' = rest,
         UNCHANGED <<queued, pending, publishing, waiters, worker, queuedEvents>>
  PROVE  CommitTypes'
<1>1. LoopType' /\ WorkerType'
  BY DEF TypeOK, LoopType, WorkerType
<1>. QED
  BY <1>1, Batches
  DEF CommitTypes, Abort, TypeOK, BackendType, ClientType, Publish

(* Finishing a commit keeps the types, whichever way it goes on. *)
LEMMA AfterCommitType ==
  ASSUME TypeOK,
         NEW r \in Reconcilers, NEW b \in Batch, NEW rest \in Seq(Callback),
         AfterCommit(r, b, rest)
  PROVE  CommitTypes' /\ nextTag' \in Nat \ {0}
<1>. DEFINE tree     == (owned[r] \cup b.creates) \ b.destroys
            registry == (handlers \cup b.creates) \ b.destroys
<1>1. tree \in SUBSET Tags /\ registry \in SUBSET Tags
  BY DEF TypeOK, ClientType, Batch
<1>2. CASE /\ ReleaseEvents(rest)
           /\ committing' = [committing EXCEPT ![r] = FALSE]
           /\ batch' = [batch EXCEPT ![r] = Empty]
           /\ Publish(r, tree, registry)
           /\ UNCHANGED <<queued, pending, waiters, worker, nextTag>>
  <2>1. /\ ready' \in Seq(Callback) /\ publishing' \in BOOLEAN
        /\ queuedEvents' \in Seq(Event)
    BY <1>2, ReleaseType
  <2>2. owned' = [owned EXCEPT ![r] = tree] /\ handlers' = registry
    BY <1>2 DEF Publish
  <2>3. LoopType' /\ WorkerType'
    BY <1>2, <2>1 DEF TypeOK, LoopType, WorkerType
  <2>. HIDE DEF tree, registry
  <2>. QED
    BY <1>1, <1>2, <2>1, <2>2, <2>3, Batches
    DEF CommitTypes, TypeOK, BackendType, ClientType, BoundType
<1>3. CASE \E fallback \in Fallbacks(tree) :
             /\ Submit(r, fallback, rest, tree, registry)
             /\ nextTag' = nextTag + 1
  <2>1. PICK fallback \in Fallbacks(tree) :
             /\ Submit(r, fallback, rest, tree, registry)
             /\ nextTag' = nextTag + 1
    BY <1>3
  <2>2. nextTag <= MaxTag
    BY <2>1 DEF Fallbacks
  <2>3. PICK t \in tree : fallback = [creates |-> {nextTag}, updates |-> {},
                                      destroys |-> {t}]
    BY <2>1, <2>2 DEF Fallbacks
  <2>4. fallback \in Batch
    BY <1>1, <2>2, <2>3, TagRange DEF TypeOK, Batch
  <2>5. nextTag' \in Nat \ {0}
    BY <2>1 DEF TypeOK, BoundType
  <2>. HIDE DEF tree, registry
  <2>. QED BY <1>1, <2>1, <2>4, <2>5, SubmitType
<1>4. CASE /\ UncaughtEffects
           /\ Abort(r, tree, registry)
           /\ ready' = rest
           /\ UNCHANGED <<queued, pending, publishing, waiters, worker,
                          queuedEvents, nextTag>>
  <2>. HIDE DEF tree, registry
  <2>1. CommitTypes'
    BY <1>1, <1>4, AbortType
  <2>. QED BY <1>4, <2>1 DEF TypeOK, BoundType
<1>. QED BY <1>2, <1>3, <1>4 DEF AfterCommit

(* A pass that changes nothing but the commit state keeps TypeOK. *)
LEMMA PassType ==
  ASSUME TypeOK, CommitTypes', nextTag' \in Nat \ {0},
         scheduled' \in [Reconcilers -> BOOLEAN],
         created' \in [Reconcilers -> BOOLEAN],
         UNCHANGED <<application, revision, births, sequences, failed, outcome,
                     surface, mountQueue, mounting, mounted, sequence,
                     requests, flushes, failures, rejections>>
  PROVE  TypeOK'
  BY DEF TypeOK, CommitTypes, BackendType, ClientType, CoreType, BoundType

(* What starting a commit sets. *)
LEMMA BeginFacts ==
  ASSUME TypeOK, NEW r \in Reconcilers, NEW k \in Kinds, Begin(k, r)
  PROVE  /\ Tail(ready) \in Seq(Callback)
         /\ scheduled' \in [Reconcilers -> BOOLEAN]
         /\ owned[r] \in SUBSET Tags /\ handlers \in SUBSET Tags
  BY Running DEF Begin, RunsFor, Runs, TypeOK, ClientType

(* Every step keeps the types. *)
LEMMA TypeStep == TypeOK /\ [Next]_vars => TypeOK'
<1>. SUFFICES ASSUME TypeOK, [Next]_vars PROVE TypeOK'
  OBVIOUS
<1>. USE DEF Kinds
<1>1. ASSUME NEW r \in Reconcilers, Flush(r) PROVE TypeOK'
  <2>. Begin("flush", r)
    BY <1>1 DEF Flush
  <2>1. /\ Tail(ready) \in Seq(Callback) /\ scheduled' \in [Reconcilers -> BOOLEAN]
        /\ owned[r] \in SUBSET Tags /\ handlers \in SUBSET Tags
    BY BeginFacts
  <2>2. UNCHANGED <<application, revision, births, sequences, failed, outcome,
                    created, surface, mountQueue, mounting, mounted, sequence,
                    requests, flushes, failures, rejections>>
    BY <1>1 DEF Flush
  <2>3. CommitTypes' /\ nextTag' \in Nat \ {0}
    <3>1. CASE AfterCommit(r, Empty, Tail(ready))
      BY <2>1, <3>1, Batches, AfterCommitType
    <3>2. ASSUME NEW b \in Batch, Changes(b, r),
                 nextTag' = nextTag + 1 \/ UNCHANGED nextTag
          PROVE  CommitTypes' /\ nextTag' \in Nat \ {0}
      <4>1. CommitTypes'
        BY <2>1, <3>2, SubmitType DEF Changes
      <4>2. nextTag' \in Nat \ {0}
        BY <3>2 DEF TypeOK, BoundType
      <4>. QED BY <4>1, <4>2
    <3>3. CASE /\ nextTag <= MaxTag
               /\ Changes([Empty EXCEPT !.creates = {nextTag}], r)
               /\ nextTag' = nextTag + 1
      <4>1. {nextTag} \in SUBSET Tags
        BY <3>3, TagRange DEF TypeOK
      <4>. QED BY <3>2, <3>3, <4>1, Batches
    <3>4. CASE \E t \in owned[r] :
                 /\ Changes([Empty EXCEPT !.updates = {t}], r)
                 /\ UNCHANGED nextTag
      <4>1. PICK t \in owned[r] : /\ Changes([Empty EXCEPT !.updates = {t}], r)
                                  /\ UNCHANGED nextTag
        BY <3>4
      <4>2. {t} \in SUBSET Tags
        BY <2>1
      <4>. QED BY <3>2, <4>1, <4>2, Batches
    <3>5. CASE \E gone \in SUBSET owned[r] \ {{}} :
                 /\ Changes([Empty EXCEPT !.destroys = gone], r)
                 /\ UNCHANGED nextTag
      <4>1. PICK gone \in SUBSET owned[r] \ {{}} :
                 /\ Changes([Empty EXCEPT !.destroys = gone], r)
                 /\ UNCHANGED nextTag
        BY <3>5
      <4>2. gone \in SUBSET Tags
        BY <2>1
      <4>. QED BY <3>2, <4>1, <4>2, Batches
    <3>. QED BY <1>1, <3>1, <3>3, <3>4, <3>5 DEF Flush
  <2>4. created' \in [Reconcilers -> BOOLEAN]
    BY <2>2 DEF TypeOK, ClientType
  <2>. QED BY <2>1, <2>2, <2>3, <2>4, PassType
<1>2. ASSUME NEW r \in Reconcilers, Create(r) PROVE TypeOK'
  <2>1. Begin("create", r) /\ nextTag <= MaxTag
    BY <1>2 DEF Create
  <2>2. {nextTag} \in SUBSET Tags
    BY <2>1, TagRange DEF TypeOK
  <2>3. FirstView \in Batch
    BY <2>2, Batches DEF FirstView
  <2>4. CommitTypes'
    BY <1>2, <2>1, <2>3, BeginFacts, SubmitType DEF Create, Changes
  <2>5. /\ created' \in [Reconcilers -> BOOLEAN] /\ nextTag' \in Nat \ {0}
    BY <1>2 DEF Create, TypeOK, ClientType, BoundType
  <2>6. UNCHANGED <<application, revision, births, sequences, failed, outcome,
                    surface, mountQueue, mounting, mounted, sequence,
                    requests, flushes, failures, rejections>>
    BY <1>2 DEF Create
  <2>. QED BY <2>1, <2>4, <2>5, <2>6, BeginFacts, PassType
<1>3. ASSUME NEW r \in Reconcilers, Unmount(r) PROVE TypeOK'
  <2>1. Begin("remount", r)
    BY <1>3 DEF Unmount
  <2>2. [Empty EXCEPT !.destroys = owned[r]] \in Batch
    BY <2>1, BeginFacts, Batches
  <2>3. CommitTypes'
    BY <1>3, <2>1, <2>2, BeginFacts, SubmitType DEF Unmount
  <2>4. /\ created' \in [Reconcilers -> BOOLEAN] /\ nextTag' \in Nat \ {0}
    BY <1>3 DEF Unmount, TypeOK, ClientType, BoundType
  <2>5. UNCHANGED <<application, revision, births, sequences, failed, outcome,
                    surface, mountQueue, mounting, mounted, sequence,
                    requests, flushes, failures, rejections>>
    BY <1>3 DEF Unmount
  <2>. QED BY <2>1, <2>3, <2>4, <2>5, BeginFacts, PassType
<1>4. ASSUME NEW r \in Reconcilers, MountAgain(r) PROVE TypeOK'
  <2>1. Begin("remount", r) /\ nextTag <= MaxTag
    BY <1>4 DEF MountAgain
  <2>2. {nextTag} \in SUBSET Tags
    BY <2>1, TagRange DEF TypeOK
  <2>3. FirstView \in Batch
    BY <2>2, Batches DEF FirstView
  <2>4. CommitTypes'
    BY <1>4, <2>1, <2>3, BeginFacts, SubmitType DEF MountAgain, Changes
  <2>5. /\ created' \in [Reconcilers -> BOOLEAN] /\ nextTag' \in Nat \ {0}
    BY <1>4 DEF MountAgain, TypeOK, ClientType, BoundType
  <2>6. UNCHANGED <<application, revision, births, sequences, failed, outcome,
                    surface, mountQueue, mounting, mounted, sequence,
                    requests, flushes, failures, rejections>>
    BY <1>4 DEF MountAgain
  <2>. QED BY <2>1, <2>4, <2>5, <2>6, BeginFacts, PassType
<1>5. ASSUME NEW r \in Reconcilers, ResetAndMount(r) PROVE TypeOK'
  <2>1. Begin("remount", r) /\ nextTag <= MaxTag
    BY <1>5 DEF ResetAndMount
  <2>2. {nextTag} \in SUBSET Tags
    BY <2>1, TagRange DEF TypeOK
  <2>3. FirstView \in Batch
    BY <2>2, Batches DEF FirstView
  <2>4. BackendType'
    <3>1. /\ application' = application + 1 /\ revision' = 0
          /\ births' = [t \in Tags |-> 0] /\ sequences' = [t \in Tags |-> 0]
          /\ failed' = FALSE /\ publishing' = TRUE
          /\ pending' = r /\ queuedEvents' = <<>>
      BY <1>5 DEF ResetAndMount
    <3>2. application \in Nat
      BY DEF TypeOK, BackendType
    <3>3. <<>> \in Seq(Event)
      BY NoneQueued
    <3>4. births' \in [Tags -> Nat] /\ sequences' \in [Tags -> Nat]
      BY <3>1
    <3>5. failed' \in BOOLEAN /\ publishing' \in BOOLEAN
      BY <3>1
    <3>6. application' \in Nat /\ revision' \in Nat /\ queuedEvents' \in Seq(Event)
      BY <3>1, <3>2, <3>3
    <3>7. pending' \in Reconcilers \cup {NoOne}
      BY <3>1
    <3>. QED BY <3>4, <3>5, <3>6, <3>7 DEF BackendType
  <2>5. LoopType'
    <3>1. ready' = Tail(ready) /\ waiters' = <<Call("resolve", r)>>
      BY <1>5 DEF ResetAndMount
    <3>2. Call("resolve", r) \in Callback
      BY CallbackFacts
    <3>3. Tail(ready) \in Seq(Callback)
      BY <2>1, BeginFacts
    <3>. QED BY <3>1, <3>2, <3>3 DEF LoopType
  <2>6. ClientType'
    BY <1>5, <2>1, <2>3, BeginFacts DEF ResetAndMount, TypeOK, ClientType
  <2>7. WorkerType'
    BY <1>5, <2>3 DEF ResetAndMount, TypeOK, WorkerType, BackendType
  <2>8. CoreType' /\ BoundType'
    BY <1>5 DEF ResetAndMount, TypeOK, CoreType, BoundType
  <2>. QED BY <2>4, <2>5, <2>6, <2>7, <2>8 DEF TypeOK
<1>6. ASSUME NEW r \in Reconcilers, ResetRefused(r) \/ OutOfTags(r) PROVE TypeOK'
  <2>1. /\ Begin("create", r) \/ Begin("remount", r)
        /\ ready' = Tail(ready)
        /\ UNCHANGED <<backendVars, waiters, committing, queued, batch, outcome,
                       created, owned, handlers, coreVars, boundVars>>
    BY <1>6 DEF ResetRefused, OutOfTags
  <2>2. Tail(ready) \in Seq(Callback) /\ scheduled' \in [Reconcilers -> BOOLEAN]
    BY <2>1, BeginFacts
  <2>. QED
    BY <2>1, <2>2
    DEF backendVars, coreVars, boundVars, TypeOK, BackendType, LoopType,
        ClientType, WorkerType, CoreType, BoundType
<1>7. ASSUME NEW r \in Reconcilers, SubmitStep(r) PROVE TypeOK'
  <2>1. /\ Tail(ready) \in Seq(Callback) /\ waiters \in Seq(Callback)
        /\ Call("shield", r) \in Callback /\ Call("resolve", r) \in Callback
    BY <1>7, Running, CallbackFacts DEF SubmitStep, RunsFor, Runs, TypeOK, LoopType
  <2>2. UNCHANGED <<application, revision, births, sequences, failed,
                    queuedEvents, committing, batch, scheduled, created, owned,
                    handlers, surface, mountQueue, mounting, mounted, sequence,
                    requests, boundVars>>
    BY <1>7 DEF SubmitStep
  <2>3. CASE /\ waiters' = Append(waiters, Call("shield", r))
             /\ ready' = Tail(ready)
             /\ UNCHANGED <<queued, outcome, pending, publishing, worker>>
    BY SMTT(20), <2>1, <2>2, <2>3
    DEF TypeOK, BackendType, LoopType, ClientType, WorkerType, CoreType,
        BoundType, boundVars
  <2>4. CASE /\ Start(r, batch[r], Call("shield", r))
             /\ queued' = [queued EXCEPT ![r] = "submitted"]
             /\ ready' = Tail(ready)
             /\ UNCHANGED outcome
    <3>1. WorkerType' /\ pending' = r /\ publishing' = TRUE
          /\ waiters' = <<Call("shield", r)>>
      BY <2>4 DEF Start, TypeOK, WorkerType, BackendType, ClientType
    <3>2. LoopType'
      BY <2>1, <2>4, <3>1 DEF LoopType
    <3>3. BackendType' /\ ClientType'
      BY <2>2, <2>4, <3>1 DEF TypeOK, BackendType, ClientType
    <3>. QED BY <2>2, <3>1, <3>2, <3>3 DEF TypeOK, CoreType, BoundType, boundVars
  <2>5. CASE /\ queued' = [queued EXCEPT ![r] = "none"]
             /\ outcome' = [outcome EXCEPT ![r] = "error"]
             /\ ready' = Append(Tail(ready), Call("resolve", r))
             /\ UNCHANGED <<pending, publishing, waiters, worker>>
    <3>1. LoopType'
      BY <2>1, <2>5 DEF LoopType
    <3>. QED
      BY <2>2, <2>5, <3>1
      DEF TypeOK, BackendType, ClientType, WorkerType, CoreType, BoundType, boundVars
  <2>. QED BY <1>7, <2>3, <2>4, <2>5 DEF SubmitStep
<1>8. ASSUME NEW r \in Reconcilers,
             SubmitDone(r) \/ Shield(r) \/ Resolve(r)
      PROVE  TypeOK'
  <2>1. /\ Tail(ready) \in Seq(Callback)
        /\ \E c \in Callback : ready' = Append(Tail(ready), c)
    BY <1>8, Running, CallbackFacts
    DEF SubmitDone, Shield, Resolve, Hop, RunsFor, Runs, TypeOK
  <2>2. /\ queued' \in [Reconcilers -> {"none", "waiting", "submitted"}]
        /\ UNCHANGED <<backendVars, waiters, committing, batch, outcome,
                       scheduled, created, owned, handlers, coreVars, boundVars>>
    BY <1>8 DEF SubmitDone, Shield, Resolve, Hop, clientVars, TypeOK, ClientType
  <2>3. ready' \in Seq(Callback)
    BY <2>1
  <2>. QED
    BY <2>2, <2>3
    DEF backendVars, coreVars, boundVars, TypeOK, BackendType, LoopType,
        ClientType, WorkerType, CoreType, BoundType
<1>9. ASSUME NEW r \in Reconcilers, Resume(r) PROVE TypeOK'
  <2>1. /\ Tail(ready) \in Seq(Callback) /\ batch[r] \in Batch
        /\ owned[r] \in SUBSET Tags /\ handlers \in SUBSET Tags
    BY <1>9, Running DEF Resume, RunsFor, Runs, TypeOK, ClientType
  <2>2. ASSUME AfterCommit(r, batch[r], Tail(ready))
        PROVE  CommitTypes' /\ nextTag' \in Nat \ {0}
    BY <2>1, <2>2, AfterCommitType
  <2>3. ASSUME /\ Abort(r, owned[r], handlers)
               /\ ready' = Tail(ready)
               /\ UNCHANGED <<queued, pending, publishing, waiters, worker,
                              queuedEvents, nextTag>>
        PROVE  CommitTypes' /\ nextTag' \in Nat \ {0}
    <3>1. CommitTypes'
      BY <2>1, <2>3, AbortType
    <3>. QED BY <2>3, <3>1 DEF TypeOK, BoundType
  <2>4. CommitTypes' /\ nextTag' \in Nat \ {0}
    BY <1>9, <2>2, <2>3 DEF Resume
  <2>5. /\ scheduled' \in [Reconcilers -> BOOLEAN]
        /\ created' \in [Reconcilers -> BOOLEAN]
        /\ UNCHANGED <<application, revision, births, sequences, failed, outcome,
                       surface, mountQueue, mounting, mounted, sequence,
                       requests, flushes, failures, rejections>>
    BY <1>9 DEF Resume, TypeOK, ClientType
  <2>. QED BY <2>4, <2>5, PassType
<1>10. ASSUME Completed PROVE TypeOK'
  <2>1. Tail(ready) \in Seq(Callback) /\ Plain("acknowledged") \in Callback
    BY <1>10, Running, CallbackFacts DEF Completed, Runs, TypeOK
  <2>2. ready' \in Seq(Callback)
    BY <1>10, <2>1 DEF Completed
  <2>. QED
    BY <1>10, <2>2
    DEF Completed, backendVars, clientVars, coreVars, boundVars, TypeOK,
        BackendType, LoopType, ClientType, WorkerType, CoreType, BoundType
<1>11. ASSUME Acknowledged PROVE TypeOK'
  <2>1. LoopType'
    <3>1. Tail(ready) \in Seq(Callback) /\ waiters \in Seq(Callback)
      BY <1>11, Running DEF Acknowledged, Runs, TypeOK, LoopType
    <3>2. ready' = Tail(ready) \o waiters /\ waiters' = <<>>
      BY <1>11 DEF Acknowledged
    <3>. QED BY <3>1, <3>2 DEF LoopType
  <2>2. WorkerType'
    BY <1>11, Batches DEF Acknowledged, WorkerType, Idle
  <2>3. /\ revision' \in Nat
        /\ births' \in [Tags -> Nat] /\ sequences' \in [Tags -> Nat]
    <3>1. CASE /\ revision' = worker.revision
               /\ births' = [t \in Tags |->
                    IF t \in worker.batch.destroys THEN 0
                    ELSE IF t \in worker.batch.creates THEN worker.revision
                    ELSE births[t]]
               /\ sequences' = [t \in Tags |->
                    IF t \in worker.batch.destroys THEN 0 ELSE sequences[t]]
      BY <3>1 DEF TypeOK, BackendType, WorkerType
    <3>2. CASE UNCHANGED <<revision, births, sequences>>
      BY <3>2 DEF TypeOK, BackendType
    <3>. QED BY <1>11, <3>1, <3>2 DEF Acknowledged
  <2>4. /\ application' = application /\ pending' = NoOne
        /\ failed' \in BOOLEAN /\ publishing' \in BOOLEAN
        /\ queuedEvents' \in Seq(Event)
        /\ outcome' \in [Reconcilers -> {"ok", "error"}]
    <3>1. application' = application /\ pending' = NoOne
      BY <1>11 DEF Acknowledged
    <3>2. \/ UNCHANGED <<failed, publishing, queuedEvents>>
          \/ failed' \in BOOLEAN /\ publishing' = FALSE /\ queuedEvents' = <<>>
      BY <1>11 DEF Acknowledged
    <3>3. failed' \in BOOLEAN /\ publishing' \in BOOLEAN
          /\ queuedEvents' \in Seq(Event)
      BY <3>2, NoneQueued DEF TypeOK, BackendType
    <3>4. \E o \in {"ok", "error"} : outcome' = [outcome EXCEPT ![pending] = o]
      BY <1>11 DEF Acknowledged, Outcome
    <3>5. outcome' \in [Reconcilers -> {"ok", "error"}]
      BY <3>4 DEF TypeOK, ClientType
    <3>. QED BY <3>1, <3>3, <3>5
  <2>5. UNCHANGED <<committing, queued, batch, scheduled, created, owned,
                    handlers, surface, mountQueue, mounting, mounted, sequence,
                    requests, boundVars>>
    BY <1>11 DEF Acknowledged
  <2>. QED
    BY <2>1, <2>2, <2>3, <2>4, <2>5
    DEF TypeOK, BackendType, ClientType, CoreType, BoundType, boundVars
<1>12. ASSUME SurfaceFailed PROVE TypeOK'
  <2>1. Tail(ready) \in Seq(Callback)
    BY <1>12, Running DEF SurfaceFailed, Runs, TypeOK
  <2>. QED
    BY <1>12, <2>1
    DEF SurfaceFailed, clientVars, coreVars, boundVars, TypeOK, BackendType,
        LoopType, ClientType, WorkerType, CoreType, BoundType
<1>13. ASSUME OnEvent PROVE TypeOK'
  <2>1. Tail(ready) \in Seq(Callback) /\ Head(ready).event \in Event
    BY <1>13, Running DEF OnEvent, Runs, TypeOK, Callback
  <2>. DEFINE e == Head(ready).event
  <2>2. \/ /\ queuedEvents' = Append(queuedEvents, e)
           /\ UNCHANGED <<failed, sequences>>
        \/ failed' = TRUE /\ UNCHANGED <<queuedEvents, sequences>>
        \/ /\ sequences' = [sequences EXCEPT ![e.tag] = e.sequence]
           /\ UNCHANGED <<queuedEvents, failed>>
        \/ UNCHANGED <<queuedEvents, sequences, failed>>
    BY <1>13 DEF OnEvent
  <2>3. ready' = Tail(ready)
        /\ UNCHANGED <<application, revision, births, pending, publishing,
                       waiters, clientVars, coreVars, boundVars>>
    BY <1>13 DEF OnEvent
  <2>4. /\ queuedEvents' \in Seq(Event) /\ failed' \in BOOLEAN
        /\ sequences' \in [Tags -> Nat]
    <3>. HIDE DEF e
    <3>1. e \in Event
      BY <2>1 DEF e
    <3>2. e.sequence \in Nat /\ e.tag \in Tags
      BY <3>1 DEF Event
    <3>3. Append(queuedEvents, e) \in Seq(Event)
      BY <3>1, AppendType DEF TypeOK, BackendType
    <3>4. [sequences EXCEPT ![e.tag] = e.sequence] \in [Tags -> Nat]
      BY <3>2 DEF TypeOK, BackendType
    <3>. QED BY <2>2, <3>3, <3>4 DEF TypeOK, BackendType
  <2>. QED
    BY <2>1, <2>3, <2>4
    DEF clientVars, coreVars, boundVars, TypeOK, BackendType, LoopType,
        ClientType, WorkerType, CoreType, BoundType
<1>14. ASSUME CoreAccepts PROVE TypeOK'
  <2>1. /\ worker.application \in Nat /\ worker.revision \in Nat
        /\ worker.batch.creates \in SUBSET Tags
        /\ worker.batch.destroys \in SUBSET Tags
        /\ LiveFor(worker) \in SUBSET Tags
    BY DEF TypeOK, WorkerType, CoreType, Batch, LiveFor
  <2>2. surface' \in [application : Nat, revision : Nat, views : SUBSET Tags,
                      failed : BOOLEAN]
    BY <1>14, <2>1 DEF CoreAccepts, TypeOK, CoreType, Replacing
  <2>3. mountQueue' \in Seq(Transaction)
    <3>. DEFINE accepted ==
           [application |-> worker.application, revision |-> worker.revision,
            creates |-> worker.batch.creates, destroys |-> worker.batch.destroys,
            replacing |-> Replacing(worker)]
    <3>1. accepted \in Transaction
      BY <2>1 DEF Transaction, Replacing
    <3>2. mountQueue' = Append(mountQueue, accepted)
      BY <1>14 DEF CoreAccepts
    <3>. HIDE DEF accepted
    <3>. QED BY <3>1, <3>2 DEF TypeOK, CoreType
  <2>4. WorkerType'
    BY <1>14 DEF CoreAccepts, TypeOK, WorkerType
  <2>5. UNCHANGED <<backendVars, loopVars, clientVars, mounting, mounted,
                    sequence, requests, boundVars>>
    BY <1>14 DEF CoreAccepts
  <2>. QED
    BY <2>2, <2>3, <2>4, <2>5
    DEF backendVars, loopVars, clientVars, boundVars, TypeOK, BackendType,
        LoopType, ClientType, CoreType, BoundType
<1>15. ASSUME CoreRejects \/ TransportError PROVE TypeOK'
  <2>1. WorkerType'
    BY <1>15 DEF CoreRejects, TransportError, TypeOK, WorkerType
  <2>2. BoundType'
    BY <1>15 DEF CoreRejects, TransportError, TypeOK, BoundType
  <2>3. UNCHANGED <<backendVars, loopVars, clientVars, surface, mountQueue,
                    mounting, mounted, sequence, requests>>
    BY <1>15 DEF CoreRejects, TransportError
  <2>. QED
    BY <2>1, <2>2, <2>3
    DEF backendVars, loopVars, clientVars, TypeOK, BackendType, LoopType,
        ClientType, CoreType
<1>16. ASSUME WorkerReturns PROVE TypeOK'
  <2>1. WorkerType'
    BY <1>16 DEF WorkerReturns, TypeOK, WorkerType
  <2>2. LoopType'
    BY <1>16, CallbackFacts DEF WorkerReturns, TypeOK, LoopType
  <2>3. UNCHANGED <<backendVars, clientVars, surface, mountQueue,
                    mounting, mounted, sequence, requests, boundVars>>
    BY <1>16 DEF WorkerReturns
  <2>. QED
    BY <2>1, <2>2, <2>3
    DEF backendVars, clientVars, boundVars, TypeOK, BackendType,
        ClientType, CoreType, BoundType
<1>17. ASSUME MountNext PROVE TypeOK'
  <2>1. /\ Head(mountQueue) \in Transaction /\ Tail(mountQueue) \in Seq(Transaction)
    BY <1>17 DEF MountNext, TypeOK, CoreType
  <2>2. mounting' = Head(mountQueue) /\ mountQueue' = Tail(mountQueue)
    BY <1>17 DEF MountNext
  <2>3. mounting'.creates \in SUBSET Tags
    BY <2>1, <2>2 DEF Transaction
  <2>4. mounted' \in [application : Nat, revision : Nat, views : SUBSET Tags]
    BY <1>17, <2>3 DEF MountNext, TypeOK, CoreType
  <2>5. UNCHANGED <<backendVars, loopVars, clientVars, worker, surface, sequence,
                    requests, boundVars>>
    BY <1>17 DEF MountNext
  <2>. QED
    BY <2>1, <2>2, <2>4, <2>5
    DEF backendVars, loopVars, clientVars, boundVars, TypeOK, BackendType,
        LoopType, ClientType, WorkerType, CoreType, BoundType
<1>18. ASSUME MountFinished PROVE TypeOK'
  <2>1. mounting' \in Transaction /\ mounting.application \in Nat
        /\ mounting.revision \in Nat
    BY <1>18 DEF MountFinished, TypeOK, CoreType, Transaction, NoTransaction
  <2>2. mounted' \in [application : Nat, revision : Nat, views : SUBSET Tags]
    BY <1>18, <2>1 DEF MountFinished, TypeOK, CoreType
  <2>3. LoopType' /\ requests' \in SUBSET Nat /\ failures' \in Nat
    <3>1. waiters' = waiters
      BY <1>18 DEF MountFinished
    <3>2. CASE UNCHANGED <<requests, ready, failures>>
      BY <3>1, <3>2 DEF TypeOK, LoopType, CoreType, BoundType
    <3>3. CASE /\ failures' = failures + 1
               /\ requests' = requests \cup {mounting.application}
               /\ ready' = Append(ready, Failure(mounting.application))
      <4>1. Failure(mounting.application) \in Callback
        BY <2>1, CallbackFacts
      <4>2. LoopType'
        BY <3>1, <3>3, <4>1, AppendType DEF TypeOK, LoopType
      <4>3. failures' \in Nat
        BY <3>3 DEF TypeOK, BoundType
      <4>4. requests' \in SUBSET Nat
        BY <2>1, <3>3 DEF TypeOK, CoreType
      <4>. QED BY <4>2, <4>3, <4>4
    <3>. QED BY <1>18, <3>2, <3>3 DEF MountFinished
  <2>4. UNCHANGED <<backendVars, waiters, clientVars, worker, surface,
                    mountQueue, sequence, nextTag, flushes, rejections>>
    BY <1>18 DEF MountFinished
  <2>. QED
    BY <2>1, <2>2, <2>3, <2>4
    DEF backendVars, clientVars, TypeOK, BackendType, LoopType, ClientType,
        WorkerType, CoreType, BoundType
<1>19. ASSUME CoreWork PROVE TypeOK'
  BY <1>19
  DEF CoreWork, backendVars, loopVars, clientVars, boundVars, TypeOK,
      BackendType, LoopType, ClientType, WorkerType, CoreType, BoundType
<1>20. ASSUME NEW t \in Tags, NativeEvent(t) PROVE TypeOK'
  <2>. DEFINE of == IF mounting = NoTransaction THEN mounted ELSE mounting
              e  == [application |-> of.application, revision |-> of.revision,
                     sequence |-> sequence + 1, tag |-> t]
  <2>1. e \in Event
    BY DEF Event, TypeOK, CoreType, Transaction
  <2>2. ready' = Append(ready, Deliver(e)) /\ sequence' = sequence + 1
    BY <1>20 DEF NativeEvent
  <2>. HIDE DEF e
  <2>3. LoopType' /\ sequence' \in Nat
    BY <1>20, <2>1, <2>2, CallbackFacts DEF NativeEvent, TypeOK, LoopType, CoreType
  <2>4. UNCHANGED <<backendVars, waiters, clientVars, worker, surface,
                    mountQueue, mounting, mounted, requests, boundVars>>
    BY <1>20 DEF NativeEvent
  <2>. QED
    BY <2>3, <2>4
    DEF backendVars, clientVars, boundVars, TypeOK, BackendType, ClientType,
        WorkerType, CoreType, BoundType
<1>21. ASSUME NEW r \in Reconcilers,
              RequestRender(r) \/ RequestCreate(r) \/ RequestRemount(r)
       PROVE  TypeOK'
  <2>1. PICK k \in Kinds : Schedule(k, r)
    BY <1>21 DEF RequestRender, RequestCreate, RequestRemount
  <2>2. LoopType'
    BY <2>1, CallbackFacts DEF Schedule, TypeOK, LoopType
  <2>3. /\ scheduled' \in [Reconcilers -> BOOLEAN] /\ flushes' \in Nat
        /\ UNCHANGED <<backendVars, waiters, committing, queued, batch, outcome,
                       created, owned, handlers, coreVars, nextTag, failures,
                       rejections>>
    BY <2>1 DEF Schedule, TypeOK, ClientType, BoundType
  <2>. QED
    BY <2>2, <2>3
    DEF backendVars, coreVars, TypeOK, BackendType, LoopType, ClientType,
        WorkerType, CoreType, BoundType
<1>22. CASE UNCHANGED vars
  BY <1>22
  DEF vars, backendVars, loopVars, clientVars, coreVars, boundVars, TypeOK,
      BackendType, LoopType, ClientType, WorkerType, CoreType, BoundType
<1>. QED
  BY <1>1, <1>2, <1>3, <1>4, <1>5, <1>6, <1>7, <1>8, <1>9, <1>10, <1>11, <1>12,
     <1>13, <1>14, <1>15, <1>16, <1>17, <1>18, <1>19, <1>20, <1>21, <1>22
  DEF Next, LoopStep, WorkerStep

(* The initial state is well typed. *)
LEMMA TypeInit == Init => TypeOK
<1>. SUFFICES ASSUME Init PROVE TypeOK
  OBVIOUS
<1>1. BackendType /\ LoopType
  BY NoneQueued DEF Init, BackendType, LoopType
<1>2. ClientType
  BY Batches DEF Init, ClientType
<1>3. WorkerType /\ BoundType
  BY Batches DEF Init, WorkerType, BoundType, Idle
<1>4. CoreType
  BY NoneQueued DEF Init, CoreType, NoTransaction, Transaction
<1>. QED BY <1>1, <1>2, <1>3, <1>4 DEF TypeOK

(* The types hold in every state of every run. *)
THEOREM TypeCorrect == Spec => []TypeOK
  BY TypeInit, TypeStep, PTL DEF Spec

----------------------------------------------------------------------------
(* Python and the core agree.                                              *)
(*                                                                         *)
(* MirrorAgreement alone is not inductive: it says nothing while a commit  *)
(* is in flight, and an acknowledgement relies on the core having applied  *)
(* exactly the batch that is being acknowledged, once.                     *)

AckKinds == {"completed", "acknowledged"}

NoAck(s)  == \A i \in DOMAIN s : s[i].kind \notin AckKinds
OneAck(s) == \E i \in DOMAIN s :
               /\ s[i].kind \in AckKinds
               /\ \A j \in DOMAIN s : j # i => s[j].kind \notin AckKinds

(* The commit that has returned is the only one with an answer on the loop. *)
Acked(s, w) == IF w.state = "returned" THEN OneAck(s) ELSE NoAck(s)
OneAnswer   == Acked(ready, worker) /\ NoAck(waiters)

Live   == {t \in Tags : births[t] # 0}
Agrees == IF application = surface.application
          THEN revision = surface.revision /\ Live = surface.views
          ELSE revision = 0 /\ Live = {}

(* The core holds the tree the commit in flight makes of Python's. *)
Applied == /\ surface.application = worker.application
           /\ surface.revision = worker.revision
           /\ surface.views = (Live \cup worker.batch.creates)
                                \ worker.batch.destroys

Answered(result) ==
  worker.state \in {"done", "returned"} /\ worker.result = result

InFlight ==
  /\ pending = NoOne <=> worker.state = "idle"
  /\ worker.state # "idle" =>
       worker.application = application /\ worker.revision = revision + 1

Channel ==
  /\ surface.application <= application
  /\ InFlight
  /\ (pending = NoOne /\ ~failed) => Agrees
  /\ worker.state = "running" => Agrees
  /\ Answered("rejected") => Agrees
  /\ Answered("ok") => Applied

(* The inductive invariant. *)
IInv == TypeOK /\ OneAnswer /\ Channel

(* Answers and the loop's queue: what appending, taking the head and        *)
(* splicing do to the number of answers in it.                              *)
LEMMA AppendAcked ==
  ASSUME NEW s \in Seq(Callback), NEW c \in Callback
  PROVE  /\ c.kind \notin AckKinds /\ NoAck(s) => NoAck(Append(s, c))
         /\ c.kind \notin AckKinds /\ OneAck(s) => OneAck(Append(s, c))
         /\ c.kind \in AckKinds /\ NoAck(s) => OneAck(Append(s, c))
<1>1. /\ Len(s) \in Nat /\ DOMAIN s = 1 .. Len(s)
      /\ DOMAIN Append(s, c) = 1 .. (Len(s) + 1)
      /\ \A i \in 1 .. Len(s) : Append(s, c)[i] = s[i]
      /\ Append(s, c)[Len(s) + 1] = c
  OBVIOUS
<1>. DEFINE t == Append(s, c)
<1>. HIDE DEF t
<1>2. /\ DOMAIN t = 1 .. (Len(s) + 1)
      /\ \A i \in 1 .. Len(s) : t[i] = s[i]
      /\ t[Len(s) + 1] = c
  BY <1>1 DEF t
<1>3. c.kind \notin AckKinds /\ NoAck(s) => NoAck(t)
  BY <1>1, <1>2 DEF NoAck
<1>4. ASSUME c.kind \notin AckKinds, OneAck(s) PROVE OneAck(t)
  <2>1. PICK i \in DOMAIN s : /\ s[i].kind \in AckKinds
                              /\ \A j \in DOMAIN s : j # i => s[j].kind \notin AckKinds
    BY <1>4 DEF OneAck
  <2>2. i \in DOMAIN t /\ t[i].kind \in AckKinds
    BY <1>1, <1>2, <2>1
  <2>3. \A j \in DOMAIN t : j # i => t[j].kind \notin AckKinds
    BY <1>1, <1>2, <1>4, <2>1
  <2>. QED BY <2>2, <2>3 DEF OneAck
<1>5. ASSUME c.kind \in AckKinds, NoAck(s) PROVE OneAck(t)
  <2>1. Len(s) + 1 \in DOMAIN t /\ t[Len(s) + 1].kind \in AckKinds
    BY <1>1, <1>2, <1>5
  <2>2. \A j \in DOMAIN t : j # Len(s) + 1 => t[j].kind \notin AckKinds
    BY <1>1, <1>2, <1>5 DEF NoAck
  <2>. QED BY <2>1, <2>2 DEF OneAck
<1>. QED BY <1>3, <1>4, <1>5 DEF t

(* Taking a callback off the queue takes at most its answer. *)
LEMMA TailAcked ==
  ASSUME NEW s \in Seq(Callback), s # <<>>
  PROVE  /\ NoAck(s) => Head(s).kind \notin AckKinds /\ NoAck(Tail(s))
         /\ OneAck(s) /\ Head(s).kind \notin AckKinds => OneAck(Tail(s))
         /\ OneAck(s) /\ Head(s).kind \in AckKinds => NoAck(Tail(s))
<1>. DEFINE t == Tail(s)
            h == Head(s)
<1>1. /\ Len(s) \in Nat \ {0} /\ DOMAIN s = 1 .. Len(s)
      /\ DOMAIN t = 1 .. (Len(s) - 1)
      /\ \A i \in 1 .. (Len(s) - 1) : t[i] = s[i + 1]
      /\ h = s[1]
  OBVIOUS
<1>. HIDE DEF t, h
<1>2. NoAck(s) => h.kind \notin AckKinds /\ NoAck(t)
  BY <1>1 DEF NoAck
<1>3. ASSUME OneAck(s), h.kind \notin AckKinds PROVE OneAck(t)
  <2>1. PICK i \in DOMAIN s : /\ s[i].kind \in AckKinds
                              /\ \A j \in DOMAIN s : j # i => s[j].kind \notin AckKinds
    BY <1>3 DEF OneAck
  <2>2. i # 1
    BY <1>1, <1>3, <2>1
  <2>3. i - 1 \in DOMAIN t /\ t[i - 1].kind \in AckKinds
    BY <1>1, <2>1, <2>2
  <2>4. \A j \in DOMAIN t : j # i - 1 => t[j].kind \notin AckKinds
    BY <1>1, <2>1
  <2>. QED BY <2>3, <2>4 DEF OneAck
<1>4. ASSUME OneAck(s), h.kind \in AckKinds PROVE NoAck(t)
  <2>1. PICK i \in DOMAIN s : /\ s[i].kind \in AckKinds
                              /\ \A j \in DOMAIN s : j # i => s[j].kind \notin AckKinds
    BY <1>4 DEF OneAck
  <2>2. i = 1
    BY <1>1, <1>4, <2>1
  <2>. QED BY <1>1, <2>1, <2>2 DEF NoAck
<1>. QED BY <1>2, <1>3, <1>4 DEF t, h

(* Appending callbacks without an answer adds none. *)
LEMMA SpliceAcked ==
  ASSUME NEW s \in Seq(Callback), NEW u \in Seq(Callback), NoAck(u)
  PROVE  /\ NoAck(s) => NoAck(s \o u)
         /\ OneAck(s) => OneAck(s \o u)
<1>. DEFINE t == s \o u
<1>1. /\ Len(s) \in Nat /\ Len(u) \in Nat
      /\ DOMAIN s = 1 .. Len(s) /\ DOMAIN u = 1 .. Len(u)
      /\ DOMAIN t = 1 .. (Len(s) + Len(u))
      /\ \A i \in 1 .. Len(s) : t[i] = s[i]
      /\ \A i \in (Len(s) + 1) .. (Len(s) + Len(u)) : t[i] = u[i - Len(s)]
  OBVIOUS
<1>. HIDE DEF t
<1>2. \A i \in DOMAIN t : i \notin DOMAIN s => t[i].kind \notin AckKinds
  BY <1>1 DEF NoAck
<1>3. NoAck(s) => NoAck(t)
  BY <1>1, <1>2 DEF NoAck
<1>4. ASSUME OneAck(s) PROVE OneAck(t)
  <2>1. PICK i \in DOMAIN s : /\ s[i].kind \in AckKinds
                              /\ \A j \in DOMAIN s : j # i => s[j].kind \notin AckKinds
    BY <1>4 DEF OneAck
  <2>2. i \in DOMAIN t /\ t[i].kind \in AckKinds
    BY <1>1, <2>1
  <2>3. \A j \in DOMAIN t : j # i => t[j].kind \notin AckKinds
    BY <1>1, <1>2, <2>1
  <2>. QED BY <2>2, <2>3 DEF OneAck
<1>. QED BY <1>3, <1>4 DEF t

(* Only acknowledgements carry the answer to a commit. *)
LEMMA CallbackKinds ==
  /\ \A k \in Kinds, r \in Reconcilers : Call(k, r).kind \notin AckKinds
  /\ \A k \in AckKinds : Plain(k).kind \in AckKinds
  /\ \A a \in Nat : Failure(a).kind \notin AckKinds
  /\ \A e \in Event : Deliver(e).kind \notin AckKinds
  BY DEF Kinds, AckKinds, Call, Plain, Failure, Deliver

(* A callback that is no answer leaves the queue with the answers it had. *)
LEMMA DequeueAcked ==
  ASSUME TypeOK, OneAnswer, ready # <<>>, Head(ready).kind \notin AckKinds
  PROVE  /\ Tail(ready) \in Seq(Callback) /\ waiters \in Seq(Callback)
         /\ Acked(Tail(ready), worker) /\ NoAck(waiters)
<1>1. ready \in Seq(Callback) /\ waiters \in Seq(Callback)
  BY DEF TypeOK, LoopType
<1>2. Acked(ready, worker) /\ NoAck(waiters)
  BY DEF OneAnswer
<1>. QED BY <1>1, <1>2, TailAcked DEF Acked

(* So does one more callback that is no answer. *)
LEMMA EnqueueAcked ==
  ASSUME NEW s \in Seq(Callback), NEW c \in Callback, NEW w,
         Acked(s, w), c.kind \notin AckKinds
  PROVE  Acked(Append(s, c), w)
  BY AppendAcked DEF Acked

(* The channel's agreement depends on these variables only. *)
LEMMA ChannelKept ==
  ASSUME Channel,
         UNCHANGED <<application, revision, births, failed, pending, worker, surface>>
  PROVE  Channel'
  BY DEF Channel, InFlight, Agrees, Applied, Answered, Live

(* A commit starts on a tree both sides agree about. *)
LEMMA StartKept ==
  ASSUME TypeOK, Channel, pending = NoOne, ~failed,
         NEW r \in Reconcilers, NEW b \in Batch, NEW c,
         Start(r, b, c),
         UNCHANGED <<application, revision, births, failed, surface>>
  PROVE  Channel' /\ worker.state = "idle" /\ worker'.state = "running"
<1>1. worker.state = "idle" /\ Agrees
  BY DEF Channel, InFlight
<1>2. /\ pending' = r /\ r # NoOne
      /\ worker' = [state |-> "running", application |-> application,
                    revision |-> revision + 1, batch |-> b, result |-> "ok"]
  BY NoOneIsNoReconciler DEF Start
<1>3. Agrees'
  BY <1>1 DEF Agrees, Live
<1>. QED BY <1>1, <1>2, <1>3 DEF Channel, InFlight, Answered

(* A submit task keeps the answer in one place. *)
LEMMA SubmitKept ==
  ASSUME IInv,
         NEW r \in Reconcilers, NEW b \in Batch, NEW rest \in Seq(Callback),
         NEW tree, NEW registry,
         Acked(rest, worker),
         Submit(r, b, rest, tree, registry),
         UNCHANGED <<application, revision, births, failed, surface>>
  PROVE  Channel' /\ OneAnswer'
<1>1. TypeOK /\ Channel /\ NoAck(waiters)
  BY DEF IInv, OneAnswer
<1>2. CASE pending # NoOne
  <2>1. /\ ready' = Append(rest, Call("step", r))
        /\ UNCHANGED <<pending, waiters, worker>>
    BY <1>2 DEF Submit
  <2>2. Call("step", r) \in Callback /\ Call("step", r).kind \notin AckKinds
    BY CallbackFacts, CallbackKinds DEF Kinds
  <2>3. Acked(ready', worker)
    BY <2>1, <2>2, EnqueueAcked
  <2>. QED BY <1>1, <2>1, <2>3, ChannelKept DEF OneAnswer
<1>3. CASE pending = NoOne /\ ~failed
  <2>1. Start(r, b, Call("resolve", r)) /\ ready' = rest
    BY <1>3 DEF Submit
  <2>2. Channel' /\ worker.state = "idle" /\ worker'.state = "running"
    BY <1>1, <1>3, <2>1, StartKept
  <2>3. waiters' = <<Call("resolve", r)>> /\ Call("resolve", r).kind \notin AckKinds
    BY <2>1, CallbackKinds DEF Start, Kinds
  <2>4. NoAck(waiters')
    BY <2>3 DEF NoAck
  <2>5. NoAck(ready')
    BY <2>1, <2>2 DEF Acked
  <2>. QED BY <2>2, <2>4, <2>5 DEF OneAnswer, Acked
<1>4. CASE pending = NoOne /\ failed
  <2>1. ready' = rest /\ UNCHANGED <<pending, waiters, worker>>
    BY <1>4 DEF Submit
  <2>. QED BY <1>1, <2>1, ChannelKept DEF OneAnswer
<1>. QED BY <1>2, <1>3, <1>4 DEF TypeOK, BackendType, IInv

(* So does what a pass does after its commit. *)
LEMMA AfterCommitKept ==
  ASSUME IInv,
         NEW r \in Reconcilers, NEW b \in Batch, NEW rest \in Seq(Callback),
         Acked(rest, worker),
         AfterCommit(r, b, rest),
         UNCHANGED <<application, revision, births, failed, surface>>
  PROVE  Channel' /\ OneAnswer'
<1>. DEFINE tree     == (owned[r] \cup b.creates) \ b.destroys
            registry == (handlers \cup b.creates) \ b.destroys
<1>1. TypeOK /\ Channel /\ NoAck(waiters)
  BY DEF IInv, OneAnswer
<1>2. CASE ReleaseEvents(rest) /\ UNCHANGED <<pending, waiters, worker>>
  <2>. DEFINE released == [i \in 1 .. Len(queuedEvents) |-> Deliver(queuedEvents[i])]
  <2>1. ready' = rest \/ ready' = rest \o released
    BY <1>2 DEF ReleaseEvents
  <2>2. released \in Seq(Callback) /\ NoAck(released)
    <3>1. queuedEvents \in Seq(Event) /\ Len(queuedEvents) \in Nat
      BY <1>1 DEF TypeOK, BackendType
    <3>2. \A i \in 1 .. Len(queuedEvents) :
            /\ Deliver(queuedEvents[i]) \in Callback
            /\ Deliver(queuedEvents[i]).kind \notin AckKinds
      BY <3>1, CallbackFacts, CallbackKinds
    <3>. QED BY <3>1, <3>2 DEF NoAck
  <2>. HIDE DEF released
  <2>3. Acked(ready', worker)
    BY <2>1, <2>2, SpliceAcked DEF Acked
  <2>. QED BY <1>1, <1>2, <2>3, ChannelKept DEF OneAnswer
<1>3. CASE \E fallback \in Fallbacks(tree) :
             Submit(r, fallback, rest, tree, registry)
  <2>1. PICK fallback \in Fallbacks(tree) :
               Submit(r, fallback, rest, tree, registry)
    BY <1>3
  <2>2. tree \in SUBSET Tags
    BY <1>1 DEF TypeOK, ClientType, Batch
  <2>3. nextTag <= MaxTag
    BY <2>1 DEF Fallbacks
  <2>4. fallback \in Batch
    BY <1>1, <2>1, <2>2, <2>3, TagRange DEF Fallbacks, TypeOK, Batch
  <2>. HIDE DEF tree, registry
  <2>. QED BY <2>1, <2>4, SubmitKept
<1>4. CASE ready' = rest /\ UNCHANGED <<pending, waiters, worker>>
  BY <1>1, <1>4, ChannelKept DEF OneAnswer
<1>. QED BY <1>2, <1>3, <1>4 DEF AfterCommit

(* A pass that begins on the loop leaves the answers where they are.        *)
LEMMA BeginAcked ==
  ASSUME IInv, NEW r \in Reconcilers, NEW k \in Kinds, Begin(k, r)
  PROVE  /\ Tail(ready) \in Seq(Callback) /\ waiters \in Seq(Callback)
         /\ Acked(Tail(ready), worker) /\ NoAck(waiters)
         /\ owned[r] \in SUBSET Tags /\ handlers \in SUBSET Tags
<1>1. TypeOK /\ OneAnswer
  BY DEF IInv
<1>2. ready # <<>> /\ Head(ready).kind \notin AckKinds
  BY DEF Begin, RunsFor, Runs, Kinds, AckKinds
<1>. QED BY <1>1, <1>2, DequeueAcked DEF TypeOK, ClientType

(* Every step keeps the answer in one place and the sides related. *)
LEMMA ChannelStep == IInv /\ [Next]_vars => OneAnswer' /\ Channel'
<1>. SUFFICES ASSUME IInv, [Next]_vars PROVE OneAnswer' /\ Channel'
  OBVIOUS
<1>. USE DEF Kinds
<1>0. TypeOK /\ OneAnswer /\ Channel
  BY DEF IInv
<1>1. ASSUME NEW r \in Reconcilers, Flush(r) PROVE OneAnswer' /\ Channel'
  <2>1. Begin("flush", r)
        /\ UNCHANGED <<application, revision, births, failed, surface>>
    BY <1>1 DEF Flush
  <2>2. ASSUME NEW b \in Batch, Changes(b, r) PROVE OneAnswer' /\ Channel'
    BY <2>1, <2>2, BeginAcked, SubmitKept DEF Changes
  <2>3. CASE AfterCommit(r, Empty, Tail(ready))
    BY <2>1, <2>3, BeginAcked, Batches, AfterCommitKept
  <2>4. CASE nextTag <= MaxTag /\ Changes([Empty EXCEPT !.creates = {nextTag}], r)
    <3>1. {nextTag} \in SUBSET Tags
      BY <1>0, <2>4, TagRange DEF TypeOK
    <3>. QED BY <2>2, <2>4, <3>1, Batches
  <2>5. CASE \E t \in owned[r] : Changes([Empty EXCEPT !.updates = {t}], r)
    <3>1. PICK t \in owned[r] : Changes([Empty EXCEPT !.updates = {t}], r)
      BY <2>5
    <3>2. {t} \in SUBSET Tags
      BY <2>1, BeginAcked
    <3>. QED BY <2>2, <3>1, <3>2, Batches
  <2>6. CASE \E gone \in SUBSET owned[r] : Changes([Empty EXCEPT !.destroys = gone], r)
    <3>1. PICK gone \in SUBSET owned[r] : Changes([Empty EXCEPT !.destroys = gone], r)
      BY <2>6
    <3>2. gone \in SUBSET Tags
      BY <2>1, BeginAcked
    <3>. QED BY <2>2, <3>1, <3>2, Batches
  <2>. QED BY <1>1, <2>3, <2>4, <2>5, <2>6 DEF Flush
<1>2. ASSUME NEW r \in Reconcilers, Create(r) \/ MountAgain(r)
      PROVE  OneAnswer' /\ Channel'
  <2>1. /\ Begin("create", r) \/ Begin("remount", r)
        /\ nextTag <= MaxTag /\ Changes(FirstView, r)
        /\ UNCHANGED <<application, revision, births, failed, surface>>
    BY <1>2 DEF Create, MountAgain
  <2>2. {nextTag} \in SUBSET Tags
    BY <1>0, <2>1, TagRange DEF TypeOK
  <2>3. FirstView \in Batch
    BY <2>2, Batches DEF FirstView
  <2>. QED BY <2>1, <2>3, BeginAcked, SubmitKept DEF Changes
<1>3. ASSUME NEW r \in Reconcilers, Unmount(r) PROVE OneAnswer' /\ Channel'
  <2>1. /\ Begin("remount", r)
        /\ Submit(r, [Empty EXCEPT !.destroys = owned[r]], Tail(ready), {},
                  handlers)
        /\ UNCHANGED <<application, revision, births, failed, surface>>
    BY <1>3 DEF Unmount
  <2>2. [Empty EXCEPT !.destroys = owned[r]] \in Batch
    BY <2>1, BeginAcked, Batches
  <2>. QED BY <2>1, <2>2, BeginAcked, SubmitKept
<1>4. ASSUME NEW r \in Reconcilers, ResetAndMount(r) PROVE OneAnswer' /\ Channel'
  <2>1. Begin("remount", r) /\ Settled
    BY <1>4 DEF ResetAndMount
  <2>2. worker.state = "idle"
    BY <1>0, <2>1 DEF Settled, Channel, InFlight
  <2>3. /\ ready' = Tail(ready) /\ waiters' = <<Call("resolve", r)>>
        /\ worker' = [state |-> "running", application |-> application + 1,
                      revision |-> 1, batch |-> FirstView, result |-> "ok"]
        /\ pending' = r /\ application' = application + 1 /\ revision' = 0
        /\ births' = [t \in Tags |-> 0] /\ surface' = surface
    BY <1>4 DEF ResetAndMount
  <2>4. OneAnswer'
    <3>1. NoAck(ready')
      BY <2>1, <2>2, <2>3, BeginAcked DEF Acked
    <3>2. NoAck(waiters')
      BY <2>3, CallbackKinds DEF NoAck
    <3>. QED BY <2>3, <3>1, <3>2 DEF OneAnswer, Acked
  <2>5. /\ application \in Nat /\ surface.application \in Nat
        /\ surface.application <= application
    BY <1>0 DEF TypeOK, BackendType, CoreType, Channel
  <2>6. Agrees'
    BY <2>3, <2>5 DEF Agrees, Live
  <2>7. pending' # NoOne
    BY <2>3, NoOneIsNoReconciler
  <2>. QED BY <2>3, <2>4, <2>5, <2>6, <2>7 DEF Channel, InFlight, Answered
<1>5. ASSUME NEW r \in Reconcilers, ResetRefused(r) \/ OutOfTags(r)
      PROVE  OneAnswer' /\ Channel'
  <2>1. /\ Begin("create", r) \/ Begin("remount", r)
        /\ ready' = Tail(ready)
        /\ UNCHANGED <<backendVars, waiters, coreVars>>
    BY <1>5 DEF ResetRefused, OutOfTags
  <2>. QED BY <1>0, <2>1, BeginAcked, ChannelKept DEF OneAnswer, backendVars, coreVars
<1>6. ASSUME NEW r \in Reconcilers, SubmitStep(r) PROVE OneAnswer' /\ Channel'
  <2>1. /\ Tail(ready) \in Seq(Callback) /\ waiters \in Seq(Callback)
        /\ Acked(Tail(ready), worker) /\ NoAck(waiters)
    BY <1>0, <1>6, DequeueAcked DEF SubmitStep, RunsFor, Runs, AckKinds
  <2>2. UNCHANGED <<application, revision, births, failed, surface>>
    BY <1>6 DEF SubmitStep
  <2>3. /\ Call("shield", r) \in Callback /\ Call("shield", r).kind \notin AckKinds
        /\ Call("resolve", r) \in Callback /\ Call("resolve", r).kind \notin AckKinds
    BY CallbackFacts, CallbackKinds
  <2>4. CASE /\ waiters' = Append(waiters, Call("shield", r))
             /\ ready' = Tail(ready) /\ UNCHANGED <<pending, worker>>
    <3>1. NoAck(waiters')
      BY <2>1, <2>3, <2>4, AppendAcked
    <3>. QED BY <1>0, <2>1, <2>2, <2>4, <3>1, ChannelKept DEF OneAnswer
  <2>5. CASE /\ pending = NoOne /\ ~failed
             /\ Start(r, batch[r], Call("shield", r))
             /\ ready' = Tail(ready)
    <3>1. batch[r] \in Batch
      BY <1>0 DEF TypeOK, ClientType
    <3>2. Channel' /\ worker.state = "idle" /\ worker'.state = "running"
      BY <1>0, <2>2, <2>5, <3>1, StartKept
    <3>3. NoAck(ready')
      BY <2>1, <2>5, <3>2 DEF Acked
    <3>4. waiters' = <<Call("shield", r)>>
      BY <2>5 DEF Start
    <3>5. NoAck(waiters')
      BY <2>3, <3>4 DEF NoAck
    <3>. QED BY <3>2, <3>3, <3>5 DEF OneAnswer, Acked
  <2>6. CASE /\ ready' = Append(Tail(ready), Call("resolve", r))
             /\ UNCHANGED <<pending, waiters, worker>>
    <3>1. Acked(ready', worker)
      BY <2>1, <2>3, <2>6, EnqueueAcked
    <3>. QED BY <1>0, <2>1, <2>2, <2>6, <3>1, ChannelKept DEF OneAnswer
  <2>. QED BY <1>6, <2>4, <2>5, <2>6 DEF SubmitStep
<1>7. ASSUME NEW r \in Reconcilers, SubmitDone(r) \/ Shield(r) \/ Resolve(r)
      PROVE  OneAnswer' /\ Channel'
  <2>1. /\ ready # <<>> /\ Head(ready).kind \notin AckKinds
        /\ \E k \in Kinds : ready' = Append(Tail(ready), Call(k, r))
        /\ UNCHANGED <<backendVars, waiters, coreVars>>
    BY <1>7 DEF SubmitDone, Shield, Resolve, Hop, RunsFor, Runs, AckKinds
  <2>2. Acked(ready', worker) /\ NoAck(waiters)
    BY <1>0, <2>1, DequeueAcked, CallbackFacts, CallbackKinds, EnqueueAcked
  <2>. QED BY <1>0, <2>1, <2>2, ChannelKept DEF OneAnswer, backendVars, coreVars
<1>8. ASSUME NEW r \in Reconcilers, Resume(r) PROVE OneAnswer' /\ Channel'
  <2>1. /\ Tail(ready) \in Seq(Callback)
        /\ Acked(Tail(ready), worker) /\ NoAck(waiters)
    BY <1>0, <1>8, DequeueAcked DEF Resume, RunsFor, Runs, AckKinds
  <2>2. UNCHANGED <<application, revision, births, failed, surface>>
    BY <1>8 DEF Resume
  <2>3. CASE AfterCommit(r, batch[r], Tail(ready))
    <3>1. batch[r] \in Batch
      BY <1>0 DEF TypeOK, ClientType
    <3>. QED BY <2>1, <2>2, <2>3, <3>1, AfterCommitKept
  <2>4. CASE ready' = Tail(ready) /\ UNCHANGED <<pending, waiters, worker>>
    BY <1>0, <2>1, <2>2, <2>4, ChannelKept DEF OneAnswer
  <2>. QED BY <1>8, <2>3, <2>4 DEF Resume
<1>9. ASSUME Completed PROVE OneAnswer' /\ Channel'
  <2>1. /\ ready \in Seq(Callback) /\ ready # <<>> /\ Head(ready).kind \in AckKinds
        /\ ready' = Append(Tail(ready), Plain("acknowledged"))
        /\ UNCHANGED <<backendVars, waiters, coreVars>>
    BY <1>0, <1>9 DEF Completed, Runs, AckKinds, TypeOK, LoopType
  <2>2. worker.state = "returned" /\ OneAck(ready)
    BY <1>0, <2>1, TailAcked DEF OneAnswer, Acked
  <2>3. NoAck(Tail(ready)) /\ Tail(ready) \in Seq(Callback)
    BY <2>1, <2>2, TailAcked
  <2>4. Plain("acknowledged") \in Callback /\ Plain("acknowledged").kind \in AckKinds
    BY CallbackFacts, CallbackKinds DEF AckKinds
  <2>5. OneAck(ready')
    BY <2>1, <2>3, <2>4, AppendAcked
  <2>. QED BY <1>0, <2>1, <2>2, <2>5, ChannelKept
           DEF OneAnswer, Acked, backendVars, coreVars
<1>10. ASSUME Acknowledged PROVE OneAnswer' /\ Channel'
  <2>1. /\ ready \in Seq(Callback) /\ waiters \in Seq(Callback)
        /\ ready # <<>> /\ Head(ready).kind \in AckKinds
    BY <1>0, <1>10 DEF Acknowledged, Runs, AckKinds, TypeOK, LoopType
  <2>2. worker.state = "returned" /\ OneAck(ready) /\ NoAck(waiters)
    BY <1>0, <2>1, TailAcked DEF OneAnswer, Acked
  <2>3. /\ ready' = Tail(ready) \o waiters /\ waiters' = <<>>
        /\ worker' = Idle /\ pending' = NoOne
        /\ UNCHANGED <<application, surface>>
    BY <1>10 DEF Acknowledged
  <2>4. OneAnswer'
    <3>1. NoAck(Tail(ready)) /\ Tail(ready) \in Seq(Callback)
      BY <2>1, <2>2, TailAcked
    <3>2. NoAck(ready')
      BY <2>1, <2>2, <2>3, <3>1, SpliceAcked
    <3>. QED BY <2>3, <3>2 DEF OneAnswer, Acked, NoAck, Idle
  <2>5. worker.application = application /\ worker.revision = revision + 1
    BY <1>0, <2>2 DEF Channel, InFlight
  <2>6. ~failed' => Agrees'
    <3>1. CASE /\ worker.result = "ok"
               /\ revision' = worker.revision
               /\ births' = [t \in Tags |->
                    IF t \in worker.batch.destroys THEN 0
                    ELSE IF t \in worker.batch.creates THEN worker.revision
                    ELSE births[t]]
      <4>1. Applied
        BY <1>0, <2>2, <3>1 DEF Channel, Answered
      <4>2. worker.revision # 0 /\ worker.batch.creates \in SUBSET Tags
        BY <1>0, <2>5 DEF TypeOK, BackendType, WorkerType, Batch
      <4>3. Live' = (Live \cup worker.batch.creates) \ worker.batch.destroys
        BY <3>1, <4>2 DEF Live
      <4>. QED BY <2>3, <2>5, <3>1, <4>1, <4>3 DEF Agrees, Applied
    <3>2. CASE /\ failed' = (worker.result = "error")
               /\ worker.result # "ok"
               /\ UNCHANGED <<revision, births>>
      <4>1. SUFFICES ASSUME ~failed' PROVE Agrees'
        OBVIOUS
      <4>2. worker.result = "rejected"
        BY <1>0, <3>2, <4>1 DEF TypeOK, WorkerType
      <4>3. Agrees
        BY <1>0, <2>2, <4>2 DEF Channel, Answered
      <4>. QED BY <2>3, <3>2, <4>3 DEF Agrees, Live
    <3>. QED BY <1>10, <3>1, <3>2 DEF Acknowledged
  <2>. QED BY <1>0, <2>3, <2>4, <2>6 DEF Channel, InFlight, Answered, Idle
<1>11. ASSUME SurfaceFailed \/ OnEvent PROVE OneAnswer' /\ Channel'
  <2>1. /\ ready # <<>> /\ Head(ready).kind \notin AckKinds
        /\ ready' = Tail(ready)
        /\ failed' \in BOOLEAN /\ (failed => failed')
        /\ UNCHANGED <<application, revision, births, pending, waiters, coreVars>>
    BY <1>0, <1>11 DEF SurfaceFailed, OnEvent, Runs, AckKinds, TypeOK, BackendType
  <2>2. Acked(ready', worker) /\ NoAck(waiters)
    BY <1>0, <2>1, DequeueAcked
  <2>3. OneAnswer'
    BY <2>1, <2>2 DEF OneAnswer, coreVars
  <2>. QED BY <1>0, <2>1, <2>3
           DEF coreVars, Channel, InFlight, Agrees, Applied, Answered, Live
<1>12. ASSUME CoreAccepts PROVE OneAnswer' /\ Channel'
  <2>1. /\ worker.state = "running"
        /\ worker' = [worker EXCEPT !.state = "done", !.result = "ok"]
        /\ surface' = [application |-> worker.application,
                       revision    |-> worker.revision,
                       views       |-> (LiveFor(worker) \cup worker.batch.creates)
                                         \ worker.batch.destroys,
                       failed      |-> ~Replacing(worker) /\ surface.failed]
        /\ UNCHANGED <<backendVars, loopVars>>
    BY <1>12 DEF CoreAccepts
  <2>2. /\ worker'.state = "done" /\ worker'.result = "ok"
        /\ worker'.application = worker.application
        /\ worker'.revision = worker.revision /\ worker'.batch = worker.batch
    BY <1>0, <2>1 DEF TypeOK, WorkerType
  <2>3. /\ Agrees /\ worker.application = application
        /\ worker.revision = revision + 1 /\ application \in Nat
    BY <1>0, <2>1 DEF Channel, InFlight, TypeOK, BackendType
  <2>4. LiveFor(worker) = Live
    BY <2>3 DEF LiveFor, Replacing, Agrees
  <2>5. Applied'
    BY <2>1, <2>2, <2>4 DEF Applied, Live, backendVars
  <2>6. OneAnswer'
    BY <1>0, <2>1, <2>2 DEF OneAnswer, Acked, loopVars
  <2>. QED BY <1>0, <2>1, <2>2, <2>3, <2>5, <2>6
           DEF Channel, InFlight, Answered, backendVars
<1>13. ASSUME CoreRejects \/ TransportError PROVE OneAnswer' /\ Channel'
  <2>1. /\ worker.state \in {"running", "done"}
        /\ worker' = [worker EXCEPT !.state = "done", !.result = worker'.result]
        /\ \/ worker.state = "running" /\ worker'.result = "rejected"
           \/ worker'.result = "error"
        /\ UNCHANGED <<backendVars, loopVars, surface>>
    BY <1>0, <1>13 DEF CoreRejects, TransportError, TypeOK, WorkerType
  <2>2. /\ worker'.state = "done" /\ worker'.application = worker.application
        /\ worker'.revision = worker.revision
    BY <1>0, <2>1 DEF TypeOK, WorkerType
  <2>3. OneAnswer'
    BY <1>0, <2>1, <2>2 DEF OneAnswer, Acked, loopVars
  <2>4. worker'.result = "rejected" => Agrees'
    BY <1>0, <2>1 DEF Channel, Agrees, Live, backendVars
  <2>. QED BY <1>0, <2>1, <2>2, <2>3, <2>4
           DEF Channel, InFlight, Answered, backendVars
<1>14. ASSUME WorkerReturns PROVE OneAnswer' /\ Channel'
  <2>1. /\ worker.state = "done"
        /\ worker' = [worker EXCEPT !.state = "returned"]
        /\ ready' = Append(ready, Plain("completed"))
        /\ UNCHANGED <<backendVars, waiters, surface>>
    BY <1>14 DEF WorkerReturns
  <2>2. /\ worker'.state = "returned" /\ worker'.result = worker.result
        /\ worker'.application = worker.application
        /\ worker'.revision = worker.revision /\ worker'.batch = worker.batch
    BY <1>0, <2>1 DEF TypeOK, WorkerType
  <2>3. ready \in Seq(Callback) /\ NoAck(ready) /\ NoAck(waiters)
    BY <1>0, <2>1 DEF TypeOK, LoopType, OneAnswer, Acked
  <2>4. Plain("completed") \in Callback /\ Plain("completed").kind \in AckKinds
    BY CallbackFacts, CallbackKinds DEF AckKinds
  <2>5. OneAck(ready')
    BY <2>1, <2>3, <2>4, AppendAcked
  <2>6. OneAnswer'
    BY <2>1, <2>2, <2>3, <2>5 DEF OneAnswer, Acked
  <2>. QED BY <1>0, <2>1, <2>2, <2>6
           DEF Channel, InFlight, Answered, Agrees, Applied, Live, backendVars
<1>15. ASSUME MountNext \/ MountFinished \/ (\E t \in Tags : NativeEvent(t))
              \/ (\E r \in Reconcilers :
                    RequestRender(r) \/ RequestCreate(r) \/ RequestRemount(r))
       PROVE OneAnswer' /\ Channel'
  <2>1. /\ UNCHANGED <<backendVars, waiters, worker, surface>>
        /\ \/ ready' = ready
           \/ \E c \in Callback : c.kind \notin AckKinds /\ ready' = Append(ready, c)
    <3>1. CASE MountNext
      BY <3>1 DEF MountNext, loopVars
    <3>2. CASE MountFinished
      <4>1. mounting.application \in Nat
        BY <1>0 DEF TypeOK, CoreType, Transaction
      <4>. QED BY <3>2, <4>1, CallbackFacts, CallbackKinds DEF MountFinished
    <3>3. ASSUME NEW t \in Tags, NativeEvent(t)
          PROVE  /\ UNCHANGED <<backendVars, waiters, worker, surface>>
                 /\ \E c \in Callback : c.kind \notin AckKinds /\ ready' = Append(ready, c)
      <4>. DEFINE of == IF mounting = NoTransaction THEN mounted ELSE mounting
                  e  == [application |-> of.application, revision |-> of.revision,
                         sequence |-> sequence + 1, tag |-> t]
      <4>1. e \in Event
        BY <1>0 DEF Event, TypeOK, CoreType, Transaction
      <4>2. ready' = Append(ready, Deliver(e))
            /\ UNCHANGED <<backendVars, waiters, worker, surface>>
        BY <3>3 DEF NativeEvent
      <4>. HIDE DEF e
      <4>. QED BY <4>1, <4>2, CallbackFacts, CallbackKinds
    <3>4. ASSUME NEW r \in Reconcilers,
                 RequestRender(r) \/ RequestCreate(r) \/ RequestRemount(r)
          PROVE  /\ UNCHANGED <<backendVars, waiters, worker, surface>>
                 /\ \E c \in Callback : c.kind \notin AckKinds /\ ready' = Append(ready, c)
      <4>1. PICK k \in Kinds : Schedule(k, r)
        BY <3>4 DEF RequestRender, RequestCreate, RequestRemount
      <4>. QED BY <4>1, CallbackFacts, CallbackKinds DEF Schedule, coreVars
    <3>. QED BY <1>15, <3>1, <3>2, <3>3, <3>4
  <2>2. Acked(ready', worker)
    BY <1>0, <2>1, EnqueueAcked DEF OneAnswer, TypeOK, LoopType
  <2>. QED BY <1>0, <2>1, <2>2, ChannelKept DEF OneAnswer, backendVars
<1>16. ASSUME CoreWork PROVE OneAnswer' /\ Channel'
  <2>1. /\ surface' = [surface EXCEPT !.failed = TRUE]
        /\ UNCHANGED <<backendVars, loopVars, worker>>
    BY <1>16 DEF CoreWork
  <2>2. /\ surface'.application = surface.application
        /\ surface'.revision = surface.revision /\ surface'.views = surface.views
    BY <1>0, <2>1 DEF TypeOK, CoreType
  <2>. QED BY <1>0, <2>1, <2>2
           DEF OneAnswer, Acked, Channel, InFlight, Answered, Agrees, Applied, Live,
               backendVars, loopVars
<1>17. CASE UNCHANGED vars
  BY <1>0, <1>17, ChannelKept DEF OneAnswer, vars, backendVars, loopVars, coreVars
<1>. QED
  BY <1>1, <1>2, <1>3, <1>4, <1>5, <1>6, <1>7, <1>8, <1>9, <1>10, <1>11, <1>12,
     <1>13, <1>14, <1>15, <1>16, <1>17
  DEF Next, LoopStep, WorkerStep

(* Nothing is in flight initially. *)
LEMMA ChannelInit == Init => OneAnswer /\ Channel
<1>. SUFFICES ASSUME Init PROVE OneAnswer /\ Channel
  OBVIOUS
<1>1. OneAnswer
  BY DEF Init, OneAnswer, Acked, NoAck, Idle
<1>2. Agrees
  BY DEF Init, Agrees, Live
<1>. QED BY <1>1, <1>2 DEF Init, Channel, InFlight, Answered, Idle

(* The inductive invariant holds throughout. *)
THEOREM Invariant == Spec => []IInv
<1>1. Init => IInv
  BY TypeInit, ChannelInit DEF IInv
<1>2. IInv /\ [Next]_vars => IInv'
  BY TypeStep, ChannelStep DEF IInv
<1>. QED BY <1>1, <1>2, PTL DEF Spec

(* Whenever no commit is in flight on a sound surface, Python's revision and *)
(* live tags are the core's.                                                 *)
THEOREM MirrorsAgree == Spec => []MirrorAgreement
<1>1. IInv => MirrorAgreement
  BY DEF IInv, Channel, Agrees, Live, MirrorAgreement
<1>. QED BY <1>1, Invariant, PTL

(* No queued, retried or remounted commit reaches the core with a revision   *)
(* the core does not expect.                                                 *)
THEOREM CommitsOnTheCore == Spec => []CommitsAgainstCoreRevision
<1>1. IInv => CommitsAgainstCoreRevision
  BY DEF IInv, Channel, InFlight, Agrees, Replacing, CommitsAgainstCoreRevision
<1>. QED BY <1>1, Invariant, PTL

----------------------------------------------------------------------------
(* The channel implements SurfaceMirror. *)

Core   == [application |-> surface.application, revision |-> surface.revision,
           views |-> surface.views]
Python == [application |-> application, revision |-> revision, views |-> Live]

(* The initial state is the mirror's. *)
LEMMA MirrorInit == Init => Mirror!Init
<1>. SUFFICES ASSUME Init PROVE Mirror!Init
  OBVIOUS
<1>1. {t \in Tags : births[t] # 0} = {}
  BY DEF Init
<1>2. /\ application = 1 /\ revision = 0 /\ surface.application = 0
      /\ surface.revision = 0 /\ surface.views = {}
  BY DEF Init
<1>. QED BY <1>1, <1>2 DEF Mirror!Init, Mirror!Untouched

(* Every step of the channel is a step of its specification, or changes     *)
(* neither side.                                                            *)
LEMMA MirrorStep ==
  IInv /\ [Next]_vars => [Mirror!Next]_<<Core, Python>>
<1>. SUFFICES ASSUME IInv, [Next]_vars PROVE [Mirror!Next]_<<Core, Python>>
  OBVIOUS
<1>0. TypeOK /\ OneAnswer /\ Channel
  BY DEF IInv
<1>1. CASE UNCHANGED <<application, revision, births>>
           /\ surface'.application = surface.application
           /\ surface'.revision = surface.revision
           /\ surface'.views = surface.views
  BY <1>1 DEF Core, Python, Live
<1>2. CASE CoreAccepts
  <2>1. /\ worker.state = "running"
        /\ surface'.application = worker.application
        /\ surface'.revision = worker.revision
        /\ surface'.views = (LiveFor(worker) \cup worker.batch.creates)
                              \ worker.batch.destroys
        /\ UNCHANGED <<application, revision, births>>
    BY <1>2 DEF CoreAccepts, backendVars
  <2>2. /\ Agrees /\ surface.application <= application
        /\ worker.application = application /\ worker.revision = revision + 1
        /\ application \in Nat /\ surface.application \in Nat
    BY <1>0, <2>1 DEF Channel, InFlight, TypeOK, BackendType, CoreType
  <2>3. Python = Core \/ (Python.application > Core.application
                            /\ Python = Mirror!Untouched(Python.application))
    <3>1. CASE application = surface.application
      BY <2>2, <3>1 DEF Python, Core, Agrees
    <3>2. CASE application # surface.application
      <4>1. Live = {} /\ revision = 0
        BY <2>2, <3>2 DEF Agrees
      <4>2. Python = Mirror!Untouched(application)
        BY <4>1 DEF Python, Mirror!Untouched
      <4>3. Python.application = application /\ Core.application = surface.application
        BY DEF Python, Core
      <4>4. Python.application > Core.application
        BY <2>2, <3>2, <4>3
      <4>. QED BY <4>2, <4>3, <4>4
    <3>. QED BY <3>1, <3>2
  <2>4. surface'.views \in SUBSET Tags
    BY <1>0, <2>1 DEF TypeOK, WorkerType, CoreType, Batch, LiveFor
  <2>5. Core' = [application |-> Python.application,
                 revision |-> Python.revision + 1, views |-> surface'.views]
    BY <2>1, <2>2 DEF Core, Python
  <2>6. UNCHANGED Python
    BY <2>1 DEF Python, Live
  <2>7. Mirror!Commit
    BY <2>3, <2>4, <2>5, <2>6 DEF Mirror!Commit, Mirror!Knows, Core, Python, Live
  <2>. QED BY <2>7 DEF Mirror!Next
<1>3. CASE Acknowledged
  <2>1. /\ ready # <<>> /\ Head(ready).kind \in AckKinds
        /\ ready \in Seq(Callback)
        /\ UNCHANGED <<application, surface>>
    BY <1>0, <1>3 DEF Acknowledged, Runs, AckKinds, TypeOK, LoopType
  <2>2. worker.state = "returned"
    BY <1>0, <2>1, TailAcked DEF OneAnswer, Acked
  <2>3. CASE UNCHANGED <<revision, births>>
    BY <2>1, <2>3 DEF Core, Python, Live
  <2>4. CASE /\ worker.result = "ok"
             /\ revision' = worker.revision
             /\ births' = [t \in Tags |->
                  IF t \in worker.batch.destroys THEN 0
                  ELSE IF t \in worker.batch.creates THEN worker.revision
                  ELSE births[t]]
    <3>1. /\ Applied /\ worker.application = application
          /\ worker.revision = revision + 1
      BY <1>0, <2>2, <2>4 DEF Channel, Answered, InFlight
    <3>2. worker.revision # 0 /\ worker.batch.creates \in SUBSET Tags
      BY <1>0, <3>1 DEF TypeOK, BackendType, WorkerType, Batch
    <3>3. Live' = (Live \cup worker.batch.creates) \ worker.batch.destroys
      BY <2>4, <3>2 DEF Live
    <3>4. Python' = Core /\ UNCHANGED Core
      BY <2>1, <2>4, <3>1, <3>3 DEF Python, Core, Applied
    <3>5. /\ Core.application = Python.application
          /\ Core.revision = Python.revision + 1
      BY <3>1 DEF Core, Python, Applied
    <3>6. Mirror!Acknowledge
      BY <3>4, <3>5 DEF Mirror!Acknowledge, Core, Python, Live
    <3>. QED BY <3>6 DEF Mirror!Next
  <2>. QED BY <1>3, <2>3, <2>4 DEF Acknowledged
<1>4. ASSUME NEW r \in Reconcilers, ResetAndMount(r) PROVE Mirror!Next
  <2>1. /\ application' = application + 1 /\ revision' = 0
        /\ births' = [t \in Tags |-> 0] /\ surface' = surface
    BY <1>4 DEF ResetAndMount
  <2>2. Live' = {}
    BY <2>1 DEF Live
  <2>3. Python' = Mirror!Untouched(Python.application + 1) /\ UNCHANGED Core
    BY <2>1, <2>2 DEF Python, Core, Mirror!Untouched
  <2>4. Mirror!Reset
    BY <2>3 DEF Mirror!Reset, Core, Python, Live
  <2>. QED BY <2>4 DEF Mirror!Next
<1>5. CASE UNCHANGED <<application, revision, births, surface>>
  BY <1>5, <1>1
<1>6. CASE CoreWork
  <2>1. /\ surface'.application = surface.application
        /\ surface'.revision = surface.revision
        /\ surface'.views = surface.views
        /\ UNCHANGED <<application, revision, births>>
    BY <1>0, <1>6 DEF CoreWork, TypeOK, CoreType, backendVars
  <2>. QED BY <2>1, <1>1
<1>7. \/ UNCHANGED <<application, revision, births, surface>>
      \/ CoreAccepts \/ Acknowledged \/ CoreWork
      \/ \E r \in Reconcilers : ResetAndMount(r)
  <2>1. ASSUME NEW r \in Reconcilers,
               \/ Flush(r) \/ Create(r) \/ Unmount(r) \/ MountAgain(r)
               \/ ResetRefused(r) \/ OutOfTags(r)
               \/ SubmitStep(r) \/ SubmitDone(r)
        PROVE  UNCHANGED <<application, revision, births, surface>>
    BY <2>1 DEF Flush, Create, Unmount, MountAgain, ResetRefused, OutOfTags,
                SubmitStep, SubmitDone, backendVars, coreVars
  <2>2. ASSUME NEW r \in Reconcilers,
               \/ Shield(r) \/ Resolve(r) \/ Resume(r)
               \/ RequestRender(r) \/ RequestCreate(r) \/ RequestRemount(r)
        PROVE  UNCHANGED <<application, revision, births, surface>>
    BY <2>2 DEF Shield, Resolve, Hop, Resume, RequestRender, RequestCreate,
                RequestRemount, Schedule, backendVars, coreVars
  <2>3. ASSUME \/ Completed \/ SurfaceFailed \/ OnEvent
               \/ CoreRejects \/ TransportError \/ WorkerReturns
               \/ MountNext \/ MountFinished \/ \E t \in Tags : NativeEvent(t)
        PROVE  UNCHANGED <<application, revision, births, surface>>
    BY <2>3 DEF Completed, SurfaceFailed, OnEvent, CoreRejects, TransportError,
                WorkerReturns, MountNext, MountFinished, NativeEvent,
                backendVars, coreVars
  <2>4. CASE UNCHANGED vars
    BY <2>4 DEF vars, backendVars, coreVars
  <2>. QED BY <2>1, <2>2, <2>3, <2>4 DEF Next, LoopStep, WorkerStep
<1>. QED BY <1>2, <1>3, <1>4, <1>5, <1>6, <1>7

(* The commit channel implements SurfaceMirror. *)
THEOREM ChannelImplementsMirror == Spec => ImplementsMirror
<1>1. [Mirror!Next]_<<Core, Python>> =>
        [Mirror!Next]_<<[application |-> surface.application,
                         revision |-> surface.revision, views |-> surface.views],
                        [application |-> application, revision |-> revision,
                         views |-> {t \in Tags : births[t] # 0}]>>
  BY DEF Core, Python, Live
<1>. QED
  BY <1>1, MirrorInit, MirrorStep, Invariant, PTL
  DEF Spec, ImplementsMirror, Mirror!Spec
=============================================================================
