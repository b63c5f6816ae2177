---------------------------- MODULE NativeModules ----------------------------
(* Asynchronous calls of native modules, and the event streams built on      *)
(* them (native_modules/registry.py), with the promises of the native        *)
(* dispatcher (PNNativeModule.swift, NativeModule.kt, PNBridge.kt).  Every   *)
(* stream is opened once, by a task of its own, on the same module and the   *)
(* same event; its name stands for its call id and its subscription id.      *)
EXTENDS Mailbox

CONSTANTS
    Streams,
    Others     \* subscriptions of other listeners of the event, open all along

ASSUME NativeAssumption == Others \cap Streams = {}

VARIABLES
    promise,    \* native: what became of the start call
    settling,   \* native: answers posted to the main thread
    running,    \* native: open subscriptions
    emitted,    \* native: readings sent
    pending,    \* _pending
    task,       \* the task: where it is, the future it awaits, whether a cancel is due
    listening,  \* the module's listeners
    early,      \* readings kept until the id is known
    yielded     \* readings put into the stream's queue, which the application takes from its head

native == <<promise, settling, running, emitted>>
python == <<pending, task, listening, early, yielded>>
vars == <<channel, input, native, python>>

Task(at, future) == [at |-> at, future |-> future, cancel |-> FALSE]
(* A call from Python hops to the main thread, behind what is posted there.  *)
UIIdle == UIFree /\ settling = <<>>
Ended(t) == task[t].at \in {"stopped", "failed", "cancelled"}

---------------------------------------------------------------------------
(* event_stream: the listener first, then the start call, which native code  *)
(* answers before it returns or later.                                       *)
Open(t) ==
    /\ registered /\ UIIdle /\ task[t].at = "new"
    /\ \/ /\ promise' = [promise EXCEPT ![t] = "ok"] /\ running' = running \cup {t}
          /\ task' = [task EXCEPT ![t] = Task("iterating", "none")]
          /\ listening' = listening \cup {t} /\ UNCHANGED pending
       \/ /\ promise' = [promise EXCEPT ![t] = "error"]
          /\ task' = [task EXCEPT ![t] = Task("failed", "none")]
          /\ UNCHANGED <<running, pending, listening>>
       \/ /\ promise' = [promise EXCEPT ![t] = "working"]
          /\ task' = [task EXCEPT ![t] = Task("starting", "waiting")]
          /\ pending' = pending \cup {t} /\ listening' = listening \cup {t} /\ UNCHANGED running
    /\ UNCHANGED <<channel, input, settling, emitted, early, yielded>>

---------------------------------------------------------------------------
(* Native code, on the main thread. *)

(* A discrete message remembers the samples before it. *)
Answer(t, outcome) == [kind |-> "settle", stream |-> t, outcome |-> outcome, at |-> sent]
Reading(t, n) == [kind |-> "reading", stream |-> t, n |-> n, at |-> sent]
(* PNPromise.settle and Promise.resolve, reject: the answer goes into the    *)
(* mailbox at once (iOS, on the main thread) or is posted (Android).         *)
Settle(t, outcome) ==
    /\ UIFree /\ promise[t] = "working"
    /\ promise' = [promise EXCEPT ![t] = outcome]
    /\ running' = IF outcome = "ok" THEN running \cup {t} ELSE running
    /\ \/ CallPython(Answer(t, outcome)) /\ UNCHANGED settling
       \/ settling' = Append(settling, t) /\ UNCHANGED channel
    /\ UNCHANGED <<input, emitted, python>>
Deliver ==
    /\ settling # <<>>
    /\ CallPython(Answer(Head(settling), promise[Head(settling)])) /\ settling' = Tail(settling)
    /\ UNCHANGED <<input, promise, running, emitted, python>>
Emit(t) ==
    /\ t \in running /\ Count
    /\ emitted' = [emitted EXCEPT ![t] = @ + 1]
    /\ CallPython(Reading(t, emitted'[t]))
    /\ UNCHANGED <<sent, shown, promise, settling, running, python>>

---------------------------------------------------------------------------
(* The loop: messages. *)

Complete(t, outcome) == [kind |-> "complete", stream |-> t, outcome |-> outcome]
Wake(t) == [kind |-> "wake", stream |-> t]

(* _settle: the first answer takes the call out of the table, a call that is *)
(* no longer there ignores it; the future is resolved by a callback behind.  *)
(* Mutant of DispatchAnswer: a rejection is taken off the table only.       *)
MutantForgetRejections ==
    /\ Runs1("settle")
    /\ LET t == Next1.stream
       IN /\ pending' = pending \ {t}
          /\ Finish(IF t \in pending /\ Next1.outcome = "ok" THEN <<Complete(t, "ok")>> ELSE <<>>)
    /\ UNCHANGED <<input, native, task, listening, early, yielded>>
DispatchAnswer ==
    /\ Runs1("settle")
    /\ LET t == Next1.stream
       IN /\ pending' = pending \ {t}
          /\ Finish(IF t \in pending THEN <<Complete(t, Next1.outcome)>> ELSE <<>>)
    /\ UNCHANGED <<input, native, task, listening, early, yielded>>
ResolveFuture ==
    /\ Runs1("complete")
    /\ LET t == Next1.stream
       IN IF task[t].future = "waiting"
          THEN task' = [task EXCEPT ![t].future = Next1.outcome] /\ Finish(<<Wake(t)>>)
          ELSE UNCHANGED task /\ Finish(<<>>)
    /\ UNCHANGED <<input, native, pending, listening, early, yielded>>

(* emit and deliver: every listener posts an enqueue of its own. *)
DispatchReading ==
    /\ Runs1("reading")
    /\ Finish(IF listening = {} THEN <<>>
              ELSE <<[kind |-> "enqueue", to |-> listening, stream |-> Next1.stream, n |-> Next1.n]>>)
    /\ UNCHANGED <<input, native, python>>
Enqueue ==
    /\ Runs1("enqueue") /\ Finish(<<>>)
    /\ early' = [t \in Streams |-> IF t \in Next1.to /\ task[t].at = "starting"
                                   THEN Append(early[t], [stream |-> Next1.stream, n |-> Next1.n])
                                   ELSE early[t]]
    /\ yielded' = [t \in Streams |-> IF t \in Next1.to /\ task[t].at = "iterating" /\ Next1.stream = t
                                    THEN Append(yielded[t], Next1.n) ELSE yielded[t]]
    /\ UNCHANGED <<input, native, pending, task, listening>>

---------------------------------------------------------------------------
(* The loop: the stream's task. *)

Kept(reading, t) == IF reading.stream = t THEN <<reading.n>> ELSE <<>>
Own(t) == FlattenSeq([i \in DOMAIN early[t] |-> Kept(early[t][i], t)])
(* The end of call_async and of event_stream, whatever ended them.           *)
End(t, how) ==
    /\ pending' = pending \ {t} /\ listening' = listening \ {t}
    /\ task' = [task EXCEPT ![t] = Task(how, "none")]
    /\ early' = [early EXCEPT ![t] = <<>>] /\ yielded' = [yielded EXCEPT ![t] = <<>>]

(* call_async resumes: cancelled, it sends _pn_cancel, which releases the    *)
(* work of a promise that is still there.                                    *)
(* Mutant of ResumeCancelled: native code is not told.                      *)
MutantCancelQuietly(t) ==
    /\ UIIdle /\ (task[t].cancel \/ task[t].future = "cancelled")
    /\ End(t, "cancelled")
    /\ UNCHANGED native
ResumeCancelled(t) ==
    /\ UIIdle /\ (task[t].cancel \/ task[t].future = "cancelled")
    /\ promise' = [promise EXCEPT ![t] = IF @ = "working" THEN "cancelled" ELSE @]
    /\ End(t, "cancelled")
    /\ UNCHANGED <<settling, running, emitted>>
ResumeFailed(t) ==
    /\ ~task[t].cancel /\ task[t].future = "error"
    /\ End(t, "failed")
    /\ UNCHANGED native
(* Mutant of ResumeStarted: the early readings are dropped.                 *)
MutantForgetEarly(t) ==
    /\ ~task[t].cancel /\ task[t].future = "ok"
    /\ pending' = pending \ {t}
    /\ task' = [task EXCEPT ![t] = Task("iterating", "none")]
    /\ early' = [early EXCEPT ![t] = <<>>]
    /\ UNCHANGED <<native, listening, yielded>>
ResumeStarted(t) ==
    /\ ~task[t].cancel /\ task[t].future = "ok"
    /\ pending' = pending \ {t}
    /\ task' = [task EXCEPT ![t] = Task("iterating", "none")]
    /\ yielded' = [yielded EXCEPT ![t] = Own(t)] /\ early' = [early EXCEPT ![t] = <<>>]
    /\ UNCHANGED <<native, listening>>
Resume ==
    /\ Runs1("wake") /\ Finish(<<>>)
    /\ LET t == Next1.stream IN ResumeCancelled(t) \/ ResumeFailed(t) \/ ResumeStarted(t)
    /\ UNCHANGED input

(* The component unmounts, or a timeout strikes, while the call is awaited.  *)
Cancel(t) ==
    /\ task[t].at = "starting" /\ ~task[t].cancel /\ task[t].future # "cancelled"
    /\ IF task[t].future = "waiting"
       THEN /\ task' = [task EXCEPT ![t].future = "cancelled"]
            /\ ready' = Append(ready, Wake(t))
       ELSE task' = [task EXCEPT ![t].cancel = TRUE] /\ UNCHANGED ready
    /\ UNCHANGED <<registered, mailbox, owed, draining, input, native,
                   pending, listening, early, yielded>>

(* The application leaves the async for, or its task is cancelled in it.     *)
Leave(t) ==
    /\ UIIdle /\ task[t].at = "iterating"
    /\ running' = running \ {t}
    /\ End(t, "stopped")
    /\ UNCHANGED <<channel, input, promise, settling, emitted>>

---------------------------------------------------------------------------

Init ==
    /\ MailboxInit
    /\ promise = [t \in Streams |-> "none"] /\ settling = <<>> /\ running = Others
    /\ emitted = [t \in Streams \cup Others |-> 0]
    /\ pending = {} /\ task = [t \in Streams |-> Task("new", "none")] /\ listening = {}
    /\ early = [t \in Streams |-> <<>>] /\ yielded = [t \in Streams |-> <<>>]

Transport == (Drain \/ \E thread \in {"ui", "python"} : ScheduleDrain(thread)) /\ UNCHANGED <<native, python>>
LoopStep ==
    \/ DeliverSample /\ UNCHANGED <<native, python>>
    \/ DispatchAnswer \/ ResolveFuture \/ DispatchReading \/ Enqueue \/ Resume
Next ==
    \/ (Register \/ \E v \in Views : Sample(v)) /\ UNCHANGED <<native, python>>
    \/ Transport \/ LoopStep \/ Deliver
    \/ \E t \in Streams \cup Others : Emit(t)
    \/ \E t \in Streams :
          \/ Open(t) \/ Cancel(t) \/ Leave(t)
          \/ \E outcome \in {"ok", "error"} : Settle(t, outcome)

(* The main thread, the events thread and the loop each keep running; what   *)
(* native code answers, and what the application does, nobody owes.          *)
Spec == Init /\ [][Next]_vars
FairSpec ==
    /\ Spec
    /\ WF_vars(Transport) /\ WF_vars(Deliver) /\ WF_vars(LoopStep)

---------------------------------------------------------------------------
(* The readings of a stream still in the ready queue or the mailbox.         *)
CarriedBy(m, t, kind) ==
    IF m.kind = kind /\ m.stream = t /\ (kind = "enqueue" => t \in m.to) THEN <<m.n>> ELSE <<>>
Carried(t, queue, kind) == FlattenSeq([i \in DOMAIN queue |-> CarriedBy(queue[i], t, kind)])
(* What an open stream has yielded and will yield is every reading of its    *)
(* own subscription, once and in order, also those that overtook the answer  *)
(* carrying its id; no reading of the other stream.                          *)
ReadingsWhole ==
    \A t \in Streams : task[t].at \in {"starting", "iterating"} =>
        yielded[t] \o Own(t) \o Carried(t, ready, "enqueue")
            \o Carried(t, ready, "reading") \o Carried(t, mailbox, "reading")
          = [i \in 1..emitted[t] |-> i]

(* A stream that has ended leaves no call in the table, no listener and no   *)
(* native work in progress; one that had its id has also been stopped.       *)
NothingLeftBehind ==
    \A t \in Streams : Ended(t) =>
        /\ t \notin pending \cup listening /\ promise[t] # "working"
        /\ task[t].at # "cancelled" => t \notin running

(* A call that native code has answered does not stay pending, and the       *)
(* latest sample of every view reaches its handlers, also one queued before  *)
(* Python had registered its callback or while a drain was ending.           *)
EverythingArrives ==
    /\ \A t \in Streams : promise[t] \in {"ok", "error"} ~> task[t].at # "starting"
    /\ <>[](registered => shown = sent)
=============================================================================
