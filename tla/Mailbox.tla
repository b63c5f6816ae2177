------------------------------- MODULE Mailbox -------------------------------
(* The way from native code to Python: the mailbox of PNBridge, the events   *)
(* thread that drains it, the continuous slots of bridge/__init__.py, and    *)
(* the ready queue of the application loop.  The messages native modules     *)
(* send, and what the loop does with each, are in NativeModules.             *)
EXTENDS Naturals, SequencesExt

CONSTANTS
    Views,      \* views that send continuous input
    Gestures,   \* those whose input only the mailbox coalesces (gesture:* events)
    MaxMessages \* bound: samples, and readings of native modules

ASSUME MailboxAssumption == Gestures \subseteq Views /\ MaxMessages \in Nat

VARIABLES
    registered,  \* Python has installed its callback
    mailbox,     \* messages native code has queued
    owed,        \* threads between queueing a message and scheduleDrain
    draining,    \* the events thread has a drain running or queued
    ready,       \* callbacks posted to the loop; a slot is open while later samples merge into it
    messages,    \* how many of those there have been
    sent,        \* the last sample of each view
    shown        \* the last sample of each view its handlers have seen

channel == <<registered, mailbox, owed, draining, ready>>
input == <<messages, sent, shown>>

Continuous(m) == m.kind = "sample"

---------------------------------------------------------------------------
(* The UI thread.  A message goes into the mailbox under its lock; the lock  *)
(* is free again before scheduleDrain takes it.                              *)

UIFree == "ui" \notin owed
(* Mutant of Queued: the older sample stays.                                *)
MutantKeepFirst(m) ==
    IF /\ Continuous(m) /\ mailbox # <<>>
       /\ Continuous(Last(mailbox)) /\ Last(mailbox).view = m.view
    THEN mailbox ELSE Append(mailbox, m)
Queued(m) ==
    IF /\ Continuous(m) /\ mailbox # <<>>
       /\ Continuous(Last(mailbox)) /\ Last(mailbox).view = m.view
    THEN Append(Front(mailbox), m) ELSE Append(mailbox, m)
CallPython(m) ==
    /\ UIFree
    /\ mailbox' = Queued(m) /\ owed' = owed \cup {"ui"}
    /\ UNCHANGED <<registered, draining, ready>>

(* Mutant of Register: it starts no drain for what is already queued.       *)
MutantRegisterQuietly ==
    /\ ~registered
    /\ registered' = TRUE
    /\ UNCHANGED <<owed, mailbox, draining, ready, input>>
Register ==
    /\ ~registered
    /\ registered' = TRUE /\ owed' = owed \cup {"python"}
    /\ UNCHANGED <<mailbox, draining, ready, input>>

ScheduleDrain(thread) ==
    /\ thread \in owed
    /\ owed' = owed \ {thread}
    /\ draining' = (draining \/ (registered /\ mailbox # <<>>))
    /\ UNCHANGED <<registered, mailbox, ready, input>>

Count == messages < MaxMessages /\ messages' = messages + 1
Sample(v) ==
    /\ Count
    /\ sent' = [sent EXCEPT ![v] = @ + 1]
    /\ CallPython([kind |-> "sample", view |-> v, n |-> sent'[v], open |-> v \notin Gestures])
    /\ UNCHANGED shown

---------------------------------------------------------------------------
(* The events thread: native_callback off the loop. *)

OpenSlots(v) == {i \in DOMAIN ready : Continuous(ready[i]) /\ ready[i].view = v /\ ready[i].open}
Closed(queue) ==
    [i \in DOMAIN queue |-> IF Continuous(queue[i]) THEN [queue[i] EXCEPT !.open = FALSE] ELSE queue[i]]
(* Mutant of Posted: a discrete message leaves the slots open.              *)
MutantKeepTable(m) ==
    IF Continuous(m) /\ m.open /\ OpenSlots(m.view) # {}
    THEN [i \in DOMAIN ready |-> IF i \in OpenSlots(m.view) THEN m ELSE ready[i]]
    ELSE Append(ready, m)
Posted(m) ==
    IF Continuous(m) /\ m.open
    THEN IF OpenSlots(m.view) # {}
         THEN [i \in DOMAIN ready |-> IF i \in OpenSlots(m.view) THEN m ELSE ready[i]]
         ELSE Append(ready, m)
    ELSE Append(Closed(ready), m)
Drain ==
    /\ draining
    /\ IF mailbox = <<>>
       THEN draining' = FALSE /\ UNCHANGED <<mailbox, ready>>
       ELSE mailbox' = Tail(mailbox) /\ ready' = Posted(Head(mailbox)) /\ UNCHANGED draining
    /\ UNCHANGED <<registered, owed, input>>

---------------------------------------------------------------------------
(* The loop: the next callback leaves the queue, and adds to its end.        *)

Next1 == Head(ready)
Runs1(kind) == ready # <<>> /\ Next1.kind = kind
Finish(more) ==
    /\ ready' = Tail(ready) \o more
    /\ UNCHANGED <<registered, mailbox, owed, draining>>

(* _deliver_continuous takes a slot out of the table before its handlers run.*)
DeliverSample ==
    /\ Runs1("sample") /\ Finish(<<>>)
    /\ shown' = [shown EXCEPT ![Next1.view] = Next1.n]
    /\ UNCHANGED <<messages, sent>>

MailboxInit ==
    /\ registered = FALSE /\ mailbox = <<>> /\ owed = {} /\ draining = FALSE /\ ready = <<>>
    /\ messages = 0 /\ sent = [v \in Views |-> 0] /\ shown = [v \in Views |-> 0]

---------------------------------------------------------------------------
(* Where the samples of v are among the messages, oldest first. *)
Samples(queue, v) == {i \in DOMAIN queue : Continuous(queue[i]) /\ queue[i].view = v}

(* Coalescing drops only samples that a newer one replaces: what a view's    *)
(* handlers have seen and will see grows, and ends with its latest sample.   *)
(* "Discrete input preserves order": when a discrete message reaches its     *)
(* handler, every view has shown exactly the samples sent before it, none    *)
(* that was merged in from later.                                            *)
Growing(way, v) ==
    /\ \A i \in Samples(way, v) : shown[v] < way[i].n
    /\ \A i, j \in Samples(way, v) : i < j => way[i].n < way[j].n
EndsWithLatest(way, v) ==
    IF Samples(way, v) = {} THEN shown[v] = sent[v]
    ELSE \E i \in Samples(way, v) : way[i].n = sent[v]
InputInOrder ==
    /\ \A v \in Views : Growing(ready \o mailbox, v) /\ EndsWithLatest(ready \o mailbox, v)
    /\ ready # <<>> /\ "at" \in DOMAIN Next1 => shown = Next1.at
=============================================================================
