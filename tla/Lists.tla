-------------------------------- MODULE Lists --------------------------------
(* Virtualized lists over a shared ListData (list_data.py) or an ordinary    *)
(* sequence (components/lists.py): the journal of edits, the dataset each    *)
(* mounted list prepares from it, the packet it sends, the native row store  *)
(* and the row events that come back.  Edits, renders, answers and events    *)
(* are turns of the application loop; a batch may stay open across turns.    *)
EXTENDS ListPatch

CONSTANTS
    Keys,           \* row keys
    PatchKeys,      \* row keys PatchIsExact ranges over
    First,          \* the keys the ListData is made with
    Views,          \* mounted lists
    HistoryLimit,   \* history_limit of the ListData
    MaxWork         \* bound: edits, batches, new sequences, new props, remounts and row events together

ASSUME ListsAssumption ==
    /\ HistoryLimit \in Nat \ {0}
    /\ MaxWork \in Nat
    /\ First \in Seq(Keys) /\ IsInjective(First)
    /\ Keys \cap {"__header__", "__empty__"} = {}
    /\ IsFiniteSet(Keys) /\ IsFiniteSet(PatchKeys)

VARIABLES
    keys,        \* ListData._keys
    entry,       \* _entries: revision and value of each key's item
    revision,    \* _revision
    history,     \* _history, the last HistoryLimit changes with their revisions
    batch,       \* _batch_depth > 0
    notified,    \* _notified
    plain,       \* the ordinary sequence the application passes
    props,       \* the list's props: its source, a header or none, render inputs
    dirty,       \* the FlatList has to render
    observed,    \* use_subscription's last snapshot
    subscribed,  \* the list's callback is in _listeners
    dataset,     \* use_memo's dataset, of the last render
    previous,    \* previous.current, of the last commit
    window,      \* set_window was called: the inner list has to render
    sent,        \* the packet a commit carries, or NoPacket
    native,      \* the native row store
    drawn,       \* what each row component last rendered
    broken,      \* the render raised IndexError
    event,       \* a row event on its way, or NoEvent
    told,        \* what the last accepted row event named
    replaced,    \* history: keys whose item left the ListData since the last render
    wanted,      \* history: the whole list of the dataset a commit carries
    used         \* the actions counted by MaxWork, edits apart

source == <<keys, entry, revision, history, batch, notified>>
view == <<dataset, previous, window, sent, native, drawn, broken, replaced, wanted>>
vars == <<source, plain, props, dirty, observed, subscribed, view, event, told, used>>

NoPacket == [base |-> 0, revision |-> 0, changes |-> <<>>]
NoEvent == [kind |-> "none", revision |-> 0, index |-> 0, key |-> "none"]
NoDataset == [source |-> "none", revision |-> 0, at |-> 0, size |-> 0, rows |-> <<>>,
              header |-> FALSE, inputs |-> 0, values |-> <<>>]
Absent == [rev |-> 0, value |-> 0]

Spend == revision + used < MaxWork /\ used' = used + 1

---------------------------------------------------------------------------
(* ListData. *)

(* _notify: nothing inside a batch, or when this revision was announced.     *)
(* Each subscribed list compares the revision with the one it last saw.      *)
Notify(rev, open) ==
    LET hears(v) == ~open /\ notified # rev /\ subscribed[v]
                    /\ dataset[v].source = "data" /\ observed[v] # rev
    IN  /\ notified' = IF open THEN notified ELSE rev
        /\ dirty' = [v \in Views |-> dirty[v] \/ hears(v)]
        /\ observed' = [v \in Views |-> IF hears(v) THEN rev ELSE observed[v]]

(* _record *)
Record(change) ==
    LET longer == Append(history, [at |-> revision + 1, change |-> change])
    IN  /\ revision' = revision + 1
        /\ history' = IF Len(longer) > HistoryLimit THEN Tail(longer) ELSE longer
        /\ Notify(revision + 1, batch)
        /\ UNCHANGED <<batch, plain, props, subscribed, dataset, previous, window, sent, native,
                       drawn, broken, event, told, wanted, used>>

Insert(k, i) ==
    /\ revision + used < MaxWork
    /\ k \notin ToSet(keys) /\ i \in 1..(Len(keys) + 1)
    /\ keys' = InsertAt(keys, i, k)
    /\ entry' = [entry EXCEPT ![k] = [rev |-> 1, value |-> revision + 1]]
    /\ Record(InsertRow(i, Row(k, 1)))
    /\ UNCHANGED replaced

Update(k) ==
    /\ revision + used < MaxWork
    /\ k \in ToSet(keys)
    /\ entry' = [entry EXCEPT ![k] = [rev |-> @.rev + 1, value |-> revision + 1]]
    /\ Record(UpdateRow(Row(k, entry[k].rev + 1)))
    /\ UNCHANGED <<keys, replaced>>

Remove1(k) ==
    /\ revision + used < MaxWork
    /\ k \in ToSet(keys)
    /\ keys' = RemoveAt(keys, Position(keys, k))
    /\ entry' = [entry EXCEPT ![k] = Absent]
    /\ replaced' = [v \in Views |-> replaced[v] \cup {k}]
    /\ Record(DeleteRow(k))

Move(k, i) ==
    /\ revision + used < MaxWork
    /\ k \in ToSet(keys) /\ i \in DOMAIN keys /\ keys[i] # k
    /\ keys' = Reordered(keys, k, i)
    /\ Record(MoveRow(k, i))
    /\ UNCHANGED <<entry, replaced>>

Clear ==
    /\ revision + used < MaxWork
    /\ keys # <<>>
    /\ keys' = <<>>
    /\ entry' = [k \in Keys |-> Absent]
    /\ replaced' = [v \in Views |-> replaced[v] \cup ToSet(keys)]
    /\ Record(ResetRows(<<>>))

(* batch: entering and leaving the context manager. *)
BatchBegin ==
    /\ ~batch /\ Spend
    /\ batch' = TRUE
    /\ UNCHANGED <<keys, entry, revision, history, notified, plain, props, dirty, observed,
                   subscribed, view, event, told>>

BatchEnd ==
    /\ batch
    /\ batch' = FALSE
    /\ Notify(revision, FALSE)
    /\ UNCHANGED <<keys, entry, revision, history, plain, props, subscribed, view, event, told, used>>

(* _changes_since: the journal after a revision, unless it has been forgotten *)
(* or holds a clear.                                                          *)
MutantExpiredLate(rev) == history = <<>> \/ rev > revision
Expired(rev) == history = <<>> \/ rev < history[1].at - 1 \/ rev > revision
Reset(changes) == \E i \in DOMAIN changes : changes[i].op = "reset"
ChangesSince(rev) ==
    LET later == Those(history, {h \in ToSet(history) : h.at > rev})
        changes == [i \in DOMAIN later |-> later[i].change]
    IN  IF rev = revision THEN [known |-> TRUE, changes |-> <<>>]
        ELSE IF Expired(rev) \/ Reset(changes) THEN [known |-> FALSE, changes |-> <<>>]
        ELSE [known |-> TRUE, changes |-> changes]

---------------------------------------------------------------------------
(* The list component. *)

(* A header row and the row of an empty list have keys and revisions of      *)
(* their own and surround the application's rows.                            *)
Lead(header) == IF header THEN <<Row("__header__", 1)>> ELSE <<>>
Decorated(rows, header) ==
    Lead(header) \o (IF rows = <<>> THEN <<Row("__empty__", 1)>> ELSE rows)
DataRows == [i \in DOMAIN keys |-> Row(keys[i], entry[keys[i]].rev)]

(* Mutant: the row of an empty list is not looked at. *)
MutantKeepEmptyRow(before, p) ==
    LET reusable == before.source = "data" /\ before.inputs = p.inputs
        since == IF reusable THEN ChangesSince(before.at) ELSE [known |-> FALSE, changes |-> <<>>]
        same == before.header = p.header
        rows == Decorated(DataRows, p.header)
        shift(c) == IF c.op \in {"i", "m"} THEN [c EXCEPT !.at = @ + Len(Lead(p.header))] ELSE c
        next == [source |-> "data", revision |-> before.revision + 1, at |-> revision,
                 size |-> Len(keys), rows |-> rows, header |-> p.header, inputs |-> p.inputs,
                 values |-> <<>>]
    IN  IF since.known /\ same /\ since.changes = <<>>
        THEN [dataset |-> before, changes |-> <<>>]
        ELSE [dataset |-> next,
              changes |-> IF since.known /\ same
                          THEN [i \in DOMAIN since.changes |-> shift(since.changes[i])]
                          ELSE <<ResetRows(rows)>>]

(* _prepare_incremental: the dataset after the one of the last commit.       *)
Incremental(before, p) ==
    LET reusable == before.source = "data" /\ before.inputs = p.inputs
        since == IF reusable THEN ChangesSince(before.at) ELSE [known |-> FALSE, changes |-> <<>>]
        same == before.header = p.header /\ (before.size = 0) = (keys = <<>>)
        rows == Decorated(DataRows, p.header)
        shift(c) == IF c.op \in {"i", "m"} THEN [c EXCEPT !.at = @ + Len(Lead(p.header))] ELSE c
        next == [source |-> "data", revision |-> before.revision + 1, at |-> revision,
                 size |-> Len(keys), rows |-> rows, header |-> p.header, inputs |-> p.inputs,
                 values |-> <<>>]
    IN  IF since.known /\ same /\ since.changes = <<>>
        THEN [dataset |-> before, changes |-> <<>>]
        ELSE [dataset |-> next,
              changes |-> IF since.known /\ same
                          THEN [i \in DOMAIN since.changes |-> shift(since.changes[i])]
                          ELSE <<ResetRows(rows)>>]

(* _prepare_snapshot: every row's values are compared with the ones of the   *)
(* last dataset, and the rows with the last rows.                            *)
ValueAt(i) == [key |-> plain[i].key, value |-> plain[i].value, index |-> i, last |-> i = Len(plain)]
Snapshot(before, p) ==
    LET old(k) == {x \in ToSet(before.values) : x.of.key = k}
        rev(i) == IF old(plain[i].key) = {} THEN 1
                  ELSE LET seen == CHOOSE x \in old(plain[i].key) : TRUE
                       IN  IF before.inputs # p.inputs \/ seen.of # ValueAt(i) THEN seen.rev + 1
                           ELSE seen.rev
        rows == Decorated([i \in DOMAIN plain |-> Row(plain[i].key, rev(i))], p.header)
        changed == before.source # "plain" \/ rows # before.rows
        next == [source |-> "plain", revision |-> before.revision + 1, at |-> 0, size |-> Len(plain),
                 rows |-> rows, header |-> p.header, inputs |-> p.inputs,
                 values |-> [i \in DOMAIN plain |-> [of |-> ValueAt(i), rev |-> rev(i)]]]
    IN  IF ~changed THEN [dataset |-> before, changes |-> <<>>]
        ELSE [dataset |-> next,
              changes |-> IF before.source = "plain" THEN SequencePatch(before.rows, rows)
                          ELSE <<ResetRows(rows)>>]

Prepare(v) == IF props[v].source = "data" THEN Incremental(previous[v], props[v])
              ELSE Snapshot(previous[v], props[v])

(* The rows of a dataset as a render reads them: an incremental dataset is a *)
(* live view of the source by index, any other is a copy.                    *)
LiveSize(d) == IF d.source = "data" THEN Len(keys) ELSE d.size
LiveRow(d, i) ==
    IF d.source = "data"
    THEN [key |-> keys[i], rev |-> entry[keys[i]].rev, value |-> entry[keys[i]].value]
    ELSE [key |-> d.values[i].of.key, rev |-> d.values[i].rev, value |-> d.values[i].of.value]

(* Mutant: a row draws again only when it moves. *)
MutantRowByIndex(d, i) == [rev |-> 1, index |-> i, last |-> i = LiveSize(d),
                           inputs |-> d.inputs, source |-> d.source]
(* _ListRow is memoized by key: it draws again only when its revision, its   *)
(* index, being last, the inputs or the source is another.                   *)
RowInputs(d, i) == [rev |-> LiveRow(d, i).rev, index |-> i, last |-> i = LiveSize(d),
                    inputs |-> d.inputs, source |-> d.source]
Undrawn == [by |-> [rev |-> 0, index |-> 0, last |-> FALSE, inputs |-> 0, source |-> "none"], value |-> 0]
Draw(v, d) ==
    [k \in Keys |->
        LET at == {i \in 1..d.size : LiveRow(d, i).key = k}
        IN  IF at = {} THEN Undrawn
            ELSE LET i == CHOOSE i \in at : TRUE
                 IN  IF drawn[v][k].by = RowInputs(d, i) THEN drawn[v][k]
                     ELSE [by |-> RowInputs(d, i), value |-> LiveRow(d, i).value]]

(* A render that prepares no new dataset leaves the native list as it is.    *)
Idle(v) == sent[v] = NoPacket

Render(v) ==
    /\ dirty[v] /\ Idle(v) /\ ~broken[v]
    /\ LET next == Prepare(v)
       IN  /\ dataset' = [dataset EXCEPT ![v] = next.dataset]
           /\ drawn' = [drawn EXCEPT ![v] = Draw(v, next.dataset)]
           /\ wanted' = [wanted EXCEPT ![v] = next.dataset.rows]
           /\ sent' = [sent EXCEPT ![v] =
                         IF next.dataset = previous[v] THEN NoPacket
                         ELSE [base |-> previous[v].revision, revision |-> next.dataset.revision,
                               changes |-> next.changes]]
    /\ dirty' = [dirty EXCEPT ![v] = FALSE]
    /\ window' = [window EXCEPT ![v] = FALSE]
    /\ replaced' = [replaced EXCEPT ![v] = {k \in @ : drawn'[v][k] = drawn[v][k] /\ k \in ToSet(keys)}]
    /\ observed' = [observed EXCEPT ![v] = IF props[v].source = "data" THEN revision ELSE 0]
    /\ UNCHANGED <<source, plain, props, subscribed, previous, native, broken, event, told, used>>

(* set_window renders the inner list alone, from the dataset it memoized.    *)
RenderWindow(v) ==
    /\ window[v] /\ ~dirty[v] /\ Idle(v) /\ ~broken[v]
    /\ window' = [window EXCEPT ![v] = FALSE]
    /\ IF LiveSize(dataset[v]) < dataset[v].size
       THEN broken' = [broken EXCEPT ![v] = TRUE] /\ UNCHANGED drawn
       ELSE drawn' = [drawn EXCEPT ![v] = Draw(v, dataset[v])] /\ UNCHANGED broken
    /\ UNCHANGED <<source, plain, props, dirty, observed, subscribed, dataset, previous, sent, native,
                   event, told, replaced, wanted, used>>

(* Mutant: the effect subscribes without comparing once more. *)
MutantSubscribeBlind(v) ==
    /\ ~Idle(v)
    /\ native' = [native EXCEPT ![v] = Published(@, sent[v])]
    /\ sent' = [sent EXCEPT ![v] = NoPacket]
    /\ previous' = [previous EXCEPT ![v] = dataset[v]]
    /\ subscribed' = [subscribed EXCEPT ![v] = dataset[v].source = "data"]
    /\ UNCHANGED <<source, plain, props, dirty, observed, dataset, window, drawn, broken, event,
                   told, replaced, wanted, used>>

(* The commit is answered: the store publishes the patch, the layout effect  *)
(* keeps the dataset, and use_subscription's effect subscribes and compares  *)
(* once more.                                                                *)
Answer(v) ==
    LET joins == props[v].source = "data" /\ dataset[v].source = "data" /\ ~subscribed[v]
        missed == joins /\ observed[v] # revision
    IN  /\ ~Idle(v)
        /\ native' = [native EXCEPT ![v] = Published(@, sent[v])]
        /\ sent' = [sent EXCEPT ![v] = NoPacket]
        /\ previous' = [previous EXCEPT ![v] = dataset[v]]
        /\ subscribed' = [subscribed EXCEPT ![v] = dataset[v].source = "data"]
        /\ dirty' = [dirty EXCEPT ![v] = @ \/ missed]
        /\ observed' = [observed EXCEPT ![v] = IF missed THEN revision ELSE @]
        /\ UNCHANGED <<source, plain, props, dataset, window, drawn, broken, event, told, replaced,
                       wanted, used>>

(* The application renders the list with a new sequence or with other props. *)
Replace(rows) ==
    /\ Spend
    /\ plain' = rows /\ rows # plain
    /\ dirty' = [v \in Views |-> dirty[v] \/ props[v].source = "plain"]
    /\ UNCHANGED <<source, props, observed, subscribed, view, event, told>>

Reprops(v, p) ==
    /\ Spend
    /\ Cardinality({f \in DOMAIN p : p[f] # props[v][f]}) = 1
    /\ props' = [props EXCEPT ![v] = p]
    /\ dirty' = [dirty EXCEPT ![v] = TRUE]
    /\ UNCHANGED <<source, plain, observed, subscribed, view, event, told>>

(* The list is unmounted, by its parent or by the recovery of a failed       *)
(* surface, and mounted again under a new tag, its hooks anew.               *)
Remount(v) ==
    /\ Spend
    /\ dirty' = [dirty EXCEPT ![v] = TRUE]
    /\ observed' = [observed EXCEPT ![v] = 0]
    /\ subscribed' = [subscribed EXCEPT ![v] = FALSE]
    /\ dataset' = [dataset EXCEPT ![v] = NoDataset]
    /\ previous' = [previous EXCEPT ![v] = NoDataset]
    /\ window' = [window EXCEPT ![v] = FALSE]
    /\ sent' = [sent EXCEPT ![v] = NoPacket]
    /\ native' = [native EXCEPT ![v] = EmptyStore]
    /\ drawn' = [drawn EXCEPT ![v] = [k \in Keys |-> Undrawn]]
    /\ broken' = [broken EXCEPT ![v] = FALSE]
    /\ replaced' = [replaced EXCEPT ![v] = {}]
    /\ wanted' = [wanted EXCEPT ![v] = <<>>]
    /\ event' = [event EXCEPT ![v] = NoEvent]
    /\ UNCHANGED <<source, plain, props, told>>

(* The platform asks for a row (bind) or reports what is visible (window):   *)
(* it names the revision, the position and, for a bind, the key it shows.    *)
Emit(v, kind, i) ==
    /\ Spend
    /\ event[v] = NoEvent /\ i \in DOMAIN native[v].rows
    /\ event' = [event EXCEPT ![v] = [kind |-> kind, revision |-> native[v].revision,
                                      index |-> i, key |-> native[v].rows[i].key]]
    /\ UNCHANGED <<source, plain, props, dirty, observed, subscribed, view, told>>

(* bind and scroll: an event of another revision, or one that reads a source *)
(* that has changed since, is dropped.  Inputs are held while a commit is on *)
(* its way.                                                                  *)
MutantAnySource(d) == TRUE
SourceIsCurrent(d) == d.source # "data" \/ d.at = revision
LiveKey(d, i) ==
    LET lead == Len(Lead(d.header))
        size == LiveSize(d)
    IN  IF i <= lead THEN "__header__"
        ELSE IF i - lead \in 1..size THEN LiveRow(d, i - lead).key
        ELSE "__empty__"

Deliver(v) ==
    LET e == event[v]
        d == dataset[v]
        current == e.revision = d.revision /\ SourceIsCurrent(d)
        named == LiveKey(d, e.index)
    IN  /\ e # NoEvent /\ Idle(v) /\ ~broken[v]
        /\ event' = [event EXCEPT ![v] = NoEvent]
        /\ IF ~current \/ (e.kind = "bind" /\ named # e.key)
           THEN UNCHANGED <<window, told>>
           ELSE /\ window' = [window EXCEPT ![v] = TRUE]
                /\ told' = [kind |-> e.kind, shown |-> e.key, named |-> named]
        /\ UNCHANGED <<source, plain, props, dirty, observed, subscribed, dataset, previous, sent,
                       native, drawn, broken, replaced, wanted, used>>

---------------------------------------------------------------------------
Props == [source : {"data", "plain"}, header : BOOLEAN, inputs : 0..1]
Orders == UNION {{o \in [1..n -> Keys] : IsInjective(o)} : n \in 0..Cardinality(Keys)}
Plain == {[i \in DOMAIN o |-> [key |-> o[i], value |-> w]] : o \in Orders, w \in 0..1}

Init ==
    /\ keys = First
    /\ entry = [k \in Keys |-> IF k \in ToSet(First) THEN [rev |-> 1, value |-> 0] ELSE Absent]
    /\ revision = 0 /\ history = <<>> /\ batch = FALSE /\ notified = 0
    /\ plain = <<>>
    /\ props \in [Views -> {p \in Props : p.header /\ p.inputs = 0}]
    /\ dirty = [v \in Views |-> TRUE]
    /\ observed = [v \in Views |-> 0]
    /\ subscribed = [v \in Views |-> FALSE]
    /\ dataset = [v \in Views |-> NoDataset]
    /\ previous = [v \in Views |-> NoDataset]
    /\ window = [v \in Views |-> FALSE]
    /\ sent = [v \in Views |-> NoPacket]
    /\ native = [v \in Views |-> EmptyStore]
    /\ drawn = [v \in Views |-> [k \in Keys |-> Undrawn]]
    /\ broken = [v \in Views |-> FALSE]
    /\ event = [v \in Views |-> NoEvent]
    /\ told = [kind |-> "none", shown |-> "none", named |-> "none"]
    /\ replaced = [v \in Views |-> {}]
    /\ wanted = [v \in Views |-> <<>>]
    /\ used = 0

ViewStep(v) ==
    \/ Render(v) \/ RenderWindow(v) \/ Answer(v) \/ Remount(v) \/ Deliver(v)
    \/ \E p \in Props : Reprops(v, p)
    \/ \E kind \in {"bind", "window"}, i \in 1..(Cardinality(Keys) + 1) : Emit(v, kind, i)

Next ==
    \/ \E k \in Keys, i \in 1..Cardinality(Keys) : Insert(k, i) \/ Move(k, i)
    \/ \E k \in Keys : Update(k) \/ Remove1(k)
    \/ Clear \/ BatchBegin \/ BatchEnd
    \/ \E rows \in Plain : Replace(rows)
    \/ \E v \in Views : ViewStep(v)

(* The loop runs the flush that is due, the platform answers every commit,   *)
(* and a batch is left.                                                       *)
Fairness == WF_vars(BatchEnd) /\ \A v \in Views : WF_vars(Render(v)) /\ WF_vars(Answer(v))

Spec == Init /\ [][Next]_vars /\ Fairness

---------------------------------------------------------------------------
(* Native stores "validate base revisions and keys before changing their     *)
(* data" and refuse a packet that does not fit: no packet a list sends is    *)
(* ever refused, whatever edits, expiries, clears and source switches lie    *)
(* between its renders (_prepare_incremental, _metadata_patch, prepare).     *)
PacketsAccepted == \A v \in Views : ~Idle(v) => Prepared(native[v], sent[v]).ok

(* The scanning adapter's patch turns any rows into any other: a reference   *)
(* check of _metadata_patch against prepare and publish, made at the start.  *)
PatchIsExact ==
  revision + used = 0 =>
    \A old, new \in RowLists(PatchKeys) :
        LET work == Prepared([revision |-> 1, rows |-> old],
                             [base |-> 1, revision |-> 2, changes |-> SequencePatch(old, new)])
        IN  work.ok /\ work.rows = new

Settled(v) == ~dirty[v] /\ Idle(v) /\ ~batch /\ ~broken[v]
ItemOf(v, k) == IF props[v].source = "data" THEN entry[k].value
                ELSE plain[IndexOf(plain, k)].value
KeysIn(v) == IF props[v].source = "data" THEN ToSet(keys) ELSE KeysOf(plain)
(* A list that has nothing left to do shows its source: the keys and         *)
(* revisions of the ListData, or the keys of its sequence, and in each row   *)
(* the item its key has now.  A change between a render and its              *)
(* subscription, or inside a commit, is not missed.  The exception is an     *)
(* item that left the ListData and came back under its key between two       *)
(* renders: its revision starts again, and the row keeps the old item.       *)
CaughtUp ==
    \A v \in Views : Settled(v) =>
        /\ IF props[v].source = "data" THEN native[v].rows = Decorated(DataRows, props[v].header)
           ELSE [i \in DOMAIN native[v].rows |-> native[v].rows[i].key]
                = [i \in DOMAIN Decorated(plain, props[v].header) |-> Decorated(plain, props[v].header)[i].key]
        /\ \A k \in KeysIn(v) \ replaced[v] : drawn[v][k].value = ItemOf(v, k)

(* "Never interpret old native indices through the source's new order": an   *)
(* event that is accepted names the row the platform showed at its position, *)
(* though it is read through a live view of the source (source_is_current).  *)
EventsNameTheShownRow == told.kind = "window" => told.named = told.shown

(* Each list behaves as if every commit carried the whole list.              *)
Mirror == INSTANCE ListMirror WITH
    list <- [v \in Views |-> Prepare(v).dataset.rows],
    carried <- [v \in Views |-> IF Idle(v) THEN {} ELSE {wanted[v]}],
    shown <- [v \in Views |-> native[v].rows]
SendsWholeLists == Mirror!Spec
=============================================================================
