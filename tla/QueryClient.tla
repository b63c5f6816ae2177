---------------------------- MODULE QueryClient ----------------------------
(***************************************************************************)
(* The query cache (query.py) under the components that use it             *)
(* (hooks.py use_query, use_subscription).                                 *)
(*                                                                         *)
(* A component renders, which reads the snapshot of its key and may create *)
(* the entry; its effect subscribes, which starts the shared request; when *)
(* the last one leaves, the request is cancelled.  Cancelling is asking:   *)
(* a fetcher may catch it and still return, so a request that is no longer *)
(* wanted can end with a result at any later time.                         *)
(*                                                                         *)
(* A value is known by when it was asked for: results carry the number of  *)
(* their request, set_data takes the next number.                          *)
(***************************************************************************)
EXTENDS Naturals, FiniteSets

CONSTANTS
  Keys,         \* query keys
  Components,   \* calls of use_query
  Capacity,     \* QueryClient.capacity
  MaxIssued,    \* bound: requests and set_data calls
  MaxRenders,   \* bound: mounts of components
  MaxEntries,   \* bound: entries created, evicted ones included
  MaxGeneration \* bound: generations of an entry that is invalidated

ASSUME CapacityAssumption == Capacity \in Nat \ {0}
ASSUME BoundsAssumption == {MaxIssued, MaxRenders, MaxEntries, MaxGeneration} \subseteq Nat

VARIABLES
  held,      \* the keys of _entries
  older,     \* the order of _entries: <<p, o>> when p is before o
  entry,     \* the entry of each key; meaningful for the keys held
  request,   \* request[k][n]: the task of the n-th request, for key k
  issued,    \* requests and set_data calls so far
  created,   \* entries created so far, their identities
  rendered,  \* rendered[k]: rendered with key k, effects not run yet
  renders    \* mounts so far

cacheVars == <<held, older, created>>
componentVars == <<rendered, renders>>
vars == <<cacheVars, entry, request, issued, componentVars>>

None == 0        \* data of an entry nobody gave an initial value
Initial == 1     \* the value components pass as initial
Numbers == 2..(MaxIssued + 1)

NewEntry(data) ==
  [data |-> data, loading |-> TRUE, fresh |-> FALSE,
   generation |-> 0, listeners |-> {}, task |-> 0, id |-> created + 1]

NoRequest == [state |-> "none", generation |-> 0, id |-> 0]

Init ==
  /\ held = {} /\ older = {} /\ created = 0
  /\ entry = [k \in Keys |-> NewEntry(None)]
  /\ request = [k \in Keys |-> [n \in Numbers |-> NoRequest]]
  /\ issued = 1
  /\ rendered = [k \in Keys |-> {}] /\ renders = 0

----------------------------------------------------------------------------
Live(k) == entry[k].task # 0 /\ request[k][entry[k].task].state = "live"
Idle(k) == entry[k].listeners = {} /\ ~Live(k)

(* _entry: the keys used move to the end, and the oldest idle entries make *)
(* room while there are more entries than the capacity.                    *)
GoneLate(ks) ==
  LET idle == {o \in held \ ks : Idle(o)}
  IN  {o \in idle : /\ ks # {}
                    /\ Cardinality({p \in idle : <<p, o>> \in older}) + Capacity + 1
                         < Cardinality(held \cup ks)}
Gone(ks) ==
  LET idle == {o \in held \ ks : Idle(o)}
  IN  {o \in idle : /\ ks # {}
                    /\ Cardinality({p \in idle : <<p, o>> \in older}) + Capacity
                         < Cardinality(held \cup ks)}

Use(ks) ==
  /\ ks \subseteq held \/ created < MaxEntries
  /\ held' = (held \cup ks) \ Gone(ks)
  /\ older' = {pair \in held' \X held' :
                 \/ pair[1] \notin ks /\ pair[2] \in ks
                 \/ (pair[1] \in ks <=> pair[2] \in ks) /\ pair \in older}
  /\ created' = IF ks \subseteq held THEN created ELSE created + 1

Entered(k, data) == IF k \in held THEN entry[k] ELSE NewEntry(data)

(* The snapshot an entry publishes. *)
Published(e, data, loading) == [e EXCEPT !.data = data, !.loading = loading]

(* The listeners of a publication read the snapshot (use_subscription),    *)
(* which uses the entry again.                                             *)
Notify(ks) == Use({k \in ks : entry[k].listeners # {}})

(* task.cancel() of the entry's request, when it has not ended. *)
NotCancelled(k) == request[k]
Cancelled(k) ==
  IF k \in held /\ Live(k)
    THEN [request[k] EXCEPT ![entry[k].task].state = "cancelled"]
    ELSE request[k]

Started(requests, e) ==
  [requests EXCEPT ![issued + 1] =
     [state |-> "live", generation |-> e.generation, id |-> e.id]]

(* _fetch, when the entry has no request that has not ended. *)
FetchingQuietly(e) == [e EXCEPT !.task = issued + 1]
Fetching(e) == [Published(e, e.data, TRUE) EXCEPT !.task = issued + 1]

----------------------------------------------------------------------------
(* The first render reads the snapshot, with the component's initial value. *)
Render(c, k) ==
  /\ \A o \in Keys : c \notin rendered[o] \cup entry[o].listeners
  /\ renders < MaxRenders /\ renders' = renders + 1
  /\ rendered' = [rendered EXCEPT ![k] = @ \cup {c}]
  /\ Use({k})
  /\ entry' = [entry EXCEPT ![k] = Entered(k, Initial)]
  /\ UNCHANGED <<request, issued>>

(* Every other render, and snapshot() itself, reads an entry that is there. *)
Read(k) ==
  /\ k \in held /\ Use({k})
  /\ UNCHANGED <<entry, request, issued, componentVars>>

(* The effect of the commit subscribes; stale data starts the request. *)
Subscribe(c, k) ==
  LET e == [Entered(k, None) EXCEPT !.listeners = @ \cup {c}]
      fetch == ~e.fresh /\ ~(k \in held /\ Live(k))
  IN  /\ c \in rendered[k]
      /\ rendered' = [rendered EXCEPT ![k] = @ \ {c}]
      /\ Use({k})
      /\ IF fetch
           THEN /\ issued <= MaxIssued /\ issued' = issued + 1
                /\ entry' = [entry EXCEPT ![k] = Fetching(e)]
                /\ request' = [request EXCEPT ![k] = Started(@, e)]
           ELSE /\ entry' = [entry EXCEPT ![k] = e]
                /\ UNCHANGED <<issued, request>>
      /\ UNCHANGED renders

(* The pass that rendered the component is thrown away before its effects. *)
Abandon(c, k) ==
  /\ c \in rendered[k]
  /\ rendered' = [rendered EXCEPT ![k] = @ \ {c}]
  /\ UNCHANGED <<cacheVars, entry, request, issued, renders>>

(* The last subscriber takes the request with it. *)
LeaveKeepsGeneration(k, e) ==
  [Published(e, e.data, FALSE) EXCEPT !.task = 0]
Leave(k, e) ==
  [Published(e, e.data, FALSE) EXCEPT !.task = 0, !.generation = @ + 1]

Unsubscribe(c, k) ==
  LET e == [entry[k] EXCEPT !.listeners = @ \ {c}]
      last == e.listeners = {} /\ Live(k)
  IN  /\ k \in held /\ c \in entry[k].listeners
      /\ entry' = [entry EXCEPT ![k] = IF last THEN Leave(k, e) ELSE e]
      /\ request' = [request EXCEPT ![k] = IF last THEN Cancelled(k) ELSE @]
      /\ UNCHANGED <<cacheVars, issued, componentVars>>

----------------------------------------------------------------------------
(* The entry a task writes to is the one it was started for, and only      *)
(* while the generation is the one it started with.                        *)
Current(k, n) ==
  /\ k \in held /\ entry[k].id = request[k][n].id
  /\ entry[k].generation = request[k][n].generation

Ends(k, n, state) ==
  /\ request[k][n].state \in {"live", "cancelled"}
  /\ request' = [request EXCEPT ![k][n] = [NoRequest EXCEPT !.state = state]]
  /\ UNCHANGED <<issued, componentVars>>

FetchReturns(k, n) ==
  /\ Ends(k, n, "ended")
  /\ IF Current(k, n)
       THEN /\ entry' = [entry EXCEPT ![k] =
                           [Published(@, n, FALSE) EXCEPT !.fresh = TRUE]]
            /\ Notify({k})
       ELSE UNCHANGED <<entry, cacheVars>>

FetchRaises(k, n) ==
  /\ Ends(k, n, "ended")
  /\ IF Current(k, n)
       THEN /\ entry' = [entry EXCEPT ![k] = Published(@, @.data, FALSE)]
            /\ Notify({k})
       ELSE UNCHANGED <<entry, cacheVars>>

(* CancelledError passes through: asked for by the cache, or raised by the *)
(* fetcher because something it awaited was cancelled.                     *)
FetchCancelled(k, n) ==
  /\ Ends(k, n, IF request[k][n].state = "live" THEN "gaveUp" ELSE "ended")
  /\ UNCHANGED <<entry, cacheVars>>

----------------------------------------------------------------------------
Renewed(k, e) ==
  LET stale == [e EXCEPT !.generation = @ + 1, !.fresh = FALSE, !.task = 0]
  IN  IF e.listeners # {} THEN Fetching(stale) ELSE stale

(* invalidate(key): refetch of a component, or any part of the program. *)
Invalidate(k) ==
  LET e == Entered(k, None)
      fetch == e.listeners # {}
  IN  /\ fetch => issued <= MaxIssued
      /\ issued' = IF fetch THEN issued + 1 ELSE issued
      /\ Use({k})
      /\ entry' = [entry EXCEPT ![k] = Renewed(k, e)]
      /\ request' = [request EXCEPT ![k] =
           IF fetch THEN Started(Cancelled(k), Renewed(k, e)) ELSE Cancelled(k)]
      /\ e.generation < MaxGeneration
      /\ UNCHANGED componentVars

(* invalidate(): every entry; the subscribed ones are fetched again. *)
InvalidateAll ==
  LET fetch == {k \in held : entry[k].listeners # {}}
  IN  /\ fetch # {} => issued <= MaxIssued
      /\ issued' = IF fetch # {} THEN issued + 1 ELSE issued
      /\ Notify(held)
      /\ entry' = [k \in Keys |-> IF k \in held THEN Renewed(k, entry[k]) ELSE entry[k]]
      /\ request' = [k \in Keys |->
           IF k \in fetch THEN Started(Cancelled(k), Renewed(k, entry[k])) ELSE Cancelled(k)]
      /\ \A k \in held : entry[k].generation < MaxGeneration
      /\ UNCHANGED componentVars

SetData(k) ==
  LET e == Entered(k, None)
  IN  /\ issued <= MaxIssued /\ issued' = issued + 1
      /\ Use({k})
      /\ entry' = [entry EXCEPT ![k] =
           [Published(e, issued + 1, FALSE) EXCEPT
              !.generation = @ + 1, !.task = 0, !.fresh = TRUE]]
      /\ request' = [request EXCEPT ![k] = Cancelled(k)]
      /\ UNCHANGED componentVars

(* The stale time passes. *)
Expire(k) ==
  /\ k \in held /\ entry[k].fresh
  /\ entry' = [entry EXCEPT ![k].fresh = FALSE]
  /\ UNCHANGED <<cacheVars, request, issued, componentVars>>

Next ==
  \/ \E c \in Components, k \in Keys :
       Render(c, k) \/ Subscribe(c, k) \/ Abandon(c, k) \/ Unsubscribe(c, k)
  \/ \E k \in Keys :
       \/ Read(k) \/ Invalidate(k) \/ SetData(k) \/ Expire(k)
       \/ \E n \in Numbers : FetchReturns(k, n) \/ FetchRaises(k, n) \/ FetchCancelled(k, n)
  \/ InvalidateAll

Spec == Init /\ [][Next]_vars

----------------------------------------------------------------------------
Entries == [data : Nat, loading : BOOLEAN, fresh : BOOLEAN,
            generation : Nat, listeners : SUBSET Components,
            task : {0} \cup Numbers, id : Nat]
Requests == [state : {"none", "live", "cancelled", "gaveUp", "ended"},
             generation : Nat, id : Nat]

(* Types. *)
TypeOK ==
  /\ held \subseteq Keys /\ older \subseteq held \X held
  /\ entry \in [Keys -> Entries]
  /\ request \in [Keys -> [Numbers -> Requests]]
  /\ issued \in Nat /\ created \in Nat /\ renders \in Nat
  /\ rendered \in [Keys -> SUBSET Components]

(* A request nobody has cancelled is the one request of its entry, and     *)
(* somebody is subscribed to it: requests are shared, and the last         *)
(* subscriber, an invalidation and set_data leave none behind.             *)
OneSharedRequest ==
  \A k \in Keys, n \in Numbers : request[k][n].state = "live" =>
    /\ k \in held /\ entry[k].task = n
    /\ entry[k].id = request[k][n].id
    /\ entry[k].listeners # {}

(* The data of an entry is never replaced by data asked for earlier,       *)
(* although a superseded fetcher may return at any time.                   *)
DataNeverGoesBack ==
  [][\A k \in held \cap held' :
       entry'[k].id = entry[k].id => entry'[k].data >= entry[k].data]_vars

(* A subscriber sees loading exactly while a request is under way, except  *)
(* after a fetcher that was itself cancelled.                              *)
LoadingHasRequest ==
  \A k \in held : LET e == entry[k] IN
    e.listeners # {} =>
      \/ e.loading <=> Live(k)
      \/ e.loading /\ e.task # 0 /\ request[k][e.task].state = "gaveUp"

(* A new entry goes over the capacity only when every other entry is in    *)
(* use, and an entry with subscribers is never evicted.                    *)
CacheBounded ==
  [][/\ ~(held' \subseteq held) =>
          \/ Cardinality(held') <= Capacity
          \/ \A k \in held \cap held' : ~Idle(k)
     /\ \A k \in held \ held' : Idle(k)]_vars
=============================================================================
