------------------------- MODULE QueryClientProofs -------------------------
(***************************************************************************)
(* What holds of the query cache for any keys, components, capacity and    *)
(* bounds.  The argument: a task that is still wanted has the identity and *)
(* the generation of its entry, and a task that is not wanted can never    *)
(* have both again, because a generation only grows and an identity is     *)
(* never given out twice.                                                  *)
(***************************************************************************)
EXTENDS QueryClient, FiniteSetTheorems, WellFoundedInduction, TLAPS

(* What a request knows of its entry. *)
Wanted(k, n) ==
  request[k][n].state = "live" =>
    /\ k \in held /\ entry[k].task = n /\ entry[k].listeners # {}
    /\ entry[k].id = request[k][n].id
    /\ entry[k].generation = request[k][n].generation
    /\ entry[k].data < n /\ n <= issued

Unwanted(k, n) ==
  request[k][n].state = "cancelled" =>
    /\ request[k][n].id <= created
    /\ k \in held /\ entry[k].id = request[k][n].id
         => request[k][n].generation < entry[k].generation

KeyInv(k) ==
  /\ k \in held => entry[k].data <= issued /\ entry[k].id <= created
  /\ \A n \in Numbers : Wanted(k, n) /\ Unwanted(k, n)

IInv ==
  /\ TypeOK
  /\ issued >= 1
  /\ \A k \in Keys : KeyInv(k)

(* Requests are numbered from 2. *)
LEMMA NumbersAreNat == Numbers \subseteq Nat
BY BoundsAssumption DEF Numbers

(* Using keys lets idle entries go, and makes none but the keys used. *)
LEMMA UseFacts ==
  ASSUME TypeOK, NEW ks \in SUBSET Keys, Use(ks)
  PROVE  /\ held' \subseteq held \cup ks /\ held' \subseteq Keys
         /\ ks \subseteq held'
         /\ older' \subseteq held' \X held'
         /\ created' \in Nat /\ created' >= created
         /\ ~(ks \subseteq held) => created' = created + 1
         /\ \A k \in held \ held' : Idle(k)
<1>1. Gone(ks) \subseteq held \ ks /\ \A k \in Gone(ks) : Idle(k)
  BY DEF Gone
<1>2. held' = (held \cup ks) \ Gone(ks)
  BY DEF Use
<1>3. older' \subseteq held' \X held'
  BY DEF Use
<1>4. created' \in Nat /\ created' >= created
      /\ (~(ks \subseteq held) => created' = created + 1)
  BY DEF Use, TypeOK
<1> QED BY <1>1, <1>2, <1>3, <1>4 DEF TypeOK

(* A key whose entry and requests a step leaves alone keeps its invariant, *)
(* evicted or not.                                                         *)
LEMMA Untouched ==
  ASSUME IInv, NEW k \in Keys,
         entry'[k] = entry[k], request'[k] = request[k],
         issued' \in Nat, issued' >= issued,
         created' \in Nat, created' >= created,
         k \in held' => k \in held,
         k \in held \ held' => Idle(k)
  PROVE  KeyInv(k)'
<1>1. entry[k] \in Entries /\ issued \in Nat /\ created \in Nat
      /\ request[k] \in [Numbers -> Requests]
  BY DEF IInv, TypeOK
<1>2. KeyInv(k)
  BY DEF IInv
<1>3. k \in held' => entry'[k].data <= issued' /\ entry'[k].id <= created'
  BY <1>1, <1>2 DEF KeyInv, Entries
<1>4. ASSUME NEW n \in Numbers PROVE Wanted(k, n)' /\ Unwanted(k, n)'
  <2>1. Wanted(k, n) /\ Unwanted(k, n)
    BY <1>2 DEF KeyInv
  <2>2. request[k][n].state = "live" => k \in held'
    BY <2>1 DEF Wanted, Idle
  <2>3. request[k][n] \in Requests
    BY <1>1
  <2>4. n \in Nat
    BY NumbersAreNat
  <2> QED BY <1>1, <2>1, <2>2, <2>3, <2>4 DEF Wanted, Unwanted, Requests, Entries
<1> QED BY <1>3, <1>4 DEF KeyInv

(* The empty cache satisfies the invariant. *)
THEOREM QInit == Init => IInv
  BY DEF Init, IInv, TypeOK, KeyInv, Wanted, Unwanted, NewEntry, NoRequest, Entries,
         Requests, None

(* Cancelling leaves no request of the key wanted, and none of those that  *)
(* may still return is ahead of the entry's generation.                    *)
LEMMA CancelFacts ==
  ASSUME IInv, NEW k \in Keys
  PROVE  /\ Cancelled(k) \in [Numbers -> Requests]
         /\ \A n \in Numbers :
              /\ Cancelled(k)[n].state # "live"
              /\ Cancelled(k)[n].state = "cancelled" =>
                   /\ Cancelled(k)[n].id <= created
                   /\ k \in held /\ entry[k].id = Cancelled(k)[n].id
                        => Cancelled(k)[n].generation <= entry[k].generation
<1>1. entry[k] \in Entries /\ request[k] \in [Numbers -> Requests] /\ created \in Nat
  BY DEF IInv, TypeOK
<1>2. KeyInv(k)
  BY DEF IInv
<1>3. CASE k \in held /\ Live(k)
  <2> DEFINE t == entry[k].task
  <2>1. t \in Numbers /\ request[k][t].state = "live"
    BY <1>1, <1>3 DEF Live, Entries
  <2>2. Cancelled(k) = [request[k] EXCEPT ![t].state = "cancelled"]
    BY <1>3 DEF Cancelled
  <2>3. request[k][t] \in Requests
    BY <1>1, <2>1
  <2>4. Cancelled(k) \in [Numbers -> Requests]
    BY <1>1, <2>1, <2>2, <2>3 DEF Requests
  <2>5. ASSUME NEW n \in Numbers
        PROVE  /\ Cancelled(k)[n].state # "live"
               /\ Cancelled(k)[n].state = "cancelled" =>
                    /\ Cancelled(k)[n].id <= created
                    /\ k \in held /\ entry[k].id = Cancelled(k)[n].id
                         => Cancelled(k)[n].generation <= entry[k].generation
    <3>1. Wanted(k, n) /\ Unwanted(k, n) /\ request[k][n] \in Requests
      BY <1>1, <1>2 DEF KeyInv
    <3>2. CASE n = t
      <4>1. /\ Cancelled(k)[n].state = "cancelled"
            /\ Cancelled(k)[n].id = request[k][n].id
            /\ Cancelled(k)[n].generation = request[k][n].generation
        BY <1>1, <2>1, <2>2, <2>3, <3>2 DEF Requests
      <4> QED BY <1>1, <1>2, <1>3, <2>1, <3>1, <3>2, <4>1
              DEF Wanted, KeyInv, Entries, Requests
    <3>3. CASE n # t
      <4>1. Cancelled(k)[n] = request[k][n]
        BY <1>1, <2>2, <3>3
      <4> QED BY <1>1, <3>1, <3>3, <4>1 DEF Wanted, Unwanted, Entries, Requests
    <3> QED BY <3>2, <3>3
  <2> QED BY <2>4, <2>5
<1>4. CASE ~(k \in held /\ Live(k))
  <2>1. Cancelled(k) = request[k]
    BY <1>4 DEF Cancelled
  <2>2. ASSUME NEW n \in Numbers PROVE request[k][n].state # "live"
    BY <1>2, <1>4 DEF KeyInv, Wanted, Live, Numbers
  <2>3. ASSUME NEW n \in Numbers, request[k][n].state = "cancelled"
        PROVE  /\ request[k][n].id <= created
               /\ k \in held /\ entry[k].id = request[k][n].id
                    => request[k][n].generation <= entry[k].generation
    <3>1. Unwanted(k, n) /\ request[k][n] \in Requests
      BY <1>1, <1>2 DEF KeyInv
    <3> QED BY <1>1, <2>3, <3>1 DEF Unwanted, Entries, Requests
  <2> QED BY <1>1, <2>1, <2>2, <2>3
<1> QED BY <1>3, <1>4

(* An entry that is new, or of the next generation, is free of every       *)
(* request but the one it starts.                                          *)
LEMMA Superseded ==
  ASSUME IInv, NEW k \in Keys,
         entry'[k] \in Entries, issued' \in Nat, entry'[k].data <= issued',
         created' \in Nat, created' >= created,
         k \in held => /\ entry'[k].id = entry[k].id
                       /\ entry'[k].generation = entry[k].generation + 1,
         k \notin held => entry'[k].id = created + 1 /\ created' = created + 1,
         \A n \in Numbers :
            \/ request'[k][n] = Cancelled(k)[n]
            \/ /\ request'[k][n] = [state |-> "live", id |-> entry'[k].id,
                                    generation |-> entry'[k].generation]
               /\ n = entry'[k].task /\ entry'[k].listeners # {} /\ k \in held'
               /\ entry'[k].data < n /\ n <= issued'
  PROVE  KeyInv(k)'
<1>1. entry[k] \in Entries /\ created \in Nat
  BY DEF IInv, TypeOK
<1>2. entry'[k].id <= created'
  BY <1>1 DEF IInv, KeyInv, Entries
<1>3. ASSUME NEW n \in Numbers PROVE Wanted(k, n)' /\ Unwanted(k, n)'
  <2>1. CASE request'[k][n] = Cancelled(k)[n]
    <3>1. Cancelled(k)[n] \in Requests
      BY CancelFacts
    <3>2. /\ Cancelled(k)[n].state # "live"
          /\ Cancelled(k)[n].state = "cancelled" =>
               /\ Cancelled(k)[n].id <= created
               /\ k \in held /\ entry[k].id = Cancelled(k)[n].id
                    => Cancelled(k)[n].generation <= entry[k].generation
      BY CancelFacts
    <3> QED BY <1>1, <2>1, <3>1, <3>2 DEF Wanted, Unwanted, Entries, Requests
  <2>2. CASE request'[k][n] # Cancelled(k)[n]
    BY <2>2 DEF Wanted, Unwanted
  <2> QED BY <2>1, <2>2
<1> QED BY <1>2, <1>3 DEF KeyInv

(* The next generation of an entry. *)
LEMMA NextGeneration ==
  ASSUME NEW e \in Entries
  PROVE  LET X == [e EXCEPT !.generation = e.generation + 1]
         IN  /\ X \in Entries /\ X.id = e.id /\ X.data = e.data
             /\ X.generation = e.generation + 1 /\ X.listeners = e.listeners
<1>1. e.generation + 1 \in Nat
  BY DEF Entries
<1> QED BY <1>1 DEF Entries

(* What a step that uses at most key k does to the keys held. *)
CacheStep(k) ==
  /\ held' \subseteq held \cup {k} /\ held' \subseteq Keys
  /\ older' \subseteq held' \X held'
  /\ created' \in Nat /\ created' >= created
  /\ \A o \in held \ held' : Idle(o)

(* Such a step keeps the invariant when it keeps that of its key. *)
LEMMA OneKey ==
  ASSUME IInv, NEW k \in Keys, CacheStep(k), NEW X \in Entries,
         NEW R \in [Numbers -> Requests],
         entry' = [entry EXCEPT ![k] = X], request' = [request EXCEPT ![k] = R],
         issued' \in Nat, issued' >= issued, renders' \in Nat,
         rendered' \in [Keys -> SUBSET Components],
         KeyInv(k)'
  PROVE  IInv'
<1>1. TypeOK'
  BY DEF IInv, TypeOK, CacheStep
<1>2. ASSUME NEW o \in Keys PROVE KeyInv(o)'
  <2>1. CASE o = k
    BY <2>1
  <2>2. CASE o # k
    <3>1. entry'[o] = entry[o] /\ request'[o] = request[o]
      BY <2>2 DEF IInv, TypeOK
    <3> QED BY <2>2, <3>1, Untouched DEF CacheStep
  <2> QED BY <2>1, <2>2
<1> QED BY <1>1, <1>2 DEF IInv, TypeOK

(* Using one key keeps it, and gives a new entry a new identity. *)
LEMMA UseKey ==
  ASSUME IInv, NEW k \in Keys, Use({k})
  PROVE  /\ CacheStep(k) /\ k \in held'
         /\ k \notin held => created' = created + 1
BY UseFacts DEF IInv, CacheStep

(* The listeners of an entry use it again; it is not evicted. *)
LEMMA NotifyKey ==
  ASSUME IInv, NEW k \in Keys, k \in held, entry[k].listeners # {}, Notify({k})
  PROVE  CacheStep(k) /\ k \in held'
<1>1. {o \in {k} : entry[o].listeners # {}} = {k}
  OBVIOUS
<1> QED BY <1>1, UseKey DEF Notify

(* A step that leaves the keys alone. *)
LEMMA Resting ==
  ASSUME IInv, NEW k \in Keys, UNCHANGED cacheVars
  PROVE  CacheStep(k) /\ held' = held /\ created' = created
BY DEF IInv, TypeOK, CacheStep, cacheVars

(* The entry an operation finds or makes. *)
LEMMA EnteredFacts ==
  ASSUME IInv, NEW k \in Keys, NEW d \in Nat
  PROVE  /\ Entered(k, d) \in Entries
         /\ k \in held => Entered(k, d) = entry[k]
         /\ k \notin held => /\ Entered(k, d).id = created + 1
                             /\ Entered(k, d).data = d
                             /\ ~Entered(k, d).fresh
BY DEF IInv, TypeOK, Entered, NewEntry, Entries

(* A render reads the entry of its key, or makes it. *)
LEMMA RenderStep ==
  ASSUME IInv, NEW c \in Components, NEW k \in Keys, Render(c, k)
  PROVE  IInv'
<1> DEFINE X == Entered(k, Initial)
<1>1. X \in Entries /\ (k \in held => X = entry[k])
      /\ (k \notin held => X.id = created + 1 /\ X.data = 1)
  BY EnteredFacts DEF Initial
<1>2. CacheStep(k) /\ k \in held' /\ (k \notin held => created' = created + 1)
  BY UseKey DEF Render
<1>3. entry'[k] = X /\ request' = request /\ issued' = issued
  BY DEF Render, IInv, TypeOK
<1>4. KeyInv(k)'
  <2>1. CASE k \in held
    BY <1>1, <1>2, <1>3, <2>1, Untouched DEF CacheStep, IInv, TypeOK
  <2>2. CASE k \notin held
    <3>1. X.data <= issued' /\ X.id <= created'
      BY <1>1, <1>2, <1>3, <2>2 DEF IInv, TypeOK
    <3>2. ASSUME NEW n \in Numbers PROVE Wanted(k, n)' /\ Unwanted(k, n)'
      <4>1. Wanted(k, n) /\ Unwanted(k, n) /\ request[k][n] \in Requests /\ created \in Nat
        BY DEF IInv, TypeOK, KeyInv
      <4> QED BY <1>1, <1>2, <1>3, <2>2, <4>1 DEF Wanted, Unwanted, Requests
    <3> QED BY <1>3, <3>1, <3>2 DEF KeyInv
  <2> QED BY <2>1, <2>2
<1>5. request' = [request EXCEPT ![k] = request[k]] /\ request[k] \in [Numbers -> Requests]
  BY <1>3 DEF IInv, TypeOK
<1>6. /\ entry' = [entry EXCEPT ![k] = X] /\ issued' \in Nat /\ issued' >= issued
      /\ renders' \in Nat /\ rendered' \in [Keys -> SUBSET Components]
  BY DEF Render, IInv, TypeOK
<1> QED BY <1>1, <1>2, <1>4, <1>5, <1>6, OneKey

(* Reading an entry keeps what it holds. *)
LEMMA ReadStep ==
  ASSUME IInv, NEW k \in Keys, Read(k)
  PROVE  IInv'
<1>1. CacheStep(k) /\ k \in held /\ k \in held'
  BY UseKey DEF Read
<1>2. /\ entry' = [entry EXCEPT ![k] = entry[k]] /\ entry[k] \in Entries
      /\ request' = [request EXCEPT ![k] = request[k]] /\ entry' = entry
      /\ request[k] \in [Numbers -> Requests] /\ request' = request
      /\ issued' \in Nat /\ issued' >= issued /\ renders' \in Nat
      /\ rendered' \in [Keys -> SUBSET Components]
  BY DEF Read, IInv, TypeOK, componentVars
<1>3. KeyInv(k)'
  BY <1>1, <1>2, Untouched DEF CacheStep
<1> QED BY <1>1, <1>2, <1>3, OneKey

(* Subscribing starts a request only when none is live.                    *)
LEMMA SubscribeStep ==
  ASSUME IInv, NEW c \in Components, NEW k \in Keys, Subscribe(c, k)
  PROVE  IInv'
<1> DEFINE e == [Entered(k, None) EXCEPT !.listeners = @ \cup {c}]
           fetch == ~e.fresh /\ ~(k \in held /\ Live(k))
           X == IF fetch THEN Fetching(e) ELSE e
           R == IF fetch THEN Started(request[k], e) ELSE request[k]
<1>0. entry[k] \in Entries /\ request[k] \in [Numbers -> Requests]
      /\ issued \in Nat /\ issued >= 1 /\ created \in Nat
  BY DEF IInv, TypeOK
<1>1. /\ Entered(k, None) \in Entries /\ (k \in held => Entered(k, None) = entry[k])
      /\ (k \notin held => /\ Entered(k, None).id = created + 1
                           /\ Entered(k, None).data = 0 /\ ~Entered(k, None).fresh)
  BY EnteredFacts DEF None
<1>2. /\ e \in Entries /\ e.listeners # {}
      /\ e.id = Entered(k, None).id /\ e.data = Entered(k, None).data
      /\ e.generation = Entered(k, None).generation /\ e.task = Entered(k, None).task
      /\ e.fresh = Entered(k, None).fresh
  BY <1>1 DEF Entries
<1>3. CacheStep(k) /\ k \in held' /\ (k \notin held => created' = created + 1)
  BY UseKey DEF Subscribe
<1>4. /\ entry' = [entry EXCEPT ![k] = X] /\ request' = [request EXCEPT ![k] = R]
      /\ fetch => issued \in Nat /\ issued <= MaxIssued /\ issued' = issued + 1
      /\ ~fetch => issued' = issued
      /\ renders' \in Nat /\ rendered' \in [Keys -> SUBSET Components]
  BY DEF Subscribe, IInv, TypeOK
<1>5. fetch => issued + 1 \in Numbers
  BY <1>0, <1>4, BoundsAssumption DEF Numbers
<1>6. /\ X \in Entries /\ R \in [Numbers -> Requests]
      /\ X.id = e.id /\ X.data = e.data /\ X.generation = e.generation
      /\ X.listeners # {} /\ (fetch => X.task = issued + 1) /\ (~fetch => X.task = e.task)
  BY <1>0, <1>2, <1>5 DEF Fetching, Published, Started, Entries, Requests
<1>7. entry'[k] = X /\ request'[k] = R
  BY <1>4 DEF IInv, TypeOK
<1>8. e.data <= issued' /\ e.id <= created'
  BY <1>0, <1>1, <1>2, <1>3, <1>4 DEF IInv, KeyInv, Entries, CacheStep
<1>9. ASSUME NEW n \in Numbers PROVE Wanted(k, n)' /\ Unwanted(k, n)'
  <2>1. Wanted(k, n) /\ Unwanted(k, n) /\ request[k][n] \in Requests
    BY <1>0 DEF IInv, KeyInv
  <2>2. CASE fetch /\ n = issued + 1
    <3>1. R[n] = [state |-> "live", generation |-> e.generation, id |-> e.id]
      BY <1>0, <2>2 DEF Started
    <3>2. e.data < n
      BY <1>0, <1>1, <1>2, <2>2 DEF IInv, KeyInv, Entries
    <3>3. issued' = issued + 1 /\ n <= issued' /\ X.task = n
      BY <1>0, <1>4, <1>6, <2>2
    <3>4. request'[k][n].state = "live" /\ request'[k][n].id = X.id
          /\ request'[k][n].generation = X.generation
      BY <1>6, <1>7, <3>1
    <3> HIDE DEF X
    <3> QED BY <1>3, <1>6, <1>7, <3>2, <3>3, <3>4 DEF Wanted, Unwanted
  <2>3. CASE ~(fetch /\ n = issued + 1)
    <3>1. R[n] = request[k][n]
      BY <1>0, <2>3 DEF Started
    <3>2. fetch => request[k][n].state # "live"
      BY <2>1 DEF Wanted, Live, Numbers
    <3>3. n \in Nat /\ issued' \in Nat /\ issued' >= issued
      BY <1>0, <1>4, NumbersAreNat
    <3>4. Wanted(k, n)'
      BY <1>0, <1>1, <1>2, <1>3, <1>6, <1>7, <2>1, <3>1, <3>2, <3>3 DEF Wanted
    <3>5. Unwanted(k, n)'
      BY <1>0, <1>1, <1>2, <1>3, <1>6, <1>7, <2>1, <3>1
      DEF Unwanted, CacheStep, Requests, Entries
    <3> QED BY <3>4, <3>5
  <2> QED BY <2>2, <2>3
<1>10. KeyInv(k)'
  BY <1>6, <1>7, <1>8, <1>9 DEF KeyInv
<1>11. issued' \in Nat /\ issued' >= issued
  BY <1>0, <1>4
<1> QED BY <1>3, <1>4, <1>6, <1>10, <1>11, OneKey

(* A render thrown away changes nothing in the cache. *)
LEMMA AbandonStep ==
  ASSUME IInv, NEW c \in Components, NEW k \in Keys, Abandon(c, k)
  PROVE  IInv'
BY DEF Abandon, IInv, TypeOK, KeyInv, Wanted, Unwanted, cacheVars

(* The stale time only clears the entry's freshness. *)
LEMMA ExpireStep ==
  ASSUME IInv, NEW k \in Keys, Expire(k)
  PROVE  IInv'
<1> DEFINE X == [entry[k] EXCEPT !.fresh = FALSE]
<1>1. /\ entry[k] \in Entries /\ request[k] \in [Numbers -> Requests]
      /\ entry' = [entry EXCEPT ![k] = X]
      /\ request' = [request EXCEPT ![k] = request[k]]
      /\ issued' = issued /\ issued' \in Nat /\ issued' >= issued /\ renders' \in Nat
      /\ rendered' \in [Keys -> SUBSET Components] /\ entry'[k] = X
      /\ request'[k] = request[k]
  BY DEF Expire, IInv, TypeOK, componentVars
<1>2. CacheStep(k) /\ held' = held /\ created' = created
  BY Resting DEF Expire
<1>3. /\ X \in Entries /\ X.id = entry[k].id /\ X.data = entry[k].data
      /\ X.generation = entry[k].generation /\ X.task = entry[k].task
      /\ X.listeners = entry[k].listeners
  BY <1>1 DEF Entries
<1>4. KeyInv(k)'
  BY <1>1, <1>2, <1>3 DEF IInv, KeyInv, Wanted, Unwanted
<1> QED BY <1>1, <1>2, <1>3, <1>4, OneKey

(* The last subscriber cancels the request and starts a generation. *)
LEMMA UnsubscribeStep ==
  ASSUME IInv, NEW c \in Components, NEW k \in Keys, Unsubscribe(c, k)
  PROVE  IInv'
<1> DEFINE e == [entry[k] EXCEPT !.listeners = @ \ {c}]
           last == e.listeners = {} /\ Live(k)
           X == IF last THEN Leave(k, e) ELSE e
           R == IF last THEN Cancelled(k) ELSE request[k]
<1>1. /\ entry[k] \in Entries /\ request[k] \in [Numbers -> Requests]
      /\ entry' = [entry EXCEPT ![k] = X] /\ request' = [request EXCEPT ![k] = R]
      /\ issued' = issued /\ issued' \in Nat /\ issued' >= issued /\ renders' \in Nat /\ k \in held
      /\ rendered' \in [Keys -> SUBSET Components] /\ entry'[k] = X
      /\ request'[k] = R /\ created \in Nat
  BY DEF Unsubscribe, IInv, TypeOK, componentVars
<1>2. CacheStep(k) /\ held' = held /\ created' = created
  BY Resting DEF Unsubscribe
<1>3. /\ e \in Entries /\ e.id = entry[k].id /\ e.data = entry[k].data
      /\ e.generation = entry[k].generation /\ e.task = entry[k].task
  BY <1>1 DEF Entries
<1>4. KeyInv(k)
  BY DEF IInv
<1>5. CASE last
  <2>0. X = Leave(k, e)
    BY <1>5
  <2>1. /\ X \in Entries /\ X.id = entry[k].id /\ X.data = entry[k].data
        /\ X.generation = entry[k].generation + 1
    <3> DEFINE P == Published(e, e.data, FALSE)
    <3>1. /\ P \in Entries /\ P.id = e.id /\ P.data = e.data
          /\ P.generation = e.generation
      BY <1>3 DEF Published, Entries
    <3> DEFINE T == [P EXCEPT !.generation = P.generation + 1]
    <3>2. T \in Entries /\ T.id = P.id /\ T.data = P.data
          /\ T.generation = P.generation + 1
      BY <3>1, NextGeneration
    <3>3. X = [P EXCEPT !.task = 0, !.generation = P.generation + 1]
      BY <2>0 DEF Leave
    <3>4. X = [T EXCEPT !.task = 0]
      BY <3>3
    <3> HIDE DEF P, X, T
    <3> QED BY <1>3, <3>1, <3>2, <3>4 DEF Entries
  <2>2. R = Cancelled(k) /\ R \in [Numbers -> Requests]
    BY <1>5, CancelFacts
  <2>3. X.data <= issued'
    BY <1>1, <1>4, <2>1 DEF KeyInv
  <2>4. KeyInv(k)'
    <3> HIDE DEF X, R
    <3>1. \A n \in Numbers : request'[k][n] = Cancelled(k)[n]
      BY <1>1, <2>2
    <3>2. /\ entry'[k] \in Entries /\ entry'[k].data <= issued'
          /\ entry'[k].id = entry[k].id
          /\ entry'[k].generation = entry[k].generation + 1
      BY <1>1, <2>1, <2>3
    <3>3. k \in held' /\ created' \in Nat /\ created' >= created
      BY <1>1, <1>2
    <3> QED BY <1>1, <3>1, <3>2, <3>3, Superseded
  <2> QED BY <1>1, <1>2, <2>1, <2>2, <2>4, OneKey
<1>6. CASE ~last
  <2>1. X = e /\ R = request[k]
    BY <1>6
  <2>2. ASSUME NEW n \in Numbers PROVE Wanted(k, n)' /\ Unwanted(k, n)'
    <3>1. Wanted(k, n) /\ Unwanted(k, n)
      BY <1>4 DEF KeyInv
    <3>2. request[k][n].state = "live" => e.listeners # {}
      BY <1>6, <3>1 DEF Wanted, Live, Numbers
    <3> QED BY <1>1, <1>2, <1>3, <2>1, <3>1, <3>2 DEF Wanted, Unwanted
  <2>3. KeyInv(k)'
    BY <1>1, <1>2, <1>3, <1>4, <2>1, <2>2 DEF KeyInv
  <2> QED BY <1>1, <1>2, <1>3, <2>1, <2>3, OneKey
<1> QED BY <1>5, <1>6

(* A task that is current was not cancelled: its result is newer than what *)
(* the entry holds.                                                        *)
LEMMA CurrentIsLive ==
  ASSUME IInv, NEW k \in Keys, NEW n \in Numbers, Current(k, n),
         request[k][n].state \in {"live", "cancelled"}
  PROVE  /\ request[k][n].state = "live" /\ entry[k].task = n
         /\ entry[k].listeners # {} /\ entry[k].data < n /\ n <= issued
<1>1. KeyInv(k) /\ entry[k] \in Entries /\ request[k][n] \in Requests
  BY DEF IInv, TypeOK
<1> QED BY <1>1 DEF KeyInv, Wanted, Unwanted, Current, Entries, Requests

(* The end of a task: the entry may take its result, and no other request  *)
(* changes.                                                                *)
LEMMA TaskEnds ==
  ASSUME IInv, NEW k \in Keys, NEW n \in Numbers,
         NEW state \in {"gaveUp", "ended"}, Ends(k, n, state),
         NEW X \in Entries, entry' = [entry EXCEPT ![k] = X],
         X.id = entry[k].id, X.generation = entry[k].generation,
         X.task = entry[k].task, X.listeners = entry[k].listeners,
         X.data = entry[k].data \/ (X.data = n /\ entry[k].task = n /\ n <= issued),
         CacheStep(k), k \in held => k \in held', k \in held' => k \in held
  PROVE  IInv'
<1> DEFINE Q == [NoRequest EXCEPT !.state = state]
           R == [request[k] EXCEPT ![n] = Q]
<1>1. /\ entry[k] \in Entries /\ request[k] \in [Numbers -> Requests]
      /\ created \in Nat /\ issued \in Nat
  BY DEF IInv, TypeOK
<1>2. Q \in Requests /\ Q.state = state
  BY DEF NoRequest, Requests
<1>3. R \in [Numbers -> Requests]
  BY <1>1, <1>2
<1>4. /\ request' = [request EXCEPT ![k] = R] /\ request'[k] = R /\ entry'[k] = X
      /\ issued' = issued /\ issued' \in Nat /\ issued' >= issued /\ renders' \in Nat
      /\ rendered' \in [Keys -> SUBSET Components]
  BY DEF Ends, IInv, TypeOK, componentVars
<1>5. ASSUME NEW m \in Numbers PROVE Wanted(k, m)' /\ Unwanted(k, m)'
  <2>1. Wanted(k, m) /\ Unwanted(k, m) /\ request[k][m] \in Requests
    BY <1>1 DEF IInv, KeyInv
  <2>2. CASE m = n
    BY <1>1, <1>2, <1>4, <2>2 DEF Wanted, Unwanted
  <2>3. CASE m # n
    <3>1. request'[k][m] = request[k][m]
      BY <1>1, <1>4, <2>3
    <3>2. request[k][m].state = "live" => X.data = entry[k].data
      BY <2>1, <2>3 DEF Wanted
    <3> QED BY <1>1, <1>4, <2>1, <2>3, <3>1, <3>2
            DEF Wanted, Unwanted, CacheStep, Requests, Entries
  <2> QED BY <2>2, <2>3
<1>6. k \in held' => X.data <= issued' /\ X.id <= created'
  BY <1>1, <1>4 DEF IInv, KeyInv, CacheStep, Entries
<1>7. KeyInv(k)'
  BY <1>4, <1>5, <1>6 DEF KeyInv
<1> QED BY <1>1, <1>3, <1>4, <1>7, OneKey

(* A result reaches the entry only while its task is wanted. *)
LEMMA FetchReturnsStep ==
  ASSUME IInv, NEW k \in Keys, NEW n \in Numbers, FetchReturns(k, n)
  PROVE  IInv'
<1> DEFINE X == [Published(entry[k], n, FALSE) EXCEPT !.fresh = TRUE]
<1>0. entry[k] \in Entries /\ n \in Nat /\ Ends(k, n, "ended")
  BY NumbersAreNat DEF FetchReturns, IInv, TypeOK
<1>1. CASE Current(k, n)
  <2>1. /\ request[k][n].state = "live" /\ entry[k].task = n
        /\ entry[k].listeners # {} /\ n <= issued
    BY <1>0, <1>1, CurrentIsLive DEF Ends
  <2>2. CacheStep(k) /\ k \in held' /\ k \in held
    BY <1>1, <2>1, NotifyKey DEF FetchReturns, Current
  <2>3. entry' = [entry EXCEPT ![k] = X]
    BY <1>1 DEF FetchReturns
  <2>4. /\ X \in Entries /\ X.data = n /\ X.id = entry[k].id
        /\ X.generation = entry[k].generation /\ X.task = entry[k].task
        /\ X.listeners = entry[k].listeners
    BY <1>0 DEF Published, Entries
  <2> HIDE DEF X
  <2> QED BY <1>0, <2>1, <2>2, <2>3, <2>4, TaskEnds
<1>2. CASE ~Current(k, n)
  <2>1. entry' = [entry EXCEPT ![k] = entry[k]]
    BY <1>2 DEF FetchReturns, IInv, TypeOK
  <2>2. CacheStep(k) /\ held' = held
    BY <1>2, Resting DEF FetchReturns
  <2> QED BY <1>0, <2>1, <2>2, TaskEnds
<1> QED BY <1>1, <1>2

(* So does an error, which keeps the data. *)
LEMMA FetchRaisesStep ==
  ASSUME IInv, NEW k \in Keys, NEW n \in Numbers, FetchRaises(k, n)
  PROVE  IInv'
<1> DEFINE X == Published(entry[k], entry[k].data, FALSE)
<1>0. entry[k] \in Entries /\ Ends(k, n, "ended")
  BY DEF FetchRaises, IInv, TypeOK
<1>1. CASE Current(k, n)
  <2>1. entry[k].listeners # {}
    BY <1>0, <1>1, CurrentIsLive DEF Ends
  <2>2. CacheStep(k) /\ k \in held' /\ k \in held
    BY <1>1, <2>1, NotifyKey DEF FetchRaises, Current
  <2>3. entry' = [entry EXCEPT ![k] = X]
    BY <1>1 DEF FetchRaises
  <2>4. /\ X \in Entries /\ X.data = entry[k].data /\ X.id = entry[k].id
        /\ X.generation = entry[k].generation /\ X.task = entry[k].task
        /\ X.listeners = entry[k].listeners
    BY <1>0 DEF Published, Entries
  <2> HIDE DEF X
  <2> QED BY <1>0, <2>2, <2>3, <2>4, TaskEnds
<1>2. CASE ~Current(k, n)
  <2>1. entry' = [entry EXCEPT ![k] = entry[k]]
    BY <1>2 DEF FetchRaises, IInv, TypeOK
  <2>2. CacheStep(k) /\ held' = held
    BY <1>2, Resting DEF FetchRaises
  <2> QED BY <1>0, <2>1, <2>2, TaskEnds
<1> QED BY <1>1, <1>2

(* A cancelled task changes nothing in the cache. *)
LEMMA FetchCancelledStep ==
  ASSUME IInv, NEW k \in Keys, NEW n \in Numbers, FetchCancelled(k, n)
  PROVE  IInv'
<1>1. entry[k] \in Entries /\ entry' = [entry EXCEPT ![k] = entry[k]]
  BY DEF FetchCancelled, IInv, TypeOK
<1>2. CacheStep(k) /\ held' = held
  BY Resting DEF FetchCancelled
<1>3. \E state \in {"gaveUp", "ended"} : Ends(k, n, state)
  BY DEF FetchCancelled
<1> QED BY <1>1, <1>2, <1>3, TaskEnds

(* invalidate on one entry. *)
LEMMA RenewedFacts ==
  ASSUME NEW k \in Keys, NEW e \in Entries, issued + 1 \in Numbers \/ e.listeners = {}
  PROVE  /\ Renewed(k, e) \in Entries /\ Renewed(k, e).id = e.id
         /\ Renewed(k, e).data = e.data
         /\ Renewed(k, e).generation = e.generation + 1
         /\ Renewed(k, e).listeners = e.listeners
         /\ e.listeners # {} => Renewed(k, e).task = issued + 1
<1> DEFINE T == [e EXCEPT !.generation = e.generation + 1]
           stale == [e EXCEPT !.generation = e.generation + 1, !.fresh = FALSE, !.task = 0]
<1>1. /\ T \in Entries /\ T.id = e.id /\ T.data = e.data
      /\ T.generation = e.generation + 1 /\ T.listeners = e.listeners
  BY NextGeneration
<1>2. stale = [T EXCEPT !.fresh = FALSE, !.task = 0]
  OBVIOUS
<1>3. Renewed(k, e) = IF e.listeners # {} THEN Fetching(stale) ELSE stale
  BY DEF Renewed
<1> HIDE DEF T, stale
<1>4. /\ stale \in Entries /\ stale.id = e.id /\ stale.data = e.data
      /\ stale.generation = e.generation + 1 /\ stale.listeners = e.listeners
  BY <1>1, <1>2 DEF Entries
<1>5. CASE e.listeners = {}
  BY <1>3, <1>4, <1>5
<1>6. CASE e.listeners # {}
  <2>1. Renewed(k, e) = [stale EXCEPT !.data = stale.data, !.loading = TRUE, !.task = issued + 1]
    BY <1>3, <1>6 DEF Fetching, Published
  <2> QED BY <1>4, <1>6, <2>1 DEF Entries
<1> QED BY <1>5, <1>6

(* Invalidating one key supersedes its request. *)
LEMMA InvalidateStep ==
  ASSUME IInv, NEW k \in Keys, Invalidate(k)
  PROVE  IInv'
<1> DEFINE e == Entered(k, None)
           fetch == e.listeners # {}
           X == Renewed(k, e)
           R == IF fetch THEN Started(Cancelled(k), X) ELSE Cancelled(k)
<1>0. /\ issued \in Nat /\ issued >= 1 /\ created \in Nat
      /\ entry' = [entry EXCEPT ![k] = X] /\ request' = [request EXCEPT ![k] = R]
      /\ fetch => issued <= MaxIssued /\ issued' = issued + 1
      /\ ~fetch => issued' = issued
      /\ renders' \in Nat /\ rendered' \in [Keys -> SUBSET Components]
      /\ entry'[k] = X /\ request'[k] = R
  BY DEF Invalidate, IInv, TypeOK, componentVars
<1>1. /\ e \in Entries /\ (k \in held => e = entry[k])
      /\ (k \notin held => e.id = created + 1 /\ e.data = 0)
  BY EnteredFacts DEF None
<1>2. CacheStep(k) /\ k \in held' /\ (k \notin held => created' = created + 1)
  BY UseKey DEF Invalidate
<1>3. issued' \in Nat /\ issued' >= issued /\ (fetch => issued + 1 \in Numbers)
  BY <1>0, BoundsAssumption DEF Numbers
<1>4. /\ X \in Entries /\ X.id = e.id /\ X.data = e.data
      /\ X.generation = e.generation + 1 /\ X.listeners = e.listeners
      /\ fetch => X.task = issued + 1
  BY <1>1, <1>3, RenewedFacts
<1>5. e.data <= issued
  BY <1>0, <1>1 DEF IInv, KeyInv
<1>6. Cancelled(k) \in [Numbers -> Requests]
  BY CancelFacts
<1>7. R \in [Numbers -> Requests]
  <2>1. [state |-> "live", generation |-> X.generation, id |-> X.id] \in Requests
    BY <1>4 DEF Entries, Requests
  <2> HIDE DEF X
  <2> QED BY <1>3, <1>6, <2>1 DEF Started
<1>8. ASSUME NEW n \in Numbers
      PROVE  \/ R[n] = Cancelled(k)[n]
             \/ /\ R[n] = [state |-> "live", id |-> X.id, generation |-> X.generation]
                /\ n = X.task /\ X.listeners # {} /\ X.data < n /\ n <= issued'
  <2> HIDE DEF X
  <2>1. CASE fetch /\ n = issued + 1
    BY <1>0, <1>1, <1>3, <1>4, <1>5, <1>6, <2>1 DEF Started, Entries
  <2>2. CASE ~(fetch /\ n = issued + 1)
    BY <1>6, <2>2 DEF Started
  <2> QED BY <2>1, <2>2
<1> HIDE DEF X, R, e, fetch
<1>9. X.data <= issued'
  BY <1>0, <1>1, <1>3, <1>4, <1>5 DEF Entries
<1>10. KeyInv(k)'
  <2>1. k \in held => X.id = entry[k].id /\ X.generation = entry[k].generation + 1
    BY <1>1, <1>4
  <2>2. k \notin held => X.id = created + 1 /\ created' = created + 1
    BY <1>1, <1>2, <1>4
  <2>3. created' \in Nat /\ created' >= created
    BY <1>2 DEF CacheStep
  <2> QED BY <1>0, <1>2, <1>3, <1>4, <1>8, <1>9, <2>1, <2>2, <2>3, Superseded
<1> QED BY <1>0, <1>2, <1>3, <1>4, <1>7, <1>10, OneKey

(* So does set_data, which starts none. *)
LEMMA SetDataStep ==
  ASSUME IInv, NEW k \in Keys, SetData(k)
  PROVE  IInv'
<1> DEFINE e == Entered(k, None)
           T == [e EXCEPT !.generation = e.generation + 1]
           P == Published(e, issued + 1, FALSE)
           X == [P EXCEPT !.generation = P.generation + 1, !.task = 0, !.fresh = TRUE]
<1>0. /\ issued \in Nat /\ created \in Nat
      /\ entry' = [entry EXCEPT ![k] = X]
      /\ request' = [request EXCEPT ![k] = Cancelled(k)]
      /\ issued' = issued + 1
      /\ renders' \in Nat /\ rendered' \in [Keys -> SUBSET Components]
      /\ entry'[k] = X /\ request'[k] = Cancelled(k)
  BY DEF SetData, IInv, TypeOK, componentVars
<1>1. /\ e \in Entries /\ (k \in held => e = entry[k])
      /\ (k \notin held => e.id = created + 1)
  BY EnteredFacts DEF None
<1>2. CacheStep(k) /\ k \in held' /\ (k \notin held => created' = created + 1)
  BY UseKey DEF SetData
<1>3. Cancelled(k) \in [Numbers -> Requests]
  BY CancelFacts
<1>4. issued' \in Nat /\ issued' >= issued
  BY <1>0
<1>5. /\ T \in Entries /\ T.id = e.id /\ T.generation = e.generation + 1
  BY <1>1, NextGeneration
<1>6. X = [T EXCEPT !.data = issued + 1, !.loading = FALSE, !.task = 0, !.fresh = TRUE]
  BY <1>1 DEF Published, Entries
<1> HIDE DEF X, T, e, P
<1>7. /\ X \in Entries /\ X.id = e.id /\ X.generation = e.generation + 1
      /\ X.data = issued + 1
  <2>1. issued + 1 \in Nat
    BY <1>0
  <2> QED BY <1>5, <1>6, <2>1 DEF Entries
<1>8. KeyInv(k)'
  <2>1. k \in held => X.id = entry[k].id /\ X.generation = entry[k].generation + 1
    BY <1>1, <1>7
  <2>2. k \notin held => X.id = created + 1 /\ created' = created + 1
    BY <1>1, <1>2, <1>7
  <2>3. created' \in Nat /\ created' >= created
    BY <1>2 DEF CacheStep
  <2>4. X.data <= issued'
    BY <1>0, <1>7
  <2> QED BY <1>0, <1>2, <1>4, <1>7, <2>1, <2>2, <2>3, <2>4, Superseded
<1> QED BY <1>0, <1>2, <1>3, <1>4, <1>7, <1>8, OneKey

(* Invalidating every key supersedes every request. *)
LEMMA InvalidateAllStep ==
  ASSUME IInv, InvalidateAll
  PROVE  IInv'
<1> DEFINE fetch == {k \in held : entry[k].listeners # {}}
<1>0. /\ issued \in Nat /\ issued >= 1 /\ created \in Nat /\ held \subseteq Keys
      /\ \A k \in Keys : entry[k] \in Entries
      /\ fetch # {} => issued <= MaxIssued /\ issued' = issued + 1
      /\ fetch = {} => issued' = issued
      /\ renders' \in Nat /\ rendered' \in [Keys -> SUBSET Components]
  BY DEF InvalidateAll, IInv, TypeOK, componentVars
<1>1. /\ entry' = [k \in Keys |-> IF k \in held THEN Renewed(k, entry[k]) ELSE entry[k]]
      /\ request' = [k \in Keys |-> IF k \in fetch
           THEN Started(Cancelled(k), Renewed(k, entry[k])) ELSE Cancelled(k)]
  BY DEF InvalidateAll
<1>2. issued' \in Nat /\ issued' >= issued /\ (fetch # {} => issued + 1 \in Numbers)
  BY <1>0, BoundsAssumption DEF Numbers
<1>3. /\ held' \subseteq held /\ older' \subseteq held' \X held'
      /\ created' \in Nat /\ created' >= created /\ \A o \in held \ held' : Idle(o)
  <2>1. {k \in held : entry[k].listeners # {}} \in SUBSET Keys
    BY <1>0
  <2> QED BY <2>1, UseFacts DEF InvalidateAll, Notify, IInv
<1>4. ASSUME NEW k \in held
      PROVE  /\ Renewed(k, entry[k]) \in Entries /\ Renewed(k, entry[k]).id = entry[k].id
             /\ Renewed(k, entry[k]).data = entry[k].data
             /\ Renewed(k, entry[k]).generation = entry[k].generation + 1
             /\ Renewed(k, entry[k]).listeners = entry[k].listeners
             /\ k \in fetch => Renewed(k, entry[k]).task = issued + 1
  BY <1>0, <1>2, RenewedFacts
<1>5. entry' \in [Keys -> Entries]
  BY <1>0, <1>1, <1>4
<1>6. ASSUME NEW k \in Keys PROVE request'[k] \in [Numbers -> Requests] /\ KeyInv(k)'
  <2>0. Cancelled(k) \in [Numbers -> Requests]
    BY CancelFacts
  <2>1. CASE k \in held
    <3> DEFINE X == Renewed(k, entry[k])
               Q == [state |-> "live", generation |-> X.generation, id |-> X.id]
    <3>1. /\ X \in Entries /\ X.id = entry[k].id /\ X.data = entry[k].data
          /\ X.generation = entry[k].generation + 1 /\ X.listeners = entry[k].listeners
          /\ k \in fetch => X.task = issued + 1
      BY <1>4, <2>1
    <3>2. entry'[k] = X
      BY <1>1, <2>1
    <3>3. Q \in Requests
      BY <3>1 DEF Entries, Requests
    <3>4. entry[k].data <= issued
      BY <2>1 DEF IInv, KeyInv
    <3>5. created' \in Nat /\ created' >= created
      BY <1>3
    <3> HIDE DEF X
    <3>6. CASE k \in fetch
      <4>1. request'[k] = [Cancelled(k) EXCEPT ![issued + 1] = Q]
        BY <1>1, <3>6 DEF Started, X
      <4>2. k \in held'
        BY <1>3, <2>1, <3>6 DEF Idle
      <4>3. X.task = issued + 1 /\ X.data < issued + 1 /\ issued' = issued + 1
            /\ issued + 1 \in Numbers /\ X.listeners # {} /\ X.data <= issued'
        BY <1>0, <1>2, <2>1, <3>1, <3>4, <3>6 DEF Entries
      <4>4. ASSUME NEW n \in Numbers
            PROVE  \/ request'[k][n] = Cancelled(k)[n]
                   \/ /\ request'[k][n] = [state |-> "live", id |-> X.id,
                                           generation |-> X.generation]
                      /\ n = X.task /\ X.listeners # {} /\ k \in held'
                      /\ X.data < n /\ n <= issued'
        BY <2>0, <4>1, <4>2, <4>3
      <4>5. KeyInv(k)'
        BY <1>2, <2>1, <3>1, <3>2, <3>5, <4>3, <4>4, Superseded
      <4> QED BY <2>0, <3>3, <4>1, <4>3, <4>5
    <3>7. CASE k \notin fetch
      <4>1. request'[k] = Cancelled(k)
        BY <1>1, <3>7
      <4>2. X.data <= issued'
        BY <1>0, <1>2, <2>1, <3>1, <3>4 DEF Entries
      <4>3. \A n \in Numbers : request'[k][n] = Cancelled(k)[n]
        BY <4>1
      <4> QED BY <1>2, <2>0, <2>1, <3>1, <3>2, <3>5, <4>1, <4>2, <4>3, Superseded
    <3> QED BY <3>6, <3>7
  <2>2. CASE k \notin held
    <3>1. entry'[k] = entry[k] /\ request'[k] = request[k]
      BY <1>1, <2>2 DEF Cancelled
    <3> QED BY <1>2, <1>3, <2>0, <2>2, <3>1, Untouched DEF IInv, TypeOK
  <2> QED BY <2>1, <2>2
<1>7. request' \in [Keys -> [Numbers -> Requests]]
  BY <1>1, <1>6
<1> QED BY <1>0, <1>2, <1>3, <1>5, <1>6, <1>7 DEF IInv, TypeOK

(* Every step of the cache and its components keeps the invariant.         *)
LEMMA NextIInv == IInv /\ [Next]_vars => IInv'
<1> SUFFICES ASSUME IInv, [Next]_vars PROVE IInv'
  OBVIOUS
<1>1. CASE UNCHANGED vars
  BY <1>1 DEF vars, cacheVars, componentVars, IInv, TypeOK, KeyInv, Wanted, Unwanted
<1>2. CASE \E c \in Components, k \in Keys :
             Render(c, k) \/ Subscribe(c, k) \/ Abandon(c, k) \/ Unsubscribe(c, k)
  BY <1>2, RenderStep, SubscribeStep, AbandonStep, UnsubscribeStep
<1>3. CASE \E k \in Keys : Read(k) \/ Invalidate(k) \/ SetData(k) \/ Expire(k)
  BY <1>3, ReadStep, InvalidateStep, SetDataStep, ExpireStep
<1>4. CASE \E k \in Keys, n \in Numbers :
             FetchReturns(k, n) \/ FetchRaises(k, n) \/ FetchCancelled(k, n)
  BY <1>4, FetchReturnsStep, FetchRaisesStep, FetchCancelledStep
<1>5. CASE InvalidateAll
  BY <1>5, InvalidateAllStep
<1> QED BY <1>1, <1>2, <1>3, <1>4, <1>5 DEF Next

(* A task that is still wanted matches its entry; one that is not never    *)
(* will again.                                                             *)
THEOREM QInvariant == Spec => []IInv
<1>1. Init => IInv
  BY QInit
<1>2. IInv /\ [Next]_vars => IInv'
  BY NextIInv
<1> QED BY <1>1, <1>2, PTL DEF Spec

(* The variables of the cache keep their types. *)
THEOREM QTypeCorrect == Spec => []TypeOK
<1>1. IInv => TypeOK
  BY DEF IInv
<1> QED BY <1>1, QInvariant, PTL

(* Requests are shared: a live request is the one of its entry, and there  *)
(* is a subscriber.                                                        *)
THEOREM QOneRequest == Spec => []OneSharedRequest
<1>1. IInv => OneSharedRequest
  BY DEF IInv, KeyInv, Wanted, OneSharedRequest
<1> QED BY <1>1, QInvariant, PTL

(* No step replaces data by data asked for earlier. *)
LEMMA DataStep ==
  ASSUME IInv, [Next]_vars, NEW k \in held \cap held', entry'[k].id = entry[k].id
  PROVE  entry'[k].data >= entry[k].data
<1>0. /\ k \in Keys /\ k \in held /\ entry[k] \in Entries /\ entry[k].data <= issued
      /\ issued \in Nat /\ \A o \in Keys : entry[o] \in Entries
  BY DEF IInv, TypeOK, KeyInv
<1>1. entry[k].data >= entry[k].data
  BY <1>0 DEF Entries
<1>2. /\ UNCHANGED vars => entry'[k].data >= entry[k].data
      /\ \A c \in Components, o \in Keys : Abandon(c, o) => entry'[k].data >= entry[k].data
      /\ \A o \in Keys : Read(o) => entry'[k].data >= entry[k].data
  BY <1>1 DEF vars, Abandon, Read
<1>3. ASSUME NEW c \in Components, NEW o \in Keys, Render(c, o)
      PROVE  entry'[k].data >= entry[k].data
  BY <1>0, <1>1, <1>3 DEF Render, Entered, IInv, TypeOK
<1>4. ASSUME NEW c \in Components, NEW o \in Keys, Subscribe(c, o)
      PROVE  entry'[k].data >= entry[k].data
  <2> DEFINE e == [Entered(o, None) EXCEPT !.listeners = @ \cup {c}]
  <2>1. entry' = [entry EXCEPT ![o] = e] \/ entry' = [entry EXCEPT ![o] = Fetching(e)]
    BY <1>4 DEF Subscribe
  <2>2. o = k => e.data = entry[k].data /\ Fetching(e).data = e.data
    BY <1>0 DEF Entered, Fetching, Published, Entries
  <2> HIDE DEF e
  <2> QED BY <1>0, <1>1, <2>1, <2>2 DEF IInv, TypeOK
<1>5. ASSUME NEW c \in Components, NEW o \in Keys, Unsubscribe(c, o)
      PROVE  entry'[k].data >= entry[k].data
  <2> DEFINE e == [entry[o] EXCEPT !.listeners = @ \ {c}]
  <2>1. entry' = [entry EXCEPT ![o] = e] \/ entry' = [entry EXCEPT ![o] = Leave(o, e)]
    BY <1>5 DEF Unsubscribe
  <2>2. e.data = entry[o].data /\ Leave(o, e).data = e.data
    BY <1>0 DEF Leave, Published, Entries
  <2> HIDE DEF e
  <2> QED BY <1>0, <1>1, <2>1, <2>2 DEF IInv, TypeOK
<1>6. ASSUME NEW o \in Keys, NEW n \in Numbers, FetchReturns(o, n)
      PROVE  entry'[k].data >= entry[k].data
  <2>1. CASE ~Current(o, n) \/ o # k
    BY <1>1, <1>6, <2>1 DEF FetchReturns, IInv, TypeOK
  <2>2. CASE Current(o, n) /\ o = k
    <3>1. entry[k].data < n /\ n \in Nat
      BY <1>6, <2>2, CurrentIsLive, NumbersAreNat DEF FetchReturns, Ends
    <3>2. entry'[k].data = n
      BY ZenonT(40), <1>0, <1>6, <2>2 DEF FetchReturns, Published, IInv, TypeOK, Entries
    <3> QED BY <1>0, <3>1, <3>2 DEF Entries
  <2> QED BY <2>1, <2>2
<1>7. ASSUME NEW o \in Keys, NEW n \in Numbers, FetchRaises(o, n) \/ FetchCancelled(o, n)
      PROVE  entry'[k].data >= entry[k].data
  <2> DEFINE X == Published(entry[o], entry[o].data, FALSE)
  <2>1. entry' = entry \/ entry' = [entry EXCEPT ![o] = X]
    BY <1>7 DEF FetchRaises, FetchCancelled
  <2>2. X.data = entry[o].data
    BY <1>0 DEF Published, Entries
  <2> HIDE DEF X
  <2> QED BY <1>0, <1>1, <2>1, <2>2 DEF IInv, TypeOK
<1>8. ASSUME NEW o \in Keys, Invalidate(o) PROVE entry'[k].data >= entry[k].data
  <2>1. entry' = [entry EXCEPT ![o] = Renewed(o, Entered(o, None))]
    BY <1>8 DEF Invalidate
  <2>2. o = k => Renewed(o, Entered(o, None)).data = entry[k].data
    BY <1>0 DEF Entered, Renewed, Fetching, Published, Entries
  <2> QED BY <1>0, <1>1, <2>1, <2>2 DEF IInv, TypeOK
<1>9. ASSUME NEW o \in Keys, SetData(o) PROVE entry'[k].data >= entry[k].data
  <2> DEFINE P == Published(Entered(o, None), issued + 1, FALSE)
             X == [P EXCEPT !.generation = @ + 1, !.task = 0, !.fresh = TRUE]
  <2>1. entry' = [entry EXCEPT ![o] = X]
    BY <1>9 DEF SetData
  <2>2. o = k => X.data = issued + 1
    BY <1>0 DEF Entered, Published, Entries
  <2> HIDE DEF X
  <2> QED BY <1>0, <1>1, <2>1, <2>2 DEF IInv, TypeOK, Entries
<1>10. ASSUME NEW o \in Keys, Expire(o) PROVE entry'[k].data >= entry[k].data
  BY <1>0, <1>1, <1>10 DEF Expire, IInv, TypeOK, Entries
<1>11. CASE InvalidateAll
  <2>1. entry'[k] = Renewed(k, entry[k])
    BY <1>0, <1>11 DEF InvalidateAll
  <2>2. Renewed(k, entry[k]).data = entry[k].data
    BY <1>0 DEF Renewed, Fetching, Published, Entries
  <2> QED BY <1>1, <2>1, <2>2
<1> QED BY <1>2, <1>3, <1>4, <1>5, <1>6, <1>7, <1>8, <1>9, <1>10, <1>11 DEF Next

(* Superseded answers change nothing, for any number of keys and callers. *)
THEOREM QDataNeverGoesBack == Spec => DataNeverGoesBack
<1>1. IInv /\ [Next]_vars =>
        [\A k \in held \cap held' :
           entry'[k].id = entry[k].id => entry'[k].data >= entry[k].data]_vars
  BY DataStep
<1> QED BY <1>1, QInvariant, PTL DEF Spec, DataNeverGoesBack

----------------------------------------------------------------------------
(* What subscribers see of an entry: loading exactly while a request is    *)
(* under way.                                                              *)
(* What an entry says of its request: fresh data is not being loaded, a    *)
(* live request is shown, and what is shown to subscribers is either under *)
(* way or was given up by the fetcher itself.                              *)
Settled(k) ==
  k \in held =>
    /\ entry[k].fresh => ~entry[k].loading
    /\ Live(k) => entry[k].loading
    /\ entry[k].listeners # {} /\ entry[k].loading /\ ~Live(k) =>
         entry[k].task # 0 /\ request[k][entry[k].task].state = "gaveUp"

AllSettled == \A k \in Keys : Settled(k)

(* A step that changes the entry and the requests of one key, and lets in  *)
(* no other, keeps what holds of the others.                               *)
LEMMA OtherKeys ==
  ASSUME IInv, AllSettled, NEW k \in Keys, held' \subseteq held \cup {k}, NEW X, NEW R,
         entry' = [entry EXCEPT ![k] = X], request' = [request EXCEPT ![k] = R],
         entry'[k] = X /\ request'[k] = R => Settled(k)'
  PROVE  AllSettled'
<1>1. entry'[k] = X /\ request'[k] = R
  BY DEF IInv, TypeOK
<1>2. ASSUME NEW o \in Keys, o # k PROVE Settled(o)'
  <2>1. entry'[o] = entry[o] /\ request'[o] = request[o] /\ Settled(o) /\ (o \in held' => o \in held)
    BY <1>2 DEF IInv, TypeOK, AllSettled
  <2> QED BY <2>1 DEF Settled, Live
<1> QED BY <1>1, <1>2 DEF AllSettled

(* Steps that change neither entries nor requests, and let no key in.      *)
LEMMA NothingSettled ==
  ASSUME AllSettled, held' \subseteq held, entry' = entry, request' = request
  PROVE  AllSettled'
BY DEF AllSettled, Settled, Live

(* An entry without a task, or whose task has ended, is settled once it is *)
(* not loading.                                                            *)
LEMMA NotLoading ==
  ASSUME NEW k \in Keys, ~entry'[k].loading, ~Live(k)'
  PROVE  Settled(k)'
BY DEF Settled

LEMMA SettledRender ==
  ASSUME IInv, AllSettled, NEW c \in Components, NEW k \in Keys, Render(c, k)
  PROVE  AllSettled'
<1>1. held' \subseteq held \cup {k}
  BY UseKey DEF Render, CacheStep
<1>2. entry' = [entry EXCEPT ![k] = Entered(k, Initial)] /\ request' = [request EXCEPT ![k] = request[k]]
  BY DEF Render, IInv, TypeOK
<1>3. ASSUME entry'[k] = Entered(k, Initial), request'[k] = request[k] PROVE Settled(k)'
  <2>1. CASE k \in held
    BY <1>3, <2>1 DEF AllSettled, Settled, Live, Entered
  <2>2. CASE k \notin held
    <3>1. /\ ~entry'[k].fresh /\ entry'[k].task = 0 /\ entry'[k].listeners = {}
      BY <1>3, <2>2 DEF Entered, NewEntry
    <3> QED BY <3>1 DEF Settled, Live
  <2> QED BY <2>1, <2>2
<1> QED BY <1>1, <1>2, <1>3, OtherKeys

LEMMA SettledSubscribe ==
  ASSUME IInv, AllSettled, NEW c \in Components, NEW k \in Keys, Subscribe(c, k)
  PROVE  AllSettled'
<1> DEFINE e == [Entered(k, None) EXCEPT !.listeners = @ \cup {c}]
           fetch == ~e.fresh /\ ~(k \in held /\ Live(k))
           X == IF fetch THEN Fetching(e) ELSE e
           R == IF fetch THEN Started(request[k], e) ELSE request[k]
<1>1. held' \subseteq held \cup {k}
  BY UseKey DEF Subscribe, CacheStep
<1>2. /\ entry' = [entry EXCEPT ![k] = X] /\ request' = [request EXCEPT ![k] = R]
      /\ fetch => issued <= MaxIssued
      /\ issued \in Nat /\ issued >= 1 /\ request[k] \in [Numbers -> Requests] /\ entry[k] \in Entries
  BY DEF Subscribe, IInv, TypeOK
<1>3. /\ Entered(k, None) \in Entries /\ (k \in held => Entered(k, None) = entry[k])
      /\ k \notin held => ~Entered(k, None).fresh
  BY EnteredFacts DEF None
<1>4. /\ e.fresh = Entered(k, None).fresh /\ e.loading = Entered(k, None).loading
      /\ e.task = Entered(k, None).task
  BY <1>3 DEF Entries
<1>5. ASSUME entry'[k] = X, request'[k] = R PROVE Settled(k)'
  <2>1. CASE fetch
    <3>1. issued + 1 \in Numbers /\ issued + 1 # 0
      BY <1>2, <2>1, BoundsAssumption DEF Numbers
    <3>2. /\ X.task = issued + 1 /\ X.loading = TRUE /\ X.fresh = e.fresh
      BY <1>3, <2>1 DEF Fetching, Published, Entries
    <3>3. R[issued + 1].state = "live"
      BY <1>2, <2>1, <3>1 DEF Started
    <3>4. Live(k)'
      BY <1>5, <3>1, <3>2, <3>3 DEF Live
    <3> QED BY <1>5, <2>1, <3>2, <3>4 DEF Settled
  <2>2. CASE ~fetch
    <3>1. k \in held /\ Settled(k) /\ (e.fresh \/ Live(k))
      BY <1>3, <1>4, <2>2 DEF AllSettled
    <3>2. /\ entry'[k].fresh = entry[k].fresh /\ entry'[k].loading = entry[k].loading
          /\ entry'[k].task = entry[k].task /\ request'[k] = request[k] /\ e.fresh = entry[k].fresh
      BY <1>3, <1>4, <1>5, <2>2, <3>1
    <3>3. Live(k)' <=> Live(k)
      BY <3>2 DEF Live
    <3> QED BY <3>1, <3>2, <3>3 DEF Settled
  <2> QED BY <2>1, <2>2
<1> HIDE DEF X, R
<1> QED BY <1>1, <1>2, <1>5, OtherKeys

LEMMA SettledUnsubscribe ==
  ASSUME IInv, AllSettled, NEW c \in Components, NEW k \in Keys, Unsubscribe(c, k)
  PROVE  AllSettled'
<1> DEFINE e == [entry[k] EXCEPT !.listeners = @ \ {c}]
           last == e.listeners = {} /\ Live(k)
           X == IF last THEN Leave(k, e) ELSE e
           R == IF last THEN Cancelled(k) ELSE request[k]
<1>1. /\ entry' = [entry EXCEPT ![k] = X] /\ request' = [request EXCEPT ![k] = R]
      /\ held' \subseteq held \cup {k} /\ entry[k] \in Entries /\ Settled(k) /\ k \in held
      /\ c \in entry[k].listeners
  BY DEF Unsubscribe, cacheVars, IInv, TypeOK, AllSettled
<1>2. ASSUME entry'[k] = X, request'[k] = R PROVE Settled(k)'
  <2>1. CASE last
    <3>1. X.task = 0 /\ X.loading = FALSE
      BY <1>1, <2>1 DEF Leave, Published, Entries
    <3> QED BY <1>2, <3>1, NotLoading DEF Live
  <2>2. CASE ~last
    <3>1. /\ X.fresh = entry[k].fresh /\ X.loading = entry[k].loading /\ X.task = entry[k].task
          /\ R = request[k]
      BY <1>1, <2>2 DEF Entries
    <3>2. Live(k)' <=> Live(k)
      BY <1>2, <3>1 DEF Live
    <3>3. entry'[k].listeners # {} => entry[k].listeners # {}
      BY <1>1
    <3> QED BY <1>1, <1>2, <3>1, <3>2, <3>3 DEF Settled
  <2> QED BY <2>1, <2>2
<1> HIDE DEF X, R
<1> QED BY <1>1, <1>2, OtherKeys

(* The end of a task that is not current: no entry shows it. *)
LEMMA SettledStale ==
  ASSUME IInv, AllSettled, NEW k \in Keys, NEW n \in Numbers, ~Current(k, n),
         Ends(k, n, "ended"), entry' = entry, held' = held
  PROVE  AllSettled'
<1> DEFINE R == [request[k] EXCEPT ![n] = [NoRequest EXCEPT !.state = "ended"]]
<1>1. /\ entry' = [entry EXCEPT ![k] = entry[k]] /\ request' = [request EXCEPT ![k] = R]
      /\ request[k] \in [Numbers -> Requests] /\ Settled(k) /\ entry[k] \in Entries
      /\ request[k][n].state \in {"live", "cancelled"}
  BY DEF Ends, IInv, TypeOK, AllSettled
<1>2. request[k][n].state = "cancelled"
  BY <1>1 DEF IInv, KeyInv, Wanted, Current
<1>3. ASSUME entry'[k] = entry[k], request'[k] = R PROVE Settled(k)'
  <2>1. ~Live(k)' <=> ~Live(k)
    <3>1. entry[k].task # 0 => entry[k].task \in Numbers
      BY <1>1 DEF Entries
    <3>2. R[n].state = "ended" /\ \A m \in Numbers : m # n => R[m] = request[k][m]
      BY <1>1 DEF NoRequest
    <3> QED BY <1>2, <1>3, <3>1, <3>2 DEF Live
  <2>2. entry[k].task \in Numbers \ {n} => R[entry[k].task] = request[k][entry[k].task]
    BY <1>1
  <2>3. entry[k].task # 0 => entry[k].task \in Numbers
    BY <1>1 DEF Entries
  <2> QED BY <1>1, <1>2, <1>3, <2>1, <2>2, <2>3 DEF Settled
<1> HIDE DEF R
<1> QED BY <1>1, <1>3, OtherKeys

(* A result or an error that is current ends the loading. *)
LEMMA SettledCurrent ==
  ASSUME IInv, AllSettled, NEW k \in Keys, NEW n \in Numbers, Current(k, n),
         Ends(k, n, "ended"), NEW X, entry' = [entry EXCEPT ![k] = X],
         ~X.loading, X.task = entry[k].task, held' \subseteq held \cup {k}
  PROVE  AllSettled'
<1> DEFINE R == [request[k] EXCEPT ![n] = [NoRequest EXCEPT !.state = "ended"]]
<1>1. /\ request' = [request EXCEPT ![k] = R] /\ request[k] \in [Numbers -> Requests]
      /\ entry[k].task = n
  BY CurrentIsLive DEF Ends, IInv, TypeOK
<1>2. R[n].state = "ended"
  BY <1>1 DEF NoRequest
<1>3. ASSUME entry'[k] = X, request'[k] = R PROVE Settled(k)'
  BY <1>1, <1>2, <1>3, NotLoading DEF Live
<1> HIDE DEF R
<1> QED BY <1>1, <1>3, OtherKeys

LEMMA SettledEnds ==
  ASSUME IInv, AllSettled, NEW k \in Keys, NEW n \in Numbers,
         FetchReturns(k, n) \/ FetchRaises(k, n)
  PROVE  AllSettled'
<1>1. Ends(k, n, "ended") /\ entry[k] \in Entries
  BY DEF FetchReturns, FetchRaises, IInv, TypeOK
<1>2. CASE ~Current(k, n)
  BY <1>1, <1>2, SettledStale DEF FetchReturns, FetchRaises, cacheVars
<1>3. CASE Current(k, n)
  <2>1. k \in held /\ entry[k].listeners # {}
    BY <1>1, <1>3, CurrentIsLive DEF Current, Ends
  <2>2. held' \subseteq held \cup {k}
    BY <1>3, <2>1, NotifyKey DEF FetchReturns, FetchRaises, CacheStep
  <2>3. CASE FetchReturns(k, n)
    <3> DEFINE X == [Published(entry[k], n, FALSE) EXCEPT !.fresh = TRUE]
    <3>1. entry' = [entry EXCEPT ![k] = X]
      BY <1>3, <2>3 DEF FetchReturns
    <3>2. ~X.loading /\ X.task = entry[k].task
      BY <1>1 DEF Published, Entries
    <3> HIDE DEF X
    <3> QED BY <1>1, <1>3, <2>2, <3>1, <3>2, SettledCurrent
  <2>4. CASE FetchRaises(k, n)
    <3> DEFINE X == Published(entry[k], entry[k].data, FALSE)
    <3>1. entry' = [entry EXCEPT ![k] = X]
      BY <1>3, <2>4 DEF FetchRaises
    <3>2. ~X.loading /\ X.task = entry[k].task
      BY <1>1 DEF Published, Entries
    <3> HIDE DEF X
    <3> QED BY <1>1, <1>3, <2>2, <3>1, <3>2, SettledCurrent
  <2> QED BY <2>3, <2>4
<1> QED BY <1>2, <1>3

(* A fetcher that was itself cancelled leaves its entry loading, given up. *)
LEMMA SettledCancelled ==
  ASSUME IInv, AllSettled, NEW k \in Keys, NEW n \in Numbers, FetchCancelled(k, n)
  PROVE  AllSettled'
<1> DEFINE s == IF request[k][n].state = "live" THEN "gaveUp" ELSE "ended"
           R == [request[k] EXCEPT ![n] = [NoRequest EXCEPT !.state = s]]
<1>1. /\ entry' = [entry EXCEPT ![k] = entry[k]] /\ request' = [request EXCEPT ![k] = R]
      /\ request[k] \in [Numbers -> Requests] /\ Settled(k) /\ entry[k] \in Entries
      /\ request[k][n].state \in {"live", "cancelled"} /\ held' \subseteq held \cup {k} /\ held' = held
  BY DEF FetchCancelled, Ends, IInv, TypeOK, AllSettled, cacheVars
<1>2. R[n].state = s /\ \A m \in Numbers : m # n => R[m] = request[k][m]
  BY <1>1 DEF NoRequest
<1>3. ASSUME entry'[k] = entry[k], request'[k] = R PROVE Settled(k)'
  <2>1. entry[k].task # 0 => entry[k].task \in Numbers
    BY <1>1 DEF Entries
  <2>2. CASE entry[k].task = n /\ request[k][n].state = "live"
    <3>1. n # 0 /\ Live(k) /\ R[n].state = "gaveUp"
      BY <1>2, <2>2 DEF Live, Numbers
    <3> QED BY <1>1, <1>3, <2>2, <3>1 DEF Settled, Live
  <2>3. CASE ~(entry[k].task = n /\ request[k][n].state = "live")
    <3>1. Live(k)' <=> Live(k)
      BY <1>1, <1>2, <1>3, <2>1, <2>3 DEF Live
    <3>2. entry[k].task \in Numbers \ {n} => R[entry[k].task] = request[k][entry[k].task]
      BY <1>2
    <3>3. entry[k].task = n => request[k][n].state = "cancelled"
      BY <1>1, <2>3
    <3> QED BY <1>1, <1>3, <2>1, <3>1, <3>2, <3>3 DEF Settled
  <2> QED BY <2>2, <2>3
<1> HIDE DEF R
<1> QED BY <1>1, <1>3, OtherKeys

(* A renewed entry is under way, or has no task and no subscriber. *)
LEMMA SettledRenewed ==
  ASSUME IInv, NEW k \in Keys, NEW e \in Entries, issued + 1 \in Numbers \/ e.listeners = {},
         entry'[k] = Renewed(k, e),
         e.listeners # {} => request'[k] = Started(Cancelled(k), Renewed(k, e))
  PROVE  Settled(k)'
<1>1. CASE e.listeners = {}
  <2>1. /\ ~Renewed(k, e).fresh /\ Renewed(k, e).task = 0 /\ Renewed(k, e).listeners = {}
    BY <1>1 DEF Renewed, Entries
  <2> QED BY <2>1 DEF Settled, Live
<1>2. CASE e.listeners # {}
  <2>1. /\ ~Renewed(k, e).fresh /\ Renewed(k, e).task = issued + 1 /\ Renewed(k, e).loading = TRUE
    BY <1>2 DEF Renewed, Fetching, Published, Entries
  <2>2. Cancelled(k) \in [Numbers -> Requests]
    BY CancelFacts
  <2>3. request'[k][issued + 1].state = "live"
    <3> DEFINE R == Cancelled(k)
               F == [state |-> "live", generation |-> Renewed(k, e).generation, id |-> Renewed(k, e).id]
    <3>1. request'[k] = [R EXCEPT ![issued + 1] = F]
      BY <1>2 DEF Started
    <3>2. issued + 1 \in DOMAIN R
      BY <1>2, <2>2
    <3>3. F.state = "live"
      OBVIOUS
    <3> HIDE DEF R, F
    <3> QED BY <3>1, <3>2, <3>3
  <2>4. issued + 1 # 0
    BY DEF IInv, TypeOK
  <2> QED BY <2>1, <2>3, <2>4 DEF Settled, Live
<1> QED BY <1>1, <1>2

LEMMA SettledInvalidate ==
  ASSUME IInv, AllSettled, NEW k \in Keys, Invalidate(k)
  PROVE  AllSettled'
<1> DEFINE e == Entered(k, None)
           X == Renewed(k, e)
           R == IF e.listeners # {} THEN Started(Cancelled(k), X) ELSE Cancelled(k)
<1>1. /\ entry' = [entry EXCEPT ![k] = X] /\ request' = [request EXCEPT ![k] = R]
      /\ e.listeners # {} => issued <= MaxIssued
      /\ issued \in Nat /\ issued >= 1
  BY DEF Invalidate, IInv, TypeOK
<1>2. held' \subseteq held \cup {k}
  BY UseKey DEF Invalidate, CacheStep
<1>3. e \in Entries
  BY EnteredFacts DEF None
<1>4. issued + 1 \in Numbers \/ e.listeners = {}
  BY <1>1, BoundsAssumption DEF Numbers
<1>5. entry'[k] = X /\ request'[k] = R => Settled(k)'
  BY <1>3, <1>4, SettledRenewed
<1> HIDE DEF X, R
<1> QED BY <1>1, <1>2, <1>5, OtherKeys

LEMMA SettledSetData ==
  ASSUME IInv, AllSettled, NEW k \in Keys, SetData(k)
  PROVE  AllSettled'
<1> DEFINE P == Published(Entered(k, None), issued + 1, FALSE)
           X == [P EXCEPT !.generation = @ + 1, !.task = 0, !.fresh = TRUE]
<1>1. entry' = [entry EXCEPT ![k] = X] /\ request' = [request EXCEPT ![k] = Cancelled(k)]
  BY DEF SetData
<1>2. held' \subseteq held \cup {k}
  BY UseKey DEF SetData, CacheStep
<1>3. Entered(k, None) \in Entries
  BY EnteredFacts DEF None
<1>4. X.task = 0 /\ ~X.loading
  BY <1>3 DEF Published, Entries
<1>5. entry'[k] = X => Settled(k)'
  BY <1>4, NotLoading DEF Live
<1> HIDE DEF X
<1> QED BY <1>1, <1>2, <1>5, OtherKeys

LEMMA SettledExpire ==
  ASSUME IInv, AllSettled, NEW k \in Keys, Expire(k)
  PROVE  AllSettled'
<1> DEFINE X == [entry[k] EXCEPT !.fresh = FALSE]
<1>1. /\ entry' = [entry EXCEPT ![k] = X] /\ request' = [request EXCEPT ![k] = request[k]]
      /\ held' = held /\ entry[k] \in Entries /\ Settled(k)
  BY DEF Expire, cacheVars, IInv, TypeOK, AllSettled
<1>2. /\ ~X.fresh /\ X.loading = entry[k].loading /\ X.task = entry[k].task
      /\ X.listeners = entry[k].listeners
  BY <1>1 DEF Entries
<1>3. entry'[k] = X /\ request'[k] = request[k] => Settled(k)'
  BY <1>1, <1>2 DEF Settled, Live
<1> HIDE DEF X
<1> QED BY <1>1, <1>3, OtherKeys

LEMMA SettledInvalidateAll ==
  ASSUME IInv, AllSettled, InvalidateAll
  PROVE  AllSettled'
<1>1. /\ \A k \in Keys : entry[k] \in Entries
      /\ held \subseteq Keys /\ issued \in Nat /\ issued >= 1
  BY DEF IInv, TypeOK
<1>2. held' \subseteq held
  <2> DEFINE ks == {k \in held : entry[k].listeners # {}}
  <2>1. Use(ks) /\ ks \in SUBSET Keys
    BY <1>1 DEF InvalidateAll, Notify
  <2>2. held' \subseteq held \cup ks
    BY <2>1, UseFacts DEF IInv
  <2> QED BY <2>2
<1>3. ASSUME NEW k \in Keys, k \in held PROVE Settled(k)'
  <2>1. entry'[k] = Renewed(k, entry[k])
    BY <1>3 DEF InvalidateAll
  <2>2. entry[k].listeners # {} =>
          request'[k] = Started(Cancelled(k), Renewed(k, entry[k])) /\ issued <= MaxIssued
    BY <1>3 DEF InvalidateAll
  <2>3. issued + 1 \in Numbers \/ entry[k].listeners = {}
    BY <1>1, <2>2, BoundsAssumption DEF Numbers
  <2> QED BY <1>1, <2>1, <2>2, <2>3, SettledRenewed
<1> QED BY <1>2, <1>3 DEF AllSettled, Settled

LEMMA SettledNext == IInv /\ AllSettled /\ [Next]_vars => AllSettled'
<1> SUFFICES ASSUME IInv, AllSettled, [Next]_vars PROVE AllSettled'
  OBVIOUS
<1>1. CASE UNCHANGED vars
  BY <1>1, NothingSettled DEF vars, cacheVars
<1>2. CASE \E c \in Components, k \in Keys : Abandon(c, k)
  BY <1>2, NothingSettled DEF Abandon, cacheVars
<1>3. CASE \E c \in Components, k \in Keys :
             Render(c, k) \/ Subscribe(c, k) \/ Unsubscribe(c, k)
  BY <1>3, SettledRender, SettledSubscribe, SettledUnsubscribe
<1>4. ASSUME NEW k \in Keys, Read(k) PROVE AllSettled'
  <2>1. held' \subseteq held
    BY <1>4, UseKey DEF Read, CacheStep
  <2> QED BY <1>4, <2>1, NothingSettled DEF Read
<1>5. CASE \E k \in Keys : Invalidate(k) \/ SetData(k) \/ Expire(k)
  BY <1>5, SettledInvalidate, SettledSetData, SettledExpire
<1>6. CASE \E k \in Keys, n \in Numbers :
             FetchReturns(k, n) \/ FetchRaises(k, n) \/ FetchCancelled(k, n)
  BY <1>6, SettledEnds, SettledCancelled
<1>7. CASE InvalidateAll
  BY <1>7, SettledInvalidateAll
<1> QED BY <1>1, <1>2, <1>3, <1>4, <1>5, <1>6, <1>7 DEF Next

(* A subscriber sees loading exactly while a request is under way, except  *)
(* after a fetcher that was itself cancelled: for any number of keys,      *)
(* subscribers and requests (query.py, _fetch and run).                    *)
THEOREM QLoadingHasRequest == Spec => []LoadingHasRequest
<1>1. Init => AllSettled
  BY DEF Init, AllSettled, Settled
<1>2. IInv /\ AllSettled /\ [Next]_vars => AllSettled'
  BY SettledNext
<1>3. IInv /\ AllSettled => LoadingHasRequest
  <2> SUFFICES ASSUME IInv, AllSettled, NEW k \in held, entry[k].listeners # {}
               PROVE \/ entry[k].loading <=> Live(k)
                     \/ entry[k].loading /\ entry[k].task # 0
                        /\ request[k][entry[k].task].state = "gaveUp"
    BY DEF LoadingHasRequest
  <2>1. Settled(k)
    BY DEF AllSettled, IInv, TypeOK
  <2> QED BY <2>1 DEF Settled
<1> QED BY <1>1, <1>2, <1>3, QInvariant, PTL DEF Spec

----------------------------------------------------------------------------
(* The bound of the cache.  The entries are in a strict order, and an idle *)
(* entry stays only when those before it were enough to make the room.     *)

(* The entries are finitely many, strictly ordered. *)
Order ==
  /\ IsFiniteSet(held)
  /\ \A p \in held : <<p, p>> \notin older
  /\ \A p, q, r \in held : <<p, q>> \in older /\ <<q, r>> \in older => <<p, r>> \in older

(* The keys a step uses: keys that are held, or one. *)
UsesKeys ==
  \E ks \in SUBSET Keys : Use(ks) /\ (ks \subseteq held \/ \E k \in Keys : ks = {k})

(* A set of numbers has a least one. *)
LEMMA LeastNumber ==
  ASSUME NEW S \in SUBSET Nat, S # {}
  PROVE  \E m \in S : \A n \in S : m <= n
<1>1. PICK m \in S : \A n \in S : ~(<<n, m>> \in OpToRel(<, Nat))
  BY NatLessThanWellFounded, WFMin
<1>2. \A n \in S : ~(n < m)
  BY <1>1 DEF OpToRel
<1> QED BY <1>2

(* A publication is read by its listeners, whose entry is there. *)
LEMMA NotifyUses ==
  ASSUME TypeOK, NEW ks \in SUBSET held, Notify(ks)
  PROVE  UsesKeys
<1> DEFINE heard == {k \in ks : entry[k].listeners # {}}
<1>1. Use(heard) /\ heard \subseteq held /\ heard \in SUBSET Keys
  BY DEF Notify, TypeOK
<1> QED BY <1>1 DEF UsesKeys

(* Every step leaves the cache alone or uses keys. *)
LEMMA StepUses ==
  ASSUME TypeOK, [Next]_vars
  PROVE  UNCHANGED cacheVars \/ UsesKeys
<1>1. ASSUME NEW k \in Keys, Use({k}) PROVE UsesKeys
  BY <1>1 DEF UsesKeys
<1>2. CASE UNCHANGED vars
  BY <1>2 DEF vars, cacheVars
<1>3. ASSUME NEW c \in Components, NEW k \in Keys,
             Render(c, k) \/ Subscribe(c, k) \/ Abandon(c, k) \/ Unsubscribe(c, k)
      PROVE  UNCHANGED cacheVars \/ UsesKeys
  BY <1>1, <1>3 DEF Render, Subscribe, Abandon, Unsubscribe, cacheVars
<1>4. ASSUME NEW k \in Keys, Read(k) \/ Invalidate(k) \/ SetData(k) \/ Expire(k)
      PROVE  UNCHANGED cacheVars \/ UsesKeys
  BY <1>1, <1>4 DEF Read, Invalidate, SetData, Expire, cacheVars
<1>5. ASSUME NEW k \in Keys, NEW n \in Numbers,
             FetchReturns(k, n) \/ FetchRaises(k, n) \/ FetchCancelled(k, n)
      PROVE  UNCHANGED cacheVars \/ UsesKeys
  <2>1. CASE Current(k, n) /\ Notify({k})
    BY <2>1, NotifyUses DEF Current
  <2>2. CASE ~(Current(k, n) /\ Notify({k}))
    BY <1>5, <2>2 DEF FetchReturns, FetchRaises, FetchCancelled, cacheVars
  <2> QED BY <2>1, <2>2
<1>6. CASE InvalidateAll
  BY <1>6, NotifyUses DEF InvalidateAll
<1> QED BY <1>2, <1>3, <1>4, <1>5, <1>6 DEF Next

(* Keys that are used go to the end of the order, which stays strict. *)
LEMMA UseOrder ==
  ASSUME TypeOK, Order, UsesKeys
  PROVE  Order'
<1>1. PICK ks \in SUBSET Keys : Use(ks) /\ (ks \subseteq held \/ \E k \in Keys : ks = {k})
  BY DEF UsesKeys
<1>2. IsFiniteSet(held) /\ IsFiniteSet(ks)
  BY <1>1, FS_Subset, FS_Singleton DEF Order
<1>3. IsFiniteSet(held \cup ks) /\ held' \subseteq held \cup ks
  BY <1>1, <1>2, FS_Union, UseFacts
<1>4. IsFiniteSet(held')
  BY <1>3, FS_Subset
<1>5. \A p, q \in held' :
        <<p, q>> \in older' <=> \/ p \notin ks /\ q \in ks
                                \/ (p \in ks <=> q \in ks) /\ <<p, q>> \in older
  BY <1>1 DEF Use
<1>6. older \subseteq held \X held
  BY DEF TypeOK
<1>7. ASSUME NEW p \in held' PROVE <<p, p>> \notin older'
  BY <1>5, <1>6 DEF Order
<1>8. ASSUME NEW p \in held', NEW q \in held', NEW r \in held',
             <<p, q>> \in older', <<q, r>> \in older'
      PROVE  <<p, r>> \in older'
  <2>1. <<p, q>> \in older /\ <<q, r>> \in older => <<p, r>> \in older
    BY <1>6 DEF Order
  <2> QED BY <1>5, <1>8, <2>1
<1> QED BY <1>4, <1>7, <1>8 DEF Order

(* The entries that a new one may push out, and those before one of them. *)
Others(k) == {o \in held \ {k} : Idle(o)}
Before(k, q) == {o \in Others(k) : <<o, q>> \in older}

(* A strict order ranks its elements. *)
LEMMA Ranks ==
  ASSUME TypeOK, Order, NEW k, NEW q \in Others(k), NEW o \in Before(k, q)
  PROVE  /\ Cardinality(Before(k, o)) \in Nat /\ Cardinality(Before(k, q)) \in Nat
         /\ Cardinality(Before(k, o)) < Cardinality(Before(k, q))
<1>1. Before(k, o) \subseteq Before(k, q)
  BY DEF Before, Others, Order
<1>2. o \in Before(k, q) /\ o \notin Before(k, o)
  BY DEF Before, Others, Order
<1>3. Before(k, q) \in SUBSET held /\ Before(k, o) \in SUBSET held
  BY DEF Before, Others
<1>4. IsFiniteSet(Before(k, q)) /\ IsFiniteSet(Before(k, o))
  BY <1>3, FS_Subset DEF Order
<1>5. /\ Cardinality(Before(k, o)) <= Cardinality(Before(k, q))
      /\ Cardinality(Before(k, q)) # Cardinality(Before(k, o))
  BY <1>1, <1>2, <1>4, FS_Subset
<1>6. Cardinality(Before(k, o)) \in Nat /\ Cardinality(Before(k, q)) \in Nat
  BY <1>4, FS_CardinalityType
<1> QED BY <1>5, <1>6

(* When an idle entry survives a new one, room was made. *)
LEMMA RoomMade ==
  ASSUME TypeOK, Order, NEW k \in Keys, k \notin held, Use({k}),
         NEW p \in held \cap held', Idle(p)
  PROVE  Cardinality(held') <= Capacity
<1> DEFINE all == held \cup {k}
           rank(o) == Cardinality(Before(k, o))
           kept == Others(k) \ Gone({k})
<1>1. Gone({k}) = {o \in Others(k) : rank(o) + Capacity < Cardinality(all)}
  BY DEF Gone, Others, Before
<1>2. held' = all \ Gone({k})
  BY DEF Use
<1>3. p \in kept
  BY <1>2 DEF Others
<1>4. IsFiniteSet(held) /\ IsFiniteSet(all)
  BY FS_AddElement DEF Order
<1>5. \A o \in Others(k) : rank(o) \in Nat
  <2> SUFFICES ASSUME NEW o \in Others(k) PROVE rank(o) \in Nat
    OBVIOUS
  <2>1. Before(k, o) \in SUBSET held
    BY DEF Before, Others
  <2> QED BY <1>4, <2>1, FS_Subset, FS_CardinalityType
<1>6. PICK q \in kept : \A o \in kept : rank(q) <= rank(o)
  <2> DEFINE S == {rank(o) : o \in kept}
  <2>1. S \in SUBSET Nat /\ S # {}
    BY <1>3, <1>5
  <2>2. PICK m \in S : \A n \in S : m <= n
    BY <2>1, LeastNumber
  <2> QED BY <2>2
<1>7. Before(k, q) \subseteq Gone({k})
  <2> SUFFICES ASSUME NEW o \in Before(k, q), o \notin Gone({k}) PROVE FALSE
    OBVIOUS
  <2>1. o \in kept
    BY DEF Before
  <2>2. rank(o) \in Nat /\ rank(q) \in Nat /\ rank(o) < rank(q)
    BY <1>6, Ranks
  <2> QED BY <1>6, <2>1, <2>2
<1>8. Gone({k}) \in SUBSET all
  BY <1>1 DEF Others
<1>9. IsFiniteSet(Gone({k})) /\ rank(q) <= Cardinality(Gone({k}))
  BY <1>4, <1>7, <1>8, FS_Subset
<1>10. Cardinality(held') = Cardinality(all) - Cardinality(Gone({k}))
  <2>1. all \cap Gone({k}) = Gone({k})
    BY <1>8
  <2> QED BY <1>2, <1>4, <2>1, FS_Difference
<1>11. ~(rank(q) + Capacity < Cardinality(all))
  BY <1>1, <1>6
<1>12. /\ Cardinality(all) \in Nat /\ Cardinality(Gone({k})) \in Nat
       /\ rank(q) \in Nat /\ Capacity \in Nat
  BY <1>4, <1>5, <1>6, <1>9, FS_CardinalityType, CapacityAssumption
<1> HIDE DEF all, rank, kept
<1> QED BY <1>9, <1>10, <1>11, <1>12

(* A step that uses keys bounds the cache and evicts idle entries only. *)
LEMMA UseBounds ==
  ASSUME TypeOK, Order, UsesKeys
  PROVE  /\ ~(held' \subseteq held) =>
              \/ Cardinality(held') <= Capacity
              \/ \A p \in held \cap held' : ~Idle(p)
         /\ \A p \in held \ held' : Idle(p)
<1>1. PICK ks \in SUBSET Keys : Use(ks) /\ (ks \subseteq held \/ \E k \in Keys : ks = {k})
  BY DEF UsesKeys
<1>2. held' \subseteq held \cup ks /\ \A p \in held \ held' : Idle(p)
  BY <1>1, UseFacts
<1>3. ASSUME ~(held' \subseteq held), NEW p \in held \cap held', Idle(p)
      PROVE  Cardinality(held') <= Capacity
  <2>1. PICK k \in Keys : ks = {k} /\ k \notin held
    BY <1>1, <1>2, <1>3
  <2> QED BY <1>1, <1>3, <2>1, RoomMade
<1> QED BY <1>2, <1>3

(* A new entry goes over the capacity only when every other entry is in    *)
(* use, and an entry with subscribers is never evicted: for any capacity   *)
(* and any keys (query.py, _entry).                                        *)
THEOREM QCacheBounded == Spec => CacheBounded
<1>1. Init => Order
  BY FS_EmptySet DEF Init, Order
<1>2. IInv /\ Order /\ [Next]_vars => Order'
  <2> SUFFICES ASSUME IInv, Order, [Next]_vars PROVE Order'
    OBVIOUS
  <2>1. CASE UNCHANGED cacheVars
    BY <2>1 DEF Order, cacheVars
  <2> QED BY <2>1, StepUses, UseOrder DEF IInv
<1>3. IInv /\ Order /\ [Next]_vars =>
        [/\ ~(held' \subseteq held) =>
              \/ Cardinality(held') <= Capacity
              \/ \A k \in held \cap held' : ~Idle(k)
         /\ \A k \in held \ held' : Idle(k)]_vars
  <2> SUFFICES ASSUME IInv, Order, [Next]_vars
               PROVE  /\ ~(held' \subseteq held) =>
                           \/ Cardinality(held') <= Capacity
                           \/ \A k \in held \cap held' : ~Idle(k)
                      /\ \A k \in held \ held' : Idle(k)
    OBVIOUS
  <2>1. CASE UNCHANGED cacheVars
    BY <2>1 DEF cacheVars
  <2> QED BY <2>1, StepUses, UseBounds DEF IInv
<1> QED BY <1>1, <1>2, <1>3, QInvariant, PTL DEF Spec, CacheBounded
=============================================================================
